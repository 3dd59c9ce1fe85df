-------------------------- MODULE CanonStoreProofs --------------------------
(* The safety of CanonStore, for every set of processes and every bound, and that
   it implements CanonLedger. *)
EXTENDS CanonStore, TLAPS

\* Putting an object keeps every stored one under its hash and stores the new
\* one under the hash put returns (_put_payload_unlocked).
LEMMA PutStores ==
    ASSUME NEW S, NEW store \in Seq(S), NEW x \in S
    PROVE  /\ Put(store, x) \in Seq(S)
           /\ \A i \in DOMAIN store : i \in DOMAIN Put(store, x) /\ Put(store, x)[i] = store[i]
           /\ HashOf(Put(store, x), x) \in DOMAIN Put(store, x)
           /\ Put(store, x)[HashOf(Put(store, x), x)] = x
           /\ Len(store) \in Nat /\ Len(Put(store, x)) \in Nat
           /\ Len(store) <= Len(Put(store, x))
<1>1. /\ Put(store, x) \in Seq(S) /\ Len(store) \in Nat /\ Len(Put(store, x)) \in Nat
      /\ Len(store) <= Len(Put(store, x))
  BY DEF Put
<1>2. \A i \in DOMAIN store : i \in DOMAIN Put(store, x) /\ Put(store, x)[i] = store[i]
  BY DEF Put
<1>3. \E i \in DOMAIN Put(store, x) : Put(store, x)[i] = x
  <2>1. CASE Stored(store, x)
    BY <2>1 DEF Put, Stored
  <2>2. CASE ~ Stored(store, x)
    <3>1. Len(store) + 1 \in DOMAIN Append(store, x) /\ Append(store, x)[Len(store) + 1] = x
      OBVIOUS
    <3>2. QED BY <2>2, <3>1 DEF Put
  <2>3. QED BY <2>1, <2>2
<1>4. QED BY <1>1, <1>2, <1>3 DEF HashOf

\* The last chapter of a list that runs from 1 to n is n.
LEMMA LastOfContiguous ==
    ASSUME NEW chapters \in [Chapters -> Entry], NEW n \in 0 .. MaxChapter,
           Listed(chapters) = 1 .. n
    PROVE  LastChapter(chapters) = n
<1> USE StoreAssumption
<1>1. CASE n = 0
  BY <1>1 DEF LastChapter
<1>2. CASE n > 0
  <2>1. n \in Listed(chapters) /\ \A d \in Listed(chapters) : d <= n
    BY <1>2
  <2>2. \A c \in Listed(chapters) : (\A d \in Listed(chapters) : d <= c) => c = n
    BY <2>1
  <2>3. Listed(chapters) # {}
    BY <2>1
  <2>4. LastChapter(chapters) = CHOOSE c \in Listed(chapters) : \A d \in Listed(chapters) : d <= c
    BY <2>3 DEF LastChapter
  <2>5. QED BY <2>1, <2>2, <2>4
<1>3. QED BY <1>1, <1>2

\* The chapters before c of a list that runs from 1 to n, with c at most n + 1.
LEMMA BeforeContiguous ==
    ASSUME NEW chapters \in [Chapters -> Entry], NEW n \in 0 .. MaxChapter,
           Listed(chapters) = 1 .. n, NEW c \in Chapters
    PROVE  /\ Before(chapters, c) \in [Chapters -> Entry]
           /\ c <= n + 1 => Listed(Before(chapters, c)) = 1 .. (c - 1)
           /\ c > n => Listed(Before(chapters, c)) = 1 .. n
<1>1. NoEntry \in Entry
  BY DEF NoEntry, Entry
<1>2. Before(chapters, c) \in [Chapters -> Entry]
  BY <1>1 DEF Before
<1>3. Listed(Before(chapters, c)) = {d \in Listed(chapters) : d < c}
  BY StoreAssumption DEF Before, Listed, Chapters
<1>4. QED BY <1>2, <1>3, StoreAssumption DEF Chapters

-----------------------------------------------------------------------------
\* No step removes or rewrites an object.
Grows ==
    /\ txns \subseteq txns' /\ decisions \subseteq decisions'
    /\ \A i \in DOMAIN commits : i \in DOMAIN commits' /\ commits'[i] = commits[i]
    /\ \A i \in DOMAIN manifests : i \in DOMAIN manifests' /\ manifests'[i] = manifests[i]

LEMMA ValidStays ==
    ASSUME TypeOK, TypeOK', Grows, NEW m \in Manifest, ManifestValid(m), Contiguous(m.chapters)
    PROVE  ManifestValid(m)'
<1>1. m.chapters \in [Chapters -> Entry] /\ m.axioms \in Seq(Entry)
  BY DEF Manifest
<1>2. CASE m.gen = 0
  BY <1>1, <1>2 DEF ManifestValid, Manifest
<1>3. CASE m.gen > 0
  <2>1. /\ m.parent \in DOMAIN manifests /\ ChapterEntriesValid(m) /\ AxiomEntriesValid(m)
        /\ ExactlyOneChannelChanged(m, manifests[m.parent])
        /\ m.gen = manifests[m.parent].gen + 1
        /\ m.chapters # NoChapters \/ m.axioms # << >>
    BY <1>3 DEF ManifestValid
  <2>2. m.parent \in DOMAIN manifests' /\ manifests'[m.parent] = manifests[m.parent]
    BY <2>1 DEF Grows
  <2>3. \A k \in Commit : CommitValid(k) => CommitValid(k)'
    BY DEF CommitValid, Grows
  <2>4. \A i \in DOMAIN commits : i \in DOMAIN commits' /\ commits'[i] = commits[i] /\ commits[i] \in Commit
    BY DEF Grows, TypeOK
  <2>5. ChapterEntriesValid(m)'
    BY <1>1, <2>1, <2>4, StoreAssumption DEF ChapterEntriesValid, CommitValid, Grows
  <2>6. AxiomEntriesValid(m)'
    BY <1>1, <2>1, <2>4 DEF AxiomEntriesValid, CommitValid, Grows
  <2>7. ExactlyOneChannelChanged(m, manifests[m.parent])'
    <3> DEFINE p == manifests[m.parent]
    <3>1. CASE /\ m.axioms = p.axioms /\ m.chapters # p.chapters /\ Listed(m.chapters) # {}
               /\ LET c == LastChapter(m.chapters) IN
                  /\ Before(m.chapters, c) = Before(p.chapters, c)
                  /\ commits[m.chapters[c].commit].base = m.parent
      <4>1. m.chapters \in [Chapters -> Entry]
        BY <1>1 DEF Manifest
      <4>2. PICK n \in 0 .. MaxChapter : Listed(m.chapters) = 1 .. n
        BY DEF Contiguous
      <4>3. LastChapter(m.chapters) = n /\ n > 0
        BY <3>1, <4>1, <4>2, LastOfContiguous
      <4>4. m.chapters[n].commit \in DOMAIN commits
        BY <2>1, <4>2, <4>3 DEF ChapterEntriesValid
      <4>5. QED BY <1>1, <2>2, <2>4, <3>1, <4>3, <4>4 DEF ExactlyOneChannelChanged
    <3>2. CASE /\ m.chapters = p.chapters /\ Len(m.axioms) = Len(p.axioms) + 1
               /\ \A i \in DOMAIN p.axioms : m.axioms[i] = p.axioms[i]
               /\ commits[LastCommit(m.axioms)].base = m.parent
      <4>1. m.axioms \in Seq(Entry) /\ p.axioms \in Seq(Entry)
        <5>1. p \in Manifest
          BY <2>1 DEF TypeOK
        <5>2. QED BY <1>1, <5>1 DEF Manifest
      <4>2. Len(m.axioms) \in DOMAIN m.axioms /\ m.axioms # << >>
        BY <3>2, <4>1
      <4>3. LastCommit(m.axioms) \in DOMAIN commits
        BY <2>1, <4>2 DEF AxiomEntriesValid, LastCommit
      <4>4. QED BY <1>1, <2>2, <2>4, <3>2, <4>3 DEF ExactlyOneChannelChanged
    <3>3. QED BY <2>1, <3>1, <3>2 DEF ExactlyOneChannelChanged
  <2>8. QED BY <1>1, <1>3, <2>1, <2>2, <2>5, <2>6, <2>7 DEF ManifestValid
<1>4. QED BY <1>1, <1>2, <1>3 DEF Manifest

-----------------------------------------------------------------------------
\* Asking, taking the lock, leaving it and dying touch nothing on disk.
Quiet(p) ==
    \/ AskInitialize(p)
    \/ \E t \in txns, D \in SUBSET Choices : AskSeal(p, t, D)
    \/ Acquire(p)
    \/ lock = p /\ Return(p)
    \/ Crash(p)

LEMMA QuietKeeps ==
    ASSUME IInv, NEW p \in Procs, Quiet(p)
    PROVE  IInv'
<1> USE DEF IInv
<1>1. UNCHANGED <<txns, decisions, commits, manifests, current, ledger>>
  BY DEF Quiet, AskInitialize, AskSeal, Ask, Acquire, Return, Crash, disk
<1> DEFINE Asked == \E r \in SealReq \cup {InitReq} :
                      /\ r.kind = "seal" => r.txn \in txns
                      /\ pc[p] = "idle" /\ pc' = [pc EXCEPT ![p] = "lock"]
                      /\ req' = [req EXCEPT ![p] = r] /\ lock' = lock /\ new' = new
           Taken == /\ pc[p] = "lock" /\ lock = NoProc
                    /\ lock' = p /\ pc' = [pc EXCEPT ![p] = "check"]
                    /\ req' = req /\ new' = new
           Left == /\ pc' = [pc EXCEPT ![p] = "idle"] /\ req' = [req EXCEPT ![p] = NoReq]
                   /\ new' = [new EXCEPT ![p] = 0]
                   /\ lock' = IF lock = p THEN NoProc ELSE lock
<1>a. Asked \/ Taken \/ Left
  <2>1. ASSUME AskInitialize(p) PROVE Asked
    BY <2>1 DEF AskInitialize, Ask, InitReq
  <2>2. ASSUME NEW t \in txns, NEW D \in SUBSET Choices, AskSeal(p, t, D) PROVE Asked
    <3> DEFINE r == [kind |-> "seal", txn |-> t, decs |-> D]
    <3>1. r \in SealReq /\ r.txn \in txns
      BY DEF TypeOK, SealReq
    <3>2. QED BY <2>2, <3>1 DEF AskSeal, Ask
  <2>3. ASSUME Acquire(p) PROVE Taken
    BY <2>3 DEF Acquire
  <2>4. ASSUME (lock = p /\ Return(p)) \/ Crash(p) PROVE Left
    BY <2>4 DEF Return, Crash
  <2>5. QED BY <2>1, <2>2, <2>3, <2>4 DEF Quiet
<1>2. TypeOK' /\ LockGuards'
  <2>1. CASE Asked
    BY <1>1, <2>1 DEF TypeOK, LockGuards
  <2>2. CASE Taken
    BY <1>1, <2>2, StoreAssumption DEF TypeOK, LockGuards
  <2>3. CASE Left
    BY <1>1, <2>3, StoreAssumption DEF TypeOK, LockGuards
  <2>4. QED BY <1>a, <2>1, <2>2, <2>3
<1>4. LedgerIsOneLine'
  BY <1>1 DEF LedgerIsOneLine
<1>5. BoundToHeads'
  <2>1. \A q \in Procs : req'[q].kind = "seal" => req'[q].txn \in txns
    <3>1. CASE Asked
      BY <3>1 DEF BoundToHeads, TypeOK
    <3>2. CASE Taken
      BY <3>2 DEF BoundToHeads
    <3>3. CASE Left
      BY <3>3 DEF BoundToHeads, TypeOK, NoReq
    <3>4. QED BY <1>a, <3>1, <3>2, <3>3
  <2>2. QED BY <1>1, <2>1 DEF BoundToHeads, Heads
<1>6. \A m : ManifestValid(m)' <=> ManifestValid(m)
  BY <1>1 DEF ManifestValid, ChapterEntriesValid, AxiomEntriesValid, CommitValid,
              ExactlyOneChannelChanged
<1>7. HeadsSound'
  BY <1>1, <1>6 DEF HeadsSound, Heads
<1>8. InFlight'
  <2>1. \A q \in Procs : pc'[q] \in {"manifest", "swap"} =>
             pc[q] = pc'[q] /\ req'[q] = req[q] /\ new'[q] = new[q]
    BY <1>a DEF TypeOK
  <2>2. QED BY <1>1, <1>6, <2>1 DEF InFlight, CommitValid, NewCommit, Active, Expected, ChapterInSequence
<1>9. QED BY <1>2, <1>4, <1>5, <1>7, <1>8

-----------------------------------------------------------------------------
LEMMA HeadsAreStored ==
    ASSUME TypeOK
    PROVE  /\ Heads \subseteq DOMAIN manifests
           /\ \A i \in DOMAIN ledger : ledger[i] \in DOMAIN manifests
BY DEF TypeOK, Heads

\* Putting an object leaves the published history as it was.
LEMMA PuttingKeepsLedger ==
    ASSUME IInv, TypeOK', Grows, UNCHANGED <<current, ledger>>
    PROVE  LedgerIsOneLine' /\ HeadsSound'
<1> USE DEF IInv
<1>1. LedgerIsOneLine'
  BY HeadsAreStored DEF LedgerIsOneLine, Grows
<1>2. HeadsSound'
  <2> SUFFICES ASSUME NEW h \in Heads
               PROVE  ManifestValid(manifests[h])' /\ Contiguous(manifests'[h].chapters)
    BY DEF HeadsSound, Heads
  <2>1. h \in DOMAIN manifests /\ manifests'[h] = manifests[h]
    BY HeadsAreStored DEF Grows
  <2>2. ManifestValid(manifests[h]) /\ Contiguous(manifests[h].chapters)
    BY DEF HeadsSound
  <2>3. ManifestValid(manifests[h])'
    <3>1. PICK m \in Manifest : m = manifests[h]
      BY <2>1 DEF TypeOK
    <3>2. ManifestValid(m)'
      BY <2>2, <3>1, ValidStays
    <3>3. QED BY <2>1, <3>1, <3>2
  <2>4. QED BY <2>1, <2>2, <2>3
<1>3. QED BY <1>1, <1>2

LEMMA PutTransactionKeeps ==
    ASSUME IInv, NEW p \in Procs, NEW t \in Transactions, PutTransaction(p, t)
    PROVE  IInv'
<1> USE DEF IInv
<1>1. t \in Txn
  BY HeadsAreStored DEF Transactions, Txn, Heads, TypeOK
<1>2. TypeOK'
  BY <1>1 DEF PutTransaction, TypeOK
<1>3. Grows
  BY DEF PutTransaction, Grows
<1>4. LedgerIsOneLine' /\ HeadsSound'
  BY <1>2, <1>3, PuttingKeepsLedger DEF PutTransaction
<1>5. LockGuards' /\ InFlight'
  BY StoreAssumption DEF PutTransaction, LockGuards, InFlight
<1>6. BoundToHeads'
  BY DEF PutTransaction, BoundToHeads, Heads
<1>7. QED BY <1>2, <1>4, <1>5, <1>6

LEMMA PutDecisionKeeps ==
    ASSUME IInv, NEW p \in Procs, NEW t \in txns, NEW d \in Choices, PutDecision(p, t, d)
    PROVE  IInv'
<1> USE DEF IInv
<1>1. TypeOK'
  BY DEF PutDecision, TypeOK, Decision
<1>2. Grows
  BY DEF PutDecision, Grows
<1>3. LedgerIsOneLine' /\ HeadsSound'
  BY <1>1, <1>2, PuttingKeepsLedger DEF PutDecision
<1>4. LockGuards' /\ InFlight'
  BY StoreAssumption DEF PutDecision, LockGuards, InFlight
<1>5. BoundToHeads'
  BY DEF PutDecision, BoundToHeads, Heads
<1>6. QED BY <1>1, <1>3, <1>4, <1>5

\* Inside the lock the others stand still: only p has something in flight.
LEMMA AloneInLock ==
    ASSUME LockGuards, NEW p \in Procs, pc[p] \in {"check", "manifest", "swap", "return"}
    PROVE  /\ lock = p
           /\ \A q \in Procs : q # p => pc[q] \notin {"check", "manifest", "swap", "return"}
BY DEF LockGuards

-----------------------------------------------------------------------------
LEMMA InitializeKeeps ==
    ASSUME IInv, NEW p \in Procs, InitializeCheck(p)
    PROVE  IInv'
<1> USE DEF IInv
<1>1. lock = p /\ \A q \in Procs : q # p => pc[q] \notin {"check", "manifest", "swap", "return"}
  BY AloneInLock DEF InitializeCheck
<1>2. CASE current # 0 /\ Return(p)
  BY <1>1, <1>2, QuietKeeps DEF Quiet
<1>3. CASE /\ current = 0
           /\ manifests' = Put(manifests, GenesisManifest)
           /\ Goto(p, "swap", HashOf(manifests', GenesisManifest))
           /\ UNCHANGED <<txns, decisions, commits, current>>
  <2>1. GenesisManifest \in Manifest
    BY DEF GenesisManifest, Manifest, NoChapters, NoEntry, Entry
  <2>2. /\ manifests' \in Seq(Manifest)
        /\ \A i \in DOMAIN manifests : i \in DOMAIN manifests' /\ manifests'[i] = manifests[i]
        /\ new'[p] \in DOMAIN manifests' /\ manifests'[new'[p]] = GenesisManifest
        /\ Len(manifests) \in Nat /\ Len(manifests') \in Nat /\ Len(manifests) <= Len(manifests')
    <3>1. manifests \in Seq(Manifest)
      BY DEF TypeOK
    <3>2. new'[p] = HashOf(manifests', GenesisManifest)
      BY <1>3 DEF Goto, TypeOK
    <3>3. QED BY <1>3, <2>1, <3>1, <3>2, PutStores
  <2>4. TypeOK'
    <3>1. new' \in [Procs -> Nat]
      BY <1>3, <2>2 DEF Goto, TypeOK
    <3>2. ledger' \in Seq(1 .. Len(manifests'))
      BY <1>3, <2>2 DEF Goto, TypeOK
    <3>3. pc' \in [Procs -> {"idle", "lock", "check", "manifest", "swap", "return"}]
      BY <1>3 DEF Goto, TypeOK
    <3>4. QED BY <1>3, <2>2, <3>1, <3>2, <3>3 DEF Goto, TypeOK
  <2>5. Grows
    BY <1>3, <2>2 DEF Grows
  <2>6. LedgerIsOneLine' /\ HeadsSound'
    BY <1>3, <2>4, <2>5, PuttingKeepsLedger DEF Goto
  <2>7. LockGuards'
    BY <1>1, <1>3 DEF LockGuards, Goto, TypeOK
  <2>8. BoundToHeads'
    BY <1>3 DEF BoundToHeads, Heads, Goto
  <2>9. ManifestValid(manifests[new[p]])'
    BY <2>2 DEF ManifestValid, GenesisManifest
  <2>10. Contiguous(GenesisManifest.chapters)
    <3>1. Listed(NoChapters) = 1 .. 0
      BY DEF Listed, NoChapters
    <3>2. QED BY <3>1, StoreAssumption DEF Contiguous, GenesisManifest
  <2>11. InFlight'
    <3>1. \A q \in Procs : q # p => pc'[q] \notin {"manifest", "swap"}
      BY <1>1, <1>3 DEF Goto, TypeOK
    <3>2. pc'[p] = "swap"
      BY <1>3 DEF Goto, TypeOK
    <3>3. QED BY <1>3, <2>2, <2>9, <2>10, <3>1, <3>2 DEF InFlight, GenesisManifest
  <2>12. QED BY <2>4, <2>6, <2>7, <2>8, <2>11
<1>4. QED BY <1>2, <1>3 DEF InitializeCheck

\* The commit a seal builds is well formed and bound to the head it read.
LEMMA NewCommitTyped ==
    ASSUME IInv, NEW p \in Procs, req[p].kind = "seal", current = Expected(p),
           CommitValid(req[p])
    PROVE  /\ NewCommit(p) \in Commit /\ current \in Heads /\ current \in DOMAIN manifests
           /\ NewCommit(p).base = NewCommit(p).txn.parent
<1> USE DEF IInv
<1>1. req[p] \in SealReq /\ req[p].txn \in Txn
  BY DEF TypeOK, NoReq, InitReq, SealReq
<1>2. current \in Heads
  BY DEF BoundToHeads, Expected
<1>3. current \in DOMAIN manifests
  BY <1>2, HeadsAreStored
<1>4. Active \in Manifest
  BY <1>3 DEF TypeOK, Active
<1>5. current \in Nat \ {0}
  BY <1>3 DEF TypeOK
<1>6. req[p].txn.channel = "axiom" \/ req[p].txn.chapter \in Chapters
  BY <1>1 DEF Txn
<1>7. NewCommit(p).revision \in Nat \ {0}
  BY <1>4, <1>6 DEF NewCommit, Manifest, Entry
<1>8. NewCommit(p).pred \in Nat
  <2>1. LastCommit(Active.axioms) \in Nat
    <3>1. Active.axioms \in Seq(Entry)
      BY <1>4 DEF Manifest
    <3>2. Active.axioms # << >> => Active.axioms[Len(Active.axioms)] \in Entry
      BY <3>1
    <3>3. QED BY <3>2 DEF LastCommit, Entry
  <2> DEFINE prefix == Before(Active.chapters, req[p].txn.chapter)
  <2>2. ASSUME req[p].txn.channel # "axiom", prefix # NoChapters
        PROVE  prefix[LastChapter(prefix)].commit \in Nat
    <3>1. PICK n \in 0 .. MaxChapter : Listed(Active.chapters) = 1 .. n
      BY <1>2 DEF HeadsSound, Contiguous, Active
    <3>2. Active.chapters \in [Chapters -> Entry] /\ req[p].txn.chapter \in Chapters
      BY <1>4, <1>6, <2>2 DEF Manifest
    <3>3. /\ prefix \in [Chapters -> Entry]
          /\ \E k \in 0 .. MaxChapter : Listed(prefix) = 1 .. k
      BY <3>1, <3>2, BeforeContiguous, StoreAssumption DEF Chapters
    <3>4. PICK k \in 0 .. MaxChapter : Listed(prefix) = 1 .. k
      BY <3>3
    <3>5. LastChapter(prefix) = k
      BY <3>3, <3>4, LastOfContiguous
    <3>6. k # 0
      <4>1. ASSUME k = 0 PROVE FALSE
        <5>1. \A c \in Chapters : prefix[c] = NoEntry
          BY <3>4, <4>1 DEF Listed
        <5>2. prefix = NoChapters
          BY <3>3, <5>1 DEF NoChapters
        <5>3. QED BY <2>2, <5>2
      <4>2. QED BY <4>1
    <3>7. prefix[k] \in Entry
      BY <3>3, <3>4, <3>6, StoreAssumption DEF Chapters
    <3>8. QED BY <3>5, <3>7 DEF Entry
  <2>3. QED BY <2>1, <2>2 DEF NewCommit
<1>9. QED BY <1>1, <1>2, <1>3, <1>5, <1>7, <1>8 DEF NewCommit, Commit, SealReq, Expected

LEMMA SealCommitKeeps ==
    ASSUME IInv, NEW p \in Procs, SealCommit(p)
    PROVE  IInv'
<1> USE DEF IInv
<1>1. lock = p /\ \A q \in Procs : q # p => pc[q] \notin {"check", "manifest", "swap", "return"}
  BY AloneInLock DEF SealCommit
<1>2. CASE AlreadySealed(p)
  BY <1>1, <1>2, QuietKeeps DEF Quiet, SealCommit
<1>3. CASE ~ AlreadySealed(p)
  <2>1. /\ pc[p] = "check" /\ req[p].kind = "seal" /\ current = Expected(p)
        /\ CommitValid(req[p]) /\ ChapterInSequence(req[p].txn)
        /\ commits' = Put(commits, NewCommit(p))
        /\ Goto(p, "manifest", HashOf(commits', NewCommit(p)))
        /\ UNCHANGED <<txns, decisions, manifests, current>>
    BY <1>3 DEF SealCommit
  <2>2. /\ NewCommit(p) \in Commit /\ current \in Heads /\ current \in DOMAIN manifests
        /\ NewCommit(p).base = NewCommit(p).txn.parent
    BY <2>1, NewCommitTyped
  <2>3. /\ commits' \in Seq(Commit)
        /\ \A i \in DOMAIN commits : i \in DOMAIN commits' /\ commits'[i] = commits[i]
        /\ new'[p] \in DOMAIN commits' /\ commits'[new'[p]] = NewCommit(p)
    <3>1. commits \in Seq(Commit)
      BY DEF TypeOK
    <3>2. new'[p] = HashOf(commits', NewCommit(p))
      BY <2>1 DEF Goto, TypeOK
    <3>3. QED BY <2>1, <2>2, <3>1, <3>2, PutStores
  <2>4. TypeOK'
    <3>1. new' \in [Procs -> Nat]
      BY <2>1, <2>3 DEF Goto, TypeOK
    <3>2. pc' \in [Procs -> {"idle", "lock", "check", "manifest", "swap", "return"}]
      BY <2>1 DEF Goto, TypeOK
    <3>3. QED BY <2>1, <2>3, <3>1, <3>2 DEF Goto, TypeOK
  <2>5. Grows
    BY <2>1, <2>3 DEF Grows
  <2>6. LedgerIsOneLine' /\ HeadsSound'
    BY <2>1, <2>4, <2>5, PuttingKeepsLedger DEF Goto
  <2>7. LockGuards'
    BY <1>1, <2>1 DEF LockGuards, Goto, TypeOK
  <2>8. BoundToHeads'
    <3>1. \A i \in DOMAIN commits' :
             \/ i \in DOMAIN commits /\ commits'[i] = commits[i]
             \/ commits'[i] = NewCommit(p)
      BY <2>1, <2>2, <2>3 DEF TypeOK, Put
    <3>2. NewCommit(p).base = current
      BY DEF NewCommit
    <3>3. Heads' = Heads
      BY <2>1 DEF Goto, Heads
    <3>4. QED BY <2>1, <2>2, <3>1, <3>2, <3>3 DEF BoundToHeads, Goto
  <2>9. InFlight'
    <3>1. \A q \in Procs : q # p => pc'[q] \notin {"manifest", "swap"}
      BY <1>1, <2>1 DEF Goto, TypeOK
    <3>2. pc'[p] = "manifest" /\ req' = req
      BY <2>1 DEF Goto, TypeOK
    <3>3. NewCommit(p)' = NewCommit(p) /\ (ChapterInSequence(req[p].txn))' /\ Expected(p)' = Expected(p)
      BY <2>1, <3>2 DEF NewCommit, Active, ChapterInSequence, Expected
    <3>4. CommitValid(commits[new[p]])'
      <4>1. NewCommit(p).txn = req[p].txn /\ NewCommit(p).decs = req[p].decs
        BY DEF NewCommit
      <4>2. commits'[new'[p]].txn = req[p].txn /\ commits'[new'[p]].decs = req[p].decs
        BY <2>3, <4>1
      <4>3. QED BY <2>1, <4>2 DEF CommitValid
    <3>5. current' # 0
      BY <2>1, <2>2 DEF TypeOK
    <3>6. QED BY <2>1, <2>3, <3>1, <3>2, <3>3, <3>4, <3>5 DEF InFlight
  <2>10. QED BY <2>4, <2>6, <2>7, <2>8, <2>9
<1>4. QED BY <1>2, <1>3

\* The step that makes a manifest visible.
LEMMA SwapHeadKeeps ==
    ASSUME IInv, NEW p \in Procs, SwapHead(p)
    PROVE  IInv'
<1> USE DEF IInv
<1>1. lock = p /\ \A q \in Procs : q # p => pc[q] \notin {"check", "manifest", "swap", "return"}
  BY AloneInLock DEF SwapHead
<1>2. /\ new[p] \in DOMAIN manifests
      /\ ManifestValid(manifests[new[p]]) /\ Contiguous(manifests[new[p]].chapters)
      /\ manifests[new[p]].parent = current
      /\ manifests[new[p]].gen = IF current = 0 THEN 0 ELSE manifests[current].gen + 1
  BY DEF InFlight, SwapHead
<1>3. /\ ledger' = Append(ledger, new[p]) /\ ledger \in Seq(1 .. Len(manifests))
      /\ current' = new[p] /\ pc' = [pc EXCEPT ![p] = "return"]
      /\ UNCHANGED <<txns, decisions, commits, manifests, lock, req, new>>
  BY DEF SwapHead, TypeOK
<1> DEFINE n == Len(ledger)
<1>s. /\ n \in Nat /\ DOMAIN ledger = 1 .. n /\ DOMAIN ledger' = 1 .. (n + 1)
      /\ Len(ledger') = n + 1
      /\ \A i \in 1 .. n : ledger'[i] = ledger[i]
      /\ ledger'[n + 1] = new[p]
      /\ ledger = << >> <=> n = 0
  BY <1>3
<1>4. TypeOK'
  BY <1>2, <1>3 DEF TypeOK
<1>5. LockGuards'
  BY <1>1, <1>3 DEF LockGuards, TypeOK
<1>6. LedgerIsOneLine'
  <2>1. ASSUME NEW i \in 1 .. n
        PROVE  /\ manifests[ledger'[i]].gen = i - 1
               /\ manifests[ledger'[i]].parent = IF i = 1 THEN 0 ELSE ledger'[i - 1]
    <3>1. /\ manifests[ledger[i]].gen = i - 1
          /\ manifests[ledger[i]].parent = IF i = 1 THEN 0 ELSE ledger[i - 1]
      BY <1>s DEF LedgerIsOneLine
    <3>2. i # 1 => i - 1 \in 1 .. n
      OBVIOUS
    <3>3. QED BY <1>s, <3>1, <3>2
  <2>2. /\ manifests[new[p]].gen = n
        /\ manifests[new[p]].parent = IF n = 0 THEN 0 ELSE ledger[n]
    <3>1. CASE n = 0
      BY <1>2, <1>s, <3>1 DEF LedgerIsOneLine
    <3>2. CASE n # 0
      <4>1. current = ledger[n] /\ manifests[current].gen = n - 1
        BY <1>s, <3>2 DEF LedgerIsOneLine
      <4>2. current # 0
        BY <1>3, <1>s, <3>2, <4>1
      <4>3. QED BY <1>2, <1>s, <3>2, <4>1, <4>2
    <3>3. QED BY <3>1, <3>2
  <2>3. ASSUME NEW i \in DOMAIN ledger'
        PROVE  /\ manifests'[ledger'[i]].gen = i - 1
               /\ manifests'[ledger'[i]].parent = IF i = 1 THEN 0 ELSE ledger'[i - 1]
    <3>1. CASE i \in 1 .. n
      BY <1>3, <2>1, <3>1
    <3>2. CASE i = n + 1
      <4>1. ledger'[i] = new[p] /\ manifests' = manifests
        BY <1>3, <1>s, <3>2
      <4>2. i # 1 => n \in 1 .. n /\ ledger'[i - 1] = ledger[n]
        BY <1>s, <3>2
      <4>3. i - 1 = n /\ (i = 1 <=> n = 0)
        BY <1>s, <3>2
      <4>4. QED BY <2>2, <4>1, <4>2, <4>3
    <3>3. QED BY <1>s, <3>1, <3>2
  <2>4. current' = IF ledger' = << >> THEN 0 ELSE ledger'[Len(ledger')]
    BY <1>3, <1>s
  <2>5. QED BY <2>3, <2>4 DEF LedgerIsOneLine
<1>7. Heads' = Heads \cup {new[p]}
  BY <1>s DEF Heads
<1>8. BoundToHeads'
  BY <1>3, <1>7 DEF BoundToHeads
<1>9. \A m : ManifestValid(m)' <=> ManifestValid(m)
  BY <1>3 DEF ManifestValid, ChapterEntriesValid, AxiomEntriesValid, CommitValid,
              ExactlyOneChannelChanged
<1>10. HeadsSound'
  BY <1>2, <1>3, <1>7, <1>9 DEF HeadsSound
<1>11. InFlight'
  BY <1>1, <1>3 DEF InFlight, TypeOK
<1>12. QED BY <1>4, <1>5, <1>6, <1>8, <1>10, <1>11

-----------------------------------------------------------------------------
\* What seal_objects builds for a chapter passes the validation of the swap.
LEMMA ChapterManifestValid ==
    ASSUME IInv, NEW p \in Procs, pc[p] = "manifest", req[p].txn.channel = "chapter"
    PROVE  ManifestValid(NewManifest(p)) /\ Contiguous(NewManifest(p).chapters)
<1> USE StoreAssumption DEF IInv
<1> DEFINE t == req[p].txn
           old == Active.chapters
           m == NewManifest(p)
           entry == [revision |-> commits[new[p]].revision, commit |-> new[p]]
<1>1. /\ req[p].kind = "seal" /\ current = t.parent /\ current # 0
      /\ t.chapter <= LastChapter(old) + 1
      /\ new[p] \in DOMAIN commits /\ commits[new[p]] = NewCommit(p)
      /\ CommitValid(commits[new[p]])
  BY DEF InFlight, Expected, ChapterInSequence
<1>2. t \in Txn /\ t.chapter \in Chapters
  <2>1. req \in [Procs -> SealReq \cup {NoReq, InitReq}]
    BY DEF TypeOK
  <2>2. NoReq.kind # "seal" /\ InitReq.kind # "seal"
    BY DEF NoReq, InitReq
  <2>3. req[p] \in SealReq
    BY <1>1, <2>1, <2>2
  <2>4. QED BY <2>3 DEF SealReq, Txn
<1>3. current \in Heads /\ current \in DOMAIN manifests /\ Active \in Manifest
  <2>1. current \in Heads
    BY <1>1 DEF BoundToHeads
  <2>2. QED BY <2>1, HeadsAreStored DEF Active, TypeOK
<1>4. ManifestValid(Active)
  BY <1>3 DEF HeadsSound, Active
<1>5. PICK n \in 0 .. MaxChapter : Listed(old) = 1 .. n
  BY <1>3 DEF HeadsSound, Active, Contiguous
<1>6. old \in [Chapters -> Entry] /\ Active.axioms \in Seq(Entry) /\ Active.gen \in Nat
  BY <1>3 DEF Manifest
<1>7. t.chapter <= n + 1
  BY <1>1, <1>5, <1>6, LastOfContiguous
<1> DEFINE prefix == Before(old, t.chapter)
<1>8. prefix \in [Chapters -> Entry] /\ Listed(prefix) = 1 .. (t.chapter - 1)
  BY <1>2, <1>5, <1>6, <1>7, BeforeContiguous
<1>9. /\ commits[new[p]] \in Commit
      /\ commits[new[p]].txn = t /\ commits[new[p]].base = current
      /\ commits[new[p]].revision = old[t.chapter].revision + 1
      /\ commits[new[p]].pred = IF prefix = NoChapters THEN 0
                                ELSE prefix[LastChapter(prefix)].commit
  BY <1>1, <1>2 DEF NewCommit, TypeOK, Txn
<1>10. new[p] \in Nat \ {0} /\ commits[new[p]].revision \in Nat \ {0}
  BY <1>1, <1>9 DEF TypeOK, Commit
<1>11. /\ m.gen = Active.gen + 1 /\ m.parent = current /\ m.axioms = Active.axioms
       /\ m.chapters = [prefix EXCEPT ![t.chapter] = entry]
  BY <1>2 DEF NewManifest
<1>12. /\ m.chapters \in [Chapters -> Entry]
       /\ m.chapters[t.chapter] = entry /\ entry # NoEntry
       /\ \A c \in Chapters : c # t.chapter => m.chapters[c] = prefix[c]
  BY <1>2, <1>8, <1>10, <1>11 DEF Entry, NoEntry
<1>13. Listed(m.chapters) = 1 .. t.chapter
  <2>1. Listed(m.chapters) = Listed(prefix) \cup {t.chapter}
    BY <1>2, <1>12 DEF Listed
  <2>2. QED BY <1>2, <1>8, <2>1 DEF Chapters
<1>14. LastChapter(m.chapters) = t.chapter
  BY <1>2, <1>12, <1>13, LastOfContiguous DEF Chapters
<1>15. ExactlyOneChannelChanged(m, Active)
  <2>1. Before(m.chapters, t.chapter) = Before(old, t.chapter)
    BY <1>2, <1>12 DEF Before, Chapters
  <2>2. m.chapters # old
    <3>1. old[t.chapter] # entry
      BY <1>2, <1>6, <1>9, <1>10 DEF Entry
    <3>2. QED BY <1>12, <3>1
  <2>3. Listed(m.chapters) # {}
    BY <1>2, <1>13 DEF Chapters
  <2>4. commits[m.chapters[t.chapter].commit].base = m.parent
    BY <1>9, <1>11, <1>12
  <2>5. QED BY <1>11, <1>14, <2>1, <2>2, <2>3, <2>4 DEF ExactlyOneChannelChanged
<1>16. Active.gen = 0 => old = NoChapters /\ Active.axioms = << >>
  BY <1>4 DEF ManifestValid
<1>17. ChapterEntriesValid(Active) /\ AxiomEntriesValid(Active)
  <2>1. CASE Active.gen = 0
    <3>1. Listed(old) = {} /\ DOMAIN Active.axioms = {}
      BY <1>16, <2>1 DEF Listed, NoChapters
    <3>2. QED BY <3>1 DEF ChapterEntriesValid, AxiomEntriesValid
  <2>2. CASE Active.gen # 0
    BY <1>4, <2>2 DEF ManifestValid
  <2>3. QED BY <2>1, <2>2
<1> DEFINE Fits(c) ==
        /\ m.chapters[c].commit \in DOMAIN commits
        /\ CommitValid(commits[m.chapters[c].commit])
        /\ commits[m.chapters[c].commit].txn.channel = "chapter"
        /\ commits[m.chapters[c].commit].txn.chapter = c
        /\ commits[m.chapters[c].commit].revision = m.chapters[c].revision
        /\ commits[m.chapters[c].commit].pred =
              IF c - 1 \in Listed(m.chapters) THEN m.chapters[c - 1].commit ELSE 0
<1>18. ASSUME NEW c \in Listed(m.chapters) PROVE Fits(c)
  <2>1. CASE c = t.chapter
    <3>1. prefix = NoChapters <=> t.chapter = 1
      <4>1. prefix = NoChapters <=> Listed(prefix) = {}
        BY <1>8 DEF Listed, NoChapters
      <4>2. t.chapter = 1 => Listed(prefix) = {}
        BY <1>8
      <4>3. t.chapter # 1 => 1 \in 1 .. (t.chapter - 1)
        BY <1>2 DEF Chapters
      <4>4. t.chapter # 1 => Listed(prefix) # {}
        BY <1>8, <4>3
      <4>5. QED BY <4>1, <4>2, <4>4
    <3>2. t.chapter # 1 => LastChapter(prefix) = t.chapter - 1
      BY <1>2, <1>8, LastOfContiguous DEF Chapters
    <3>3. t.chapter # 1 => prefix[t.chapter - 1] = m.chapters[t.chapter - 1]
      BY <1>2, <1>12 DEF Chapters
    <3>4. c - 1 \in Listed(m.chapters) <=> t.chapter # 1
      BY <1>2, <1>13, <2>1 DEF Chapters
    <3>5. m.chapters[c].commit = new[p] /\ m.chapters[c].revision = commits[new[p]].revision
      BY <1>12, <2>1
    <3>6. commits[new[p]].txn = t /\ t.channel = "chapter" /\ t.chapter = c
      BY <1>9, <2>1
    <3>7. commits[new[p]].pred = IF c - 1 \in Listed(m.chapters) THEN m.chapters[c - 1].commit ELSE 0
      BY <1>9, <2>1, <3>1, <3>2, <3>3, <3>4
    <3>8. QED BY <1>1, <3>5, <3>6, <3>7
  <2>2. CASE c # t.chapter
    <3>1. c \in 1 .. (t.chapter - 1) /\ c \in Chapters /\ c \in Listed(old)
      BY <1>2, <1>5, <1>7, <1>13, <2>2 DEF Chapters
    <3>2. m.chapters[c] = old[c]
      BY <1>2, <1>12, <3>1 DEF Before, Chapters
    <3>3. c # 1 => m.chapters[c - 1] = old[c - 1]
      BY <1>2, <1>12, <3>1 DEF Before, Chapters
    <3>4. c - 1 \in Listed(m.chapters) <=> c - 1 \in Listed(old)
      BY <1>2, <1>5, <1>7, <1>13, <3>1 DEF Chapters
    <3>5. c - 1 \in Listed(old) => c # 1
      BY <1>5, <3>1
    <3>6. QED BY <1>17, <3>1, <3>2, <3>3, <3>4, <3>5 DEF ChapterEntriesValid
  <2>3. QED BY <2>1, <2>2
<1>19. ChapterEntriesValid(m)
  <2>1. \A c \in Listed(m.chapters) :
           \/ c - 1 \in Listed(m.chapters)
           \/ \A d \in Listed(m.chapters) : c <= d
    BY <1>2, <1>13 DEF Chapters
  <2>2. \A c, d \in Listed(m.chapters) : m.chapters[d].commit = m.chapters[c].commit => d = c
    BY <1>18
  <2>3. QED BY <1>18, <2>1, <2>2 DEF ChapterEntriesValid
<1>20. AxiomEntriesValid(m)
  BY <1>11, <1>17 DEF AxiomEntriesValid
<1>21. m.gen > 0 /\ m.parent \in DOMAIN manifests /\ m.gen = manifests[m.parent].gen + 1
  BY <1>3, <1>6, <1>11 DEF Active
<1>22. m.chapters # NoChapters
  BY <1>2, <1>12 DEF NoChapters
<1>23. ExactlyOneChannelChanged(m, manifests[m.parent])
  BY <1>11, <1>15 DEF Active
<1>24. Contiguous(m.chapters)
  BY <1>2, <1>13 DEF Contiguous, Chapters
<1>25. QED BY <1>19, <1>20, <1>21, <1>22, <1>23, <1>24 DEF ManifestValid

\* What seal_author_axiom builds passes the validation of the swap.
LEMMA AxiomManifestValid ==
    ASSUME IInv, NEW p \in Procs, pc[p] = "manifest", req[p].txn.channel = "axiom"
    PROVE  ManifestValid(NewManifest(p)) /\ Contiguous(NewManifest(p).chapters)
<1> USE StoreAssumption DEF IInv
<1> DEFINE t == req[p].txn
           old == Active.axioms
           m == NewManifest(p)
           k == Len(old) + 1
           entry == [revision |-> commits[new[p]].revision, commit |-> new[p]]
<1>1. /\ req[p].kind = "seal" /\ current = t.parent /\ current # 0
      /\ new[p] \in DOMAIN commits /\ commits[new[p]] = NewCommit(p)
      /\ CommitValid(commits[new[p]])
  BY DEF InFlight, Expected
<1>2. current \in Heads /\ current \in DOMAIN manifests /\ Active \in Manifest
  <2>1. current \in Heads
    BY <1>1 DEF BoundToHeads
  <2>2. QED BY <2>1, HeadsAreStored DEF Active, TypeOK
<1>3. ManifestValid(Active) /\ Contiguous(Active.chapters)
  BY <1>2 DEF HeadsSound, Active
<1>4. old \in Seq(Entry) /\ Active.gen \in Nat
  BY <1>2 DEF Manifest
<1>5. /\ commits[new[p]].txn = t /\ commits[new[p]].base = current
      /\ commits[new[p]].revision = k /\ commits[new[p]].pred = LastCommit(old)
  BY <1>1 DEF NewCommit
<1>6. /\ m.gen = Active.gen + 1 /\ m.parent = current /\ m.chapters = Active.chapters
      /\ m.axioms = Append(old, entry)
  BY DEF NewManifest
<1>7. /\ k \in Nat \ {0} /\ DOMAIN m.axioms = 1 .. k /\ Len(m.axioms) = k
      /\ m.axioms[k] = entry /\ \A i \in 1 .. (k - 1) : m.axioms[i] = old[i]
      /\ DOMAIN old = 1 .. (k - 1) /\ m.axioms # << >>
      /\ (old = << >> <=> k = 1)
  BY <1>4, <1>6
<1>8. ChapterEntriesValid(Active) /\ AxiomEntriesValid(Active)
  <2>1. CASE Active.gen = 0
    <3>1. Active.chapters = NoChapters /\ old = << >>
      BY <1>3, <2>1 DEF ManifestValid
    <3>2. Listed(Active.chapters) = {} /\ DOMAIN old = {}
      BY <3>1 DEF Listed, NoChapters
    <3>3. QED BY <3>2 DEF ChapterEntriesValid, AxiomEntriesValid
  <2>2. CASE Active.gen # 0
    BY <1>3, <2>2 DEF ManifestValid
  <2>3. QED BY <2>1, <2>2
<1>9. ChapterEntriesValid(m)
  BY <1>6, <1>8 DEF ChapterEntriesValid
<1> DEFINE Fits(i) ==
        /\ m.axioms[i].revision = i
        /\ m.axioms[i].commit \in DOMAIN commits
        /\ CommitValid(commits[m.axioms[i].commit])
        /\ commits[m.axioms[i].commit].txn.channel = "axiom"
        /\ commits[m.axioms[i].commit].revision = i
        /\ commits[m.axioms[i].commit].pred = IF i = 1 THEN 0 ELSE m.axioms[i - 1].commit
<1>10. ASSUME NEW i \in 1 .. k PROVE Fits(i)
  <2>1. CASE i = k
    <3>1. LastCommit(old) = IF k = 1 THEN 0 ELSE m.axioms[k - 1].commit
      <4>1. k # 1 => m.axioms[k - 1] = old[Len(old)]
        BY <1>4, <1>7
      <4>2. QED BY <1>7, <4>1 DEF LastCommit
    <3>2. m.axioms[i].commit = new[p] /\ m.axioms[i].revision = k
      BY <1>5, <1>7, <2>1
    <3>3. QED BY <1>1, <1>5, <2>1, <3>1, <3>2
  <2>2. CASE i # k
    <3>1. i \in DOMAIN old /\ m.axioms[i] = old[i]
      BY <1>7, <2>2
    <3>2. i # 1 => m.axioms[i - 1] = old[i - 1]
      BY <1>7, <2>2
    <3>3. QED BY <1>8, <3>1, <3>2 DEF AxiomEntriesValid
  <2>3. QED BY <2>1, <2>2
<1>11. AxiomEntriesValid(m)
  BY <1>7, <1>10 DEF AxiomEntriesValid
<1>12. ExactlyOneChannelChanged(m, Active)
  <2>1. Len(m.axioms) = Len(old) + 1 /\ \A i \in DOMAIN old : m.axioms[i] = old[i]
    BY <1>7
  <2>2. commits[LastCommit(m.axioms)].base = m.parent
    BY <1>5, <1>6, <1>7 DEF LastCommit
  <2>3. QED BY <1>6, <2>1, <2>2 DEF ExactlyOneChannelChanged
<1>13. m.gen > 0 /\ m.parent \in DOMAIN manifests /\ manifests[m.parent] = Active
       /\ m.gen = manifests[m.parent].gen + 1
  BY <1>2, <1>4, <1>6 DEF Active
<1>14. QED BY <1>3, <1>6, <1>7, <1>9, <1>11, <1>12, <1>13 DEF ManifestValid

LEMMA SealManifestKeeps ==
    ASSUME IInv, NEW p \in Procs, SealManifest(p)
    PROVE  IInv'
<1> USE DEF IInv
<1>1. lock = p /\ \A q \in Procs : q # p => pc[q] \notin {"check", "manifest", "swap", "return"}
  BY AloneInLock DEF SealManifest
<1> DEFINE m == NewManifest(p)
<1>2. /\ pc[p] = "manifest" /\ manifests' = Put(manifests, m)
      /\ Goto(p, "swap", HashOf(manifests', m))
      /\ UNCHANGED <<txns, decisions, commits, current>>
  BY DEF SealManifest
<1>3. req[p].txn.channel \in Channels /\ req[p].txn \in Txn
  <2>1. req[p] \in SealReq
    BY <1>2 DEF InFlight, TypeOK, NoReq, InitReq
  <2>2. QED BY <2>1 DEF SealReq, Txn, Channels
<1>4. ManifestValid(m) /\ Contiguous(m.chapters)
  BY <1>2, <1>3, ChapterManifestValid, AxiomManifestValid DEF Channels
<1>5. m.parent = current /\ m.gen = manifests[current].gen + 1 /\ current # 0
  BY <1>2 DEF NewManifest, Active, InFlight
<1>6. m \in Manifest
  <2>1. current \in DOMAIN manifests
    BY <1>2, HeadsAreStored DEF InFlight, BoundToHeads, Expected
  <2>2. Active \in Manifest /\ current \in Nat
    BY <2>1 DEF Active, TypeOK
  <2> DEFINE entry == [revision |-> commits[new[p]].revision, commit |-> new[p]]
  <2>3. entry \in Entry
    <3>1. new[p] \in DOMAIN commits
      BY <1>2 DEF InFlight
    <3>2. new[p] \in Nat /\ commits[new[p]] \in Commit
      BY <3>1 DEF TypeOK
    <3>3. QED BY <3>2 DEF Entry, Commit
  <2>4. Before(Active.chapters, req[p].txn.chapter) \in [Chapters -> Entry]
    <3>1. NoEntry \in Entry
      BY DEF NoEntry, Entry
    <3>2. QED BY <2>2, <3>1 DEF Before, Manifest
  <2>5. m.chapters \in [Chapters -> Entry]
    BY <2>2, <2>3, <2>4 DEF NewManifest, Manifest
  <2>6. m.axioms \in Seq(Entry)
    BY <2>2, <2>3 DEF NewManifest, Manifest
  <2>7. QED BY <2>2, <2>5, <2>6 DEF NewManifest, Manifest
<1>7. /\ manifests' \in Seq(Manifest)
      /\ \A i \in DOMAIN manifests : i \in DOMAIN manifests' /\ manifests'[i] = manifests[i]
      /\ new'[p] \in DOMAIN manifests' /\ manifests'[new'[p]] = m
      /\ Len(manifests) \in Nat /\ Len(manifests') \in Nat /\ Len(manifests) <= Len(manifests')
  <2>1. manifests \in Seq(Manifest)
    BY DEF TypeOK
  <2>2. new'[p] = HashOf(manifests', m)
    BY <1>2 DEF Goto, TypeOK
  <2>3. QED BY <1>2, <1>6, <2>1, <2>2, PutStores
<1>8. TypeOK'
  <2>1. new' \in [Procs -> Nat]
    BY <1>2, <1>7 DEF Goto, TypeOK
  <2>2. ledger' \in Seq(1 .. Len(manifests'))
    BY <1>2, <1>7 DEF Goto, TypeOK
  <2>3. pc' \in [Procs -> {"idle", "lock", "check", "manifest", "swap", "return"}]
    BY <1>2 DEF Goto, TypeOK
  <2>4. QED BY <1>2, <1>7, <2>1, <2>2, <2>3 DEF Goto, TypeOK
<1>9. Grows
  BY <1>2, <1>7 DEF Grows
<1>10. LedgerIsOneLine' /\ HeadsSound'
  BY <1>2, <1>8, <1>9, PuttingKeepsLedger DEF Goto
<1>11. LockGuards'
  BY <1>1, <1>2 DEF LockGuards, Goto, TypeOK
<1>12. BoundToHeads'
  BY <1>2 DEF BoundToHeads, Heads, Goto
<1>13. InFlight'
  <2>1. \A q \in Procs : q # p => pc'[q] \notin {"manifest", "swap"}
    BY <1>1, <1>2 DEF Goto, TypeOK
  <2>2. pc'[p] = "swap"
    BY <1>2 DEF Goto, TypeOK
  <2>3. ManifestValid(manifests[new[p]])'
    <3>1. PICK g \in Manifest : g = m
      BY <1>6
    <3>2. ManifestValid(g)'
      BY <1>4, <1>8, <1>9, <3>1, ValidStays
    <3>3. QED BY <1>7, <3>1, <3>2
  <2>4. current' # 0 /\ manifests'[current'] = manifests[current]
    <3>1. current \in DOMAIN manifests
      BY <1>2, HeadsAreStored DEF InFlight, BoundToHeads, Expected
    <3>2. QED BY <1>2, <1>5, <1>7, <3>1
  <2>5. QED BY <1>2, <1>4, <1>5, <1>7, <2>1, <2>2, <2>3, <2>4 DEF InFlight
<1>14. QED BY <1>8, <1>10, <1>11, <1>12, <1>13

LEMMA InitHolds == Init => IInv
<1> SUFFICES ASSUME Init PROVE IInv
  OBVIOUS
<1> USE StoreAssumption DEF Init
<1>1. TypeOK
  BY DEF TypeOK
<1>2. LockGuards /\ LedgerIsOneLine
  BY DEF LockGuards, LedgerIsOneLine
<1>3. BoundToHeads /\ HeadsSound /\ InFlight
  BY DEF BoundToHeads, HeadsSound, InFlight, Heads, NoReq
<1>4. QED BY <1>1, <1>2, <1>3 DEF IInv

\* Every action preserves the inductive invariant.
LEMMA StepKeeps == IInv /\ [Next]_vars => IInv'
<1> SUFFICES ASSUME IInv, [Next]_vars PROVE IInv'
  OBVIOUS
<1>1. CASE UNCHANGED vars
  <2>1. \A m : ManifestValid(m)' <=> ManifestValid(m)
    BY <1>1 DEF vars, ManifestValid, ChapterEntriesValid, AxiomEntriesValid, CommitValid,
                ExactlyOneChannelChanged
  <2>2. (TypeOK /\ LockGuards /\ LedgerIsOneLine /\ BoundToHeads)'
    BY <1>1 DEF IInv, vars, TypeOK, LockGuards, LedgerIsOneLine, BoundToHeads, Heads
  <2>3. HeadsSound'
    BY <1>1, <2>1 DEF IInv, vars, HeadsSound, Heads
  <2>4. InFlight'
    BY <1>1, <2>1 DEF IInv, vars, InFlight, CommitValid, NewCommit, Active, Expected,
                      ChapterInSequence
  <2>5. QED BY <2>2, <2>3, <2>4 DEF IInv
<1>2. ASSUME NEW p \in Procs, NEW t \in Transactions, PutTransaction(p, t) PROVE IInv'
  BY <1>2, PutTransactionKeeps
<1>3. ASSUME NEW p \in Procs, NEW t \in txns, NEW d \in Choices, PutDecision(p, t, d) PROVE IInv'
  BY <1>3, PutDecisionKeeps
<1>4. ASSUME NEW p \in Procs, Quiet(p) PROVE IInv'
  BY <1>4, QuietKeeps
<1>5. ASSUME NEW p \in Procs, InitializeCheck(p) PROVE IInv'
  BY <1>5, InitializeKeeps
<1>6. ASSUME NEW p \in Procs, SealHeadConflict(p) \/ SealRefused(p) \/ Published(p) PROVE IInv'
  <2>1. lock = p /\ Return(p)
    BY <1>6, AloneInLock DEF IInv, SealHeadConflict, SealRefused, Published
  <2>2. QED BY <2>1, QuietKeeps DEF Quiet
<1>7. ASSUME NEW p \in Procs, SealCommit(p) PROVE IInv'
  BY <1>7, SealCommitKeeps
<1>8. ASSUME NEW p \in Procs, SealManifest(p) PROVE IInv'
  BY <1>8, SealManifestKeeps
<1>9. ASSUME NEW p \in Procs, SwapHead(p) PROVE IInv'
  BY <1>9, SwapHeadKeeps
<1>10. QED
  BY <1>1, <1>2, <1>3, <1>4, <1>5, <1>6, <1>7, <1>8, <1>9 DEF Next, Work, Quiet

\* The inductive invariant holds in every reachable state of the store.
THEOREM StoreInvariant == Spec => []IInv
<1>1. QED BY InitHolds, StepKeeps, PTL DEF Spec

\* Every variable of the store keeps its type.
THEOREM StoreTypes == Spec => []TypeOK
<1>1. IInv => TypeOK
  BY DEF IInv
<1>2. QED BY <1>1, StoreInvariant, PTL

\* Publications form one line of generations that ends in CURRENT: no race, crash
\* or retry of seal or seal_author_axiom forks it or drops a publication.
THEOREM OneLine == Spec => []LedgerIsOneLine
<1>1. IInv => LedgerIsOneLine
  BY DEF IInv
<1>2. QED BY <1>1, StoreInvariant, PTL

\* Whatever CURRENT names passes the full validation of its reachable revision.
THEOREM HeadNeverDangles == Spec => []ReachableIsStored
<1>1. IInv => ReachableIsStored
  <2> SUFFICES ASSUME IInv, current # 0
               PROVE  current \in DOMAIN manifests /\ ManifestValid(manifests[current])
    BY DEF ReachableIsStored
  <2>1. ledger # << >> /\ current = ledger[Len(ledger)]
    BY DEF IInv, LedgerIsOneLine
  <2>2. Len(ledger) \in DOMAIN ledger
    BY <2>1 DEF IInv, TypeOK
  <2>3. current \in Heads
    BY <2>1, <2>2 DEF Heads
  <2>4. QED BY <2>3, HeadsAreStored DEF IInv, HeadsSound
<1>2. QED BY <1>1, StoreInvariant, PTL

\* The validation before the swap of CURRENT never refuses what was just built.
THEOREM SealNeverInvalid == Spec => []SealsValidate
<1>1. IInv => SealsValidate
  BY DEF IInv, InFlight, SealsValidate
<1>2. QED BY <1>1, StoreInvariant, PTL

\* Every published manifest lists the chapters 1 to its last without a gap.
THEOREM NoChapterGap == Spec => []ChaptersContiguous
<1>1. IInv => ChaptersContiguous
  <2> SUFFICES ASSUME IInv, NEW i \in DOMAIN ledger
               PROVE  Listed(manifests[ledger[i]].chapters)
                        = 1 .. LastChapter(manifests[ledger[i]].chapters)
    BY DEF ChaptersContiguous
  <2>1. ledger[i] \in Heads /\ ledger[i] \in DOMAIN manifests
    BY HeadsAreStored DEF IInv, Heads
  <2>2. manifests[ledger[i]] \in Manifest
    BY <2>1 DEF IInv, TypeOK
  <2>3. manifests[ledger[i]].chapters \in [Chapters -> Entry]
    BY <2>2 DEF Manifest
  <2>4. PICK n \in 0 .. MaxChapter : Listed(manifests[ledger[i]].chapters) = 1 .. n
    BY <2>1 DEF IInv, HeadsSound, Contiguous
  <2>5. QED BY <2>3, <2>4, LastOfContiguous
<1>2. QED BY <1>1, StoreInvariant, PTL

\* No transaction is published at two places of the ledger.
THEOREM PublishedOnce == Spec => []NoDoublePublication
<1>1. IInv => NoDoublePublication
  <2> SUFFICES ASSUME IInv, NEW i \in 2 .. Len(ledger), NEW j \in 2 .. Len(ledger),
                      commits[CommitAt(i)].txn = commits[CommitAt(j)].txn
               PROVE  i = j
    BY DEF NoDoublePublication
  <2> USE DEF IInv
  <2>1. ASSUME NEW k \in 2 .. Len(ledger)
        PROVE  commits[CommitAt(k)].txn.parent = ledger[k - 1] /\ manifests[ledger[k - 1]].gen = k - 2
    <3> DEFINE m == manifests[ledger[k]]
               q == manifests[ledger[k - 1]]
    <3>1. k \in DOMAIN ledger /\ k - 1 \in DOMAIN ledger /\ k # 1
      BY DEF TypeOK
    <3>2. m.gen = k - 1 /\ m.parent = ledger[k - 1] /\ q.gen = k - 2
      BY <3>1 DEF LedgerIsOneLine
    <3>3. ManifestValid(m) /\ Contiguous(m.chapters) /\ ledger[k] \in DOMAIN manifests
      BY <3>1, HeadsAreStored DEF HeadsSound, Heads
    <3>4. ExactlyOneChannelChanged(m, q) /\ ChapterEntriesValid(m) /\ AxiomEntriesValid(m)
      BY <3>2, <3>3 DEF ManifestValid
    <3>5. m \in Manifest /\ m.chapters \in [Chapters -> Entry] /\ m.axioms \in Seq(Entry)
          /\ q.axioms \in Seq(Entry)
      <4>1. ledger[k] \in DOMAIN manifests /\ ledger[k - 1] \in DOMAIN manifests
        BY <3>1, HeadsAreStored
      <4>2. m \in Manifest /\ q \in Manifest
        BY <4>1 DEF TypeOK
      <4>3. QED BY <4>2 DEF Manifest
    <3>6. CommitAt(k) \in DOMAIN commits /\ commits[CommitAt(k)].base = m.parent
      <4>1. CASE m.axioms = q.axioms
        <5>1. PICK n \in 0 .. MaxChapter : Listed(m.chapters) = 1 .. n
          BY <3>3 DEF Contiguous
        <5>2. LastChapter(m.chapters) = n
          BY <3>5, <5>1, LastOfContiguous
        <5>3. Len(m.axioms) # Len(q.axioms) + 1
          BY <3>5, <4>1
        <5>4. Listed(m.chapters) # {} /\ commits[m.chapters[n].commit].base = m.parent
          BY <3>4, <5>2, <5>3 DEF ExactlyOneChannelChanged
        <5>5. n \in Listed(m.chapters)
          BY <5>1, <5>4
        <5>6. m.chapters[n].commit \in DOMAIN commits
          BY <3>4, <5>5 DEF ChapterEntriesValid
        <5>7. QED BY <4>1, <5>2, <5>4, <5>6 DEF CommitAt
      <4>2. CASE m.axioms # q.axioms
        <5>1. Len(m.axioms) = Len(q.axioms) + 1 /\ commits[LastCommit(m.axioms)].base = m.parent
          BY <3>4, <4>2 DEF ExactlyOneChannelChanged
        <5>2. Len(m.axioms) \in DOMAIN m.axioms /\ m.axioms # << >>
          BY <3>5, <5>1
        <5>3. LastCommit(m.axioms) \in DOMAIN commits
          BY <3>4, <5>2 DEF LastCommit, AxiomEntriesValid
        <5>4. QED BY <4>2, <5>1, <5>3 DEF CommitAt
      <4>3. QED BY <4>1, <4>2
    <3>7. QED BY <3>2, <3>6 DEF BoundToHeads
  <2>2. ledger[i - 1] = ledger[j - 1]
    BY <2>1
  <2>3. QED BY <2>1, <2>2
<1>2. QED BY <1>1, StoreInvariant, PTL

-----------------------------------------------------------------------------
(* CanonStore implements CanonLedger and never rewrites the past.            *)

LEMMA PutGrows ==
    ASSUME NEW S, NEW store \in Seq(S), NEW x
    PROVE  \A i \in DOMAIN store : i \in DOMAIN Put(store, x) /\ Put(store, x)[i] = store[i]
<1>1. store \in Seq(S \cup {x}) OBVIOUS
<1>2. QED BY <1>1 DEF Put

\* Only the swap of CURRENT publishes, and no step loses an object.
LEMMA OnlySwapPublishes ==
    ASSUME IInv, [Next]_vars
    PROVE  Grows /\ (UNCHANGED <<current, ledger>> \/ \E p \in Procs : SwapHead(p))
<1>1. commits \in Seq(Commit) /\ manifests \in Seq(Manifest) BY DEF IInv, TypeOK
<1>2. CASE UNCHANGED vars
  BY <1>2 DEF vars, Grows
<1>3. ASSUME NEW p \in Procs, Quiet(p)
      PROVE  Grows /\ UNCHANGED <<current, ledger>>
  BY <1>3 DEF Quiet, AskInitialize, AskSeal, Ask, Acquire, Return, Crash, disk, Grows
<1>4. ASSUME NEW p \in Procs,
             \/ \E t \in Transactions : PutTransaction(p, t)
             \/ \E t \in txns, d \in Choices : PutDecision(p, t, d)
      PROVE  Grows /\ UNCHANGED <<current, ledger>>
  BY <1>4 DEF PutTransaction, PutDecision, Grows
<1>5. ASSUME NEW p \in Procs, SealHeadConflict(p) \/ SealRefused(p) \/ Published(p)
      PROVE  Grows /\ UNCHANGED <<current, ledger>>
  BY <1>5 DEF SealHeadConflict, SealRefused, Published, Return, disk, Grows
<1>6. ASSUME NEW p \in Procs, InitializeCheck(p)
      PROVE  Grows /\ UNCHANGED <<current, ledger>>
  <2>1. CASE Return(p) BY <2>1 DEF Return, disk, Grows
  <2>2. CASE manifests' = Put(manifests, GenesisManifest)
             /\ UNCHANGED <<txns, decisions, commits, current, ledger>>
    BY <1>1, <2>2, PutGrows DEF Grows
  <2>3. QED BY <1>6, <2>1, <2>2 DEF InitializeCheck, Goto
<1>7. ASSUME NEW p \in Procs, SealCommit(p)
      PROVE  Grows /\ UNCHANGED <<current, ledger>>
  <2>1. CASE Return(p) BY <2>1 DEF Return, disk, Grows
  <2>2. CASE commits' = Put(commits, NewCommit(p))
             /\ UNCHANGED <<txns, decisions, manifests, current, ledger>>
    BY <1>1, <2>2, PutGrows DEF Grows
  <2>3. QED BY <1>7, <2>1, <2>2 DEF SealCommit, Goto
<1>8. ASSUME NEW p \in Procs, SealManifest(p)
      PROVE  Grows /\ UNCHANGED <<current, ledger>>
  BY <1>1, <1>8, PutGrows DEF SealManifest, Goto, Grows
<1>9. ASSUME NEW p \in Procs, SwapHead(p) PROVE Grows
  BY <1>9 DEF SwapHead, Grows
<1>10. QED
  BY <1>2, <1>3, <1>4, <1>5, <1>6, <1>7, <1>8, <1>9 DEF Next, Work, Quiet

-----------------------------------------------------------------------------
(* What a published manifest is                                              *)

\* Every entry of a valid manifest names a stored, valid commit of its channel.
EntriesStored(m) ==
    /\ \A c \in Listed(m.chapters) :
          /\ m.chapters[c].commit \in DOMAIN commits
          /\ commits[m.chapters[c].commit].txn \in txns
          /\ commits[m.chapters[c].commit].txn.channel = "chapter"
          /\ commits[m.chapters[c].commit].txn.chapter = c
    /\ \A a \in DOMAIN m.axioms :
          /\ m.axioms[a].commit \in DOMAIN commits
          /\ commits[m.axioms[a].commit].txn \in txns
          /\ commits[m.axioms[a].commit].txn.channel = "axiom"

LEMMA ValidIsStored ==
    ASSUME NEW m, ManifestValid(m)
    PROVE  EntriesStored(m)
<1>1. CASE m.chapters = NoChapters /\ m.axioms = << >>
  BY <1>1 DEF EntriesStored, Listed, NoChapters
<1>2. CASE ChapterEntriesValid(m) /\ AxiomEntriesValid(m)
  BY <1>2 DEF EntriesStored, ChapterEntriesValid, AxiomEntriesValid, CommitValid
<1>3. QED BY <1>1, <1>2 DEF ManifestValid

LEMMA PublishedIsStored ==
    ASSUME IInv, NEW h \in Heads
    PROVE  /\ h \in DOMAIN manifests /\ manifests[h] \in Manifest
           /\ manifests[h].chapters \in [Chapters -> Entry]
           /\ manifests[h].axioms \in Seq(Entry)
           /\ ManifestValid(manifests[h]) /\ EntriesStored(manifests[h])
<1>1. h \in DOMAIN manifests BY HeadsAreStored DEF IInv
<1>2. manifests[h] \in Manifest BY <1>1 DEF IInv, TypeOK
<1>3. ManifestValid(manifests[h]) BY DEF IInv, HeadsSound
<1>4. QED BY <1>1, <1>2, <1>3, ValidIsStored DEF Manifest

\* One publication: a chapter that drops the suffix, or an axiom that is appended.
NewChapter(m, q) ==
    LET c == LastChapter(m.chapters) IN
    /\ m.axioms = q.axioms
    /\ c \in Chapters /\ c \in Listed(m.chapters)
    /\ Listed(m.chapters) = 1 .. c
    /\ Listed(m.chapters) = {d \in Listed(q.chapters) : d < c} \cup {c}
    /\ \A d \in Listed(m.chapters) \ {c} : m.chapters[d] = q.chapters[d]
    /\ commits[m.chapters[c].commit].base = m.parent
NewAxiom(m, q) ==
    /\ m.chapters = q.chapters
    /\ Len(m.axioms) = Len(q.axioms) + 1
    /\ DOMAIN m.axioms = DOMAIN q.axioms \cup {Len(m.axioms)}
    /\ Len(m.axioms) \notin DOMAIN q.axioms
    /\ \A a \in DOMAIN q.axioms : m.axioms[a] = q.axioms[a]
    /\ commits[m.axioms[Len(m.axioms)].commit].base = m.parent

LEMMA OnePublication ==
    ASSUME NEW m \in Manifest, NEW q \in Manifest,
           ExactlyOneChannelChanged(m, q), Contiguous(m.chapters)
    PROVE  NewChapter(m, q) \/ NewAxiom(m, q)
<1>0. /\ m.chapters \in [Chapters -> Entry] /\ q.chapters \in [Chapters -> Entry]
      /\ m.axioms \in Seq(Entry) /\ q.axioms \in Seq(Entry)
  BY DEF Manifest
<1>1. CASE /\ m.axioms = q.axioms /\ Listed(m.chapters) # {}
           /\ LET c == LastChapter(m.chapters) IN
              /\ Before(m.chapters, c) = Before(q.chapters, c)
              /\ commits[m.chapters[c].commit].base = m.parent
  <2>1. PICK n \in 0 .. MaxChapter : Listed(m.chapters) = 1 .. n BY DEF Contiguous
  <2>2. LastChapter(m.chapters) = n BY <1>0, <2>1, LastOfContiguous
  <2>3. n \in Chapters /\ n \in Listed(m.chapters)
    BY <1>1, <2>1, StoreAssumption DEF Chapters
  <2>4. \A d \in Chapters : d < n => m.chapters[d] = q.chapters[d]
    <3>1. Before(m.chapters, n) = Before(q.chapters, n) BY <1>1, <2>2
    <3>2. \A d \in Chapters : Before(m.chapters, n)[d] = Before(q.chapters, n)[d] BY <3>1
    <3>3. QED BY <3>2 DEF Before
  <2>5. \A d \in Listed(m.chapters) \ {n} : d \in Chapters /\ d < n
    BY <2>1, StoreAssumption DEF Listed, Chapters
  <2>6. Listed(m.chapters) = {d \in Listed(q.chapters) : d < n} \cup {n}
    <3>1. \A d \in Listed(q.chapters) : d < n => d \in Listed(m.chapters)
      BY <2>4 DEF Listed
    <3>2. \A d \in Listed(m.chapters) \ {n} : d \in Listed(q.chapters)
      BY <2>4, <2>5 DEF Listed
    <3>3. QED BY <2>3, <2>5, <3>1, <3>2
  <2>7. QED BY <1>1, <2>1, <2>2, <2>3, <2>4, <2>5, <2>6 DEF NewChapter
<1>2. CASE /\ m.chapters = q.chapters
           /\ Len(m.axioms) = Len(q.axioms) + 1
           /\ \A i \in DOMAIN q.axioms : m.axioms[i] = q.axioms[i]
           /\ commits[LastCommit(m.axioms)].base = m.parent
  <2>1. /\ DOMAIN m.axioms = DOMAIN q.axioms \cup {Len(m.axioms)}
        /\ Len(m.axioms) \notin DOMAIN q.axioms /\ m.axioms # << >>
    BY <1>0, <1>2
  <2>2. QED BY <1>2, <2>1 DEF NewAxiom, LastCommit
<1>3. QED BY <1>1, <1>2 DEF ExactlyOneChannelChanged

\* What a process puts in the place of a HEAD is one publication on it.
LEMMA SwapIsOnePublication ==
    ASSUME IInv, NEW p \in Procs, SwapHead(p), current # 0
    PROVE  LET m == manifests[new[p]]
               q == manifests[current] IN
           /\ current \in Heads /\ new[p] \in DOMAIN manifests
           /\ m \in Manifest /\ m.parent = current /\ EntriesStored(m)
           /\ ExactlyOneChannelChanged(m, q) /\ m.gen = q.gen + 1
           /\ NewChapter(m, q) \/ NewAxiom(m, q)
<1> DEFINE m == manifests[new[p]]
           q == manifests[current]
<1>1. /\ new[p] \in DOMAIN manifests /\ ManifestValid(m) /\ Contiguous(m.chapters)
      /\ m.parent = current /\ m.gen = q.gen + 1
  BY DEF SwapHead, IInv, InFlight
<1>2. current \in Heads
  <2>1. ledger # << >> /\ current = ledger[Len(ledger)]
    BY DEF IInv, LedgerIsOneLine
  <2>2. Len(ledger) \in DOMAIN ledger
    BY <2>1 DEF IInv, TypeOK
  <2>3. QED BY <2>1, <2>2 DEF Heads
<1>3. m \in Manifest /\ q \in Manifest
  BY <1>1, <1>2, PublishedIsStored DEF IInv, TypeOK
<1>4. m.gen # 0 BY <1>1, <1>3 DEF Manifest
<1>5. ExactlyOneChannelChanged(m, q) BY <1>1, <1>4 DEF ManifestValid
<1>6. NewChapter(m, q) \/ NewAxiom(m, q) BY <1>1, <1>3, <1>5, OnePublication
<1>7. EntriesStored(m) BY <1>1, ValidIsStored
<1>8. QED BY <1>1, <1>2, <1>3, <1>5, <1>6, <1>7

-----------------------------------------------------------------------------
(* The past stays                                                            *)

\* No object is rewritten or removed, and CURRENT moves one generation forward.
THEOREM HistoryStays == Spec => HistoryIsImmutable
<1> DEFINE Stays ==
        /\ Grows
        /\ current' # current =>
              /\ current' # 0
              /\ manifests'[current'].gen =
                    IF current = 0 THEN 0 ELSE manifests[current].gen + 1
<1>1. IInv /\ [Next]_vars => Stays
  <2> SUFFICES ASSUME IInv, [Next]_vars, current' # current
               PROVE  /\ current' # 0
                      /\ manifests'[current'].gen =
                            IF current = 0 THEN 0 ELSE manifests[current].gen + 1
    BY OnlySwapPublishes
  <2>1. PICK p \in Procs : SwapHead(p) BY OnlySwapPublishes
  <2>2. current' = new[p] /\ manifests' = manifests BY <2>1 DEF SwapHead
  <2>3. /\ new[p] \in DOMAIN manifests
        /\ manifests[new[p]].gen = IF current = 0 THEN 0 ELSE manifests[current].gen + 1
    BY <2>1 DEF SwapHead, IInv, InFlight
  <2>4. new[p] # 0 BY <2>3 DEF IInv, TypeOK
  <2>5. QED BY <2>2, <2>3, <2>4
<1>2. QED BY <1>1, StoreInvariant, PTL DEF Spec, HistoryIsImmutable, Grows

\* The start of a longer sequence.
LEMMA StartOfLonger ==
    ASSUME NEW S, NEW s \in Seq(S), NEW t \in Seq(S), Len(t) = Len(s) + 1,
           \A i \in DOMAIN s : t[i] = s[i]
    PROVE  SubSeq(t, 1, Len(s)) = s
OBVIOUS

\* A revision keeps the chapters before its own and the axioms; an axiom keeps the
\* chapters and the axioms before it.
THEOREM SuffixIsDropped == Spec => RevisionDropsSuffix
<1> DEFINE Drops ==
        current # 0 /\ current' # current =>
          LET old == manifests[current]
              now == manifests'[current'] IN
          \/ /\ now.axioms = old.axioms
             /\ LET c == LastChapter(now.chapters) IN
                Before(now.chapters, c) = Before(old.chapters, c)
          \/ /\ now.chapters = old.chapters
             /\ Len(now.axioms) = Len(old.axioms) + 1
             /\ SubSeq(now.axioms, 1, Len(old.axioms)) = old.axioms
<1>1. IInv /\ [Next]_vars => Drops
  <2> SUFFICES ASSUME IInv, [Next]_vars, current # 0, current' # current PROVE Drops
    OBVIOUS
  <2>1. PICK p \in Procs : SwapHead(p) BY OnlySwapPublishes
  <2> DEFINE old == manifests[current]
             now == manifests[new[p]]
  <2>2. manifests'[current'] = now BY <2>1 DEF SwapHead
  <2>3. /\ ExactlyOneChannelChanged(now, old)
        /\ now \in Manifest /\ current \in Heads
    BY <2>1, SwapIsOnePublication
  <2>4. old.axioms \in Seq(Entry) /\ now.axioms \in Seq(Entry)
    BY <2>3, PublishedIsStored DEF Manifest
  <2>5. \A s, t \in Seq(Entry) :
           Len(t) = Len(s) + 1 /\ (\A i \in DOMAIN s : t[i] = s[i]) => SubSeq(t, 1, Len(s)) = s
    BY StartOfLonger
  <2>6. \/ /\ now.axioms = old.axioms
           /\ Before(now.chapters, LastChapter(now.chapters))
                = Before(old.chapters, LastChapter(now.chapters))
        \/ /\ now.chapters = old.chapters
           /\ Len(now.axioms) = Len(old.axioms) + 1
           /\ SubSeq(now.axioms, 1, Len(old.axioms)) = old.axioms
    BY <2>3, <2>4, <2>5 DEF ExactlyOneChannelChanged
  <2> HIDE DEF old, now
  <2>7. QED BY <2>2, <2>6 DEF old
<1>2. QED BY <1>1, StoreInvariant, PTL DEF Spec, RevisionDropsSuffix

-----------------------------------------------------------------------------
(* A transaction is published at most once                                   *)

\* The last of the ledger is CURRENT, at the generation that counts it.
LEMMA LedgerFacts ==
    ASSUME IInv
    PROVE  /\ Len(ledger) \in Nat /\ DOMAIN ledger = 1 .. Len(ledger)
           /\ \A i \in DOMAIN ledger : ledger[i] \in Heads /\ manifests[ledger[i]].gen = i - 1
           /\ current = 0 <=> ledger = << >>
           /\ ledger # << >> => Len(ledger) \in DOMAIN ledger /\ current = ledger[Len(ledger)]
<1>1. ledger \in Seq(1 .. Len(manifests)) BY DEF IInv, TypeOK
<1>2. ledger # << >> => current = ledger[Len(ledger)] /\ current # 0
  BY <1>1 DEF IInv, LedgerIsOneLine
<1>3. \A i \in DOMAIN ledger : ledger[i] \in Heads /\ manifests[ledger[i]].gen = i - 1
  BY DEF Heads, IInv, LedgerIsOneLine
<1>4. ledger = << >> => current = 0 BY DEF IInv, LedgerIsOneLine
<1>5. QED BY <1>1, <1>2, <1>3, <1>4

\* The ledger after a swap.
LEMMA LedgerAfterSwap ==
    ASSUME IInv, NEW p \in Procs, SwapHead(p)
    PROVE  /\ DOMAIN ledger' = 1 .. (Len(ledger) + 1) /\ ledger'[Len(ledger) + 1] = new[p]
           /\ Len(ledger') = Len(ledger) + 1
           /\ \A i \in 1 .. Len(ledger) : ledger'[i] = ledger[i]
           /\ UNCHANGED <<txns, commits, manifests>>
<1>1. ledger \in Seq(1 .. Len(manifests)) BY DEF IInv, TypeOK
<1>2. ledger' = Append(ledger, new[p]) /\ UNCHANGED <<txns, commits, manifests>> BY DEF SwapHead
<1>3. QED BY <1>1, <1>2

\* The genesis manifest lists nothing.
LEMMA SwapOfGenesis ==
    ASSUME IInv, NEW p \in Procs, SwapHead(p), current = 0
    PROVE  manifests[new[p]].chapters = NoChapters /\ manifests[new[p]].axioms = << >>
<1>1. manifests[new[p]].gen = 0 /\ ManifestValid(manifests[new[p]])
  BY DEF SwapHead, IInv, InFlight
<1>2. QED BY <1>1 DEF ManifestValid

LEMMA CommitsOlderKept ==
    ASSUME IInv, CommitsOlder, [Next]_vars
    PROVE  CommitsOlder'
<1> DEFINE Older(m, i) ==
        /\ \A c \in Listed(m.chapters) :
              \E j \in 1 .. (i - 1) : commits[m.chapters[c].commit].base = ledger[j]
        /\ \A a \in DOMAIN m.axioms :
              \E j \in 1 .. (i - 1) : commits[m.axioms[a].commit].base = ledger[j]
<1>1. CASE UNCHANGED <<current, ledger>>
  <2> SUFFICES ASSUME NEW i \in DOMAIN ledger PROVE Older(manifests[ledger[i]], i)'
    BY <1>1 DEF CommitsOlder
  <2>1. ledger[i] \in Heads BY DEF Heads
  <2>2. manifests'[ledger'[i]] = manifests[ledger[i]]
    BY <1>1, <2>1, OnlySwapPublishes, PublishedIsStored DEF Grows
  <2>3. EntriesStored(manifests[ledger[i]]) BY <2>1, PublishedIsStored
  <2>4. Older(manifests[ledger[i]], i) BY DEF CommitsOlder
  <2>5. \A k \in DOMAIN commits : commits'[k] = commits[k] BY OnlySwapPublishes DEF Grows
  <2>6. QED BY <1>1, <2>2, <2>3, <2>4, <2>5 DEF EntriesStored
<1>2. ASSUME NEW p \in Procs, SwapHead(p) PROVE CommitsOlder'
  <2>1. PICK n \in Nat : n = Len(ledger) BY LedgerFacts
  <2>2. PICK m : m = manifests[new[p]] OBVIOUS
  <2>3. /\ DOMAIN ledger' = 1 .. (n + 1) /\ ledger'[n + 1] = new[p]
        /\ DOMAIN ledger = 1 .. n /\ \A i \in 1 .. n : ledger'[i] = ledger[i]
        /\ UNCHANGED <<txns, commits, manifests>>
    BY <1>2, <2>1, LedgerAfterSwap, LedgerFacts
  <2>4. ASSUME NEW i \in 1 .. n PROVE Older(manifests[ledger[i]], i)'
    <3>1. Older(manifests[ledger[i]], i) BY <2>3 DEF CommitsOlder
    <3>2. \A j \in 1 .. (i - 1) : ledger'[j] = ledger[j] BY <2>3
    <3>3. manifests'[ledger'[i]] = manifests[ledger[i]] /\ commits' = commits BY <2>3
    <3>4. QED BY <3>1, <3>2, <3>3
  <2>5. Older(m, n + 1)'
    <3>1. CASE current = 0
      <4>1. m.chapters = NoChapters /\ m.axioms = << >> BY <1>2, <2>2, <3>1, SwapOfGenesis
      <4>2. QED BY <4>1 DEF Listed, NoChapters
    <3>2. CASE current # 0
      <4> DEFINE q == manifests[current]
      <4>1. (NewChapter(m, q) \/ NewAxiom(m, q)) /\ m.parent = current
        BY <1>2, <2>2, <3>2, SwapIsOnePublication
      <4>2. n \in 1 .. n /\ n \in DOMAIN ledger /\ current = ledger[n]
        BY <2>1, <2>3, <3>2, LedgerFacts
      <4>3. Older(q, n) BY <4>2 DEF CommitsOlder
      <4>4. \A j \in 1 .. (n - 1) : j \in 1 .. n OBVIOUS
      <4>5. ASSUME NEW c \in Listed(m.chapters)
            PROVE  \E j \in 1 .. n : commits[m.chapters[c].commit].base = ledger[j]
        <5>1. CASE commits[m.chapters[c].commit].base = m.parent BY <4>1, <4>2, <5>1
        <5>2. CASE c \in Listed(q.chapters) /\ m.chapters[c] = q.chapters[c]
          BY <4>3, <4>4, <5>2
        <5>3. QED BY <4>1, <5>1, <5>2 DEF NewChapter, NewAxiom
      <4>6. ASSUME NEW a \in DOMAIN m.axioms
            PROVE  \E j \in 1 .. n : commits[m.axioms[a].commit].base = ledger[j]
        <5>1. CASE commits[m.axioms[a].commit].base = m.parent BY <4>1, <4>2, <5>1
        <5>2. CASE a \in DOMAIN q.axioms /\ m.axioms[a] = q.axioms[a]
          BY <4>3, <4>4, <5>2
        <5>3. QED BY <4>1, <5>1, <5>2 DEF NewChapter, NewAxiom
      <4>7. QED BY <2>3, <4>5, <4>6
    <3>3. QED BY <3>1, <3>2
  <2>6. manifests'[ledger'[n + 1]] = m BY <2>2, <2>3
  <2>7. ASSUME NEW i \in DOMAIN ledger' PROVE Older(manifests[ledger[i]], i)'
    <3>1. CASE i \in 1 .. n BY <2>4, <3>1
    <3>2. CASE i = n + 1 BY <2>5, <2>6, <3>2
    <3>3. i \in 1 .. n \/ i = n + 1 BY <2>1, <2>3
    <3>4. QED BY <3>1, <3>2, <3>3
  <2>8. QED BY <2>7 DEF CommitsOlder
<1>3. QED BY <1>1, <1>2, OnlySwapPublishes

-----------------------------------------------------------------------------
(* CanonStore implements CanonLedger                                         *)

States == [i \in DOMAIN ledger |-> Shown(manifests[ledger[i]])]

\* What was published stays as it is shown, whatever is put beside it.
LEMMA ShownStays ==
    ASSUME IInv, Grows, NEW h \in Heads
    PROVE  Shown(manifests[h])' = Shown(manifests[h])
<1>1. h \in DOMAIN manifests /\ EntriesStored(manifests[h]) BY PublishedIsStored
<1>2. manifests'[h] = manifests[h] BY <1>1 DEF Grows
<1>3. \A i \in DOMAIN commits : commits'[i] = commits[i] BY DEF Grows
<1>4. /\ \A c \in Listed(manifests[h].chapters) :
            commits'[manifests[h].chapters[c].commit] = commits[manifests[h].chapters[c].commit]
      /\ \A a \in DOMAIN manifests[h].axioms :
            commits'[manifests[h].axioms[a].commit] = commits[manifests[h].axioms[a].commit]
  BY <1>1, <1>3 DEF EntriesStored
<1>5. QED BY <1>2, <1>4 DEF Shown, Listed

\* A sequence with one state more.
LEMMA AppendState ==
    ASSUME NEW n \in Nat, NEW S, NEW s \in [1 .. n -> S], NEW t \in [1 .. (n + 1) -> S],
           \A i \in 1 .. n : t[i] = s[i]
    PROVE  t = Append(s, t[n + 1]) /\ Len(s) = n
<1>1. s \in Seq(S) /\ Len(s) = n OBVIOUS
<1>2. t \in Seq(S) /\ Len(t) = n + 1 /\ t[n + 1] \in S OBVIOUS
<1>3. Append(s, t[n + 1]) \in Seq(S) /\ Len(Append(s, t[n + 1])) = n + 1 BY <1>1, <1>2
<1>4. \A i \in 1 .. (n + 1) : Append(s, t[n + 1])[i] = t[i] BY <1>1, <1>2
<1>5. QED BY <1>1, <1>2, <1>3, <1>4

\* A transaction built on HEAD is nowhere on the line below it.
LEMMA NotYetPublished ==
    ASSUME IInv, CommitsOlder, NEW k \in DOMAIN commits, commits[k].base = current, current # 0
    PROVE  commits[k].txn \notin Ledger!EverCanonical
<1>1. PICK n \in Nat : n = Len(ledger) /\ DOMAIN ledger = 1 .. n /\ current = ledger[n]
                      /\ n \in 1 .. n
  BY LedgerFacts
<1>2. commits[k].txn.parent = current BY DEF IInv, BoundToHeads
<1>3. ASSUME NEW i \in DOMAIN ledger, commits[k].txn \in Ledger!Canonical(States[i]) PROVE FALSE
  <2> DEFINE m == manifests[ledger[i]]
  <2>1. EntriesStored(m) BY <1>3, LedgerFacts, PublishedIsStored
  <2>2. PICK e \in DOMAIN commits :
           /\ commits[e].txn = commits[k].txn
           /\ \E j \in 1 .. (i - 1) : commits[e].base = ledger[j]
    <3>1. States[i] = Shown(m) BY DEF States
    <3>2. ASSUME NEW c \in Listed(m.chapters),
                 commits[k].txn = commits[m.chapters[c].commit].txn
          PROVE  \E e \in DOMAIN commits :
                    /\ commits[e].txn = commits[k].txn
                    /\ \E j \in 1 .. (i - 1) : commits[e].base = ledger[j]
      <4>1. m.chapters[c].commit \in DOMAIN commits BY <2>1 DEF EntriesStored
      <4>2. \E j \in 1 .. (i - 1) : commits[m.chapters[c].commit].base = ledger[j]
        BY DEF CommitsOlder
      <4>3. QED BY <3>2, <4>1, <4>2
    <3>3. ASSUME NEW a \in DOMAIN m.axioms,
                 commits[k].txn = commits[m.axioms[a].commit].txn
          PROVE  \E e \in DOMAIN commits :
                    /\ commits[e].txn = commits[k].txn
                    /\ \E j \in 1 .. (i - 1) : commits[e].base = ledger[j]
      <4>1. m.axioms[a].commit \in DOMAIN commits BY <2>1 DEF EntriesStored
      <4>2. \E j \in 1 .. (i - 1) : commits[m.axioms[a].commit].base = ledger[j]
        BY DEF CommitsOlder
      <4>3. QED BY <3>3, <4>1, <4>2
    <3>4. \/ \E c \in Listed(m.chapters) : commits[k].txn = commits[m.chapters[c].commit].txn
          \/ \E a \in DOMAIN m.axioms : commits[k].txn = commits[m.axioms[a].commit].txn
      <4>1. /\ Shown(m).chapters = [c \in Listed(m.chapters) |-> commits[m.chapters[c].commit].txn]
            /\ Shown(m).axioms = [a \in DOMAIN m.axioms |-> commits[m.axioms[a].commit].txn]
        BY DEF Shown
      <4>2. commits[k].txn \in Ledger!Canonical(Shown(m)) BY <1>3, <3>1
      <4>3. \/ \E c \in DOMAIN Shown(m).chapters : commits[k].txn = Shown(m).chapters[c]
            \/ \E a \in DOMAIN Shown(m).axioms : commits[k].txn = Shown(m).axioms[a]
        BY <4>2 DEF Ledger!Canonical
      <4>4. QED BY <4>1, <4>3
    <3>5. QED BY <3>2, <3>3, <3>4
  <2>3. commits[e].base = current BY <1>2, <2>2 DEF IInv, BoundToHeads
  <2>4. PICK j \in 1 .. (i - 1) : ledger[j] = ledger[n] BY <1>1, <2>2, <2>3
  <2>5. j \in 1 .. n /\ j < n BY <1>1, <2>4
  <2>6. manifests[ledger[j]].gen = j - 1 /\ manifests[ledger[n]].gen = n - 1
    BY <1>1, <2>5, LedgerFacts
  <2>7. QED BY <1>1, <2>4, <2>5, <2>6
<1>4. QED BY <1>3 DEF Ledger!EverCanonical, States

\* The swap of CURRENT is one publication of the ledger.
LEMMA SwapIsPublication ==
    ASSUME IInv, CommitsOlder, NEW p \in Procs, SwapHead(p)
    PROVE  Ledger!Next
<1>1. PICK n \in Nat : n = Len(ledger) /\ DOMAIN ledger = 1 .. n BY LedgerFacts
<1>2. PICK m : m = manifests[new[p]] OBVIOUS
<1>3. /\ DOMAIN ledger' = 1 .. (n + 1) /\ ledger'[n + 1] = new[p]
      /\ \A i \in 1 .. n : ledger'[i] = ledger[i]
      /\ UNCHANGED <<txns, commits, manifests>>
  BY <1>1, LedgerAfterSwap
<1> DEFINE x == Shown(m)
<1>4. States' = Append(States, x) /\ Len(States) = n
  <2> DEFINE S == {States[i] : i \in 1 .. n} \cup {x}
  <2>1. \A h : Shown(manifests[h])' = Shown(manifests[h])
    BY <1>3 DEF Shown, Listed
  <2>2. /\ DOMAIN States' = 1 .. (n + 1) /\ \A i \in 1 .. n : States'[i] = States[i]
        /\ States'[n + 1] = x /\ States' = [i \in 1 .. (n + 1) |-> States'[i]]
    BY <1>2, <1>3, <1>1, <2>1 DEF States
  <2>3. States \in [1 .. n -> S] BY <1>1 DEF States
  <2>4. States' \in [1 .. (n + 1) -> S] BY <2>2
  <2>5. QED BY <2>2, <2>3, <2>4, AppendState
<1>5. CASE current = 0
  <2>1. m.chapters = NoChapters /\ m.axioms = << >> BY <1>2, <1>5, SwapOfGenesis
  <2>2. x = [chapters |-> << >>, axioms |-> << >>]
    BY <2>1 DEF Shown, Listed, NoChapters
  <2>3. n = 0 /\ States = << >> BY <1>1, <1>5, LedgerFacts DEF States
  <2>4. States' = << x >> BY <1>4, <2>3
  <2>5. QED BY <1>3, <2>2, <2>3, <2>4 DEF Ledger!Next, Ledger!Initialize, States
<1>6. CASE current # 0
  <2> DEFINE q == manifests[current]
  <2>1. /\ current \in Heads /\ m \in Manifest /\ m.parent = current /\ EntriesStored(m)
        /\ NewChapter(m, q) \/ NewAxiom(m, q)
    BY <1>2, <1>6, SwapIsOnePublication
  <2>2. n # 0 /\ n \in 1 .. n /\ current = ledger[n] BY <1>1, <1>6, LedgerFacts
  <2>3. Ledger!Latest = Shown(q) /\ States # << >>
    BY <1>1, <1>4, <2>2 DEF Ledger!Latest, States
  <2>4. CASE NewChapter(m, q)
    <3> DEFINE c == LastChapter(m.chapters)
               k == m.chapters[c].commit
               t == commits[k].txn
    <3>1. k \in DOMAIN commits /\ t \in txns /\ t.channel = "chapter" /\ t.chapter = c
      BY <2>1, <2>4 DEF NewChapter, EntriesStored
    <3>2. t \notin Ledger!EverCanonical
      BY <1>6, <2>1, <2>4, <3>1, NotYetPublished DEF NewChapter
    <3>3. c = 1 \/ c - 1 \in Listed(q.chapters)
      BY <2>4, StoreAssumption DEF NewChapter, Chapters
    <3>4. x.axioms = Shown(q).axioms BY <2>4 DEF NewChapter, Shown
    <3>5. x.chapters = [d \in {e \in Listed(q.chapters) : e < c} \cup {c} |->
                          IF d = c THEN t ELSE Shown(q).chapters[d]]
      BY <2>4 DEF NewChapter, Shown
    <3>6. DOMAIN Shown(q).chapters = Listed(q.chapters)
          /\ x = [chapters |-> x.chapters, axioms |-> x.axioms]
      BY DEF Shown
    <3>7. Ledger!PublishChapter(t)
      <4>1. x = [chapters |-> [d \in {e \in DOMAIN Ledger!Latest.chapters : e < t.chapter}
                                        \cup {t.chapter} |->
                                 IF d = t.chapter THEN t ELSE Ledger!Latest.chapters[d]],
                 axioms |-> Ledger!Latest.axioms]
        BY <2>3, <3>1, <3>4, <3>5, <3>6
      <4>2. t.chapter = 1 \/ t.chapter - 1 \in DOMAIN Ledger!Latest.chapters
        BY <2>3, <3>1, <3>3, <3>6
      <4> HIDE DEF x, t
      <4>3. QED
        BY <1>3, <1>4, <2>3, <3>1, <3>2, <4>1, <4>2 DEF Ledger!PublishChapter, States
    <3>8. QED BY <3>1, <3>7 DEF Ledger!Next
  <2>5. CASE NewAxiom(m, q)
    <3> DEFINE k == m.axioms[Len(m.axioms)].commit
               t == commits[k].txn
    <3>1. k \in DOMAIN commits /\ t \in txns /\ t.channel = "axiom"
      BY <2>1, <2>5 DEF NewAxiom, EntriesStored
    <3>2. t \notin Ledger!EverCanonical
      BY <1>6, <2>1, <2>5, <3>1, NotYetPublished DEF NewAxiom
    <3>3. x.chapters = Shown(q).chapters BY <2>5 DEF NewAxiom, Shown
    <3>4. x.axioms = Append(Shown(q).axioms, t)
      <4>1. q.axioms \in Seq(Entry) BY <2>1, PublishedIsStored
      <4>2. PICK l \in Nat : l = Len(q.axioms) /\ DOMAIN q.axioms = 1 .. l BY <4>1
      <4>3. /\ DOMAIN m.axioms = 1 .. (l + 1) /\ Len(m.axioms) = l + 1
            /\ \A a \in 1 .. l : m.axioms[a] = q.axioms[a]
        BY <2>5, <4>2 DEF NewAxiom
      <4> DEFINE S == {x.axioms[a] : a \in 1 .. (l + 1)}
      <4>4. /\ \A a \in 1 .. l : x.axioms[a] = Shown(q).axioms[a]
            /\ x.axioms[l + 1] = t
        BY <4>2, <4>3 DEF Shown
      <4>5. x.axioms \in [1 .. (l + 1) -> S] BY <4>3 DEF Shown
      <4>6. Shown(q).axioms \in [1 .. l -> S]
        <5>1. Shown(q).axioms = [a \in 1 .. l |-> Shown(q).axioms[a]] BY <4>2 DEF Shown
        <5>2. \A a \in 1 .. l : Shown(q).axioms[a] \in S BY <4>4
        <5>3. QED BY <5>1, <5>2
      <4>7. x.axioms[l + 1] = t BY <4>4
      <4>8. x.axioms = Append(Shown(q).axioms, x.axioms[l + 1])
        <5> HIDE DEF x, q, S
        <5>1. \A s \in [1 .. l -> S], y \in [1 .. (l + 1) -> S] :
                 (\A a \in 1 .. l : y[a] = s[a]) => y = Append(s, y[l + 1])
          BY AppendState
        <5>2. QED BY <4>4, <4>5, <4>6, <5>1
      <4>9. QED BY <4>7, <4>8
    <3>5. x = [chapters |-> x.chapters, axioms |-> x.axioms] BY DEF Shown
    <3>6. Ledger!PublishAxiom(t)
      BY <1>3, <1>4, <2>3, <3>1, <3>2, <3>3, <3>4, <3>5 DEF Ledger!PublishAxiom, States
    <3>7. QED BY <3>1, <3>6 DEF Ledger!Next
  <2>6. QED BY <2>1, <2>4, <2>5
<1>7. QED BY <1>5, <1>6

\* Every other step compiles at most a transaction.
LEMMA StepOfLedger ==
    ASSUME IInv, CommitsOlder, [Next]_vars
    PROVE  [Ledger!Next]_<<txns, States>>
<1>1. CASE UNCHANGED <<current, ledger>>
  <2>1. Grows BY OnlySwapPublishes
  <2>2. \A i \in DOMAIN ledger : Shown(manifests[ledger[i]])' = Shown(manifests[ledger[i]])
    BY <1>1, <2>1, ShownStays DEF Heads
  <2>3. States' = States BY <1>1, <2>2 DEF States
  <2>4. QED BY <2>1, <2>3 DEF Ledger!Next, Ledger!Prepare, Grows, States
<1>2. QED BY <1>1, OnlySwapPublishes, SwapIsPublication

\* Seen through CURRENT, the store is the ledger: locks, object writes, crashes and
\* retries disappear and every swap is one publication of a transaction that was
\* never published before.
THEOREM StoreIsLedger == Spec => ImplementsLedger
<1>1. Init => Ledger!Init BY DEF Init, Ledger!Init
<1>2. Init => CommitsOlder BY DEF Init, CommitsOlder
<1>3. IInv /\ CommitsOlder /\ [Next]_vars => CommitsOlder' BY CommitsOlderKept
<1>4. IInv /\ CommitsOlder /\ [Next]_vars => [Ledger!Next]_<<txns, States>> BY StepOfLedger
<1>5. QED
  BY <1>1, <1>2, <1>3, <1>4, StoreInvariant, PTL DEF Spec, ImplementsLedger, Ledger!Spec, States
=============================================================================
