----------------------------- MODULE CanonStore -----------------------------
(***************************************************************************)
(* The Canon v3 object store and its atomic HEAD publisher                 *)
(* (src/scripts/data_modules/canon_v3/repository.py).                      *)
(*                                                                         *)
(* Several processes share the directory .story-system/v3: immutable,      *)
(* content-addressed objects (transactions, decisions, commits, manifests) *)
(* and one mutable pointer, CURRENT, that names the active manifest.  A    *)
(* process publishes under the cross-process lock .publish.lock: it        *)
(* compares CURRENT with the head its transaction was prepared against,    *)
(* puts the commit, puts the manifest, and swaps CURRENT.  It may be       *)
(* killed between any two of these writes; the operating system then       *)
(* frees its lock and the objects already written stay.                    *)
(*                                                                         *)
(* The hash of a commit or manifest is its position in the sequence of     *)
(* the payloads stored so far: equal payloads have one hash, different     *)
(* payloads have different ones, and 0 stands for None.                    *)
(***************************************************************************)
EXTENDS Integers, Sequences, FiniteSets

CONSTANTS
    Procs,          \* the processes that publish (CLI calls, agents, dashboard)
    NoProc,         \* nobody holds the publication lock
    Bodies,         \* what tells two transactions for one chapter and head apart
    Choices,        \* what a human decision on a transaction may say
    MaxChapter,     \* bound: the chapters of the novel
    MaxGeneration,  \* bound: no seal starts from a head of this generation
    MaxTxns         \* bound: transactions ever put

ASSUME StoreAssumption ==
    /\ NoProc \notin Procs
    /\ MaxChapter \in Nat \ {0}
    /\ MaxGeneration \in Nat
    /\ MaxTxns \in Nat

VARIABLES
    txns,       \* transactions/ and author_axiom_transactions/
    decisions,  \* decisions/ and author_axiom_decisions/
    commits,    \* commits/ and author_axiom_commits/, by hash
    manifests,  \* manifests/, by hash
    current,    \* CURRENT: the hash of the active manifest, or 0
    lock,       \* who holds .publish.lock
    pc,         \* where each process is in its operation
    req,        \* the operation each process was asked for
    new,        \* the object each process has just put (its local hash)
    ledger      \* history: every manifest hash CURRENT has named, in order

disk == <<txns, decisions, commits, manifests, current>>
vars == <<txns, decisions, commits, manifests, current, lock, pc, req, new, ledger>>

Chapters == 1 .. MaxChapter
Channels == {"chapter", "axiom"}

\* A prepared transaction carries the head it was compiled against.
\* An author-axiom transaction belongs to no chapter: 0.
Txn == [channel : {"chapter"}, chapter : Chapters, parent : Nat \ {0}, body : Bodies]
         \cup [channel : {"axiom"}, chapter : {0}, parent : Nat \ {0}, body : Bodies]

Decision == [txn : Txn, choice : Choices]

\* A commit names its decisions by choice: each is bound to the commit's own
\* transaction.  The set stands for decision_hashes and lineage_decision_hashes
\* together; canon_effects and records are functions of it and the transaction.
Commit == [txn : Txn, decs : SUBSET Choices,
           revision : Nat \ {0}, base : Nat \ {0}, pred : Nat]

\* An entry of a manifest.  The chapter list is keyed by chapter number; NoEntry
\* is a chapter the list does not have.
Entry == [revision : Nat, commit : Nat]
NoEntry == [revision |-> 0, commit |-> 0]

Manifest == [gen : Nat, parent : Nat, chapters : [Chapters -> Entry], axioms : Seq(Entry)]

NoTxn == [channel |-> "none"]
NoReq == [kind |-> "none", txn |-> NoTxn, decs |-> {}]
InitReq == [kind |-> "initialize", txn |-> NoTxn, decs |-> {}]
SealReq == [kind : {"seal"}, txn : Txn, decs : SUBSET Choices]

NoChapters == [c \in Chapters |-> NoEntry]
Listed(chapters) == {c \in Chapters : chapters[c] # NoEntry}
LastChapter(chapters) ==
    IF Listed(chapters) = {} THEN 0
    ELSE CHOOSE c \in Listed(chapters) : \A d \in Listed(chapters) : d <= c
Before(chapters, c) == [d \in Chapters |-> IF d < c THEN chapters[d] ELSE NoEntry]

LastCommit(axioms) == IF axioms = << >> THEN 0 ELSE axioms[Len(axioms)].commit

\* _put_payload_unlocked: the path of an object is the hash of its bytes, so
\* putting what is already there writes nothing.
Stored(store, payload) == \E i \in DOMAIN store : store[i] = payload
Put(store, payload) == IF Stored(store, payload) THEN store ELSE Append(store, payload)
HashOf(store, payload) == CHOOSE i \in DOMAIN store : store[i] = payload

-----------------------------------------------------------------------------
\* _validate_manifest_payload with validate_references: what a reader accepts,
\* and what _write_current_unlocked demands before it swaps CURRENT.

\* _validate_commit_payload and _validate_author_axiom_commit_payload.
CommitValid(k) ==
    /\ k.txn \in txns
    /\ \A d \in k.decs : [txn |-> k.txn, choice |-> d] \in decisions

ChapterEntriesValid(m) ==
    LET listed == Listed(m.chapters) IN
    \A c \in listed :
        LET e == m.chapters[c] IN
        /\ (c - 1) \in listed \/ \A d \in listed : c <= d
        /\ \A d \in listed : m.chapters[d].commit = e.commit => d = c
        /\ e.commit \in DOMAIN commits
        /\ LET k == commits[e.commit] IN
           /\ CommitValid(k) /\ k.txn.channel = "chapter" /\ k.txn.chapter = c
           /\ k.revision = e.revision
           /\ k.pred = IF (c - 1) \in listed THEN m.chapters[c - 1].commit ELSE 0

AxiomEntriesValid(m) ==
    \A i \in DOMAIN m.axioms :
        LET e == m.axioms[i] IN
        /\ e.revision = i
        /\ e.commit \in DOMAIN commits
        /\ LET k == commits[e.commit] IN
           /\ CommitValid(k) /\ k.txn.channel = "axiom"
           /\ k.revision = i
           /\ k.pred = IF i = 1 THEN 0 ELSE m.axioms[i - 1].commit

ExactlyOneChannelChanged(m, p) ==
    \/ /\ m.axioms = p.axioms
       /\ m.chapters # p.chapters
       /\ Listed(m.chapters) # {}
       /\ LET c == LastChapter(m.chapters) IN
          /\ Before(m.chapters, c) = Before(p.chapters, c)
          /\ commits[m.chapters[c].commit].base = m.parent
    \/ /\ m.chapters = p.chapters
       /\ Len(m.axioms) = Len(p.axioms) + 1
       /\ \A i \in DOMAIN p.axioms : m.axioms[i] = p.axioms[i]
       /\ commits[LastCommit(m.axioms)].base = m.parent

ManifestValid(m) ==
    \/ m.gen = 0 /\ m.parent = 0 /\ m.chapters = NoChapters /\ m.axioms = << >>
    \/ /\ m.gen > 0
       /\ m.chapters # NoChapters \/ m.axioms # << >>
       /\ m.parent \in DOMAIN manifests
       /\ m.gen = manifests[m.parent].gen + 1
       /\ ChapterEntriesValid(m)
       /\ AxiomEntriesValid(m)
       /\ ExactlyOneChannelChanged(m, manifests[m.parent])

-----------------------------------------------------------------------------
Init ==
    /\ txns = {} /\ decisions = {} /\ commits = << >> /\ manifests = << >>
    /\ current = 0
    /\ lock = NoProc
    /\ pc = [p \in Procs |-> "idle"]
    /\ req = [p \in Procs |-> NoReq]
    /\ new = [p \in Procs |-> 0]
    /\ ledger = << >>

Heads == {ledger[i] : i \in DOMAIN ledger}

\* put_transaction, put_author_axiom_transaction: one put under the lock.
\* prepare compiled the transaction against a head it read a while ago.
PutTransaction(p, t) ==
    /\ pc[p] = "idle" /\ lock = NoProc
    /\ t.parent \in Heads
    /\ t \notin txns => Cardinality(txns) < MaxTxns
    /\ txns' = txns \cup {t}
    /\ UNCHANGED <<decisions, commits, manifests, current, lock, pc, req, new, ledger>>

\* put_decision, put_author_axiom_decision.
PutDecision(p, t, d) ==
    /\ pc[p] = "idle" /\ lock = NoProc
    /\ t \in txns
    /\ decisions' = decisions \cup {[txn |-> t, choice |-> d]}
    /\ UNCHANGED <<txns, commits, manifests, current, lock, pc, req, new, ledger>>

\* A caller enters initialize, seal or seal_author_axiom and waits for the lock.
\* The callers pass hashes they have read from a staging pointer.
Ask(p, r) ==
    /\ pc[p] = "idle"
    /\ req' = [req EXCEPT ![p] = r]
    /\ pc' = [pc EXCEPT ![p] = "lock"]
    /\ UNCHANGED <<disk, lock, new, ledger>>

AskInitialize(p) == Ask(p, InitReq)

AskSeal(p, t, D) ==
    /\ t \in txns /\ \A d \in D : [txn |-> t, choice |-> d] \in decisions
    /\ manifests[t.parent].gen < MaxGeneration
    /\ Ask(p, [kind |-> "seal", txn |-> t, decs |-> D])

\* Mutant: the lock file is opened but not locked.
AcquireUnlocked(p) ==
    /\ pc[p] = "lock"
    /\ lock' = p
    /\ pc' = [pc EXCEPT ![p] = "check"]
    /\ UNCHANGED <<disk, req, new, ledger>>

Acquire(p) ==
    /\ pc[p] = "lock" /\ lock = NoProc
    /\ lock' = p
    /\ pc' = [pc EXCEPT ![p] = "check"]
    /\ UNCHANGED <<disk, req, new, ledger>>

\* The end of the with-block, by return or by exception.
Return(p) ==
    /\ lock' = NoProc
    /\ pc' = [pc EXCEPT ![p] = "idle"]
    /\ req' = [req EXCEPT ![p] = NoReq]
    /\ new' = [new EXCEPT ![p] = 0]
    /\ UNCHANGED <<disk, ledger>>

Goto(p, label, hash) ==
    /\ pc' = [pc EXCEPT ![p] = label]
    /\ new' = [new EXCEPT ![p] = hash]
    /\ UNCHANGED <<lock, req, ledger>>

-----------------------------------------------------------------------------
\* _initialize_objects

GenesisManifest == [gen |-> 0, parent |-> 0, chapters |-> NoChapters, axioms |-> << >>]

\* expected_head is None: any other CURRENT is a head conflict.
InitializeCheck(p) ==
    /\ pc[p] = "check" /\ req[p].kind = "initialize"
    /\ \/ /\ current # 0 /\ Return(p)
       \/ /\ current = 0
          /\ manifests' = Put(manifests, GenesisManifest)
          /\ Goto(p, "swap", HashOf(manifests', GenesisManifest))
          /\ UNCHANGED <<txns, decisions, commits, current>>

-----------------------------------------------------------------------------
\* _seal_objects and seal_author_axiom

Expected(p) == req[p].txn.parent
Active == manifests[current]

\* The head has moved from the one the transaction was prepared against:
\* CanonHeadConflict, or for an axiom transaction that is exactly the last one
\* published the answer created=False.  Neither writes.
SealHeadConflict(p) ==
    /\ pc[p] = "check" /\ req[p].kind = "seal"
    /\ current # Expected(p)
    /\ Return(p)

\* _validate_compiled_publication_unlocked or validate_publication_proof does
\* not hold for the staged transaction (modelled in CanonWorkflow), the chapter
\* would leave a gap, or the first chapter is not chapter 1.
SealRefused(p) ==
    /\ pc[p] = "check" /\ req[p].kind = "seal"
    /\ current = Expected(p)
    /\ Return(p)

\* Mutant: the gap test is off by one.
ChapterInSequenceLoose(t) ==
    t.channel = "chapter" => t.chapter <= LastChapter(Active.chapters) + 2

ChapterInSequence(t) ==
    t.channel = "chapter" => t.chapter <= LastChapter(Active.chapters) + 1

\* The entry of the transaction's chapter already holds this publication.
AlreadySealed(p) ==
    LET t == req[p].txn IN
    /\ t.channel = "chapter" /\ Active.chapters[t.chapter] # NoEntry
    /\ LET k == commits[Active.chapters[t.chapter].commit] IN
       k.txn = t /\ k.decs = req[p].decs

\* What the next commit records: for a chapter its revision follows the one it
\* replaces and its predecessor is the chapter before; axioms form one chain.
NewCommit(p) ==
    LET t == req[p].txn
        prefix == Before(Active.chapters, t.chapter) IN
    [txn |-> t, decs |-> req[p].decs, base |-> current,
     revision |-> IF t.channel = "axiom" THEN Len(Active.axioms) + 1
                  ELSE Active.chapters[t.chapter].revision + 1,
     pred |-> IF t.channel = "axiom" THEN LastCommit(Active.axioms)
              ELSE IF prefix = NoChapters THEN 0
              ELSE prefix[LastChapter(prefix)].commit]

\* Mutant: CURRENT is not compared with the head the transaction expects.
SealCommitUncompared(p) ==
    /\ pc[p] = "check" /\ req[p].kind = "seal"
    /\ CommitValid(req[p])
    /\ ChapterInSequence(req[p].txn)
    /\ IF AlreadySealed(p) THEN Return(p)
       ELSE /\ commits' = Put(commits, NewCommit(p))
            /\ Goto(p, "manifest", HashOf(commits', NewCommit(p)))
            /\ UNCHANGED <<txns, decisions, manifests, current>>

\* The compare-and-swap comparison, the checks, and the put of the commit.
SealCommit(p) ==
    /\ pc[p] = "check" /\ req[p].kind = "seal"
    /\ current = Expected(p)
    /\ CommitValid(req[p])
    /\ ChapterInSequence(req[p].txn)
    /\ IF AlreadySealed(p) THEN Return(p)
       ELSE /\ commits' = Put(commits, NewCommit(p))
            /\ Goto(p, "manifest", HashOf(commits', NewCommit(p)))
            /\ UNCHANGED <<txns, decisions, manifests, current>>

\* Mutant: a revised chapter keeps the chapters after it.
NewManifestKeepsSuffix(p) ==
    LET t == req[p].txn
        entry == [revision |-> commits[new[p]].revision, commit |-> new[p]] IN
    [gen |-> Active.gen + 1, parent |-> current,
     chapters |->
        IF t.channel = "axiom" THEN Active.chapters
        ELSE [Active.chapters EXCEPT ![t.chapter] = entry],
     axioms |->
        IF t.channel = "axiom" THEN Append(Active.axioms, entry) ELSE Active.axioms]

\* The new manifest: a chapter replaces its own entry and drops the suffix; an
\* axiom commit is appended and leaves the chapters alone.
NewManifest(p) ==
    LET t == req[p].txn
        entry == [revision |-> commits[new[p]].revision, commit |-> new[p]] IN
    [gen |-> Active.gen + 1, parent |-> current,
     chapters |->
        IF t.channel = "axiom" THEN Active.chapters
        ELSE [Before(Active.chapters, t.chapter) EXCEPT ![t.chapter] = entry],
     axioms |->
        IF t.channel = "axiom" THEN Append(Active.axioms, entry) ELSE Active.axioms]

SealManifest(p) ==
    /\ pc[p] = "manifest"
    /\ manifests' = Put(manifests, NewManifest(p))
    /\ Goto(p, "swap", HashOf(manifests', NewManifest(p)))
    /\ UNCHANGED <<txns, decisions, commits, current>>

\* _write_current_unlocked: the whole reachable revision is validated, then
\* CURRENT is replaced in one rename.  SealsValidate (below) says the validation
\* never refuses what the sealing code has built.
SwapHead(p) ==
    /\ pc[p] = "swap"
    /\ ManifestValid(manifests[new[p]])
    /\ current' = new[p]
    /\ ledger' = Append(ledger, new[p])
    /\ pc' = [pc EXCEPT ![p] = "return"]
    /\ UNCHANGED <<txns, decisions, commits, manifests, lock, req, new>>

\* Mutant: the last return path forgets the unlock.
PublishedStillLocked(p) ==
    /\ pc[p] = "return"
    /\ pc' = [pc EXCEPT ![p] = "idle"]
    /\ req' = [req EXCEPT ![p] = NoReq]
    /\ new' = [new EXCEPT ![p] = 0]
    /\ UNCHANGED <<disk, lock, ledger>>

Published(p) == pc[p] = "return" /\ Return(p)

\* Mutant: a failing publication deletes the object it put last.
CrashCleansUp(p) ==
    /\ pc[p] # "idle"
    /\ lock' = IF lock = p THEN NoProc ELSE lock
    /\ manifests' = IF pc[p] \in {"swap", "return"} /\ new[p] = Len(manifests)
                       THEN SubSeq(manifests, 1, Len(manifests) - 1) ELSE manifests
    /\ pc' = [pc EXCEPT ![p] = "idle"]
    /\ req' = [req EXCEPT ![p] = NoReq]
    /\ new' = [new EXCEPT ![p] = 0]
    /\ UNCHANGED <<txns, decisions, commits, current, ledger>>

\* Mutant: a failing publication puts the former CURRENT back.
CrashRollsBack(p) ==
    /\ pc[p] # "idle"
    /\ lock' = IF lock = p THEN NoProc ELSE lock
    /\ current' = IF pc[p] = "return" THEN manifests[new[p]].parent ELSE current
    /\ pc' = [pc EXCEPT ![p] = "idle"]
    /\ req' = [req EXCEPT ![p] = NoReq]
    /\ new' = [new EXCEPT ![p] = 0]
    /\ UNCHANGED <<txns, decisions, commits, manifests, ledger>>

\* The process is killed (or an injected fault escapes): its lock goes, its
\* local state goes, what it has put stays.
Crash(p) ==
    /\ pc[p] # "idle"
    /\ lock' = IF lock = p THEN NoProc ELSE lock
    /\ pc' = [pc EXCEPT ![p] = "idle"]
    /\ req' = [req EXCEPT ![p] = NoReq]
    /\ new' = [new EXCEPT ![p] = 0]
    /\ UNCHANGED <<disk, ledger>>

\* One step of the holder of the lock towards the end of its operation.
Work(p) ==
    \/ InitializeCheck(p)
    \/ SealHeadConflict(p) \/ SealRefused(p) \/ SealCommit(p)
    \/ SealManifest(p) \/ SwapHead(p) \/ Published(p)

Transactions ==
    [channel : {"chapter"}, chapter : Chapters, parent : Heads, body : Bodies]
      \cup [channel : {"axiom"}, chapter : {0}, parent : Heads, body : Bodies]

Next ==
    \E p \in Procs :
        \/ \E t \in Transactions : PutTransaction(p, t)
        \/ \E t \in txns, d \in Choices : PutDecision(p, t, d)
        \/ AskInitialize(p)
        \/ \E t \in txns, D \in SUBSET Choices : AskSeal(p, t, D)
        \/ Acquire(p)
        \/ Work(p)
        \/ Crash(p)

Spec == Init /\ [][Next]_vars

-----------------------------------------------------------------------------
(* Properties *)

\* Every variable has its type.
TypeOK ==
    /\ txns \subseteq Txn
    /\ decisions \subseteq Decision
    /\ commits \in Seq(Commit)
    /\ manifests \in Seq(Manifest)
    /\ current \in 0 .. Len(manifests)
    /\ lock \in Procs \cup {NoProc}
    /\ pc \in [Procs -> {"idle", "lock", "check", "manifest", "swap", "return"}]
    /\ req \in [Procs -> SealReq \cup {NoReq, InitReq}]
    /\ new \in [Procs -> Nat]
    /\ ledger \in Seq(1 .. Len(manifests))

\* The history of CURRENT is one line: it starts at the genesis manifest, every
\* published manifest names the one before it as parent and counts one
\* generation more, and CURRENT is the last.  Two processes that race to publish
\* on one head, or a retry after a crash, would fork it or lose a publication.
LedgerIsOneLine ==
    /\ current = IF ledger = << >> THEN 0 ELSE ledger[Len(ledger)]
    /\ \A i \in DOMAIN ledger :
          /\ manifests[ledger[i]].gen = i - 1
          /\ manifests[ledger[i]].parent = IF i = 1 THEN 0 ELSE ledger[i - 1]

\* Whatever CURRENT reaches is stored: the manifest's commits, their transactions
\* and decisions, their predecessors, so no crash leaves a head that dangles.
ReachableIsStored ==
    current # 0 => current \in DOMAIN manifests /\ ManifestValid(manifests[current])

\* The manifest a process is about to publish always passes the validation that
\* precedes the swap: what seal and seal_author_axiom build and what
\* _validate_manifest_payload accepts agree, for every interleaving and crash.
SealsValidate ==
    \A p \in Procs : pc[p] = "swap" => ManifestValid(manifests[new[p]])

\* The active chapters are 1 .. n without a gap, whatever revisions were sealed.
ChaptersContiguous ==
    \A i \in DOMAIN ledger :
        LET chapters == manifests[ledger[i]].chapters IN
        Listed(chapters) = 1 .. LastChapter(chapters)

\* The commit a step of the ledger added.
CommitAt(i) ==
    LET m == manifests[ledger[i]]
        p == manifests[ledger[i - 1]] IN
    IF m.axioms # p.axioms THEN LastCommit(m.axioms)
    ELSE m.chapters[LastChapter(m.chapters)].commit

\* No transaction is published twice, however often its caller crashes and
\* retries: the head it was prepared against never comes back.
NoDoublePublication ==
    \A i, j \in 2 .. Len(ledger) :
        commits[CommitAt(i)].txn = commits[CommitAt(j)].txn => i = j

\* A step never rewrites or removes an object that is stored, and moves CURRENT
\* only forward by one generation: old manifests and dropped suffixes stay
\* readable.
HistoryIsImmutable ==
    [][ /\ txns \subseteq txns' /\ decisions \subseteq decisions'
        /\ \A i \in DOMAIN commits : i \in DOMAIN commits' /\ commits'[i] = commits[i]
        /\ \A i \in DOMAIN manifests :
              i \in DOMAIN manifests' /\ manifests'[i] = manifests[i]
        /\ current' # current =>
              /\ current' # 0
              /\ manifests'[current'].gen =
                    IF current = 0 THEN 0 ELSE manifests[current].gen + 1 ]_vars

\* Publishing a chapter keeps the chapters before it and the axioms, and leaves
\* nothing after it; publishing an axiom keeps every chapter.
RevisionDropsSuffix ==
    [][ current # 0 /\ current' # current =>
          LET old == manifests[current]
              now == manifests'[current'] IN
          \/ /\ now.axioms = old.axioms
             /\ LET c == LastChapter(now.chapters) IN
                Before(now.chapters, c) = Before(old.chapters, c)
          \/ /\ now.chapters = old.chapters
             /\ Len(now.axioms) = Len(old.axioms) + 1
             /\ SubSeq(now.axioms, 1, Len(old.axioms)) = old.axioms ]_vars

\* What the store shows of a manifest: the transactions its commits publish.
Shown(m) ==
    [chapters |-> [c \in Listed(m.chapters) |-> commits[m.chapters[c].commit].txn],
     axioms |-> [i \in DOMAIN m.axioms |-> commits[m.axioms[i].commit].txn]]

\* The store implements the ledger: seen through CURRENT, locks, object writes,
\* crashes and retries disappear and every swap is one publication.
Ledger == INSTANCE CanonLedger WITH
    prepared <- txns,
    published <- [i \in DOMAIN ledger |-> Shown(manifests[ledger[i]])]
ImplementsLedger == Ledger!Spec

-----------------------------------------------------------------------------
(* The inductive strengthening behind the safety properties *)

\* The publication lock is held exactly inside the with-block: who answers or dies has
\* left it.
LockGuards ==
    \A p \in Procs :
        (lock = p) <=> pc[p] \in {"check", "manifest", "swap", "return"}

\* Every transaction is bound to a head that was published, and every commit
\* was built on the head its transaction was prepared against.
BoundToHeads ==
    /\ \A t \in txns : t.parent \in Heads
    /\ \A p \in Procs : req[p].kind = "seal" => req[p].txn \in txns
    /\ \A i \in DOMAIN commits :
          commits[i].base = commits[i].txn.parent /\ commits[i].base \in Heads

Contiguous(chapters) == \E n \in 0 .. MaxChapter : Listed(chapters) = 1 .. n

HeadsSound ==
    \A h \in Heads : ManifestValid(manifests[h]) /\ Contiguous(manifests[h].chapters)

\* No commit of a published manifest was built on that manifest or a later one.
CommitsOlder ==
    \A i \in DOMAIN ledger :
        LET m == manifests[ledger[i]] IN
        /\ \A c \in Listed(m.chapters) :
              \E j \in 1 .. (i - 1) : commits[m.chapters[c].commit].base = ledger[j]
        /\ \A a \in DOMAIN m.axioms :
              \E j \in 1 .. (i - 1) : commits[m.axioms[a].commit].base = ledger[j]

\* What the process inside the lock has established so far.
InFlight ==
    \A p \in Procs :
        /\ pc[p] = "manifest" =>
              /\ req[p].kind = "seal" /\ current = Expected(p) /\ current # 0
              /\ ChapterInSequence(req[p].txn)
              /\ new[p] \in DOMAIN commits /\ commits[new[p]] = NewCommit(p)
              /\ CommitValid(commits[new[p]])
        /\ pc[p] = "swap" =>
              /\ new[p] \in DOMAIN manifests
              /\ LET m == manifests[new[p]] IN
                 /\ ManifestValid(m) /\ Contiguous(m.chapters)
                 /\ m.parent = current
                 /\ m.gen = IF current = 0 THEN 0 ELSE manifests[current].gen + 1

IInv ==
    /\ TypeOK /\ LockGuards /\ LedgerIsOneLine /\ BoundToHeads
    /\ HeadsSound /\ InFlight

=============================================================================
