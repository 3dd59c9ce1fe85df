------------------------ MODULE DurablePublishProofs ------------------------
(* What survives a power failure, for every set of publications. *)
EXTENDS DurablePublish, TLAPS

\* The name the writer has made and not yet synced.
InHand == IF writer.at = "sync" THEN {Current} ELSE {}

\* The objects of his publication that the writer has put behind him.
Behind ==
    {j \in 1 .. Len(Kinds) : j < writer.kind \/ writer.at \in {"swap", "swapped"}}

WriterOK ==
    \/ writer = NoWriter
    \/ writer \in [at : {"put", "sync", "swap", "swapped"}, kind : 1 .. Len(Kinds), of : Manifests]

\* What is only seen is in the writer's hand or was left by a killed one ...
OnlySeen ==
    /\ synced \subseteq names
    /\ names \subseteq synced \cup orphans \cup InHand
    /\ InHand \subseteq names

\* ... and everything a surviving HEAD names, or the next one will name, is synced or
\* was left by a killed writer.
Kept ==
    /\ head \in survivors
    /\ \A h \in survivors : Reach(h) \subseteq synced \cup orphans
    /\ writer # NoWriter => \A j \in Behind : <<j, writer.of>> \in synced \cup orphans

DurableInv == WriterOK /\ OnlySeen /\ Kept

LEMMA DurableInit == StoreInit => DurableInv
BY DEF StoreInit, DurableInv, WriterOK, OnlySeen, Kept, InHand, Reach, NoWriter

\* There are three kinds.
LEMMA ThreeKinds == Len(Kinds) = 3
BY DEF Kinds

\* A HEAD and one more publication.
LEMMA ReachNext ==
    ASSUME NEW h, NEW p, NEW S, Reach(h) \subseteq S, \A j \in 1 .. Len(Kinds) : <<j, p>> \in S
    PROVE  Reach(h \cup {p}) \subseteq S
BY DEF Reach

\* What the writer is when he goes on after an object.
LEMMA GoesOn ==
    ASSUME WriterOK, writer # NoWriter, GoOn
    PROVE  /\ writer' \in [at : {"put", "swap"}, kind : 1 .. Len(Kinds), of : Manifests]
           /\ writer'.of = writer.of
           /\ writer'.at \in {"put", "swap"}
           /\ writer' # NoWriter
           /\ Behind' \subseteq Behind \cup {writer.kind}
<1> USE ThreeKinds
<1>1. writer \in [at : {"put", "sync", "swap", "swapped"}, kind : 1 .. Len(Kinds), of : Manifests]
  BY DEF WriterOK
<1>2. CASE writer.kind = Len(Kinds)
  <2>1. writer' = [writer EXCEPT !.at = "swap"]
    BY <1>2 DEF GoOn
  <2>2. writer'.at = "swap" /\ writer'.of = writer.of /\ writer'.kind = writer.kind
    BY <2>1, <1>1
  <2>3. writer' \in [at : {"put", "swap"}, kind : 1 .. Len(Kinds), of : Manifests]
    BY <2>1, <1>1
  <2>4. Behind' \subseteq Behind \cup {writer.kind}
    BY <1>1, <1>2, <2>2 DEF Behind
  <2>5. QED BY <2>2, <2>3, <2>4 DEF NoWriter
<1>3. CASE writer.kind # Len(Kinds)
  <2>1. writer' = [writer EXCEPT !.at = "put", !.kind = @ + 1]
    BY <1>3 DEF GoOn
  <2>2. writer'.at = "put" /\ writer'.of = writer.of /\ writer'.kind = writer.kind + 1
    BY <2>1, <1>1
  <2>3. writer' \in [at : {"put", "swap"}, kind : 1 .. Len(Kinds), of : Manifests]
    <3>1. writer.kind + 1 \in 1 .. Len(Kinds)
      BY <1>1, <1>3
    <3>2. writer' = [at |-> "put", kind |-> writer.kind + 1, of |-> writer.of]
      BY <2>1, <1>1
    <3>3. QED BY <3>1, <3>2, <1>1
  <2>4. Behind' \subseteq Behind \cup {writer.kind}
    BY <1>1, <1>3, <2>2 DEF Behind
  <2>5. QED BY <2>2, <2>3, <2>4 DEF NoWriter
<1>4. QED BY <1>2, <1>3

LEMMA BeginKeeps ==
    ASSUME DurableInv, NEW p \in Manifests, Begin(p)
    PROVE  DurableInv'
<1> USE ThreeKinds DEF DurableInv
<1>1. writer' = [at |-> "put", kind |-> 1, of |-> p]
  BY DEF Begin
<1>2. WriterOK'
  BY <1>1 DEF WriterOK
<1>3. InHand = {} /\ InHand' = {}
  BY <1>1 DEF InHand, Begin, NoWriter
<1>4. OnlySeen'
  BY <1>3 DEF OnlySeen, Begin
<1>5. Behind' = {}
  BY <1>1 DEF Behind
<1>6. Kept'
  BY <1>5 DEF Kept, Begin
<1>7. QED BY <1>2, <1>4, <1>6

LEMMA PutNameKeeps ==
    ASSUME DurableInv, PutName
    PROVE  DurableInv'
<1> USE ThreeKinds DEF DurableInv
<1>1. writer # NoWriter
  BY DEF PutName, NoWriter
<1>2. writer \in [at : {"put", "sync", "swap", "swapped"}, kind : 1 .. Len(Kinds), of : Manifests]
  BY <1>1 DEF WriterOK
<1>3. InHand = {}
  BY DEF InHand, PutName
<1>4. CASE Current \in names
  <2>1. GoOn /\ UNCHANGED <<head, survivors, names, synced, base, orphans>>
    BY <1>4 DEF PutName
  <2>2. /\ writer' \in [at : {"put", "swap"}, kind : 1 .. Len(Kinds), of : Manifests]
        /\ writer'.of = writer.of /\ writer'.at \in {"put", "swap"} /\ writer' # NoWriter
        /\ Behind' \subseteq Behind \cup {writer.kind}
    BY <1>1, <2>1, GoesOn
  <2>3. WriterOK'
    BY <2>2 DEF WriterOK
  <2>4. OnlySeen'
    BY <1>3, <2>1, <2>2 DEF OnlySeen, InHand
  <2>5. <<writer.kind, writer.of>> \in synced \cup orphans
    BY <1>3, <1>4 DEF OnlySeen, Current
  <2>6. Kept'
    BY <1>1, <2>1, <2>2, <2>5 DEF Kept
  <2>7. QED BY <2>3, <2>4, <2>6
<1>5. CASE Current \notin names
  <2>1. /\ names' = names \cup {Current} /\ writer' = [writer EXCEPT !.at = "sync"]
        /\ UNCHANGED <<head, survivors, synced, base, orphans>>
    BY <1>5 DEF PutName
  <2>2. writer'.at = "sync" /\ writer'.kind = writer.kind /\ writer'.of = writer.of
    BY <1>2, <2>1
  <2>3. WriterOK'
    BY <1>2, <2>1 DEF WriterOK
  <2>4. InHand' = {Current}
    BY <2>2 DEF InHand, Current
  <2>5. OnlySeen'
    BY <1>3, <2>1, <2>4 DEF OnlySeen
  <2>6. Behind' \subseteq Behind
    BY <1>2, <2>2 DEF Behind
  <2>7. Kept'
    BY <1>1, <2>1, <2>2, <2>6 DEF Kept
  <2>8. QED BY <2>3, <2>5, <2>7
<1>6. QED BY <1>4, <1>5

LEMMA SyncNamesKeeps ==
    ASSUME DurableInv, SyncNames
    PROVE  DurableInv'
<1> USE ThreeKinds DEF DurableInv
<1> DEFINE there == {o \in names : o[1] = writer.kind}
<1>1. /\ synced' = synced \cup there /\ orphans' = orphans \ there
      /\ GoOn /\ UNCHANGED <<head, survivors, names, base>> /\ writer.at = "sync"
  BY DEF SyncNames
<1>2. writer # NoWriter
  BY <1>1 DEF NoWriter
<1>3. /\ writer' \in [at : {"put", "swap"}, kind : 1 .. Len(Kinds), of : Manifests]
      /\ writer'.of = writer.of /\ writer'.at \in {"put", "swap"} /\ writer' # NoWriter
      /\ Behind' \subseteq Behind \cup {writer.kind}
  BY <1>1, <1>2, GoesOn
<1>4. WriterOK'
  BY <1>3 DEF WriterOK
<1>5. InHand' = {}
  BY <1>3 DEF InHand
<1>6. Current \in there /\ InHand = {Current}
  BY <1>1 DEF OnlySeen, InHand, Current
<1>7. synced \cup orphans \subseteq synced' \cup orphans'
  BY <1>1
<1>8. OnlySeen'
  BY <1>1, <1>5, <1>6 DEF OnlySeen
<1>9. <<writer.kind, writer.of>> \in synced'
  BY <1>1, <1>6 DEF Current
<1>10. Kept'
  BY <1>1, <1>2, <1>3, <1>7, <1>9 DEF Kept
<1>11. QED BY <1>4, <1>8, <1>10

LEMMA SwapCurrentKeeps ==
    ASSUME DurableInv, SwapCurrent
    PROVE  DurableInv'
<1> USE ThreeKinds DEF DurableInv
<1> DEFINE next == head \cup {writer.of}
<1>1. /\ writer.at = "swap" /\ head' = next /\ survivors' = survivors \cup {next}
      /\ writer' = [writer EXCEPT !.at = "swapped"]
      /\ UNCHANGED <<names, synced, base, orphans>>
  BY DEF SwapCurrent
<1>2. writer # NoWriter
  BY <1>1 DEF NoWriter
<1>3. writer \in [at : {"put", "sync", "swap", "swapped"}, kind : 1 .. Len(Kinds), of : Manifests]
  BY <1>2 DEF WriterOK
<1>4. writer'.at = "swapped" /\ writer'.kind = writer.kind /\ writer'.of = writer.of
  BY <1>1, <1>3
<1>5. WriterOK'
  BY <1>1, <1>3 DEF WriterOK
<1>6. OnlySeen'
  BY <1>1, <1>4 DEF OnlySeen, InHand
<1>7. \A j \in 1 .. Len(Kinds) : <<j, writer.of>> \in synced \cup orphans
  BY <1>1, <1>2 DEF Kept, Behind
<1>8. Reach(next) \subseteq synced \cup orphans
  <2>1. Reach(head) \subseteq synced \cup orphans
    BY DEF Kept
  <2>2. QED BY <2>1, <1>7, ReachNext
<1>9. Kept'
  <2>1. head' \in survivors'
    BY <1>1
  <2>2. \A h \in survivors' : Reach(h) \subseteq synced' \cup orphans'
    BY <1>1, <1>8 DEF Kept
  <2>3. \A j \in Behind' : <<j, writer'.of>> \in synced' \cup orphans'
    BY <1>1, <1>4, <1>7 DEF Behind
  <2>4. QED BY <2>1, <2>2, <2>3 DEF Kept, Reach
<1>10. QED BY <1>5, <1>6, <1>9

LEMMA SyncCurrentKeeps ==
    ASSUME DurableInv, SyncCurrent
    PROVE  DurableInv'
<1> USE DEF DurableInv
<1>1. WriterOK'
  BY DEF SyncCurrent, WriterOK
<1>2. OnlySeen'
  BY DEF SyncCurrent, OnlySeen, InHand, NoWriter
<1>3. Kept'
  BY DEF SyncCurrent, Kept, Reach
<1>4. QED BY <1>1, <1>2, <1>3

LEMMA LeaveStoreKeeps ==
    ASSUME DurableInv, LeaveStore
    PROVE  DurableInv'
<1> USE DEF DurableInv
<1>1. WriterOK'
  BY DEF LeaveStore, WriterOK
<1>2. orphans' = orphans \cup InHand /\ InHand' = {}
  BY DEF LeaveStore, InHand, NoWriter
<1>3. OnlySeen'
  BY <1>2 DEF LeaveStore, OnlySeen
<1>4. Kept'
  BY <1>2 DEF LeaveStore, Kept, Reach
<1>5. QED BY <1>1, <1>3, <1>4

LEMMA PowerFailureKeeps ==
    ASSUME DurableInv, PowerFailure
    PROVE  DurableInv'
<1> USE DEF DurableInv
<1>1. PICK lost \in SUBSET (names \ synced) : names' = names \ lost /\ synced' = names \ lost
  BY DEF PowerFailure
<1>2. PICK h \in survivors : head' = h /\ survivors' = {h}
  BY DEF PowerFailure
<1>3. writer' = NoWriter /\ orphans' = orphans
  BY DEF PowerFailure
<1>4. WriterOK'
  BY <1>3 DEF WriterOK
<1>5. OnlySeen'
  BY <1>1, <1>3 DEF OnlySeen, InHand, NoWriter
<1>6. synced \subseteq synced'
  BY <1>1 DEF OnlySeen
<1>7. Kept'
  BY <1>2, <1>3, <1>6 DEF Kept, Reach
<1>8. QED BY <1>4, <1>5, <1>7

LEMMA DurableStep == DurableInv /\ [StoreNext]_storeVars => DurableInv'
<1> SUFFICES ASSUME DurableInv, [StoreNext]_storeVars PROVE DurableInv'
  OBVIOUS
<1>1. CASE UNCHANGED storeVars
  BY <1>1 DEF storeVars, DurableInv, WriterOK, OnlySeen, Kept, InHand, Behind, Current, Reach
<1>2. CASE StoreNext
  BY <1>2, BeginKeeps, PutNameKeeps, SyncNamesKeeps, SwapCurrentKeeps, SyncCurrentKeeps,
     LeaveStoreKeeps, PowerFailureKeeps DEF StoreNext
<1>3. QED BY <1>1, <1>2

\* The inductive invariant: what is seen and not synced is in the writer's hand or was
\* left by a killed one, and every HEAD that a power failure may leave rests on synced
\* names.
THEOREM DurableInvariant == StoreSpec => []DurableInv
<1>1. QED BY DurableInit, DurableStep, PTL DEF StoreSpec

\* A power failure leaves HEAD with all it names, but for the names that a killed
\* writer left unsynced: whatever is published, retried and killed, in any order.
THEOREM HeadSurvives == StoreSpec => []OnlyOrphansAreLost
<1>1. DurableInv => OnlyOrphansAreLost
  BY DEF DurableInv, OnlySeen, Kept, OnlyOrphansAreLost
<1>2. QED BY <1>1, DurableInvariant, PTL
=============================================================================
