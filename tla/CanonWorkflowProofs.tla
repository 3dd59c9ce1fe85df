------------------------ MODULE CanonWorkflowProofs ------------------------
(***************************************************************************)
(* The safety of CanonWorkflow for every set of clients, candidates, texts *)
(* and axioms and every bound, and that it implements OneReview.           *)
(***************************************************************************)
EXTENDS CanonWorkflow, FiniteSetTheorems, TLAPS

\* Where a client holds the staging lock.
Busy == {"seal", "swap", "clear", "rebuild"}

\* A pointer has the fields of its file, whatever they hold.
ChapterShaped(s) ==
    s = [kind |-> "chapter", txn |-> s.txn, decs |-> s.decs, lineage |-> s.lineage]
AxiomShaped(s) ==
    s = [kind |-> "axiom", parent |-> s.parent, desired |-> s.desired, acts |-> s.acts]

Shapes ==
    /\ history \in Seq({history[i] : i \in DOMAIN history})
    /\ stage = None \/ ChapterShaped(stage)
    /\ axiom = None \/ AxiomShaped(axiom)
    /\ pc \in [Clients -> {"idle", "prepare", "prepare_axiom"} \cup Busy]
    /\ req = [p \in Clients |-> req[p]]
    /\ seen = [p \in Clients |-> seen[p]]

LockHeld == \A p \in Clients : pc[p] \in Busy => lock = p

\* Each publication was prepared on the one before it.
OnTheLast == \A i \in DOMAIN history : Parent(history[i]) = i - 1

\* What a finalize has established so far.
Requested(p) ==
    /\ seen[p].stage = req[p] /\ seen[p].state = "ready_to_finalize"
    /\ req[p].kind \in {"chapter", "axiom"}
    /\ req[p].kind = "chapter" => req[p].txn.text \in kept
AtHand(p) == req[p] # None /\ req[p] \in {stage, axiom}
InFlight ==
    \A p \in Clients :
        /\ pc[p] \in {"seal", "swap"} => Requested(p)
        /\ pc[p] = "swap" => AtHand(p) /\ Parent(req[p]) = HEAD
        /\ pc[p] = "clear" => AtHand(p) /\ history # << >> /\ req[p] = Last(history)

\* A staged chapter holds every rejection of the publications before it.
Inherits ==
    stage # None /\ stage.txn.parent = HEAD =>
        HistoricalLineage(stage.txn.chapter) \subseteq stage.lineage

WorkflowInv ==
    /\ Shapes /\ LockHeld /\ OnTheLast /\ InFlight /\ Inherits
    /\ OneStage /\ StagedOnHead /\ ReviewedOnFreshProjection
    /\ PublishedTextIsKept /\ RejectionsAreInherited

\* What WorkflowInv says of the files alone.
FilesInv ==
    /\ history \in Seq({history[i] : i \in DOMAIN history})
    /\ stage = None \/ ChapterShaped(stage)
    /\ axiom = None \/ AxiomShaped(axiom)
    /\ OnTheLast /\ Inherits
    /\ OneStage /\ StagedOnHead /\ ReviewedOnFreshProjection
    /\ PublishedTextIsKept /\ RejectionsAreInherited

\* ... and of the clients.
ClientShapes ==
    /\ pc \in [Clients -> {"idle", "prepare", "prepare_axiom"} \cup Busy]
    /\ req = [p \in Clients |-> req[p]]
    /\ seen = [p \in Clients |-> seen[p]]
ClientsInv == ClientShapes /\ LockHeld /\ InFlight

LEMMA Halves == WorkflowInv <=> FilesInv /\ ClientsInv
BY DEF WorkflowInv, FilesInv, ClientsInv, Shapes, ClientShapes

-----------------------------------------------------------------------------
(* The kinds of pointers                                                     *)

LEMMA ChapterKind ==
    ASSUME NEW s, ChapterShaped(s)
    PROVE  s.kind = "chapter" /\ s # None /\ Parent(s) = s.txn.parent
BY DEF ChapterShaped, None, Parent

LEMMA AxiomKind ==
    ASSUME NEW s, AxiomShaped(s)
    PROVE  s.kind = "axiom" /\ s # None /\ Parent(s) = s.parent
BY DEF AxiomShaped, None, Parent

LEMMA NoKind == None.kind = "none"
BY DEF None

\* Nobody is inside the staging lock when it is free.
LEMMA FreeLock ==
    ASSUME LockHeld, lock = NoClient, NEW p \in Clients
    PROVE  pc[p] \notin Busy
BY WorkflowAssumption DEF LockHeld

-----------------------------------------------------------------------------
(* Steps that leave the files alone                                          *)

LEMMA FilesStay ==
    ASSUME FilesInv, UNCHANGED <<history, stage, axiom, projection, kept>>
    PROVE  FilesInv'
<1>1. HEAD' = HEAD BY DEF HEAD
<1>2. OnTheLast' BY DEF FilesInv, OnTheLast, Parent
<1>3. Inherits'
  BY <1>1 DEF FilesInv, Inherits, HistoricalLineage, Publications, Outlives
<1>4. OneStage' /\ StagedOnHead' /\ ReviewedOnFreshProjection'
  BY <1>1 DEF FilesInv, OneStage, StagedOnHead, ReviewedOnFreshProjection, ProjectionIsFresh, Parent, Last
<1>5. PublishedTextIsKept' BY DEF FilesInv, PublishedTextIsKept
<1>6. RejectionsAreInherited' BY DEF FilesInv, RejectionsAreInherited, Outlives
<1>7. QED BY <1>2, <1>3, <1>4, <1>5, <1>6 DEF FilesInv, ChapterShaped, AxiomShaped

\* A client that is outside the lock, or leaves it, disturbs no other.
LEMMA OthersStay ==
    ASSUME ClientsInv, NEW p \in Clients,
           UNCHANGED <<history, stage, axiom, kept>>,
           pc' = [pc EXCEPT ![p] = pc'[p]], pc'[p] \in {"idle", "prepare", "prepare_axiom"},
           req' = [req EXCEPT ![p] = req'[p]], seen' = [seen EXCEPT ![p] = seen'[p]],
           lock' = lock \/ lock = p
    PROVE  ClientsInv'
<1> USE DEF ClientsInv
<1>1. ClientShapes' BY DEF ClientShapes
<1>2. \A q \in Clients : q # p => pc'[q] = pc[q] /\ req'[q] = req[q] /\ seen'[q] = seen[q]
  BY DEF ClientShapes
<1>3. pc'[p] \notin Busy BY DEF Busy
<1>4. LockHeld' BY <1>2, <1>3 DEF LockHeld, ClientShapes
<1>5. InFlight'
  <2> SUFFICES ASSUME NEW q \in Clients
               PROVE  /\ pc'[q] \in {"seal", "swap"} => Requested(q)'
                      /\ pc'[q] = "swap" => AtHand(q)' /\ (Parent(req[q]) = HEAD)'
                      /\ pc'[q] = "clear" => AtHand(q)' /\ history' # << >> /\ req'[q] = (Last(history))'
    BY DEF InFlight
  <2>1. CASE q = p BY <2>1
  <2>2. CASE q # p
    BY <2>2, <1>2 DEF InFlight, Requested, AtHand, Parent, HEAD, Last
  <2>3. QED BY <2>1, <2>2
<1>6. QED BY <1>1, <1>4, <1>5

\* While the staging lock is free any client may write a pointer.
LEMMA ClientsWhenFree ==
    ASSUME ClientsInv, NEW p \in Clients, lock = NoClient, lock' = NoClient,
           pc' = [pc EXCEPT ![p] = pc'[p]], pc'[p] \in {"idle", "prepare", "prepare_axiom"},
           req' = [req EXCEPT ![p] = req'[p]], seen' = seen
    PROVE  ClientsInv'
<1> USE DEF ClientsInv
<1>1. ClientShapes' BY DEF ClientShapes
<1>2. \A q \in Clients : pc'[q] \notin Busy
  BY FreeLock DEF ClientShapes, Busy
<1>3. LockHeld' /\ InFlight'
  BY <1>2 DEF LockHeld, InFlight, Busy
<1>4. QED BY <1>1, <1>3

-----------------------------------------------------------------------------
(* The pointers are written while the staging lock is free                   *)

\* A chapter on HEAD, alone, with the projection fresh and all there was to inherit.
LEMMA StageOnHead ==
    ASSUME FilesInv, UNCHANGED <<history, axiom, projection, kept>>,
           axiom = None, ProjectionIsFresh,
           ChapterShaped(stage'), stage'.txn.parent = HEAD,
           HistoricalLineage(stage'.txn.chapter) \subseteq stage'.lineage
    PROVE  FilesInv'
<1>1. HEAD' = HEAD BY DEF HEAD
<1>2. Parent(stage') = HEAD BY ChapterKind
<1>3. OnTheLast' BY DEF FilesInv, OnTheLast, Parent
<1>4. Inherits' BY <1>1 DEF Inherits, HistoricalLineage, Publications, Outlives
<1>5. OneStage' BY DEF OneStage
<1>6. StagedOnHead' BY <1>1, <1>2 DEF StagedOnHead, Parent
<1>7. ReviewedOnFreshProjection' BY <1>1 DEF ReviewedOnFreshProjection, ProjectionIsFresh
<1>8. PublishedTextIsKept' BY DEF FilesInv, PublishedTextIsKept
<1>9. RejectionsAreInherited' BY DEF FilesInv, RejectionsAreInherited, Outlives
<1>10. QED BY <1>3, <1>4, <1>5, <1>6, <1>7, <1>8, <1>9 DEF FilesInv, ChapterShaped, AxiomShaped

\* Axioms on HEAD, alone, with the projection fresh.
LEMMA AxiomOnHead ==
    ASSUME FilesInv, UNCHANGED <<history, stage, projection, kept>>,
           stage = None, ProjectionIsFresh,
           AxiomShaped(axiom'), axiom'.parent = HEAD
    PROVE  FilesInv'
<1>1. HEAD' = HEAD BY DEF HEAD
<1>2. Parent(axiom') = HEAD BY AxiomKind
<1>3. OnTheLast' BY DEF FilesInv, OnTheLast, Parent
<1>4. Inherits' BY DEF Inherits
<1>5. OneStage' BY DEF OneStage
<1>6. StagedOnHead' BY <1>1, <1>2 DEF StagedOnHead, Parent
<1>7. ReviewedOnFreshProjection' BY <1>1 DEF ReviewedOnFreshProjection, ProjectionIsFresh
<1>8. PublishedTextIsKept' BY DEF FilesInv, PublishedTextIsKept
<1>9. RejectionsAreInherited' BY DEF FilesInv, RejectionsAreInherited, Outlives
<1>10. QED BY <1>3, <1>4, <1>5, <1>6, <1>7, <1>8, <1>9 DEF FilesInv, ChapterShaped, AxiomShaped

\* A pointer is removed.
LEMMA PointerGoes ==
    ASSUME FilesInv, UNCHANGED <<history, projection, kept>>,
           \/ stage' = None /\ UNCHANGED axiom
           \/ axiom' = None /\ UNCHANGED stage
    PROVE  FilesInv'
<1>1. HEAD' = HEAD BY DEF HEAD
<1>2. OnTheLast' BY DEF FilesInv, OnTheLast, Parent
<1>3. Inherits' BY <1>1 DEF FilesInv, Inherits, HistoricalLineage, Publications, Outlives
<1>4. OneStage' BY DEF FilesInv, OneStage
<1>5. {stage', axiom'} \ {None} \subseteq {stage, axiom} \ {None} OBVIOUS
<1>6. StagedOnHead' BY <1>1, <1>5 DEF FilesInv, StagedOnHead, Parent, Last
<1>7. ReviewedOnFreshProjection'
  BY <1>1, <1>5 DEF FilesInv, ReviewedOnFreshProjection, ProjectionIsFresh, Parent
<1>8. PublishedTextIsKept' BY DEF FilesInv, PublishedTextIsKept
<1>9. RejectionsAreInherited' BY DEF FilesInv, RejectionsAreInherited, Outlives
<1>10. QED BY <1>2, <1>3, <1>4, <1>6, <1>7, <1>8, <1>9 DEF FilesInv, ChapterShaped, AxiomShaped

LEMMA PrepareKeeps ==
    ASSUME FilesInv, ClientsInv, NEW p \in Clients, Prepare(p)
    PROVE  FilesInv' /\ ClientsInv'
<1> DEFINE r == req[p]
<1>1. stage' = PreparedStage(r) BY DEF Prepare
<1>2. ChapterShaped(stage') /\ stage'.txn.parent = HEAD /\ stage'.txn.chapter = r.chapter
      /\ stage'.lineage = LineageOf(r.chapter)
  BY <1>1 DEF PreparedStage, ChapterShaped
<1>3. HistoricalLineage(r.chapter) \subseteq LineageOf(r.chapter) BY DEF LineageOf
<1>4. FilesInv' BY <1>2, <1>3, StageOnHead DEF Prepare
<1>5. ClientsInv'
  BY ClientsWhenFree DEF Prepare, Leave, ClientsInv, ClientShapes
<1>6. QED BY <1>4, <1>5

LEMMA PrepareAxiomKeeps ==
    ASSUME FilesInv, ClientsInv, NEW p \in Clients, PrepareAxiom(p)
    PROVE  FilesInv' /\ ClientsInv'
<1>1. AxiomShaped(axiom') /\ axiom'.parent = HEAD
  BY DEF PrepareAxiom, PreparedAxiom, AxiomShaped, FilesInv
<1>2. FilesInv' BY <1>1, AxiomOnHead DEF PrepareAxiom
<1>3. ClientsInv'
  BY ClientsWhenFree DEF PrepareAxiom, Leave, ClientsInv, ClientShapes
<1>4. QED BY <1>2, <1>3

LEMMA DecideKeeps ==
    ASSUME FilesInv, ClientsInv, NEW p \in Clients, NEW choice, Decide(p, choice)
    PROVE  FilesInv' /\ ClientsInv'
<1>1. ChapterShaped(stage) BY DEF Decide, FilesInv
<1>2. stage' = [kind |-> "chapter", txn |-> stage.txn, decs |-> stage.decs \cup Planned(choice),
                lineage |-> stage.lineage]
  <2>1. stage = [kind |-> "chapter", txn |-> stage.txn, decs |-> stage.decs,
                 lineage |-> stage.lineage]
    BY <1>1 DEF ChapterShaped
  <2>2. stage' = [stage EXCEPT !.decs = stage.decs \cup Planned(choice)]
    BY DEF Decide
  <2>3. PICK t, d, l, x : /\ t = stage.txn /\ d = stage.decs /\ l = stage.lineage
                          /\ x = stage.decs \cup Planned(choice)
    OBVIOUS
  <2>4. stage' = [[kind |-> "chapter", txn |-> t, decs |-> d, lineage |-> l] EXCEPT !.decs = x]
    BY <2>1, <2>2, <2>3, Zenon
  <2>5. QED BY <2>3, <2>4
<1>3. ChapterShaped(stage') /\ stage'.txn = stage.txn /\ stage'.lineage = stage.lineage
  BY <1>2 DEF ChapterShaped
<1>4. axiom = None /\ stage # None BY DEF Decide, FilesInv, OneStage
<1>5. Parent(stage) = HEAD /\ stage.txn.parent = HEAD BY <1>1, ChapterKind DEF Decide
<1>6. ProjectionIsFresh BY <1>4, <1>5 DEF FilesInv, ReviewedOnFreshProjection
<1>7. HistoricalLineage(stage.txn.chapter) \subseteq stage.lineage
  BY <1>4, <1>5 DEF FilesInv, Inherits
<1>8. FilesInv' BY <1>3, <1>4, <1>5, <1>6, <1>7, StageOnHead DEF Decide
<1>9. ClientsInv'
  BY ClientsWhenFree DEF Decide, client, ClientsInv, ClientShapes, Idle
<1>10. QED BY <1>8, <1>9

LEMMA DecideAxiomKeeps ==
    ASSUME FilesInv, ClientsInv, NEW p \in Clients, NEW act, DecideAxiom(p, act)
    PROVE  FilesInv' /\ ClientsInv'
<1>1. AxiomShaped(axiom) BY DEF DecideAxiom, FilesInv
<1>2. axiom' = [kind |-> "axiom", parent |-> axiom.parent, desired |-> axiom.desired,
                acts |-> Append(axiom.acts, act)]
  <2>1. axiom = [kind |-> "axiom", parent |-> axiom.parent, desired |-> axiom.desired,
                 acts |-> axiom.acts]
    BY <1>1 DEF AxiomShaped
  <2>2. axiom' = [axiom EXCEPT !.acts = Append(axiom.acts, act)]
    BY DEF DecideAxiom
  <2>3. PICK h, d, a, x : /\ h = axiom.parent /\ d = axiom.desired /\ a = axiom.acts
                          /\ x = Append(axiom.acts, act)
    OBVIOUS
  <2>4. axiom' = [[kind |-> "axiom", parent |-> h, desired |-> d, acts |-> a] EXCEPT !.acts = x]
    BY <2>1, <2>2, <2>3, Zenon
  <2>5. QED BY <2>3, <2>4
<1>3. AxiomShaped(axiom') /\ axiom'.parent = HEAD
  BY <1>2 DEF AxiomShaped, DecideAxiom
<1>4. Parent(axiom) = HEAD /\ axiom # None BY <1>1, AxiomKind DEF DecideAxiom
<1>5. ProjectionIsFresh BY <1>4 DEF FilesInv, ReviewedOnFreshProjection
<1>6. FilesInv' BY <1>3, <1>5, AxiomOnHead DEF DecideAxiom
<1>7. ClientsInv'
  BY ClientsWhenFree DEF DecideAxiom, client, ClientsInv, ClientShapes, Idle
<1>8. QED BY <1>6, <1>7

LEMMA ArchiveKeeps ==
    ASSUME FilesInv, ClientsInv, NEW p \in Clients, Archive(p)
    PROVE  FilesInv' /\ ClientsInv'
<1>1. FilesInv' BY PointerGoes DEF Archive
<1>2. ClientsInv' BY ClientsWhenFree DEF Archive, ClientsInv, ClientShapes, Idle
<1>3. QED BY <1>1, <1>2

-----------------------------------------------------------------------------
(* finalize                                                                  *)

\* More manuscripts are kept.
LEMMA MoreKept ==
    ASSUME FilesInv, UNCHANGED <<history, stage, axiom, projection>>, kept \subseteq kept'
    PROVE  FilesInv'
<1>1. HEAD' = HEAD BY DEF HEAD
<1>2. OnTheLast' BY DEF FilesInv, OnTheLast, Parent
<1>3. Inherits'
  BY <1>1 DEF FilesInv, Inherits, HistoricalLineage, Publications, Outlives
<1>4. OneStage' /\ StagedOnHead' /\ ReviewedOnFreshProjection'
  BY <1>1 DEF FilesInv, OneStage, StagedOnHead, ReviewedOnFreshProjection, ProjectionIsFresh, Parent, Last
<1>5. PublishedTextIsKept' BY DEF FilesInv, PublishedTextIsKept
<1>6. RejectionsAreInherited' BY DEF FilesInv, RejectionsAreInherited, Outlives
<1>7. QED BY <1>2, <1>3, <1>4, <1>5, <1>6 DEF FilesInv, ChapterShaped, AxiomShaped

\* A client takes the lock, with what its first step needs.
LEMMA Enters ==
    ASSUME ClientsInv, NEW p \in Clients, NEW label \in Busy \ {"swap"}, NEW r,
           Enter(p, label, r), UNCHANGED <<history, stage, axiom>>,
           label = "seal" => /\ seen[p].stage = r /\ seen[p].state = "ready_to_finalize"
                             /\ r.kind \in {"chapter", "axiom"}
                             /\ r.kind = "chapter" => r.txn.text \in kept',
           label = "clear" => r # None /\ r \in {stage, axiom} /\ history # << >> /\ r = Last(history)
    PROVE  ClientsInv'
<1> USE DEF ClientsInv
<1>1. \A q \in Clients : pc[q] \notin Busy BY FreeLock DEF Enter
<1>2. ClientShapes' BY DEF ClientShapes, Enter, Busy
<1>3. pc'[p] = label /\ req'[p] = r /\ \A q \in Clients : q # p => pc'[q] = pc[q]
  BY DEF ClientShapes, Enter
<1>4. LockHeld' BY <1>1, <1>3 DEF LockHeld, Enter
<1>5. InFlight'
  <2> SUFFICES ASSUME NEW q \in Clients
               PROVE  /\ pc'[q] \in {"seal", "swap"} => Requested(q)'
                      /\ pc'[q] = "swap" => AtHand(q)' /\ (Parent(req[q]) = HEAD)'
                      /\ pc'[q] = "clear" => AtHand(q)' /\ history' # << >> /\ req'[q] = (Last(history))'
    BY DEF InFlight
  <2>1. CASE q # p BY <2>1, <1>1, <1>3 DEF Busy
  <2>2. CASE q = p /\ label = "seal" BY <2>2, <1>3 DEF Requested, Enter
  <2>3. CASE q = p /\ label = "clear" BY <2>3, <1>3 DEF AtHand, Last
  <2>4. CASE q = p /\ label = "rebuild" BY <2>4, <1>3
  <2>5. QED BY <2>1, <2>2, <2>3, <2>4 DEF Busy
<1>6. QED BY <1>2, <1>4, <1>5

LEMMA FinalizeKeeps ==
    ASSUME FilesInv, ClientsInv, NEW p \in Clients, Finalize(p)
    PROVE  FilesInv' /\ ClientsInv'
<1>1. seen[p].stage = stage /\ seen[p].state = "ready_to_finalize" /\ stage.kind = "chapter"
  BY DEF Finalize, MayAsk, Asked
<1>2. ChapterShaped(stage) /\ stage # None BY <1>1, NoKind DEF FilesInv
<1>3. kept' = kept \cup {stage.txn.text} BY DEF Finalize, Keep
<1>4. FilesInv' BY <1>3, MoreKept DEF Finalize
<1>5. CASE stage.txn.parent = HEAD /\ Enter(p, "seal", stage)
  BY <1>1, <1>3, <1>4, <1>5, Enters DEF Finalize, Busy
<1>6. CASE stage.txn.parent # HEAD /\ Enter(p, "clear", stage)
  <2>1. history # << >> /\ stage = Last(history)
    BY <1>2, <1>6, ChapterKind DEF FilesInv, StagedOnHead
  <2>2. QED BY <1>2, <1>4, <1>6, <2>1, Enters DEF Finalize, Busy
<1>7. QED BY <1>5, <1>6 DEF Finalize

LEMMA FinalizeRetryKeeps ==
    ASSUME FilesInv, ClientsInv, NEW p \in Clients, FinalizeRetry(p)
    PROVE  FilesInv' /\ ClientsInv'
<1>1. FilesInv' BY MoreKept DEF FinalizeRetry, Keep
<1>2. ClientsInv' BY Enters DEF FinalizeRetry, Busy
<1>3. QED BY <1>1, <1>2

LEMMA FinalizeAxiomKeeps ==
    ASSUME FilesInv, ClientsInv, NEW p \in Clients, FinalizeAxiom(p)
    PROVE  FilesInv' /\ ClientsInv'
<1>1. seen[p].stage = axiom /\ seen[p].state = "ready_to_finalize" /\ axiom.kind = "axiom"
  BY DEF FinalizeAxiom, MayAsk, Asked
<1>2. AxiomShaped(axiom) /\ axiom # None BY <1>1, NoKind DEF FilesInv
<1>3. FilesInv' BY FilesStay DEF FinalizeAxiom, files
<1>4. CASE axiom.parent = HEAD /\ Enter(p, "seal", axiom)
  BY <1>1, <1>3, <1>4, Enters DEF FinalizeAxiom, files, Busy
<1>5. CASE axiom.parent # HEAD /\ Enter(p, "clear", axiom)
  <2>1. history # << >> /\ axiom = Last(history)
    BY <1>2, <1>5, AxiomKind DEF FilesInv, StagedOnHead
  <2>2. QED BY <1>2, <1>3, <1>5, <2>1, Enters DEF FinalizeAxiom, files, Busy
<1>6. QED BY <1>4, <1>5 DEF FinalizeAxiom

LEMMA FinalizeAxiomRetryKeeps ==
    ASSUME FilesInv, ClientsInv, NEW p \in Clients, FinalizeAxiomRetry(p)
    PROVE  FilesInv' /\ ClientsInv'
<1>1. FilesInv' BY FilesStay DEF FinalizeAxiomRetry, files
<1>2. ClientsInv' BY Enters DEF FinalizeAxiomRetry, files, Busy
<1>3. QED BY <1>1, <1>2

\* The holder of the staging lock goes on, and every other client is outside.
LEMMA HolderAlone ==
    ASSUME ClientsInv, NEW p \in Clients, pc[p] \in Busy
    PROVE  lock = p /\ \A q \in Clients : q # p => pc[q] \notin Busy
BY DEF ClientsInv, LockHeld

LEMMA HolderGoesOn ==
    ASSUME ClientsInv, NEW p \in Clients, pc[p] \in Busy, NEW label \in Busy, Goto(p, label),
           label \in {"seal", "swap"} => Requested(p)',
           label = "swap" => AtHand(p)' /\ (Parent(req[p]) = HEAD)',
           label = "clear" => AtHand(p)' /\ history' # << >> /\ req'[p] = (Last(history))'
    PROVE  ClientsInv'
<1>1. lock = p /\ \A q \in Clients : q # p => pc[q] \notin Busy BY HolderAlone
<1>2. ClientShapes' BY DEF ClientsInv, ClientShapes, Goto
<1>3. pc'[p] = label /\ \A q \in Clients : q # p => pc'[q] \notin Busy
  BY <1>1 DEF ClientsInv, ClientShapes, Goto
<1>4. LockHeld' BY <1>1, <1>3 DEF LockHeld, Goto
<1>5. InFlight' BY <1>3 DEF InFlight, Busy
<1>6. QED BY <1>2, <1>4, <1>5 DEF ClientsInv

LEMMA SealKeeps ==
    ASSUME FilesInv, ClientsInv, NEW p \in Clients, Seal(p)
    PROVE  FilesInv' /\ ClientsInv'
<1>1. FilesInv' BY FilesStay DEF Seal, files
<1>2. pc[p] = "seal" /\ Proof(req[p]) /\ Goto(p, "swap") BY DEF Seal
<1>3. Requested(p) BY <1>2 DEF ClientsInv, InFlight
<1>4. AtHand(p) /\ Parent(req[p]) = HEAD
  <2>1. CASE req[p].kind = "axiom"
    <3>1. axiom = req[p] /\ axiom.parent = HEAD BY <1>2, <2>1 DEF Proof
    <3>2. AxiomShaped(axiom) BY <3>1, <2>1, NoKind DEF FilesInv
    <3>3. QED BY <3>1, <3>2, AxiomKind DEF AtHand
  <2>2. CASE req[p].kind # "axiom"
    <3>1. stage = req[p] /\ stage.txn.parent = HEAD BY <1>2, <2>2 DEF Proof
    <3>2. stage # None BY <3>1, <1>3, NoKind DEF Requested
    <3>3. ChapterShaped(stage) BY <3>2 DEF FilesInv
    <3>4. QED BY <3>1, <3>2, <3>3, ChapterKind DEF AtHand
  <2>3. QED BY <2>1, <2>2
<1>5. Requested(p)' BY <1>2, <1>3 DEF Requested, Goto, Seal, files
<1>6. AtHand(p)' /\ (Parent(req[p]) = HEAD)'
  BY <1>2, <1>4 DEF AtHand, Goto, Seal, files, Parent, HEAD
<1>7. ClientsInv' BY <1>2, <1>5, <1>6, HolderGoesOn DEF Busy
<1>8. QED BY <1>1, <1>7

\* A sequence and one more.
LEMMA OneMore ==
    ASSUME NEW S, NEW s \in Seq(S), NEW x, NEW t, t = Append(s, x)
    PROVE  /\ Len(t) = Len(s) + 1 /\ Len(s) \in Nat /\ t # << >> /\ t[Len(t)] = x
           /\ DOMAIN t = 1 .. Len(s) + 1 /\ DOMAIN s = 1 .. Len(s)
           /\ \A i \in 1 .. Len(s) : t[i] = s[i]
           /\ t \in Seq({t[i] : i \in DOMAIN t})
<1>1. t \in Seq(S \cup {x}) OBVIOUS
<1>2. /\ Len(t) = Len(s) + 1 /\ Len(s) \in Nat /\ t # << >> /\ t[Len(t)] = x
      /\ DOMAIN t = 1 .. Len(s) + 1 /\ DOMAIN s = 1 .. Len(s)
      /\ \A i \in 1 .. Len(s) : t[i] = s[i]
  OBVIOUS
<1>3. t \in Seq({t[i] : i \in DOMAIN t}) BY <1>1
<1>4. QED BY <1>2, <1>3

LEMMA SwapKeeps ==
    ASSUME FilesInv, ClientsInv, NEW p \in Clients, Swap(p)
    PROVE  FilesInv' /\ ClientsInv'
<1> DEFINE r == req[p]
<1>1. pc[p] = "swap" /\ history' = Append(history, r) /\ Goto(p, "clear") BY DEF Swap
<1>2. Requested(p) /\ AtHand(p) /\ Parent(r) = HEAD BY <1>1 DEF ClientsInv, InFlight
<1>3. UNCHANGED <<stage, axiom, projection, kept, req, seen>> BY DEF Swap, files, Goto
<1>4. /\ HEAD' = HEAD + 1 /\ HEAD \in Nat /\ history' # << >> /\ history'[HEAD'] = r
      /\ DOMAIN history' = 1 .. HEAD + 1 /\ DOMAIN history = 1 .. HEAD
      /\ \A i \in 1 .. HEAD : history'[i] = history[i]
      /\ history' \in Seq({history'[i] : i \in DOMAIN history'})
  <2>1. history \in Seq({history[i] : i \in DOMAIN history}) BY DEF FilesInv
  <2>2. QED BY <1>1, <2>1, OneMore DEF HEAD
<1>5. (Last(history))' = r BY <1>4 DEF Last, HEAD
<1>6. {stage, axiom} \ {None} = {r}
  <2>1. stage = None \/ axiom = None BY DEF FilesInv, OneStage
  <2>2. r # None /\ r \in {stage, axiom} BY <1>2 DEF AtHand
  <2>3. QED BY <2>1, <2>2
<1>7. OnTheLast'
  <2> SUFFICES ASSUME NEW i \in 1 .. HEAD + 1
               PROVE  Parent(history'[i]) = i - 1
    BY <1>4 DEF OnTheLast, Parent
  <2>1. CASE i \in 1 .. HEAD BY <1>4, <2>1 DEF FilesInv, OnTheLast
  <2>2. CASE i = HEAD + 1 BY <1>2, <1>4, <2>2
  <2>3. QED BY <1>4, <2>1, <2>2
<1>8. Inherits'
  <2>1. ASSUME stage # None, stage.txn.parent = HEAD' PROVE FALSE
    <3>1. stage = r BY <2>1, <1>6
    <3>2. Parent(stage) = stage.txn.parent BY <2>1, ChapterKind DEF FilesInv
    <3>3. QED BY <1>2, <1>4, <2>1, <3>1, <3>2
  <2>2. QED BY <1>3, <2>1 DEF Inherits
<1>9. OneStage' BY <1>3 DEF FilesInv, OneStage
<1>10. StagedOnHead' BY <1>3, <1>4, <1>5, <1>6 DEF StagedOnHead
<1>11. ReviewedOnFreshProjection'
  <2>1. \A s \in {stage', axiom'} \ {None} : s = r BY <1>3, <1>6
  <2>2. Parent(r) # HEAD' BY <1>2, <1>4
  <2>3. \A s \in {stage', axiom'} \ {None} : Parent(s) # HEAD' BY <2>1, <2>2
  <2>4. QED BY <2>3 DEF ReviewedOnFreshProjection, Parent, None
<1>12. PublishedTextIsKept'
  <2> SUFFICES ASSUME NEW i \in 1 .. HEAD + 1, history'[i].kind = "chapter"
               PROVE  history'[i].txn.text \in kept'
    BY <1>4 DEF PublishedTextIsKept
  <2>1. CASE i \in 1 .. HEAD
    BY <1>3, <1>4, <2>1 DEF FilesInv, PublishedTextIsKept
  <2>2. CASE i = HEAD + 1
    <3>1. history'[i] = r BY <1>4, <2>2
    <3>2. QED BY <1>2, <1>3, <3>1 DEF Requested
  <2>3. QED BY <1>4, <2>1, <2>2
<1>13. RejectionsAreInherited'
  <2> SUFFICES ASSUME NEW i \in 1 .. HEAD + 1, NEW j \in 1 .. HEAD + 1, i < j,
                      history'[i].kind = "chapter", history'[j].kind = "chapter",
                      history'[i].txn.chapter = history'[j].txn.chapter
               PROVE  Outlives(history'[i]) \subseteq history'[j].lineage
    BY <1>4 DEF RejectionsAreInherited, Outlives
  <2>1. i \in 1 .. HEAD /\ history'[i] = history[i] BY <1>4
  <2>2. CASE j \in 1 .. HEAD
    <3>1. history'[j] = history[j] BY <1>4, <2>2
    <3>2. QED BY <2>1, <2>2, <3>1, <1>4 DEF FilesInv, RejectionsAreInherited
  <2>3. CASE j = HEAD + 1
    <3>1. history'[j] = r BY <1>4, <2>3
    <3>2. r = stage /\ stage # None
      BY <1>6, <3>1, AxiomKind DEF FilesInv
    <3>3. stage.txn.parent = HEAD BY <1>2, <3>2, ChapterKind DEF FilesInv
    <3>4. HistoricalLineage(stage.txn.chapter) \subseteq stage.lineage
      BY <3>2, <3>3 DEF FilesInv, Inherits
    <3>5. history[i] \in Publications(stage.txn.chapter)
      BY <1>4, <2>1, <3>1, <3>2 DEF Publications
    <3>6. Outlives(history[i]) \subseteq HistoricalLineage(stage.txn.chapter)
      BY <3>5 DEF HistoricalLineage
    <3>7. QED BY <2>1, <3>1, <3>2, <3>4, <3>6
  <2>4. QED BY <1>4, <2>2, <2>3
<1>14. FilesInv'
  BY <1>3, <1>4, <1>7, <1>8, <1>9, <1>10, <1>11, <1>12, <1>13
  DEF FilesInv, ChapterShaped, AxiomShaped
<1>15. AtHand(p)' BY <1>2, <1>3 DEF AtHand
<1>16. ClientsInv' BY <1>1, <1>3, <1>4, <1>5, <1>15, HolderGoesOn DEF Busy
<1>17. QED BY <1>14, <1>16

LEMMA ClearKeeps ==
    ASSUME FilesInv, ClientsInv, NEW p \in Clients, Clear(p)
    PROVE  FilesInv' /\ ClientsInv'
<1>1. FilesInv' BY PointerGoes DEF Clear
<1>2. ClientsInv' BY HolderGoesOn DEF Clear, Busy
<1>3. QED BY <1>1, <1>2

\* A projection of HEAD is fresh.
LEMMA ProjectionIsOfHead ==
    ASSUME FilesInv, UNCHANGED <<history, stage, axiom, kept>>, projection' = HEAD
    PROVE  FilesInv'
<1>1. HEAD' = HEAD BY DEF HEAD
<1>2. OnTheLast' BY DEF FilesInv, OnTheLast, Parent
<1>3. Inherits'
  BY <1>1 DEF FilesInv, Inherits, HistoricalLineage, Publications, Outlives
<1>4. OneStage' /\ StagedOnHead' /\ ReviewedOnFreshProjection'
  BY <1>1 DEF FilesInv, OneStage, StagedOnHead, ReviewedOnFreshProjection, ProjectionIsFresh, Parent, Last
<1>5. PublishedTextIsKept' BY DEF FilesInv, PublishedTextIsKept
<1>6. RejectionsAreInherited' BY DEF FilesInv, RejectionsAreInherited, Outlives
<1>7. QED BY <1>2, <1>3, <1>4, <1>5, <1>6 DEF FilesInv, ChapterShaped, AxiomShaped

\* The holder leaves, by an answer, a refusal or its death.
LEMMA HolderLeaves ==
    ASSUME ClientsInv, NEW p \in Clients, Leave(p), UNCHANGED <<history, stage, axiom, kept>>,
           lock = p \/ pc[p] \notin Busy
    PROVE  ClientsInv'
<1>1. ClientShapes' BY DEF ClientsInv, ClientShapes, Leave
<1>2. pc'[p] = "idle" /\ seen' = seen
      /\ \A q \in Clients : q # p => pc'[q] = pc[q] /\ req'[q] = req[q]
  BY DEF ClientsInv, ClientShapes, Leave
<1>3. \A q \in Clients : pc'[q] \in Busy => q # p /\ pc[q] \in Busy /\ lock = q /\ lock' = q
  BY <1>2 DEF ClientsInv, LockHeld, Leave, Busy
<1>4. LockHeld' BY <1>3 DEF LockHeld
<1>5. InFlight'
  BY <1>2 DEF ClientsInv, InFlight, Requested, AtHand, Parent, HEAD, Last
<1>6. QED BY <1>1, <1>4, <1>5 DEF ClientsInv

LEMMA RebuildKeeps ==
    ASSUME FilesInv, ClientsInv, NEW p \in Clients, Rebuild(p)
    PROVE  FilesInv' /\ ClientsInv'
<1>1. FilesInv' BY ProjectionIsOfHead, FilesStay DEF Rebuild, files
<1>2. lock = p BY HolderAlone DEF Rebuild, Busy
<1>3. ClientsInv' BY <1>2, HolderLeaves DEF Rebuild
<1>4. QED BY <1>1, <1>3

LEMMA LeaversKeep ==
    ASSUME FilesInv, ClientsInv, NEW p \in Clients, GiveUp(p) \/ SealRefused(p) \/ Die(p)
    PROVE  FilesInv' /\ ClientsInv'
<1>1. FilesInv' BY FilesStay DEF GiveUp, SealRefused, Die, files
<1>2. lock = p \/ pc[p] \notin Busy BY HolderAlone DEF GiveUp, SealRefused, Die, Busy
<1>3. ClientsInv' BY <1>2, HolderLeaves DEF GiveUp, SealRefused, Die, files
<1>4. QED BY <1>1, <1>3

LEMMA RebuildAloneKeeps ==
    ASSUME FilesInv, ClientsInv, NEW p \in Clients, RebuildAlone(p)
    PROVE  FilesInv' /\ ClientsInv'
<1>1. FilesInv' BY ProjectionIsOfHead DEF RebuildAlone
<1>2. ClientsInv'
  BY OthersStay DEF RebuildAlone, client, ClientsInv, ClientShapes, Idle
<1>3. QED BY <1>1, <1>2

\* A client looks, or asks for a prepare.
LEMMA AsksKeep ==
    ASSUME FilesInv, ClientsInv, NEW p \in Clients,
           \/ Look(p)
           \/ \E r : Ask(p, "prepare", r) \/ Ask(p, "prepare_axiom", r)
    PROVE  FilesInv' /\ ClientsInv'
<1>1. FilesInv' BY FilesStay DEF Look, Ask, files
<1>2. CASE Look(p)
  BY <1>1, <1>2, OthersStay DEF Look, files, ClientsInv, ClientShapes, Idle
<1>3. CASE \E r : Ask(p, "prepare", r) \/ Ask(p, "prepare_axiom", r)
  BY <1>1, <1>3, OthersStay DEF Ask, files, ClientsInv, ClientShapes
<1>4. QED BY <1>2, <1>3

LEMMA EditKeeps ==
    ASSUME FilesInv, ClientsInv, NEW c, NEW t, Edit(c, t)
    PROVE  FilesInv' /\ ClientsInv'
<1>1. FilesInv' BY FilesStay DEF Edit, files
<1>2. ClientsInv'
  BY DEF Edit, files, ClientsInv, ClientShapes, LockHeld, InFlight, Requested, AtHand, Parent, HEAD, Last
<1>3. QED BY <1>1, <1>2

-----------------------------------------------------------------------------
(* The invariant                                                             *)

LEMMA InitHolds == Init => WorkflowInv
<1> SUFFICES ASSUME Init PROVE WorkflowInv OBVIOUS
<1>1. history = << >> /\ DOMAIN history = {} BY DEF Init
<1>2. Shapes
  <2>1. history \in Seq({history[i] : i \in DOMAIN history}) BY <1>1
  <2>2. QED BY <2>1 DEF Init, Shapes
<1>3. LockHeld /\ InFlight BY DEF Init, LockHeld, InFlight, Busy
<1>4. OnTheLast /\ PublishedTextIsKept /\ RejectionsAreInherited
  BY <1>1 DEF OnTheLast, PublishedTextIsKept, RejectionsAreInherited
<1>5. Inherits /\ OneStage /\ StagedOnHead /\ ReviewedOnFreshProjection
  BY DEF Init, Inherits, OneStage, StagedOnHead, ReviewedOnFreshProjection
<1>6. QED BY <1>2, <1>3, <1>4, <1>5 DEF WorkflowInv

LEMMA StepHolds == WorkflowInv /\ [Next]_vars => WorkflowInv'
<1> SUFFICES ASSUME WorkflowInv, [Next]_vars PROVE WorkflowInv' OBVIOUS
<1>1. FilesInv /\ ClientsInv BY Halves
<1>2. ASSUME FilesInv' /\ ClientsInv' PROVE WorkflowInv'
  BY <1>2 DEF WorkflowInv, FilesInv, ClientsInv, Shapes, ClientShapes
<1>3. CASE UNCHANGED vars
  <2>1. FilesInv' BY <1>1, <1>3, FilesStay DEF vars, files
  <2>2. ClientsInv'
    BY <1>1, <1>3 DEF vars, files, client, ClientsInv, ClientShapes, LockHeld, InFlight,
                      Requested, AtHand, Parent, HEAD, Last
  <2>3. QED BY <1>2, <2>1, <2>2
<1>4. CASE \E c \in Chapters, t \in Texts : Edit(c, t)
  BY <1>1, <1>2, <1>4, EditKeeps
<1>5. ASSUME NEW p \in Clients,
             \/ Look(p)
             \/ \E c \in Chapters, cands \in SUBSET Candidate :
                  \E flagged \in SUBSET cands : \E conflicts \in SUBSET flagged :
                     AskPrepare(p, c, cands, flagged, conflicts)
             \/ \E desired \in AxiomSets : AskPrepareAxiom(p, desired)
      PROVE  WorkflowInv'
  <2>1. Look(p) \/ \E r : Ask(p, "prepare", r) \/ Ask(p, "prepare_axiom", r)
    BY <1>5 DEF AskPrepare, AskPrepareAxiom
  <2>2. QED BY <1>1, <1>2, <2>1, AsksKeep
<1>6. ASSUME NEW p \in Clients, Prepare(p) \/ PrepareAxiom(p) \/ Archive(p) PROVE WorkflowInv'
  BY <1>1, <1>2, <1>6, PrepareKeeps, PrepareAxiomKeeps, ArchiveKeeps
<1>7. ASSUME NEW p \in Clients, GiveUp(p) \/ SealRefused(p) \/ Die(p) PROVE WorkflowInv'
  BY <1>1, <1>2, <1>7, LeaversKeep
<1>8. ASSUME NEW p \in Clients,
             \/ \E S \in SUBSET Cases(stage.txn) \ {{}} :
                  \E choice \in [S -> UNION {Choices(c) : c \in S}] : Decide(p, choice)
             \/ \E act \in AxiomActions : DecideAxiom(p, act)
      PROVE  WorkflowInv'
  BY <1>1, <1>2, <1>8, DecideKeeps, DecideAxiomKeeps
<1>9. ASSUME NEW p \in Clients,
             Finalize(p) \/ FinalizeRetry(p) \/ FinalizeAxiom(p) \/ FinalizeAxiomRetry(p)
      PROVE  WorkflowInv'
  BY <1>1, <1>2, <1>9, FinalizeKeeps, FinalizeRetryKeeps, FinalizeAxiomKeeps, FinalizeAxiomRetryKeeps
<1>10. ASSUME NEW p \in Clients, Seal(p) \/ Swap(p) \/ Clear(p) \/ Rebuild(p) \/ RebuildAlone(p)
       PROVE  WorkflowInv'
  BY <1>1, <1>2, <1>10, SealKeeps, SwapKeeps, ClearKeeps, RebuildKeeps, RebuildAloneKeeps
<1>11. QED
  BY <1>3, <1>4, <1>5, <1>6, <1>7, <1>8, <1>9, <1>10 DEF Next, Work

\* Whatever clients, an author and kills do, WorkflowInv holds: the files agree with
\* each other and with what every finalize in flight has established so far.
THEOREM WorkflowInvariant == Spec => []WorkflowInv
<1>1. Init => WorkflowInv BY InitHolds
<1>2. WorkflowInv /\ [Next]_vars => WorkflowInv' BY StepHolds
<1>3. QED BY <1>1, <1>2, PTL DEF Spec

\* STAGING.json and AUTHOR_AXIOM_STAGING.json are never both there.
THEOREM NeverTwoStages == Spec => []OneStage
<1>1. WorkflowInv => OneStage BY DEF WorkflowInv
<1>2. QED BY <1>1, WorkflowInvariant, PTL

\* What is staged was prepared against HEAD, or is HEAD's own publication.
THEOREM HeadIsNotMoved == Spec => []StagedOnHead
<1>1. WorkflowInv => StagedOnHead BY DEF WorkflowInv
<1>2. QED BY <1>1, WorkflowInvariant, PTL

\* A review in progress has the projection of the HEAD it was prepared against.
THEOREM ReviewersSeeHead == Spec => []ReviewedOnFreshProjection
<1>1. WorkflowInv => ReviewedOnFreshProjection BY DEF WorkflowInv
<1>2. QED BY <1>1, WorkflowInvariant, PTL

\* archive_bound_manuscript has kept the bytes of every publication.
THEOREM BytesAreKept == Spec => []PublishedTextIsKept
<1>1. WorkflowInv => PublishedTextIsKept BY DEF WorkflowInv
<1>2. QED BY <1>1, WorkflowInvariant, PTL

\* Every publication of a chapter inherits the rejections of all those before it.
THEOREM RejectionsLast == Spec => []RejectionsAreInherited
<1>1. WorkflowInv => RejectionsAreInherited BY DEF WorkflowInv
<1>2. QED BY <1>1, WorkflowInvariant, PTL

-----------------------------------------------------------------------------
(* What a publication is                                                     *)

LEMMA OnlySwapPublishes ==
    ASSUME [Next]_vars
    PROVE  history' = history \/ \E p \in Clients : Swap(p)
BY DEF vars, Next, Work, Edit, Look, Ask, AskPrepare, Prepare, AskPrepareAxiom, PrepareAxiom, GiveUp,
       Decide, DecideAxiom, Archive, Finalize, FinalizeRetry, FinalizeAxiom, FinalizeAxiomRetry,
       Seal, SealRefused, Clear, Rebuild, RebuildAlone, Die

\* HEAD gets exactly the stage that the finalizing client had read as ready.
THEOREM SeenBeforePublished == Spec => PublishesWhatWasSeen
<1> DEFINE Seen == HEAD' # HEAD =>
          \E p \in Clients :
              /\ pc[p] = "swap" /\ seen[p].state = "ready_to_finalize"
              /\ seen[p].stage = Last(history')
<1>1. WorkflowInv /\ [Next]_vars => Seen
  <2> SUFFICES ASSUME WorkflowInv, [Next]_vars, HEAD' # HEAD
               PROVE  \E p \in Clients :
                         /\ pc[p] = "swap" /\ seen[p].state = "ready_to_finalize"
                         /\ seen[p].stage = Last(history')
    OBVIOUS
  <2>1. PICK p \in Clients : Swap(p) BY OnlySwapPublishes DEF HEAD
  <2>2. pc[p] = "swap" /\ history' = Append(history, req[p]) BY <2>1 DEF Swap
  <2>3. seen[p].stage = req[p] /\ seen[p].state = "ready_to_finalize"
    BY <2>2 DEF WorkflowInv, InFlight, Requested
  <2>4. history \in Seq({history[i] : i \in DOMAIN history}) BY DEF WorkflowInv, Shapes
  <2>5. Last(history') = req[p] BY <2>2, <2>4, OneMore DEF Last
  <2>6. QED BY <2>2, <2>3, <2>5
<1>2. QED BY <1>1, WorkflowInvariant, PTL DEF Spec, PublishesWhatWasSeen

\* What a finalize publishes was prepared on the HEAD it moves, whose projection is there.
THEOREM NothingIsBuiltUnfolded == Spec => NothingOnUnfoldedHead
<1> DEFINE Folded == HEAD' # HEAD => ProjectionIsFresh
<1>1. WorkflowInv /\ [Next]_vars => Folded
  <2> SUFFICES ASSUME WorkflowInv, [Next]_vars, HEAD' # HEAD
               PROVE  ProjectionIsFresh
    OBVIOUS
  <2>1. PICK p \in Clients : Swap(p) BY OnlySwapPublishes DEF HEAD
  <2>2. pc[p] = "swap" BY <2>1 DEF Swap
  <2>3. req[p] \in {stage, axiom} /\ req[p] # None /\ Parent(req[p]) = HEAD
    BY <2>2 DEF WorkflowInv, InFlight, AtHand
  <2>4. QED BY <2>3 DEF WorkflowInv, ReviewedOnFreshProjection
<1>2. QED BY <1>1, WorkflowInvariant, PTL DEF Spec, NothingOnUnfoldedHead

-----------------------------------------------------------------------------
(* CanonWorkflow implements OneReview                                        *)

OpenReviews == {[parent |-> Parent(s), reviewed |-> s] : s \in UnderReview}

\* Under review is what was prepared against HEAD; a left-over is published.
LEMMA UnderReviewIs ==
    ASSUME WorkflowInv
    PROVE  UnderReview = {s \in {stage, axiom} \ {None} : Parent(s) = HEAD}
<1>1. HEAD \in Nat /\ DOMAIN history = 1 .. HEAD BY DEF WorkflowInv, Shapes, HEAD
<1>2. ASSUME NEW s \in {stage, axiom} \ {None}, Parent(s) = HEAD
      PROVE  \A i \in DOMAIN history : history[i] # s
  BY <1>1, <1>2 DEF WorkflowInv, OnTheLast
<1>3. ASSUME NEW s \in {stage, axiom} \ {None}, Parent(s) # HEAD
      PROVE  \E i \in DOMAIN history : history[i] = s
  <2>1. history # << >> /\ s = Last(history) BY <1>3 DEF WorkflowInv, StagedOnHead
  <2>2. history \in Seq({history[i] : i \in DOMAIN history}) BY DEF WorkflowInv, Shapes
  <2>3. HEAD \in DOMAIN history BY <1>1, <2>1, <2>2 DEF HEAD
  <2>4. QED BY <2>1, <2>3 DEF Last, HEAD
<1>4. QED BY <1>2, <1>3 DEF UnderReview

\* A step of the workflow is a step of the review, or nothing that it could see.
LEMMA StepOfReview ==
    ASSUME WorkflowInv, WorkflowInv', [Next]_vars
    PROVE  [Review!Next]_<<OpenReviews, history>>
<1>1. UnderReview = {s \in {stage, axiom} \ {None} : Parent(s) = HEAD} BY UnderReviewIs
<1>2. UnderReview' = {s \in {stage', axiom'} \ {None} : Parent(s) = HEAD'}
  <2>1. (UnderReview = {s \in {stage, axiom} \ {None} : Parent(s) = HEAD})'
    BY UnderReviewIs, PTL
  <2>2. QED BY <2>1 DEF Parent, None
<1>3. stage' = None \/ axiom' = None BY DEF WorkflowInv, OneStage
<1>4. CASE history' = history
  <2>1. HEAD' = HEAD BY <1>4 DEF HEAD
  <2>2. CASE OpenReviews' = OpenReviews BY <1>4, <2>2
  <2>3. CASE OpenReviews' # OpenReviews /\ UnderReview' = {}
    <3>1. OpenReviews' = {} BY <2>3 DEF OpenReviews
    <3>2. QED BY <1>4, <2>3, <3>1 DEF Review!Next, Review!Drop, OpenReviews
  <2>4. CASE UnderReview' # {}
    <3>1. PICK s : UnderReview' = {s} /\ Parent(s) = HEAD BY <1>2, <1>3, <2>1, <2>4
    <3>2. OpenReviews' = {[parent |-> HEAD, reviewed |-> s]}
      BY <3>1 DEF OpenReviews, Parent
    <3>3. \E r \in OpenReviews' : OpenReviews' = {r} /\ r.parent = Len(history)
      BY <3>2 DEF HEAD
    <3>4. QED BY <1>4, <3>3 DEF Review!Next, Review!Open, Review!OnLatest, OpenReviews
  <2>5. QED BY <2>2, <2>3, <2>4
<1>5. CASE \E p \in Clients : Swap(p)
  <2>1. PICK p \in Clients : Swap(p) BY <1>5
  <2>2. pc[p] = "swap" /\ history' = Append(history, req[p]) /\ UNCHANGED <<stage, axiom>>
    BY <2>1 DEF Swap, files
  <2>3. AtHand(p) /\ Parent(req[p]) = HEAD BY <2>2 DEF WorkflowInv, InFlight
  <2>4. stage = None \/ axiom = None BY DEF WorkflowInv, OneStage
  <2>5. {stage, axiom} \ {None} = {req[p]} BY <2>3, <2>4 DEF AtHand
  <2>6. history \in Seq({history[i] : i \in DOMAIN history}) BY DEF WorkflowInv, Shapes
  <2>7. HEAD \in Nat /\ HEAD' = HEAD + 1 BY <2>2, <2>6, OneMore DEF HEAD
  <2>8. UnderReview' = {} BY <1>2, <2>2, <2>3, <2>5, <2>7
  <2>9. OpenReviews' = {} BY <2>8 DEF OpenReviews
  <2>10. [parent |-> HEAD, reviewed |-> req[p]] \in OpenReviews
    BY <1>1, <2>3, <2>5 DEF OpenReviews
  <2>11. QED
    BY <2>2, <2>9, <2>10 DEF Review!Next, Review!Publish, Review!OnLatest, OpenReviews, HEAD
<1>6. QED BY <1>4, <1>5, OnlySwapPublishes

\* The two pointer files with their locks, channels, left-overs and kills behave as
\* one review at a time, opened on the latest publication, published as it stands.
THEOREM WorkflowIsOneReview == Spec => ImplementsOneReview
<1>1. Init => Review!Init
  BY DEF Init, Review!Init, UnderReview
<1>2. WorkflowInv /\ WorkflowInv' /\ [Next]_vars => [Review!Next]_<<OpenReviews, history>>
  BY StepOfReview
<1>3. QED BY <1>1, <1>2, WorkflowInvariant, PTL DEF Spec, ImplementsOneReview, Review!Spec, OpenReviews

-----------------------------------------------------------------------------
(* The types, and that the review of a chapter is kept, ended and remembered *)

\* The decisions on one case are counted: each is at most as late as they are many,
\* and one of them is the last.
OfCase(decs, c) == {d \in decs : d.cand = c}
Chained(decs, c) ==
    LET chain == OfCase(decs, c) IN
    /\ IsFiniteSet(chain)
    /\ \A d \in chain : d.rev \in 1 .. Cardinality(chain)
    /\ chain # {} => \E h \in chain : \A d \in chain : d.rev <= h.rev

\* A corrected candidate keeps its id.
KeepsId(d) == d.act = "correct" => d.fix.id = d.cand.id

\* A chapter's stage, with what prepare and record_decisions have checked.
Sound(s) ==
    /\ s \in Stage
    /\ \A c \in Candidate : Chained(s.decs, c)
    /\ \A d \in s.decs : d.act \in AllowedActions(s.txn, d.cand) /\ KeepsId(d)
    /\ \A n \in s.lineage : KeepsId(n)
    /\ LineageAllows(s.lineage, s.txn.chapter, s.txn.text, s.txn.cands)
    /\ s.txn.reconsidered = Reconsidered(s.lineage, s.txn.chapter, s.txn.text, s.txn.cands)

IsReady(s) ==
    IF s.kind = "axiom" THEN s.acts # << >> /\ Last(s.acts) # "rewrite"
    ELSE ReviewState(s.txn, s.decs) = "ready_to_finalize"

-----------------------------------------------------------------------------
(* Decisions *)

LEMMA HeadOfCase ==
    ASSUME NEW decs, NEW c, Chained(decs, c), Decided(decs, c)
    PROVE  \E d \in DecisionHeads(decs) : d.cand = c
BY DEF Chained, OfCase, Decided, DecisionHeads

\* A ready review has approved every case or left it out.
LEMMA ReadyIsDecided ==
    ASSUME NEW s, Sound(s), s.kind = "chapter", IsReady(s), NEW c \in Cases(s.txn)
    PROVE  \E d \in DecisionHeads(s.decs) : d.cand = c /\ d.act \in {"approve", "omit"}
<1>1. ~Acted(s.decs, "rewrite") /\ ~Acted(s.decs, "correct") /\ Decided(s.decs, c)
  BY DEF IsReady, ReviewState
<1>2. c \in Candidate
  BY DEF Sound, Stage, ChapterTxn, Cases
<1>3. PICK d \in DecisionHeads(s.decs) : d.cand = c
  BY <1>1, <1>2, HeadOfCase DEF Sound
<1>4. d \in Decision
  BY DEF Sound, Stage, DecisionHeads
<1>5. d.act \in Actions
  BY <1>4 DEF Decision
<1> QED  BY <1>1, <1>3, <1>5 DEF Acted, Actions

\* One more decision on a case, made by make_decision.
LEMMA ChainGrows ==
    ASSUME NEW decs, NEW c, Chained(decs, c), NEW act, NEW fix, NEW new,
           OfCase(new, c) = OfCase(decs, c) \cup {NextDecision(decs, c, act, fix)}
    PROVE  Chained(new, c)
<1> DEFINE old == OfCase(decs, c)
           d == NextDecision(decs, c, act, fix)
<1>1. Cardinality(old) \in Nat /\ IsFiniteSet(old)
  BY FS_CardinalityType DEF Chained
<1>2. d.rev = Cardinality(old) + 1
  BY <1>1 DEF NextDecision, OfCase
<1>3. \A e \in old : e.rev \in 1 .. Cardinality(old)
  BY DEF Chained
<1>4. d \notin old
  BY <1>1, <1>2, <1>3
<1>5. IsFiniteSet(old \cup {d}) /\ Cardinality(old \cup {d}) = Cardinality(old) + 1
  BY <1>1, <1>4, FS_AddElement
<1>6. OfCase(new, c) = old \cup {d}
  OBVIOUS
<1> HIDE DEF old, d
<1>7. \A e \in old \cup {d} : e.rev \in 1 .. Cardinality(old \cup {d}) /\ e.rev <= d.rev
  BY <1>1, <1>2, <1>3, <1>5
<1> QED  BY <1>5, <1>6, <1>7 DEF Chained

LEMMA PlannedAreChained ==
    ASSUME \A c \in Candidate : Chained(stage.decs, c), NEW choice, NEW c \in Candidate
    PROVE  Chained(stage.decs \cup Planned(choice), c)
<1> DEFINE new == stage.decs \cup Planned(choice)
<1>1. \A d \in Planned(choice) : d.cand = c =>
        d = NextDecision(stage.decs, c, choice[c].act, choice[c].fix)
  <2> SUFFICES ASSUME NEW d \in Planned(choice), d.cand = c
               PROVE  d = NextDecision(stage.decs, c, choice[c].act, choice[c].fix)
    OBVIOUS
  <2>1. PICK e \in DOMAIN choice : d = NextDecision(stage.decs, e, choice[e].act, choice[e].fix)
    BY DEF Planned
  <2>2. d.cand = e
    BY <2>1 DEF NextDecision
  <2> QED  BY <2>1, <2>2
<1>2. CASE \E d \in Planned(choice) : d.cand = c
  <2>1. OfCase(new, c) =
          OfCase(stage.decs, c) \cup {NextDecision(stage.decs, c, choice[c].act, choice[c].fix)}
    BY <1>1, <1>2 DEF OfCase
  <2> QED  BY <2>1, ChainGrows
<1>3. CASE ~\E d \in Planned(choice) : d.cand = c
  <2>1. OfCase(new, c) = OfCase(stage.decs, c)
    BY <1>3 DEF OfCase
  <2> QED  BY <2>1 DEF Chained
<1> QED  BY <1>2, <1>3

-----------------------------------------------------------------------------
(* What the lineage of a sound stage leaves of a rejected fact *)

LEMMA RejectedIsOut ==
    ASSUME NEW k, Sound(k), k.kind = "chapter", IsReady(k),
           NEW n \in Binding(k.lineage, k.txn.chapter, k.txn.text)
    PROVE  /\ \A c \in ActiveCandidates(k.txn, k.decs) :
                 /\ candidate_digest(c) # candidate_digest(n.cand)
                 /\ n.act = "omit" /\ c.claim = n.cand.claim =>
                       \E d \in DecisionHeads(k.decs) : d.cand = c /\ d.act = "approve"
           /\ n.act = "correct" /\ n.fix \notin ActiveCandidates(k.txn, k.decs) =>
                 \E d \in k.decs : d.cand = n.fix /\ d.act = "omit"
<1> DEFINE cands == k.txn.cands
<1>1. k.txn.cands \subseteq Candidate /\ n \in Tombstone /\ n.fix \in Candidate
  BY DEF Sound, Stage, ChapterTxn, Binding, Tombstone
<1>2. /\ \A c \in cands : candidate_digest(c) # candidate_digest(n.cand)
      /\ n.act = "correct" =>
           \E c \in cands : c.id = n.cand.id /\ candidate_digest(c) = candidate_digest(n.fix)
  BY DEF Sound, LineageAllows
<1>3. ASSUME NEW c \in ActiveCandidates(k.txn, k.decs), n.act = "omit", c.claim = n.cand.claim
      PROVE  \E d \in DecisionHeads(k.decs) : d.cand = c /\ d.act = "approve"
  <2>1. c \in cands
    BY <1>3 DEF ActiveCandidates
  <2>2. c \in k.txn.reconsidered
    BY <1>3, <2>1 DEF Sound, Reconsidered, semantic_claim_digest
  <2>3. PICK d \in DecisionHeads(k.decs) : d.cand = c /\ d.act \in {"approve", "omit"}
    BY <2>2, ReadyIsDecided DEF Cases
  <2>4. d.act # "omit"
    BY <1>3, <2>3 DEF ActiveCandidates
  <2> QED  BY <2>3, <2>4
<1>4. ASSUME n.act = "correct", n.fix \notin ActiveCandidates(k.txn, k.decs)
      PROVE  \E d \in k.decs : d.cand = n.fix /\ d.act = "omit"
  <2>1. PICK c \in cands : c.id = n.cand.id /\ candidate_digest(c) = candidate_digest(n.fix)
    BY <1>2, <1>4
  <2>2. n.fix.id = n.cand.id
    BY <1>4 DEF Sound, KeepsId, Binding
  <2>3. c \in Candidate
    BY <1>1, <2>1
  <2>4. c.claim = n.fix.claim /\ c.text = n.fix.text /\ c.span = n.fix.span
    BY <2>1 DEF candidate_digest
  <2>5. c = n.fix
    BY <1>1, <2>1, <2>2, <2>3, <2>4 DEF Candidate
  <2> QED  BY <1>4, <2>1, <2>5 DEF ActiveCandidates, DecisionHeads
<1>5. ActiveCandidates(k.txn, k.decs) \subseteq cands
  BY DEF ActiveCandidates
<1> QED  BY <1>2, <1>3, <1>4, <1>5

-----------------------------------------------------------------------------
(* The inductive invariant *)

\* What a prepare asks for, and what a finalize has had proved.
Asks ==
    \A p \in Clients :
        /\ pc[p] = "prepare" =>
              /\ req[p].chapter \in Chapters /\ req[p].text \in Texts
              /\ req[p].cands \in SUBSET Candidate /\ req[p].flagged \in SUBSET Candidate
              /\ req[p].conflicts \in SUBSET Candidate
        /\ pc[p] = "prepare_axiom" => req[p].desired \in AxiomSets
        /\ pc[p] = "swap" => IsReady(req[p])

\* What a client has seen ready of the axioms is.
SeenOk(shot) ==
    shot.state = "ready_to_finalize" /\ shot.stage.kind = "axiom" => IsReady(shot.stage)

SoundPublications ==
    \A i \in DOMAIN history :
        /\ IsReady(history[i])
        /\ history[i].kind = "chapter" => Sound(history[i])

\* The chapter that was published last is active.
LastIsActive ==
    history # << >> /\ Last(history).kind = "chapter" =>
        active[Last(history).txn.chapter] = HEAD

ReviewInv ==
    /\ TypeOK
    /\ stage # None => Sound(stage)
    /\ SoundPublications
    /\ LastIsActive
    /\ Asks
    /\ \A p \in Clients : SeenOk(seen[p])

LEMMA OutlivesIsTyped ==
    ASSUME NEW s, Sound(s), NEW n \in Outlives(s)
    PROVE  n \in Tombstone /\ KeepsId(n)
<1>1. CASE n \in s.lineage
  BY <1>1 DEF Sound, Stage
<1>2. CASE n \in NegativeHeads(s.txn, s.decs)
  <2>1. PICK d \in s.decs :
          /\ d.act \in Negative
          /\ n = [chapter |-> s.txn.chapter, text |-> s.txn.text, cand |-> d.cand,
                  act |-> d.act, fix |-> d.fix]
    BY <1>2 DEF NegativeHeads, DecisionHeads
  <2>2. d \in Decision /\ s.txn.chapter \in Chapters /\ s.txn.text \in Texts /\ KeepsId(d)
    BY DEF Sound, Stage, ChapterTxn
  <2> QED  BY <2>1, <2>2 DEF Decision, Tombstone, KeepsId
<1> QED  BY <1>1, <1>2 DEF Outlives

LEMMA LineageIsTyped ==
    ASSUME ReviewInv, NEW c, NEW n \in LineageOf(c)
    PROVE  n \in Tombstone /\ KeepsId(n)
<1>1. \E s : Sound(s) /\ n \in Outlives(s)
  BY DEF LineageOf, HistoricalLineage, Publications, Replaced, ReviewInv, SoundPublications
<1> QED  BY <1>1, OutlivesIsTyped

LEMMA StagesAreTyped ==
    ASSUME WorkflowInv, ReviewInv
    PROVE  /\ stage # None => stage \in Stage /\ stage.kind = "chapter"
           /\ axiom # None => axiom \in AxiomStage /\ axiom.kind = "axiom"
           /\ None.kind \notin {"chapter", "axiom"}
BY NoKind DEF ReviewInv, TypeOK, Stage, AxiomStage

LEMMA SnapshotIsOk ==
    ASSUME WorkflowInv, ReviewInv
    PROVE  SeenOk(Snapshot)
<1>1. CASE axiom = None
  <2>1. Snapshot.stage = None \/ Snapshot.stage = stage
    BY <1>1 DEF Snapshot, PublicStage
  <2> QED  BY <2>1, StagesAreTyped DEF SeenOk
<1>2. CASE axiom # None
  <2>1. Snapshot.stage = axiom /\ Snapshot.state = AxiomState
    BY <1>2 DEF Snapshot
  <2> QED  BY <1>2, <2>1, StagesAreTyped DEF SeenOk, AxiomState, AxiomReduction, IsReady
<1> QED  BY <1>1, <1>2

-----------------------------------------------------------------------------
(* Steps that publish nothing *)

Labels == {"idle", "prepare", "prepare_axiom", "seal", "swap", "clear", "rebuild"}

\* What may be said of one client after its step.
Fits(label, r) ==
    /\ label \in Labels
    /\ label = "prepare" =>
          /\ r.chapter \in Chapters /\ r.text \in Texts
          /\ r.cands \in SUBSET Candidate /\ r.flagged \in SUBSET Candidate
          /\ r.conflicts \in SUBSET Candidate
    /\ label = "prepare_axiom" => r.desired \in AxiomSets
    /\ label = "swap" => IsReady(r)

LEMMA ClientsFit ==
    ASSUME WorkflowInv, ReviewInv
    PROVE  \A q \in Clients : Fits(pc[q], req[q])
BY DEF ReviewInv, TypeOK, Asks, Fits, Labels

LEMMA QuietStep ==
    ASSUME WorkflowInv, ReviewInv, NEW p \in Clients,
           UNCHANGED <<history, active>>,
           stage' = None \/ Sound(stage'), axiom' \in AxiomStage \cup {None},
           projection' \in -1 .. HEAD, text' \in [Chapters -> Texts], kept' \subseteq Texts,
           archived' \in Seq(SUBSET Tombstone), edits' \in 0 .. MaxEdits,
           lock' \in Clients \cup {NoClient},
           NEW label, NEW r, Fits(label, r),
           pc' = [pc EXCEPT ![p] = label], req' = [req EXCEPT ![p] = r],
           \A q \in Clients : seen'[q] = seen[q] \/ seen'[q] = Snapshot
    PROVE  ReviewInv'
<1>1. pc \in [Clients -> Labels] /\ req = [q \in Clients |-> req[q]]
  BY DEF ReviewInv, TypeOK, WorkflowInv, Shapes, Labels
<1>2. \A q \in Clients :
        /\ pc'[q] = IF q = p THEN label ELSE pc[q]
        /\ req'[q] = IF q = p THEN r ELSE req[q]
  BY <1>1
<1>3. \A q \in Clients : Fits(pc'[q], req'[q])
  BY <1>2, ClientsFit
<1>4. Asks'
  BY <1>3 DEF Asks, Fits
<1>5. pc' \in [Clients -> Labels]
  BY <1>1 DEF Fits
<1>6. HEAD' = HEAD
  BY DEF HEAD
<1>7. stage' \in Stage \cup {None}
  BY DEF Sound
<1>8. TypeOK'
  BY <1>5, <1>6, <1>7 DEF ReviewInv, TypeOK, Labels
<1>9. SoundPublications' /\ LastIsActive'
  BY <1>6 DEF ReviewInv, SoundPublications, LastIsActive, Last
<1>10. \A q \in Clients : SeenOk(seen'[q])
  BY SnapshotIsOk DEF ReviewInv
<1> QED  BY <1>4, <1>8, <1>9, <1>10 DEF ReviewInv, SeenOk

\* Most steps of a client leave the pointers and the author's files alone.
LEMMA ClientStep ==
    ASSUME WorkflowInv, ReviewInv, NEW p \in Clients,
           UNCHANGED <<history, active, stage, axiom, text, archived, edits>>,
           projection' \in {projection, HEAD}, kept' \subseteq Texts,
           lock' \in {lock, p, NoClient},
           NEW label, NEW r, Fits(label, r),
           pc' = [pc EXCEPT ![p] = label], req' = [req EXCEPT ![p] = r],
           \A q \in Clients : seen'[q] = seen[q] \/ seen'[q] = Snapshot
    PROVE  ReviewInv'
<1>1. HEAD \in Nat
  BY DEF ReviewInv, TypeOK, HEAD
<1>2. projection' \in -1 .. HEAD
  BY <1>1 DEF ReviewInv, TypeOK
<1>3. /\ stage' = None \/ Sound(stage')
      /\ axiom' \in AxiomStage \cup {None} /\ text' \in [Chapters -> Texts]
      /\ archived' \in Seq(SUBSET Tombstone) /\ edits' \in 0 .. MaxEdits
      /\ lock' \in Clients \cup {NoClient}
  BY DEF ReviewInv, TypeOK
<1> QED  BY <1>2, <1>3, QuietStep

LEMMA NothingChanges ==
    ASSUME WorkflowInv, ReviewInv, NEW p \in Clients
    PROVE  /\ pc = [pc EXCEPT ![p] = pc[p]] /\ req = [req EXCEPT ![p] = req[p]]
           /\ Fits(pc[p], req[p])
           /\ kept \subseteq Texts
           /\ \A l, r : l \in {"idle", "seal", "clear", "rebuild"} => Fits(l, r)
<1>1. pc = [pc EXCEPT ![p] = pc[p]] /\ req = [req EXCEPT ![p] = req[p]]
  BY DEF ReviewInv, TypeOK, WorkflowInv, Shapes
<1> QED  BY <1>1, ClientsFit DEF Fits, Labels, ReviewInv, TypeOK

LEMMA LookFits ==
    ASSUME WorkflowInv, ReviewInv, NEW p \in Clients, Look(p)
    PROVE  ReviewInv'
<1>1. \A q \in Clients : seen'[q] = seen[q] \/ seen'[q] = Snapshot
  BY DEF Look, WorkflowInv, Shapes
<1> QED  BY <1>1, NothingChanges, ClientStep DEF Look, files

LEMMA AskPrepareFits ==
    ASSUME WorkflowInv, ReviewInv, NEW p \in Clients, NEW c \in Chapters,
           NEW cands \in SUBSET Candidate, NEW flagged \in SUBSET cands,
           NEW conflicts \in SUBSET flagged, AskPrepare(p, c, cands, flagged, conflicts)
    PROVE  ReviewInv'
<1> DEFINE r == [chapter |-> c, text |-> text[c], cands |-> cands, flagged |-> flagged,
                 conflicts |-> conflicts]
<1>1. Fits("prepare", r)
  BY DEF Fits, Labels, ReviewInv, TypeOK
<1>2. pc' = [pc EXCEPT ![p] = "prepare"] /\ req' = [req EXCEPT ![p] = r]
  BY DEF AskPrepare, Ask
<1>3. UNCHANGED <<history, active, files, text, lock, seen, archived, edits>>
  BY DEF AskPrepare, Ask
<1> HIDE DEF r
<1> QED  BY <1>1, <1>2, <1>3, NothingChanges, ClientStep DEF files

LEMMA AskPrepareAxiomFits ==
    ASSUME WorkflowInv, ReviewInv, NEW p \in Clients, NEW desired \in AxiomSets,
           AskPrepareAxiom(p, desired)
    PROVE  ReviewInv'
<1> DEFINE r == [desired |-> desired, replaces |-> axiom]
<1>1. Fits("prepare_axiom", r)
  BY DEF Fits, Labels
<1>2. pc' = [pc EXCEPT ![p] = "prepare_axiom"] /\ req' = [req EXCEPT ![p] = r]
  BY DEF AskPrepareAxiom, Ask
<1>3. UNCHANGED <<history, active, files, text, lock, seen, archived, edits>>
  BY DEF AskPrepareAxiom, Ask
<1> HIDE DEF r
<1> QED  BY <1>1, <1>2, <1>3, NothingChanges, ClientStep DEF files

\* A client leaves.
LEMMA LeavingFits ==
    ASSUME WorkflowInv, ReviewInv, NEW p \in Clients, Leave(p),
           UNCHANGED <<history, active, stage, axiom, text, kept>>,
           projection' \in {projection, HEAD}
    PROVE  ReviewInv'
<1>1. /\ pc' = [pc EXCEPT ![p] = "idle"] /\ req' = [req EXCEPT ![p] = NoReq]
      /\ UNCHANGED <<seen, archived, edits>> /\ lock' \in {lock, p, NoClient}
  BY DEF Leave
<1>2. Fits("idle", NoReq) /\ kept' \subseteq Texts
  BY NothingChanges
<1>3. \A q \in Clients : seen'[q] = seen[q] \/ seen'[q] = Snapshot
  BY <1>1
<1> HIDE DEF NoReq
<1> QED  BY <1>1, <1>2, <1>3, ClientStep

\* A finalize begins.
LEMMA EnteringFits ==
    ASSUME WorkflowInv, ReviewInv, NEW p \in Clients, NEW r,
           Enter(p, "seal", r) \/ Enter(p, "clear", r) \/ Enter(p, "rebuild", r),
           UNCHANGED <<history, active, projection, stage, axiom, text>>,
           kept' \subseteq Texts
    PROVE  ReviewInv'
<1>1. PICK label \in {"seal", "clear", "rebuild"} : Enter(p, label, r)
  OBVIOUS
<1>2. /\ pc' = [pc EXCEPT ![p] = label] /\ req' = [req EXCEPT ![p] = r]
      /\ UNCHANGED <<seen, archived, edits>> /\ lock' = p
  BY <1>1 DEF Enter
<1>3. Fits(label, r)
  BY NothingChanges
<1>4. /\ UNCHANGED <<history, active, stage, axiom, text, archived, edits>>
      /\ projection' \in {projection, HEAD} /\ lock' \in {lock, p, NoClient}
      /\ \A q \in Clients : seen'[q] = seen[q] \/ seen'[q] = Snapshot
      /\ pc' = [pc EXCEPT ![p] = label] /\ req' = [req EXCEPT ![p] = r]
  BY <1>2
<1> QED  BY <1>3, <1>4, ClientStep

LEMMA FinalizeFits ==
    ASSUME WorkflowInv, ReviewInv, NEW p \in Clients,
           Finalize(p) \/ FinalizeRetry(p) \/ FinalizeAxiom(p) \/ FinalizeAxiomRetry(p)
    PROVE  ReviewInv'
<1>1. kept \subseteq Texts
  BY NothingChanges
<1>2. CASE Finalize(p)
  <2>1. stage # None
    BY <1>2, NoKind DEF Finalize, MayAsk
  <2>2. stage.txn.text \in Texts
    BY <2>1 DEF ReviewInv, Sound, Stage, ChapterTxn
  <2>3. kept' \subseteq Texts
    BY <1>1, <1>2, <2>2 DEF Finalize, Keep
  <2> QED  BY <1>2, <2>3, EnteringFits DEF Finalize
<1>3. CASE FinalizeRetry(p)
  <2>1. Asked(p).txn.text \in Texts
    <3>1. PICK c \in Chapters : active[c] # 0 /\ history[active[c]] = Asked(p)
      BY <1>3 DEF FinalizeRetry, ProvedBy, Commit
    <3>2. active[c] \in DOMAIN history
      BY <3>1 DEF ReviewInv, TypeOK, HEAD
    <3>3. Asked(p).kind = "chapter"
      BY <1>3 DEF FinalizeRetry, MayAsk
    <3>4. Sound(Asked(p))
      BY <3>1, <3>2, <3>3 DEF ReviewInv, SoundPublications
    <3> QED  BY <3>4 DEF Sound, Stage, ChapterTxn
  <2>2. kept' \subseteq Texts
    BY <1>1, <1>3, <2>1 DEF FinalizeRetry, Keep
  <2> QED  BY <1>3, <2>2, EnteringFits DEF FinalizeRetry
<1>4. CASE FinalizeAxiom(p) \/ FinalizeAxiomRetry(p)
  BY <1>1, <1>4, EnteringFits DEF FinalizeAxiom, FinalizeAxiomRetry, files
<1> QED  BY <1>2, <1>3, <1>4

\* The pointers are written by a prepare, ...
LEMMA PrepareFits ==
    ASSUME WorkflowInv, ReviewInv, NEW p \in Clients, Prepare(p)
    PROVE  ReviewInv'
<1> DEFINE r == req[p]
           t == [chapter |-> r.chapter, text |-> r.text, parent |-> HEAD, round |-> NextRound,
                 cands |-> r.cands, flagged |-> r.flagged, conflicts |-> r.conflicts,
                 reconsidered |-> Reconsidered(LineageOf(r.chapter), r.chapter, r.text, r.cands)]
<1>1. /\ r.chapter \in Chapters /\ r.text \in Texts
      /\ r.cands \in SUBSET Candidate /\ r.flagged \in SUBSET Candidate
      /\ r.conflicts \in SUBSET Candidate
  BY DEF Prepare, ReviewInv, Asks
<1>2. HEAD \in Nat
  BY DEF ReviewInv, TypeOK, HEAD
<1>3. NextRound \in 0 .. MaxRound
  <2>1. stage # None => stage.txn.round \in Nat
    BY DEF ReviewInv, Sound, Stage, ChapterTxn
  <2> QED  BY <2>1, WorkflowAssumption DEF Prepare, NextRound
<1>4. Reconsidered(LineageOf(r.chapter), r.chapter, r.text, r.cands) \in SUBSET Candidate
  BY <1>1 DEF Reconsidered
<1> HIDE DEF r
<1>5. t \in ChapterTxn
  BY <1>1, <1>2, <1>3, <1>4 DEF ChapterTxn
<1>6. LineageOf(r.chapter) \in SUBSET Tombstone /\ \A n \in LineageOf(r.chapter) : KeepsId(n)
  BY LineageIsTyped
<1> HIDE DEF t
<1>7. stage' = [kind |-> "chapter", decs |-> {}, lineage |-> LineageOf(r.chapter), txn |-> t]
  BY DEF Prepare, PreparedStage, r, t
<1>8. stage' \in Stage
  BY <1>5, <1>6, <1>7 DEF Stage
<1>9. \A c \in Candidate : Chained({}, c)
  BY FS_EmptySet DEF Chained, OfCase
<1>10. LineageAllows(LineageOf(r.chapter), t.chapter, t.text, t.cands)
  BY DEF Prepare, r, t
<1>11. t.reconsidered = Reconsidered(LineageOf(r.chapter), t.chapter, t.text, t.cands)
  BY DEF t
<1>12. Sound(stage')
  BY <1>6, <1>7, <1>8, <1>9, <1>10, <1>11 DEF Sound
<1>13. /\ pc' = [pc EXCEPT ![p] = "idle"] /\ req' = [req EXCEPT ![p] = NoReq]
       /\ UNCHANGED <<history, active, projection, axiom, text, kept, seen, archived, edits>>
       /\ lock' \in Clients \cup {NoClient}
  BY DEF Prepare, Leave, ReviewInv, TypeOK
<1>14. Fits("idle", NoReq)
  BY NothingChanges
<1>15. /\ axiom' \in AxiomStage \cup {None} /\ projection' \in -1 .. HEAD
       /\ text' \in [Chapters -> Texts] /\ kept' \subseteq Texts
       /\ archived' \in Seq(SUBSET Tombstone) /\ edits' \in 0 .. MaxEdits
       /\ \A q \in Clients : seen'[q] = seen[q] \/ seen'[q] = Snapshot
  BY <1>13 DEF ReviewInv, TypeOK
<1> HIDE DEF NoReq
<1> QED  BY <1>12, <1>13, <1>14, <1>15, QuietStep

LEMMA PrepareAxiomFits ==
    ASSUME WorkflowInv, ReviewInv, NEW p \in Clients, PrepareAxiom(p)
    PROVE  ReviewInv'
<1>1. req[p].desired \in AxiomSets /\ HEAD \in Nat
  BY DEF PrepareAxiom, ReviewInv, Asks, TypeOK, HEAD
<1>2. [kind |-> "axiom", parent |-> HEAD, desired |-> req[p].desired, acts |-> << >>] \in AxiomStage
  BY <1>1 DEF AxiomStage
<1>3. axiom' \in AxiomStage \cup {None}
  BY <1>2 DEF PrepareAxiom, PreparedAxiom, ReviewInv, TypeOK
<1>4. /\ pc' = [pc EXCEPT ![p] = "idle"] /\ req' = [req EXCEPT ![p] = NoReq]
      /\ UNCHANGED <<history, active, projection, stage, text, kept, seen, archived, edits>>
      /\ lock' \in Clients \cup {NoClient}
  BY DEF PrepareAxiom, Leave, ReviewInv, TypeOK
<1>5. Fits("idle", NoReq)
  BY NothingChanges
<1>6. /\ (stage' = None \/ Sound(stage')) /\ projection' \in -1 .. HEAD
      /\ text' \in [Chapters -> Texts] /\ kept' \subseteq Texts
      /\ archived' \in Seq(SUBSET Tombstone) /\ edits' \in 0 .. MaxEdits
      /\ \A q \in Clients : seen'[q] = seen[q] \/ seen'[q] = Snapshot
  BY <1>4 DEF ReviewInv, TypeOK
<1> HIDE DEF NoReq
<1> QED  BY <1>3, <1>4, <1>5, <1>6, QuietStep

\* ... by decisions, ...
LEMMA DecideFits ==
    ASSUME WorkflowInv, ReviewInv, NEW p \in Clients, NEW S \in SUBSET Cases(stage.txn),
           stage # None, NEW choice, DOMAIN choice = S,
           \A c \in S : choice[c] \in Choices(c), Decide(p, choice)
    PROVE  ReviewInv'
<1>1. Sound(stage) /\ stage \in Stage
  BY DEF ReviewInv, Sound
<1>2. Cases(stage.txn) \subseteq Candidate
  BY <1>1 DEF Stage, ChapterTxn, Cases
<1>3. ASSUME NEW d \in Planned(choice)
      PROVE  d \in Decision /\ d.act \in AllowedActions(stage.txn, d.cand) /\ KeepsId(d)
  <2>1. PICK c \in S : d = NextDecision(stage.decs, c, choice[c].act, choice[c].fix)
    BY DEF Planned
  <2>2. c \in Candidate
    BY <1>2
  <2>3. /\ choice[c].act \in AllowedActions(stage.txn, c) /\ choice[c].fix \in Candidate
        /\ choice[c].act = "correct" => choice[c].fix.id = c.id
    BY DEF Choices
  <2>4. choice[c].act \in Actions
    BY <2>3 DEF AllowedActions, Actions
  <2>5. IsFiniteSet({e \in stage.decs : e.cand = c})
    BY <1>1, <2>2 DEF Sound, Chained, OfCase
  <2>6. Cardinality({e \in stage.decs : e.cand = c}) \in Nat
    BY <2>5, FS_CardinalityType
  <2>7. d = [cand |-> c, act |-> choice[c].act, fix |-> choice[c].fix,
             rev |-> 1 + Cardinality({e \in stage.decs : e.cand = c})]
    BY <2>1 DEF NextDecision
  <2>8. d.rev <= MaxRevision
    BY DEF Decide
  <2>9. d.rev \in 1 .. MaxRevision
    <3>1. d.rev = 1 + Cardinality({e \in stage.decs : e.cand = c})
      BY <2>7
    <3>2. d.rev \in Nat /\ d.rev >= 1
      BY <2>6, <3>1
    <3> QED  BY <2>8, <3>2
  <2>10. d = [cand |-> c, act |-> choice[c].act, fix |-> choice[c].fix, rev |-> d.rev]
    BY <2>7
  <2>11. d \in Decision
    BY <2>2, <2>3, <2>4, <2>9, <2>10 DEF Decision
  <2> QED  BY <2>3, <2>10, <2>11 DEF KeepsId
<1> DEFINE decs == stage.decs \cup Planned(choice)
<1>4. stage' = [stage EXCEPT !.decs = decs]
  BY DEF Decide
<1>5. decs \in SUBSET Decision
  BY <1>1, <1>3 DEF Stage
<1>6. \A c \in Candidate : Chained(decs, c)
  BY <1>1, PlannedAreChained DEF Sound
<1>7. \A d \in decs : d.act \in AllowedActions(stage.txn, d.cand) /\ KeepsId(d)
  BY <1>1, <1>3 DEF Sound
<1> HIDE DEF decs
<1>8. /\ stage' \in Stage /\ stage'.decs = decs
      /\ stage'.txn = stage.txn /\ stage'.lineage = stage.lineage
  BY <1>1, <1>4, <1>5 DEF Stage
<1>9. Sound(stage')
  BY <1>1, <1>6, <1>7, <1>8 DEF Sound
<1>10. UNCHANGED <<history, active, projection, axiom, text, kept, client>>
  BY DEF Decide
<1>11. /\ axiom' \in AxiomStage \cup {None} /\ projection' \in -1 .. HEAD
       /\ text' \in [Chapters -> Texts] /\ kept' \subseteq Texts
       /\ archived' \in Seq(SUBSET Tombstone) /\ edits' \in 0 .. MaxEdits
       /\ lock' \in Clients \cup {NoClient}
       /\ \A q \in Clients : seen'[q] = seen[q] \/ seen'[q] = Snapshot
  BY <1>10 DEF ReviewInv, TypeOK, client
<1>12. /\ pc' = [pc EXCEPT ![p] = pc[p]] /\ req' = [req EXCEPT ![p] = req[p]]
       /\ Fits(pc[p], req[p])
  BY <1>10, NothingChanges DEF client
<1> QED  BY <1>9, <1>10, <1>11, <1>12, QuietStep

LEMMA DecideAxiomFits ==
    ASSUME WorkflowInv, ReviewInv, NEW p \in Clients, NEW act \in AxiomActions,
           DecideAxiom(p, act)
    PROVE  ReviewInv'
<1>1. axiom \in AxiomStage
  BY DEF DecideAxiom, ReviewInv, TypeOK
<1>2. Append(axiom.acts, act) \in Seq(AxiomActions)
  BY <1>1 DEF AxiomStage
<1>3. axiom' \in AxiomStage
  BY <1>1, <1>2 DEF DecideAxiom, AxiomStage
<1>4. UNCHANGED <<history, active, projection, stage, text, kept, client>>
  BY DEF DecideAxiom
<1>5. /\ (stage' = None \/ Sound(stage')) /\ projection' \in -1 .. HEAD
      /\ text' \in [Chapters -> Texts] /\ kept' \subseteq Texts
      /\ archived' \in Seq(SUBSET Tombstone) /\ edits' \in 0 .. MaxEdits
      /\ lock' \in Clients \cup {NoClient}
      /\ \A q \in Clients : seen'[q] = seen[q] \/ seen'[q] = Snapshot
  BY <1>4 DEF ReviewInv, TypeOK, client
<1>6. /\ pc' = [pc EXCEPT ![p] = pc[p]] /\ req' = [req EXCEPT ![p] = req[p]]
      /\ Fits(pc[p], req[p])
  BY <1>4, NothingChanges DEF client
<1> QED  BY <1>3, <1>4, <1>5, <1>6, QuietStep

\* ... and removed.
LEMMA ArchiveFits ==
    ASSUME WorkflowInv, ReviewInv, NEW p \in Clients, Archive(p)
    PROVE  ReviewInv'
<1>1. UNCHANGED <<history, active, projection, text, kept, lock, pc, req, seen, edits>>
  BY DEF Archive
<1>2. /\ seen[p].stage # None /\ seen[p].stage \in {stage, axiom}
      /\ stage' = None \/ stage' = stage
      /\ axiom' = None \/ axiom' = axiom
  BY DEF Archive
<1>3. Rejections(seen[p].stage) \in SUBSET Tombstone
  <2>1. CASE seen[p].stage = stage
    <3>1. Sound(stage)
      BY <1>2, <2>1 DEF ReviewInv
    <3>2. \A n \in Outlives(stage) : n \in Tombstone
      BY <3>1, OutlivesIsTyped
    <3> QED  BY <2>1, <3>2 DEF Rejections
  <2>2. CASE seen[p].stage = axiom
    BY <1>2, <2>2, StagesAreTyped DEF Rejections
  <2> QED  BY <1>2, <2>1, <2>2
<1>4. archived' \in Seq(SUBSET Tombstone)
  BY <1>3 DEF Archive, ReviewInv, TypeOK
<1>5. /\ (stage' = None \/ Sound(stage')) /\ axiom' \in AxiomStage \cup {None}
      /\ projection' \in -1 .. HEAD
      /\ text' \in [Chapters -> Texts] /\ kept' \subseteq Texts /\ edits' \in 0 .. MaxEdits
      /\ lock' \in Clients \cup {NoClient}
      /\ \A q \in Clients : seen'[q] = seen[q] \/ seen'[q] = Snapshot
  BY <1>1, <1>2 DEF ReviewInv, TypeOK
<1>6. stage' = None \/ Sound(stage')
  BY <1>2 DEF ReviewInv
<1>7. /\ pc' = [pc EXCEPT ![p] = pc[p]] /\ req' = [req EXCEPT ![p] = req[p]]
      /\ Fits(pc[p], req[p])
  BY <1>1, NothingChanges
<1> QED  BY <1>1, <1>4, <1>5, <1>6, <1>7, QuietStep

LEMMA ClearFits ==
    ASSUME WorkflowInv, ReviewInv, NEW p \in Clients, Clear(p)
    PROVE  ReviewInv'
<1>1. /\ UNCHANGED <<history, active, projection, text, kept, lock, req, seen, archived, edits>>
      /\ pc' = [pc EXCEPT ![p] = "rebuild"]
  BY DEF Clear, Goto
<1>2. (stage' = None \/ stage' = stage) /\ (axiom' = None \/ axiom' = axiom)
  BY DEF Clear
<1>3. stage' = None \/ Sound(stage')
  BY <1>2 DEF ReviewInv
<1>4. /\ axiom' \in AxiomStage \cup {None} /\ projection' \in -1 .. HEAD
      /\ text' \in [Chapters -> Texts] /\ kept' \subseteq Texts
      /\ archived' \in Seq(SUBSET Tombstone) /\ edits' \in 0 .. MaxEdits
      /\ lock' \in Clients \cup {NoClient}
      /\ \A q \in Clients : seen'[q] = seen[q] \/ seen'[q] = Snapshot
  BY <1>1, <1>2 DEF ReviewInv, TypeOK
<1>5. req' = [req EXCEPT ![p] = req[p]] /\ Fits("rebuild", req[p])
  BY <1>1, NothingChanges
<1> QED  BY <1>1, <1>3, <1>4, <1>5, QuietStep

\* The proof that a seal demands is that of a ready review.
LEMMA SealFits ==
    ASSUME WorkflowInv, ReviewInv, NEW p \in Clients, Seal(p)
    PROVE  ReviewInv'
<1>1. /\ UNCHANGED <<history, active, files, text, lock, req, seen, archived, edits>>
      /\ pc' = [pc EXCEPT ![p] = "swap"] /\ pc[p] = "seal" /\ Proof(req[p])
  BY DEF Seal, Goto
<1>2. Requested(p)
  BY <1>1 DEF WorkflowInv, InFlight
<1>3. IsReady(req[p])
  <2>1. CASE req[p].kind = "axiom"
    BY <1>2, <2>1 DEF Requested, ReviewInv, SeenOk
  <2>2. CASE req[p].kind # "axiom"
    BY <1>1, <2>2 DEF Proof, IsReady, Reduction
  <2> QED  BY <2>1, <2>2
<1>4. Fits("swap", req[p])
  BY <1>3 DEF Fits, Labels
<1>5. req' = [req EXCEPT ![p] = req[p]] /\ kept \subseteq Texts
  BY <1>1, NothingChanges
<1>6. \A q \in Clients : seen'[q] = seen[q] \/ seen'[q] = Snapshot
  BY <1>1
<1> QED  BY <1>1, <1>4, <1>5, <1>6, ClientStep DEF files

LEMMA EditFits ==
    ASSUME WorkflowInv, ReviewInv, NEW c \in Chapters, NEW t \in Texts, Edit(c, t)
    PROVE  ReviewInv'
<1>1. /\ UNCHANGED <<history, active, files, lock, pc, req, seen, archived>>
      /\ text' \in [Chapters -> Texts] /\ edits' \in 0 .. MaxEdits
  BY WorkflowAssumption DEF Edit, ReviewInv, TypeOK
<1>2. TypeOK'
  BY <1>1 DEF ReviewInv, TypeOK, files, HEAD
<1> QED  BY <1>1, <1>2 DEF ReviewInv, SoundPublications, LastIsActive, Asks, SeenOk, HEAD, Last, files

-----------------------------------------------------------------------------
(* The publication *)

LEMMA SwapFits ==
    ASSUME WorkflowInv, ReviewInv, NEW p \in Clients, Swap(p)
    PROVE  ReviewInv'
<1> DEFINE s == req[p]
<1>1. /\ pc[p] = "swap" /\ history' = Append(history, s)
      /\ UNCHANGED <<files, text, lock, req, seen, archived, edits>>
      /\ pc' = [pc EXCEPT ![p] = "clear"]
  BY DEF Swap, Goto
<1>2. s # None /\ s \in {stage, axiom} /\ IsReady(s)
  BY <1>1 DEF WorkflowInv, InFlight, AtHand, ReviewInv, Asks
<1>3. \/ s.kind = "chapter" /\ Sound(s) /\ s \in Stage
      \/ s.kind = "axiom" /\ s \in AxiomStage
  BY <1>2, StagesAreTyped DEF ReviewInv
<1>4. history \in Seq(Stage \cup AxiomStage) /\ HEAD \in Nat
  BY DEF ReviewInv, TypeOK, HEAD
<1> HIDE DEF s
<1>5. /\ history' \in Seq(Stage \cup AxiomStage) /\ HEAD' = HEAD + 1
      /\ DOMAIN history' = 1 .. (HEAD + 1) /\ history' # << >>
      /\ \A i \in 1 .. HEAD : history'[i] = history[i]
      /\ history'[HEAD + 1] = s /\ Last(history') = s
  BY <1>1, <1>3, <1>4 DEF HEAD, Last
<1>6. active' \in [Chapters -> 0 .. HEAD + 1]
      /\ (s.kind = "chapter" => active'[s.txn.chapter] = HEAD + 1)
  <2>1. active \in [Chapters -> 0 .. HEAD]
    BY DEF ReviewInv, TypeOK
  <2>2. CASE s.kind = "axiom"
    BY <1>4, <2>1, <2>2 DEF Swap, s
  <2>3. CASE s.kind = "chapter"
    <3>1. active' = [c \in Chapters |-> IF c < s.txn.chapter THEN active[c]
                                         ELSE IF c = s.txn.chapter THEN HEAD + 1 ELSE 0]
      BY <2>3 DEF Swap, s
    <3>2. s.txn.chapter \in Chapters
      BY <1>3, <2>3 DEF Sound, Stage, ChapterTxn
    <3>3. s.txn.chapter \in Nat
      BY <3>2 DEF Chapters
    <3> QED  BY <1>4, <2>1, <3>1, <3>2, <3>3 DEF Chapters
  <2> QED  BY <1>3, <2>2, <2>3
<1>7. TypeOK'
  BY <1>1, <1>4, <1>5, <1>6 DEF ReviewInv, TypeOK, files
<1>8. SoundPublications'
  <2> SUFFICES ASSUME NEW i \in 1 .. (HEAD + 1)
               PROVE  /\ IsReady(history'[i])
                      /\ history'[i].kind = "chapter" => Sound(history'[i])
    BY <1>5 DEF SoundPublications
  <2>1. CASE i = HEAD + 1
    BY <1>2, <1>3, <1>5, <2>1
  <2>2. CASE i # HEAD + 1
    <3>1. i \in 1 .. HEAD /\ i \in DOMAIN history
      BY <1>4, <2>2 DEF HEAD
    <3> QED  BY <1>5, <3>1 DEF ReviewInv, SoundPublications
  <2> QED  BY <2>1, <2>2
<1>9. LastIsActive'
  BY <1>5, <1>6 DEF LastIsActive
<1>10. Asks'
  BY <1>1 DEF Asks, ReviewInv, TypeOK
<1> QED  BY <1>1, <1>7, <1>8, <1>9, <1>10 DEF ReviewInv, SeenOk, files

LEMMA InitFits == Init => ReviewInv
<1> SUFFICES ASSUME Init  PROVE ReviewInv  OBVIOUS
<1>1. HEAD = 0 /\ history \in Seq(Stage \cup AxiomStage)
  BY DEF Init, HEAD
<1>2. active \in [Chapters -> 0 .. HEAD] /\ projection \in -1 .. HEAD
  BY <1>1 DEF Init
<1>3. text \in [Chapters -> Texts] /\ edits \in 0 .. MaxEdits
  BY WorkflowAssumption DEF Init
<1>4. TypeOK
  BY <1>1, <1>2, <1>3 DEF Init, TypeOK
<1>5. Snapshot.stage = None
  BY DEF Init, Snapshot, PublicStage
<1> QED  BY <1>4, <1>5, NoKind DEF Init, ReviewInv, SoundPublications, LastIsActive, Asks, SeenOk

LEMMA StepFits == WorkflowInv /\ ReviewInv /\ [Next]_vars => ReviewInv'
<1> SUFFICES ASSUME WorkflowInv, ReviewInv, [Next]_vars
             PROVE  ReviewInv'
  OBVIOUS
<1>1. CASE UNCHANGED vars
  BY <1>1 DEF vars, files, client, ReviewInv, TypeOK, SoundPublications, LastIsActive, Asks,
     SeenOk, HEAD, Last
<1>2. ASSUME NEW c \in Chapters, NEW t \in Texts, Edit(c, t)
      PROVE  ReviewInv'
  BY <1>2, EditFits
<1>3. ASSUME NEW p \in Clients,
             \/ Look(p)
             \/ \E c \in Chapters, cands \in SUBSET Candidate :
                   \E flagged \in SUBSET cands : \E conflicts \in SUBSET flagged :
                      AskPrepare(p, c, cands, flagged, conflicts)
             \/ Prepare(p)
             \/ \E desired \in AxiomSets : AskPrepareAxiom(p, desired)
             \/ PrepareAxiom(p)
      PROVE  ReviewInv'
  BY <1>3, LookFits, AskPrepareFits, PrepareFits, AskPrepareAxiomFits, PrepareAxiomFits
<1>4. ASSUME NEW p \in Clients, stage # None, NEW S \in SUBSET Cases(stage.txn) \ {{}},
             NEW choice \in [S -> UNION {Choices(c) : c \in S}],
             \A c \in S : choice[c] \in Choices(c), Decide(p, choice)
      PROVE  ReviewInv'
  BY <1>4, DecideFits
<1>5. ASSUME NEW p \in Clients,
             \/ \E act \in AxiomActions : DecideAxiom(p, act)
             \/ Archive(p)
             \/ Finalize(p) \/ FinalizeRetry(p) \/ FinalizeAxiom(p) \/ FinalizeAxiomRetry(p)
      PROVE  ReviewInv'
  BY <1>5, DecideAxiomFits, ArchiveFits, FinalizeFits
<1>6. ASSUME NEW p \in Clients,
             GiveUp(p) \/ Seal(p) \/ SealRefused(p) \/ Swap(p) \/ Clear(p) \/ Die(p)
      PROVE  ReviewInv'
  <2>1. CASE GiveUp(p) \/ SealRefused(p) \/ Die(p)
    BY <2>1, LeavingFits DEF GiveUp, SealRefused, Die, files
  <2> QED  BY <1>6, <2>1, SealFits, SwapFits, ClearFits
<1>7. ASSUME NEW p \in Clients, Rebuild(p) \/ RebuildAlone(p)
      PROVE  ReviewInv'
  <2>1. CASE Rebuild(p)
    BY <2>1, LeavingFits DEF Rebuild
  <2>2. CASE RebuildAlone(p)
    <3>1. /\ UNCHANGED <<history, active, stage, axiom, text, archived, edits>>
          /\ projection' \in {projection, HEAD} /\ lock' \in {lock, p, NoClient}
          /\ \A q \in Clients : seen'[q] = seen[q] \/ seen'[q] = Snapshot
          /\ pc' = pc /\ req' = req /\ kept' = kept
      BY <2>2 DEF RebuildAlone, client
    <3>2. /\ pc' = [pc EXCEPT ![p] = pc[p]] /\ req' = [req EXCEPT ![p] = req[p]]
          /\ kept' \subseteq Texts /\ Fits(pc[p], req[p])
      BY <3>1, NothingChanges
    <3> QED  BY <3>1, <3>2, ClientStep
  <2> QED  BY <1>7, <2>1, <2>2
<1> QED  BY <1>1, <1>2, <1>3, <1>4, <1>5, <1>6, <1>7 DEF Next, Work

\* Every stage and publication passes what prepare and record_decisions have checked,
\* what was published was ready, and every variable has its type.
THEOREM ReviewInvariant == Spec => []ReviewInv
<1>1. Init => ReviewInv  BY InitFits
<1>2. WorkflowInv /\ ReviewInv /\ [Next]_vars => ReviewInv'  BY StepFits
<1> QED  BY <1>1, <1>2, WorkflowInvariant, PTL DEF Spec

\* The files and the clients' states of service.py and author_axiom.py keep their types.
THEOREM WorkflowTypes == Spec => []TypeOK
<1>1. ReviewInv => TypeOK  BY DEF ReviewInv
<1> QED  BY <1>1, ReviewInvariant, PTL

\* The lineage rules of service.py: a fact that was rejected does not come back under
\* another id, another span or as its own correction while the chapter's bytes stay.
THEOREM RejectedIsKeptOut == Spec => []RejectedStaysOut
<1>1. WorkflowInv /\ ReviewInv => RejectedStaysOut
  <2> SUFFICES ASSUME WorkflowInv, ReviewInv,
                      NEW j \in DOMAIN history, history[j].kind = "chapter"
               PROVE  LET k == history[j]
                          earlier == {history[i] : i \in 1 .. (j - 1)} \cap Publications(k.txn.chapter)
                      IN
                      \A n \in Binding(k.lineage \cup UNION {Outlives(h) : h \in earlier},
                                       k.txn.chapter, k.txn.text) :
                        /\ \A c \in ActiveCandidates(k.txn, k.decs) :
                              /\ candidate_digest(c) # candidate_digest(n.cand)
                              /\ n.act = "omit" /\ c.claim = n.cand.claim =>
                                    \E d \in DecisionHeads(k.decs) : d.cand = c /\ d.act = "approve"
                        /\ n.act = "correct" /\ n.fix \notin ActiveCandidates(k.txn, k.decs) =>
                              \E d \in k.decs : d.cand = n.fix /\ d.act = "omit"
    BY DEF RejectedStaysOut
  <2> DEFINE k == history[j]
             earlier == {history[i] : i \in 1 .. (j - 1)} \cap Publications(k.txn.chapter)
  <2>1. Sound(k) /\ IsReady(k)
    BY DEF ReviewInv, SoundPublications
  <2>2. ASSUME NEW h \in earlier
        PROVE  Outlives(h) \subseteq k.lineage
    <3>1. PICK i \in 1 .. (j - 1) : history[i] = h
      OBVIOUS
    <3>2. h.kind = "chapter" /\ h.txn.chapter = k.txn.chapter
      BY DEF Publications
    <3>3. history \in Seq(Stage \cup AxiomStage)
      BY DEF ReviewInv, TypeOK
    <3>4. i \in DOMAIN history /\ i < j
      BY <3>1, <3>3
    <3> QED  BY <3>1, <3>2, <3>4 DEF WorkflowInv, RejectionsAreInherited
  <2>3. k.lineage \cup UNION {Outlives(h) : h \in earlier} = k.lineage
    BY <2>2
  <2>4. ASSUME NEW n \in Binding(k.lineage \cup UNION {Outlives(h) : h \in earlier},
                                 k.txn.chapter, k.txn.text)
        PROVE  n \in Binding(k.lineage, k.txn.chapter, k.txn.text)
    BY <2>3 DEF Binding
  <2>5. k.kind = "chapter"
    OBVIOUS
  <2> HIDE DEF k, earlier
  <2>6. ASSUME NEW n \in Binding(k.lineage \cup UNION {Outlives(h) : h \in earlier},
                                 k.txn.chapter, k.txn.text)
        PROVE  /\ \A c \in ActiveCandidates(k.txn, k.decs) :
                     /\ candidate_digest(c) # candidate_digest(n.cand)
                     /\ n.act = "omit" /\ c.claim = n.cand.claim =>
                           \E d \in DecisionHeads(k.decs) : d.cand = c /\ d.act = "approve"
               /\ n.act = "correct" /\ n.fix \notin ActiveCandidates(k.txn, k.decs) =>
                     \E d \in k.decs : d.cand = n.fix /\ d.act = "omit"
    <3>1. n \in Binding(k.lineage, k.txn.chapter, k.txn.text)
      BY <2>4
    <3> QED  BY <2>1, <2>5, <3>1, RejectedIsOut
  <2> QED  BY <2>6 DEF k, earlier
<1> QED  BY <1>1, WorkflowInvariant, ReviewInvariant, PTL

\* reduce_review and the proof of a seal: nothing is published with an open case, or
\* with a candidate that a human has left out.
THEOREM ReviewIsEnded == Spec => []ReviewedToTheEnd
<1>1. ReviewInv => ReviewedToTheEnd
  <2> SUFFICES ASSUME ReviewInv, NEW i \in DOMAIN history
               PROVE  LET h == history[i] IN
                      IF h.kind = "axiom" THEN h.acts # << >> /\ Last(h.acts) # "rewrite"
                      ELSE \A c \in Cases(h.txn) :
                             \E d \in h.decs :
                               /\ d.cand = c /\ \A e \in h.decs : e.cand = c => e.rev <= d.rev
                               /\ \/ d.act = "approve"
                                  \/ d.act = "omit" /\ c \notin ActiveCandidates(h.txn, h.decs)
    BY DEF ReviewedToTheEnd
  <2> DEFINE h == history[i]
  <2>1. IsReady(h) /\ (h.kind = "chapter" => Sound(h)) /\ h \in Stage \cup AxiomStage
    BY DEF ReviewInv, SoundPublications, TypeOK
  <2>2. CASE h.kind = "axiom"
    BY <2>1, <2>2 DEF IsReady
  <2>3. CASE h.kind # "axiom"
    <3>1. h.kind = "chapter"
      BY <2>1, <2>3 DEF Stage, AxiomStage
    <3>2. ASSUME NEW c \in Cases(h.txn)
          PROVE  \E d \in h.decs :
                   /\ d.cand = c /\ \A e \in h.decs : e.cand = c => e.rev <= d.rev
                   /\ \/ d.act = "approve"
                      \/ d.act = "omit" /\ c \notin ActiveCandidates(h.txn, h.decs)
      <4>1. PICK d \in DecisionHeads(h.decs) : d.cand = c /\ d.act \in {"approve", "omit"}
        BY <2>1, <3>1, ReadyIsDecided
      <4> QED  BY <4>1 DEF DecisionHeads, ActiveCandidates
    <3> QED  BY <2>3, <3>2
  <2> QED  BY <2>2, <2>3
<1> QED  BY <1>1, ReviewInvariant, PTL

\* A staged review that is not published goes by the archive, grows by decisions, or is
\* replaced by a stage of the same chapter that inherits its rejections.
THEOREM ReviewStays == Spec => ReviewIsNotLost
<1> DEFINE Lost == stage # None /\ stage' # stage /\ ~IsCurrentCommit(stage)
           Kept == \/ stage' = None /\ \E p \in Clients : Idle(p) /\ seen[p].stage = stage
                   \/ /\ stage'.txn = stage.txn /\ stage.decs \subseteq stage'.decs
                      /\ stage'.lineage = stage.lineage
                   \/ /\ stage'.txn.chapter = stage.txn.chapter
                      /\ stage'.txn.round = stage.txn.round + 1
                      /\ Outlives(stage) \subseteq stage'.lineage
<1>1. WorkflowInv /\ ReviewInv /\ [Next]_vars => [Lost => Kept]_vars
  <2> SUFFICES ASSUME WorkflowInv, ReviewInv, Next, Lost
               PROVE  Kept
    OBVIOUS
  <2>1. stage \in Stage /\ ~IsCurrentCommit(stage)
    BY DEF ReviewInv, TypeOK
  <2>2. ASSUME NEW p \in Clients, Prepare(p)
        PROVE  Kept
    <3> DEFINE r == req[p]
    <3>1. stage.txn.chapter = r.chapter /\ NextRound = stage.txn.round + 1
      BY <2>1, <2>2 DEF Prepare, StageGivesWay, NextRound
    <3>2. Outlives(stage) \subseteq LineageOf(r.chapter)
      BY <3>1 DEF LineageOf, Replaced
    <3>3. /\ stage'.txn.chapter = r.chapter /\ stage'.txn.round = NextRound
          /\ stage'.lineage = LineageOf(r.chapter)
      BY <2>2 DEF Prepare, PreparedStage
    <3> QED  BY <3>1, <3>2, <3>3
  <2>3. ASSUME NEW p \in Clients, NEW choice, Decide(p, choice)
        PROVE  Kept
    <3>1. stage' = [stage EXCEPT !.decs = stage.decs \cup Planned(choice)]
      BY <2>3 DEF Decide
    <3> QED  BY <2>1, <3>1 DEF Stage
  <2>4. ASSUME NEW p \in Clients, Archive(p)
        PROVE  Kept
    BY <2>4 DEF Archive
  <2>5. ASSUME NEW p \in Clients, Clear(p)
        PROVE  FALSE
    <3>1. /\ req[p] \in {stage, axiom} /\ req[p].kind = "chapter"
          /\ history # << >> /\ req[p] = Last(history)
      BY <2>5 DEF Clear, WorkflowInv, InFlight, AtHand
    <3>2. req[p] = stage
      BY <3>1, StagesAreTyped
    <3>3. active[stage.txn.chapter] = HEAD /\ Last(history) = stage
      BY <3>1, <3>2 DEF ReviewInv, LastIsActive
    <3>4. HEAD # 0 /\ history[HEAD] = stage
      BY <3>1, <3>3 DEF Last, HEAD, ReviewInv, TypeOK
    <3>5. stage.txn.chapter \in Chapters
      BY <2>1 DEF Stage, ChapterTxn
    <3> QED  BY <2>1, <3>3, <3>4, <3>5 DEF IsCurrentCommit, Commit
  <2>6. \/ stage' = stage
        \/ \E p \in Clients : Prepare(p) \/ Archive(p) \/ Clear(p) \/ \E choice : Decide(p, choice)
    BY DEF Next, Edit, Look, AskPrepare, Ask, AskPrepareAxiom, PrepareAxiom, GiveUp, DecideAxiom,
       Finalize, FinalizeRetry, FinalizeAxiom, FinalizeAxiomRetry, Work, Seal, SealRefused, Swap,
       Rebuild, RebuildAlone, Die, files
  <2> QED  BY <2>2, <2>3, <2>4, <2>5, <2>6
<1> QED  BY <1>1, WorkflowInvariant, ReviewInvariant, PTL DEF Spec, ReviewIsNotLost
=============================================================================
