------------------------- MODULE StableReadsProofs -------------------------
(***************************************************************************)
(* The readers of StableReads, for every set of clients, candidates, texts *)
(* and axioms and every bound: what the public snapshot, the fact query,   *)
(* the search and the refresh of the planning contracts promise while any  *)
(* number of clients write, and the author edits.                          *)
(***************************************************************************)
EXTENDS StableReads, CanonWorkflowProofs

\* The commit a chapter stands on was made from a chapter stage.
ActiveAreChapters == \A c \in Chapters : active[c] # 0 => Commit(c).kind = "chapter"

\* What is known of the writers' files.
WritersInv == WorkflowInv /\ ReviewInv /\ ActiveAreChapters

-----------------------------------------------------------------------------
(* What a writer may do to the files                                         *)

\* HEAD only grows, the active commits change with it only, the projection is only
\* ever replaced by one of HEAD, and the axiom pointer does not give way to a chapter's.
LEMMA WritersMoveOn ==
    ASSUME WritersInv, [Next]_vars
    PROVE  /\ HEAD \in Nat /\ (HEAD' = HEAD \/ HEAD' = HEAD + 1)
           /\ HEAD' = HEAD => history' = history /\ active' = active
           /\ projection' = projection \/ projection' = HEAD
           /\ axiom' = axiom \/ stage' = stage
<1>1. history \in Seq({history[i] : i \in DOMAIN history}) /\ HEAD \in Nat
  BY DEF WritersInv, WorkflowInv, Shapes, HEAD
<1>2. ASSUME NEW p \in Clients, Swap(p)
      PROVE  HEAD' = HEAD + 1 /\ projection' = projection /\ stage' = stage
  BY <1>1, <1>2, OneMore DEF Swap, HEAD, files
<1>3. \/ history' = history /\ active' = active
      \/ \E p \in Clients : Swap(p)
  BY DEF vars, Next, Work, Edit, Look, Ask, AskPrepare, Prepare, AskPrepareAxiom, PrepareAxiom, GiveUp,
       Decide, DecideAxiom, Archive, Finalize, FinalizeRetry, FinalizeAxiom, FinalizeAxiomRetry,
       Seal, SealRefused, Clear, Rebuild, RebuildAlone, Die
<1>4. projection' = projection \/ projection' = HEAD
  BY DEF vars, files, Next, Work, Edit, Look, Ask, AskPrepare, Prepare, AskPrepareAxiom, PrepareAxiom, GiveUp,
       Decide, DecideAxiom, Archive, Finalize, FinalizeRetry, FinalizeAxiom, FinalizeAxiomRetry,
       Seal, SealRefused, Clear, Rebuild, RebuildAlone, Die, Swap
<1>5. axiom' = axiom \/ stage' = stage
  BY DEF vars, files, Next, Work, Edit, Look, Ask, AskPrepare, Prepare, AskPrepareAxiom, PrepareAxiom, GiveUp,
       Decide, DecideAxiom, Archive, Finalize, FinalizeRetry, FinalizeAxiom, FinalizeAxiomRetry,
       Seal, SealRefused, Clear, Rebuild, RebuildAlone, Die, Swap
<1>6. QED
  BY <1>1, <1>2, <1>3, <1>4, <1>5 DEF HEAD

LEMMA ActiveStay ==
    ASSUME WritersInv, [Next]_vars
    PROVE  ActiveAreChapters'
<1>1. CASE HEAD' = HEAD
  BY <1>1, WritersMoveOn DEF ActiveAreChapters, WritersInv, Commit
<1>2. CASE HEAD' # HEAD
  <2>1. PICK p \in Clients : Swap(p)
    BY <1>2, OnlySwapPublishes DEF HEAD
  <2>2. req[p].kind \in {"chapter", "axiom"}
    BY <2>1 DEF WritersInv, WorkflowInv, InFlight, Requested, Swap
  <2>3. history \in Seq({history[i] : i \in DOMAIN history})
    BY DEF WritersInv, WorkflowInv, Shapes
  <2>4. /\ history' = Append(history, req[p])
        /\ \/ req[p].kind = "axiom" /\ active' = active
           \/ /\ req[p].kind = "chapter"
              /\ \A c \in Chapters : active'[c] \in {active[c], HEAD + 1, 0}
    BY <2>1, <2>2 DEF Swap
  <2>5. /\ history'[HEAD + 1] = req[p]
        /\ \A i \in 1 .. HEAD : history'[i] = history[i]
    BY <2>3, <2>4, OneMore DEF HEAD
  <2>6. \A c \in Chapters : active[c] \in 0 .. HEAD
    BY DEF WritersInv, ReviewInv, TypeOK
  <2>7. ASSUME NEW c \in Chapters, active'[c] # 0
        PROVE  history'[active'[c]].kind = "chapter"
    <3>1. CASE active'[c] = active[c]
      BY <2>5, <2>6, <2>7, <3>1 DEF WritersInv, ActiveAreChapters, Commit
    <3>2. CASE active'[c] = HEAD + 1 /\ active'[c] # active[c]
      BY <2>4, <2>5, <3>2
    <3>3. QED
      BY <2>4, <2>7, <3>1, <3>2
  <2>8. QED
    BY <2>7 DEF ActiveAreChapters, Commit
<1>3. QED
  BY <1>1, <1>2

LEMMA WritersKeepFiles == WritersInv /\ [Next]_vars => WritersInv'
<1>1. WritersInv /\ [Next]_vars => WorkflowInv' /\ ReviewInv'
  BY StepHolds, StepFits DEF WritersInv
<1>2. QED
  BY <1>1, ActiveStay DEF WritersInv

LEMMA FilesAtFirst == Init => WritersInv
<1>1. Init => ActiveAreChapters
  BY DEF Init, ActiveAreChapters
<1>2. QED
  BY <1>1, InitHolds, InitFits DEF WritersInv

-----------------------------------------------------------------------------
(* The public snapshot, piece by piece                                       *)

\* What the pieces come to when the chapter pointer is s and there is no other.
Shown(s) == [head |-> HEAD, fresh |-> ProjectionIsFresh,
             state |-> ByProjection(StateOf(s, StageCase(s))), stage |-> ShownOf(s, StageCase(s))]

\* A transaction that HEAD has gone through is behind HEAD.
LEMMA CommittedIsBehind ==
    ASSUME WritersInv, stage # None, IsCurrentCommit(stage)
    PROVE  stage.txn.parent # HEAD
<1>1. PICK c \in Chapters : active[c] # 0 /\ Commit(c).txn = stage.txn
  BY DEF IsCurrentCommit
<1>2. active[c] \in 1 .. HEAD /\ HEAD \in Nat /\ DOMAIN history = 1 .. HEAD
  <2>1. history \in Seq(Stage \cup AxiomStage) /\ active \in [Chapters -> 0 .. HEAD]
    BY DEF WritersInv, ReviewInv, TypeOK
  <2>2. HEAD \in Nat /\ DOMAIN history = 1 .. HEAD
    BY <2>1 DEF HEAD
  <2>3. QED
    BY <1>1, <2>1, <2>2
<1>3. Commit(c).kind = "chapter"
  BY <1>1 DEF WritersInv, ActiveAreChapters
<1>4. Commit(c).txn.parent = active[c] - 1
  BY <1>2, <1>3 DEF WritersInv, WorkflowInv, OnTheLast, Parent, Commit
<1>5. QED
  BY <1>1, <1>2, <1>4

\* The pieces, read at once, are the public snapshot.
LEMMA PiecesAreTheSnapshot ==
    ASSUME WritersInv, axiom = None
    PROVE  Public(Snapshot) = Shown(stage)
<1> DEFINE case == StageCase(stage)
<1>1. Public(Snapshot) = [head |-> HEAD, fresh |-> ProjectionIsFresh,
                          state |-> ChapterState, stage |-> PublicStage]
  BY DEF Public, Snapshot
<1>2. CASE stage = None
  <2>1. case = "no_stage"
    BY <1>2 DEF StageCase
  <2>2. ByProjection(StateOf(stage, "no_stage")) = StateWithoutStage
    BY DEF ByProjection, StateOf, StateWithoutStage
  <2>3. ChapterState = StateWithoutStage /\ PublicStage = None /\ ShownOf(stage, "no_stage") = None
    BY <1>2 DEF ChapterState, PublicStage, ShownOf
  <2>4. QED
    BY <1>1, <2>1, <2>2, <2>3 DEF Shown
<1>3. CASE stage # None /\ ~BoundBefore(stage.txn.chapter)
  <2>1. case = "changed_before"
    BY <1>3 DEF StageCase
  <2>2. ByProjection(StateOf(stage, "changed_before")) = "recompile_required"
    BY DEF ByProjection, StateOf
  <2>3. /\ ChapterState = "recompile_required" /\ PublicStage = None
        /\ ShownOf(stage, "changed_before") = None
    BY <1>3 DEF ChapterState, PublicStage, ShownOf
  <2>4. QED
    BY <1>1, <2>1, <2>2, <2>3 DEF Shown
<1>4. CASE stage # None /\ BoundBefore(stage.txn.chapter) /\ ~IsCurrentCommit(stage)
  <2>1. case = "unpublished"
    BY <1>4 DEF StageCase
  <2>2. ~ProvedBy(stage)
    BY <1>4 DEF ProvedBy, IsCurrentCommit
  <2>3. Reduction(stage) \in {"rewrite_required", "recompile_required", "awaiting_human",
                              "ready_to_finalize"}
    BY DEF Reduction, ReviewState
  <2>4. ByProjection(StateOf(stage, "unpublished")) =
           IF stage.txn.parent = HEAD /\ text[stage.txn.chapter] = stage.txn.text
           THEN Reduction(stage) ELSE "recompile_required"
    BY <2>3 DEF ByProjection, StateOf
  <2>5. ChapterState = ByProjection(StateOf(stage, "unpublished"))
    BY <1>4, <2>2, <2>4 DEF ChapterState
  <2>6. PublicStage = ShownOf(stage, "unpublished")
    BY <1>4 DEF PublicStage, ShownOf
  <2>7. QED
    BY <1>1, <2>1, <2>5, <2>6 DEF Shown
<1>5. CASE stage # None /\ BoundBefore(stage.txn.chapter) /\ IsCurrentCommit(stage)
  <2>1. PublicStage = None
    BY <1>5 DEF PublicStage
  <2>2. CASE ProvedBy(stage)
    <3>1. case = "no_stage"
      BY <1>5, <2>2 DEF StageCase
    <3>2. ByProjection(StateOf(stage, "no_stage")) = StateWithoutStage
      BY DEF ByProjection, StateOf, StateWithoutStage
    <3>3. ChapterState = StateWithoutStage /\ ShownOf(stage, "no_stage") = None
      BY <1>5, <2>2 DEF ChapterState, ShownOf
    <3>4. QED
      BY <1>1, <2>1, <3>1, <3>2, <3>3 DEF Shown
  <2>3. CASE ~ProvedBy(stage)
    <3>1. case = "not_exact"
      BY <1>5, <2>3 DEF StageCase
    <3>2. ByProjection(StateOf(stage, "not_exact")) = "recompile_required"
      BY DEF ByProjection, StateOf
    <3>3. stage.txn.parent # HEAD
      BY <1>5, CommittedIsBehind
    <3>4. ChapterState = "recompile_required" /\ ShownOf(stage, "not_exact") = None
      BY <1>5, <2>3, <3>3 DEF ChapterState, ShownOf
    <3>5. QED
      BY <1>1, <2>1, <3>1, <3>2, <3>4 DEF Shown
  <2>4. QED
    BY <2>2, <2>3
<1>6. QED
  BY <1>2, <1>3, <1>4, <1>5

-----------------------------------------------------------------------------
(* The invariant of the readers                                              *)

\* The snapshots the files have given since the question, as the public sees them.
Given == {Public(shot) : shot \in real}

\* Nothing the token stands for, but for the two pointers, has moved since it was read.
Same == HEAD = reader.token[1] /\ projection = reader.token[4] /\ ~saved

\* The chapter pointer that was read with the token belongs to a snapshot that was
\* given; if the axiom pointer was there, at the latest when that one goes.
TokenInv ==
    /\ reader.token[1] \in Nat /\ reader.token[1] <= HEAD
    /\ HEAD = reader.token[1] /\ reader.token[4] = HEAD => projection = HEAD
    /\ Same /\ (reader.token[2] # None \/ axiom = None) => Shown(reader.token[2]) \in Given

WithToken == {"pointer", "commits", "head", "projection", "after"}

ShotShaped(s) ==
    s = [head |-> s.head, fresh |-> s.fresh, staged |-> s.staged, stage |-> s.stage, state |-> s.state]

\* What each read of a snapshot has put together so far.
SnapshotInv ==
    /\ reader.at \in WithToken \cup {"before"} => reader.op = "snapshot" /\ Snapshot \in real
    /\ reader.at \in WithToken => TokenInv
    /\ reader.at = "pointer" => reader.stage = reader.token[2]
    /\ reader.at = "commits" =>
          /\ reader.stage = reader.token[2]
          /\ Same => reader.case = StageCase(reader.token[2])
    /\ reader.at = "head" /\ Same =>
          /\ reader.head = HEAD
          /\ reader.state = StateOf(reader.token[2], StageCase(reader.token[2]))
          /\ reader.stage = ShownOf(reader.token[2], StageCase(reader.token[2]))
    /\ reader.at = "projection" =>
          /\ ShotShaped(reader.shot)
          /\ Same => Public(reader.shot) = Shown(reader.token[2])
    /\ reader.at = "after" =>
          /\ reader = [at |-> "after", op |-> "snapshot", tries |-> reader.tries,
                       token |-> reader.token, shot |-> reader.shot]
          /\ Same => Public(reader.shot) \in Given
    /\ AnswerWasReal

FactOps == {"query", "search", "rebuild"}
Operations == FactOps \cup {"refresh"}

\* A reader that has a snapshot, or its facts too, or the inputs of a refresh.
HasWorkflow ==
    /\ reader = [at |-> reader.at, op |-> reader.op, before |-> reader.before,
                 workflow |-> reader.workflow]
    /\ reader.op \in Operations
    /\ reader.workflow.head \in Nat /\ reader.workflow.head <= HEAD
HasFacts ==
    /\ reader = [at |-> reader.at, op |-> reader.op, before |-> reader.before,
                 workflow |-> reader.workflow, facts |-> reader.facts]
    /\ reader.op \in FactOps
HasInputs ==
    reader = [at |-> reader.at, op |-> "refresh", workflow |-> reader.workflow,
              outline |-> reader.outline, before |-> reader.before]

\* The facts are of a HEAD between the one of the first snapshot and the present one,
\* so of both once these are the same again.
FactsInv ==
    /\ reader.at = "workflow" => reader.op \in Operations
    /\ reader.at \in {"projected", "capture"} => HasWorkflow
    /\ reader.at = "as_of" => HasWorkflow /\ reader.op \in FactOps
    /\ reader.at = "recheck" =>
          /\ HasFacts /\ reader.workflow.head \in Nat /\ reader.facts \in Nat
          /\ reader.workflow.head <= reader.facts /\ reader.facts <= HEAD
    /\ reader.at \in {"index", "searched", "build", "install", "installed"} =>
          HasFacts /\ reader.facts = reader.workflow.head
    /\ FactsAreOfTheirHead

\* After the last file all three are of the batch, nobody else writes them, and the
\* backups are of the batch before.
RefreshInv ==
    /\ contracts = [f \in Files |-> contracts[f]]
    /\ reader.at \in {"stable", "current", "write", "restore"} => HasInputs
    /\ reader.at \in {"check_inputs", "check_authority"} =>
          HasInputs /\ \A f \in Files : contracts[f] = Batch
    /\ reader.at \in Writing /\ lastBatch # Mixed => \A f \in Files : reader.before[f] = lastBatch
    /\ ContractsAreWhole

ReadersInv ==
    /\ WritersInv
    /\ tool \subseteq {"snapshot"} \cup Operations
    /\ SnapshotInv /\ FactsInv /\ RefreshInv

-----------------------------------------------------------------------------
(* Asking                                                                    *)

\* Where a reader holds nothing yet.
LEMMA HoldsNothing ==
    ASSUME reader.at \in {"free", "error"}
    PROVE  /\ SnapshotInv /\ FactsInv
           /\ contracts = [f \in Files |-> contracts[f]] /\ ContractsAreWhole => RefreshInv
BY DEF SnapshotInv, FactsInv, RefreshInv, WithToken, AnswerWasReal, FactsAreOfTheirHead, Writing

\* A reader asks when it is not at work.
LEMMA AskedAtRest ==
    ASSUME ReadersInv, ~Working, UNCHANGED <<contracts, lastBatch>>,
           reader'.at = "before" \/ (reader'.at = "workflow" /\ reader'.op \in Operations)
    PROVE  FactsInv' /\ RefreshInv'
<1>1. FactsInv'
  BY DEF FactsInv, FactsAreOfTheirHead
<1>2. reader.at \notin Writing
  BY DEF Working, Answered, Writing
<1>3. RefreshInv'
  BY <1>2 DEF RefreshInv, ContractsAreWhole, Writing, ReadersInv
<1>4. QED
  BY <1>1, <1>3

LEMMA AsksKeepReads ==
    ASSUME ReadersInv, UNCHANGED <<vars, tool, index, outline, contracts, lastBatch>>, saved' = FALSE,
           AskSnapshot \/ \E op \in tool : AskOperation(op)
    PROVE  ReadersInv'
<1>1. WritersInv'
  BY WritersKeepFiles DEF ReadersInv
<1>2. Snapshot' = Snapshot
  BY DEF vars, files, Snapshot, HEAD, ProjectionIsFresh, AxiomState, AxiomReduction, ChapterState,
         StateWithoutStage, PublicStage, AllBound, BoundBefore, Bound, Commit, IsCurrentCommit,
         ProvedBy, Reduction, Last
<1>3. CASE AskSnapshot
  <2>1. reader'.at = "before" /\ reader'.op = "snapshot" /\ real' = {Snapshot}
    BY <1>3 DEF AskSnapshot
  <2>2. SnapshotInv'
    BY <1>2, <2>1 DEF SnapshotInv, WithToken, AnswerWasReal
  <2>3. FactsInv' /\ RefreshInv'
    BY <1>3, <2>1, AskedAtRest DEF AskSnapshot
  <2>4. QED
    BY <1>1, <2>2, <2>3 DEF ReadersInv
<1>4. ASSUME NEW op \in tool, AskOperation(op)
      PROVE  ReadersInv'
  <2>1. reader'.at = "workflow" /\ reader'.op \in Operations
    BY <1>4 DEF AskOperation, ReadersInv
  <2>2. SnapshotInv'
    BY <2>1 DEF SnapshotInv, WithToken, AnswerWasReal
  <2>3. FactsInv' /\ RefreshInv'
    BY <1>4, <2>1, AskedAtRest DEF AskOperation
  <2>4. QED
    BY <1>1, <2>2, <2>3 DEF ReadersInv
<1>5. QED
  BY <1>3, <1>4

-----------------------------------------------------------------------------
(* The reads of a snapshot                                                   *)

\* While no writer steps, everything that is derived from the files stays.
LEMMA NothingMoves ==
    ASSUME UNCHANGED vars
    PROVE  /\ HEAD' = HEAD /\ Snapshot' = Snapshot /\ ProjectionIsFresh' = ProjectionIsFresh
           /\ stage' = stage /\ axiom' = axiom /\ projection' = projection
           /\ \A s : /\ StageCase(s)' = StageCase(s)
                     /\ \A case : /\ StateOf(s, case)' = StateOf(s, case)
                                  /\ ShownOf(s, case)' = ShownOf(s, case)
                     /\ Shown(s)' = Shown(s)
<1> USE DEF vars, files, Snapshot, HEAD, ProjectionIsFresh, AxiomState, AxiomReduction, ChapterState,
         StateWithoutStage, PublicStage, AllBound, BoundBefore, Bound, Commit, IsCurrentCommit,
         ProvedBy, Reduction, Last
<1>1. HEAD' = HEAD /\ Snapshot' = Snapshot /\ ProjectionIsFresh' = ProjectionIsFresh
  OBVIOUS
<1>2. \A s : StageCase(s)' = StageCase(s)
  BY DEF StageCase
<1>3. \A s, case : StateOf(s, case)' = StateOf(s, case) /\ ShownOf(s, case)' = ShownOf(s, case)
  BY DEF StateOf, ShownOf
<1>4. \A s : Shown(s)' = Shown(s)
  BY DEF Shown, ByProjection, StageCase, StateOf, ShownOf
<1>5. QED
  BY <1>1, <1>2, <1>3, <1>4

\* What a read of a snapshot leaves alone.
Reads ==
    /\ UNCHANGED <<vars, tool, real, index, outline, contracts, lastBatch>>
    /\ reader.at \notin Writing
    /\ saved' = (saved /\ reader'.at # "pointer")

LEMMA OtherLabels ==
    ASSUME ReadersInv, Reads, reader'.at \in WithToken \cup {"before", "error"}
    PROVE  FactsInv' /\ RefreshInv' /\ WritersInv' /\ tool' = tool
<1>1. WritersInv'
  BY WritersKeepFiles DEF ReadersInv, Reads
<1>2. contracts' = [f \in Files |-> contracts'[f]]
  BY DEF ReadersInv, RefreshInv, Reads
<1>3. reader'.at \notin {"workflow", "projected", "capture", "as_of", "recheck", "index", "searched",
                         "build", "install", "installed", "stable", "current", "write", "restore",
                         "check_inputs", "check_authority", "answer", "applied", "restored"}
  BY DEF WithToken
<1>4. FactsInv' /\ RefreshInv'
  BY <1>2, <1>3 DEF FactsInv, RefreshInv, FactsAreOfTheirHead, ContractsAreWhole, Writing,
                    ReadersInv, Reads
<1>5. QED
  BY <1>1, <1>4 DEF Reads

LEMMA ReadPointerKeeps ==
    ASSUME ReadersInv, Reads, ReadPointer
    PROVE  ReadersInv'
<1>1. /\ reader' = [at |-> "pointer", op |-> "snapshot", tries |-> reader.tries,
                    token |-> Token, stage |-> stage]
      /\ reader.at = "before"
  BY DEF ReadPointer, At
<1>2. /\ reader'.at = "pointer" /\ reader'.op = "snapshot" /\ reader'.stage = stage
      /\ reader'.token = <<HEAD, stage, axiom, projection>>
  BY <1>1 DEF Token
<1>3. UNCHANGED vars /\ real' = real /\ saved' = FALSE
  BY <1>1 DEF Reads
<1>4. Snapshot \in real /\ WritersInv
  BY <1>1 DEF ReadersInv, SnapshotInv
<1>5. HEAD \in Nat
  BY <1>4 DEF WritersInv, WorkflowInv, Shapes, HEAD
<1>6. stage # None \/ axiom = None => Shown(stage) \in Given
  <2>1. stage # None => axiom = None
    BY <1>4 DEF WritersInv, WorkflowInv, OneStage
  <2>2. Public(Snapshot) \in Given
    BY <1>4 DEF Given
  <2>3. QED
    BY <1>4, <2>1, <2>2, PiecesAreTheSnapshot
<1>7. Given' = Given /\ Snapshot' = Snapshot /\ HEAD' = HEAD /\ axiom' = axiom /\ projection' = projection
      /\ stage' = stage /\ Shown(stage)' = Shown(stage)
  BY <1>3, NothingMoves DEF Given, Public
<1>8. TokenInv'
  <2>1. reader'.token[1] \in Nat /\ reader'.token[1] <= HEAD'
    BY <1>2, <1>5, <1>7
  <2>2. HEAD' = reader'.token[1] /\ reader'.token[4] = HEAD' => projection' = HEAD'
    BY <1>2, <1>7
  <2>3. reader'.token[2] # None \/ axiom' = None => Shown(reader.token[2])' \in Given'
    BY <1>2, <1>6, <1>7
  <2>4. QED
    BY <2>1, <2>2, <2>3 DEF TokenInv, None
<1>9. SnapshotInv'
  BY <1>2, <1>4, <1>7, <1>3, <1>8 DEF SnapshotInv, WithToken, AnswerWasReal
<1>10. FactsInv' /\ RefreshInv' /\ WritersInv' /\ tool' = tool
  BY <1>2, OtherLabels DEF WithToken
<1>11. QED
  BY <1>2, <1>9, <1>10 DEF ReadersInv
LEMMA TokenStays ==
    ASSUME ReadersInv, Reads, reader.at \in WithToken, reader'.at # "pointer",
           reader'.token = reader.token
    PROVE  /\ TokenInv' /\ (Same' <=> Same) /\ Given' = Given
           /\ Snapshot' \in real' /\ reader.op = "snapshot"
<1>1. TokenInv /\ Snapshot \in real /\ reader.op = "snapshot"
  BY DEF ReadersInv, SnapshotInv
<1>2. UNCHANGED vars /\ real' = real /\ (saved' <=> saved)
  BY DEF Reads, ReadersInv, SnapshotInv
<1>3. /\ Given' = Given /\ Snapshot' = Snapshot /\ HEAD' = HEAD /\ axiom' = axiom
      /\ projection' = projection /\ Shown(reader.token[2])' = Shown(reader.token[2])
  BY <1>2, NothingMoves DEF Given, Public
<1>4. QED
  BY <1>1, <1>2, <1>3 DEF TokenInv, Same

LEMMA ReadCommitsKeeps ==
    ASSUME ReadersInv, Reads, ReadCommits
    PROVE  ReadersInv'
<1>1. /\ reader.at = "pointer" /\ reader'.at = "commits" /\ reader'.op = "snapshot"
      /\ reader'.token = reader.token /\ reader'.stage = reader.stage
      /\ reader'.case = StageCase(reader.stage)
  BY DEF ReadCommits, At
<1>2. TokenInv' /\ (Same' <=> Same) /\ Given' = Given /\ Snapshot' \in real'
  BY <1>1, TokenStays DEF WithToken
<1>3. reader.stage = reader.token[2]
  BY <1>1 DEF ReadersInv, SnapshotInv
<1>4. StageCase(reader.token[2])' = StageCase(reader.token[2])
  BY <1>1, NothingMoves DEF Reads
<1>5. SnapshotInv'
  BY <1>1, <1>2, <1>3, <1>4 DEF SnapshotInv, WithToken, AnswerWasReal
<1>6. FactsInv' /\ RefreshInv' /\ WritersInv' /\ tool' = tool
  BY <1>1, OtherLabels DEF WithToken
<1>7. QED
  BY <1>1, <1>5, <1>6 DEF ReadersInv

LEMMA ReadHeadKeeps ==
    ASSUME ReadersInv, Reads, ReadHead
    PROVE  ReadersInv'
<1>1. /\ reader.at = "commits" /\ reader'.at = "head" /\ reader'.op = "snapshot"
      /\ reader'.token = reader.token /\ reader'.head = HEAD
      /\ reader'.state = StateOf(reader.stage, reader.case)
      /\ reader'.stage = ShownOf(reader.stage, reader.case)
  BY DEF ReadHead, At
<1>2. TokenInv' /\ (Same' <=> Same) /\ Given' = Given /\ Snapshot' \in real'
  BY <1>1, TokenStays DEF WithToken
<1>3. reader.stage = reader.token[2] /\ (Same => reader.case = StageCase(reader.token[2]))
  BY <1>1 DEF ReadersInv, SnapshotInv
<1> DEFINE s == reader.token[2]
<1>4. /\ HEAD' = HEAD /\ StageCase(s)' = StageCase(s)
      /\ StateOf(s, StageCase(s))' = StateOf(s, StageCase(s))
      /\ ShownOf(s, StageCase(s))' = ShownOf(s, StageCase(s))
  BY <1>1, NothingMoves DEF Reads
<1>5. SnapshotInv'
  BY <1>1, <1>2, <1>3, <1>4 DEF SnapshotInv, WithToken, AnswerWasReal
<1>6. FactsInv' /\ RefreshInv' /\ WritersInv' /\ tool' = tool
  BY <1>1, OtherLabels DEF WithToken
<1>7. QED
  BY <1>1, <1>5, <1>6 DEF ReadersInv

LEMMA ReadProjectionKeeps ==
    ASSUME ReadersInv, Reads, ReadProjection
    PROVE  ReadersInv'
<1>1. /\ reader.at = "head" /\ reader'.at = "projection" /\ reader'.op = "snapshot"
      /\ reader'.token = reader.token
      /\ reader'.shot = [head |-> reader.head, fresh |-> ProjectionIsFresh,
                         staged |-> reader.staged, stage |-> reader.stage,
                         state |-> ByProjection(reader.state)]
  BY DEF ReadProjection, At
<1>2. TokenInv' /\ (Same' <=> Same) /\ Given' = Given /\ Snapshot' \in real'
  BY <1>1, TokenStays DEF WithToken
<1>3. Same => Public(reader'.shot) = Shown(reader.token[2])
  BY <1>1 DEF ReadersInv, SnapshotInv, Public, Shown
<1>4. Shown(reader.token[2])' = Shown(reader.token[2])
  BY <1>1, NothingMoves DEF Reads
<1>5. ShotShaped(reader.shot)'
  BY <1>1 DEF ShotShaped
<1>6. SnapshotInv'
  BY <1>1, <1>2, <1>3, <1>4, <1>5 DEF SnapshotInv, WithToken, AnswerWasReal, Public
<1>7. FactsInv' /\ RefreshInv' /\ WritersInv' /\ tool' = tool
  BY <1>1, OtherLabels DEF WithToken
<1>8. QED
  BY <1>1, <1>6, <1>7 DEF ReadersInv

\* What is shown with the axiom pointer there is the snapshot of this very moment;
\* without it, the one TokenInv knows of.
LEMMA ReadAxiomKeeps ==
    ASSUME ReadersInv, Reads, ReadAxiom
    PROVE  ReadersInv'
<1> DEFINE shot == IF axiom = None THEN reader.shot
                   ELSE IF stage # None THEN [reader.shot EXCEPT !.state = "invalid"]
                   ELSE [reader.shot EXCEPT !.state = AxiomState, !.stage = axiom]
<1>1. /\ reader' = [at |-> "after", op |-> "snapshot", tries |-> reader.tries,
                    token |-> reader.token, shot |-> shot]
      /\ reader.at = "projection"
  BY DEF ReadAxiom, At
<1> HIDE DEF shot
<1>2. reader'.at = "after" /\ reader'.op = "snapshot" /\ reader'.token = reader.token
  BY <1>1
<1>3. TokenInv' /\ (Same' <=> Same) /\ Given' = Given /\ Snapshot' \in real'
  BY <1>1, <1>2, TokenStays DEF WithToken
<1>4. /\ ShotShaped(reader.shot) /\ TokenInv
      /\ Same => Public(reader.shot) = Shown(reader.token[2])
  BY <1>1 DEF ReadersInv, SnapshotInv, WithToken
<1>5. ASSUME Same PROVE Public(shot) \in Given
  <2>1. CASE axiom = None
    BY <1>4, <1>5, <2>1 DEF shot, TokenInv
  <2>2. CASE axiom # None
    <3>1. stage = None
      BY <2>2 DEF ReadersInv, WritersInv, WorkflowInv, OneStage
    <3>2. Public(shot) = [head |-> reader.shot.head, fresh |-> reader.shot.fresh,
                          state |-> AxiomState, stage |-> axiom]
      BY <1>4, <2>2, <3>1 DEF shot, ShotShaped, Public
    <3>3. reader.shot.head = HEAD /\ reader.shot.fresh = ProjectionIsFresh
      BY <1>4, <1>5 DEF Public, Shown
    <3>4. Public(Snapshot) = Public(shot)
      BY <2>2, <3>2, <3>3 DEF Public, Snapshot
    <3>5. Snapshot \in real
      BY <1>1 DEF ReadersInv, SnapshotInv, WithToken
    <3>6. QED
      BY <3>4, <3>5 DEF Given
  <2>3. QED
    BY <2>1, <2>2
<1>6. /\ reader' = [at |-> "after", op |-> "snapshot", tries |-> reader'.tries,
                    token |-> reader'.token, shot |-> reader'.shot]
      /\ reader'.shot = shot
  BY <1>1
<1>7. SnapshotInv'
  <2>1. Same' => (Public(reader.shot) \in Given)'
    BY <1>6, <1>3, <1>5 DEF Public
  <2>2. QED
    BY <1>2, <1>3, <1>6, <2>1 DEF SnapshotInv, WithToken, AnswerWasReal
<1>8. FactsInv' /\ RefreshInv' /\ WritersInv' /\ tool' = tool
  BY <1>2, OtherLabels DEF WithToken
<1>9. QED
  BY <1>2, <1>7, <1>8 DEF ReadersInv

LEMMA CompareTokenKeeps ==
    ASSUME ReadersInv, Reads, CompareToken
    PROVE  ReadersInv'
<1>1. reader.at = "after" /\ reader.op = "snapshot" /\ Snapshot \in real /\ TokenInv
  BY DEF CompareToken, At, ReadersInv, SnapshotInv, WithToken
<1>2. /\ reader = [at |-> "after", op |-> "snapshot", tries |-> reader.tries,
                   token |-> reader.token, shot |-> reader.shot]
      /\ Same => Public(reader.shot) \in Given
  BY <1>1 DEF ReadersInv, SnapshotInv
<1>3. /\ Given' = Given /\ Snapshot' = Snapshot /\ real' = real
      /\ reader'.at # "pointer" => (saved' <=> saved)
  BY NothingMoves DEF Reads, Given, Public
<1>4. CASE Token = reader.token /\ On("answer", reader)
  <2>1. reader' = [at |-> "answer", op |-> "snapshot", tries |-> reader.tries,
                   token |-> reader.token, shot |-> reader.shot]
    BY <1>2, <1>4 DEF On
  <2>2. reader'.at = "answer" /\ reader'.op = "snapshot" /\ reader'.shot = reader.shot
    BY <2>1
  <2>3. ~saved' => Same
    <3>1. HEAD = reader.token[1] /\ projection = reader.token[4]
      BY <1>4 DEF Token
    <3>2. QED
      BY <1>3, <2>2, <3>1 DEF Same
  <2>4. AnswerWasReal'
    BY <1>2, <1>3, <2>2, <2>3 DEF AnswerWasReal, Given, Public
  <2>5. SnapshotInv'
    BY <2>2, <2>4 DEF SnapshotInv, WithToken
  <2>6. FactsInv' /\ RefreshInv'
    BY <2>2 DEF FactsInv, RefreshInv, FactsAreOfTheirHead, ContractsAreWhole, Writing, ReadersInv, Reads
  <2>7. WritersInv' /\ tool' = tool
    BY WritersKeepFiles DEF ReadersInv, Reads
  <2>8. QED
    BY <2>2, <2>5, <2>6, <2>7 DEF ReadersInv
<1>5. CASE reader' = [at |-> "before", op |-> "snapshot", tries |-> reader.tries + 1]
  <2>1. reader'.at = "before" /\ reader'.op = "snapshot"
    BY <1>5
  <2>2. SnapshotInv'
    BY <1>1, <1>3, <2>1 DEF SnapshotInv, WithToken, AnswerWasReal
  <2>3. FactsInv' /\ RefreshInv' /\ WritersInv' /\ tool' = tool
    BY <2>1, OtherLabels
  <2>4. QED
    BY <2>1, <2>2, <2>3 DEF ReadersInv
<1>6. CASE Error("canon_v3_authority_changed_during_read")
  <2>1. reader'.at = "error" /\ reader'.code = "canon_v3_authority_changed_during_read"
    BY <1>6 DEF Error
  <2>2. SnapshotInv'
    BY <2>1 DEF SnapshotInv, WithToken, AnswerWasReal
  <2>3. FactsInv' /\ RefreshInv' /\ WritersInv' /\ tool' = tool
    BY <2>1, OtherLabels
  <2>4. QED
    BY <2>1, <2>2, <2>3 DEF ReadersInv
<1>7. QED
  BY <1>4, <1>5, <1>6 DEF CompareToken

-----------------------------------------------------------------------------
(* The facts: query, search and the rebuild of the index                     *)

\* What a step of another operation leaves alone.
Elsewhere == UNCHANGED <<vars, tool, contracts, lastBatch>> /\ reader.at \notin Writing

LEMMA SnapshotElsewhere ==
    ASSUME ReadersInv, Elsewhere,
           reader'.at \notin WithToken \cup {"before"},
           reader'.at = "answer" => reader'.op # "snapshot"
    PROVE  SnapshotInv' /\ WritersInv' /\ tool' \subseteq {"snapshot"} \cup Operations
<1>1. SnapshotInv'
  BY DEF SnapshotInv, WithToken, AnswerWasReal
<1>2. WritersInv' /\ tool' \subseteq {"snapshot"} \cup Operations
  BY WritersKeepFiles DEF ReadersInv, Elsewhere
<1>3. QED
  BY <1>1, <1>2

LEMMA ErrorKeeps ==
    ASSUME ReadersInv, Elsewhere, NEW code, Error(code)
    PROVE  ReadersInv'
<1>1. reader'.at = "error"
  BY DEF Error
<1>2. SnapshotInv' /\ WritersInv' /\ tool' \subseteq {"snapshot"} \cup Operations
  BY <1>1, SnapshotElsewhere DEF WithToken
<1>3. FactsInv' /\ RefreshInv'
  BY <1>1 DEF FactsInv, RefreshInv, FactsAreOfTheirHead, ContractsAreWhole, Writing, ReadersInv, Elsewhere
<1>4. QED
  BY <1>1, <1>2, <1>3 DEF ReadersInv

\* Where a reader of facts goes on to.
Onward == {"projected", "capture", "as_of", "recheck", "index", "searched", "build", "install",
           "installed", "answer"}

LEMMA FactsKeep ==
    ASSUME ReadersInv, Elsewhere, reader'.at \in Onward,
           reader'.op \in Operations, FactsInv'
    PROVE  ReadersInv'
<1>1. SnapshotInv' /\ WritersInv' /\ tool' \subseteq {"snapshot"} \cup Operations
  <2>1. reader'.op # "snapshot" /\ reader'.at \notin WithToken \cup {"before"}
    BY DEF Onward, WithToken, Operations, FactOps
  <2>2. QED
    BY <2>1, SnapshotElsewhere
<1>2. RefreshInv'
  BY DEF RefreshInv, ContractsAreWhole, Writing, ReadersInv, Elsewhere, Onward
<1>3. QED
  BY <1>1, <1>2 DEF ReadersInv

LEMMA HeadsOf ==
    ASSUME ReadersInv
    PROVE  HEAD \in Nat /\ Snapshot.head = HEAD /\ Snapshot.fresh = ProjectionIsFresh
BY DEF ReadersInv, WritersInv, WorkflowInv, Shapes, HEAD, Snapshot

LEMMA ReadWorkflowKeeps ==
    ASSUME ReadersInv, Elsewhere, ReadWorkflow
    PROVE  ReadersInv'
<1>1. reader.at = "workflow" /\ reader.op \in Operations
  BY DEF ReadWorkflow, At, ReadersInv, FactsInv
<1>2. CASE reader' = [at |-> "projected", op |-> reader.op, before |-> reader.before,
                      workflow |-> Snapshot]
  <2>1. HasWorkflow'
    BY <1>1, <1>2, HeadsOf, NothingMoves DEF HasWorkflow, Elsewhere
  <2>2. reader'.at = "projected" /\ reader'.op \in Operations
    BY <1>1, <1>2
  <2>3. FactsInv'
    BY <2>1, <2>2 DEF FactsInv, FactsAreOfTheirHead
  <2>4. QED
    BY <2>2, <2>3, FactsKeep DEF Onward
<1>3. CASE Error("canon_v3_head_projection_unavailable")
  BY <1>3, ErrorKeeps
<1>4. QED
  BY <1>2, <1>3 DEF ReadWorkflow

LEMMA ReadBoundProjectionKeeps ==
    ASSUME ReadersInv, Elsewhere, ReadBoundProjection
    PROVE  ReadersInv'
<1>1. reader.at = "projected" /\ HasWorkflow
  BY DEF ReadBoundProjection, At, ReadersInv, FactsInv
<1>2. ASSUME NEW label, On(label, reader)
      PROVE  HasWorkflow' /\ reader'.at = label /\ reader'.op = reader.op
  <2>1. reader' = [at |-> label, op |-> reader.op, before |-> reader.before, workflow |-> reader.workflow]
    BY <1>1, <1>2 DEF On, HasWorkflow
  <2>2. HEAD' = HEAD
    BY NothingMoves DEF Elsewhere
  <2>3. QED
    BY <1>1, <2>1, <2>2 DEF HasWorkflow
<1>3. CASE reader.op = "refresh" /\ On("capture", reader)
  <2>1. HasWorkflow' /\ reader'.at = "capture" /\ reader'.op \in Operations
    BY <1>2, <1>3 DEF Operations
  <2>2. FactsInv'
    BY <2>1 DEF FactsInv, FactsAreOfTheirHead
  <2>3. QED
    BY <2>1, <2>2, FactsKeep DEF Onward
<1>4. CASE reader.op # "refresh" /\ On("as_of", reader)
  <2>1. HasWorkflow' /\ reader'.at = "as_of" /\ reader'.op \in FactOps
    BY <1>1, <1>2, <1>4 DEF Operations, HasWorkflow
  <2>2. FactsInv'
    BY <2>1 DEF FactsInv, FactsAreOfTheirHead
  <2>3. QED
    BY <2>1, <2>2, FactsKeep DEF Onward, Operations
<1>5. CASE Error("canon_v3_projection_workflow_binding_mismatch")
  BY <1>5, ErrorKeeps
<1>6. CASE Error("planning_workflow_not_ready")
  BY <1>6, ErrorKeeps
<1>7. QED
  BY <1>3, <1>4, <1>5, <1>6 DEF ReadBoundProjection

LEMMA ReadAsOfKeeps ==
    ASSUME ReadersInv, Elsewhere, ReadAsOf
    PROVE  ReadersInv'
<1>1. reader.at = "as_of" /\ HasWorkflow /\ reader.op \in FactOps
  BY DEF ReadAsOf, At, ReadersInv, FactsInv
<1>2. CASE ProjectionIsFresh /\ reader' = [at |-> "recheck", op |-> reader.op, before |-> reader.before,
                                           workflow |-> reader.workflow, facts |-> projection]
  <2>1. projection = HEAD /\ HEAD \in Nat /\ HEAD' = HEAD
    BY <1>2, HeadsOf, NothingMoves DEF ProjectionIsFresh, Elsewhere
  <2>2. HasFacts' /\ reader'.at = "recheck" /\ reader'.op \in FactOps
    BY <1>1, <1>2 DEF HasFacts
  <2>3. FactsInv'
    BY <1>1, <1>2, <2>1, <2>2 DEF FactsInv, FactsAreOfTheirHead, HasWorkflow
  <2>4. QED
    BY <2>2, <2>3, FactsKeep DEF Onward, Operations
<1>3. CASE Error("canon_v3_query_invalid_sources")
  BY <1>3, ErrorKeeps
<1>4. QED
  BY <1>2, <1>3 DEF ReadAsOf

\* The next step of a reader that has its facts.
LEMMA OnFacts ==
    ASSUME ReadersInv, Elsewhere, HasFacts, reader.facts = reader.workflow.head,
           NEW label \in {"index", "searched", "build", "install", "installed", "answer"},
           On(label, reader)
    PROVE  ReadersInv'
<1>1. reader' = [at |-> label, op |-> reader.op, before |-> reader.before,
                 workflow |-> reader.workflow, facts |-> reader.facts]
  BY DEF On, HasFacts
<1>2. HasFacts' /\ reader'.at = label /\ reader'.op = reader.op /\ reader'.facts = reader'.workflow.head
  BY <1>1 DEF HasFacts
<1>3. FactsInv'
  BY <1>2 DEF FactsInv, FactsAreOfTheirHead
<1>4. QED
  BY <1>2, <1>3, FactsKeep DEF Onward, Operations, HasFacts

\* The second snapshot is the first: HEAD has not moved in between, so neither had it
\* when the facts were read.
LEMMA RecheckKeeps ==
    ASSUME ReadersInv, Elsewhere, Recheck
    PROVE  ReadersInv'
<1>1. /\ reader.at = "recheck" /\ HasFacts /\ reader.workflow.head \in Nat /\ reader.facts \in Nat
      /\ reader.workflow.head <= reader.facts /\ reader.facts <= HEAD
  BY DEF Recheck, At, ReadersInv, FactsInv
<1>2. CASE ~Unchanged(reader.workflow)
  <2>1. Error("canon_v3_authority_changed_during_query")
    BY <1>2 DEF Recheck
  <2>2. QED
    BY <2>1, ErrorKeeps
<1>3. CASE Unchanged(reader.workflow)
  <2>1. reader.facts = reader.workflow.head
    BY <1>1, <1>3, HeadsOf DEF Unchanged
  <2>2. CASE reader.op = "query"
    <3>1. On("answer", reader)
      BY <1>3, <2>2 DEF Recheck
    <3>2. QED
      BY <1>1, <2>1, <3>1, OnFacts
  <2>3. CASE reader.op = "search"
    <3>1. On("index", reader)
      BY <1>3, <2>3 DEF Recheck
    <3>2. QED
      BY <1>1, <2>1, <3>1, OnFacts
  <2>4. CASE reader.op = "rebuild"
    <3>1. \/ On("build", reader)
          \/ Error("canon_v3_retrieval_authority_changed_before_build")
      BY <1>3, <2>4 DEF Recheck
    <3>2. QED
      BY <1>1, <2>1, <3>1, OnFacts, ErrorKeeps
  <2>5. QED
    BY <1>1, <2>2, <2>3, <2>4 DEF HasFacts, FactOps
<1>4. QED
  BY <1>2, <1>3

LEMMA RetrievalKeeps ==
    ASSUME ReadersInv, Elsewhere, RetrievalSteps
    PROVE  ReadersInv'
<1>1. reader.at \in {"index", "searched", "build", "install", "installed"}
  BY DEF RetrievalSteps, CheckBuild, Install, CheckInstalled, ReadIndex, CheckSearch, At
<1>2. HasFacts /\ reader.facts = reader.workflow.head
  BY <1>1 DEF ReadersInv, FactsInv
<1>3. ASSUME NEW label \in {"index", "searched", "build", "install", "installed", "answer"},
             On(label, reader)
      PROVE  ReadersInv'
  BY <1>2, <1>3, OnFacts
<1>4. CASE CheckBuild \/ CheckInstalled \/ CheckSearch
  BY <1>3, <1>4, ErrorKeeps DEF CheckBuild, CheckInstalled, CheckSearch
<1>5. CASE Install
  BY <1>3, <1>5 DEF Install
<1>6. CASE ReadIndex
  <2>1. BindingMatches(index, reader.workflow, reader.facts) => index.facts = reader.facts
    BY DEF BindingMatches
  <2>2. On("searched", reader)
    BY <1>6, <2>1 DEF ReadIndex
  <2>3. QED
    BY <1>3, <2>2
<1>7. QED
  BY <1>4, <1>5, <1>6 DEF RetrievalSteps

-----------------------------------------------------------------------------
(* The refresh of the planning contracts                                     *)

\* What a step of a refresh leaves alone.
Refreshing == UNCHANGED <<vars, tool>> /\ lastBatch' = Outcome

LEMMA RefreshKeep ==
    ASSUME ReadersInv, Refreshing, reader'.op = "refresh",
           reader'.at \in {"stable", "current", "write", "check_inputs", "check_authority", "restore",
                           "answer", "applied", "restored"},
           RefreshInv'
    PROVE  ReadersInv'
<1>1. SnapshotInv'
  BY DEF SnapshotInv, WithToken, AnswerWasReal
<1>2. FactsInv'
  BY DEF FactsInv, FactsAreOfTheirHead
<1>3. WritersInv'
  BY WritersKeepFiles DEF ReadersInv, Refreshing
<1>4. QED
  BY <1>1, <1>2, <1>3 DEF ReadersInv, Refreshing

LEMMA OnInputs ==
    ASSUME HasInputs, NEW label, On(label, reader)
    PROVE  /\ HasInputs' /\ reader'.at = label /\ reader'.op = "refresh"
           /\ Batch' = Batch /\ reader'.before = reader.before
<1>1. reader' = [at |-> label, op |-> "refresh", workflow |-> reader.workflow,
                 outline |-> reader.outline, before |-> reader.before]
  BY DEF On, HasInputs
<1>2. QED
  BY <1>1 DEF HasInputs, Batch

LEMMA RefusedRefresh ==
    ASSUME ReadersInv, Refreshing, UNCHANGED contracts, NEW code, Error(code),
           reader.at \notin Writing
    PROVE  ReadersInv'
<1>1. lastBatch' = lastBatch
  BY DEF Refreshing, Outcome, Error, At, Writing
<1>2. QED
  BY <1>1, ErrorKeeps DEF Refreshing, Elsewhere

\* Only its end, or a restore that fails, changes what was applied last.
LEMMA LastStays ==
    ASSUME Refreshing, reader'.at \notin {"applied", "error"}
    PROVE  lastBatch' = lastBatch
BY DEF Refreshing, Outcome

LEMMA CaptureKeeps ==
    ASSUME ReadersInv, Refreshing, Capture
    PROVE  ReadersInv'
<1>1. /\ reader' = [at |-> "stable", op |-> "refresh", workflow |-> reader.workflow,
                    outline |-> outline, before |-> contracts]
      /\ contracts' = contracts
  BY DEF Capture
<1>2. HasInputs' /\ reader'.at = "stable" /\ reader'.op = "refresh"
  BY <1>1 DEF HasInputs
<1>3. reader.at = "capture" /\ lastBatch' = lastBatch
  BY <1>2, LastStays DEF Capture, At
<1>4. RefreshInv'
  BY <1>1, <1>2, <1>3 DEF RefreshInv, ContractsAreWhole, Writing, ReadersInv
<1>5. QED
  BY <1>2, <1>4, RefreshKeep

\* The checks of a refresh leave the files as they are.
LEMMA RefreshChecksKeep ==
    ASSUME ReadersInv, Refreshing,
           CheckInputs \/ CheckAuthority \/ CheckWritten \/ CheckPublished
    PROVE  ReadersInv'
<1>1. contracts' = contracts /\ contracts = [f \in Files |-> contracts[f]]
  BY DEF CheckInputs, CheckAuthority, CheckWritten, CheckPublished, ReadersInv, RefreshInv
<1>2. HasInputs
  BY DEF CheckInputs, CheckAuthority, CheckWritten, CheckPublished, At, ReadersInv, RefreshInv
<1>3. ASSUME NEW label \in {"current", "answer", "restore"}, On(label, reader),
             label = "restore" => reader.at \in Writing, label # "restore" => reader.at \notin Writing
      PROVE  ReadersInv'
  <2>1. HasInputs' /\ reader'.at = label /\ reader'.op = "refresh" /\ reader'.before = reader.before
    BY <1>2, <1>3, OnInputs
  <2>2. lastBatch' = lastBatch
    BY <2>1, LastStays
  <2>3. RefreshInv'
    BY <1>1, <1>3, <2>1, <2>2 DEF RefreshInv, ContractsAreWhole, Writing, ReadersInv
  <2>4. QED
    BY <2>1, <2>3, RefreshKeep
<1>4. CASE CheckInputs
  <2>1. reader.at \notin Writing
    BY <1>4 DEF CheckInputs, At, Writing
  <2>2. CASE InputsAreStable
    BY <1>3, <1>4, <2>1, <2>2 DEF CheckInputs
  <2>3. CASE ~InputsAreStable
    BY <1>1, <1>4, <2>1, <2>3, RefusedRefresh DEF CheckInputs
  <2>4. QED
    BY <2>2, <2>3
<1>5. CASE CheckAuthority
  <2> reader.at \notin Writing
    BY <1>5 DEF CheckAuthority, At, Writing
  <2>1. CASE reader' = [at |-> "write", op |-> "refresh", workflow |-> reader.workflow,
                        outline |-> reader.outline, before |-> contracts]
    <3>1. HasInputs' /\ reader'.at = "write" /\ reader'.op = "refresh" /\ reader'.before = contracts
      BY <2>1 DEF HasInputs
    <3>2. lastBatch' = lastBatch
      BY <3>1, LastStays
    <3>3. RefreshInv'
      BY <1>1, <3>1, <3>2 DEF RefreshInv, ContractsAreWhole, Writing, ReadersInv
    <3>4. QED
      BY <3>1, <3>3, RefreshKeep
  <2>2. CASE On("answer", reader)
    BY <1>3, <2>2
  <2>3. CASE Error("planning_authority_changed_during_refresh")
    BY <1>1, <2>3, RefusedRefresh
  <2>4. QED
    BY <1>5, <2>1, <2>2, <2>3 DEF CheckAuthority
<1>6. CASE CheckWritten \/ CheckPublished
  <2>1. \A f \in Files : contracts[f] = Batch
    BY <1>6 DEF CheckWritten, CheckPublished, At, ReadersInv, RefreshInv
  <2>2. ASSUME NEW label \in {"check_authority", "applied"}, On(label, reader)
        PROVE  ReadersInv'
    <3>1. /\ HasInputs' /\ reader'.at = label /\ reader'.op = "refresh" /\ Batch' = Batch
          /\ reader'.before = reader.before
      BY <1>2, <2>2, OnInputs
    <3>2. reader.at \in Writing
      BY <1>6 DEF CheckWritten, CheckPublished, At, Writing
    <3>3. lastBatch' = IF label = "applied" THEN Batch ELSE lastBatch
      BY <1>6, <3>1 DEF Refreshing, Outcome
    <3>4. RefreshInv'
      BY <1>1, <2>1, <3>1, <3>2, <3>3 DEF RefreshInv, ContractsAreWhole, Writing, ReadersInv
    <3>5. QED
      BY <3>1, <3>4, RefreshKeep
  <2>3. On("check_authority", reader) \/ On("applied", reader) \/ On("restore", reader)
    BY <1>6 DEF CheckWritten, CheckPublished
  <2>4. reader.at \in Writing
    BY <1>6 DEF CheckWritten, CheckPublished, At, Writing
  <2>5. QED
    BY <1>3, <2>2, <2>3, <2>4
<1>7. QED
  BY <1>4, <1>5, <1>6

\* The files are written one after the other, so all three are new with the last.
LEMMA WriteKeeps ==
    ASSUME ReadersInv, Refreshing, Write
    PROVE  ReadersInv'
<1>1. reader.at = "write" /\ HasInputs /\ contracts = [f \in Files |-> contracts[f]]
  BY DEF Write, At, ReadersInv, RefreshInv
<1>2. CASE On("restore", reader) /\ UNCHANGED contracts
  <2>1. HasInputs' /\ reader'.at = "restore" /\ reader'.op = "refresh" /\ reader'.before = reader.before
    BY <1>1, <1>2, OnInputs
  <2>2. lastBatch' = lastBatch
    BY <2>1, LastStays
  <2>3. RefreshInv'
    BY <1>1, <1>2, <2>1, <2>2 DEF RefreshInv, ContractsAreWhole, Writing, ReadersInv
  <2>4. QED
    BY <2>1, <2>3, RefreshKeep
<1>3. ASSUME NEW f \in {"chapter", "volume"},
             contracts' = [contracts EXCEPT ![f] = Batch] /\ UNCHANGED reader
      PROVE  ReadersInv'
  <2>1. HasInputs' /\ reader'.at = "write" /\ reader'.op = "refresh"
    BY <1>1, <1>3 DEF HasInputs
  <2>2. contracts' = [g \in Files |-> contracts'[g]]
    BY <1>1, <1>3 DEF Files
  <2>3. lastBatch' = lastBatch
    BY <2>1, LastStays
  <2>4. RefreshInv'
    BY <1>1, <1>3, <2>1, <2>2, <2>3 DEF RefreshInv, ContractsAreWhole, Writing, ReadersInv
  <2>5. QED
    BY <2>1, <2>4, RefreshKeep
<1>4. CASE /\ {"chapter", "volume"} \subseteq Written
           /\ contracts' = [contracts EXCEPT !["review"] = Batch]
           /\ On("check_inputs", reader)
  <2>1. /\ HasInputs' /\ reader'.at = "check_inputs" /\ reader'.op = "refresh" /\ Batch' = Batch
        /\ reader'.before = reader.before
    BY <1>1, <1>4, OnInputs
  <2>2. contracts["chapter"] = Batch /\ contracts["volume"] = Batch
    BY <1>4 DEF Written
  <2>3. contracts' = [g \in Files |-> contracts'[g]] /\ \A g \in Files : contracts'[g] = Batch
    BY <1>1, <1>4, <2>2 DEF Files
  <2>4. lastBatch' = lastBatch
    BY <2>1, LastStays
  <2>5. RefreshInv'
    BY <1>1, <2>1, <2>3, <2>4 DEF RefreshInv, ContractsAreWhole, Writing, ReadersInv
  <2>6. QED
    BY <2>1, <2>5, RefreshKeep
<1>5. QED
  BY <1>2, <1>3, <1>4 DEF Write

LEMMA RestoreKeeps ==
    ASSUME ReadersInv, Refreshing, Restore
    PROVE  ReadersInv'
<1>1. reader.at = "restore" /\ HasInputs /\ contracts = [f \in Files |-> contracts[f]]
  BY DEF Restore, At, ReadersInv, RefreshInv
<1>2. ASSUME NEW f \in Files,
             contracts' = [contracts EXCEPT ![f] = reader.before[f]], UNCHANGED reader
      PROVE  ReadersInv'
  <2>1. HasInputs' /\ reader'.at = "restore" /\ reader'.op = "refresh"
    BY <1>1, <1>2 DEF HasInputs
  <2>2. contracts' = [g \in Files |-> contracts'[g]]
    BY <1>1, <1>2
  <2>3. lastBatch' = lastBatch
    BY <2>1, LastStays
  <2>4. RefreshInv'
    BY <1>1, <1>2, <2>1, <2>2, <2>3 DEF RefreshInv, ContractsAreWhole, Writing, ReadersInv
  <2>5. QED
    BY <2>1, <2>4, RefreshKeep
<1>3. CASE contracts = reader.before /\ On("restored", reader) /\ UNCHANGED contracts
  <2>1. HasInputs' /\ reader'.at = "restored" /\ reader'.op = "refresh" /\ reader'.before = reader.before
    BY <1>1, <1>3, OnInputs
  <2>2. lastBatch' = lastBatch
    BY <2>1, LastStays
  <2>3. RefreshInv'
    BY <1>1, <1>3, <2>1, <2>2 DEF RefreshInv, ContractsAreWhole, Writing, ReadersInv
  <2>4. QED
    BY <2>1, <2>3, RefreshKeep
<1>4. CASE Error("planning_restore_failed") /\ UNCHANGED contracts
  <2>1. reader'.at = "error" /\ lastBatch' = Mixed
    BY <1>1, <1>4 DEF Error, Refreshing, Outcome, At
  <2>2. RefreshInv' /\ FactsInv' /\ SnapshotInv'
    BY <1>1, <1>4, <2>1 DEF RefreshInv, ContractsAreWhole, Writing, FactsInv, FactsAreOfTheirHead,
                            SnapshotInv, WithToken, AnswerWasReal
  <2>3. WritersInv' /\ tool' = tool
    BY WritersKeepFiles DEF ReadersInv, Refreshing
  <2>4. QED
    BY <2>2, <2>3 DEF ReadersInv
<1>5. QED
  BY <1>2, <1>3, <1>4 DEF Restore

LEMMA EditOutlineKeeps ==
    ASSUME ReadersInv, UNCHANGED <<vars, tool, reader, real, saved, contracts, lastBatch>>
    PROVE  ReadersInv'
<1>1. WritersInv'
  BY WritersKeepFiles DEF ReadersInv
<1>2. Snapshot' = Snapshot /\ HEAD' = HEAD /\ axiom' = axiom /\ projection' = projection
  BY NothingMoves
<1>3. /\ Given' = Given /\ Shown(reader.token[2])' = Shown(reader.token[2])
      /\ StageCase(reader.token[2])' = StageCase(reader.token[2])
      /\ StateOf(reader.token[2], StageCase(reader.token[2]))' = StateOf(reader.token[2], StageCase(reader.token[2]))
      /\ ShownOf(reader.token[2], StageCase(reader.token[2]))' = ShownOf(reader.token[2], StageCase(reader.token[2]))
  BY NothingMoves DEF Given, Public
<1>4. TokenInv' = TokenInv /\ Same' = Same
  BY <1>2, <1>3 DEF TokenInv, Same
<1>5. SnapshotInv'
  BY <1>2, <1>3, <1>4 DEF ReadersInv, SnapshotInv, AnswerWasReal, Public, ShotShaped
<1>6. FactsInv'
  BY <1>2 DEF ReadersInv, FactsInv, HasWorkflow, HasFacts, FactsAreOfTheirHead
<1>7. RefreshInv'
  BY DEF ReadersInv, RefreshInv, HasInputs, ContractsAreWhole, Batch
<1>8. QED
  BY <1>1, <1>5, <1>6, <1>7 DEF ReadersInv

LEMMA ForgottenKeeps ==
    ASSUME ReadersInv, [Next]_vars, UNCHANGED <<tool, contracts>>, reader' = NoReader,
           lastBatch' = Mixed \/ (lastBatch' = lastBatch /\ reader.at \notin Writing)
    PROVE  ReadersInv'
<1>1. reader'.at = "free"
  BY DEF NoReader
<1>2. SnapshotInv' /\ FactsInv'
  BY <1>1 DEF SnapshotInv, FactsInv, WithToken, AnswerWasReal, FactsAreOfTheirHead
<1>3. RefreshInv'
  BY <1>1 DEF ReadersInv, RefreshInv, ContractsAreWhole, Writing
<1>4. QED
  BY <1>2, <1>3, WritersKeepFiles DEF ReadersInv

-----------------------------------------------------------------------------
(* The writers, beside a reader                                              *)

\* What the pieces are made of.
LEMMA PiecesStay ==
    ASSUME UNCHANGED <<history, active, text, projection>>
    PROVE  \A s : /\ StageCase(s)' = StageCase(s)
                  /\ \A case : StateOf(s, case)' = StateOf(s, case) /\ ShownOf(s, case)' = ShownOf(s, case)
                  /\ Shown(s)' = Shown(s)
<1> USE DEF HEAD, ProjectionIsFresh, AllBound, BoundBefore, Bound, Commit, IsCurrentCommit,
            ProvedBy, Reduction
<1>1. \A s : StageCase(s)' = StageCase(s)
  BY DEF StageCase
<1>2. \A s, case : StateOf(s, case)' = StateOf(s, case) /\ ShownOf(s, case)' = ShownOf(s, case)
  BY DEF StateOf, ShownOf
<1>3. \A s : Shown(s)' = Shown(s)
  BY DEF Shown, ByProjection, StageCase, StateOf, ShownOf
<1>4. QED
  BY <1>1, <1>2, <1>3

\* If all is the same as when the token was read after a writer's step, it was before.
LEMMA SameBefore ==
    ASSUME ReadersInv, [Next]_vars, TokenInv, reader' = reader, saved' = (saved \/ text' # text)
    PROVE  Same' => Same /\ UNCHANGED <<history, active, text, projection>>
<1>1. /\ HEAD \in Nat /\ (HEAD' = HEAD \/ HEAD' = HEAD + 1)
      /\ HEAD' = HEAD => history' = history /\ active' = active
      /\ projection' = projection \/ projection' = HEAD
  BY WritersMoveOn DEF ReadersInv
<1>2. SUFFICES ASSUME Same'
               PROVE  Same /\ UNCHANGED <<history, active, text, projection>>
  OBVIOUS
<1>3. HEAD' = reader.token[1] /\ projection' = reader.token[4] /\ ~saved'
  BY <1>2 DEF Same
<1>4. ~saved /\ text' = text
  BY <1>3
<1>5. HEAD' = HEAD
  BY <1>1, <1>3 DEF TokenInv
<1>6. projection' = projection
  BY <1>1, <1>3, <1>5 DEF TokenInv
<1>7. QED
  BY <1>1, <1>3, <1>4, <1>5, <1>6 DEF Same

LEMMA TokenThroughWriters ==
    ASSUME ReadersInv, [Next]_vars, TokenInv, reader' = reader, saved' = (saved \/ text' # text),
           real' = real \cup {Snapshot'}
    PROVE  TokenInv' /\ Given \subseteq Given'
<1>1. /\ HEAD \in Nat /\ (HEAD' = HEAD \/ HEAD' = HEAD + 1)
      /\ projection' = projection \/ projection' = HEAD
      /\ axiom' = axiom \/ stage' = stage
  BY WritersMoveOn DEF ReadersInv
<1>2. Given \subseteq Given' /\ Public(Snapshot)' \in Given'
  BY DEF Given, Public
<1>3. reader'.token[1] \in Nat /\ reader'.token[1] <= HEAD'
  BY <1>1 DEF TokenInv
<1>4. HEAD' = reader'.token[1] /\ reader'.token[4] = HEAD' => projection' = HEAD'
  BY <1>1 DEF TokenInv
<1>5. ASSUME Same', reader.token[2] # None \/ axiom' = None
      PROVE  Shown(reader.token[2])' \in Given'
  <2>1. Same /\ Shown(reader.token[2])' = Shown(reader.token[2])
    BY <1>5, SameBefore, PiecesStay
  <2>2. CASE reader.token[2] # None \/ axiom = None
    BY <1>2, <2>1, <2>2 DEF TokenInv
  <2>3. CASE reader.token[2] = None /\ axiom # None
    <3>1. axiom' = None /\ stage' = None
      BY <1>1, <1>5, <2>3 DEF ReadersInv, WritersInv, WorkflowInv, OneStage, None
    <3>2. StageCase(None)' = "no_stage" /\ ChapterState' = StateWithoutStage' /\ PublicStage' = None
      BY <3>1 DEF StageCase, ChapterState, PublicStage, None
    <3>3. (ByProjection(StateOf(None, "no_stage")) = StateWithoutStage)'
      BY DEF ByProjection, StateOf, StateWithoutStage
    <3>4. ShownOf(None, "no_stage")' = None
      BY DEF ShownOf, None
    <3>5. Shown(None)' = Public(Snapshot)'
      BY <3>1, <3>2, <3>3, <3>4 DEF Shown, Public, Snapshot, None
    <3>6. QED
      BY <1>2, <2>3, <3>5
  <2>4. QED
    BY <2>2, <2>3
<1>6. QED
  BY <1>2, <1>3, <1>4, <1>5 DEF TokenInv, None

LEMMA SnapshotThroughWriters ==
    ASSUME ReadersInv, [Next]_vars, reader' = reader, saved' = (saved \/ text' # text),
           real' = real \cup {Snapshot'}, reader.at \in WithToken \cup {"before"}
    PROVE  SnapshotInv'
<1>1. CASE reader.at = "before"
  BY <1>1 DEF ReadersInv, SnapshotInv, WithToken, AnswerWasReal
<1>2. CASE reader.at \in WithToken
  <2>1. TokenInv /\ reader.op = "snapshot"
    BY <1>2 DEF ReadersInv, SnapshotInv
  <2>2. TokenInv' /\ Given \subseteq Given'
    BY <2>1, TokenThroughWriters
  <2>3. Same' => /\ Same /\ HEAD' = HEAD
                 /\ Shown(reader.token[2])' = Shown(reader.token[2])
                 /\ StageCase(reader.token[2])' = StageCase(reader.token[2])
                 /\ StateOf(reader.token[2], StageCase(reader.token[2]))'
                      = StateOf(reader.token[2], StageCase(reader.token[2]))
                 /\ ShownOf(reader.token[2], StageCase(reader.token[2]))'
                      = ShownOf(reader.token[2], StageCase(reader.token[2]))
    BY <2>1, SameBefore, PiecesStay DEF HEAD
  <2>4. reader'.at \in WithToken => TokenInv' /\ reader'.op = "snapshot" /\ Snapshot' \in real'
    BY <2>1, <2>2
  <2>5. CASE reader.at \in {"pointer", "commits", "head"}
    BY <1>2, <2>3, <2>4, <2>5 DEF ReadersInv, SnapshotInv, WithToken, AnswerWasReal
  <2>6. CASE reader.at = "projection"
    BY <1>2, <2>3, <2>4, <2>6 DEF ReadersInv, SnapshotInv, WithToken, AnswerWasReal, Public, ShotShaped
  <2>7. CASE reader.at = "after"
    <3>1. (Same => Public(reader.shot) \in Given)'
      BY <2>2, <2>3, <2>7 DEF ReadersInv, SnapshotInv, Public
    <3>2. QED
      BY <1>2, <2>4, <2>7, <3>1 DEF ReadersInv, SnapshotInv, WithToken, AnswerWasReal
  <2>8. QED
    BY <1>2, <2>5, <2>6, <2>7 DEF WithToken
<1>3. QED
  BY <1>1, <1>2

LEMMA WriterKeeps ==
    ASSUME ReadersInv, WriterStep, UNCHANGED tool
    PROVE  ReadersInv'
<1>1. [Next]_vars /\ contracts' = contracts /\ lastBatch' = lastBatch
  BY DEF WriterStep
<1>2. CASE ~Working
  BY <1>1, <1>2, ForgottenKeeps DEF WriterStep, Working, Answered, Writing
<1>3. CASE Working
  <2>1. reader' = reader /\ reader.at \notin {"free", "answer", "error", "applied", "restored"}
    BY <1>3 DEF WriterStep, Working, Answered
  <2>2. HEAD \in Nat /\ HEAD' \in Nat /\ HEAD <= HEAD'
    BY <1>1, WritersMoveOn DEF ReadersInv
  <2>3. FactsInv'
    BY <2>1, <2>2 DEF ReadersInv, FactsInv, HasWorkflow, HasFacts, FactsAreOfTheirHead
  <2>4. RefreshInv'
    BY <1>1, <2>1 DEF ReadersInv, RefreshInv, HasInputs, ContractsAreWhole, Batch
  <2>5. SnapshotInv'
    <3>1. CASE reader.at \in WithToken \cup {"before"}
      <4>1. reader.op = "snapshot"
        BY <3>1 DEF ReadersInv, SnapshotInv
      <4>2. real' = real \cup {Snapshot'} /\ saved' = (saved \/ text' # text)
        BY <1>3, <4>1 DEF WriterStep
      <4>3. QED
        BY <1>1, <2>1, <3>1, <4>2, SnapshotThroughWriters
    <3>2. CASE reader.at \notin WithToken \cup {"before"}
      BY <2>1, <3>2 DEF SnapshotInv, WithToken, AnswerWasReal
    <3>3. QED
      BY <3>1, <3>2
  <2>6. WritersInv'
    BY <1>1, WritersKeepFiles DEF ReadersInv
  <2>7. QED
    BY <2>1, <2>3, <2>4, <2>5, <2>6 DEF ReadersInv
<1>4. QED
  BY <1>2, <1>3

-----------------------------------------------------------------------------
(* The theorems                                                              *)

LEMMA ReadersAtFirst == ReadersInit => ReadersInv
<1> SUFFICES ASSUME ReadersInit PROVE ReadersInv
  OBVIOUS
<1>1. WritersInv
  BY FilesAtFirst DEF ReadersInit
<1>2. reader.at = "free" /\ contracts = [f \in Files |-> contracts[f]] /\ ContractsAreWhole
  BY DEF ReadersInit, NoReader, ContractsAreWhole
<1>3. tool \subseteq {"snapshot"} \cup Operations
  BY DEF ReadersInit, Operations, FactOps
<1>4. SnapshotInv /\ FactsInv /\ RefreshInv
  BY <1>2, HoldsNothing
<1>5. QED
  BY <1>1, <1>2, <1>3, <1>4 DEF ReadersInv

LEMMA ReaderKeeps ==
    ASSUME ReadersInv, ReaderStep, UNCHANGED tool
    PROVE  ReadersInv'
<1>1. CASE /\ AskSnapshot \/ \E op \in tool : AskOperation(op)
           /\ saved' = FALSE /\ UNCHANGED <<vars, index, outline, contracts, lastBatch>>
  BY <1>1, AsksKeepReads
<1>2. CASE /\ SnapshotSteps /\ saved' = (saved /\ reader'.at # "pointer")
           /\ UNCHANGED <<vars, real, index, outline, contracts, lastBatch>>
  <2>1. Reads
    BY <1>2 DEF Reads, SnapshotSteps, ReadPointer, ReadCommits, ReadHead, ReadProjection, ReadAxiom,
                CompareToken, At, Writing
  <2>2. QED
    BY <1>2, <2>1, ReadPointerKeeps, ReadCommitsKeeps, ReadHeadKeeps, ReadProjectionKeeps,
       ReadAxiomKeeps, CompareTokenKeeps DEF SnapshotSteps
<1>3. CASE FactSteps /\ UNCHANGED <<vars, contracts, lastBatch>>
  <2>1. Elsewhere
    BY <1>3 DEF Elsewhere, FactSteps, ReadWorkflow, ReadBoundProjection, ReadAsOf, Recheck, At, Writing
  <2>2. QED
    BY <1>3, <2>1, ReadWorkflowKeeps, ReadBoundProjectionKeeps, ReadAsOfKeeps, RecheckKeeps
       DEF FactSteps
<1>4. CASE RetrievalSteps /\ UNCHANGED <<vars, contracts, lastBatch>>
  <2>1. Elsewhere
    BY <1>4 DEF Elsewhere, RetrievalSteps, CheckBuild, Install, CheckInstalled, ReadIndex, CheckSearch,
                At, Writing
  <2>2. QED
    BY <1>4, <2>1, RetrievalKeeps
<1>5. CASE RefreshSteps /\ lastBatch' = Outcome /\ UNCHANGED vars
  <2>1. Refreshing
    BY <1>5 DEF Refreshing
  <2>2. QED
    BY <1>5, <2>1, CaptureKeeps, RefreshChecksKeep, WriteKeeps, RestoreKeeps DEF RefreshSteps
<1>6. CASE EditOutline /\ UNCHANGED <<real, saved>>
  BY <1>6, EditOutlineKeeps DEF EditOutline
<1>7. CASE KillReader
  BY <1>7, ForgottenKeeps DEF KillReader
<1>8. QED
  BY <1>1, <1>2, <1>3, <1>4, <1>5, <1>6, <1>7 DEF ReaderStep

\* Whatever the writers, the author and kills do, what a reader holds between two of
\* its reads is what ReadersInv says.
THEOREM ReadersInvariant == ReadersSpec => []ReadersInv
<1>1. ReadersInit => ReadersInv
  BY ReadersAtFirst
<1>2. ReadersInv /\ [ReadersNext]_allVars => ReadersInv'
  <2> SUFFICES ASSUME ReadersInv, [ReadersNext]_allVars PROVE ReadersInv'
    OBVIOUS
  <2>1. CASE WriterStep /\ UNCHANGED tool
    BY <2>1, WriterKeeps
  <2>2. CASE ReaderStep /\ UNCHANGED tool
    BY <2>2, ReaderKeeps
  <2>3. CASE UNCHANGED allVars
    BY <2>3, EditOutlineKeeps DEF allVars, readerVars
  <2>4. QED
    BY <2>1, <2>2, <2>3 DEF ReadersNext
<1>3. QED
  BY <1>1, <1>2, PTL DEF ReadersSpec

\* workflow_snapshot answers, without a lock, with a snapshot that the files gave
\* between the question and the answer, unless a chapter was saved between the two
\* comparisons of the token.
THEOREM SnapshotsAreReal == ReadersSpec => []AnswerWasReal
<1>1. ReadersInv => AnswerWasReal
  BY DEF ReadersInv, SnapshotInv
<1>2. QED
  BY <1>1, ReadersInvariant, PTL

\* The facts of a query, a search or a rebuilt index are those of the HEAD it names.
THEOREM FactsBelongToHead == ReadersSpec => []FactsAreOfTheirHead
<1>1. ReadersInv => FactsAreOfTheirHead
  BY DEF ReadersInv, FactsInv
<1>2. QED
  BY <1>1, ReadersInvariant, PTL

\* While no refresh is writing them the three planning files are the batch that
\* refresh_contracts applied last, unless one was killed while it wrote, or failed to put
\* its backups back, since then.
THEOREM BatchIsWhole == ReadersSpec => []ContractsAreWhole
<1>1. ReadersInv => ContractsAreWhole
  BY DEF ReadersInv, RefreshInv
<1>2. QED
  BY <1>1, ReadersInvariant, PTL

\* Readers beside it leave the workflow as CanonWorkflow has it.
THEOREM ReadersOnlyRead == ReadersSpec => Spec
<1>1. ReadersInit => Init
  BY DEF ReadersInit
<1>2. [ReadersNext]_allVars => [Next]_vars
  BY DEF ReadersNext, WriterStep, ReaderStep, EditOutline, KillReader, allVars
<1>3. QED
  BY <1>1, <1>2, PTL DEF ReadersSpec, Spec
=============================================================================
