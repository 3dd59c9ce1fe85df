---------------------------- MODULE StableReads ----------------------------
(***************************************************************************)
(* The readers of a Canon v3 project, beside the writers of CanonWorkflow: *)
(* the public snapshot (service.workflow_snapshot), the fact query         *)
(* (query.py), the retrieval index (retrieval.py) and the refresh of the   *)
(* planning contracts (planning_facade.py).                                *)
(*                                                                         *)
(* A reader takes no lock.  It reads the authority's files one by one      *)
(* while writers replace them, and compares them again before it answers.  *)
(* SnapshotSteps are the single file reads of one public snapshot; the     *)
(* longer operations read whole snapshots, which AnswerWasReal allows.     *)
(*                                                                         *)
(* The facts of HEAD are named by the HEAD they were folded from.          *)
(***************************************************************************)
EXTENDS CanonWorkflow

CONSTANT MaxOutlines     \* bound: versions of the outline

ASSUME ReaderAssumption == MaxOutlines \in Nat

VARIABLES
    tool,       \* the program the reader runs: its operations
    reader,     \* the reader's program counter and what it has read
    real,       \* history: the snapshots the files would have given since it began
    saved,      \* history: whether a chapter was saved since the reader's last token
    index,      \* retrieval/active_facts.sqlite
    outline,    \* the version of the author's outline
    contracts,  \* the chapter, volume and review contract files
    lastBatch   \* history: what was applied last; Mixed when a refresh broke off since then

readerVars == <<tool, reader, real, saved, index, outline, contracts, lastBatch>>
allVars == <<vars, readerVars>>

NoReader == [at |-> "free"]
NoIndex == [workflow |-> None, facts |-> -1]
NoBatch == [outline |-> 0, head |-> -1]
Mixed == [torn |-> TRUE]
Files == {"chapter", "volume", "review"}

ReadersInit ==
    /\ Init
    /\ tool \in {{"snapshot"}, {"query", "search", "rebuild"}, {"refresh"}}
    /\ reader = NoReader /\ real = {} /\ saved = FALSE
    /\ index = NoIndex
    /\ outline = 1
    /\ contracts = [f \in Files |-> NoBatch] /\ lastBatch = NoBatch

At(label) == reader.at = label
Answered == {"free", "answer", "error", "applied", "restored"}
Working == reader.at \notin Answered

\* The next step of the operation, with what it has read so far.
On(label, r) == reader' = [r EXCEPT !.at = label]
Error(code) == reader' = [at |-> "error", op |-> reader.op, code |-> code]

-----------------------------------------------------------------------------
(* workflow_snapshot *)

\* _authority_read_token: the bytes of the four files.
Token == <<HEAD, stage, axiom, projection>>

AskSnapshot ==
    /\ "snapshot" \in tool /\ ~Working
    /\ reader' = [at |-> "before", op |-> "snapshot", tries |-> 1]
    /\ real' = {Snapshot}

\* The token before, then the chapter pointer.
ReadPointer ==
    /\ At("before")
    /\ reader' = [at |-> "pointer", op |-> "snapshot", tries |-> reader.tries,
                  token |-> Token, stage |-> stage]

\* _workflow_snapshot_core: what the pointer's transaction is to the active commits
\* and to the chapter files.
StageCase(s) ==
    IF s = None THEN "no_stage"
    ELSE IF ~BoundBefore(s.txn.chapter) THEN "changed_before"
    ELSE IF ~IsCurrentCommit(s) THEN "unpublished"
    ELSE IF ProvedBy(s) THEN "no_stage" ELSE "not_exact"

ReadCommits ==
    /\ At("pointer")
    /\ LET s == reader.stage IN
       reader' = [at |-> "commits", op |-> "snapshot", tries |-> reader.tries,
                  token |-> reader.token, stage |-> s,
                  current |-> s # None /\ IsCurrentCommit(s), case |-> StageCase(s)]

\* ... then HEAD, and the files of the chapters against it.
StateOf(s, case) ==
    IF case = "no_stage" /\ AllBound THEN "by_projection"
    ELSE IF case = "unpublished" /\ s.txn.parent = HEAD /\ text[s.txn.chapter] = s.txn.text
    THEN Reduction(s) ELSE "recompile_required"
ShownOf(s, case) == IF case = "unpublished" /\ s.txn.parent = HEAD THEN s ELSE None

ReadHead ==
    /\ At("commits")
    /\ LET s == reader.stage IN
       reader' = [at |-> "head", op |-> "snapshot", tries |-> reader.tries, token |-> reader.token,
                  staged |-> s # None /\ ~reader.current, head |-> HEAD,
                  state |-> StateOf(s, reader.case), stage |-> ShownOf(s, reader.case)]

\* ... then the projection.
ByProjection(state) ==
    IF state # "by_projection" THEN state
    ELSE IF ProjectionIsFresh THEN "ready" ELSE "projection_rebuild_required"

ReadProjection ==
    /\ At("head")
    /\ reader' = [at |-> "projection", op |-> "snapshot", tries |-> reader.tries,
                  token |-> reader.token,
                  shot |-> [head |-> reader.head, fresh |-> ProjectionIsFresh,
                            staged |-> reader.staged, stage |-> reader.stage,
                            state |-> ByProjection(reader.state)]]

\* _workflow_snapshot_once: the axiom pointer last; with both pointers there
\* (assert_single_staging) the snapshot is invalid.
ReadAxiom ==
    /\ At("projection")
    /\ reader' = [at |-> "after", op |-> "snapshot", tries |-> reader.tries,
                  token |-> reader.token,
                  shot |-> IF axiom = None THEN reader.shot
                           ELSE IF stage # None THEN [reader.shot EXCEPT !.state = "invalid"]
                           ELSE [reader.shot EXCEPT !.state = AxiomState, !.stage = axiom]]

\* Mutant: what was read again is answered without looking at the token.
CompareTokenTwice ==
    /\ At("after")
    /\ IF Token = reader.token \/ reader.tries = 2 THEN On("answer", reader)
       ELSE reader' = [at |-> "before", op |-> "snapshot", tries |-> reader.tries + 1]

\* The token after: the same, or all is read again, three times at most.
CompareToken ==
    /\ At("after")
    /\ IF Token = reader.token THEN On("answer", reader)
       ELSE IF reader.tries < 3
            THEN reader' = [at |-> "before", op |-> "snapshot", tries |-> reader.tries + 1]
       ELSE Error("canon_v3_authority_changed_during_read")

SnapshotSteps ==
    \/ ReadPointer \/ ReadCommits \/ ReadHead \/ ReadProjection \/ ReadAxiom \/ CompareToken

-----------------------------------------------------------------------------
(* Facts: CanonQueryFacade._bound_snapshot, alone or inside a search or a    *)
(* rebuild of the index                                                      *)

\* bound_workflow_unchanged: the same HEAD, digest and axioms, and still fresh.
Unchanged(before) == Snapshot = before /\ Snapshot.fresh

Readable == {"ready", "ready_to_finalize", "awaiting_human", "rewrite_required",
             "recompile_required"}

AskOperation(op) ==
    /\ op \in tool \ {"snapshot"} /\ ~Working
    /\ reader' = [at |-> "workflow", op |-> op,
                  before |-> IF op \in {"search", "rebuild"} THEN Snapshot ELSE None]
    /\ real' = {}

\* require_fresh_projection, the first half; a search and a rebuild have read a
\* snapshot of their own before.
ReadWorkflow ==
    /\ At("workflow")
    /\ IF Snapshot.fresh /\ Snapshot.state \in Readable
       THEN reader' = [at |-> "projected", op |-> reader.op, before |-> reader.before,
                       workflow |-> Snapshot]
       ELSE Error("canon_v3_head_projection_unavailable")

\* ... and the second: a fresh projection of that very HEAD.
ReadBoundProjection ==
    /\ At("projected")
    /\ IF ~ProjectionIsFresh \/ projection # reader.workflow.head
       THEN Error("canon_v3_projection_workflow_binding_mismatch")
       ELSE IF reader.op = "refresh"
            THEN IF reader.workflow.state = "ready" THEN On("capture", reader)
                 ELSE Error("planning_workflow_not_ready")
       ELSE On("as_of", reader)

\* export_asof_snapshot reads the projection file once more.
ReadAsOf ==
    /\ At("as_of")
    /\ IF ~ProjectionIsFresh THEN Error("canon_v3_query_invalid_sources")
       ELSE reader' = [at |-> "recheck", op |-> reader.op, before |-> reader.before,
                       workflow |-> reader.workflow, facts |-> projection]

\* Mutant: the workflow is not read again.
RecheckNothing ==
    /\ At("recheck")
    /\ CASE reader.op = "query" -> On("answer", reader)
         [] reader.op = "search" -> On("index", reader)
         [] reader.op = "rebuild" ->
              IF reader.before = reader.workflow THEN On("build", reader)
              ELSE Error("canon_v3_retrieval_authority_changed_before_build")

Recheck ==
    /\ At("recheck")
    /\ IF ~Unchanged(reader.workflow) THEN Error("canon_v3_authority_changed_during_query")
       ELSE CASE reader.op = "query" -> On("answer", reader)
              [] reader.op = "search" -> On("index", reader)
              [] reader.op = "rebuild" ->
                   IF reader.before = reader.workflow THEN On("build", reader)
                   ELSE Error("canon_v3_retrieval_authority_changed_before_build")

FactSteps == ReadWorkflow \/ ReadBoundProjection \/ ReadAsOf \/ Recheck

-----------------------------------------------------------------------------
(* rebuild_retrieval_projection and search_retrieval                         *)

\* The new database is written beside the index.
CheckBuild ==
    /\ At("build")
    /\ IF Unchanged(reader.before) THEN On("install", reader)
       ELSE Error("canon_v3_retrieval_authority_changed_during_build")
    /\ UNCHANGED index

Install ==
    /\ At("install")
    /\ index' = [workflow |-> reader.workflow, facts |-> reader.facts]
    /\ On("installed", reader)

\* Too late to take the index back: the caller only learns that it may be stale.
CheckInstalled ==
    /\ At("installed")
    /\ IF Unchanged(reader.before) THEN On("answer", reader)
       ELSE Error("canon_v3_retrieval_authority_changed_after_install")
    /\ UNCHANGED index

\* _binding_matches.  _database_rows has recomputed the digest of the rows it read and
\* compared it with the one in the metadata, so that both are index.facts.
BindingMatches(i, workflow, facts) == i.workflow = workflow /\ i.facts = facts

\* An index that is missing or bound to something else is passed over: the query's
\* own facts are searched.  Every hit has to be one of them, and is answered with them.
ReadIndex ==
    /\ At("index")
    /\ LET ready == BindingMatches(index, reader.workflow, reader.facts)
           rows == IF ready THEN index.facts ELSE reader.facts IN
       IF rows = reader.facts THEN On("searched", reader)
       ELSE Error("canon_v3_retrieval_hit_not_active")
    /\ UNCHANGED index

CheckSearch ==
    /\ At("searched")
    /\ IF Unchanged(reader.before) THEN On("answer", reader)
       ELSE Error("canon_v3_authority_changed_during_retrieval_search")
    /\ UNCHANGED index

RetrievalSteps == CheckBuild \/ Install \/ CheckInstalled \/ ReadIndex \/ CheckSearch

-----------------------------------------------------------------------------
(* refresh_contracts, after require_fresh_projection                         *)

\* The author saves the outline.
EditOutline ==
    /\ "refresh" \in tool /\ outline < MaxOutlines
    /\ outline' = outline + 1
    /\ UNCHANGED <<vars, reader, index, contracts, lastBatch>>

Batch == [outline |-> reader.outline, head |-> reader.workflow.head]

Capture ==
    /\ At("capture")
    /\ reader' = [at |-> "stable", op |-> "refresh", workflow |-> reader.workflow,
                  outline |-> outline, before |-> contracts]
    /\ UNCHANGED contracts

InputsAreStable == outline = reader.outline

\* _assert_inputs_stable, then the authority again; a dry run ends here.
CheckInputs ==
    /\ At("stable")
    /\ IF InputsAreStable THEN On("current", reader)
       ELSE Error("planning_outline_changed_during_refresh")
    /\ UNCHANGED contracts

CheckAuthority ==
    /\ At("current")
    /\ IF Snapshot = reader.workflow
       THEN \/ On("answer", reader)
            \/ reader' = [at |-> "write", op |-> "refresh", workflow |-> reader.workflow,
                          outline |-> reader.outline, before |-> contracts]
       ELSE Error("planning_authority_changed_during_refresh")
    /\ UNCHANGED contracts

Written == {f \in Files : contracts[f] = Batch}

\* The three files, each replaced whole, one after the other; each may fail.
Write ==
    /\ At("write")
    /\ \/ On("restore", reader) /\ UNCHANGED contracts
       \/ /\ "chapter" \notin Written
          /\ contracts' = [contracts EXCEPT !["chapter"] = Batch] /\ UNCHANGED reader
       \/ /\ "chapter" \in Written /\ "volume" \notin Written
          /\ contracts' = [contracts EXCEPT !["volume"] = Batch] /\ UNCHANGED reader
       \/ /\ {"chapter", "volume"} \subseteq Written
          /\ contracts' = [contracts EXCEPT !["review"] = Batch]
          /\ On("check_inputs", reader)

CheckWritten ==
    /\ At("check_inputs")
    /\ IF InputsAreStable THEN On("check_authority", reader) ELSE On("restore", reader)
    /\ UNCHANGED contracts

CheckPublished ==
    /\ At("check_authority")
    /\ IF Snapshot = reader.workflow THEN On("applied", reader) ELSE On("restore", reader)
    /\ UNCHANGED contracts

\* Mutant: the file written last is left.
RestoreTwo ==
    /\ At("restore")
    /\ \/ \E f \in {"chapter", "volume"} :
             /\ contracts[f] # reader.before[f]
             /\ contracts' = [contracts EXCEPT ![f] = reader.before[f]]
             /\ UNCHANGED reader
       \/ /\ \A f \in {"chapter", "volume"} : contracts[f] = reader.before[f]
          /\ On("restored", reader) /\ UNCHANGED contracts
       \/ Error("planning_restore_failed") /\ UNCHANGED contracts

\* _restore_files: the backups, one after the other.  What made a write fail may make
\* this fail as well, and then the rest is left as it is.
Restore ==
    /\ At("restore")
    /\ \/ \E f \in Files :
             /\ contracts[f] # reader.before[f]
             /\ contracts' = [contracts EXCEPT ![f] = reader.before[f]]
             /\ UNCHANGED reader
       \/ /\ contracts = reader.before
          /\ On("restored", reader) /\ UNCHANGED contracts
       \/ Error("planning_restore_failed") /\ UNCHANGED contracts

RefreshSteps ==
    \/ Capture \/ CheckInputs \/ CheckAuthority \/ Write \/ CheckWritten \/ CheckPublished
    \/ Restore

-----------------------------------------------------------------------------
Writing == {"write", "check_inputs", "check_authority", "restore"}

\* A refresh is killed while it writes; other readers leave nothing behind.
KillReader ==
    /\ reader.at \in Writing /\ MayDie
    /\ reader' = NoReader
    /\ lastBatch' = Mixed
    /\ UNCHANGED <<vars, index, outline, contracts>>

\* What the refresh's step makes of the three contracts.
Outcome ==
    IF reader'.at = "applied" THEN Batch
    ELSE IF At("restore") /\ reader'.at = "error" THEN Mixed ELSE lastBatch

ReaderStep ==
    \/ (AskSnapshot \/ \E op \in tool : AskOperation(op))
          /\ saved' = FALSE
          /\ UNCHANGED <<vars, index, outline, contracts, lastBatch>>
    \/ SnapshotSteps
          /\ saved' = (saved /\ reader'.at # "pointer")
          /\ UNCHANGED <<vars, real, index, outline, contracts, lastBatch>>
    \/ FactSteps /\ UNCHANGED <<vars, real, saved, index, outline, contracts, lastBatch>>
    \/ RetrievalSteps /\ UNCHANGED <<vars, real, saved, outline, contracts, lastBatch>>
    \/ RefreshSteps /\ lastBatch' = Outcome /\ UNCHANGED <<vars, real, saved, index, outline>>
    \/ (EditOutline \/ KillReader) /\ UNCHANGED <<real, saved>>

\* A writer's step; an answer that was given is forgotten.
WriterStep ==
    /\ Next
    /\ reader' = IF Working THEN reader ELSE NoReader
    /\ real' = IF Working /\ reader.op = "snapshot" THEN real \cup {Snapshot'} ELSE {}
    /\ saved' = (Working /\ reader.op = "snapshot" /\ (saved \/ text' # text))
    /\ UNCHANGED <<index, outline, contracts, lastBatch>>

ReadersNext == UNCHANGED tool /\ (WriterStep \/ ReaderStep)

ReadersSpec == ReadersInit /\ [][ReadersNext]_allVars

-----------------------------------------------------------------------------
(* Properties *)

\* The public snapshot that a reader gets without a lock is one that the files did
\* give at some moment between its question and the answer: HEAD, the freshness of
\* the projection, the workflow state and the staged transaction belong together,
\* although they were read one by one while clients published, archived and died.
\* The token does not cover the chapter files, so the author must not have saved
\* one between the two comparisons.
Public(shot) == [head |-> shot.head, fresh |-> shot.fresh, state |-> shot.state, stage |-> shot.stage]
AnswerWasReal ==
    reader.at = "answer" /\ reader.op = "snapshot" /\ ~saved =>
        Public(reader.shot) \in {Public(shot) : shot \in real}

\* The facts a query or a search answers with are those of the HEAD that the answer
\* names, although HEAD and the projection are replaced while it reads them.
FactsAreOfTheirHead ==
    reader.at = "answer" /\ reader.op \in {"query", "search", "rebuild"} =>
        reader.facts = reader.workflow.head

\* The three planning contracts are never of two outlines or of two HEADs: whenever no
\* refresh is writing them, they are the batch that was applied last, whatever writes
\* failed and whatever the author and the publishers did meanwhile.  The exception is a
\* refresh that was killed while it wrote, or that could not put its backups back, until
\* another one is applied.
ContractsAreWhole ==
    reader.at \notin Writing /\ lastBatch # Mixed => \A f \in Files : contracts[f] = lastBatch
=============================================================================
