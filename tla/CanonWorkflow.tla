--------------------------- MODULE CanonWorkflow ---------------------------
(***************************************************************************)
(* The authoritative workflow of an unpublished Canon v3 transaction       *)
(* (canon_v3/service.py, author_axiom.py, staging_authority.py): prepare,  *)
(* decide, finalize, archive and rebuild, by several clients on one        *)
(* project, over the object store of CanonStore.                           *)
(*                                                                         *)
(* Two pointer files, STAGING.json and AUTHOR_AXIOM_STAGING.json, hold the *)
(* transaction under review.  Every write of them happens under one lock,  *)
(* STAGING.json.lock; a client reads the public snapshot without it and    *)
(* sends back the digests it saw.  The author edits chapter files at any   *)
(* time and takes no lock.  A client may be killed between two steps of a  *)
(* finalize.  Publication itself is one step here: that a seal is atomic   *)
(* in HEAD is what CanonStore shows.                                       *)
(*                                                                         *)
(* HEAD is the number of publications; a digest is the value it digests.   *)
(***************************************************************************)
EXTENDS ReviewLineage, Sequences

CONSTANTS
    Clients, NoClient,
    MaxChapter,     \* bound: chapters of the novel
    MaxHead,        \* bound: publications
    MaxRound,       \* bound: prepares over a stage that was never published
    MaxEdits,       \* bound: edits of chapter files
    FirstText,      \* what every chapter file holds at first
    AxiomSets,      \* what the author's axioms may be
    FirstAxioms,    \* what they are at first
    MaxArchived,    \* bound: stages the author gives up
    MaxConflicts,   \* bound: conflicts found in one batch
    MayDie          \* whether clients are killed

ASSUME WorkflowAssumption ==
    /\ NoClient \notin Clients
    /\ MaxChapter \in Nat \ {0} /\ MaxHead \in Nat /\ MaxRound \in Nat /\ MaxEdits \in Nat
    /\ FirstText \in Texts
    /\ FirstAxioms \in AxiomSets
    /\ MaxArchived \in Nat /\ MaxConflicts \in Nat /\ MayDie \in BOOLEAN

VARIABLES
    history,     \* the publications HEAD has gone through
    active,      \* the manifest at HEAD: the publication each chapter stands on
    projection,  \* the HEAD the projection was folded from; -1: none
    stage,       \* STAGING.json
    axiom,       \* AUTHOR_AXIOM_STAGING.json
    text,        \* the chapter files
    kept,        \* revision-archive/manuscripts, by content
    lock,        \* who holds STAGING.json.lock
    pc, req,     \* each client's operation and what it asks for
    seen,        \* the last snapshot each client read
    archived,    \* history: of each stage that was given up, its rejections
    dead,        \* history: whether the stage a client last saw was given up since
    edits        \* history: counts the edits, for MaxEdits

files == <<projection, stage, axiom, kept>>
client == <<lock, pc, req, seen, archived, dead, edits>>
vars == <<history, active, files, text, client>>

Chapters == 1 .. MaxChapter
HEAD == Len(history)
None == [kind |-> "none"]

\* round counts the prepares since there was no stage: the transaction binds the
\* workflow digest it was proposed under, which covers the stage it replaces.
ChapterTxn == [chapter : Chapters, text : Texts, parent : Nat, round : 0 .. MaxRound,
               cands : SUBSET Candidate, flagged : SUBSET Candidate,
               conflicts : SUBSET Candidate, reconsidered : SUBSET Candidate]
Tombstone == [chapter : Chapters, text : Texts, cand : Candidate,
              act : Negative, fix : Candidate]
Stage == [kind : {"chapter"}, txn : ChapterTxn, decs : SUBSET Decision,
          lineage : SUBSET Tombstone]
\* The axiom channel: the set of axioms that is desired, and the chain of actions
\* on the one case it makes.
AxiomActions == {"approve", "omit", "rewrite"}
AxiomStage == [kind : {"axiom"}, parent : Nat, desired : AxiomSets, acts : Seq(AxiomActions)]

Last(s) == s[Len(s)]
-----------------------------------------------------------------------------
(* What the service derives from the files *)

Commit(c) == history[active[c]]
Bound(c) == active[c] # 0 => Commit(c).txn.text = text[c]

\* _assert_active_chapter_bindings(before_chapter)
BoundBefore(c) == \A d \in Chapters : d < c => Bound(d)
AllBound == BoundBefore(MaxChapter + 1)

\* _transaction_is_current_commit and the exact proof of a commit by a pointer.
IsCurrentCommit(s) == \E c \in Chapters : active[c] # 0 /\ Commit(c).txn = s.txn
ProvedBy(s) == \E c \in Chapters : active[c] # 0 /\ Commit(c) = s

ProjectionIsFresh == projection = HEAD

\* _assert_chapter_sequence
ChapterInSequence(c) == c # 1 => active[c - 1] # 0

\* _validated_reduction of a stage.
Reduction(s) == ReviewState(s.txn, s.decs)

AxiomReduction(s) ==
    IF s.acts = << >> THEN "awaiting_human"
    ELSE IF Last(s.acts) = "rewrite" THEN "rewrite_required"
    ELSE "ready_to_finalize"

\* _snapshot_without_stage
StateWithoutStage ==
    IF ~AllBound THEN "recompile_required"
    ELSE IF ProjectionIsFresh THEN "ready" ELSE "projection_rebuild_required"

\* _workflow_snapshot_core
ChapterState ==
    IF stage = None THEN StateWithoutStage
    ELSE IF ~BoundBefore(stage.txn.chapter) THEN "recompile_required"
    ELSE IF ProvedBy(stage) THEN StateWithoutStage
    ELSE IF stage.txn.parent # HEAD \/ text[stage.txn.chapter] # stage.txn.text
         THEN "recompile_required"
    ELSE Reduction(stage)

\* The stage digest the snapshot shows; the early returns show none.
PublicStage ==
    IF stage = None \/ ~BoundBefore(stage.txn.chapter) \/ IsCurrentCommit(stage)
         \/ stage.txn.parent # HEAD
    THEN None ELSE stage

\* active_records: an approved proposal replaces the axioms, an omitted one does not.
ActiveAxioms ==
    LET approved == SelectSeq(history, LAMBDA h : h.kind = "axiom" /\ Last(h.acts) = "approve") IN
    IF approved = << >> THEN FirstAxioms ELSE Last(approved).desired

\* AuthorAxiomChannel.status of a stage
AxiomState == IF axiom.parent # HEAD THEN "recompile_required" ELSE AxiomReduction(axiom)

\* _workflow_snapshot_once: the axiom stage, when there is one, replaces the
\* chapter's fields.  workflow_digest covers all of this.
Snapshot ==
    [head |-> HEAD, fresh |-> ProjectionIsFresh,
     staged |-> stage # None /\ ~IsCurrentCommit(stage),
     state |-> IF axiom # None THEN AxiomState ELSE ChapterState,
     stage |-> IF axiom # None THEN axiom ELSE PublicStage]


\* The negative decisions an earlier proposal for chapter c left behind: in any
\* publication HEAD has gone through (_historical_chapter_lineage).
Outlives(s) == s.lineage \cup NegativeHeads(s.txn, s.decs)
Publications(c) == {h \in {history[i] : i \in DOMAIN history} : h.kind = "chapter" /\ h.txn.chapter = c}

\* Mutant: only the commit the chapter stands on is asked.
HistoricalLineageActive(c) == IF active[c] = 0 THEN {} ELSE Outlives(Commit(c))

HistoricalLineage(c) == UNION {Outlives(h) : h \in Publications(c)}

\* ... and, for a re-prepare, in the stage that it replaces.
Replaced(c) == IF stage # None /\ stage.txn.chapter = c THEN {stage} ELSE {}
LineageOf(c) == HistoricalLineage(c) \cup UNION {Outlives(s) : s \in Replaced(c)}

-----------------------------------------------------------------------------
Idle(p) == pc[p] = "idle"
NoReq == None

\* initialize_new_project has published the genesis manifest; it may have been
\* killed before it folded the projection.
Init ==
    /\ history = << >>
    /\ active = [c \in Chapters |-> 0]
    /\ projection \in {0, -1}
    /\ stage = None /\ axiom = None
    /\ text = [c \in Chapters |-> FirstText]
    /\ kept = {}
    /\ lock = NoClient
    /\ pc = [p \in Clients |-> "idle"]
    /\ req = [p \in Clients |-> NoReq]
    /\ seen = [p \in Clients |-> Snapshot]
    /\ archived = << >> /\ dead = [p \in Clients |-> FALSE]
    /\ edits = 0

\* The author saves a chapter file.
Edit(c, t) ==
    /\ t # text[c] /\ edits < MaxEdits
    /\ text' = [text EXCEPT ![c] = t]
    /\ edits' = edits + 1
    /\ UNCHANGED <<history, active, files, lock, pc, req, seen, archived, dead>>

\* workflow_snapshot: the stable read of a client between two operations.
Look(p) ==
    /\ Idle(p)
    /\ seen' = [seen EXCEPT ![p] = Snapshot]
    /\ dead' = [dead EXCEPT ![p] = FALSE]
    /\ UNCHANGED <<history, active, files, text, lock, pc, req, archived, edits>>

Enter(p, label, r) ==
    /\ Idle(p) /\ lock = NoClient
    /\ lock' = p
    /\ pc' = [pc EXCEPT ![p] = label]
    /\ req' = [req EXCEPT ![p] = r]
    /\ UNCHANGED <<seen, archived, dead, edits>>

Leave(p) ==
    /\ lock' = IF lock = p THEN NoClient ELSE lock
    /\ pc' = [pc EXCEPT ![p] = "idle"]
    /\ req' = [req EXCEPT ![p] = NoReq]
    /\ UNCHANGED <<seen, archived, dead, edits>>

Goto(p, label) ==
    /\ pc' = [pc EXCEPT ![p] = label]
    /\ UNCHANGED <<lock, req, seen, archived, dead, edits>>

Ask(p, label, r) ==
    /\ Idle(p)
    /\ pc' = [pc EXCEPT ![p] = label]
    /\ req' = [req EXCEPT ![p] = r]
    /\ UNCHANGED <<history, active, files, text, lock, seen, archived, dead, edits>>

-----------------------------------------------------------------------------
(* prepare *)

\* The batch is checked against the chapter file before the lock is taken.
AskPrepare(p, c, cands, flagged, conflicts) ==
    /\ HEAD < MaxHead
    /\ WellFormed(cands, text[c]) /\ Cardinality(conflicts) <= MaxConflicts
    /\ Ask(p, "prepare", [chapter |-> c, text |-> text[c], cands |-> cands,
                          flagged |-> flagged, conflicts |-> conflicts])

\* A second or later prepare over a stage that is not published.
NextRound == IF stage = None \/ IsCurrentCommit(stage) THEN 0 ELSE stage.txn.round + 1

PreparedStage(r) ==
    [kind |-> "chapter", decs |-> {}, lineage |-> LineageOf(r.chapter),
     txn |-> [chapter |-> r.chapter, text |-> r.text, parent |-> HEAD, round |-> NextRound,
              cands |-> r.cands, flagged |-> r.flagged, conflicts |-> r.conflicts,
              reconsidered |-> Reconsidered(LineageOf(r.chapter), r.chapter, r.text, r.cands)]]

\* Mutant: any stage gives way.
StageGivesWayAlways(r) == TRUE

\* Only a stage of the same chapter, or one that is already published, gives way;
\* the corrections decided on it have to be in the new batch.
StageGivesWay(r) ==
    stage # None =>
        /\ stage.txn.chapter = r.chapter \/ IsCurrentCommit(stage)
        /\ stage.txn.chapter = r.chapter =>
              {candidate_digest(c) : c \in Corrections(stage.decs)}
                  \subseteq {candidate_digest(c) : c \in r.cands}

\* Mutant: the projection may be stale.
PrepareOnStaleProjection(p) ==
    LET r == req[p] IN
    /\ pc[p] = "prepare" /\ lock = NoClient
    /\ axiom = None
    /\ seen[p] = Snapshot
    /\ BoundBefore(r.chapter) /\ ChapterInSequence(r.chapter)
    /\ StageGivesWay(r)
    /\ LineageAllows(LineageOf(r.chapter), r.chapter, r.text, r.cands)
    /\ NextRound <= MaxRound
    /\ stage' = PreparedStage(r)
    /\ Leave(p)
    /\ UNCHANGED <<history, active, projection, axiom, text, kept>>

\* Under the lock: the batch was proposed for the workflow as it still is, the
\* project is fit for a new transaction, and the lineage lets the batch pass.
Prepare(p) ==
    LET r == req[p] IN
    /\ pc[p] = "prepare" /\ lock = NoClient
    /\ axiom = None
    /\ seen[p] = Snapshot
    /\ BoundBefore(r.chapter) /\ ProjectionIsFresh /\ ChapterInSequence(r.chapter)
    /\ StageGivesWay(r)
    /\ LineageAllows(LineageOf(r.chapter), r.chapter, r.text, r.cands)
    /\ NextRound <= MaxRound
    /\ stage' = PreparedStage(r)
    /\ Leave(p)
    /\ UNCHANGED <<history, active, projection, axiom, text, kept>>

\* AuthorAxiomChannel.prepare reads the snapshot before it takes the lock.
AskPrepareAxiom(p, desired) ==
    /\ HEAD < MaxHead
    /\ seen[p] = Snapshot /\ seen[p].fresh
    /\ IF axiom = None THEN seen[p].state = "ready"
       ELSE seen[p].state \in {"awaiting_human", "rewrite_required",
                               "recompile_required", "ready_to_finalize"}
    /\ Ask(p, "prepare_axiom", [desired |-> desired, replaces |-> axiom])

\* The proposal that is staged already keeps its decisions.
PreparedAxiom(desired) ==
    IF axiom # None /\ axiom.parent = HEAD /\ axiom.desired = desired THEN axiom
    ELSE [kind |-> "axiom", parent |-> HEAD, desired |-> desired, acts |-> << >>]

\* Mutant: the chapter pointer is not looked at again under the lock.
PrepareAxiomUnchecked(p) ==
    /\ pc[p] = "prepare_axiom" /\ lock = NoClient
    /\ seen[p].head = HEAD /\ ProjectionIsFresh /\ AllBound
    /\ req[p].replaces = axiom
    /\ req[p].desired # ActiveAxioms
    /\ axiom' = PreparedAxiom(req[p].desired)
    /\ Leave(p)
    /\ UNCHANGED <<history, active, projection, stage, text, kept>>

\* Under the lock it checks again all that the snapshot had told it, and that the
\* proposal changes something.
PrepareAxiom(p) ==
    /\ pc[p] = "prepare_axiom" /\ lock = NoClient
    /\ stage = None
    /\ seen[p].head = HEAD /\ ProjectionIsFresh /\ AllBound
    /\ req[p].replaces = axiom
    /\ req[p].desired # ActiveAxioms
    /\ axiom' = PreparedAxiom(req[p].desired)
    /\ Leave(p)
    /\ UNCHANGED <<history, active, projection, stage, text, kept>>

\* A prepare that is refused, or whose client is killed, has written nothing.
GiveUp(p) ==
    /\ pc[p] \in {"prepare", "prepare_axiom"}
    /\ Leave(p)
    /\ UNCHANGED <<history, active, files, text>>

-----------------------------------------------------------------------------
(* record_decisions *)

Choices(c) ==
    {ch \in [act : AllowedActions(stage.txn, c), fix : Candidate] :
        IF ch.act = "correct"
        THEN /\ ch.fix.id = c.id /\ ch.fix.text = stage.txn.text
             /\ candidate_digest(ch.fix) # candidate_digest(c)
        ELSE ch.fix = c}

\* A repeated decision is skipped; the rest get the next revision of their case.
Planned(choice) ==
    {NextDecision(stage.decs, c, choice[c].act, choice[c].fix) :
        c \in {d \in DOMAIN choice :
                 ~\E h \in DecisionHeads(stage.decs) :
                    h.cand = d /\ h.act = choice[d].act /\ h.fix = choice[d].fix}}

\* The whole request is checked, then the pointer takes all of it in one write.
Decide(p, choice) ==
    /\ Idle(p) /\ lock = NoClient
    /\ stage # None /\ seen[p].stage = stage
    /\ BoundBefore(stage.txn.chapter)
    /\ stage.txn.parent = HEAD
    /\ text[stage.txn.chapter] = stage.txn.text
    /\ \A d \in Planned(choice) : d.rev <= MaxRevision
    /\ stage' = [stage EXCEPT !.decs = @ \cup Planned(choice)]
    /\ UNCHANGED <<history, active, projection, axiom, text, kept, client>>

\* AuthorAxiomChannel.record_decisions
DecideAxiom(p, act) ==
    /\ Idle(p) /\ lock = NoClient
    /\ axiom # None /\ seen[p].stage = axiom
    /\ stage = None
    /\ axiom.parent = HEAD
    /\ Len(axiom.acts) < MaxRevision
    /\ axiom.acts # << >> => Last(axiom.acts) # act
    /\ axiom' = [axiom EXCEPT !.acts = Append(@, act)]
    /\ UNCHANGED <<history, active, projection, stage, text, kept, client>>

Rejections(s) == IF s.kind = "chapter" THEN Outlives(s) ELSE {}

\* archive_staging: the pointer the client has seen goes, its objects stay.
Archive(p) ==
    /\ Idle(p) /\ lock = NoClient
    /\ seen[p].stage # None /\ Len(archived) < MaxArchived
    /\ \/ seen[p].stage = stage /\ axiom = None /\ stage' = None /\ UNCHANGED axiom
       \/ seen[p].stage = axiom /\ stage = None /\ axiom' = None /\ UNCHANGED stage
    /\ archived' = Append(archived, Rejections(seen[p].stage))
    /\ dead' = [q \in Clients |-> dead[q] \/ seen[q].stage = seen[p].stage]
    /\ UNCHANGED <<history, active, projection, text, kept, lock, pc, req, seen, edits>>

-----------------------------------------------------------------------------
(* finalize.  A request is the stage its client has seen ready. *)

Asked(p) == seen[p].stage
MayAsk(p, kind) == seen[p].state = "ready_to_finalize" /\ Asked(p).kind = kind

\* archive_bound_manuscript, before HEAD is touched.
Keep(s) == kept' = kept \cup {s.txn.text}

\* Mutant: the manuscript is kept after the publication only.
FinalizeUnkept(p) ==
    /\ MayAsk(p, "chapter")
    /\ stage = Asked(p)
    /\ BoundBefore(stage.txn.chapter)
    /\ Reduction(stage) = "ready_to_finalize"
    /\ text[stage.txn.chapter] = stage.txn.text
    /\ \/ stage.txn.parent = HEAD /\ Enter(p, "seal", stage)
       \/ stage.txn.parent # HEAD /\ ProvedBy(stage) /\ Enter(p, "clear", stage)
    /\ UNCHANGED <<history, active, projection, stage, axiom, text, kept>>

\* Mutant: the stage digest of the request is not compared.
FinalizeUncompared(p) ==
    /\ MayAsk(p, "chapter")
    /\ stage # None /\ stage.txn = Asked(p).txn
    /\ BoundBefore(stage.txn.chapter)
    /\ Reduction(stage) = "ready_to_finalize"
    /\ text[stage.txn.chapter] = stage.txn.text
    /\ Keep(stage)
    /\ \/ stage.txn.parent = HEAD /\ Enter(p, "seal", stage)
       \/ stage.txn.parent # HEAD /\ ProvedBy(stage) /\ Enter(p, "clear", stage)
    /\ UNCHANGED <<history, active, projection, stage, axiom, text>>

\* A stage whose transaction HEAD already holds is the left-over of a finalize
\* that was killed after the swap: only what follows the swap is done again.
Finalize(p) ==
    /\ MayAsk(p, "chapter")
    /\ stage = Asked(p)
    /\ BoundBefore(stage.txn.chapter)
    /\ Reduction(stage) = "ready_to_finalize"
    /\ text[stage.txn.chapter] = stage.txn.text
    /\ Keep(stage)
    /\ \/ stage.txn.parent = HEAD /\ Enter(p, "seal", stage)
       \/ stage.txn.parent # HEAD /\ ProvedBy(stage) /\ Enter(p, "clear", stage)
    /\ UNCHANGED <<history, active, projection, stage, axiom, text>>

\* _completed_finalize_retry: the stage is gone and HEAD holds the commit.
FinalizeRetry(p) ==
    /\ MayAsk(p, "chapter")
    /\ stage = None
    /\ ProvedBy(Asked(p))
    /\ text[Asked(p).txn.chapter] = Asked(p).txn.text
    /\ Keep(Asked(p))
    /\ Enter(p, "rebuild", Asked(p))
    /\ UNCHANGED <<history, active, projection, stage, axiom, text>>

AxiomCommits == SelectSeq(history, LAMBDA h : h.kind = "axiom")
LastAxiom == IF AxiomCommits = << >> THEN None ELSE Last(AxiomCommits)

\* AuthorAxiomChannel.finalize; a left-over is recognised by seal_author_axiom.
FinalizeAxiom(p) ==
    /\ MayAsk(p, "axiom")
    /\ axiom = Asked(p) /\ stage = None
    /\ \/ axiom.parent = HEAD /\ Enter(p, "seal", axiom)
       \/ axiom.parent # HEAD /\ axiom = LastAxiom /\ Enter(p, "clear", axiom)
    /\ UNCHANGED <<history, active, files, text>>

\* AuthorAxiomChannel._completed_finalize_retry
FinalizeAxiomRetry(p) ==
    /\ MayAsk(p, "axiom")
    /\ axiom = None
    /\ \E i \in DOMAIN AxiomCommits : AxiomCommits[i] = Asked(p)
    /\ Enter(p, "rebuild", Asked(p))
    /\ UNCHANGED <<history, active, files, text>>

\* The proof demanded inside the publication lock: the author may have saved a
\* chapter since the checks above.
Proof(s) ==
    IF s.kind = "axiom" THEN axiom = s /\ s.parent = HEAD
    ELSE /\ stage = s /\ s.txn.parent = HEAD
         /\ text[s.txn.chapter] = s.txn.text /\ BoundBefore(s.txn.chapter)
         /\ ChapterInSequence(s.txn.chapter)
         /\ Reduction(s) = "ready_to_finalize"

Seal(p) ==
    /\ pc[p] = "seal" /\ Proof(req[p])
    /\ Goto(p, "swap")
    /\ UNCHANGED <<history, active, files, text>>

\* Mutant: the refusal keeps the staging lock.
SealRefusedStillLocked(p) ==
    /\ pc[p] = "seal" /\ ~Proof(req[p])
    /\ pc' = [pc EXCEPT ![p] = "idle"]
    /\ req' = [req EXCEPT ![p] = NoReq]
    /\ UNCHANGED <<history, active, files, text, lock, seen, archived, dead, edits>>

SealRefused(p) ==
    /\ pc[p] = "seal" /\ ~Proof(req[p])
    /\ Leave(p)
    /\ UNCHANGED <<history, active, files, text>>

\* HEAD names the new publication; a chapter drops the suffix after it.
Swap(p) ==
    /\ pc[p] = "swap"
    /\ history' = Append(history, req[p])
    /\ active' = IF req[p].kind = "axiom" THEN active
                 ELSE [c \in Chapters |->
                         IF c < req[p].txn.chapter THEN active[c]
                         ELSE IF c = req[p].txn.chapter THEN HEAD + 1 ELSE 0]
    /\ Goto(p, "clear")
    /\ UNCHANGED <<files, text>>

Clear(p) ==
    /\ pc[p] = "clear"
    /\ \/ req[p].kind = "chapter" /\ stage' = None /\ UNCHANGED axiom
       \/ req[p].kind = "axiom" /\ axiom' = None /\ UNCHANGED stage
    /\ Goto(p, "rebuild")
    /\ UNCHANGED <<history, active, projection, text, kept>>

\* rebuild_projection, the end of a finalize.  It may raise: the fold refuses HEAD (see
\* FactSlots), or the file cannot be written.  The projection then stays as it was.
Rebuild(p) ==
    /\ pc[p] = "rebuild"
    /\ projection' = HEAD \/ UNCHANGED projection
    /\ Leave(p)
    /\ UNCHANGED <<history, active, stage, axiom, text, kept>>

\* Mutant: HEAD is read before the publication lock is taken.
RebuildAloneLate(p) ==
    /\ Idle(p)
    /\ projection' = seen[p].head
    /\ UNCHANGED <<history, active, stage, axiom, text, kept, client>>

\* The command rebuild-projection takes the publication lock only, so it may run
\* while another client finalizes.  Where it raises it changes nothing.
RebuildAlone(p) ==
    /\ Idle(p)
    /\ projection # HEAD
    /\ projection' = HEAD
    /\ UNCHANGED <<history, active, stage, axiom, text, kept, client>>

\* A client is killed inside the staging lock: files stay, the lock goes.
Die(p) ==
    /\ lock = p
    /\ Leave(p)
    /\ UNCHANGED <<history, active, files, text>>

Work(p) ==
    \/ Seal(p) \/ SealRefused(p) \/ Swap(p) \/ Clear(p) \/ Rebuild(p)

Next ==
    \/ \E c \in Chapters, t \in Texts : Edit(c, t)
    \/ \E p \in Clients :
        \/ Look(p)
        \/ \E c \in Chapters, cands \in SUBSET Candidate :
              \E flagged \in SUBSET cands : \E conflicts \in SUBSET flagged :
                 AskPrepare(p, c, cands, flagged, conflicts)
        \/ Prepare(p)
        \/ \E desired \in AxiomSets : AskPrepareAxiom(p, desired)
        \/ PrepareAxiom(p)
        \/ GiveUp(p)
        \/ stage # None /\ \E S \in SUBSET Cases(stage.txn) \ {{}} :
              \E choice \in [S -> UNION {Choices(c) : c \in S}] :
                 (\A c \in S : choice[c] \in Choices(c)) /\ Decide(p, choice)
        \/ \E act \in AxiomActions : DecideAxiom(p, act)
        \/ Archive(p)
        \/ Finalize(p) \/ FinalizeRetry(p)
        \/ FinalizeAxiom(p) \/ FinalizeAxiomRetry(p)
        \/ Work(p)
        \/ RebuildAlone(p)
        \/ MayDie /\ Die(p)

Spec == Init /\ [][Next]_vars

\* A prepare ends, with a stage or without, and the holder of the lock keeps running
\* until it answers or is killed.  What a human has to start, a rebuild of a stale
\* projection too, may never be started.
Answer(p) == Prepare(p) \/ PrepareAxiom(p) \/ GiveUp(p)
FairSpec == Spec /\ \A p \in Clients : WF_vars(Answer(p)) /\ WF_vars(Work(p))

-----------------------------------------------------------------------------
(* Properties *)

\* Every variable has its type.
TypeOK ==
    /\ history \in Seq(Stage \cup AxiomStage)
    /\ active \in [Chapters -> 0 .. HEAD]
    /\ projection \in -1 .. HEAD
    /\ stage \in Stage \cup {None}
    /\ axiom \in AxiomStage \cup {None}
    /\ text \in [Chapters -> Texts]
    /\ kept \subseteq Texts
    /\ lock \in Clients \cup {NoClient}
    /\ pc \in [Clients -> {"idle", "prepare", "prepare_axiom", "seal", "swap", "clear", "rebuild"}]
    /\ archived \in Seq(SUBSET Tombstone)
    /\ edits \in 0 .. MaxEdits

\* The project never has two transactions under review, although each channel's
\* prepare looks at the other's pointer at another moment.
OneStage == stage = None \/ axiom = None

\* A staged transaction was prepared against HEAD, or HEAD is its publication and
\* the client was killed before it removed the pointer.  No other client can move
\* HEAD from under a review.
Parent(s) == IF s.kind = "axiom" THEN s.parent ELSE s.txn.parent
StagedOnHead ==
    \A s \in {stage, axiom} \ {None} :
        Parent(s) = HEAD \/ (history # << >> /\ s = Last(history))

\* While a transaction that is not yet published is under review, the projection
\* its reviewer reads is the one of the HEAD it was prepared against.
ReviewedOnFreshProjection ==
    \A s \in {stage, axiom} \ {None} : Parent(s) = HEAD => ProjectionIsFresh

\* Every publication is reviewed to the end: each case has a decision in force,
\* which approves the candidate or leaves it out, and no candidate that some
\* decision in force leaves out has its effects published.
ReviewedToTheEnd ==
    \A i \in DOMAIN history :
        LET h == history[i] IN
        IF h.kind = "axiom" THEN h.acts # << >> /\ Last(h.acts) # "rewrite"
        ELSE \A c \in Cases(h.txn) :
                \E d \in h.decs :
                    /\ d.cand = c /\ \A e \in h.decs : e.cand = c => e.rev <= d.rev
                    /\ \/ d.act = "approve"
                       \/ d.act = "omit" /\ c \notin ActiveCandidates(h.txn, h.decs)

\* What HEAD gets is to the letter what the client that finalizes has seen as
\* ready, with every decision it had seen and no other.
PublishesWhatWasSeen ==
    [][ HEAD' # HEAD =>
          \E p \in Clients :
              /\ pc[p] = "swap" /\ seen[p].state = "ready_to_finalize"
              /\ seen[p].stage = Last(history') ]_vars

\* The exact bytes of every published chapter are kept, even when the author saves
\* the chapter again between the checks and the swap.
PublishedTextIsKept ==
    \A i \in DOMAIN history : history[i].kind = "chapter" => history[i].txn.text \in kept

\* A rejection that was published with a chapter is inherited by every later
\* publication of that chapter, also after the chapter was dropped as the suffix
\* of an earlier one's revision.
RejectionsAreInherited ==
    \A i, j \in DOMAIN history :
        LET h == history[i]
            k == history[j] IN
        i < j /\ h.kind = "chapter" /\ k.kind = "chapter" /\ h.txn.chapter = k.txn.chapter
            => Outlives(h) \subseteq k.lineage

\* While the bytes of a chapter stay the same, a candidate that was rejected before
\* a publication is not in it; a claim that was omitted is in it only when a human
\* has approved it there; a candidate that was corrected is in it as corrected, or
\* was left out by a human.
RejectedStaysOut ==
    \A j \in DOMAIN history :
        LET k == history[j]
            active_cands == ActiveCandidates(k.txn, k.decs)
            earlier == {history[i] : i \in 1 .. (j - 1)} \cap Publications(k.txn.chapter) IN
        k.kind = "chapter" =>
            \A n \in Binding(k.lineage \cup UNION {Outlives(h) : h \in earlier},
                             k.txn.chapter, k.txn.text) :
                /\ \A c \in active_cands :
                      /\ candidate_digest(c) # candidate_digest(n.cand)
                      /\ n.act = "omit" /\ c.claim = n.cand.claim =>
                            \E d \in DecisionHeads(k.decs) : d.cand = c /\ d.act = "approve"
                /\ n.act = "correct" /\ n.fix \notin active_cands =>
                      \E d \in k.decs : d.cand = n.fix /\ d.act = "omit"

\* A chapter under review gives way only to its publication, to the archive, or to
\* a stage of the same chapter that inherits what was rejected in it.
ReviewIsNotLost ==
    [][ stage # None /\ stage' # stage /\ ~IsCurrentCommit(stage) =>
          \/ stage' = None /\ \E p \in Clients : Idle(p) /\ seen[p].stage = stage
          \/ stage'.txn = stage.txn /\ stage.decs \subseteq stage'.decs
               /\ stage'.lineage = stage.lineage
          \/ stage'.txn.chapter = stage.txn.chapter /\ stage'.txn.round = stage.txn.round + 1
               /\ Outlives(stage) \subseteq stage'.lineage ]_vars

\* Seen without files, locks and crashes the workflow is OneReview: what is under
\* review is the stage that is not yet published.
UnderReview == {s \in {stage, axiom} \ {None} : \A i \in DOMAIN history : history[i] # s}
Review == INSTANCE OneReview WITH
    open <- {[parent |-> Parent(s), reviewed |-> s] : s \in UnderReview},
    published <- history
ImplementsOneReview == Review!Spec

\* Whoever takes the staging lock leaves it, by an answer, a refusal of its proof, a
\* rebuild that fails, or its death.
LockIsReleased == \A p \in Clients : (lock = p) ~> (lock # p)

\* A HEAD that was never folded, because the publisher died or the fold was refused, is
\* the last one until it is: nothing is published on top of it, and no rebuild that
\* runs beside the publishers takes the projection back to an older HEAD and lets them
\* go on.
NothingOnUnfoldedHead == [][ HEAD' # HEAD => ProjectionIsFresh ]_vars

-----------------------------------------------------------------------------
(* What the documentation says and the code does not do.  Each of these is   *)
(* checked by a run that finds it violated; README.md tells how.             *)

\* Some batch for chapter c passes what prepare demands of the review so far.
CanBePrepared(c) ==
    \E cands \in SUBSET Candidate :
        /\ WellFormed(cands, text[c])
        /\ StageGivesWay([chapter |-> c, cands |-> cands])
        /\ LineageAllows(LineageOf(c), c, text[c], cands)

\* The chapters that the snapshot's recovery actions ask to prepare again: an active
\* one whose file has changed (reprepare_changed_canonical_chapter), or the staged
\* one after an edit of its file (reprepare_changed_chapter) or after a correction
\* (recompile_corrected_candidates).
Recoverable ==
    {c \in Chapters :
        /\ axiom = None /\ BoundBefore(c)
        /\ IF stage = None \/ ProvedBy(stage) THEN ~Bound(c)
           ELSE \/ c < stage.txn.chapter /\ ~Bound(c)
                \/ /\ c = stage.txn.chapter /\ stage.txn.parent = HEAD
                   /\ text[c] # stage.txn.text \/ Reduction(stage) = "recompile_required"}

\* canon-v3-architecture.md:127: when the bytes of a chapter have changed it is
\* scanned and judged again; canon-ledger-confirm/SKILL.md:166: after a correction it
\* is prepared again with the correction.  So, unless a human has asked for other
\* bytes than these, some batch passes the prepare that the snapshot asks for.
RecoveryCanBePrepared ==
    \A c \in Recoverable :
        (\A n \in Binding(LineageOf(c), c, text[c]) : n.act # "rewrite") => CanBePrepared(c)

\* canon-v3-architecture.md:203: once a stage is archived, its old finalize fails.
OldFinalizeStaysDead ==
    [][ HEAD' # HEAD => \A p \in Clients : pc[p] = "swap" => ~dead[p] ]_vars

\* canon-v3-skill-protocol.md:122: preparing again does not bring a rejected fact
\* of the same chapter bytes back, unless a human approves it.
RejectionSurvivesArchive ==
    [][ HEAD' # HEAD =>
          LET k == Last(history') IN
          k.kind = "chapter" =>
            \A n \in Binding(UNION {archived[i] : i \in DOMAIN archived}, k.txn.chapter, k.txn.text) :
              \A c \in ActiveCandidates(k.txn, k.decs) :
                  candidate_digest(c) = candidate_digest(n.cand) =>
                      \E d \in DecisionHeads(k.decs) : d.cand = c /\ d.act = "approve" ]_vars
=============================================================================
