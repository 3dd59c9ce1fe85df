# Canon v3 in TLA+

Canon Ledger keeps the long-term facts of a novel ("canon") beside its manuscript. A
model proposes facts with evidence, a human decides the doubtful ones, and a publication
chain makes the result canon, chapter by chapter. This directory models that chain: the
object store with its atomic HEAD, the authoritative workflow on top of it, and what is
around them: the readers that take no lock, the facts and names a chapter's proposals are
bound to, the author's axioms, the making of a project, and what a power failure leaves. It
says what is checked by TLC on small instances, what is proved by TLAPS for every value of
the constants, and what is not modelled.

Paths are relative to `src/`; `v3/` stands for `scripts/data_modules/canon_v3/`.

- [1. The system](#1-the-system)
- [2. What is hard about it](#2-what-is-hard-about-it)
- [3. Modules](#3-modules)
- [4. CanonStore](#4-canonstore)
- [5. CanonWorkflow](#5-canonworkflow)
- [5a. Beside the workflow](#5a-beside-the-workflow)
- [6. Runs](#6-runs)
- [7. Proofs](#7-proofs)
- [8. Where code and documents disagree](#8-where-code-and-documents-disagree)
- [9. What is not modelled](#9-what-is-not-modelled)
- [10. Plan](#10-plan)

## 1. The system

Every component works on one project directory. There is no server: commands, agents and the
dashboard are processes that meet on the file system, through four kinds of shared state.

- `.story-system/v3/{transactions,decisions,commits,manifests,...}/<hash>.json`: immutable,
  content-addressed objects.
- `.story-system/v3/CURRENT`: HEAD, the hash of the active manifest, replaced by rename
  under `.publish.lock`.
- `.story-system/v3/STAGING.json` and `AUTHOR_AXIOM_STAGING.json`: the transaction under
  review, replaced under `STAGING.json.lock`.
- `.story-system/v3/projections/*`: what is derived from HEAD, and the author's own chapter
  files, which no lock protects.

| Component | State | Operations | Talks to | Correct when |
|---|---|---|---|---|
| Object store (`v3/repository.py`) | objects, CURRENT, `.publish.lock` | put_*, initialize, seal, seal_author_axiom, read_* | everything reads it; seal calls back into the service for the publication proof | HEAD never dangles, history is one line, nothing is published twice, chapters are 1..n |
| Workflow service (`v3/service.py`) | STAGING.json | workflow_snapshot, prepare, record_decisions, archive_staging, finalize | compiler, reducer, store, projection | one review at a time, on HEAD; what is published is what was reviewed; rejections persist |
| Author-axiom channel (`v3/author_axiom.py`) | AUTHOR_AXIOM_STAGING.json | status, prepare, record_decisions, archive, finalize | shares the staging lock, HEAD and projection | never beside a chapter review; axioms form one chain |
| Staging authority (`v3/staging_authority.py`) | none | assert_single_authoritative_staging | both channels | at most one pointer file |
| Review reducer (`v3/review.py`, `v3/public_protocol.py`) | none | make_decision, reduce_review | service | the last decision of a case is in force; rewrite before correct before open |
| Evidence (`v3/evidence.py`, `v3/source_verifier.py`, `chapter_content_binding.py`) | none | candidate_digest, semantic_claim_digest, verify_* | service, reducer | every candidate quotes the exact bytes |
| Compiler, slots, schema, genesis (`v3/compiler.py`, ...) | none | compile_transaction, effects, cases | service | no unsupported or conflicting effect without a human case |
| Entity registry (`v3/entity_registry.py`) | none (folds manifests) | build_approved_entity_registry | service, compiler | names approved once stay approved along the line |
| Projection (`v3/projection.py`) | projections/canon.json | rebuild_projection, read_projection, projection_is_fresh | finalize, readers | the fold of HEAD, or known to be stale |
| Retrieval (`v3/retrieval.py`) | retrieval.sqlite3 | rebuild, search, status | projection, workflow authority | answers for the HEAD it names |
| Public reads (`v3/public_read.py`, `v3/query.py`) | none | stable reads, three attempts | all files above | no mixture of two states |
| Workflow authority (`workflow_authority.py`) | none | snapshot, normalize_workflow_snapshot | CLI, gates, dashboard | one digest for one state |
| Historical revisions (`v3/historical_audit.py`, `v3/history.py`) | revision-archive/ | archive_bound_manuscript, export | finalize | published bytes are never lost |
| Planning (`planning_facade.py`) | three contract files | refresh, verify | workflow authority | the three files are of one batch, unless a refresh was killed or could not undo itself |
| Agent protocol (`v3/agent_protocol.py`) | none | assemble proposal batches | prepare | - |
| Run ledger (`run_ledger.py`) | run ledger file | record_write_step, resume plan | writing skills | a resumed run repeats what is stale |
| Backup (`backup_manager.py`) | Git tags, snapshots | backup, verify, rollback | store, manuscripts | canon and manuscript of one chapter |
| Project initialisation (`init_project.py`) | new tree | build, rename | initialize | all or nothing |
| Write gates (`write_gates/*`) | none | prewrite, precommit, postcommit | workflow authority | refuse unless ready |
| Retired v2 writers and read models (`chapter_commit_service.py`, `memory/*`, `index_manager.py`, ...) | derived SQLite and JSON | refused or rebuilt | - | never write facts |
| Dashboard (`dashboard/*`) | subscriber queues | read views, watcher | public reads | a change is noticed |
| Hooks, CLI, doctor, API client, archive manager | none of canon | dispatch, classify, report | all | - |

`PROJECT.json` lists each component with its sources and status.

## 2. What is hard about it

- **Interleaving.** Any number of processes prepare, decide, finalize and rebuild. They read
  without a lock and write under one, so every write has to check again what was read. Two
  channels guard each other's pointer file, but at different moments: the axiom channel reads
  the workflow before it takes the lock.
- **Crashes.** Publishing writes a commit, a manifest, CURRENT, removes the pointer and
  rebuilds the projection: five writes, and a kill may fall between any two.
- **Retries.** A finalize whose answer was lost is sent again, before or after others moved on.
- **An uncontrolled actor.** The author saves chapter files at any moment, between the checks
  of a finalize and its swap too.
- **Memory of rejections.** "Omit", "correct" and "rewrite" are to outlive re-preparation,
  revision, and the dropping of a suffix.
- **Validation written twice.** What seal builds and what every reader accepts are two pieces
  of code; a disagreement would lock a project.

The list, each entry at its line and with the properties that watch it, is `hazards` in
`PROJECT.json`.

## 3. Modules

| Module | Models | Proofs in |
|---|---|---|
| `CanonLedger` | abstract: the facts of a novel as a sequence of published states | |
| `CanonStore` | `v3/repository.py`: objects, CURRENT, the publication lock, crashes | `CanonStoreProofs` |
| `OneReview` | abstract: one transaction under review, on the latest publication | |
| `ReviewLineage` | candidates, decisions, reduction and lineage rules, as operators | |
| `CanonWorkflow` | `v3/service.py` and `v3/author_axiom.py` with their files, locks and clients | `CanonWorkflowProofs` |
| `StableReads` | extends `CanonWorkflow`: lock-free readers, queries, retrieval index, planning contracts | `StableReadsProofs` |
| `FactSlots` | which fact a claim continues or ends, the review of that, the fold into a projection | `FactSlotsProofs` |
| `EntityNames` | which identity a name stands for, along the line of chapters | `EntityNamesProofs` |
| `AxiomRecords` | cases, decisions and refusals of several author axioms; genesis axioms they replace | `AxiomRecordsProofs` |
| `ProjectInit` | `init_project.py`: build beside the target, rename into place | `ProjectInitProofs` |
| `DurablePublish` | what is seen and what is synced of a publication; power failures | `DurablePublishProofs` |
| `MCCanonStore` | three small parts of the store's behaviours as one instance | |
| `MCCanonWorkflow` | symmetry sets for TLC | |
| `MCFactSlots`, `MCEntityNames`, `MCBeside` | small stories, casts; the six modules before as one instance | |

`CanonStore` implements `CanonLedger`, `CanonWorkflow` implements `OneReview`; both are checked
as refinements and proved. `CanonWorkflow` takes the publication as one step (`Swap`): that a
seal is atomic in HEAD, for every interleaving and crash, is what `CanonStore` establishes. The
two meet in three places: the proof a seal demands (`Proof`; in `CanonStore` the seal may be
refused at any time, `SealRefused`), the parent HEAD a transaction is bound to, and the chapter
sequence, which both check. `StableReads` runs its readers beside the actions of
`CanonWorkflow` itself. `FactSlots`, `EntityNames` and `AxiomRecords` look inside what
`CanonWorkflow` takes as a candidate or a desired set of axioms; there a prepare, a request of
decisions and a publication are one step each, since `CanonWorkflow` establishes that one
review at a time is open and that it is on HEAD. `DurablePublish` refines the single object
write of `CanonStore`.

## 4. CanonStore

| TLA+ | Code |
|---|---|
| `txns`, `decisions`, `commits`, `manifests` | the object directories; commits and manifests are sequences and a hash is a position, so that equal payloads have one hash |
| `current`, `lock` | CURRENT, `.publish.lock` |
| `pc`, `req`, `new` | where a process is in an operation, its arguments, the hash in its local variable |
| `ledger` | history variable: every manifest CURRENT has named |
| `PutTransaction`, `PutDecision` | put_transaction, put_decision and the axiom variants |
| `Ask*`, `Acquire`, `Return` | entering an operation, `_ProjectFileLock` |
| `InitializeCheck` | `_initialize_objects` |
| `SealHeadConflict`, `SealRefused`, `SealCommit`, `SealManifest`, `SwapHead`, `Published` | `_seal_objects` and seal_author_axiom, one action per durable write |
| `ManifestValid` and its parts | `_validate_manifest_payload` with its references |
| `Crash` | a kill, or an exception, after any write |

`commits` and `manifests` grow by `Put`, which like the code writes nothing when the object is
there: a retry after a crash finds its own orphans. A transaction is one of a small set of
bodies for a channel, a chapter and a parent HEAD. Canon effects and axiom records are functions
of the transaction and its decisions and are left out; so is the fault injector, whose points
are the boundaries between the actions.

The invariants are about what the pieces add up to: `ReachableIsStored` (no crash leaves a
HEAD that dangles), `LedgerIsOneLine` (no publication is lost to a race), `SealsValidate` (the
two pieces of validation agree), `ChaptersContiguous`, `NoDoublePublication`; the action
properties `HistoryIsImmutable` and `RevisionDropsSuffix`; and `ImplementsLedger`, in which
locks, object writes, crashes and retries disappear and each swap is one publication.

## 5. CanonWorkflow

| TLA+ | Code |
|---|---|
| `history`, `active` | the line of manifests below HEAD and the chapter list of the active one; HEAD is the number of publications |
| `stage`, `axiom` | the two pointer files, with the objects they name |
| `projection` | the HEAD the projection is bound to; -1 when there is none |
| `text`, `kept` | the chapter files, `revision-archive/manuscripts` |
| `lock` | `STAGING.json.lock`, shared by both channels |
| `pc`, `req`, `seen` | each client's operation, its request, the last snapshot it read |
| `archived`, `dead`, `edits` | history: what archived stages had rejected, whether a client's last stage was archived, the edits so far |
| `Snapshot` | `_workflow_snapshot_once`; `Look` reads it |
| `AskPrepare`, `Prepare`, `GiveUp` | prepare: the checks before the lock, those under it and the write, a refusal |
| `AskPrepareAxiom`, `PrepareAxiom` | the same of the axiom channel |
| `Decide`, `DecideAxiom` | record_decisions: a whole request in one pointer write |
| `Archive` | archive_staging |
| `Finalize`, `FinalizeRetry`, `FinalizeAxiom`, `FinalizeAxiomRetry` | the entries of a finalize: fresh, left-over of a killed one, already completed |
| `Seal`, `SealRefused`, `Swap`, `Clear`, `Rebuild` | the rest of a finalize, one action per thing that another process or a kill can come between |
| `Rebuild`, `RebuildAlone` failing | `rebuild_projection` raises (the fold refuses HEAD, the file cannot be written): the projection stays as it was |
| `RebuildAlone` | the command rebuild-projection, which takes the publication lock only |
| `Edit`, `Die` | the author's editor and the kill (outside the repository) |

Abstractions, and why they are harmless:

- *A digest is the value it digests.* `stage_digest`, `workflow_digest` and `finalize_token`
  are compared as the stage, the snapshot and the stage the client has seen. `finalize_token`
  digests the content of the stage; comparing stages is the same.
- *`round`.* A transaction binds the workflow digest of its proposal, which covers the stage it
  replaces; so preparing the same batch over an open stage makes a different transaction, while
  preparing it after an archive makes the same one. `round` counts the prepares since there was
  no stage and tells exactly these apart. (The branch of prepare that answers an exact replay
  would need a transaction that binds the digest of its own stage and is never taken.)
- *Candidates* are an id, a claim and a span of exact chapter bytes: what `candidate_digest`
  (all but the id) and `semantic_claim_digest` (the claim) tell apart. They quote the manuscript
  only. A candidate has at most one case for each of the two reasons the model has: what the
  compiler asks about (`flagged`; a conflict it has confirmed, `conflicts`, can only be rewritten,
  `v3/compiler.py:385-423`) or the lineage's checkpoint (`reconsidered`).
- *Axioms.* A proposal names the desired axioms; a difference from the active ones is one case.
- *Locks.* An operation that takes the staging lock, checks, and writes one file is one step
  guarded by `lock = NoClient`. A finalize writes several and holds `lock` throughout.
- *A kill* leaves the files and frees the lock: it is an advisory lock of the operating system.

## 5a. Beside the workflow

**StableReads.** `reader` is one operation of one reader, and each of its labels one file
read, between which any action of `CanonWorkflow` may happen.

| TLA+ | Code |
|---|---|
| `Token`, `AskSnapshot` ... `CompareToken` | `_authority_read_token` and the three attempts of `workflow_snapshot`, with the reads of `_workflow_snapshot_once` in their order |
| `ReadWorkflow`, `ReadBoundProjection`, `ReadAsOf`, `Recheck` | `CanonQueryFacade._bound_snapshot` (`v3/query.py`), with `require_fresh_projection` |
| `CheckBuild`, `Install`, `CheckInstalled`, `ReadIndex`, `CheckSearch` | `rebuild_retrieval_projection`, `search_retrieval` (`v3/retrieval.py`) |
| `Capture` ... `Restore` | `refresh_contracts` with its three files and their backups (`planning_facade.py`); each write may fail, and so may each file of the restore |
| `real`, `saved` | history variables: the snapshots that the files have given since the question; whether a chapter file was saved since the token was last read |
| `lastBatch` | history variable: the batch of contracts applied last, `Mixed` when a refresh was killed or failed to restore since |

The digest in the retrieval database's metadata and the rows it holds are one value, `index.facts`:
`_database_rows` recomputes the digest from the rows it has read (`v3/retrieval.py:504-632`). What
remains to be shown of a search is that its facts are those of the HEAD it answers for
(`FactsAreOfTheirHead`).

**FactSlots.** A *slot* is what a fact is about; an effect is bound at prepare to the fact that
its slot holds before it. The claims of a batch and the effects of a chapter are sets of records
with a `place`: the code orders them by their first byte in the text, and the order matters
only within one slot. What the genesis may list is in `RowsAssumption`: the importer lists as an
obligation only what was created and is not resolved (`canonical_history.py:1492`, `:2402`), a genesis
fact is in the family of its own kind, and its slot is a digest of the row, or given in it
(`v3/genesis.py:128`), while the slot that a claim creates is a digest of its own candidate
(`v3/compiler.py:210`): no later claim creates a slot that the genesis already has.

| TLA+ | Code |
|---|---|
| `Family`, `SlotId`, `ContinuedKey` | `_fact_family`, `default_semantic_slot_id`, `claim_with_semantic_slot` |
| `FactRecords`, `ActiveFact` | `fact_record_index`, `_active_fact_slots`, genesis rows and their preference |
| `Continued`, `Accepted`, `SlotCheckpoint`, `EffectOf` | `_slot_transition_plan`, `_bind_prior_facts` |
| `Included`, `Reducible`, `MaySay` | `reduce_review`, `_validated_reduction`, `chapter_action_profile` |
| `PriorIsThere`, `HeadFolds` | `_projection_from_head` (`v3/projection.py`) |
| `LifecycleLatest`, `OpenForReaders` | the open promises and loops of `canonical_history.py` |
| `book`, `gone`, `folded`, `review` | active chapters, superseded genesis facts, the HEAD last folded, the open review |

**EntityNames.** `Registry(chapter)` is `build_approved_entity_registry`: it is folded from the
chapters before the one being prepared. `Nameable`, `Resolved`, `NameCase` are
`plan_entity_resolutions`; `Bindings` is what a published effect adds. A claim has one name.
`GenesisAssumption`: the names of a genesis entity include the one it is known by.

**AxiomRecords.** `ChangeCases` and `OverrideCases` are `_derive_cases` and
`_genesis_override_case`; `Conflicts` is `_genesis_replacement_conflicts`;
`HistoricalNegatives` and `LineageOfNext` are the refusals a proposal inherits. A record is its
value; where in which draft it is quoted is left out, but the drafts can be edited, and a
proposal whose quotes no longer hold cannot go on. The pointer alone hands down the refusals of a
proposal that was replaced: an archive of its successor takes them away too (`ArchiveRecords`), and
`RefusalIsShown` promises no more. `ReplacedTogether` speaks of replacements that change
something: where the new record is in force already, the code has no record case and the
end of the genesis axiom stands alone.

**ProjectInit.** `outer` and its `inner` are two directories, one inside the other; an init
aims at one of them. `step`, `LookForParent`, `MakeStaging`, `Build`, `Check`, `Rename`, and on
Windows `MoveAside`, `RenameMoved`, `MoveBack`, `DropAside`, are the system calls of
`init_project.py` in their order; the author makes, fills and removes directories in between.

**DurablePublish.** `names` is what processes see, `synced` what a power failure leaves of it
for sure: each name alone may stay or go. `orphans` are names that a killed writer left
unsynced; the code takes an existing name as stored (`v3/repository.py:314`), so the next writer
does not sync them for itself. That breaks a promise of the code's own comment (section 8);
`OnlyOrphansAreLost` says that these are the only names HEAD may lose.

## 6. Runs

Each run asks one question. A "pass" run finishes with no error. Every property has a mutant in
`PROJECT.json`: a change to a modelled definition, as a plausible bug would make it, under which
TLC finds the property violated.

| Run | Question | Bounds |
|---|---|---|
| `CanonStore_history` | Is the published history sound, whatever two racing, crashing publishers do, does the invariant of the proofs hold, and is it `CanonLedger`? | below |
| `CanonWorkflow_channels` | Do the two channels exclude each other, and is the whole `OneReview`? | 2 clients, both channels, 2 publications, 1 archive, 1 conflict, kills |
| `CanonWorkflow_lineage` | Can a rejected fact return under another id, span or as its own correction? | 2 ids, 2 spans, 2 publications, 2 prepares per review |
| `CanonWorkflow_revisions` | Do rejections survive revisions of earlier chapters, and reviews the prepare of another chapter? | 2 chapters, 4 publications |
| `CanonWorkflow_progress` | Is what is published what was seen, with an author and kills around, and is the staging lock always left? | 2 clients, 1 edit, 2 decisions per case, 1 conflict, kills, fairness |
| `Beside` | Do readers, facts, names, axioms, inits and the disk keep their promises? | below |
| `CanonWorkflow_recovery`, `_old_finalize`, `_archived_rejection`, `FactSlots_revealed_rule`, `FactSlots_omitted_prior`, `DurablePublish_orphan` | Violations, section 8 | as small as the counterexample allows |

Why the bounds are enough:

- *history* (`MCCanonStore`, 333,000 states): the genesis is generation 0, and a behaviour belongs
  to one of three parts. In *races* two processes with up to four transactions overtake each other
  and are killed anywhere, up to generation 3: both channels, retries, orphans, heads moved
  twice. In *line* one operation at a time runs on the latest head, killed anywhere too, with up
  to five chapter transactions and four publications. That is what it takes for a chapter that was
  dropped with a suffix to return (1, 2, 1 revised, 2), and for a revision to keep a prefix and
  drop a suffix at once (1, 2, 3, 2 revised). In *decided* one transaction gets decisions. That
  several processes do all of this at once is proved, not checked.
- *channels*: the hazards need two clients with a stale snapshot each; a third would add
  another stale reader of the same kind. Two publications let one client be a publication
  behind and a left-over stage be followed by another review.
- *lineage*: the three ways to disguise a candidate (id, span, correction) need two ids and
  two spans; whether the claim is another one makes no difference beyond equality. One client:
  races are the other runs' question.
- *revisions*: with four publications chapter 1 and 2 are published, 1 is revised (2 is
  dropped), and 2 is proposed again. Two prepares per review make a negative decision that
  comes from a replaced stage.
- *progress*: one edit is a save at any moment, `MaxRevision = 2` an amended decision.
- Symmetry (clients, ids, spans, processes) is used in runs of safety properties only.

`Beside` is one run of six systems that share nothing (`MCBeside`): `part` says which of them a
behaviour belongs to, the others stay in one state, and their states add up (about 1.18 million
in all).

| Part | States | Bounds |
|---|---|---|
| reads | 738,400 | 1 reader, 1 writing client with kills, both channels, 1 publication, 1 archive, 2 outlines, no chapter edits |
| facts | 62,400 | 6 genesis rows, 13 claims in 2 chapters, 2 per batch, 3 publications: a state with a past, a loop opened and closed in one chapter or two, a promise paid off by whom it binds and claimed to be paid off by another, a genesis promise that binds nobody by name, a rule revealed and broken, a genesis loop, a superseded axiom, a revision |
| names | 34,900 | 13 claims in 3 chapters, 2 per batch: a nickname, a namesake, a link, an alias that is taken, another namespace, two spellings |
| axioms | 64,700 | 1 axiom with 2 values, 1 genesis admission, 3 proposals, 2 of which get decisions |
| init | 154,900 | 2 inits at the same, inner or outer directory, 3 inodes, 2 acts of the author, both platforms, kills |
| disk | 124,300 | 2 publications of 3 objects, any number of kills and power failures |

The smallest chance for each hazard is inside these bounds: a reader is outrun by a publication,
an archive and a kill between any two of its reads; a batch holds both the claim that opens and
the one that closes; two inits meet on one path. `AnswerWasReal` is checked in this part with the
chapter files unchanged. Chapter files are not in the token that the snapshot reader compares, so
the property has a condition, `~saved`: no chapter was saved between the two comparisons. With one
edit of one chapter (two texts, only the snapshot reader) it holds without the condition too, over
737,000 states; with two it does not: when a stage is archived and the same batch prepared again,
and a chapter is edited and the edit undone, all between two reads of one snapshot, the token is
the old one and the answer has the stage as it was with the chapter as it was not. A caller meets
this answer again at once, as every write checks the files for itself. With the condition the
property is proved for any number of edits (section 7).

`CHECK_DEADLOCK` is on in the runs of `CanonStore` and `CanonWorkflow`, where `Look` (or
`AskInitialize`) is always possible, so that they do not show more than the liveness properties
do about waiting. It is off in `Beside` and `FactSlots_*`: the inits end there, publications and
proposals are bounded, and a review that cannot be read (section 8) leaves nothing to do.

**Fairness.** `FairSpec` of `CanonWorkflow`: the holder of the staging lock keeps running or is
killed, and a prepare that was begun ends (`WF` of its steps: these are sequential programs that
the operating system schedules). Nothing is assumed about waiting for the lock or asking, nor
about anything a human starts: a stale projection may stay stale for ever, because nobody rebuilds
it or because its HEAD cannot be folded (section 8). What holds instead is a safety property,
`NothingOnUnfoldedHead`: such a HEAD is the last one until it is folded. The mutant of
`LockIsReleased` shows that it is not true without the code's part in it. That the publication lock
is held exactly inside an operation is part of the store's `IInv`.

## 7. Proofs

Eight modules hold the theorems; none assumes more than the named assumptions of the modules
they are about (`NoProc` is no process, bounds are numbers, what a genesis may list, and the
like), but for `HeadsFold`, which has its condition in its statement. Every property that a
passing run checks is proved, but for liveness.

| Theorem | States |
|---|---|
| `StoreInvariant`, `StoreTypes` | `Spec => []IInv`, `Spec => []TypeOK` (`CanonStore`) |
| `OneLine`, `HeadNeverDangles`, `SealNeverInvalid`, `NoChapterGap`, `PublishedOnce` | `LedgerIsOneLine`, `ReachableIsStored`, `SealsValidate`, `ChaptersContiguous`, `NoDoublePublication` |
| `HistoryStays`, `SuffixIsDropped` | `HistoryIsImmutable`, `RevisionDropsSuffix` |
| `StoreIsLedger` | `CanonStore` implements `CanonLedger` |
| `WorkflowInvariant`, `ReviewInvariant` | the two inductive invariants of `CanonWorkflow` |
| `NothingIsBuiltUnfolded` | `NothingOnUnfoldedHead` |
| `NeverTwoStages`, `HeadIsNotMoved`, `ReviewersSeeHead`, `BytesAreKept`, `RejectionsLast` | `OneStage`, `StagedOnHead`, `ReviewedOnFreshProjection`, `PublishedTextIsKept`, `RejectionsAreInherited` |
| `SeenBeforePublished` | `PublishesWhatWasSeen` |
| `WorkflowTypes`, `RejectedIsKeptOut`, `ReviewIsEnded`, `ReviewStays` | `TypeOK`, `RejectedStaysOut`, `ReviewedToTheEnd`, `ReviewIsNotLost` |
| `WorkflowIsOneReview` | `CanonWorkflow` implements `OneReview` |
| `ReadersInvariant`, `SnapshotsAreReal`, `FactsBelongToHead`, `BatchIsWhole` | the invariant of `StableReads`, `AnswerWasReal`, `FactsAreOfTheirHead`, `ContractsAreWhole` |
| `ReadersOnlyRead` | `StableReads` implements `CanonWorkflow` |
| `FactsInvariant`, `SlotsStayLines`, `NothingEndsTwiceHolds`, `OwedIsPayableHolds`, `NothingEndsUnseenHolds` | the invariant of `FactSlots` and the property of each name |
| `HeadsFold` | `EveryHeadFolds`, if no chapter breaks a rule that it reveals |
| `NamesInvariant`, `NamesHaveOneBearer`, `IdentitiesAreFoundAgain`, `NamesakesAreChosen` | the invariant of `EntityNames`, `OneBearer`, `UsesStayKnown`, `OnlyChoicesMakeNamesakes` |
| `AxiomsInvariant`, `ReplacementIsAtomic`, `RefusalsComeBack` | the invariant of `AxiomRecords`, `ReplacedTogether`, `RefusalIsShown` |
| `InitInvariant`, `NeverNested`, `NothingIsLost` | the invariant of `ProjectInit`, `NoNestedProjects`, `InitLosesNothing` |
| `DurableInvariant`, `HeadSurvives` | the invariant of `DurablePublish`, `OnlyOrphansAreLost` |

**The store.** None of its safety properties is inductive alone: whether the next HEAD is valid
depends on what the process inside the lock has put before it. `IInv` therefore adds to the types
`LockGuards` (the lock is held exactly inside the with-block, so one process is in flight),
`BoundToHeads` (transactions and commits are built on HEADs that were published), `HeadsSound`
(every HEAD there ever was is valid and contiguous, not only the last) and `InFlight` (what that
process has established so far: the commit it put is the one its checks were about; the manifest
it put is valid, contiguous and the child of the HEAD that is still there). The run
`CanonStore_history` checks `IInv` itself. The argument: an object store only grows (`Grows`),
so a valid manifest stays valid (`ValidStays`); `SealCommit` and `SealManifest` build a valid
child of HEAD; only the holder of the lock swaps, so HEAD is still the parent it compared with.
`PublishedOnce` follows because the commit that a publication adds is bound to the HEAD before
it, and no two publications have the same HEAD before them.

`StoreIsLedger` maps the store to the sequence of states its HEADs show. A step that is not a
swap changes nothing of it (objects only grow, `ShownStays`). A swap is one publication
(`SwapIsPublication`), and what it publishes is new to the ledger: this takes one more inductive
invariant, `CommitsOlder`, that no commit of a published manifest was built on that manifest or
a later one, while the transaction of a new one is bound to the HEAD of now.

**The workflow.** `WorkflowInv` holds the five properties about the files together and, around
them, `Shapes` (pointers and transactions are records of their kind), `LockHeld` (whoever is
past the checks of a finalize holds the staging lock), `OnTheLast` (each publication was
prepared on the one before it), `InFlight` (between its steps the request of a finalize is still
at hand in the pointer file, was seen as ready, is on HEAD before the swap and is HEAD after it,
and its bytes are kept) and `Inherits` (a stage on HEAD holds the rejections of the publications
before it). Why each is needed: without `LockHeld` and `InFlight` a stage could be replaced
between the checks and the swap; without `OnTheLast` a left-over of a killed finalize could not
be told from a fresh stage; without `Inherits` a publication could not hand on the rejections it
is responsible for. The invariant splits into one half about files and one about clients, so
that a step is argued once for each.

`WorkflowIsOneReview` maps the two pointer files to at most one open review (`OpenReviews`):
`OneStage` makes it one, `StagedOnHead` makes it one on the latest publication, and a pointer
that is a left-over of its own publication does not count. Each action then opens, replaces,
drops or publishes that review, or is not seen.

`ReviewInv` is a second inductive invariant on top: whatever is staged or
published is `Sound`, that is, the decisions of each case form a counted chain with one last
element, only allowed actions were taken, a correction keeps its candidate's id, the batch passes
the lineage (`LineageAllows`) and exactly the reconsidered candidates have that case; what was
published was ready; the chapters of HEAD are the last publications of them; and what a client
asks or has seen has the same shape. `RejectedIsKeptOut` then goes: the rejections of earlier
publications are inherited by the stage (`RejectionsLast`); a candidate with a rejected digest is
refused by the lineage, and one with a rejected claim gets the checkpoint that cannot be omitted;
a publication is ready, so the checkpoint is decided, by an approval or by a correction, which
keeps the id under which the human saw it. `ReviewStays` is the same facts read as an action
property.

**The readers.** `ReadersInv` rests on both invariants of the workflow, and on two facts of their
steps: HEAD only grows, and the projection is only ever replaced by one of HEAD (`WritersMoveOn`).
So a reader that finds the same HEAD and the same projection twice knows that neither moved in
between. `SnapshotInv` says for each label what the pieces read so far add up to, as long as the
token still compares equal: the pointer that was read is the one that is there, or a transaction
that HEAD has gone through, which is behind HEAD (`CommittedIsBehind`). The pieces, read at once,
are the snapshot (`PiecesAreTheSnapshot`); so at the second comparison the answer is the snapshot
of some moment since the first. `~saved` is needed because of the counterexample in section 6: a
stage may come back with the same token while the chapter files are edited back and forth.
`RefreshInv` says which of the three contracts are written and that the others are as before.

**The slots.** `FactsInv` says that each chapter, published or under review, is *planned*: each of
its effects continues the last effect of its slot in the chapter, or else what holds the slot at
the end of the chapter before (`Planned`), and what continues a fact is a case (`Asked`). None of
the properties is inductive without it, as they only speak of HEAD. It is preserved because
whatever changes the chapters before a chapter drops it (a revision cuts the book; a supersession
needs an empty one), and because what is left of a batch after omissions stays planned
(`KeptPlanned`): a snapshot that would lose the effect which another one continues cannot be read,
let alone published (`Reducible`; the second violation of `FactSlots` in section 8 is the price of
this). Then `SlotsStayLines` compares the plan with the fold: the last record of the slot before
the effect is the one that was planned (`LastIs`). `NothingEndsTwiceHolds`: before an ending there
is a creation or a genesis fact, and a slot is created once, by the claim it is named after
(`CreatedOnce`), so between two endings there would have to be a second creation. `HeadsFold` is
conditional because it is false without the condition, as `FactSlots_revealed_rule` shows; the
story of `Beside` satisfies it. That choosing an active fact from the genesis rows always has an
answer, and folds of places have a last one, takes lemmas on finite sets of numbers
(`GreatestExists`, `PreferredExists`). TLC has checked `FactsInv` on the instances of `Beside`
and of both violations, and with three claims in a batch.

**The names.** `NamesInv` says that each chapter is what an approval left of a plan against the
registry of the chapters before it (`Approved`), that every identity of the registry is bound
under its own name (`SelfBound`), and that any two identities with one name have one of the
reasons that `OnlyChoicesMakeNamesakes` lists, at each chapter of the line and not only at HEAD
(`Explained`): a revision goes back to any of them. The other two properties follow from the plan.
A name that was found in the registry had one bearer there, and registries grow along the line; a
name that nobody bore is registered by its approval, so that the next chapter finds it.

**Axioms, inits, disk.** `AxiomsInv` says that the cases of a proposal are the difference between HEAD and
what it desires (`CasesFit`; so that ending a genesis axiom and bringing its successor are two
cases of one proposal, which the conflict check ties together) and that every refusal that counts
is in a commit or in the lineage of the open proposal (`RefusalsKept`). `InitInv` says that while
the staging directory of an inner project lies in the outer directory nothing can be renamed onto
that, so that what the last look at the scope saw still holds at the rename (`ScopeHolds`).
`DurableInv` says that what a surviving HEAD names, or the writer has put behind him, is synced
or an orphan, and that only the name in his hand is neither.

**Only model-checked**: liveness (`LockIsReleased`), as liveness under fairness is beyond the
prover. What the violation runs check is false of the code and has no
theorem; `HeadsFold` is the part of one of them that holds.

## 8. Where code and documents disagree

Six promises in the repository's documents and comments do not hold of its code. Each has a run that
checks the promise as a property and finds it violated.

**Recovery may be impossible** (`CanonWorkflow_recovery`, `RecoveryCanBePrepared`).
`references/canon-v3-architecture.md:127` says that a chapter whose bytes have changed is scanned
and judged anew, and the snapshot names a recovery action for every such state. In the run a
candidate is corrected on a stage, then the author edits the chapter. `prepare` still demands
the correction (`v3/service.py:2180`), a correction binds the old bytes
(`v3/source_verifier.py:98`), so no batch passes both and every re-prepare of the chapter is
refused; only archiving helps. With other constants in the same configuration the same property
shows two more such states:

- `Texts = {t1}`, `MaxEdits = 0`, `MaxRound = 1`: a correction that is itself corrected. The first
  tombstone demands the first correction, the second refuses it (`v3/service.py:1928-1969`).
- `Claims = {k1}`, `MaxChapter = 2`, `MaxHead = 2`: chapter 1 is edited while chapter 2 is staged.
  The snapshot asks to prepare chapter 1 again, prepare refuses it because of the stage
  (`v3/service.py:2157`), and a finalize of the stage refuses because of the edit.

**An old finalize may come back** (`CanonWorkflow_old_finalize`, `OldFinalizeStaysDead`).
`references/canon-v3-architecture.md:203` says that after an archive the old finalize must fail.
The token digests a stage's content and not its identity (`v3/service.py:2472`). When the same
batch is prepared again after the archive, transaction, stage digest and token are the same
ones, and a request from before the archive publishes.

**A rejection is forgotten by an archive** (`CanonWorkflow_archived_rejection`,
`RejectionSurvivesArchive`). `references/canon-v3-architecture.md:122` says that a rejection does
not disappear by preparing again. `prepare` collects rejections from the published manifests and
from the stage it replaces (`v3/service.py:2127`); those of an archived stage are in neither, and
the rejected candidate can be published without a case.

`RejectedStaysOut` and `RejectionsAreInherited` state what does hold: rejections published with
a chapter, or decided on the stage that a prepare replaces, persist.

**A published HEAD may have no projection** (`FactSlots_revealed_rule`, `EveryHeadFolds`).
`references/canon-v3-architecture.md:135` says that after the switch all derived data can be
rebuilt from the manifest. A chapter that reveals a world rule and breaks it passes prepare, which
binds the break to the revelation as its prior effect (`v3/service.py:1480`), and is published;
the fold compares the fact keys of the two, a rule and a rule violation, and refuses that HEAD
ever after (`v3/projection.py:598`). The story of `Beside` has the rule and the break in two
chapters, where the code treats them differently and `EveryHeadFolds` holds.

**A review may become unreadable** (`FactSlots_omitted_prior`, `ReviewIsReadable`).
`references/canon-v3-architecture.md:148-156` and `README.md:143-150` list what a review may be
in and what the author does then. When an effect is active whose prior effect of the same chapter
is not, `_validated_reduction` raises (`v3/service.py:2436`) and with it everything that reads the
stage: in the run the end of a loop is approved while its beginning still waits. The snapshot is
`invalid` and shows no cases, so the beginning cannot be decided any more.

**HEAD may name what is not durable** (`DurablePublish_orphan`, `CurrentAfterObjects`).
`v3/repository.py:560-561` says that CURRENT is published after all immutable objects are durable.
A writer that is killed between the rename of an object and the sync of its directory
(`v3/repository.py:214-215`) leaves a name that a power failure may still take back. The retry finds
the name, takes the object as stored (`v3/repository.py:314`) and swaps CURRENT over it; after the
power failure HEAD dangles. It takes the kill and, soon after, the power failure. The promise
does hold of every name that the publishing writer has made himself (`OnlyOrphansAreLost`).

Smaller observations, which no run states:

- `_prune_local_snapshots` (`scripts/backup_manager.py:341`) keeps the last ten snapshots by name,
  which begins with the chapter: not the oldest go, but those of the lowest chapters.
- A name nobody has registered stands for itself as it is spelled (`Resolved`). Two spellings with
  one NFKC key, both new in one batch, become two identities, though `v3/entity_registry.py:52`
  takes them for one name. `MCEntityNames` has two spellings of a registered name only, where
  `OneBearer` holds.
- The compiler refuses two effects of one slot at one byte (`v3/compiler.py:515`) before names are
  resolved, so two names of one identity pass it.
- `_merge_context` (`v3/review.py:339`) drops two digests, so that merging a case that
  has them with itself gives another case, unlike the docstring at `v3/review.py:370` and
  `scripts/data_modules/tests/test_canon_v3_review.py:139` have it. The service never merges
  cases that carry them (`v3/service.py:1545`).
- The dashboard's watcher hears of changed and created files only, not of the renames by which
  every file of canon is replaced, and a subscriber whose queue is full is dropped while its
  stream stays open (`dashboard/watcher.py:104`).
- On Windows an init moves the target out of the way before it looks what it has become
  (`scripts/init_project.py:279-297`): a directory filled in between is moved aside, not deleted.
- The identity of an axiom's case includes its operation: a value refused as an addition comes
  back unmarked as an update. The lineage of refusals is shown to the author and not enforced.

## 9. What is not modelled

- *Inside the modelled parts.* What a candidate says beyond the fields its slot and its name are
  made of; byte spans, quotes and pointers; the layout of projections, cases and previews;
  advisory and audit levels; UNBOUND cases; merged cases; v1 stages, which the code refuses;
  categories and quoted places of axioms. Chapters that cite axioms are checked against the
  axioms of their own parent HEAD (`v3/service.py:397-430`); as nothing moves HEAD from under a
  review (`StagedOnHead`), only the citation itself is left out. Two refreshes of the planning
  contracts at once are not modelled: their readers compare the batch digest. The inner path of
  `ProjectInit` is not watched on Windows. `DurablePublish` assumes that a rename is atomic and
  that a directory's sync keeps the names in it (the code goes on where a file system refuses it); the making of the directories is not modelled.
- *Compiler, schema and genesis import.* Which candidates need a case, and which of these are
  confirmed conflicts that only a rewrite answers, is any subset in `CanonWorkflow` (`flagged`,
  `conflicts`). The proofs are for all of them; `MaxConflicts` is 1 in *channels* and *progress* and 0
  in the other runs, where a case that cannot be approved adds only stages that are never published.
- *Agent protocol, write gates, hooks, command line, doctor, reports, API client.* No state of
  canon of their own.
- *Run ledger.* It records steps that no write of canon depends on; its resume plan reads the
  commit files of the retired path.
- *Backup and rollback.* A retired writer whose operations the command line all refuses
  (`scripts/data_modules/canon_ledger.py:1105`).
- *The retired v2 path*: `chapter_commit_service.py`, `human_review.py`, most of
  `canonical_history.py`, `index_manager.py`, `state_manager.py`, `rag_adapter.py`, `memory/*`,
  `archive_manager.py`, the projections and their rebuild
  (`scripts/data_modules/projection_rebuild.py:699` refuses v3). Its fact writers refuse every call
  in a v3 project, so that it has no behaviour beside the modelled one. It is most of the code:
  `canon_v3` is 16,300 of the 70,400 lines of the implementation, and most of the rest that is
  not formatting, tests' helpers or dispatch is this path.
- *The dashboard's watcher*: see section 8; no document promises what it does not do.

A save of the author between the publication proof and the swap is published unnoticed and shows
as `recompile_required` afterwards. Nothing in the program could prevent it; the model has the
interleaving, and `PublishedTextIsKept` says what is kept nonetheless.

## 10. Plan

Done: the store and its ledger, the workflow of both channels with the lineage of rejections,
readers, facts, names, axioms, project initialisation and durability; proofs of all safety
properties that a passing run checks.

Left, in this order:

1. The composition of `FactSlots` and `EntityNames`: slots named by identities, where a revision
   changes what a name stands for.
2. Refinements that are so far arguments in section 3: that the object writes of `DurablePublish`
   implement the one object write of `CanonStore`, and the steps of `CanonStore` the `Swap` of
   `CanonWorkflow`.
3. `StableReads` with chapter edits: which of them an answer may mix, once `saved` is true.

The runs grow with the modules: a question about one more component is added to the run that
already has its bounds before a new run is made.
