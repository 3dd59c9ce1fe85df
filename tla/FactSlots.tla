----------------------------- MODULE FactSlots -----------------------------
(***************************************************************************)
(* Which fact a chapter replaces, ends or starts: the slots that prepare   *)
(* binds the effects of a chapter to (_slot_transition_plan and            *)
(* _bind_prior_facts of canon_v3/service.py), what a human may leave out   *)
(* of it, the projection that folds the active chapters into facts         *)
(* (_projection_from_head of canon_v3/projection.py) and the view of open  *)
(* promises that readers get (canonical_history.py).                       *)
(*                                                                         *)
(* HEAD, the pointers and the readers' races are those of CanonWorkflow    *)
(* and StableReads; here a prepare, a decision and a publication are one   *)
(* step each.  Values, wordings and evidence are left out.  The slot_id of *)
(* a fact is the tuple its hash is taken of.                               *)
(***************************************************************************)
EXTENDS Integers, Sequences, FiniteSets

CONSTANTS
    GenesisRows,    \* the certified facts of the genesis, in the order of their lists
    FactClaims,     \* what the text of each chapter may be found to say
    MaxClaims,      \* bound: claims in one batch
    MaxGenerations  \* bound: publications

ASSUME FactAssumption ==
    /\ MaxClaims \in Nat /\ MaxGenerations \in Nat
    /\ \A a \in FactClaims : a.place \in Nat
    /\ \A a, b \in FactClaims :
          a.id = b.id \/ (a.chapter = b.chapter /\ a.place = b.place) => a = b

VARIABLES
    book,        \* the active chapters at HEAD: of each the effects of its last commit,
                 \* which are ordered by the place of their claims in the text
    gone,        \* genesis facts the author has superseded by axioms
    generation,  \* the publications so far
    folded,      \* the generation the projection was folded from
    review       \* the transaction under review

factVars == <<book, gone, generation, folded, review>>

NoSlot == << >>
NoFact == [key |-> NoSlot]
NoPrior == [type |-> "none"]
NoReview == [chapter |-> 0]

\* A genesis fact may leave open whose it is.
NoSubject == ""

-----------------------------------------------------------------------------
(* Slots *)

Creating == {"promise", "loop"}
Ending == {"paid", "closed"}
Lifecycle == Creating \cup Ending
SlotControlled == {"state", "rule", "broken"} \cup Lifecycle

\* CHECKPOINT_KINDS, of the kinds modelled.
CheckpointKinds == {"state", "rule", "broken", "promise", "paid"}

\* _fact_family
Family == [state |-> "character_state", rule |-> "world_rule", broken |-> "rule_violation",
           promise |-> "promise", paid |-> "promise",
           loop |-> "open_loop", closed |-> "open_loop", presence |-> "presence_observed"]

\* default_semantic_slot_id: a state and a rule are named by their words, an
\* occurrence by the candidate itself.
DefaultSlot(c) ==
    IF c.kind = "state" THEN <<"state", c.subject, c.field>>
    ELSE IF c.kind = "rule" THEN <<"rule", c.field>>
    ELSE IF c.kind = "presence" THEN <<"presence", c.subject>>
    ELSE IF c.kind \in Ending THEN NoSlot
    ELSE <<c.kind, c.id>>

\* claim_with_semantic_slot; a broken rule copies the slot of the rule, not its own.
SlotId(c) == IF c.slot = NoSlot \/ c.kind = "broken" THEN DefaultSlot(c) ELSE c.slot

fact_key(c) == <<Family[c.kind], SlotId(c)>>

\* The genesis lists as owed only what was created and has not ended, and its slots are
\* none that a claim to come will create.
ASSUME RowsAssumption ==
    /\ \A c \in FactClaims : c.kind \in DOMAIN Family
    /\ GenesisRows \in Seq({GenesisRows[k] : k \in DOMAIN GenesisRows})
    /\ \A k \in DOMAIN GenesisRows :
          LET g == GenesisRows[k] IN
          /\ g.kind \in DOMAIN Family /\ g.key[1] = Family[g.kind]
          /\ g.rank \in Int /\ g.source \in Int
          /\ g.kind \in Lifecycle /\ g.list \in {"obligations", "hard_constraints"} =>
                g.kind \in Creating /\ ~g.resolved
          /\ \A c \in FactClaims :
                c.kind \in Creating => g.key # <<Family[c.kind], <<c.kind, c.id>>>>

\* The slot whose fact the claim continues.
ContinuedKey(c) == IF c.kind = "broken" THEN <<Family["rule"], c.slot>> ELSE fact_key(c)

-----------------------------------------------------------------------------
(* The facts at HEAD.  A digest is what tells two records apart: a commit's  *)
(* chapter and generation and the place of the effect; of a genesis fact the *)
(* row and its place in its list, which a superseded fact before it changes. *)

Position(k, superseded) ==
    Cardinality({j \in 1 .. k : /\ GenesisRows[j].list = GenesisRows[k].list
                                /\ GenesisRows[j].id \notin superseded})

\* _apply_genesis_axiom_supersessions, then the records of what is left.
GenesisRecords(superseded) ==
    {[digest |-> <<0, k, Position(k, superseded)>>, chapter |-> 0, index |-> 0,
      key |-> GenesisRows[k].key, kind |-> GenesisRows[k].kind,
      subject |-> GenesisRows[k].subject, row |-> GenesisRows[k]] :
        k \in {j \in DOMAIN GenesisRows : GenesisRows[j].id \notin superseded}}

RecordsOf(c) ==
    {[digest |-> <<c, book[c].gen, e.place>>, chapter |-> c, index |-> e.place,
      key |-> e.key, kind |-> e.kind, subject |-> e.subject] : e \in book[c].effects}

EffectRecords == UNION {RecordsOf(c) : c \in DOMAIN book}

\* fact_record_index
FactRecords == GenesisRecords(gone) \cup EffectRecords

Before(r, s) == r.chapter < s.chapter \/ (r.chapter = s.chapter /\ r.index < s.index)
Latest(R) == CHOOSE r \in R : \A s \in R \ {r} : Before(s, r)

\* The order in which the genesis rows of one slot are preferred; digests break ties.
Preferred(r, s) ==
    \/ r.row.rank < s.row.rank
    \/ r.row.rank = s.row.rank /\ r.row.source > s.row.source
    \/ r.row.rank = s.row.rank /\ r.row.source = s.row.source /\ r.digest[2] < s.digest[2]

\* A genesis row may hold its slot: promises and open loops only as obligations.
Holds(r) ==
    /\ r.kind \in Lifecycle => r.row.list \in {"obligations", "hard_constraints"}
    /\ ~r.row.resolved

ActiveInGenesis(key, genesis) ==
    LET G == {r \in genesis : r.key = key /\ Holds(r)} IN
    IF G = {} THEN NoFact ELSE CHOOSE r \in G : \A s \in G \ {r} : Preferred(r, s)

ActiveIn(key, genesis, effects) ==
    LET E == {r \in effects : r.key = key} IN
    IF E = {} THEN ActiveInGenesis(key, genesis) ELSE Latest(E)

\* Mutant: the facts of the chapter that is being revised count as its past.
ActiveFactWithin(key, chapter) == ActiveIn(key, GenesisRecords(gone), EffectRecords)

\* _active_fact_slots
ActiveFact(key, chapter) ==
    ActiveIn(key, GenesisRecords(gone), {r \in EffectRecords : r.chapter < chapter})

-----------------------------------------------------------------------------
(* Preparing a batch: a chapter and its claims.                              *)

\* The fact that a claim continues: an earlier effect of the batch, or the
\* active fact of the parent HEAD.
Continued(b, c) ==
    LET earlier == {d \in b.claims : d.place < c.place /\ fact_key(d) = ContinuedKey(c)} IN
    IF earlier # {}
    THEN LET last == CHOOSE d \in earlier : \A e \in earlier : e.place <= d.place IN
         [type |-> "effect", ref |-> last.id, kind |-> last.kind, subject |-> last.subject]
    ELSE LET f == ActiveFact(ContinuedKey(c), b.chapter) IN
         IF f = NoFact THEN NoPrior
         ELSE [type |-> "fact", ref |-> f.digest, kind |-> f.kind, subject |-> f.subject]

\* Mutant: whatever the slot holds may be paid off or closed.
AcceptedWhateverEnds(b, c) ==
    LET p == Continued(b, c)
        unknown == c.slot \notin {NoSlot, DefaultSlot(c)} IN
    /\ c.kind \in Ending => c.slot # NoSlot
    /\ c.kind \in Creating => ~unknown
    /\ p = NoPrior => c.kind \notin Ending \cup {"broken"} /\ (c.kind \in SlotControlled => ~unknown)
    /\ p # NoPrior =>
          /\ c.kind = "broken" => p.kind = "rule"
          /\ c.kind \in {"state", "promise", "paid"} => p.subject \in {NoSubject, c.subject}

\* The refusals of _slot_transition_plan.
Accepted(b, c) ==
    LET p == Continued(b, c)
        unknown == c.slot \notin {NoSlot, DefaultSlot(c)} IN
    /\ c.kind \in Ending => c.slot # NoSlot
    /\ c.kind \in Creating => ~unknown
    /\ p = NoPrior => c.kind \notin Ending \cup {"broken"} /\ (c.kind \in SlotControlled => ~unknown)
    /\ p # NoPrior =>
          /\ c.kind = "broken" => p.kind = "rule"
          /\ c.kind = "paid" => p.kind = "promise"
          /\ c.kind = "closed" => p.kind = "loop"
          /\ c.kind \in {"state", "promise", "paid"} => p.subject \in {NoSubject, c.subject}

\* A state without a past, of somebody who has other states.
NewStateOfKnownSubject(b, c) ==
    /\ c.kind = "state" /\ Continued(b, c) = NoPrior
    /\ \E r \in FactRecords :
          /\ r.kind = "state" /\ r.subject = c.subject
          /\ ActiveFact(r.key, b.chapter) = r
          /\ \A d \in b.claims : d.place < c.place => fact_key(d) # r.key

\* Mutant: only the kinds of CHECKPOINT_KINDS are shown to the author.
SlotCheckpointByKind(b, c) ==
    \/ Continued(b, c) # NoPrior /\ c.kind \in CheckpointKinds
    \/ NewStateOfKnownSubject(b, c)

\* The observations of _slot_transition_plan.
SlotCheckpoint(b, c) ==
    \/ Continued(b, c) # NoPrior /\ c.kind \in CheckpointKinds \cup Lifecycle
    \/ NewStateOfKnownSubject(b, c)

\* _build_requirement.  doubt: a reviewer's observation, or the boundary class.
CaseOf(b, c) ==
    IF c.doubt = "boundary" THEN "ambiguity"
    ELSE IF c.kind \in CheckpointKinds \/ SlotCheckpoint(b, c) THEN "checkpoint"
    ELSE IF c.doubt = "observed" THEN "ambiguity"
    ELSE "none"

\* _bind_prior_facts
EffectOf(b, c) ==
    LET p == Continued(b, c) IN
    [id |-> c.id, place |-> c.place, kind |-> c.kind, key |-> fact_key(c),
     subject |-> c.subject, case |-> CaseOf(b, c),
     prior |-> IF p = NoPrior THEN NoPrior ELSE [type |-> p.type, ref |-> p.ref]]

-----------------------------------------------------------------------------
(* The review of a transaction: r.said holds the decision in force on each   *)
(* of its cases.                                                             *)

CasesIn(r) == {e.id : e \in {f \in r.effects : f.case # "none"}}

\* chapter_action_profile
MaySay(r, id) ==
    IF \E e \in r.effects : e.id = id /\ e.case = "checkpoint" THEN {"approve", "rewrite"}
    ELSE {"approve", "omit", "correct", "rewrite"}

Said(r, what) == \E id \in DOMAIN r.said : r.said[id] = what

\* reduce_review: an effect counts unless its case is open or was decided against it.
Included(r) ==
    {e.id : e \in {f \in r.effects :
        f.case # "none" => f.id \in DOMAIN r.said /\ r.said[f.id] = "approve"}}

\* Mutant: what an effect continues may be left out.
ReducibleAnyway(r) == TRUE

\* _validated_reduction: otherwise it raises, and so does everything that calls it.
Reducible(r) ==
    \A e \in r.effects :
        e.id \in Included(r) /\ e.prior.type = "effect" => e.prior.ref \in Included(r)

\* The state that workflow_snapshot shows.
ReviewStatus ==
    IF ~Reducible(review) THEN "invalid"
    ELSE IF Said(review, "rewrite") THEN "rewrite_required"
    ELSE IF Said(review, "correct") THEN "recompile_required"
    ELSE IF CasesIn(review) \ DOMAIN review.said # {} THEN "awaiting_human"
    ELSE "ready_to_finalize"

\* Without a readable snapshot nobody knows the digest of the stage.
Reviewing == review # NoReview
Shown == Reviewing => ReviewStatus # "invalid"

-----------------------------------------------------------------------------
(* The view of readers: canonical_history.py *)

\* lifecycle_latest_index: the last promise, loop or end of one in each slot.
LifecycleLatest(asof) ==
    LET rows == {r \in EffectRecords : r.chapter <= asof /\ r.kind \in Lifecycle} IN
    {r \in rows : \A s \in rows : s.key = r.key => ~Before(r, s)}

GenesisObligations ==
    {g \in GenesisRecords(gone) :
        g.kind \in Creating /\ g.row.list \in {"obligations", "hard_constraints"}}

\* Mutant: a genesis obligation is shown until a chapter creates its slot anew.
OpenForReadersToo(asof) ==
    {r.key : r \in {s \in LifecycleLatest(asof) : s.kind \in Creating} \cup GenesisObligations}

\* _load_v3_history: the obligations as of a chapter.
OpenForReaders(asof) ==
    {r.key : r \in {s \in LifecycleLatest(asof) : s.kind \in Creating}
                   \cup {g \in GenesisObligations :
                           \A s \in EffectRecords : s.chapter <= asof => s.key # g.key}}

-----------------------------------------------------------------------------
(* Folding *)

\* The priors that _projection_from_head looks up.
PriorIsThere(facts, c, e) ==
    /\ e.prior.type = "fact" =>
          \E r \in facts : r.digest = e.prior.ref /\ r.chapter < c
    /\ e.prior.type = "effect" =>
          \E f \in book[c].effects : f.place < e.place /\ f.id = e.prior.ref /\ f.key = e.key

HeadFolds ==
    LET facts == FactRecords IN
    \A c \in DOMAIN book : \A e \in book[c].effects : PriorIsThere(facts, c, e)

\* rebuild_projection, after a publication.
RebuildFacts == folded' = IF HeadFolds' THEN generation' ELSE folded

-----------------------------------------------------------------------------
FactsInit ==
    /\ book = << >> /\ gone = {}
    /\ generation = 0 /\ folded = 0
    /\ review = NoReview

\* The batches for a chapter: some of what its text may say.
Batches(chapter) ==
    {[chapter |-> chapter, claims |-> C] :
        C \in {D \in SUBSET {c \in FactClaims : c.chapter = chapter} :
                  IsFiniteSet(D) /\ Cardinality(D) \in 1 .. MaxClaims}}

\* prepare, on a HEAD that folds.  One that replaces a review of its chapter leads where
\* an archive and a prepare lead.
PrepareFacts ==
    /\ ~Reviewing /\ generation < MaxGenerations
    /\ HeadFolds /\ folded = generation
    /\ \E chapter \in 1 .. Len(book) + 1 : \E b \in Batches(chapter) :
          /\ \A c \in b.claims : Accepted(b, c)
          /\ review' = [chapter |-> chapter, said |-> << >>,
                        effects |-> {EffectOf(b, c) : c \in b.claims}]
    /\ UNCHANGED <<book, gone, generation, folded>>

\* record_decisions: some of the cases, decided or amended in one request.
DecideFacts ==
    /\ Reviewing /\ Shown
    /\ \E S \in SUBSET CasesIn(review) \ {{}} :
       \E d \in [S -> {"approve", "omit", "correct", "rewrite"}] :
          /\ \A id \in S : d[id] \in MaySay(review, id)
          /\ review' = [review EXCEPT !.said =
                           [id \in DOMAIN @ \cup S |-> IF id \in S THEN d[id] ELSE @[id]]]
    /\ UNCHANGED <<book, gone, generation, folded>>

ArchiveFacts ==
    /\ Reviewing /\ Shown
    /\ review' = NoReview
    /\ UNCHANGED <<book, gone, generation, folded>>

\* finalize: the chapter with its included effects; later chapters leave the manifest.
PublishFacts ==
    /\ Reviewing /\ ReviewStatus = "ready_to_finalize"
    /\ generation' = generation + 1
    /\ book' = Append(SubSeq(book, 1, review.chapter - 1),
                      [gen |-> generation + 1,
                       effects |-> {e \in review.effects : e.id \in Included(review)}])
    /\ review' = NoReview
    /\ UNCHANGED gone
    /\ RebuildFacts

\* The axiom channel supersedes a certified fact of the genesis.
Supersede(k) ==
    /\ ~Reviewing /\ generation < MaxGenerations /\ folded = generation
    /\ book = << >>
    /\ GenesisRows[k].axiom /\ GenesisRows[k].id \notin gone
    /\ gone' = gone \cup {GenesisRows[k].id}
    /\ generation' = generation + 1
    /\ UNCHANGED <<book, review>>
    /\ RebuildFacts

FactsNext ==
    \/ PrepareFacts
    \/ DecideFacts
    \/ ArchiveFacts
    \/ PublishFacts
    \/ \E k \in DOMAIN GenesisRows : Supersede(k)

FactsSpec == FactsInit /\ [][FactsNext]_factVars

-----------------------------------------------------------------------------
(* Properties.  A review does not change what is published, so that what is said of a *)
(* published HEAD is said while no review is open.                                    *)

\* The projection of every published HEAD can be folded: each effect finds the exact
\* fact it continues, whatever was omitted, revised or superseded since prepare bound
\* it.  projection.py raises otherwise, and HEAD then has no projection for good.
EveryHeadFolds == ~Reviewing => HeadFolds

\* The facts of one slot are one line: an effect continues the very fact that the
\* fold of HEAD has before it, and only the first one of a slot continues none.
SlotsAreLines ==
    LET genesis == GenesisRecords(gone)
        effects == EffectRecords IN
    ~Reviewing => \A c \in DOMAIN book : \A e \in book[c].effects :
        LET before == {r \in effects : r.chapter < c \/ (r.chapter = c /\ r.index < e.place)}
            last == ActiveIn(e.key, genesis, before) IN
        e.kind # "broken" =>
            IF last = NoFact THEN e.prior = NoPrior
            ELSE IF last.chapter = c
                 THEN \E f \in book[c].effects :
                         f.place = last.index /\ e.prior = [type |-> "effect", ref |-> f.id]
            ELSE e.prior = [type |-> "fact", ref |-> last.digest]

\* A promise is paid off and an open loop closed at most once at every HEAD, after it was
\* made, and a promise only by whom it binds, in whatever chapters, revisions and order.
NothingEndsTwice ==
    LET effects == EffectRecords IN
    ~Reviewing => \A r \in effects : r.kind \in Ending =>
        /\ \A s \in effects : s.key = r.key /\ s.kind \in Ending => s = r
        /\ \E s \in effects \cup GenesisRecords(gone) :
              /\ s.key = r.key /\ s.kind \in Creating /\ Before(s, r)
              /\ r.kind = "paid" => s.kind = "promise" /\ s.subject \in {NoSubject, r.subject}

\* What a reader is told is still owed after a chapter is what the next chapter may
\* pay off or close: the two are computed by different code from different records.
OwedIsPayable ==
    LET genesis == GenesisRecords(gone)
        keys == {r.key : r \in FactRecords} IN
    ~Reviewing => \A asof \in 1 .. Len(book) :
        LET past == {r \in EffectRecords : r.chapter <= asof}
            payable(key) == LET f == ActiveIn(key, genesis, past) IN
                            f # NoFact /\ f.kind \in Creating IN
        OpenForReaders(asof) = {key \in keys : payable(key)}

\* No effect ends or replaces a fact of an earlier chapter unless the author has seen
\* and approved it; only where somebody is changes without being asked for.
NothingEndsUnseen ==
    [][ Reviewing /\ generation' # generation =>
          \A e \in book'[review.chapter].effects :
             e.prior # NoPrior /\ e.kind # "presence" =>
                e.id \in DOMAIN review.said /\ review.said[e.id] = "approve" ]_factVars

\* A review that is open can be read: workflow_snapshot shows its cases, so that the
\* author can decide them, in whatever order.
ReviewIsReadable == Shown
=============================================================================
