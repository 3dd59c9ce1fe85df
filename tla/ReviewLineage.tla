--------------------------- MODULE ReviewLineage ---------------------------
(***************************************************************************)
(* The candidates of a chapter, the human decisions on them, and the       *)
(* lineage of rejections a later proposal is held to: reduce_review of     *)
(* canon_v3/review.py and the lineage rules of canon_v3/service.py.        *)
(*                                                                         *)
(* A candidate fact has a candidate_id, a claim and the evidence for it: a *)
(* span of the exact bytes (text) of its chapter.  candidate_digest leaves *)
(* the id out; semantic_claim_digest leaves the evidence out as well.      *)
(***************************************************************************)
EXTENDS Integers, FiniteSets

CONSTANTS Ids, Claims, Spans,
          Texts,        \* what the file of a chapter may hold
          MaxRevision   \* bound: decisions ever taken on one case of a stage

Candidate == [id : Ids, claim : Claims, text : Texts, span : Spans]
candidate_digest(c) == <<c.claim, c.text, c.span>>
semantic_claim_digest(c) == c.claim

\* What a batch proposes for a chapter with these bytes: every candidate quotes
\* them (verify_all_candidate_sources), at most one per id and per digest.
WellFormed(cands, text) ==
    /\ \A c \in cands : c.text = text
    /\ \A c, d \in cands :
          c.id = d.id \/ candidate_digest(c) = candidate_digest(d) => c = d

\* A decision on a candidate's case.  fix is the corrected candidate, or the
\* candidate itself for every other action.
Actions == {"approve", "omit", "correct", "rewrite"}
Decision == [cand : Candidate, rev : 1 .. MaxRevision, act : Actions, fix : Candidate]

\* The decisions that outlive their stage.
Negative == {"omit", "correct", "rewrite"}

-----------------------------------------------------------------------------
(* The review of one prepared transaction t: t.flagged are the candidates a *)
(* reviewer's observation holds up, t.conflicts those of them for which it  *)
(* is a CONFIRMED_CONFLICT and not an AMBIGUITY, t.reconsidered the ones    *)
(* the lineage puts under a CHECKPOINT.                                     *)

Cases(t) == t.flagged \cup t.reconsidered

\* chapter_action_profile: a conflict is rewritten, a checkpoint cannot be omitted or
\* corrected away.
AllowedActions(t, c) ==
    IF c \in t.conflicts THEN {"rewrite"}
    ELSE IF c \in t.reconsidered THEN {"approve", "rewrite"} ELSE Actions

\* _current_decisions: of each case's chain, the last revision is in force.
DecisionHeads(decs) ==
    {d \in decs : \A e \in decs : e.cand = d.cand => e.rev <= d.rev}

Decided(decs, c) == \E d \in decs : d.cand = c
Acted(decs, act) == \E d \in DecisionHeads(decs) : d.act = act

\* Mutant: a case nobody decided does not hold the transaction up.
ReviewStateUndecided(t, decs) ==
    IF Acted(decs, "rewrite") \/ t.conflicts # {} THEN "rewrite_required"
    ELSE IF Acted(decs, "correct") THEN "recompile_required"
    ELSE "ready_to_finalize"

\* reduce_review and _build_snapshot.  A conflict asks for a rewrite, decided or not.
ReviewState(t, decs) ==
    IF Acted(decs, "rewrite") \/ t.conflicts # {} THEN "rewrite_required"
    ELSE IF Acted(decs, "correct") THEN "recompile_required"
    ELSE IF \E c \in Cases(t) : ~Decided(decs, c) THEN "awaiting_human"
    ELSE "ready_to_finalize"

\* The candidates whose effects a ready transaction publishes.
ActiveCandidates(t, decs) ==
    {c \in t.cands : ~\E d \in DecisionHeads(decs) : d.cand = c /\ d.act = "omit"}

\* The corrected candidates a re-prepare of the chapter has to bring.
Corrections(decs) == {d.fix : d \in {e \in DecisionHeads(decs) : e.act = "correct"}}

\* Mutant: revisions count from 0.
NextDecisionFromZero(decs, c, act, fix) ==
    [cand |-> c, act |-> act, fix |-> fix, rev |-> Cardinality({d \in decs : d.cand = c})]

\* make_decision: the next decision of c's chain.
NextDecision(decs, c, act, fix) ==
    [cand |-> c, act |-> act, fix |-> fix,
     rev |-> 1 + Cardinality({d \in decs : d.cand = c})]

-----------------------------------------------------------------------------
(* Lineage: the negative decisions of a chapter, each bound to the exact    *)
(* bytes of the chapter it was taken on.                                    *)

\* _negative_head_hashes.
NegativeHeads(t, decs) ==
    {[chapter |-> t.chapter, text |-> t.text, cand |-> d.cand, act |-> d.act, fix |-> d.fix] :
        d \in {e \in DecisionHeads(decs) : e.act \in Negative}}

Binding(lineage, chapter, text) ==
    {n \in lineage : n.chapter = chapter /\ n.text = text}

\* _enforce_negative_lineage, the refusals.
LineageAllows(lineage, chapter, text, cands) ==
    \A n \in Binding(lineage, chapter, text) :
        /\ \A c \in cands : candidate_digest(c) # candidate_digest(n.cand)
        /\ n.act # "rewrite"
        /\ n.act = "correct" =>
              \E c \in cands : c.id = n.cand.id /\ candidate_digest(c) = candidate_digest(n.fix)

\* Mutant: the omitted claim is looked for under its old candidate_id only.
ReconsideredById(lineage, chapter, text, cands) ==
    {c \in cands : \E n \in Binding(lineage, chapter, text) :
        n.act = "omit" /\ c.id = n.cand.id /\ c.claim = n.cand.claim}

\* _enforce_negative_lineage, the checkpoints: the claim of an omitted candidate
\* under another span or another id.
Reconsidered(lineage, chapter, text, cands) ==
    {c \in cands : \E n \in Binding(lineage, chapter, text) :
        n.act = "omit" /\ semantic_claim_digest(c) = semantic_claim_digest(n.cand)}
=============================================================================
