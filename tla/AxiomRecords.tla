---------------------------- MODULE AxiomRecords ----------------------------
(***************************************************************************)
(* What an author decides about her axioms (canon_v3/author_axiom.py): the *)
(* cases between the active records and the desired ones, the genesis      *)
(* axioms they replace, the decisions, and what a publication makes of     *)
(* them.                                                                   *)
(*                                                                         *)
(* CanonWorkflow has the channel's pointer, locks, retries and kills; here *)
(* a prepare, a request of decisions and a publication are one step each,  *)
(* so that an open proposal is always on HEAD.  A record is its value: its *)
(* category and where in which draft it is quoted are left out.            *)
(***************************************************************************)
EXTENDS Naturals, Sequences

CONSTANTS
    AxiomKeys, AxiomValues,
    Admissions,         \* the certified axioms of the genesis
    MaxProposals,       \* bound: proposals ever prepared
    MaxAnswered         \* bound: those of them that get decisions

ASSUME AxiomAssumption == MaxProposals \in Nat /\ MaxAnswered \in Nat

VARIABLES
    axiomCommits,   \* the axiom commits of HEAD: the last one is active
    chaptered,      \* has HEAD a chapter?
    drafts,         \* what the author's drafts say of each key
    proposal,       \* the axiom transaction under review, with its decisions
    refused,        \* history: what stood refused when it was published, or when it was
                    \* replaced and no archive since
    proposals       \* the proposals so far

axiomVars == <<axiomCommits, chaptered, drafts, proposal, refused, proposals>>

NoKey == "no key"
NoValue == "no value"
NoProposal == [cases |-> {}]
Proposing == proposal # NoProposal

NoCommit == [records |-> [k \in AxiomKeys |-> NoValue], superseded |-> {},
             lineage |-> {}, negatives |-> {}]
ActiveCommit == IF axiomCommits = << >> THEN NoCommit ELSE axiomCommits[Len(axiomCommits)]

\* active_records and _superseded_genesis_admission_digests
ActiveRecords == ActiveCommit.records
Superseded == ActiveCommit.superseded

-----------------------------------------------------------------------------
(* Cases.  A case is its target: the operation, what it is about, and the    *)
(* semantic record: the new one, or the old one of a removal.                *)

\* _derive_cases, _case_for
ChangeCases(prior, desired) ==
    {[op |-> CASE prior[k] = NoValue -> "add"
               [] desired[k] = NoValue -> "remove"
               [] OTHER -> "update",
      of |-> k, key |-> k,
      value |-> IF desired[k] = NoValue THEN prior[k] ELSE desired[k]] :
        k \in {j \in AxiomKeys : prior[j] # desired[j]}}

\* _genesis_override_case: replacements names the axiom that takes the place of an
\* admission, or none.
OverrideCases(desired, replacements) ==
    {[op |-> "supersede", of |-> g, key |-> replacements[g],
      value |-> IF replacements[g] = NoKey THEN NoValue ELSE desired[replacements[g]]] :
        g \in DOMAIN replacements}

HasRecord(c) == c.op # "remove" /\ c.key # NoKey

\* _verify_record: the drafts still say what the cases propose.
DraftsHold(cases) == \A c \in cases : HasRecord(c) => drafts[c.key] = c.value

-----------------------------------------------------------------------------
(* Decisions: the action in force on each decided case.                      *)

DecidedOf(p) == DOMAIN p.decided
Approved(p) == {c \in DecidedOf(p) : p.decided[c] = "approve"}
Refusals == {"omit", "rewrite"}
StandsRefused(p) == {c \in DecidedOf(p) : p.decided[c] \in Refusals}

\* _active_after_decisions
ActiveAfter(p) ==
    [k \in AxiomKeys |->
        IF \E c \in Approved(p) : HasRecord(c) /\ c.key = k THEN p.desired[k]
        ELSE IF \E c \in Approved(p) : c.op = "remove" /\ c.key = k THEN NoValue
        ELSE ActiveRecords[k]]

\* _superseded_after_decisions
SupersededAfter(p) == Superseded \cup {c.of : c \in {d \in Approved(p) : d.op = "supersede"}}

\* Mutant: an author who decides both cases knows what she does.
NoConflicts(p) == {}

\* _genesis_replacement_conflicts: a genesis axiom goes exactly if the record that
\* replaces it, where that one changes, comes.
Conflicts(p) ==
    {c \in DecidedOf(p) :
        /\ c.op = "supersede" /\ c.key # NoKey
        /\ LET related == {d \in p.cases : d.key = c.key /\ d.op \in {"add", "update"}} IN
           /\ related # {} /\ related \subseteq DecidedOf(p)
           /\ (c \in Approved(p)) # (related \subseteq Approved(p))}

\* status
AxiomStatus ==
    IF \E c \in DecidedOf(proposal) : proposal.decided[c] = "rewrite" THEN "rewrite_required"
    ELSE IF DecidedOf(proposal) # proposal.cases \/ Conflicts(proposal) # {} THEN "awaiting_human"
    ELSE "ready_to_finalize"

-----------------------------------------------------------------------------
(* The lineage of refusals                                                   *)

\* Mutant: a commit tells of its own decisions only.
NegativesOfCommits == UNION {axiomCommits[i].negatives : i \in DOMAIN axiomCommits}

\* _historical_negative_decisions: of every commit of HEAD; also those that were
\* amended later.
HistoricalNegatives ==
    UNION {axiomCommits[i].lineage \cup axiomCommits[i].negatives : i \in DOMAIN axiomCommits}

\* A proposal that replaces one inherits its refusals too.
LineageOfNext ==
    HistoricalNegatives \cup IF Proposing THEN proposal.lineage \cup proposal.negatives ELSE {}

\* _negative_lineage_matches: is the case shown as refused before?
ShownAsRefused(p, c) == c \in p.lineage

-----------------------------------------------------------------------------
AxiomsInit ==
    /\ axiomCommits = << >> /\ chaptered = FALSE
    /\ drafts = [k \in AxiomKeys |-> NoValue]
    /\ proposal = NoProposal
    /\ refused = [published |-> {}, replaced |-> {}]
    /\ proposals = 0

\* The author's editor.
EditDraft(k, v) ==
    /\ drafts[k] # v
    /\ drafts' = [drafts EXCEPT ![k] = v]
    /\ UNCHANGED <<axiomCommits, chaptered, proposal, refused, proposals>>

\* prepare.  The same transaction once more changes nothing.
PrepareRecords(desired, replacements) ==
    LET cases == ChangeCases(ActiveRecords, desired) \cup OverrideCases(desired, replacements) IN
    /\ proposals < MaxProposals /\ proposals' = proposals + 1
    /\ replacements # << >> => ~chaptered
    /\ DOMAIN replacements \cap Superseded = {}
    /\ \A g \in DOMAIN replacements :
          replacements[g] # NoKey => desired[replacements[g]] # NoValue
    /\ cases # {} /\ DraftsHold(cases)
    /\ Proposing => <<desired, cases>> # <<proposal.desired, proposal.cases>>
    /\ proposal' = [desired |-> desired, cases |-> cases, decided |-> << >>,
                    negatives |-> {}, lineage |-> LineageOfNext]
    /\ refused' = IF Proposing THEN [refused EXCEPT !.replaced = @ \cup StandsRefused(proposal)]
                  ELSE refused
    /\ UNCHANGED <<axiomCommits, chaptered, drafts>>

\* record_decisions: some cases, decided or amended in one request.
DecideRecords(d) ==
    /\ Proposing /\ proposals <= MaxAnswered
    /\ DraftsHold(proposal.cases)
    /\ proposal' = [proposal EXCEPT
          !.decided = [c \in DOMAIN @ \cup DOMAIN d |-> IF c \in DOMAIN d THEN d[c] ELSE @[c]],
          !.negatives = @ \cup {c \in DOMAIN d : d[c] \in Refusals}]
    /\ UNCHANGED <<axiomCommits, chaptered, drafts, refused, proposals>>

\* archive_staging
ArchiveRecords ==
    /\ Proposing
    /\ proposal' = NoProposal
    /\ refused' = [refused EXCEPT !.replaced = {}]
    /\ UNCHANGED <<axiomCommits, chaptered, drafts, proposals>>

\* finalize, with the publication proof.
FinalizeRecords ==
    /\ Proposing /\ AxiomStatus = "ready_to_finalize"
    /\ DraftsHold(proposal.cases)
    /\ SupersededAfter(proposal) # Superseded => ~chaptered
    /\ axiomCommits' = Append(axiomCommits,
          [records |-> ActiveAfter(proposal), superseded |-> SupersededAfter(proposal),
           lineage |-> proposal.lineage, negatives |-> proposal.negatives])
    /\ proposal' = NoProposal
    /\ refused' = [published |-> refused.published \cup refused.replaced
                                 \cup StandsRefused(proposal),
                   replaced |-> {}]
    /\ UNCHANGED <<chaptered, drafts, proposals>>

\* The chapter channel publishes; it waits for an open proposal.
PublishFirstChapter ==
    /\ ~Proposing /\ ~chaptered
    /\ chaptered' = TRUE
    /\ UNCHANGED <<axiomCommits, drafts, proposal, refused, proposals>>

AxiomsNext ==
    \/ \E k \in AxiomKeys, v \in AxiomValues \cup {NoValue} : EditDraft(k, v)
    \/ \E desired \in [AxiomKeys -> AxiomValues \cup {NoValue}], G \in SUBSET Admissions :
          \E replacements \in [G -> AxiomKeys \cup {NoKey}] : PrepareRecords(desired, replacements)
    \/ \E C \in SUBSET proposal.cases \ {{}} :
          \E d \in [C -> {"approve", "omit", "rewrite"}] : DecideRecords(d)
    \/ ArchiveRecords
    \/ FinalizeRecords
    \/ PublishFirstChapter

AxiomsSpec == AxiomsInit /\ [][AxiomsNext]_axiomVars

-----------------------------------------------------------------------------
(* Properties *)

\* Replacing a genesis axiom is all or nothing, although the author decides its end
\* and the new record as two cases, in any order, amended in several requests: never
\* are both active, and never is neither.
ReplacedTogether ==
    [][ axiomCommits' # axiomCommits =>
          \A c \in {d \in proposal.cases : d.op = "supersede" /\ HasRecord(d)} :
             ActiveRecords[c.key] # c.value =>
                (c.of \in Superseded' <=> ActiveRecords'[c.key] = c.value) ]_axiomVars

\* A refusal is put before the author again whenever the very same change is proposed
\* again: one that was published for good; one of a proposal that was replaced until a
\* proposal that came after it is archived.  The pointer alone hands it down, so that an
\* archive also takes away the refusals of proposals that were replaced, never archived.
RefusalIsShown ==
    Proposing => \A c \in proposal.cases \cap (refused.published \cup refused.replaced) :
                   ShownAsRefused(proposal, c)
=============================================================================
