------------------------- MODULE AxiomRecordsProofs -------------------------
(* The author's axioms, for every set of keys, values and admissions. *)
EXTENDS AxiomRecords, TLAPS

Shaped(p) ==
    p = [desired |-> p.desired, cases |-> p.cases, decided |-> p.decided,
         negatives |-> p.negatives, lineage |-> p.lineage]

\* The cases of a proposal are those between HEAD and what it desires; an admission
\* has one at most, and the record that replaces it is desired.
CasesFit(p) ==
    /\ {c \in p.cases : c.op # "supersede"} = ChangeCases(ActiveRecords, p.desired)
    /\ \A c \in p.cases : c.op = "supersede" =>
          /\ c.of \notin Superseded
          /\ HasRecord(c) =>
                c.key \in AxiomKeys /\ c.value = p.desired[c.key] /\ c.value # NoValue
    /\ \A c, d \in p.cases : c.op = "supersede" /\ d.op = "supersede" /\ c.of = d.of => c = d

\* Every refusal that has to come up again is kept by HEAD, or by the proposal.
RefusalsKept(p) ==
    /\ StandsRefused(p) \subseteq p.negatives
    /\ HistoricalNegatives \cup refused.replaced \subseteq p.lineage

AxiomsInv ==
    /\ axiomCommits \in Seq({axiomCommits[i] : i \in DOMAIN axiomCommits})
    /\ refused = [published |-> refused.published, replaced |-> refused.replaced]
    /\ refused.published \subseteq HistoricalNegatives
    /\ IF Proposing
       THEN Shaped(proposal) /\ CasesFit(proposal) /\ RefusalsKept(proposal)
            /\ DecidedOf(proposal) \subseteq proposal.cases
       ELSE refused.replaced = {}

LEMMA AxiomsInitHolds == AxiomsInit => AxiomsInv
BY DEF AxiomsInit, AxiomsInv, Proposing, HistoricalNegatives

\* HEAD with its axiom commits stays.
LEMMA HeadStays ==
    ASSUME UNCHANGED axiomCommits
    PROVE  UNCHANGED <<ActiveRecords, Superseded, HistoricalNegatives>>
BY DEF ActiveRecords, Superseded, ActiveCommit, HistoricalNegatives

LEMMA PrepareKeepsInv ==
    ASSUME AxiomsInv,
           NEW desired, NEW G \in SUBSET Admissions,
           NEW replacements \in [G -> AxiomKeys \cup {NoKey}],
           PrepareRecords(desired, replacements)
    PROVE  AxiomsInv'
<1> DEFINE cases == ChangeCases(ActiveRecords, desired) \cup OverrideCases(desired, replacements)
<1>1. /\ proposal' = [desired |-> desired, cases |-> cases, decided |-> << >>,
                      negatives |-> {}, lineage |-> LineageOfNext]
      /\ cases # {} /\ UNCHANGED axiomCommits
      /\ DOMAIN replacements \cap Superseded = {}
      /\ \A g \in DOMAIN replacements :
            replacements[g] # NoKey => desired[replacements[g]] # NoValue
      /\ refused' = IF Proposing
                    THEN [refused EXCEPT !.replaced = @ \cup StandsRefused(proposal)]
                    ELSE refused
  BY DEF PrepareRecords
<1> HIDE DEF cases
<1>2. UNCHANGED <<ActiveRecords, Superseded, HistoricalNegatives>> BY <1>1, HeadStays
<1>3. Proposing' BY <1>1 DEF Proposing, NoProposal
<1>4. Shaped(proposal)' BY <1>1 DEF Shaped
<1>5. CasesFit(proposal)'
  <2>1. {c \in cases : c.op # "supersede"} = ChangeCases(ActiveRecords, desired)
    BY DEF cases, ChangeCases, OverrideCases
  <2>2. ASSUME NEW c \in cases, c.op = "supersede"
        PROVE  /\ c.of \in DOMAIN replacements /\ c.key = replacements[c.of]
               /\ c.value = IF c.key = NoKey THEN NoValue ELSE desired[c.key]
               /\ c = [op |-> "supersede", of |-> c.of, key |-> c.key, value |-> c.value]
    BY <2>2 DEF cases, ChangeCases, OverrideCases
  <2>3. \A c \in cases : c.op = "supersede" =>
           /\ c.of \notin Superseded
           /\ HasRecord(c) => c.key \in AxiomKeys /\ c.value = desired[c.key] /\ c.value # NoValue
    BY <1>1, <2>2 DEF HasRecord
  <2>4. \A c, d \in cases : c.op = "supersede" /\ d.op = "supersede" /\ c.of = d.of => c = d
    BY <2>2
  <2>5. proposal'.cases = cases /\ proposal'.desired = desired BY <1>1
  <2>6. QED BY <1>2, <2>1, <2>3, <2>4, <2>5 DEF CasesFit
<1>6. RefusalsKept(proposal)' /\ (DecidedOf(proposal) \subseteq proposal.cases)'
  <2>1. (DecidedOf(proposal) = {})' /\ (StandsRefused(proposal) = {})'
    BY <1>1 DEF DecidedOf, StandsRefused
  <2>2. HistoricalNegatives \cup refused'.replaced \subseteq LineageOfNext
    BY <1>1 DEF LineageOfNext, AxiomsInv, RefusalsKept
  <2>3. QED BY <1>1, <1>2, <2>1, <2>2 DEF RefusalsKept
<1>7. refused' = [published |-> refused'.published, replaced |-> refused'.replaced]
      /\ refused'.published = refused.published
  BY <1>1 DEF AxiomsInv
<1>8. QED BY <1>1, <1>2, <1>3, <1>4, <1>5, <1>6, <1>7 DEF AxiomsInv

LEMMA DecideKeepsInv ==
    ASSUME AxiomsInv, NEW C \in SUBSET proposal.cases,
           NEW d \in [C -> {"approve", "omit", "rewrite"}], DecideRecords(d)
    PROVE  AxiomsInv'
<1> DEFINE decided == [c \in DOMAIN proposal.decided \cup DOMAIN d |->
                          IF c \in DOMAIN d THEN d[c] ELSE proposal.decided[c]]
           negatives == proposal.negatives \cup {c \in DOMAIN d : d[c] \in Refusals}
<1>1. /\ Proposing /\ UNCHANGED <<axiomCommits, refused>>
      /\ proposal' = [desired |-> proposal.desired, cases |-> proposal.cases,
                      decided |-> decided, negatives |-> negatives,
                      lineage |-> proposal.lineage]
  BY DEF DecideRecords, AxiomsInv, Shaped
<1> HIDE DEF decided, negatives
<1>2. UNCHANGED <<ActiveRecords, Superseded, HistoricalNegatives>> BY <1>1, HeadStays
<1>3. DOMAIN decided = DecidedOf(proposal) \cup C
      /\ {c \in DOMAIN decided : decided[c] \in Refusals} \subseteq negatives
  BY <1>1 DEF decided, negatives, DecidedOf, AxiomsInv, RefusalsKept, StandsRefused
<1>4. Proposing'
  BY <1>1 DEF Proposing, NoProposal
<1>5. CasesFit(proposal)' BY <1>1, <1>2 DEF AxiomsInv, CasesFit
<1>6. RefusalsKept(proposal)' /\ (DecidedOf(proposal) \subseteq proposal.cases)'
  BY <1>1, <1>2, <1>3 DEF AxiomsInv, RefusalsKept, StandsRefused, DecidedOf
<1>7. QED BY <1>1, <1>2, <1>4, <1>5, <1>6 DEF AxiomsInv, Shaped

\* A sequence and one more.
LEMMA OneLonger ==
    ASSUME NEW S, NEW s \in Seq(S), NEW x, NEW t, t = Append(s, x)
    PROVE  /\ Len(s) \in Nat /\ Len(t) = Len(s) + 1 /\ t # << >> /\ t[Len(t)] = x
           /\ DOMAIN t = (1 .. Len(s)) \cup {Len(s) + 1} /\ DOMAIN s = 1 .. Len(s)
           /\ \A i \in 1 .. Len(s) : t[i] = s[i]
           /\ t[Len(s) + 1] = x
           /\ t \in Seq({t[i] : i \in DOMAIN t})
<1>1. t \in Seq(S \cup {x}) OBVIOUS
<1>2. /\ Len(s) \in Nat /\ Len(t) = Len(s) + 1 /\ t # << >> /\ t[Len(t)] = x
      /\ DOMAIN t = 1 .. Len(s) + 1 /\ DOMAIN s = 1 .. Len(s)
      /\ \A i \in 1 .. Len(s) : t[i] = s[i]
  OBVIOUS
<1>3. t \in Seq({t[i] : i \in DOMAIN t}) BY <1>1
<1>4. 1 .. Len(s) + 1 = (1 .. Len(s)) \cup {Len(s) + 1} BY <1>2
<1>5. QED BY <1>2, <1>3, <1>4

\* One more commit is the active one.
LEMMA OneMoreCommit ==
    ASSUME axiomCommits \in Seq({axiomCommits[i] : i \in DOMAIN axiomCommits}),
           NEW r, axiomCommits' = Append(axiomCommits, r)
    PROVE  /\ axiomCommits' \in Seq({axiomCommits'[i] : i \in DOMAIN axiomCommits'})
           /\ ActiveRecords' = r.records /\ Superseded' = r.superseded
           /\ HistoricalNegatives' = HistoricalNegatives \cup r.lineage \cup r.negatives
<1> DEFINE n == Len(axiomCommits)
<1>1. /\ axiomCommits' \in Seq({axiomCommits'[i] : i \in DOMAIN axiomCommits'})
      /\ axiomCommits' # << >> /\ axiomCommits'[Len(axiomCommits')] = r
      /\ DOMAIN axiomCommits' = (1 .. n) \cup {n + 1} /\ DOMAIN axiomCommits = 1 .. n
      /\ axiomCommits'[n + 1] = r /\ \A i \in 1 .. n : axiomCommits'[i] = axiomCommits[i]
  BY OneLonger
<1>2. ActiveCommit' = r BY <1>1 DEF ActiveCommit
<1> HIDE DEF n
<1>3. HistoricalNegatives' = HistoricalNegatives \cup r.lineage \cup r.negatives
  BY <1>1 DEF HistoricalNegatives
<1>4. QED BY <1>1, <1>2, <1>3 DEF ActiveRecords, Superseded

LEMMA FinalizeKeepsInv ==
    ASSUME AxiomsInv, FinalizeRecords
    PROVE  /\ AxiomsInv'
           /\ ActiveRecords' = ActiveAfter(proposal)
           /\ Superseded' = SupersededAfter(proposal)
<1> DEFINE r == [records |-> ActiveAfter(proposal), superseded |-> SupersededAfter(proposal),
                 lineage |-> proposal.lineage, negatives |-> proposal.negatives]
<1>1. /\ Proposing /\ axiomCommits' = Append(axiomCommits, r) /\ proposal' = NoProposal
      /\ refused' = [published |-> refused.published \cup refused.replaced
                                   \cup StandsRefused(proposal), replaced |-> {}]
  BY DEF FinalizeRecords
<1>2. /\ r.records = ActiveAfter(proposal) /\ r.superseded = SupersededAfter(proposal)
      /\ r.lineage = proposal.lineage /\ r.negatives = proposal.negatives
  OBVIOUS
<1> HIDE DEF r
<1>3. /\ axiomCommits' \in Seq({axiomCommits'[i] : i \in DOMAIN axiomCommits'})
      /\ ActiveRecords' = r.records /\ Superseded' = r.superseded
      /\ HistoricalNegatives' = HistoricalNegatives \cup r.lineage \cup r.negatives
  BY <1>1, OneMoreCommit DEF AxiomsInv
<1>4. ~Proposing' BY <1>1 DEF Proposing
<1>5. refused'.published \subseteq HistoricalNegatives'
  BY <1>1, <1>2, <1>3 DEF AxiomsInv, RefusalsKept
<1>6. QED BY <1>1, <1>2, <1>3, <1>4, <1>5 DEF AxiomsInv

LEMMA AxiomsStepHolds == AxiomsInv /\ [AxiomsNext]_axiomVars => AxiomsInv'
<1> SUFFICES ASSUME AxiomsInv, [AxiomsNext]_axiomVars PROVE AxiomsInv'
  OBVIOUS
<1>1. CASE UNCHANGED <<axiomCommits, proposal, refused>>
  BY <1>1, HeadStays DEF AxiomsInv, Shaped, CasesFit, RefusalsKept, StandsRefused,
     DecidedOf, Proposing
<1>2. ASSUME NEW k \in AxiomKeys, NEW v \in AxiomValues \cup {NoValue}, EditDraft(k, v)
      PROVE  AxiomsInv'
  BY <1>1, <1>2 DEF EditDraft
<1>3. ASSUME NEW desired \in [AxiomKeys -> AxiomValues \cup {NoValue}],
             NEW G \in SUBSET Admissions, NEW replacements \in [G -> AxiomKeys \cup {NoKey}],
             PrepareRecords(desired, replacements)
      PROVE  AxiomsInv'
  BY <1>3, PrepareKeepsInv
<1>4. ASSUME NEW C \in SUBSET proposal.cases \ {{}},
             NEW d \in [C -> {"approve", "omit", "rewrite"}], DecideRecords(d)
      PROVE  AxiomsInv'
  BY <1>4, DecideKeepsInv
<1>5. CASE ArchiveRecords
  BY <1>5, HeadStays DEF ArchiveRecords, AxiomsInv, Proposing
<1>6. CASE FinalizeRecords BY <1>6, FinalizeKeepsInv
<1>7. CASE PublishFirstChapter BY <1>1, <1>7 DEF PublishFirstChapter
<1>8. CASE UNCHANGED axiomVars BY <1>1, <1>8 DEF axiomVars
<1>9. QED BY <1>2, <1>3, <1>4, <1>5, <1>6, <1>7, <1>8 DEF AxiomsNext

\* Whatever is proposed, decided, amended, replaced, archived and published, AxiomsInv
\* holds.
THEOREM AxiomsInvariant == AxiomsSpec => []AxiomsInv
BY AxiomsInitHolds, AxiomsStepHolds, PTL DEF AxiomsSpec

\* A refusal is shown with the same change when that is proposed again: one of HEAD's line
\* for good, one of a proposal that was replaced until a later proposal is archived.
THEOREM RefusalsComeBack == AxiomsSpec => []RefusalIsShown
<1>1. AxiomsInv => RefusalIsShown
  BY DEF AxiomsInv, RefusalsKept, RefusalIsShown, ShownAsRefused
<1>2. QED BY <1>1, AxiomsInvariant, PTL

-----------------------------------------------------------------------------
(* Replacements                                                              *)

\* What a proposal that is ready makes of a genesis axiom and of its replacement.
LEMMA ReplacesOrKeeps ==
    ASSUME AxiomsInv, Proposing, AxiomStatus = "ready_to_finalize",
           NEW c \in proposal.cases, c.op = "supersede", HasRecord(c),
           ActiveRecords[c.key] # c.value
    PROVE  c.of \in SupersededAfter(proposal) <=> ActiveAfter(proposal)[c.key] = c.value
<1> DEFINE k == c.key
<1>1. /\ c.of \notin Superseded /\ k \in AxiomKeys /\ c.value = proposal.desired[k]
      /\ c.value # NoValue /\ k # NoKey
  BY DEF AxiomsInv, CasesFit, HasRecord
<1>2. DecidedOf(proposal) = proposal.cases /\ Conflicts(proposal) = {}
  BY DEF AxiomStatus
<1>3. PICK e \in proposal.cases : e.key = k /\ e.op \in {"add", "update"}
  <2> DEFINE e == [op |-> IF ActiveRecords[k] = NoValue THEN "add" ELSE "update",
                   of |-> k, key |-> k, value |-> proposal.desired[k]]
  <2>1. e \in ChangeCases(ActiveRecords, proposal.desired) BY <1>1 DEF ChangeCases
  <2>2. QED BY <2>1 DEF AxiomsInv, CasesFit
<1>4. \A d \in proposal.cases :
         d.op # "supersede" /\ d.key = k => d.op \in {"add", "update"}
  <2>1. \A d \in ChangeCases(ActiveRecords, proposal.desired) :
            d.key = k => d.op \in {"add", "update"}
    BY <1>1 DEF ChangeCases
  <2>2. QED BY <2>1 DEF AxiomsInv, CasesFit
<1> DEFINE related == {d \in proposal.cases : d.key = k /\ d.op \in {"add", "update"}}
<1>5. \A d \in proposal.cases : d.op = "supersede" /\ d.key = k =>
         (d \in Approved(proposal) <=> related \subseteq Approved(proposal))
  BY <1>1, <1>2, <1>3 DEF Conflicts
<1>6. \A d, f \in related : d = f
  <2>1. \A d, f \in ChangeCases(ActiveRecords, proposal.desired) : d.key = k /\ f.key = k => d = f
    BY DEF ChangeCases
  <2>2. QED BY <2>1 DEF AxiomsInv, CasesFit
<1>7. c.of \in SupersededAfter(proposal) <=> c \in Approved(proposal)
  BY <1>1, <1>2 DEF SupersededAfter, AxiomsInv, CasesFit, Approved
<1>8. (\E d \in Approved(proposal) : HasRecord(d) /\ d.key = k) <=> c \in Approved(proposal)
  <2>1. Approved(proposal) \subseteq proposal.cases BY <1>2 DEF Approved
  <2>2. ASSUME NEW d \in Approved(proposal), HasRecord(d), d.key = k
        PROVE  c \in Approved(proposal)
    <3>1. CASE d.op = "supersede" BY <1>5, <2>1, <2>2, <3>1
    <3>2. CASE d.op # "supersede"
      <4>1. d \in related BY <1>4, <2>1, <2>2, <3>2
      <4>2. related \subseteq Approved(proposal) BY <1>6, <2>2, <4>1
      <4>3. QED BY <1>5, <4>2
    <3>3. QED BY <3>1, <3>2
  <2>3. QED BY <2>2
<1>9. ~\E d \in Approved(proposal) : d.op = "remove" /\ d.key = k
  BY <1>2, <1>4 DEF Approved
<1>10. ActiveAfter(proposal)[k] =
          IF \E d \in Approved(proposal) : HasRecord(d) /\ d.key = k
          THEN proposal.desired[k] ELSE ActiveRecords[k]
  BY <1>1, <1>9 DEF ActiveAfter
<1>11. QED BY <1>1, <1>7, <1>8, <1>10

\* Only finalize publishes.
LEMMA OnlyFinalizePublishes ==
    [AxiomsNext]_axiomVars /\ axiomCommits' # axiomCommits => FinalizeRecords
BY DEF AxiomsNext, axiomVars, EditDraft, PrepareRecords, DecideRecords, ArchiveRecords,
   PublishFirstChapter

\* A genesis axiom goes exactly if the changed record that replaces it comes.
THEOREM ReplacementIsAtomic == AxiomsSpec => ReplacedTogether
<1> DEFINE Together ==
        axiomCommits' # axiomCommits =>
          \A c \in {d \in proposal.cases : d.op = "supersede" /\ HasRecord(d)} :
             ActiveRecords[c.key] # c.value =>
                (c.of \in Superseded' <=> ActiveRecords'[c.key] = c.value)
<1>1. AxiomsInv /\ [AxiomsNext]_axiomVars => Together
  <2> SUFFICES ASSUME AxiomsInv, [AxiomsNext]_axiomVars, axiomCommits' # axiomCommits,
                      NEW c \in proposal.cases, c.op = "supersede", HasRecord(c),
                      ActiveRecords[c.key] # c.value
               PROVE  c.of \in Superseded' <=> ActiveRecords'[c.key] = c.value
    OBVIOUS
  <2>1. FinalizeRecords BY OnlyFinalizePublishes
  <2>2. Proposing /\ AxiomStatus = "ready_to_finalize" BY <2>1 DEF FinalizeRecords
  <2>3. ActiveRecords' = ActiveAfter(proposal) /\ Superseded' = SupersededAfter(proposal)
    BY <2>1, FinalizeKeepsInv
  <2>4. QED BY <2>2, <2>3, ReplacesOrKeeps
<1>2. QED BY <1>1, AxiomsInvariant, PTL DEF AxiomsSpec, ReplacedTogether
=============================================================================
