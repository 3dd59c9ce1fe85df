---------------------------- MODULE MCCanonStore ----------------------------
(***************************************************************************)
(* Small instances of CanonStore, each a part of its behaviours:           *)
(*   races     processes that overtake each other and are killed anywhere, *)
(*             up to three publications;                                   *)
(*   line      one operation at a time on the latest head, killed anywhere *)
(*             too, up to four publications: chapters that are dropped and *)
(*             come back, revisions in the middle of the line;             *)
(*   decided   decisions are put and published, one publication.           *)
(***************************************************************************)
EXTENDS CanonStore, TLC

VARIABLE part

Symmetry == Permutations(Procs)

Asked == {req[p] : p \in {q \in Procs : req[q].kind = "seal"}}
SealsUpTo(n) == \A r \in Asked : manifests[r.txn.parent].gen < n

Races ==
    decisions = {} /\ Cardinality(txns) <= 4 /\ SealsUpTo(3)
Line ==
    /\ decisions = {}
    /\ Cardinality({p \in Procs : pc[p] # "idle"}) <= 1
    /\ \A t \in txns : t.channel = "chapter"
Decided ==
    Cardinality(txns) <= 1 /\ SealsUpTo(1)

Within == CASE part = "races" -> Races
            [] part = "line" -> Line
            [] part = "decided" -> Decided

PartInit == Init /\ part \in {"races", "line", "decided"}
PartNext ==
    /\ Next /\ UNCHANGED part
    /\ Within'
    /\ part = "line" => \A t \in txns' \ txns : t.parent = current
PartSpec == PartInit /\ [][PartNext]_<<part, vars>>
=============================================================================
