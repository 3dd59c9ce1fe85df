----------------------------- MODULE OneReview -----------------------------
(***************************************************************************)
(* What the Canon v3 workflow promises: one transaction at a time is under *)
(* review, opened on the latest publication, and it is what gets published *)
(* next or nothing is (canon_v3/service.py and author_axiom.py, read       *)
(* without their files, locks, channels and crashes).                      *)
(***************************************************************************)
EXTENDS Integers, Sequences

VARIABLES
    open,       \* the transaction under review: at most one
    published   \* what has been published, in order

OnLatest(o) == o.parent = Len(published)

Init == open = {} /\ published = << >>

\* prepare: opens a review or replaces the one that is open.
Open ==
    /\ \E o \in open' : open' = {o} /\ OnLatest(o)
    /\ UNCHANGED published

\* archive_staging
Drop == open # {} /\ open' = {} /\ UNCHANGED published

\* finalize: the open transaction as it stands.
Publish ==
    \E o \in open :
        /\ OnLatest(o)
        /\ published' = Append(published, o.reviewed)
        /\ open' = {}

Next == Open \/ Drop \/ Publish

Spec == Init /\ [][Next]_<<open, published>>
=============================================================================
