---------------------------- MODULE CanonLedger ----------------------------
(***************************************************************************)
(* What Canon v3 promises: the facts of a novel as a sequence of published *)
(* states (src/scripts/data_modules/canon_v3/repository.py, read without   *)
(* its locks, objects and crashes).                                        *)
(*                                                                         *)
(* Each state names the transaction that is canon for every chapter from   *)
(* 1 to the last, and the author-axiom transactions published so far.      *)
(* Publishing is one atomic step that takes a prepared transaction, never  *)
(* rewrites an earlier state and never publishes a transaction again.      *)
(***************************************************************************)
EXTENDS Integers, Sequences

VARIABLES
    prepared,   \* the transactions compiled so far
    published   \* the states CURRENT has named, in order

Latest == published[Len(published)]

Canonical(state) ==
    {state.chapters[c] : c \in DOMAIN state.chapters}
      \cup {state.axioms[i] : i \in DOMAIN state.axioms}

EverCanonical == UNION {Canonical(published[i]) : i \in DOMAIN published}

Init == prepared = {} /\ published = << >>

Prepare ==
    /\ prepared \subseteq prepared'
    /\ UNCHANGED published

\* initialize_new_project: the genesis state, once.
Initialize ==
    /\ published = << >>
    /\ published' = << [chapters |-> << >>, axioms |-> << >>] >>
    /\ UNCHANGED prepared

\* Publishing a chapter: the next one, or a revision that drops what follows.
PublishChapter(t) ==
    /\ published # << >>
    /\ t.channel = "chapter" /\ t \notin EverCanonical
    /\ t.chapter = 1 \/ t.chapter - 1 \in DOMAIN Latest.chapters
    /\ published' = Append(published,
         [chapters |-> [c \in {d \in DOMAIN Latest.chapters : d < t.chapter} \cup {t.chapter} |->
                          IF c = t.chapter THEN t ELSE Latest.chapters[c]],
          axioms |-> Latest.axioms])
    /\ UNCHANGED prepared

\* Publishing an author axiom: appended, whatever the chapters are.
PublishAxiom(t) ==
    /\ published # << >>
    /\ t.channel = "axiom" /\ t \notin EverCanonical
    /\ published' = Append(published,
         [chapters |-> Latest.chapters, axioms |-> Append(Latest.axioms, t)])
    /\ UNCHANGED prepared

Next ==
    \/ Prepare
    \/ Initialize
    \/ \E t \in prepared : PublishChapter(t) \/ PublishAxiom(t)

Spec == Init /\ [][Next]_<<prepared, published>>
=============================================================================
