-------------------------- MODULE MCCanonWorkflow --------------------------
(* Small instances of CanonWorkflow. *)
EXTENDS CanonWorkflow, TLC

\* Nothing tells clients, candidate ids or spans of text apart but equality.
Symmetry == Permutations(Clients) \cup Permutations(Ids) \cup Permutations(Spans)
=============================================================================
