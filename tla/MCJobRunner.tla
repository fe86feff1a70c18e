---- MODULE MCJobRunner ----
(* JobRunner on small sets for TLC. *)
EXTENDS JobRunner, TLC

(* Runners differ in nothing but their name. *)
Symmetry == Permutations(Runners) \cup Permutations(Cancellers)
====
