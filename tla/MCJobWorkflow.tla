---- MODULE MCJobWorkflow ----
(* JobWorkflow on small sets for TLC. *)
EXTENDS JobWorkflow, TLC

(* No operator tells one submission, retry, cancellation or workflow id    *)
(* from another.                                                           *)
Symmetry == Permutations(Submitters) \cup Permutations(Retriers)
              \cup Permutations(Cancellers) \cup Permutations(Workflows)
====
