---- MODULE MCScannerJob ----
(* ScannerJob on small sets for TLC. *)
EXTENDS ScannerJob, TLC

(* Starters, resumers and pausers differ in nothing but their names. *)
Symmetry ==
    Permutations(Starters) \cup Permutations(Resumers) \cup Permutations(Pausers)
====
