-------------------------- MODULE MCGovernedWorkQueue --------------------------
(* Instances of GovernedWorkQueue for TLC.                                  *)
EXTENDS GovernedWorkQueue, TLC

\* Users, items and keys are each interchangeable.
Symmetry == Permutations(Actors) \cup Permutations(Sources) \cup Permutations(Keys)
=============================================================================
