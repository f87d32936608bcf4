------------------------ MODULE MCScheduledExecution ------------------------
(* Instances of ScheduledExecution for TLC.                                 *)
EXTENDS ScheduledExecution, TLC

\* Workers are interchangeable, and so are authorization decisions: sound for
\* invariants and action properties, not used in the liveness runs.
Symmetry == Permutations(Workers) \cup Permutations(Auths)
=============================================================================
