-------------------------- MODULE MCContinuousAssurance --------------------------
(* Instances of ContinuousAssurance for TLC.                                *)
EXTENDS ContinuousAssurance
=============================================================================
