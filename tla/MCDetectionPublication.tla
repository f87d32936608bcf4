-------------------------- MODULE MCDetectionPublication --------------------------
(* Instances of DetectionPublication for TLC.                               *)
EXTENDS DetectionPublication
=============================================================================
