---------------------------- MODULE MCScanLifecycle ----------------------------
(* Instances of ScanLifecycle for TLC; the .cfg files give the constants.   *)
EXTENDS ScanLifecycle
=============================================================================
