-------------------------------- MODULE MCOutbox --------------------------------
(* Instances of Outbox for TLC.                                             *)
EXTENDS Outbox
=============================================================================
