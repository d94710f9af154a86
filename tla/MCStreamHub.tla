---------------------------- MODULE MCStreamHub ----------------------------
(* Instances of StreamHub for TLC. *)
EXTENDS StreamHub
=============================================================================
