---------------------------- MODULE MCCallService ----------------------------
(* Instances of the call service for model checking: two hosts, two         *)
(* sessions, and nonces enough for a duplicate to meet a fresh request.     *)
EXTENDS CallService, TLC
=============================================================================
