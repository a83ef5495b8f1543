---------------------------- MODULE MCProxyLoop ----------------------------
(* Instances of the request loop for model checking. *)
EXTENDS ProxyLoop, TLC
=============================================================================
