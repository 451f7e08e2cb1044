----------------------------- MODULE MCSession -------------------------------
(* Mt5Session on a small instance; the cfgs give every constant its value.   *)
EXTENDS Mt5Session
==============================================================================
