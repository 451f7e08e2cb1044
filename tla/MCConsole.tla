----------------------------- MODULE MCConsole -------------------------------
(* Console on a small instance; the cfg gives every constant its value.      *)
EXTENDS Console
==============================================================================
