------------------------------ MODULE MCRelay --------------------------------
(* OutboxRelay on small instances; the cfgs give every constant its value.   *)
EXTENDS OutboxRelay, TLC

RelaySymmetry == Permutations(Dispatchers)
==============================================================================
