----------------------------- MODULE MCExecution -----------------------------
(* ExecutionCore on small instances; the cfgs give every constant its value. *)
EXTENDS ExecutionCore, TLC

WorkerSymmetry == Permutations(Workers)
==============================================================================
