--------------------------- MODULE MCConfirmations ---------------------------
(* Confirmations on a small instance: the bot asks one question, the script  *)
(* another.                                                                  *)
EXTENDS Confirmations

CONSTANTS signal, drill

AskedBy == [p \in {Bot, Script} |-> IF p = Bot THEN {signal} ELSE {drill}]
==============================================================================
