------------------------------ MODULE Mt5Codes -------------------------------
(***************************************************************************)
(* infrastructure/broker/mt5_errors.py: what the return code of order_send *)
(* and the filled part of the volume say about the order.  "LISTED" stands *)
(* for the keys of REJECT_CODES, which differ only in their wording, and   *)
(* "UNLISTED" for the codes the file does not name.                        *)
(***************************************************************************)
\* The codes after which nobody knows whether the server took the order.
Unclear == {"REQUEST_ERROR", "REQUEST_TIMEOUT", "REQUEST_LOCKED",
            "ORDER_FROZEN", "CONNECTION"}

\* Mutant of IsAmbiguous: one code is missing from the table.
IsAmbiguousButTimeout(code) == code \in Unclear \ {"REQUEST_TIMEOUT"}

\* is_ambiguous: AMBIGUOUS_RETCODES are just those.
IsAmbiguous(code) == code \in Unclear

Done == {"DONE", "DONE_PARTIAL"}

\* resolve_state, for the codes build_result does not raise; filled is none,
\* part or all of the requested volume.
ResolveState(code, filled) ==
    CASE code = "PLACED"                  -> "SUBMITTED"
      [] code \in Done /\ filled = "none" -> "SUBMITTED"
      [] code \in Done /\ filled = "part" -> "PARTIALLY_FILLED"
      [] code \in Done /\ filled = "all"  -> "FILLED"
      [] OTHER                            -> "REJECTED"

\* What order_send may answer about an order in a state of the server's: an
\* ambiguous code about any, otherwise a code that goes with the state.
Retcodes(state) ==
    [code : Unclear, filled : {"none"}] \cup
    (CASE state = "SUBMITTED"        -> [code : Done \cup {"PLACED"}, filled : {"none"}]
       [] state = "PARTIALLY_FILLED" -> [code : Done, filled : {"part"}]
       [] state = "FILLED"           -> [code : Done, filled : {"all"}]
       [] state = "REJECTED"         -> [code : {"LISTED", "UNLISTED"}, filled : {"none"}]
       [] OTHER                      -> {})
==============================================================================
