--------------------------- MODULE MCPinSchedule ---------------------------
(***************************************************************************)
(* Instances of PinSchedule: every choice of supports over few inputs.     *)
(***************************************************************************)
EXTENDS PinSchedule
=============================================================================
