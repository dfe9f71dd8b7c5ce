--------------------------- MODULE MCSerialPhase ---------------------------
(***************************************************************************)
(* A relayer under observation, and two at the gate: time in steps of 10 s,*)
(* the default gate of 2 minutes polled every 30 s.                        *)
(***************************************************************************)
EXTENDS SerialPhase

CONSTANTS r1, r2
MCRelayers == {r1, r2}
=============================================================================
