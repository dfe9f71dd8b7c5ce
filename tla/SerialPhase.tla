----------------------------- MODULE SerialPhase -----------------------------
(***************************************************************************)
(* The serial phase and the gate behind it, scripts/runners/               *)
(* base-parallel-runner.js: run() awaits the serial files, one of which    *)
(* observes a relayer whose message may crash it                           *)
(* (Proofgen_NilProof_DestRelayerCrashLoop.ts), and then the recovery of   *)
(* the relayers.  A failed serial phase ends the run before the gate.      *)
(***************************************************************************)
EXTENDS CrashObserverProps, RelayerRecovery

everything == <<vars, gateVars>>

\* Nobody asks for the uptimes while serial files run.
SerialInit ==
  /\ Init
  /\ uptime = [r \in Relayers |-> NotRunning]
  /\ gate = "serial" /\ timer = 0 /\ blind = FALSE /\ faults = 0

\* The relayer, while the test watches it, and the test.
Watching == gate = "serial" /\ Next /\ UNCHANGED gateVars

\* The test has asserted that no crash was counted.  The serial files before and
\* after it restart relayers too, so the uptimes the gate meets are any.
SerialPasses ==
  /\ gate = "serial" /\ pc = "done" /\ crashCount = 0
  /\ uptime' \in [Relayers -> Uptimes \cup {NotRunning}]
  /\ gate' = "closed"
  /\ UNCHANGED <<vars, timer, blind, faults>>

Recovering == gate # "serial" /\ GateNext /\ UNCHANGED vars

SerialNext == Watching \/ SerialPasses \/ Recovering

SerialSpec ==
  /\ SerialInit /\ [][SerialNext]_everything
  /\ WF_everything(gate = "serial" /\ Observer /\ UNCHANGED gateVars)
  /\ WF_everything(SerialPasses)
  /\ WF_everything(Poll /\ UNCHANGED vars) /\ WF_everything(Elapse /\ UNCHANGED vars)

=============================================================================
