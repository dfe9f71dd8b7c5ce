--------------------------- MODULE CrashObserver ---------------------------
(***************************************************************************)
(* observeRelayerCrashLoop() (test/test-utils/resilience-helpers.ts): one  *)
(* async function that probes a relayer, restarts its container when it is *)
(* confirmed down, and counts crashes, while the relayer crashes, boots    *)
(* and delivers at any moment between two of its awaits.                   *)
(*                                                                         *)
(* A probe is FaultInjector.isAlive(): FALSE when the process does not     *)
(* answer, and also when a live one answers too late.  A crashed process   *)
(* is frozen by the debugger and stays down until its container restarts.  *)
(***************************************************************************)
EXTENDS Naturals

CONSTANTS
  ConfirmProbes,     \* opts.confirmProbes
  CrashLoopConfirm,  \* opts.crashLoopConfirm
  Deadline, PollGap, ConfirmGap, RecoveryWait,  \* the delays, in ticks
  MaxSlow,           \* how many probes in a row a live relayer may answer late
  MaxCrashes         \* bound: crashes of the relayer

ASSUME ProbesAssumption == ConfirmProbes \in Nat \ {0} /\ CrashLoopConfirm \in Nat \ {0}
ASSUME DelaysAssumption ==
  /\ Deadline \in Nat /\ ConfirmGap \in Nat
  /\ PollGap \in Nat \ {0} /\ RecoveryWait \in Nat \ {0}
ASSUME EnvironmentAssumption == MaxSlow \in Nat /\ MaxCrashes \in Nat

VARIABLES
  pc,          \* where the observer is: its next await
  failed,      \* failed probes of the confirmation in progress
  prevAlive, crashCount, restarts, delivered,
  waited,      \* polls of the waitUntilAlive() in progress
  clock,       \* ticks spent in delays
  proc,        \* the relayer: up, frozen by a crash, stopped, or booting
  landed,      \* the awaited side effect has happened
  slow,        \* late answers in a row
  crashes,     \* history: crashes of the relayer
  lost         \* history: restarts that never answered within RecoveryWait

observer == <<pc, failed, prevAlive, crashCount, restarts, delivered, waited, clock, lost>>
environment == <<proc, landed, slow, crashes>>
vars == <<observer, environment>>

Init ==
  /\ pc = "probe" /\ failed = 0 /\ prevAlive = TRUE
  /\ crashCount = 0 /\ restarts = 0 /\ delivered = FALSE
  /\ waited = 0 /\ clock = 0 /\ lost = 0
  /\ proc \in {"up", "frozen"} /\ crashes = (IF proc = "up" THEN 0 ELSE 1)
  /\ landed \in BOOLEAN /\ slow = 0

(***************************************************************************)
(* isAlive()                                                               *)
(***************************************************************************)
AnswersTrue  == proc = "up" /\ slow' = 0
AnswersFalse ==
  \/ proc # "up" /\ slow' = 0
  \/ proc = "up" /\ slow < MaxSlow /\ slow' = slow + 1

(***************************************************************************)
(* confirmedDown() and the crash counter.                                  *)
(***************************************************************************)
ProbeAlive ==
  /\ pc = "probe" /\ AnswersTrue
  /\ prevAlive' = TRUE /\ failed' = 0
  /\ pc' = "check"
  /\ UNCHANGED <<crashCount, restarts, delivered, waited, clock, lost,
                 proc, landed, crashes>>

\* Mutant: one failed probe is enough.
FirstProbe == TRUE

LastProbe == failed = ConfirmProbes - 1

ProbeFails ==
  /\ pc = "probe" /\ AnswersFalse /\ ~LastProbe
  /\ failed' = failed + 1
  /\ clock' = clock + ConfirmGap
  /\ UNCHANGED <<pc, prevAlive, crashCount, restarts, delivered, waited, lost,
                 proc, landed, crashes>>

\* Mutant: prevAlive is assigned before it is tested.
CountedAfterUpdate == FALSE

Counted == prevAlive

ConfirmDown ==
  /\ pc = "probe" /\ AnswersFalse /\ LastProbe
  /\ crashCount' = IF Counted THEN crashCount + 1 ELSE crashCount
  /\ prevAlive' = FALSE /\ failed' = 0
  /\ pc' = "restart"
  /\ UNCHANGED <<restarts, delivered, waited, clock, lost, proc, landed, crashes>>

(***************************************************************************)
(* compose.restart(): docker compose stop, then docker start (or up when   *)
(* the container does not exist).  Either may throw, and start is not      *)
(* tried when stop threw; the catch goes on to the delivery check.         *)
(***************************************************************************)
RestartWorks ==
  /\ pc = "restart"
  /\ proc' = "booting" /\ restarts' = restarts + 1
  /\ waited' = 0
  /\ pc' = "wait"
  /\ UNCHANGED <<failed, prevAlive, crashCount, delivered, clock, lost,
                 landed, slow, crashes>>

RestartFails ==
  /\ pc = "restart"
  /\ proc' \in {proc, "stopped"}
  /\ pc' = "check"
  /\ UNCHANGED <<failed, prevAlive, crashCount, restarts, delivered, waited, clock, lost,
                 landed, slow, crashes>>

(***************************************************************************)
(* waitUntilAlive(recoveryWaitMs): a probe, then a delay of one tick.      *)
(***************************************************************************)
WaitAnswered ==
  /\ pc = "wait" /\ AnswersTrue
  /\ prevAlive' = TRUE
  /\ clock' = clock + waited
  /\ pc' = "check"
  /\ UNCHANGED <<failed, crashCount, restarts, delivered, waited, lost,
                 proc, landed, crashes>>

\* Mutant: the deadline is computed anew before every probe.
PolledAnew == 0

Polled == waited + 1

WaitPolls ==
  /\ pc = "wait" /\ AnswersFalse /\ Polled < RecoveryWait
  /\ waited' = Polled
  /\ UNCHANGED <<pc, failed, prevAlive, crashCount, restarts, delivered, clock, lost,
                 proc, landed, crashes>>

WaitTimesOut ==
  /\ pc = "wait" /\ AnswersFalse /\ Polled >= RecoveryWait
  /\ lost' = lost + 1
  /\ clock' = clock + RecoveryWait
  /\ pc' = "check"
  /\ UNCHANGED <<failed, prevAlive, crashCount, restarts, delivered, waited,
                 proc, landed, crashes>>

(***************************************************************************)
(* The delivery check, the two early exits, the poll delay and the loop's  *)
(* deadline.                                                               *)
(***************************************************************************)
Decided(seen) == (seen /\ crashCount = 0) \/ crashCount >= CrashLoopConfirm

CheckDelivered ==
  /\ pc = "check"
  /\ delivered' = (delivered \/ landed)
  /\ IF Decided(delivered')
       THEN pc' = "done" /\ UNCHANGED clock
       ELSE /\ clock' = clock + PollGap
            /\ pc' = IF clock' < Deadline THEN "probe" ELSE "done"
  /\ UNCHANGED <<failed, prevAlive, crashCount, restarts, waited, lost, environment>>

Observer ==
  \/ ProbeAlive \/ ProbeFails \/ ConfirmDown
  \/ RestartWorks \/ RestartFails
  \/ WaitAnswered \/ WaitPolls \/ WaitTimesOut
  \/ CheckDelivered

(***************************************************************************)
(* The relayer and its container.                                          *)
(***************************************************************************)
Boots ==
  /\ proc = "booting" /\ proc' = "up"
  /\ UNCHANGED <<observer, landed, slow, crashes>>

Crash ==
  /\ proc \in {"up", "booting"} /\ crashes < MaxCrashes
  /\ proc' = "frozen" /\ crashes' = crashes + 1
  /\ UNCHANGED <<observer, landed, slow>>

Deliver ==
  /\ proc = "up" /\ ~landed /\ landed' = TRUE
  /\ UNCHANGED <<observer, proc, slow, crashes>>

Next == Observer \/ Boots \/ Crash \/ Deliver

Spec == Init /\ [][Next]_vars

\* Every await of the observer settles: probes and docker calls have timeouts.
FairSpec == Spec /\ WF_vars(Observer)

=============================================================================
