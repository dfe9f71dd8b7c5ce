------------------------ MODULE RelayerHealthProofs ------------------------
(***************************************************************************)
(* The suite judges a relayer from the outside in two ways: by probing it  *)
(* while faults are injected (CrashObserver), and by reading how long      *)
(* docker says it has been up before the parallel phase (RelayerRecovery). *)
(* What each verdict is worth, for every budget, delay and granularity of  *)
(* time.                                                                   *)
(***************************************************************************)
EXTENDS CrashObserverProps, RelayerRecovery, TLAPS

-----------------------------------------------------------------------------
(***************************************************************************)
(* The crash counter.                                                      *)
(***************************************************************************)

\* While prevAlive holds the last counted crash is behind the relayer, so when
\* it is not up it has crashed anew; and when it is up, the failed probes of
\* the confirmation in progress were answered late.
CountInv ==
  /\ crashCount <= crashes
  /\ prevAlive /\ proc # "up" => proc = "frozen" /\ crashCount < crashes
  /\ prevAlive /\ proc = "up" => failed <= slow
  /\ pc # "probe" => failed = 0

\* Without a counted crash nothing was repaired.
ZeroInv ==
  /\ ZeroCountHidesOnlyAStandingCrash
  /\ crashCount = 0 => prevAlive

\* A confirmation that is not counted follows a restart that failed or was lost.
RestartInv ==
  /\ RestartsExplained
  /\ ~prevAlive /\ pc # "wait" => restarts < crashCount + lost
  /\ pc \in {"restart", "wait"} => ~prevAlive

IInv == TypeOK /\ CountInv /\ ZeroInv /\ RestartInv

\* The program starts in IInv, a relayer that has crashed before included.
LEMMA IInvInit ==
  ASSUME Init
  PROVE  IInv
<1>1. failed \in 0 .. ConfirmProbes - 1 /\ waited \in 0 .. RecoveryWait - 1
  BY ProbesAssumption, DelaysAssumption DEF Init
<1>2. crashes \in Nat /\ slow \in 0 .. MaxSlow
  BY EnvironmentAssumption DEF Init
<1>3. TypeOK
  BY <1>1, <1>2 DEF Init, TypeOK
<1>4. CountInv /\ ZeroInv /\ RestartInv
  BY DEF Init, CountInv, ZeroInv, RestartInv, ZeroCountHidesOnlyAStandingCrash,
       RestartsExplained
<1> QED  BY <1>3, <1>4 DEF IInv

\* Every step keeps the types.
LEMMA TypeStep ==
  ASSUME TypeOK, [Next]_vars
  PROVE  TypeOK'
<1> USE ProbesAssumption, DelaysAssumption, EnvironmentAssumption
    DEF ProbesAssumption, DelaysAssumption, EnvironmentAssumption
<1>0. ASSUME AnswersTrue \/ AnswersFalse
      PROVE  slow' \in 0 .. MaxSlow
  BY <1>0 DEF TypeOK, AnswersTrue, AnswersFalse
<1>1. CASE ProbeAlive
  BY <1>0, <1>1 DEF TypeOK, ProbeAlive
<1>2. CASE ProbeFails
  BY <1>0, <1>2 DEF TypeOK, ProbeFails, LastProbe
<1>3. CASE ConfirmDown
  <2>1. crashCount' \in Nat /\ failed' \in 0 .. ConfirmProbes - 1
    BY <1>3 DEF TypeOK, ConfirmDown
  <2>2. /\ UNCHANGED <<restarts, delivered, waited, clock, lost, proc, landed, crashes>>
        /\ prevAlive' = FALSE /\ pc' = "restart" /\ slow' \in 0 .. MaxSlow
    BY <1>0, <1>3 DEF ConfirmDown
  <2> QED  BY <2>1, <2>2 DEF TypeOK
<1>4. CASE RestartWorks
  BY <1>4 DEF TypeOK, RestartWorks
<1>5. CASE RestartFails
  BY <1>5 DEF TypeOK, RestartFails
<1>6. CASE WaitAnswered
  BY <1>0, <1>6 DEF TypeOK, WaitAnswered
<1>7. CASE WaitPolls
  BY <1>0, <1>7 DEF TypeOK, WaitPolls, Polled
<1>8. CASE WaitTimesOut
  BY <1>0, <1>8 DEF TypeOK, WaitTimesOut
<1>9. CASE CheckDelivered
  BY <1>9 DEF TypeOK, CheckDelivered, environment
<1>10. CASE Boots
  BY <1>10 DEF TypeOK, Boots, observer
<1>11. CASE Crash
  BY <1>11 DEF TypeOK, Crash, observer
<1>12. CASE Deliver
  BY <1>12 DEF TypeOK, Deliver, observer
<1>13. CASE UNCHANGED vars
  BY <1>13 DEF TypeOK, vars, observer, environment
<1> QED  BY <1>1, <1>2, <1>3, <1>4, <1>5, <1>6, <1>7, <1>8, <1>9, <1>10, <1>11, <1>12, <1>13
         DEF Next, Observer

\* Every step keeps the counter true, provided that a live relayer answers one
\* of ConfirmProbes probes in time.
LEMMA CountStep ==
  ASSUME MaxSlow < ConfirmProbes, IInv, [Next]_vars
  PROVE  CountInv' /\ ZeroInv' /\ RestartInv'
<1> USE ProbesAssumption, DelaysAssumption, EnvironmentAssumption
    DEF ProbesAssumption, DelaysAssumption, EnvironmentAssumption
<1> USE DEF IInv, TypeOK, CountInv, ZeroInv, RestartInv,
            ZeroCountHidesOnlyAStandingCrash, RestartsExplained
<1>1. CASE ProbeAlive
  BY <1>1 DEF ProbeAlive, AnswersTrue
<1>2. CASE ProbeFails
  BY <1>2 DEF ProbeFails, AnswersFalse, LastProbe
<1>3. CASE ConfirmDown
  <2>1. prevAlive => proc = "frozen" /\ crashCount < crashes
    BY <1>3 DEF ConfirmDown, AnswersFalse, LastProbe
  <2> QED  BY <1>3, <2>1 DEF ConfirmDown, Counted
<1>4. CASE RestartWorks \/ RestartFails
  BY <1>4 DEF RestartWorks, RestartFails
<1>5. CASE WaitAnswered
  BY <1>5 DEF WaitAnswered, AnswersTrue
<1>6. CASE WaitPolls \/ WaitTimesOut
  BY <1>6 DEF WaitPolls, WaitTimesOut, AnswersFalse, Polled
<1>7. CASE CheckDelivered
  BY <1>7 DEF CheckDelivered, environment
<1>8. CASE Boots \/ Crash \/ Deliver
  BY <1>8 DEF Boots, Crash, Deliver, observer
<1>9. CASE UNCHANGED vars
  BY <1>9 DEF vars, observer, environment
<1> QED  BY <1>1, <1>2, <1>3, <1>4, <1>5, <1>6, <1>7, <1>8, <1>9 DEF Next, Observer

\* TypeOK holds of the observer whatever the relayer and docker do.
THEOREM TypeCorrect == Spec => []TypeOK
<1>1. Init => TypeOK
  BY IInvInit DEF IInv
<1> QED  BY <1>1, TypeStep, PTL DEF Spec

\* The three guarantees of a CrashObservation hold for every number of probes
\* that exceeds the late answers in a row.
THEOREM CountIsTrue ==
  ASSUME MaxSlow < ConfirmProbes
  PROVE  Spec => [](NoPhantomCrash /\ ZeroCountHidesOnlyAStandingCrash /\ RestartsExplained)
<1>1. Init => IInv
  BY IInvInit
<1>2. IInv /\ [Next]_vars => IInv'
  BY TypeStep, CountStep DEF IInv
<1>3. IInv => NoPhantomCrash /\ ZeroCountHidesOnlyAStandingCrash /\ RestartsExplained
  BY DEF IInv, CountInv, ZeroInv, RestartInv, NoPhantomCrash
<1> QED  BY <1>1, <1>2, <1>3, PTL DEF Spec

\* A count of zero, the healthy verdict, hides no crash that was repaired.
COROLLARY ZeroIsHonest ==
  ASSUME MaxSlow < ConfirmProbes
  PROVE  Spec => []ZeroCountHidesOnlyAStandingCrash
BY CountIsTrue, PTL

-----------------------------------------------------------------------------
(***************************************************************************)
(* The gate between the serial and the parallel phase.                     *)
(***************************************************************************)

\* In its first minute docker words an uptime as a number of seconds, which the
\* gate reads as recent when it asks for a minute or more.
LEMMA FirstMinuteIsRead ==
  ASSUME MinUptime >= 60, NEW s \in 1 .. 59
  PROVE  ReadAsRecent(HumanDuration(s))
<1>1. HumanDuration(s) = [count |-> s, unit |-> "second"]
  <2>1. s \in Int /\ 1 <= s /\ s <= 59
    BY SMTT(30)
  <2>2. ~(s < 1) /\ ~(s >= 3600)
    BY <2>1, SMTT(30)
  <2>3. s \notin 60 .. 119
    BY <2>1, SMTT(30)
  <2>4. s \notin 120 .. 3599
    BY <2>1, SMTT(30)
  <2> QED  BY <2>2, <2>3, <2>4 DEF HumanDuration
<1>2. "second" \in DOMAIN UnitSeconds /\ UnitSeconds["second"] = 1
  BY DEF UnitSeconds
<1>3. s * 1 < MinUptime
  BY TimeAssumption
<1> QED  BY <1>1, <1>2, <1>3 DEF ReadAsRecent

\* With a gate of at least a minute, and docker answering, the parallel phase
\* never starts while a relayer is in its first minute (its very first second
\* excepted, which docker does not word in seconds).
THEOREM FirstMinuteIsSafe ==
  ASSUME MinUptime >= 60
  PROVE  GateSpec => []NeverOpensInFirstMinute
<1>1. GateInit => NeverOpensInFirstMinute
  BY DEF GateInit, NeverOpensInFirstMinute
<1>2. NeverOpensInFirstMinute /\ [GateNext]_gateVars => NeverOpensInFirstMinute'
  <2> SUFFICES ASSUME NeverOpensInFirstMinute, [GateNext]_gateVars
               PROVE  NeverOpensInFirstMinute'
    OBVIOUS
  <2>1. CASE Poll
    <3> SUFFICES ASSUME gate' = "open", NEW r \in Relayers, uptime[r] \in 1 .. 59
                 PROVE  FALSE
      BY <2>1 DEF Poll, NeverOpensInFirstMinute
    <3>1. Recent = {}
      BY <2>1 DEF Poll
    <3>2. ReadAsRecent(HumanDuration(uptime[r]))
      BY FirstMinuteIsRead
    <3> QED  BY <3>1, <3>2 DEF Recent, NotRunning
  <2>2. CASE PollWithoutDocker
    BY <2>2 DEF PollWithoutDocker, NeverOpensInFirstMinute
  <2>3. CASE Elapse \/ \E r \in Relayers : Fault(r) \/ ComesUp(r)
    BY <2>3 DEF Elapse, Fault, ComesUp, NeverOpensInFirstMinute
  <2>4. CASE UNCHANGED gateVars
    BY <2>4 DEF gateVars, NeverOpensInFirstMinute
  <2> QED  BY <2>1, <2>2, <2>3, <2>4 DEF GateNext
<1> QED  BY <1>1, <1>2, PTL DEF GateSpec

\* A multiple of the tick, divided by the tick.
LEMMA Multiples ==
  ASSUME NEW k \in Nat, NEW t \in Nat \ {0}
  PROVE  (k * t) \div t = k
BY SMTT(30)

\* Between two multiples of the tick there is room for a tick.
LEMMA OneMoreTick ==
  ASSUME NEW m \in Nat, NEW k \in Nat, NEW t \in Nat \ {0}, m * t < k * t
  PROVE  m < k /\ (m + 1) * t = m * t + t
<1>1. (m + 1) * t = m * t + t
  BY SMTT(30)
<1>2. ASSUME k <= m
      PROVE  k * t <= m * t
  BY <1>2, SMTT(30)
<1> QED  BY <1>1, <1>2, SMTT(30)

\* A tick before a positive multiple of the tick there is another one.
LEMMA OneTickLess ==
  ASSUME NEW m \in Nat, NEW t \in Nat \ {0}, m * t > 0
  PROVE  m - 1 \in Nat /\ (m - 1) * t = m * t - t
<1>1. m # 0
  BY SMTT(30)
<1>2. (m - 1) * t = m * t - t
  BY SMTT(30)
<1> QED  BY <1>1, <1>2

\* The uptimes told apart are closed under the passing of time.
LEMMA OlderIsUptime ==
  ASSUME NEW s \in Uptimes \cup {NotRunning}
  PROVE  Older(s) \in Uptimes \cup {NotRunning}
<1>1. CASE s = NotRunning \/ s >= Horizon
  BY <1>1 DEF Older
<1>2. CASE ~(s = NotRunning \/ s >= Horizon)
  <2>1. PICK k \in 1 .. 1000 : Horizon = k * Tick
    BY TimeAssumption
  <2>2. PICK m \in 0 .. Horizon \div Tick : s = m * Tick
    BY <1>2 DEF Uptimes
  <2>3. Tick \in Nat \ {0} /\ k \in Nat
    BY <2>1, TimeAssumption
  <2>4. Horizon \div Tick = k
    BY <2>1, <2>3, Multiples
  <2>5. m \in Nat
    BY <2>2, <2>4, <2>3
  <2>6. s \in Int /\ Horizon \in Int
    BY <2>1, <2>2, <2>3, <2>5
  <2>7. m * Tick < k * Tick
    BY <1>2, <2>1, <2>2, <2>6
  <2>8. m < k /\ (m + 1) * Tick = s + Tick
    BY <2>2, <2>3, <2>5, <2>7, OneMoreTick
  <2>9. m + 1 \in 0 .. Horizon \div Tick
    BY <2>3, <2>4, <2>5, <2>8
  <2>10. Older(s) = (m + 1) * Tick
    BY <1>2, <2>8 DEF Older
  <2> QED  BY <2>9, <2>10 DEF Uptimes
<1> QED  BY <1>1, <1>2

\* The interval is a multiple of the tick, and so is what is left of it.
Timers == {n * Tick : n \in 0 .. PollInterval \div Tick}

LEMMA TimerTypes ==
  /\ 0 \in Timers /\ PollInterval \in Timers
  /\ \A s \in Timers : s > 0 => s - Tick \in Timers
<1>1. PICK k \in 1 .. 100 : PollInterval = k * Tick
  BY TimeAssumption
<1>2. Tick \in Nat \ {0} /\ k \in Nat /\ k >= 1
  BY <1>1, TimeAssumption
<1>3. PollInterval \div Tick = k
  BY <1>1, <1>2, Multiples
<1>4. 0 \in 0 .. PollInterval \div Tick /\ 0 * Tick = 0
  BY <1>2, <1>3
<1>5. k \in 0 .. PollInterval \div Tick
  BY <1>2, <1>3
<1>6. ASSUME NEW s \in Timers, s > 0
      PROVE  s - Tick \in Timers
  <2>1. PICK m \in 0 .. PollInterval \div Tick : s = m * Tick
    BY <1>6 DEF Timers
  <2>2. m \in Nat /\ m <= k
    BY <1>2, <1>3, <2>1
  <2>3. m - 1 \in Nat /\ (m - 1) * Tick = s - Tick
    BY <1>2, <1>6, <2>1, <2>2, OneTickLess
  <2>4. m - 1 \in 0 .. PollInterval \div Tick
    BY <1>2, <1>3, <2>2, <2>3
  <2> QED  BY <2>3, <2>4 DEF Timers
<1> QED  BY <1>1, <1>4, <1>5, <1>6 DEF Timers

\* Every variable of the gate has its type: uptimes and the timer stay
\* multiples of the tick within their ranges.
THEOREM GateTypeCorrect == GateSpec => []GateTypeOK
<1> USE DEF Timers
<1>0. 0 \in Uptimes
  <2>1. PICK k \in 1 .. 1000 : Horizon = k * Tick
    BY TimeAssumption
  <2>2. Tick \in Nat \ {0} /\ k \in Nat /\ k >= 1
    BY <2>1, TimeAssumption
  <2>3. Horizon \div Tick = k
    BY <2>1, <2>2, Multiples
  <2>4. 0 \in 0 .. Horizon \div Tick /\ 0 * Tick = 0
    BY <2>2, <2>3
  <2> QED  BY <2>4 DEF Uptimes
<1>1. GateInit => GateTypeOK
  <2> SUFFICES ASSUME GateInit PROVE GateTypeOK
    OBVIOUS
  <2>1. 0 \in Timers /\ 0 \in 0 .. MaxFaults
    BY TimerTypes, BoundAssumption
  <2>2. blind \in BOOLEAN
    BY Zenon DEF GateInit
  <2> QED  BY <2>1, <2>2 DEF GateInit, GateTypeOK
<1>2. GateTypeOK /\ [GateNext]_gateVars => GateTypeOK'
  <2> SUFFICES ASSUME GateTypeOK, [GateNext]_gateVars PROVE GateTypeOK'
    OBVIOUS
  <2> USE DEF GateTypeOK
  <2>1. CASE UNCHANGED gateVars
    BY <2>1 DEF gateVars
  <2>2. CASE Poll
    BY <2>2, TimerTypes DEF Poll
  <2>3. CASE PollWithoutDocker
    BY <2>3 DEF PollWithoutDocker
  <2>4. CASE Elapse
    <3>1. uptime' \in [Relayers -> Uptimes \cup {NotRunning}]
      BY <2>4, OlderIsUptime DEF Elapse
    <3>2. timer' \in Timers
      BY <2>4, TimerTypes DEF Elapse
    <3> QED  BY <2>4, <3>1, <3>2 DEF Elapse
  <2>5. ASSUME NEW r \in Relayers, Fault(r)
        PROVE  GateTypeOK'
    <3>1. uptime' \in [Relayers -> Uptimes \cup {NotRunning}]
      BY <1>0, <2>5 DEF Fault
    <3>2. faults' \in 0 .. MaxFaults
      BY <2>5, BoundAssumption DEF Fault
    <3> QED  BY <2>5, <3>1, <3>2 DEF Fault
  <2>6. ASSUME NEW r \in Relayers, ComesUp(r)
        PROVE  GateTypeOK'
    BY <1>0, <2>6 DEF ComesUp
  <2> QED  BY <2>1, <2>2, <2>3, <2>4, <2>5, <2>6 DEF GateNext
<1> QED  BY <1>1, <1>2, PTL DEF GateSpec

=============================================================================
