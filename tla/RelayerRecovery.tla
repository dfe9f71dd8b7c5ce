--------------------------- MODULE RelayerRecovery ---------------------------
(***************************************************************************)
(* awaitRelayerRecovery() of scripts/runners/base-parallel-runner.js: the  *)
(* gate between the serial and the parallel phase.  It reads the uptime of *)
(* every relayer container from the text `docker ps` prints, and sleeps    *)
(* while some uptime it can read is too short.                             *)
(* Time is in seconds and passes in steps of Tick; docker's wording of a   *)
(* duration (the Go library docker uses) decides what the gate can read.   *)
(***************************************************************************)
EXTENDS Integers

CONSTANTS
  Relayers,      \* relayer containers
  MinUptime,     \* MIN_RELAYER_UPTIME_MS, in seconds
  PollInterval,  \* POLL_INTERVAL_MS, in seconds
  Tick,          \* granularity of time
  Horizon,       \* bound: uptimes beyond it are not told apart
  MaxFaults      \* bound: restarts and stops while the gate is waiting

ASSUME TimeAssumption ==
  /\ Tick \in Nat \ {0} /\ MinUptime \in Nat /\ Horizon \in Nat
  /\ PollInterval \in {n * Tick : n \in 1 .. 100}
  /\ Horizon \in {n * Tick : n \in 1 .. 1000}
ASSUME BoundAssumption == MaxFaults \in Nat /\ MinUptime + Tick <= Horizon

VARIABLES
  uptime,   \* seconds a container has been up, or NotRunning
  gate,     \* "closed" before and between polls, "open" afterwards
  timer,    \* seconds until the next poll
  blind,    \* the last poll failed to run docker at all
  faults    \* restarts and stops so far

gateVars == <<uptime, gate, timer, blind, faults>>

NotRunning == -1
Uptimes == {n * Tick : n \in 0 .. Horizon \div Tick}

(***************************************************************************)
(* Docker's human duration: a count and a unit, or a phrase without digits *)
(* ("Less than a second", "About a minute", "About an hour").              *)
(***************************************************************************)
Phrase == [count |-> 0, unit |-> "phrase"]

HumanDuration(s) ==
  LET hours == (s + 1800) \div 3600 IN
  CASE s < 1        -> Phrase
    [] s \in 1..59  -> [count |-> s, unit |-> "second"]
    [] s \in 60..119 -> Phrase
    [] s \in 120..3599 -> [count |-> s \div 60, unit |-> "minute"]
    [] s >= 3600 /\ hours = 1  -> Phrase
    [] s >= 3600 /\ hours \in 2..47  -> [count |-> hours, unit |-> "hour"]
    [] s >= 3600 /\ hours \in 48..335 -> [count |-> hours \div 24, unit |-> "day"]
    [] OTHER -> [count |-> hours \div 168, unit |-> "week"]

\* Mutants: milliseconds; the unit ignored.
UnitMilliseconds == [second |-> 1000, minute |-> 60000, hour |-> 3600000, day |-> 86400000]
UnitIgnored == [second |-> 1, minute |-> 1, hour |-> 1, day |-> 1]

UnitSeconds == [second |-> 1, minute |-> 60, hour |-> 3600, day |-> 86400]

\* The match of /Up (\d+) (second|minute|hour|day)/ and the comparison.
ReadAsRecent(d) ==
  /\ d.unit \in DOMAIN UnitSeconds
  /\ d.count * UnitSeconds[d.unit] < MinUptime

\* getRecent(): only running containers are listed.
Recent == {r \in Relayers :
             uptime[r] # NotRunning /\ ReadAsRecent(HumanDuration(uptime[r]))}

-----------------------------------------------------------------------------

GateInit ==
  /\ uptime \in [Relayers -> Uptimes \cup {NotRunning}]
  /\ gate = "closed" /\ timer = 0 /\ blind = FALSE /\ faults = 0

Poll ==
  /\ gate = "closed" /\ timer = 0
  /\ IF Recent = {}
       THEN gate' = "open" /\ UNCHANGED timer
       ELSE timer' = PollInterval /\ UNCHANGED gate
  /\ UNCHANGED <<uptime, blind, faults>>

\* The command fails or takes more than its 10 s: read as "nothing recent".
PollWithoutDocker ==
  /\ gate = "closed" /\ timer = 0
  /\ gate' = "open" /\ blind' = TRUE
  /\ UNCHANGED <<uptime, timer, faults>>

\* Beyond the horizon an uptime stays where it is.
Older(s) == IF s = NotRunning \/ s >= Horizon THEN s ELSE s + Tick

Elapse ==
  /\ gate = "closed" /\ timer > 0
  /\ timer' = timer - Tick
  /\ uptime' = [r \in Relayers |-> Older(uptime[r])]
  /\ UNCHANGED <<gate, blind, faults>>

\* A relayer crashes: docker restarts it now, or it stays down for a while.
Fault(r) ==
  /\ gate = "closed" /\ faults < MaxFaults
  /\ \E up \in {0, NotRunning} : uptime' = [uptime EXCEPT ![r] = up]
  /\ faults' = faults + 1
  /\ UNCHANGED <<gate, timer, blind>>

ComesUp(r) ==
  /\ gate = "closed" /\ uptime[r] = NotRunning
  /\ uptime' = [uptime EXCEPT ![r] = 0]
  /\ UNCHANGED <<gate, timer, blind, faults>>

GateNext ==
  \/ Poll \/ PollWithoutDocker \/ Elapse
  \/ \E r \in Relayers : Fault(r) \/ ComesUp(r)

GateSpec == GateInit /\ [][GateNext]_gateVars
FairGateSpec == GateSpec /\ WF_gateVars(Poll) /\ WF_gateVars(Elapse)

(***************************************************************************)
(* Properties                                                              *)
(***************************************************************************)

\* Every variable has its type.
GateTypeOK ==
  /\ uptime \in [Relayers -> Uptimes \cup {NotRunning}]
  /\ gate \in {"closed", "open"}
  /\ timer \in {n * Tick : n \in 0 .. PollInterval \div Tick}
  /\ blind \in BOOLEAN /\ faults \in 0 .. MaxFaults

\* What the gate does guarantee: with docker answering, it never opens while a
\* relayer has been up for 1 to 59 seconds, however often relayers restart
\* between the polls.
NeverOpensInFirstMinute ==
  gate = "open" /\ ~blind => \A r \in Relayers : uptime[r] \notin 1 .. 59

\* The gate opens once relayers stop restarting: from when it is first asked it
\* cannot wait forever on containers that stay up or stay down.
GateOpens == gate = "closed" ~> gate = "open"

=============================================================================
