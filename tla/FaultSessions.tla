----------------------------- MODULE FaultSessions -----------------------------
(***************************************************************************)
(* Fault-injection sessions (src/utils/fault-injector.ts) of resilience    *)
(* tests that share one relayer, and the docker control they repair it     *)
(* with (src/utils/docker-compose.ts).                                     *)
(*                                                                         *)
(* A test's body is a script of awaits and ends at the first that throws;  *)
(* its after() hook runs then, in one try/catch that swallows what it      *)
(* throws. Control calls are HTTP requests with a timeout: one that is not *)
(* answered may have been served, may be served later, or never.           *)
(*                                                                         *)
(* The fault server, external, lives in the relayer's process: a message   *)
(* of a test runs through its route of fault points, a crash takes the     *)
(* process down, and the message is delivered again once it is back. The   *)
(* sessions survive. Sleep rules, which only delay, are left out.          *)
(***************************************************************************)
EXTENDS Integers, FiniteSetsExt, Sequences

CONSTANTS
  Tests,
  Body, Hook,   \* Body[t], Hook[t]: the awaits of the test and of its hook
  Route,        \* Route[t]: the fault points the test's message comes by
  Attempts,     \* bound: probes before a deadline
  MaxFaults     \* bound: calls and probes that fail although the relayer is up

Points   == UNION {{Route[t][i] : i \in DOMAIN Route[t]} : t \in Tests}
Severity == [crash |-> 3, panic |-> 2, error |-> 1]

ASSUME BoundAssumption == Attempts \in Nat \ {0} /\ MaxFaults \in Nat
ASSUME RouteAssumption == \A t \in Tests : Route[t] # << >>

\* A body arms rules the server accepts, reads points that messages come by, and
\* leaves the conditional restart to the hook.
ASSUME BodyAssumption ==
  \A t \in Tests :
    /\ Len(Body[t]) \in Nat \ {0} /\ DOMAIN Body[t] = 1 .. Len(Body[t])
    /\ \A i \in 1 .. Len(Body[t]) :
         LET await == Body[t][i]
         IN  /\ await.kind # "ifDown"
             /\ await.kind = "control" /\ await.op = "arm" =>
                  /\ await.point \in Points /\ await.rule.action \in DOMAIN Severity
                  /\ await.rule.class \in STRING /\ await.rule.left \in {-1} \cup (Nat \ {0})
             /\ await.kind = "clear" => await.op = "clear"
             /\ await.kind = "status" => await.point \in Points /\ await.atLeast \in Nat
             /\ await.kind = "poll" => await.until # "fired" \/ await.point \in Points

\* A hook ends with clear(), creates and arms nothing, and what it skips when the
\* relayer is alive comes before that.
ASSUME HookAssumption ==
  \A t \in Tests :
    /\ Len(Hook[t]) \in Nat \ {0}
    /\ Hook[t][Len(Hook[t])].kind = "clear" /\ Hook[t][Len(Hook[t])].op = "clear"
    /\ \A i \in 1 .. Len(Hook[t]) :
         /\ Hook[t][i].kind # "newSession"
         /\ Hook[t][i].kind \in {"control", "clear"} => Hook[t][i].op # "arm"
         /\ Hook[t][i].kind = "ifDown" => i + 3 <= Len(Hook[t])

WaitsUp(await) == await.kind = "poll" /\ await.until = "up"

\* A body touches the container only after its newSession(), and a hook that
\* touches it waits for the relayer afterwards. (The clean-up of
\* Proofgen_NilProof_DestRelayerCrashLoop, which ignores that wait, is left out.)
ASSUME ComposeAssumption ==
  \A t \in Tests :
    /\ \A i \in 1 .. Len(Body[t]) : Body[t][i].kind = "compose" =>
         \E j \in 1 .. i - 1 : Body[t][j].kind = "newSession"
    /\ \A i \in 1 .. Len(Hook[t]) : Hook[t][i].kind = "compose" =>
         \E w \in i + 1 .. Len(Hook[t]) : WaitsUp(Hook[t][w])

VARIABLES
  phase, step, tries,  \* body, hook or done; the await; the probes it has made
  verdict,
  session,             \* tests that hold a FaultSession
  swallowed,           \* tests whose hook threw
  proc,                \* the relayer: up, down or booting
  sessions,            \* those the server knows
  armed,               \* its rules, stamped with their order
  log,                 \* log[t][p]: trigger events since newSession() or clearLog()
  limbo,               \* requests given up by the client and not served yet
  pos,                 \* where each message is; 0: not sent, past the route: acked
  fired,               \* history: tests and points where a rule of theirs fired
  faults

clientVars  == <<phase, step, tries, verdict, session, swallowed>>
serverVars  == <<sessions, armed, log>>
processVars == <<proc, pos, limbo>>
vars == <<clientVars, serverVars, processVars, fired, faults>>

(***************************************************************************)
(* The awaits                                                              *)
(***************************************************************************)
newSession            == [kind |-> "newSession"]
\* count: the triggers left, -1 for max_count 0 (no limit); class: error_code,
\* or else message.
arm(p, act, cls, n)   == [kind |-> "control", op |-> "arm", point |-> p,
                          rule |-> [action |-> act, class |-> cls, left |-> n]]
clearPoint(p)         == [kind |-> "control", op |-> "clearPoint", point |-> p]
clearAllRules         == [kind |-> "control", op |-> "clearAllRules"]
clearLog              == [kind |-> "control", op |-> "clearLog"]
clear                 == [kind |-> "clear", op |-> "clear"]
expectArmed(p)        == [kind |-> "status", point |-> p, atLeast |-> 0]
triggerCount(p, n)    == [kind |-> "status", point |-> p, atLeast |-> n]
submit                == [kind |-> "submit"]
waitForCrash          == [kind |-> "poll", until |-> "down"]
waitUntilAlive        == [kind |-> "poll", until |-> "up"]
waitForCompose        == waitUntilAlive
assertLiveAfter(p)    == [kind |-> "poll", until |-> "fired", point |-> p]
compose(action)       == [kind |-> "compose", action |-> action, quiet |-> FALSE]
ensureRunning         == [kind |-> "compose", action |-> "start", quiet |-> TRUE]
\* if (!(await isAlive())) { the next two awaits }
ifDown                == [kind |-> "ifDown"]

Steps(t) == IF phase[t] = "body" THEN Body[t] ELSE Hook[t]
At(t, kind) == phase[t] # "done" /\ Steps(t)[step[t]].kind = kind
Now(t) == Steps(t)[step[t]]

Init ==
  /\ phase = [t \in Tests |-> "body"] /\ step = [t \in Tests |-> 1]
  /\ tries = [t \in Tests |-> 1] /\ verdict = [t \in Tests |-> "none"]
  /\ session = {} /\ swallowed = {}
  /\ proc = "up" /\ pos = [t \in Tests |-> 0] /\ limbo = {}
  /\ sessions = {} /\ armed = {}
  /\ log = [t \in Tests |-> [p \in Points |-> 0]]
  /\ fired = {} /\ faults = 0

Fault == faults < MaxFaults /\ faults' = faults + 1

\* The end of the body, with its verdict, or of the hook.
Leave(t, how) ==
  /\ step' = [step EXCEPT ![t] = 1]
  /\ IF phase[t] = "body"
       THEN phase' = [phase EXCEPT ![t] = "hook"] /\ verdict' = [verdict EXCEPT ![t] = how]
       ELSE phase' = [phase EXCEPT ![t] = "done"] /\ UNCHANGED verdict

Advance(t, k) ==
  /\ tries' = [tries EXCEPT ![t] = 1]
  /\ IF step[t] + k <= Len(Steps(t))
       THEN step' = [step EXCEPT ![t] = @ + k] /\ UNCHANGED <<phase, verdict>>
       ELSE Leave(t, "passed")
  /\ UNCHANGED swallowed

Throw(t) ==
  /\ tries' = [tries EXCEPT ![t] = 1]
  /\ Leave(t, "failed")
  /\ swallowed' = IF phase[t] = "hook" THEN swallowed \cup {t} ELSE swallowed

(***************************************************************************)
(* The control plane                                                       *)
(***************************************************************************)
RuleOf(t, s) ==
  [session |-> t, point |-> s.point, action |-> s.rule.action, class |-> s.rule.class,
   left |-> s.rule.left, stamp |-> 1 + Max({0} \cup {r.stamp : r \in armed})]

\* The rules a request removes: arm replaces its own session's rule at the point.
Dropped(t, s) ==
  CASE s.op \in {"arm", "clearPoint"} -> {r \in armed : r.session = t /\ r.point = s.point}
    [] s.op \in {"clearAllRules", "clear"} -> {r \in armed : r.session = t}
    [] s.op = "clearLog" -> {}

Known(t) == t \in sessions

\* The server carries a request of t out; on an unknown session it is a 404.
Serve(t, s) ==
  IF Known(t)
    THEN /\ armed' = (armed \ Dropped(t, s)) \cup (IF s.op = "arm" THEN {RuleOf(t, s)} ELSE {})
         /\ sessions' = IF s.op = "clear" THEN sessions \ {t} ELSE sessions
         /\ log' = IF s.op \in {"clear", "clearLog"}
                     THEN [log EXCEPT ![t] = [p \in Points |-> 0]] ELSE log
    ELSE UNCHANGED serverVars

\* Only an answered newSession() gives the test an id: a session whose id was
\* lost stays empty, so it is not kept here.
NewSession(t) ==
  /\ At(t, "newSession")
  /\ IF proc = "up"
       THEN session' = session \cup {t} /\ sessions' = sessions \cup {t} /\ Advance(t, 1)
       ELSE Throw(t) /\ UNCHANGED <<session, sessions>>
  /\ UNCHANGED <<armed, log, processVars, fired, faults>>

\* arm(), clearPoint(), clearAllRules() and clearLog() throw on every error.
Control(t) ==
  /\ At(t, "control")
  /\ IF proc = "up"
       THEN Serve(t, Now(t)) /\ IF Known(t) THEN Advance(t, 1) ELSE Throw(t)
       ELSE UNCHANGED serverVars /\ Throw(t)
  /\ UNCHANGED <<session, processVars, fired, faults>>

\* Mutant: clear() accepts every failure, not the 404 alone.
ClearAcceptingAll(t) ==
  /\ At(t, "clear")
  /\ IF t \in session /\ proc = "up" THEN Serve(t, Now(t)) ELSE UNCHANGED serverVars
  /\ Advance(t, 1)
  /\ UNCHANGED <<session, processVars, fired, faults>>

\* The hook's `if (session) await session.clear()`, which accepts a 404.
Clear(t) ==
  /\ At(t, "clear")
  /\ IF t \notin session
       THEN Advance(t, 1) /\ UNCHANGED serverVars
       ELSE IF proc = "up"
              THEN Serve(t, Now(t)) /\ Advance(t, 1)
              ELSE UNCHANGED serverVars /\ Throw(t)
  /\ UNCHANGED <<session, processVars, fired, faults>>

\* No answer within CONTROL_PLANE_TIMEOUT_MS.
CallTimesOut(t) ==
  /\ At(t, "control") \/ (At(t, "clear") /\ t \in session) \/ At(t, "status") \/ At(t, "newSession")
  /\ Fault /\ Throw(t)
  /\ limbo' \in {limbo} \cup
       (IF proc = "up" /\ (At(t, "control") \/ At(t, "clear"))
          THEN {limbo \cup {[test |-> t, request |-> Now(t)]}} ELSE {})
  /\ UNCHANGED <<session, serverVars, proc, pos, fired>>

ServedLate ==
  /\ proc = "up"
  /\ \E l \in limbo : limbo' = limbo \ {l} /\ Serve(l.test, l.request)
  /\ UNCHANGED <<clientVars, proc, pos, fired, faults>>

\* status(), and triggerCount() which reads it.
Status(t) ==
  /\ At(t, "status")
  /\ IF /\ proc = "up" /\ Known(t)
        /\ IF Now(t).atLeast = 0
             THEN \E r \in armed : r.session = t /\ r.point = Now(t).point
             ELSE log[t][Now(t).point] >= Now(t).atLeast
       THEN Advance(t, 1) ELSE Throw(t)
  /\ UNCHANGED <<session, serverVars, processVars, fired, faults>>

(***************************************************************************)
(* Probes: isAlive() is FALSE when the process is not up, and when it      *)
(* answers too late.                                                       *)
(***************************************************************************)
Probe(alive) ==
  \/ alive = (proc = "up") /\ UNCHANGED faults
  \/ alive = FALSE /\ proc = "up" /\ Fault

\* Mutant: assertLiveAfter() does not look at the log.
SatisfiedAlive(t, alive) == alive = (Now(t).until # "down")

\* assertLiveAfter() is satisfied by an event of the test's own session.
Satisfied(t, alive) ==
  CASE Now(t).until = "down"  -> ~alive
    [] Now(t).until = "up"    -> alive
    [] Now(t).until = "fired" -> alive /\ t \in sessions /\ log[t][Now(t).point] > 0

\* Mutant: the deadline is computed anew before every probe.
AgainAnew(t) == tries' = [tries EXCEPT ![t] = 3 - @] /\ UNCHANGED <<phase, step, verdict, swallowed>>

\* Mutant: a wait that has run out returns.
AgainOrGiveUp(t) ==
  IF tries[t] < Attempts
    THEN tries' = [tries EXCEPT ![t] = @ + 1] /\ UNCHANGED <<phase, step, verdict, swallowed>>
    ELSE Advance(t, 1)

\* Mutant: one probe too many.
AgainOnceMore(t) ==
  IF tries[t] <= Attempts
    THEN tries' = [tries EXCEPT ![t] = @ + 1] /\ UNCHANGED <<phase, step, verdict, swallowed>>
    ELSE Throw(t)

Again(t) ==
  IF tries[t] < Attempts
    THEN tries' = [tries EXCEPT ![t] = @ + 1] /\ UNCHANGED <<phase, step, verdict, swallowed>>
    ELSE Throw(t)

Poll(t) ==
  /\ At(t, "poll")
  /\ \E alive \in BOOLEAN :
       /\ Probe(alive)
       /\ IF Satisfied(t, alive) THEN Advance(t, 1) ELSE Again(t)
  /\ UNCHANGED <<session, serverVars, processVars, fired>>

IfDown(t) ==
  /\ At(t, "ifDown")
  /\ \E alive \in BOOLEAN : Probe(alive) /\ Advance(t, IF alive THEN 3 ELSE 1)
  /\ UNCHANGED <<session, serverVars, processVars, fired>>

(***************************************************************************)
(* Docker. A call blocks its test until the container has changed.         *)
(***************************************************************************)
\* The process ends: what was not acked is delivered again by the next one.
Redelivered ==
  pos' = [t \in Tests |-> IF pos[t] \in DOMAIN Route[t] THEN 1 ELSE pos[t]]

\* composeAction() and startService(): start leaves a running container alone.
Compose(t) ==
  /\ At(t, "compose")
  /\ IF Now(t).action = "start" /\ proc # "down"
       THEN UNCHANGED processVars
       ELSE /\ proc' = IF Now(t).action \in {"stop", "kill"} THEN "down" ELSE "booting"
            /\ limbo' = {} /\ Redelivered
  /\ Advance(t, 1)
  /\ UNCHANGED <<session, serverVars, fired, faults>>

\* The action exits non-zero: nothing was done, or restart got as far as stop.
ComposeThrows(t) ==
  /\ At(t, "compose") /\ Fault
  /\ \/ UNCHANGED processVars
     \/ /\ Now(t).action = "restart" /\ proc' = "down"
        /\ limbo' = {} /\ Redelivered
  /\ IF Now(t).quiet THEN Advance(t, 1) ELSE Throw(t)
  /\ UNCHANGED <<session, serverVars, fired>>

Boots ==
  /\ proc = "booting" /\ proc' = "up"
  /\ UNCHANGED <<clientVars, serverVars, pos, limbo, fired, faults>>

(***************************************************************************)
(* The message and its fault points                                        *)
(***************************************************************************)
Submit(t) ==
  /\ At(t, "submit")
  /\ pos' = [pos EXCEPT ![t] = 1]
  /\ Advance(t, 1)
  /\ UNCHANGED <<session, serverVars, proc, limbo, fired, faults>>

Class(r) == IF r.action = "crash" THEN "crash" ELSE r.class

\* All crashes fire together; else the panics, else the errors, of the class
\* armed first.
Firing(p) ==
  LET here  == {r \in armed : r.point = p}
      worst == {r \in here : \A s \in here : Severity[s.action] <= Severity[r.action]}
      first == {r \in worst : \A s \in worst : r.stamp <= s.stamp}
  IN  {r \in worst : \E s \in first : Class(r) = Class(s)}

\* What is left of fired rules.
Consume(rs) ==
  {[r EXCEPT !.left = @ - 1] : r \in {s \in rs : s.left > 1}} \cup {r \in rs : r.left = -1}

\* Whether a panic is recovered depends on the point.
After(rs) ==
  IF \E r \in rs : r.action = "crash" THEN {"down"}
  ELSE IF \E r \in rs : r.action = "panic" THEN {"up", "down"} ELSE {"up"}

Check(t) ==
  /\ proc = "up" /\ pos[t] \in DOMAIN Route[t]
  /\ LET p  == Route[t][pos[t]]
         rs == Firing(p)
         of(u) == {r \in rs : r.session = u}
     IN  /\ armed' = (armed \ rs) \cup Consume(rs)
         /\ log' = [u \in Tests |-> [log[u] EXCEPT ![p] = @ + Cardinality(of(u))]]
         /\ fired' = fired \cup {<<r.session, p>> : r \in rs}
         /\ proc' \in After(rs)
         /\ IF proc' = "down"
              THEN limbo' = {} /\ Redelivered
              ELSE pos' = [pos EXCEPT ![t] = @ + 1] /\ UNCHANGED limbo
  /\ UNCHANGED <<clientVars, sessions, faults>>

TestStep(t) ==
  \/ NewSession(t) \/ Control(t) \/ Clear(t) \/ CallTimesOut(t) \/ Status(t)
  \/ Poll(t) \/ IfDown(t) \/ Compose(t) \/ ComposeThrows(t) \/ Submit(t)

Next == (\E t \in Tests : TestStep(t) \/ Check(t)) \/ ServedLate \/ Boots

Spec == Init /\ [][Next]_vars
\* Requests and docker calls have timeouts; the relayer owes the tests nothing.
FairSpec == Spec /\ \A t \in Tests : WF_vars(TestStep(t))
=============================================================================
