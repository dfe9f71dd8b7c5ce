-------------------------- MODULE FaultSessionsProofs --------------------------
(***************************************************************************)
(* No rule outlives the hook of its test, however many tests share the     *)
(* relayer and whatever requests of theirs are served late.                *)
(*                                                                         *)
(* A rule needs its session on the server (RulesHaveSessions). A session   *)
(* is created only by the body, and only for a test that then holds it, so *)
(* that the hook's last await drops it or throws (DoneWithoutSession).     *)
(*                                                                         *)
(* The same sessions explain every crash, so that while the relayer is not *)
(* up some test has not done its part yet (Answers): it is handed over     *)
(* alive. And a test that passed after reading its trigger events saw its  *)
(* own rules fire, because the log of a session tells of nothing else.     *)
(***************************************************************************)
EXTENDS FaultSessionsProps, FiniteSetTheorems, WellFoundedInduction, TLAPS

\* Where the tests are, and that a hook's await is one of the hook.
PlacesOK ==
  /\ phase \in [Tests -> {"body", "hook", "done"}] /\ step \in [Tests -> Nat]
  /\ \A t \in Tests : phase[t] = "hook" => step[t] \in 1 .. Len(Hook[t])

RulesHaveSessions ==
  \A r \in armed :
    /\ r = [session |-> r.session, point |-> r.point, action |-> r.action,
            class |-> r.class, left |-> r.left, stamp |-> r.stamp]
    /\ r.session \in sessions

DoneWithoutSession ==
  \A t \in Tests : phase[t] = "done" /\ t \notin swallowed => t \notin sessions

IInv == PlacesOK /\ RulesHaveSessions /\ DoneWithoutSession /\ sessions \subseteq session

\* No test comes to the end of its hook in this step without having thrown.
NoneDone ==
  \A u \in Tests : phase'[u] = "done" /\ u \notin swallowed' => phase[u] = "done" /\ u \notin swallowed

(***************************************************************************)
(* The script                                                              *)
(***************************************************************************)

\* An await that throws leads on to the hook, or is recorded as swallowed.
LEMMA ThrowStep ==
  ASSUME PlacesOK, NEW t \in Tests, phase[t] # "done", Throw(t)
  PROVE  PlacesOK' /\ NoneDone
<1>0. phase[t] \in {"body", "hook"} BY DEF PlacesOK
<1>1. \A u \in Tests : Len(Hook[u]) \in Nat \ {0} BY HookAssumption
<1>2. CASE phase[t] = "body"
  <2>1. step' = [step EXCEPT ![t] = 1] /\ phase' = [phase EXCEPT ![t] = "hook"]
        /\ swallowed' = swallowed
    BY <1>2 DEF Throw, Leave
  <2> QED BY <1>1, <1>2, <2>1 DEF PlacesOK, NoneDone
<1>3. CASE phase[t] = "hook"
  <2>1. step' = [step EXCEPT ![t] = 1] /\ phase' = [phase EXCEPT ![t] = "done"]
        /\ swallowed' = swallowed \cup {t}
    BY <1>3 DEF Throw, Leave
  <2> QED BY <1>1, <1>3, <2>1 DEF PlacesOK, NoneDone
<1> QED BY <1>0, <1>2, <1>3

\* An await that is over leads on to the next, to the hook, or, when it was the
\* hook's last, to the end.
LEMMA AdvanceStep ==
  ASSUME PlacesOK, NEW t \in Tests, phase[t] # "done", NEW k \in {1, 3}, Advance(t, k)
  PROVE  /\ PlacesOK'
         /\ \A u \in Tests : phase'[u] = "done" /\ u \notin swallowed' =>
              \/ phase[u] = "done" /\ u \notin swallowed
              \/ u = t /\ phase[t] = "hook" /\ step[t] + k > Len(Hook[t])
<1>0. /\ phase[t] \in {"body", "hook"} /\ swallowed' = swallowed
      /\ \A u \in Tests : Len(Hook[u]) \in Nat \ {0}
  BY HookAssumption DEF PlacesOK, Advance
<1>1. CASE step[t] + k <= Len(Steps(t))
  <2>1. step' = [step EXCEPT ![t] = @ + k] /\ phase' = phase
    BY <1>1 DEF Advance
  <2>2. step[t] + k \in Nat /\ step[t] + k >= 1 BY DEF PlacesOK
  <2>3. phase[t] = "hook" => step[t] + k \in 1 .. Len(Hook[t])
    BY <1>0, <1>1, <2>2 DEF Steps
  <2> QED BY <1>0, <2>1, <2>2, <2>3 DEF PlacesOK
<1>2. CASE ~(step[t] + k <= Len(Steps(t))) /\ phase[t] = "body"
  <2>1. step' = [step EXCEPT ![t] = 1] /\ phase' = [phase EXCEPT ![t] = "hook"]
    BY <1>2 DEF Advance, Leave
  <2> QED BY <1>0, <1>2, <2>1 DEF PlacesOK
<1>3. CASE ~(step[t] + k <= Len(Steps(t))) /\ phase[t] = "hook"
  <2>1. step' = [step EXCEPT ![t] = 1] /\ phase' = [phase EXCEPT ![t] = "done"]
    BY <1>3 DEF Advance, Leave
  <2>2. PlacesOK' BY <1>0, <1>3, <2>1 DEF PlacesOK
  <2>3. step[t] \in Nat /\ Len(Hook[t]) \in Nat /\ Steps(t) = Hook[t]
    BY <1>0, <1>3 DEF PlacesOK, Steps
  <2>4. step[t] + k > Len(Hook[t]) BY <1>3, <2>3
  <2>5. \A u \in Tests : u # t => phase'[u] = phase[u] BY <2>1 DEF PlacesOK
  <2> QED BY <1>0, <1>3, <2>2, <2>4, <2>5
<1> QED BY <1>0, <1>1, <1>2, <1>3

\* Only clear() is the last await of a hook.
LEMMA OtherAwait ==
  ASSUME PlacesOK, NEW t \in Tests, NEW kind, At(t, kind), kind # "clear",
         NEW k \in {1, 3}, Advance(t, k), k = 3 => kind = "ifDown"
  PROVE  PlacesOK' /\ NoneDone
<1>1. phase[t] # "done" BY DEF At
<1>2. phase[t] = "hook" => step[t] + k <= Len(Hook[t])
  <2> SUFFICES ASSUME phase[t] = "hook" PROVE step[t] + k <= Len(Hook[t])
    OBVIOUS
  <2>1. step[t] \in 1 .. Len(Hook[t]) /\ Len(Hook[t]) \in Nat /\ Hook[t][step[t]].kind = kind
    BY HookAssumption DEF PlacesOK, At, Steps
  <2>2. step[t] # Len(Hook[t]) BY <2>1, HookAssumption
  <2>3. CASE k = 1 BY <2>1, <2>2, <2>3
  <2>4. CASE k = 3 BY <2>1, <2>4, HookAssumption
  <2> QED BY <2>3, <2>4
<1>3. step[t] \in Nat /\ Len(Hook[t]) \in Nat BY HookAssumption DEF PlacesOK
<1>4. phase[t] = "hook" => ~(step[t] + k > Len(Hook[t])) BY <1>2, <1>3
<1> QED BY <1>1, <1>4, AdvanceStep DEF NoneDone

(***************************************************************************)
(* The server                                                              *)
(***************************************************************************)

\* A request arms a rule only in a session the server knows, and never makes one.
LEMMA ServeStep ==
  ASSUME RulesHaveSessions, NEW t, NEW s, Serve(t, s)
  PROVE  RulesHaveSessions' /\ sessions' \subseteq sessions
<1>1. CASE ~Known(t)
  BY <1>1 DEF Serve, RulesHaveSessions, serverVars
<1>2. CASE Known(t)
  <2>1. sessions' = IF s.op = "clear" THEN sessions \ {t} ELSE sessions
    BY <1>2 DEF Serve
  <2>2. armed' = (armed \ Dropped(t, s)) \cup (IF s.op = "arm" THEN {RuleOf(t, s)} ELSE {})
    BY <1>2 DEF Serve
  <2>3. CASE s.op = "clear"
    <3>1. Dropped(t, s) = {r \in armed : r.session = t} BY <2>3 DEF Dropped
    <3> QED BY <2>1, <2>2, <2>3, <3>1 DEF RulesHaveSessions
  <2>4. CASE s.op = "arm"
    BY <1>2, <2>1, <2>2, <2>4 DEF RulesHaveSessions, RuleOf, Known
  <2>5. CASE s.op \notin {"arm", "clear"}
    BY <2>1, <2>2, <2>5 DEF RulesHaveSessions
  <2> QED BY <2>3, <2>4, <2>5
<1> QED BY <1>1, <1>2

\* A fault point consumes rules and arms none.
LEMMA CheckStep ==
  ASSUME RulesHaveSessions, NEW t \in Tests, Check(t)
  PROVE  RulesHaveSessions'
<1> DEFINE rs == Firing(Route[t][pos[t]])
<1>1. armed' = (armed \ rs) \cup Consume(rs) /\ sessions' = sessions BY DEF Check
<1>2. rs \subseteq armed BY DEF Firing
<1>3. \A r \in Consume(rs) :
        /\ r = [session |-> r.session, point |-> r.point, action |-> r.action,
                class |-> r.class, left |-> r.left, stamp |-> r.stamp]
        /\ r.session \in sessions
  <2> HIDE DEF rs
  <2> QED BY <1>2 DEF Consume, RulesHaveSessions
<1> HIDE DEF rs
<1> QED BY <1>1, <1>2, <1>3 DEF RulesHaveSessions

(***************************************************************************)
(* The invariant                                                           *)
(***************************************************************************)
LEMMA InitIInv == Init => IInv
BY HookAssumption DEF Init, IInv, PlacesOK, RulesHaveSessions, DoneWithoutSession

\* A step in which no test ends quietly and no session is made.
LEMMA QuietStep ==
  ASSUME IInv, PlacesOK', NoneDone, RulesHaveSessions', sessions' \subseteq sessions,
         session' = session
  PROVE  IInv'
BY DEF IInv, NoneDone, DoneWithoutSession

LEMMA NextIInv == IInv /\ [Next]_vars => IInv'
<1> SUFFICES ASSUME IInv, [Next]_vars PROVE IInv'
  OBVIOUS
<1>a. PlacesOK /\ RulesHaveSessions /\ DoneWithoutSession /\ sessions \subseteq session
  BY DEF IInv
<1>1. ASSUME NEW t \in Tests, NewSession(t) PROVE IInv'
  <2>1. phase[t] # "hook"
    BY <1>1, <1>a, HookAssumption DEF NewSession, At, Steps, PlacesOK
  <2>2. phase[t] # "done" BY <1>1 DEF NewSession, At
  <2>3. CASE proc = "up"
    <3>1. Advance(t, 1) /\ session' = session \cup {t} /\ sessions' = sessions \cup {t}
      BY <1>1, <2>3 DEF NewSession
    <3>2. /\ PlacesOK'
          /\ \A u \in Tests : phase'[u] = "done" /\ u \notin swallowed' =>
               phase[u] = "done" /\ u \notin swallowed
      BY <1>a, <2>1, <2>2, <3>1, AdvanceStep
    <3>3. \A u \in Tests : phase'[u] = "done" /\ u \notin swallowed' => u # t
      BY <2>2, <3>2
    <3>4. RulesHaveSessions' BY <1>1, <1>a, <3>1 DEF NewSession, RulesHaveSessions
    <3> QED BY <1>a, <3>1, <3>2, <3>3, <3>4 DEF IInv, DoneWithoutSession
  <2>4. CASE proc # "up"
    <3>1. Throw(t) /\ UNCHANGED <<session, sessions, armed>>
      BY <1>1, <2>4 DEF NewSession
    <3> QED BY <1>a, <2>2, <3>1, ThrowStep, QuietStep DEF RulesHaveSessions
  <2> QED BY <2>3, <2>4
<1>2. ASSUME NEW t \in Tests, Control(t) PROVE IInv'
  <2>1. At(t, "control") /\ phase[t] # "done" /\ session' = session
    BY <1>2 DEF Control, At
  <2>2. CASE Advance(t, 1) /\ Serve(t, Now(t))
    <3>1. PlacesOK' /\ NoneDone BY <1>a, <2>1, <2>2, OtherAwait
    <3> QED BY <1>a, <2>1, <2>2, <3>1, ServeStep, QuietStep
  <2>3. CASE Throw(t) /\ (Serve(t, Now(t)) \/ UNCHANGED serverVars)
    <3>1. RulesHaveSessions' /\ sessions' \subseteq sessions
      BY <1>a, <2>3, ServeStep DEF serverVars, RulesHaveSessions
    <3> QED BY <1>a, <2>1, <2>3, <3>1, ThrowStep, QuietStep
  <2> QED BY <1>2, <2>2, <2>3 DEF Control
<1>3. ASSUME NEW t \in Tests, Clear(t) PROVE IInv'
  <2>1. At(t, "clear") /\ phase[t] # "done" /\ session' = session
    BY <1>3 DEF Clear, At
  <2>2. CASE Advance(t, 1) /\ ((t \notin session /\ UNCHANGED serverVars) \/ Serve(t, Now(t)))
    <3>1. RulesHaveSessions' /\ sessions' \subseteq sessions
      BY <1>a, <2>2, ServeStep DEF serverVars, RulesHaveSessions
    <3>2. phase[t] = "hook" /\ step[t] + 1 > Len(Hook[t]) => t \notin sessions'
      <4> SUFFICES ASSUME phase[t] = "hook", step[t] + 1 > Len(Hook[t]) PROVE t \notin sessions'
        OBVIOUS
      <4>1. step[t] = Len(Hook[t]) BY <1>a, HookAssumption DEF PlacesOK
      <4>2. Now(t).op = "clear" BY <4>1, HookAssumption DEF Now, Steps
      <4> QED BY <1>a, <2>2, <4>2 DEF Serve, Known, serverVars
    <3>3. PlacesOK'
      BY <1>a, <2>1, <2>2, AdvanceStep
    <3>4. \A u \in Tests : phase'[u] = "done" /\ u \notin swallowed' =>
            (phase[u] = "done" /\ u \notin swallowed) \/ (u = t /\ t \notin sessions')
      <4>1. \A u \in Tests : phase'[u] = "done" /\ u \notin swallowed' =>
              \/ phase[u] = "done" /\ u \notin swallowed
              \/ u = t /\ phase[t] = "hook" /\ step[t] + 1 > Len(Hook[t])
        BY <1>a, <2>1, <2>2, AdvanceStep
      <4> QED BY <3>2, <4>1
    <3>5. DoneWithoutSession' BY <1>a, <3>1, <3>4 DEF DoneWithoutSession
    <3> QED BY <1>a, <2>1, <3>1, <3>3, <3>5 DEF IInv
  <2>3. CASE Throw(t) /\ UNCHANGED serverVars
    <3>1. RulesHaveSessions' /\ sessions' \subseteq sessions
      BY <1>a, <2>3 DEF serverVars, RulesHaveSessions
    <3> QED BY <1>a, <2>1, <2>3, <3>1, ThrowStep, QuietStep
  <2> QED BY <1>3, <2>2, <2>3 DEF Clear
<1>4. ASSUME NEW t \in Tests, CallTimesOut(t) PROVE IInv'
  <2>1. phase[t] # "done" /\ Throw(t) /\ UNCHANGED <<session, serverVars>>
    BY <1>4 DEF CallTimesOut, At
  <2>2. RulesHaveSessions' /\ sessions' \subseteq sessions
    BY <1>a, <2>1 DEF serverVars, RulesHaveSessions
  <2> QED BY <1>a, <2>1, <2>2, ThrowStep, QuietStep
<1>5. ASSUME NEW t \in Tests,
             \/ Status(t) \/ Poll(t) \/ IfDown(t) \/ Compose(t) \/ ComposeThrows(t) \/ Submit(t)
      PROVE  IInv'
  <2>1. UNCHANGED <<session, serverVars>>
    BY <1>5 DEF Status, Poll, IfDown, Compose, ComposeThrows, Submit
  <2>2. RulesHaveSessions' /\ sessions' \subseteq sessions
    BY <1>a, <2>1 DEF serverVars, RulesHaveSessions
  <2>3. phase[t] # "done"
    BY <1>5 DEF Status, Poll, IfDown, Compose, ComposeThrows, Submit, At
  <2>4. CASE Throw(t)
    BY <1>a, <2>1, <2>2, <2>3, <2>4, ThrowStep, QuietStep
  <2>5. CASE UNCHANGED <<phase, step, swallowed>>
    <3>1. PlacesOK' /\ NoneDone BY <1>a, <2>5 DEF PlacesOK, NoneDone
    <3> QED BY <2>1, <2>2, <3>1, QuietStep
  <2>6. ASSUME NEW kind \in {"status", "poll", "ifDown", "compose", "submit"}, At(t, kind),
               NEW k \in {1, 3}, Advance(t, k), k = 3 => kind = "ifDown"
        PROVE  IInv'
    <3>1. PlacesOK' /\ NoneDone BY <1>a, <2>6, OtherAwait
    <3> QED BY <2>1, <2>2, <3>1, QuietStep
  <2>7. CASE Status(t) BY <2>4, <2>6, <2>7 DEF Status
  <2>8. CASE Poll(t) BY <2>4, <2>5, <2>6, <2>8 DEF Poll, Again
  <2>9. CASE IfDown(t) BY <2>6, <2>9 DEF IfDown
  <2>10. CASE Compose(t) BY <2>6, <2>10 DEF Compose
  <2>11. CASE ComposeThrows(t) BY <2>4, <2>6, <2>11 DEF ComposeThrows
  <2>12. CASE Submit(t) BY <2>6, <2>12 DEF Submit
  <2> QED BY <1>5, <2>7, <2>8, <2>9, <2>10, <2>11, <2>12
<1>6. ASSUME NEW t \in Tests, Check(t) PROVE IInv'
  <2>1. PlacesOK' /\ NoneDone /\ sessions' = sessions /\ session' = session
    BY <1>6, <1>a DEF Check, clientVars, PlacesOK, NoneDone
  <2> QED BY <1>a, <1>6, <2>1, CheckStep, QuietStep
<1>7. CASE ServedLate
  <2>1. PlacesOK' /\ NoneDone /\ session' = session
    BY <1>7, <1>a DEF ServedLate, clientVars, PlacesOK, NoneDone
  <2>2. PICK l \in limbo : Serve(l.test, l.request) BY <1>7 DEF ServedLate
  <2> QED BY <1>a, <2>1, <2>2, ServeStep, QuietStep
<1>8. CASE Boots \/ UNCHANGED vars
  <2>1. UNCHANGED <<clientVars, serverVars>> BY <1>8 DEF Boots, vars
  <2>2. PlacesOK' /\ NoneDone /\ RulesHaveSessions' /\ sessions' = sessions /\ session' = session
    BY <1>a, <2>1 DEF clientVars, serverVars, PlacesOK, NoneDone, RulesHaveSessions
  <2> QED BY <2>2, QuietStep
<1> QED
  BY <1>1, <1>2, <1>3, <1>4, <1>5, <1>6, <1>7, <1>8 DEF Next, TestStep

LEMMA SpecIInv == Spec => []IInv
BY InitIInv, NextIInv, PTL DEF Spec

\* A hook that ended without a throw has removed its test's rules for good:
\* any number of tests, of rules and of requests that are served late.
THEOREM NoRuleOutlivesItsHook == Spec => []RulesDieWithTheHook
<1>1. IInv => RulesDieWithTheHook
  BY DEF IInv, RulesHaveSessions, DoneWithoutSession, RulesDieWithTheHook
<1> QED BY <1>1, SpecIInv, PTL
(***************************************************************************)
(* What a passing test has read in the log.                                *)
(***************************************************************************)
\* An event in a session's log is of a rule that fired.
LogTold ==
  /\ log = [u \in Tests |-> [p \in Points |-> log[u][p]]]
  /\ \A u \in Tests, p \in Points : <<u, p>> \notin fired => log[u][p] = 0

\* An await that reads the log, and those before the n-th have seen theirs fire.
Reads(t, j) ==
  \/ Body[t][j].kind = "status" /\ Body[t][j].atLeast > 0
  \/ Body[t][j].kind = "poll" /\ Body[t][j].until = "fired"
SeenBefore(t, n) ==
  \A j \in 1 .. Len(Body[t]) : j < n /\ Reads(t, j) => <<t, Body[t][j].point>> \in fired

BodyOf(t) ==
  /\ phase[t] = "body" => step[t] \in 1 .. Len(Body[t]) /\ SeenBefore(t, step[t])
  /\ verdict[t] = "passed" => SeenBefore(t, Len(Body[t]) + 1)

ScriptTyped ==
  /\ phase \in [Tests -> {"body", "hook", "done"}] /\ DOMAIN step = Tests
  /\ DOMAIN verdict = Tests

ReadInv == LogTold /\ ScriptTyped /\ \A t \in Tests : BodyOf(t)

\* What was seen stays seen; a test that does not step stays where it is.
LEMMA StaysSeen ==
  ASSUME fired \subseteq fired', NEW t \in Tests, BodyOf(t),
         phase'[t] = phase[t], step'[t] = step[t], verdict'[t] = verdict[t]
  PROVE  BodyOf(t)'
BY DEF BodyOf, SeenBefore

\* An await that throws passes nothing.
LEMMA ThrowSees ==
  ASSUME ReadInv, NEW t \in Tests, phase[t] # "done", Throw(t), fired' = fired
  PROVE  ScriptTyped' /\ \A u \in Tests : BodyOf(u)'
<1>1. /\ ScriptTyped /\ phase[t] \in {"body", "hook"}
      /\ \A u \in Tests : BodyOf(u)
  BY DEF ReadInv, ScriptTyped
<1>2. /\ step' = [step EXCEPT ![t] = 1]
      /\ \/ phase[t] = "body" /\ phase' = [phase EXCEPT ![t] = "hook"]
              /\ verdict' = [verdict EXCEPT ![t] = "failed"]
         \/ phase[t] = "hook" /\ phase' = [phase EXCEPT ![t] = "done"] /\ verdict' = verdict
  BY <1>1 DEF Throw, Leave
<1>3. ScriptTyped'
  BY <1>1, <1>2 DEF ScriptTyped
<1>4. BodyOf(t)'
  BY <1>1, <1>2 DEF ScriptTyped, BodyOf, SeenBefore
<1>5. ASSUME NEW u \in Tests, u # t
      PROVE  BodyOf(u)'
  <2>1. phase'[u] = phase[u] /\ step'[u] = step[u] /\ verdict'[u] = verdict[u]
    BY <1>1, <1>2, <1>5 DEF ScriptTyped
  <2> QED  BY <1>1, <2>1, StaysSeen
<1> QED  BY <1>3, <1>4, <1>5

\* An await that is over has seen what it reads.
LEMMA AdvanceSees ==
  ASSUME ReadInv, NEW t \in Tests, phase[t] # "done", fired' = fired,
         NEW k \in {1, 3}, Advance(t, k),
         phase[t] = "body" =>
           k = 1 /\ (Reads(t, step[t]) => <<t, Body[t][step[t]].point>> \in fired)
  PROVE  ScriptTyped' /\ \A u \in Tests : BodyOf(u)'
<1>1. /\ ScriptTyped /\ phase[t] \in {"body", "hook"}
      /\ Len(Body[t]) \in Nat \ {0} /\ \A u \in Tests : BodyOf(u)
  BY BodyAssumption DEF ReadInv, ScriptTyped
<1>2. phase[t] = "body" => step[t] \in 1 .. Len(Body[t]) /\ SeenBefore(t, step[t] + 1)
  BY <1>1 DEF BodyOf, SeenBefore
<1>3. \/ step' = [step EXCEPT ![t] = @ + k] /\ UNCHANGED <<phase, verdict>>
           /\ step[t] + k <= Len(Steps(t))
      \/ /\ ~(step[t] + k <= Len(Steps(t))) /\ step' = [step EXCEPT ![t] = 1]
         /\ \/ phase[t] = "body" /\ phase' = [phase EXCEPT ![t] = "hook"]
                 /\ verdict' = [verdict EXCEPT ![t] = "passed"]
            \/ phase[t] = "hook" /\ phase' = [phase EXCEPT ![t] = "done"] /\ verdict' = verdict
  BY <1>1 DEF Advance, Leave
<1>4. ScriptTyped'
  BY <1>1, <1>3 DEF ScriptTyped
<1>5. BodyOf(t)'
  <2>1. CASE phase[t] = "body"
    <3>1. k = 1 /\ Steps(t) = Body[t] /\ step[t] \in 1 .. Len(Body[t])
      BY <1>2, <2>1 DEF Steps
    <3>2. CASE step[t] + 1 <= Len(Body[t])
      <4>1. step'[t] = step[t] + 1 /\ UNCHANGED <<phase, verdict>>
        BY <1>1, <1>3, <3>1, <3>2 DEF ScriptTyped
      <4> QED  BY <1>1, <1>2, <2>1, <3>1, <3>2, <4>1 DEF BodyOf, SeenBefore
    <3>3. CASE ~(step[t] + 1 <= Len(Body[t]))
      <4>1. step[t] + 1 = Len(Body[t]) + 1
        BY <1>1, <3>1, <3>3
      <4>2. phase'[t] = "hook"
        BY <1>1, <1>3, <2>1, <3>1, <3>3 DEF ScriptTyped
      <4>3. SeenBefore(t, Len(Body[t]) + 1)
        BY <1>2, <2>1, <4>1
      <4> QED  BY <4>2, <4>3 DEF BodyOf, SeenBefore
    <3> QED  BY <3>2, <3>3
  <2>2. CASE phase[t] = "hook"
    <3>1. phase'[t] # "body" /\ verdict' = verdict
      BY <1>1, <1>3, <2>2 DEF ScriptTyped
    <3> QED  BY <1>1, <3>1 DEF BodyOf, SeenBefore
  <2> QED  BY <1>1, <2>1, <2>2
<1>6. ASSUME NEW u \in Tests, u # t
      PROVE  BodyOf(u)'
  <2>1. phase'[u] = phase[u] /\ step'[u] = step[u] /\ verdict'[u] = verdict[u]
    BY <1>1, <1>3, <1>6 DEF ScriptTyped
  <2> QED  BY <1>1, <2>1, StaysSeen
<1> QED  BY <1>4, <1>5, <1>6

\* A request empties a log or leaves it.
LEMMA ServeTold ==
  ASSUME LogTold, NEW t \in Tests, NEW s, fired' = fired, Serve(t, s) \/ UNCHANGED serverVars
  PROVE  LogTold'
<1>1. log' = log \/ log' = [log EXCEPT ![t] = [p \in Points |-> 0]]
  BY DEF Serve, serverVars
<1>2. CASE log' = log
  BY <1>2 DEF LogTold
<1>3. CASE log' = [log EXCEPT ![t] = [p \in Points |-> 0]]
  <2>1. DOMAIN log = Tests
    BY DEF LogTold
  <2>2. \A u \in Tests : log'[u] = IF u = t THEN [p \in Points |-> 0] ELSE log[u]
    BY <1>3, <2>1
  <2>3. log' = [u \in Tests |-> log'[u]]
    BY <1>3, <2>1
  <2>4. \A u \in Tests : log[u] = [p \in Points |-> log[u][p]]
    BY DEF LogTold
  <2>5. \A u \in Tests : log'[u] = [p \in Points |-> log'[u][p]]
    BY <2>2, <2>4
  <2> QED  BY <2>2, <2>3, <2>5 DEF LogTold
<1> QED  BY <1>1, <1>2, <1>3

\* A fault point logs the rules it fires, in their own sessions.
LEMMA CheckTold ==
  ASSUME LogTold, NEW t \in Tests, Check(t)
  PROVE  LogTold' /\ fired \subseteq fired'
<1> DEFINE p == Route[t][pos[t]]
           rs == Firing(p)
           of(u) == {r \in rs : r.session = u}
<1>1. /\ log' = [u \in Tests |-> [log[u] EXCEPT ![p] = @ + Cardinality(of(u))]]
      /\ fired' = fired \cup {<<r.session, p>> : r \in rs}
  BY DEF Check
<1> HIDE DEF p, rs
<1>2. ASSUME NEW u \in Tests, NEW q \in Points, <<u, q>> \notin fired'
      PROVE  log'[u][q] = 0
  <2>1. log[u][q] = 0 /\ log[u] = [x \in Points |-> log[u][x]]
    BY <1>1, <1>2 DEF LogTold
  <2>2. CASE q = p
    <3>1. of(u) = {}
      BY <1>1, <1>2, <2>2
    <3>2. Cardinality(of(u)) = 0
      BY <3>1, FS_EmptySet
    <3> QED  BY <1>1, <2>1, <2>2, <3>2
  <2>3. CASE q # p
    BY <1>1, <2>1, <2>3
  <2> QED  BY <2>2, <2>3
<1>3. log' = [u \in Tests |-> [x \in Points |-> log'[u][x]]]
  <2>1. ASSUME NEW u \in Tests
        PROVE  log'[u] = [x \in Points |-> log'[u][x]]
    <3>1. log[u] = [x \in Points |-> log[u][x]]
      BY DEF LogTold
    <3> QED  BY <1>1, <3>1
  <2> QED  BY <1>1, <2>1
<1> QED  BY <1>1, <1>2, <1>3 DEF LogTold

LEMMA InitReadInv == Init => ReadInv
<1> SUFFICES ASSUME Init PROVE ReadInv
  OBVIOUS
<1>1. LogTold
  BY DEF Init, LogTold
<1>2. ScriptTyped
  BY DEF Init, ScriptTyped
<1>3. ASSUME NEW t \in Tests
      PROVE  BodyOf(t)
  <2>1. step[t] = 1 /\ verdict[t] = "none" /\ Len(Body[t]) \in Nat \ {0}
    BY BodyAssumption DEF Init
  <2> QED  BY <2>1 DEF BodyOf, SeenBefore
<1> QED  BY <1>1, <1>2, <1>3 DEF ReadInv

LEMMA NextReadInv == ReadInv /\ [Next]_vars => ReadInv'
<1> SUFFICES ASSUME ReadInv, [Next]_vars PROVE ReadInv'
  OBVIOUS
<1>a. LogTold /\ ScriptTyped /\ \A t \in Tests : BodyOf(t)
  BY DEF ReadInv
<1>b. ASSUME NEW t \in Tests, phase[t] = "body"
      PROVE  /\ step[t] \in 1 .. Len(Body[t]) /\ Now(t) = Body[t][step[t]]
             /\ \A kind : At(t, kind) <=> Body[t][step[t]].kind = kind
  BY <1>a, <1>b DEF BodyOf, Now, At, Steps
<1>1. ASSUME NEW t \in Tests, fired' = fired, phase[t] # "done",
             NEW kind \in {"newSession", "control", "clear", "compose", "submit"}, At(t, kind),
             Advance(t, 1)
      PROVE  ScriptTyped' /\ \A u \in Tests : BodyOf(u)'
  <2>1. phase[t] = "body" => ~Reads(t, step[t])
    BY <1>b, <1>1 DEF Reads
  <2> QED  BY <1>1, <2>1, AdvanceSees
<1>2. ASSUME NEW t \in Tests, TestStep(t)
      PROVE  ReadInv'
  <2>1. fired' = fired /\ phase[t] # "done"
    BY <1>2 DEF TestStep, NewSession, Control, Clear, CallTimesOut, Status, Poll, IfDown, Compose,
                ComposeThrows, Submit, At
  <2>2. LogTold'
    <3>1. \/ log' = log
          \/ Serve(t, Now(t)) \/ UNCHANGED serverVars
      BY <1>2 DEF TestStep, NewSession, Control, Clear, CallTimesOut, Status, Poll, IfDown,
                  Compose, ComposeThrows, Submit
    <3>2. CASE log' = log
      BY <1>a, <2>1, <3>2 DEF LogTold
    <3> QED  BY <1>a, <2>1, <3>1, <3>2, ServeTold
  <2>3. ASSUME Throw(t) PROVE ReadInv'
    BY <2>1, <2>2, <2>3, ThrowSees DEF ReadInv
  <2>4. ASSUME NEW kind \in {"newSession", "control", "clear", "compose", "submit"},
               At(t, kind), Advance(t, 1)
        PROVE  ReadInv'
    BY <1>1, <2>1, <2>2, <2>4 DEF ReadInv
  <2>5. CASE NewSession(t) BY <2>3, <2>4, <2>5 DEF NewSession
  <2>6. CASE Control(t) BY <2>3, <2>4, <2>6 DEF Control
  <2>7. CASE Clear(t) BY <2>3, <2>4, <2>7 DEF Clear
  <2>8. CASE CallTimesOut(t) BY <2>3, <2>8 DEF CallTimesOut
  <2>9. CASE Status(t)
    <3>1. CASE Throw(t) BY <2>3, <3>1
    <3> DEFINE enough == IF Now(t).atLeast = 0
                           THEN \E r \in armed : r.session = t /\ r.point = Now(t).point
                           ELSE log[t][Now(t).point] >= Now(t).atLeast
    <3>2. CASE Advance(t, 1) /\ enough
      <4>1. ASSUME phase[t] = "body", Reads(t, step[t])
            PROVE  <<t, Body[t][step[t]].point>> \in fired
        <5> DEFINE p == Body[t][step[t]].point
                   n == Body[t][step[t]].atLeast
        <5>1. Body[t][step[t]].kind = "status" /\ step[t] \in 1 .. Len(Body[t])
          BY <1>b, <2>9, <4>1 DEF Status
        <5>2. n > 0 /\ p \in Points /\ n \in Nat
          BY <4>1, <5>1, BodyAssumption DEF Reads
        <5>3. log[t][p] >= n
          BY <1>b, <3>2, <4>1, <5>2
        <5> QED  BY <1>a, <5>2, <5>3 DEF LogTold
      <4> QED  BY <2>1, <2>2, <3>2, <4>1, AdvanceSees DEF ReadInv
    <3> QED BY <2>9, <3>1, <3>2 DEF Status
  <2>10. CASE Poll(t)
    <3>1. PICK alive \in BOOLEAN : IF Satisfied(t, alive) THEN Advance(t, 1) ELSE Again(t)
      BY <2>10 DEF Poll
    <3>2. CASE Throw(t) BY <2>3, <3>2
    <3>3. CASE UNCHANGED <<phase, step, verdict>>
      <4>1. ScriptTyped' BY <1>a, <3>3 DEF ScriptTyped
      <4>2. \A u \in Tests : BodyOf(u)' BY <1>a, <2>1, <3>3, StaysSeen
      <4> QED  BY <2>2, <4>1, <4>2 DEF ReadInv
    <3>4. CASE Satisfied(t, alive) /\ Advance(t, 1)
      <4>1. ASSUME phase[t] = "body", Reads(t, step[t])
            PROVE  <<t, Body[t][step[t]].point>> \in fired
        <5> DEFINE p == Body[t][step[t]].point
        <5>1. Body[t][step[t]].kind = "poll" /\ step[t] \in 1 .. Len(Body[t])
          BY <1>b, <2>10, <4>1 DEF Poll
        <5>2. Body[t][step[t]].until = "fired" /\ p \in Points
          BY <4>1, <5>1, BodyAssumption DEF Reads
        <5>3. log[t][p] > 0
          BY <1>b, <3>4, <4>1, <5>2 DEF Satisfied
        <5> QED  BY <1>a, <5>2, <5>3 DEF LogTold
      <4> QED  BY <2>1, <2>2, <3>4, <4>1, AdvanceSees DEF ReadInv
    <3> QED  BY <3>1, <3>2, <3>3, <3>4 DEF Again
  <2>11. CASE IfDown(t)
    <3>1. phase[t] # "body"
      BY <1>b, <2>11, BodyAssumption DEF IfDown
    <3>2. PICK k \in {1, 3} : Advance(t, k)
      BY <2>11 DEF IfDown
    <3> QED  BY <2>1, <2>2, <3>1, <3>2, AdvanceSees DEF ReadInv
  <2>12. CASE Compose(t) BY <2>4, <2>12 DEF Compose
  <2>13. CASE ComposeThrows(t) BY <2>3, <2>4, <2>13 DEF ComposeThrows
  <2>14. CASE Submit(t) BY <2>4, <2>14 DEF Submit
  <2> QED  BY <1>2, <2>5, <2>6, <2>7, <2>8, <2>9, <2>10, <2>11, <2>12, <2>13, <2>14 DEF TestStep
<1>3. ASSUME UNCHANGED clientVars, fired \subseteq fired', LogTold'
      PROVE  ReadInv'
  <2>1. ScriptTyped' BY <1>a, <1>3 DEF clientVars, ScriptTyped
  <2>2. \A u \in Tests : BodyOf(u)' BY <1>a, <1>3, StaysSeen DEF clientVars
  <2> QED  BY <1>3, <2>1, <2>2 DEF ReadInv
<1>4. ASSUME NEW t \in Tests, Check(t) PROVE ReadInv'
  BY <1>a, <1>3, <1>4, CheckTold DEF Check
<1>5. CASE ServedLate
  <2>1. PICK l \in limbo : Serve(l.test, l.request) BY <1>5 DEF ServedLate
  <2>2. UNCHANGED clientVars /\ fired' = fired BY <1>5 DEF ServedLate
  <2>3. CASE l.test \in Tests BY <1>3, <1>a, <2>1, <2>2, <2>3, ServeTold
  <2>4. CASE l.test \notin Tests
    <3>1. log' = log \/ log' = [log EXCEPT ![l.test] = [p \in Points |-> 0]]
      BY <2>1 DEF Serve, serverVars
    <3>2. log' = log BY <1>a, <2>4, <3>1 DEF LogTold
    <3>3. LogTold' BY <1>a, <2>2, <3>2 DEF LogTold
    <3> QED  BY <1>3, <2>2, <3>3
  <2> QED  BY <2>3, <2>4
<1>6. CASE Boots \/ UNCHANGED vars
  <2>1. UNCHANGED clientVars /\ UNCHANGED serverVars /\ fired' = fired BY <1>6 DEF Boots, vars
  <2>2. LogTold' BY <1>a, <2>1 DEF serverVars, LogTold
  <2> QED  BY <1>3, <2>1, <2>2
<1> QED  BY <1>2, <1>4, <1>5, <1>6 DEF Next

\* No test passes vacuously: whichever neighbours share its relayer and its
\* points, a test that read trigger events and passed had its own rules fire.
THEOREM NoVacuousPass == Spec => []PassedMeansFired
<1>1. ReadInv => PassedMeansFired
  <2> SUFFICES ASSUME ReadInv, NEW t \in Tests, verdict[t] = "passed", NEW p \in PointsRead(t)
               PROVE  <<t, p>> \in fired
    BY DEF PassedMeansFired
  <2>1. /\ DOMAIN Body[t] = 1 .. Len(Body[t]) /\ Len(Body[t]) \in Nat
        /\ SeenBefore(t, Len(Body[t]) + 1)
    BY BodyAssumption DEF ReadInv, BodyOf
  <2>2. PICK j \in 1 .. Len(Body[t]) : Reads(t, j) /\ p = Body[t][j].point
    BY <2>1 DEF PointsRead, Reads
  <2> QED  BY <2>1, <2>2 DEF SeenBefore
<1> QED  BY <1>1, InitReadInv, NextReadInv, PTL DEF Spec
(***************************************************************************)
(* Who answers for a relayer that is not up.                               *)
(***************************************************************************)
WaitAhead(t) == phase[t] = "hook" /\ \E w \in step[t] .. Len(Hook[t]) : WaitsUp(Hook[t][w])

\* A test that has its hook, or its end, before it and holds a session; one whose
\* hook still waits for the relayer; one whose hook threw.
Answers(t) == t \in swallowed \/ (phase[t] # "done" /\ t \in session) \/ WaitAhead(t)

UpOrAnswered == proc # "up" => \E t \in Tests : Answers(t)

\* A body that is past its newSession() holds a session.
SessionFirst ==
  \A t \in Tests : phase[t] = "body" =>
    \A j \in 1 .. step[t] - 1 : Body[t][j].kind = "newSession" => t \in session

AliveInv == IInv /\ session \subseteq Tests /\ SessionFirst /\ UpOrAnswered

\* What the end of an await does to the script.
LEMMA ThrowMoves ==
  ASSUME PlacesOK, NEW t \in Tests, phase[t] # "done", Throw(t)
  PROVE  /\ step' = [step EXCEPT ![t] = 1] /\ \A u \in Tests \ {t} : phase'[u] = phase[u]
         /\ \/ phase[t] = "body" /\ phase'[t] = "hook" /\ swallowed' = swallowed
            \/ phase[t] = "hook" /\ phase'[t] = "done" /\ swallowed' = swallowed \cup {t}
BY DEF PlacesOK, Throw, Leave

LEMMA AdvanceMoves ==
  ASSUME PlacesOK, NEW t \in Tests, phase[t] # "done", NEW k \in {1, 3}, Advance(t, k)
  PROVE  /\ swallowed' = swallowed
         /\ \A u \in Tests \ {t} : phase'[u] = phase[u] /\ step'[u] = step[u]
         /\ \/ /\ step[t] + k <= Len(Steps(t)) /\ phase' = phase /\ step'[t] = step[t] + k
            \/ /\ ~(step[t] + k <= Len(Steps(t)))
               /\ \/ phase[t] = "body" /\ phase'[t] = "hook"
                  \/ phase[t] = "hook" /\ phase'[t] = "done"
<1>1. CASE step[t] + k <= Len(Steps(t))
  BY <1>1 DEF PlacesOK, Advance
<1>2. CASE ~(step[t] + k <= Len(Steps(t)))
  BY <1>2 DEF PlacesOK, Advance, Leave
<1> QED BY <1>1, <1>2

\* A test that fails an await goes on answering: by its hook, or as swallowed.
LEMMA ThrowAnswers ==
  ASSUME PlacesOK, NEW t \in Tests, phase[t] # "done", Throw(t), session \subseteq session'
  PROVE  \A u \in Tests : Answers(u) => Answers(u)'
<1>1. ASSUME NEW u \in Tests, Answers(u), u # t PROVE Answers(u)'
  <2>1. phase'[u] = phase[u] /\ step'[u] = step[u] /\ swallowed \subseteq swallowed'
    BY <1>1, ThrowMoves DEF PlacesOK
  <2> QED BY <1>1, <2>1 DEF Answers, WaitAhead
<1>2. ASSUME Answers(t) PROVE Answers(t)'
  <2>1. CASE phase[t] = "hook"
    BY <2>1, ThrowMoves DEF Answers
  <2>2. CASE phase[t] = "body"
    BY <1>2, <2>2, ThrowMoves DEF Answers, WaitAhead
  <2> QED BY <2>1, <2>2 DEF PlacesOK
<1> QED BY <1>1, <1>2

\* So does one that passes an await, unless that was its wait or its clear().
LEMMA AdvanceAnswers ==
  ASSUME PlacesOK, NEW t \in Tests, phase[t] # "done", Advance(t, 1), session \subseteq session',
         phase[t] = "hook" => ~WaitsUp(Hook[t][step[t]]),
         phase[t] = "hook" /\ t \in session => step[t] + 1 <= Len(Hook[t])
  PROVE  \A u \in Tests : Answers(u) => Answers(u)'
<1>1. ASSUME NEW u \in Tests, Answers(u), u # t PROVE Answers(u)'
  <2>1. phase'[u] = phase[u] /\ step'[u] = step[u] /\ swallowed' = swallowed
    BY <1>1, AdvanceMoves
  <2> QED BY <1>1, <2>1 DEF Answers, WaitAhead
<1>2. ASSUME Answers(t) PROVE Answers(t)'
  <2>0. swallowed' = swallowed BY AdvanceMoves
  <2>1. CASE t \in swallowed BY <2>0, <2>1 DEF Answers
  <2>2. CASE phase[t] = "body" /\ t \in session
    BY <2>2, AdvanceMoves DEF Answers
  <2>3. CASE phase[t] = "hook" /\ t \in session
    <3>1. step[t] + 1 <= Len(Steps(t)) BY <2>3 DEF Steps
    <3>2. phase' = phase BY <3>1, AdvanceMoves
    <3> QED BY <2>3, <3>2 DEF Answers
  <2>4. CASE WaitAhead(t)
    <3>1. PICK w \in step[t] .. Len(Hook[t]) : WaitsUp(Hook[t][w]) BY <2>4 DEF WaitAhead
    <3>2. phase[t] = "hook" /\ Steps(t) = Hook[t] /\ step[t] \in Nat /\ Len(Hook[t]) \in Nat
      BY <2>4, HookAssumption DEF WaitAhead, Steps, PlacesOK
    <3>3. w \in step[t] + 1 .. Len(Hook[t]) BY <3>1, <3>2
    <3>4. step[t] + 1 <= Len(Steps(t)) BY <3>2, <3>3
    <3>5. phase' = phase /\ step'[t] = step[t] + 1 BY <3>4, AdvanceMoves
    <3> QED BY <3>1, <3>2, <3>3, <3>5 DEF Answers, WaitAhead
  <2> QED BY <1>2, <2>1, <2>2, <2>3, <2>4 DEF Answers, PlacesOK
<1> QED BY <1>1, <1>2

\* Only clear() ends a hook.
LEMMA NotLast ==
  ASSUME PlacesOK, NEW t \in Tests, phase[t] = "hook", Hook[t][step[t]].kind # "clear"
  PROVE  step[t] + 1 <= Len(Hook[t])
<1>1. step[t] \in 1 .. Len(Hook[t]) /\ Len(Hook[t]) \in Nat BY HookAssumption DEF PlacesOK
<1>2. step[t] # Len(Hook[t]) BY HookAssumption
<1> QED BY <1>1, <1>2

\* A test that is about to touch the container answers for it.
LEMMA ComposerAnswers ==
  ASSUME PlacesOK, SessionFirst, NEW t \in Tests, At(t, "compose"),
         phase[t] = "body" => step[t] \in 1 .. Len(Body[t])
  PROVE  Answers(t)
<1>1. phase[t] # "done" /\ Steps(t)[step[t]].kind = "compose" BY DEF At
<1>2. CASE phase[t] = "body"
  <2>1. PICK j \in 1 .. step[t] - 1 : Body[t][j].kind = "newSession"
    BY <1>1, <1>2, ComposeAssumption DEF Steps
  <2> QED BY <1>1, <1>2, <2>1 DEF SessionFirst, Answers
<1>3. CASE phase[t] = "hook"
  <2>1. step[t] \in 1 .. Len(Hook[t]) /\ Len(Hook[t]) \in Nat
    BY <1>3, HookAssumption DEF PlacesOK
  <2>2. PICK w \in step[t] + 1 .. Len(Hook[t]) : WaitsUp(Hook[t][w])
    BY <1>1, <1>3, <2>1, ComposeAssumption DEF Steps
  <2>3. w \in step[t] .. Len(Hook[t]) BY <2>1, <2>2
  <2> QED BY <1>3, <2>2, <2>3 DEF Answers, WaitAhead
<1> QED BY <1>1, <1>2, <1>3 DEF PlacesOK

\* A test whose session the server knows answers for it.
LEMMA ArmerAnswers ==
  ASSUME IInv, NEW t \in Tests, t \in sessions
  PROVE  Answers(t)
BY DEF IInv, DoneWithoutSession, Answers

\* A step of a body that is not past the end, where a session was made if it was
\* the newSession().
LEMMA FirstThrow ==
  ASSUME PlacesOK, SessionFirst, NEW t \in Tests, phase[t] # "done", Throw(t),
         session \subseteq session'
  PROVE  SessionFirst'
<1> SUFFICES ASSUME NEW u \in Tests, phase'[u] = "body", NEW j \in 1 .. step'[u] - 1,
                    Body[u][j].kind = "newSession"
             PROVE  u \in session'
  BY DEF SessionFirst
<1>1. u # t /\ phase'[u] = phase[u] /\ step'[u] = step[u]
  BY ThrowMoves DEF PlacesOK
<1> QED BY <1>1 DEF SessionFirst

LEMMA FirstAdvance ==
  ASSUME PlacesOK, SessionFirst, NEW t \in Tests, phase[t] # "done", NEW k \in {1, 3}, Advance(t, k),
         session \subseteq session', phase[t] = "body" => k = 1,
         phase[t] = "body" /\ Body[t][step[t]].kind = "newSession" => t \in session'
  PROVE  SessionFirst'
<1> SUFFICES ASSUME NEW u \in Tests, phase'[u] = "body", NEW j \in 1 .. step'[u] - 1,
                    Body[u][j].kind = "newSession"
             PROVE  u \in session'
  BY DEF SessionFirst
<1>1. CASE u # t
  <2>1. phase'[u] = phase[u] /\ step'[u] = step[u] BY <1>1, AdvanceMoves
  <2> QED BY <2>1 DEF SessionFirst
<1>2. CASE u = t
  <2>1. phase[t] = "body" /\ step'[t] = step[t] + 1 /\ step[t] \in Nat
    BY <1>2, AdvanceMoves DEF PlacesOK
  <2>2. j = step[t] \/ j \in 1 .. step[t] - 1 BY <1>2, <2>1
  <2> QED BY <1>2, <2>1, <2>2 DEF SessionFirst
<1> QED BY <1>1, <1>2

LEMMA InitAlive == Init => AliveInv
BY InitIInv DEF Init, AliveInv, SessionFirst, UpOrAnswered

\* The script keeps a session before every step that needs one.
LEMMA NextFirst ==
  ASSUME AliveInv, ReadInv, Next
  PROVE  SessionFirst' /\ session \subseteq session' /\ session' \subseteq Tests
<1>a. PlacesOK /\ SessionFirst /\ session \subseteq Tests BY DEF AliveInv, IInv
<1>b. ASSUME UNCHANGED clientVars
      PROVE  SessionFirst' /\ session \subseteq session' /\ session' \subseteq Tests
  BY <1>a, <1>b DEF clientVars, SessionFirst
<1>1. ASSUME NEW t \in Tests, TestStep(t)
      PROVE  SessionFirst' /\ session \subseteq session' /\ session' \subseteq Tests
  <2>0. phase[t] # "done" /\ (phase[t] = "body" => step[t] \in 1 .. Len(Body[t]))
    BY <1>1 DEF ReadInv, BodyOf, TestStep, NewSession, Control, Clear, CallTimesOut, Status, Poll,
                IfDown, Compose, ComposeThrows, Submit, At
  <2>1. session \subseteq session' /\ session' \subseteq Tests
    BY <1>1, <1>a DEF TestStep, NewSession, Control, Clear, CallTimesOut, Status, Poll, IfDown,
                      Compose, ComposeThrows, Submit
  <2>2. CASE Throw(t) BY <1>a, <2>0, <2>1, <2>2, FirstThrow
  <2>3. ASSUME NEW kind \in {"control", "clear", "status", "poll", "compose", "submit"},
               At(t, kind), Advance(t, 1)
        PROVE  SessionFirst'
    <3>1. phase[t] = "body" => Body[t][step[t]].kind # "newSession" BY <2>3 DEF At, Steps
    <3> QED BY <1>a, <2>0, <2>1, <2>3, <3>1, FirstAdvance
  <2>4. CASE UNCHANGED <<phase, step>> BY <1>a, <2>1, <2>4 DEF SessionFirst
  <2>5. CASE NewSession(t)
    <3>1. CASE proc = "up"
      <4>1. Advance(t, 1) /\ t \in session' BY <2>5, <3>1 DEF NewSession
      <4> QED BY <1>a, <2>0, <2>1, <4>1, FirstAdvance
    <3>2. CASE proc # "up" BY <2>1, <2>2, <2>5, <3>2 DEF NewSession
    <3> QED BY <2>1, <3>1, <3>2
  <2>6. CASE IfDown(t)
    <3>1. phase[t] # "body"
      BY <2>0, <2>6, BodyAssumption DEF IfDown, At, Steps
    <3>2. PICK k \in {1, 3} : Advance(t, k) BY <2>6 DEF IfDown
    <3> QED BY <1>a, <2>0, <2>1, <3>1, <3>2, FirstAdvance
  <2>7. CASE Control(t) BY <2>1, <2>2, <2>3, <2>7 DEF Control
  <2>8. CASE Clear(t) BY <2>1, <2>2, <2>3, <2>8 DEF Clear
  <2>9. CASE CallTimesOut(t) BY <2>1, <2>2, <2>9 DEF CallTimesOut
  <2>10. CASE Status(t) BY <2>1, <2>2, <2>3, <2>10 DEF Status
  <2>11. CASE Poll(t) BY <2>1, <2>2, <2>3, <2>4, <2>11 DEF Poll, Again
  <2>12. CASE Compose(t) BY <2>1, <2>3, <2>12 DEF Compose
  <2>13. CASE ComposeThrows(t) BY <2>1, <2>2, <2>3, <2>13 DEF ComposeThrows
  <2>14. CASE Submit(t) BY <2>1, <2>3, <2>14 DEF Submit
  <2> QED BY <1>1, <2>5, <2>6, <2>7, <2>8, <2>9, <2>10, <2>11, <2>12, <2>13, <2>14 DEF TestStep
<1>2. ASSUME NEW t \in Tests, Check(t)
      PROVE  SessionFirst' /\ session \subseteq session' /\ session' \subseteq Tests
  BY <1>2, <1>b DEF Check
<1>3. CASE ServedLate \/ Boots BY <1>3, <1>b DEF ServedLate, Boots
<1> QED BY <1>1, <1>2, <1>3 DEF Next

\* A step that takes the relayer down is answered for by who took it, and one that
\* finds it down relieves nobody.
LEMMA NextAnswered ==
  ASSUME AliveInv, ReadInv, Next, session \subseteq session'
  PROVE  UpOrAnswered'
<1> SUFFICES ASSUME proc' # "up" PROVE \E u \in Tests : Answers(u)'
  BY DEF UpOrAnswered
<1>a. PlacesOK /\ SessionFirst /\ IInv /\ UpOrAnswered BY DEF AliveInv, IInv
<1>1. ASSUME NEW t \in Tests, TestStep(t)
      PROVE  \E u \in Tests : Answers(u)'
  <2>0. phase[t] # "done" /\ (phase[t] = "body" => step[t] \in 1 .. Len(Body[t]))
    BY <1>1 DEF ReadInv, BodyOf, TestStep, NewSession, Control, Clear, CallTimesOut, Status, Poll,
                IfDown, Compose, ComposeThrows, Submit, At
  <2>1. CASE (\E u \in Tests : Answers(u)) /\ Throw(t)
    BY <1>a, <2>0, <2>1, ThrowAnswers
  <2>2. ASSUME \E u \in Tests : Answers(u), Advance(t, 1),
               phase[t] = "hook" => Hook[t][step[t]].kind # "clear" /\ ~WaitsUp(Hook[t][step[t]])
        PROVE  \E u \in Tests : Answers(u)'
    <3>1. phase[t] = "hook" => step[t] + 1 <= Len(Hook[t]) BY <1>a, <2>2, NotLast
    <3>2. \A u \in Tests : Answers(u) => Answers(u)'
      BY <1>a, <2>0, <2>2, <3>1, AdvanceAnswers
    <3> QED BY <2>2, <3>2
  <2>3. ASSUME proc # "up" PROVE \E u \in Tests : Answers(u)
    BY <1>a, <2>3 DEF UpOrAnswered
  <2>4. ASSUME NEW kind, At(t, kind), phase[t] = "hook" PROVE Hook[t][step[t]].kind = kind
    BY <2>4 DEF At, Steps
  <2>5. CASE NewSession(t)
    <3>1. proc # "up" BY <2>5 DEF NewSession, processVars
    <3> QED BY <2>1, <2>3, <2>5, <3>1 DEF NewSession
  <2>6. CASE Control(t)
    <3>1. proc # "up" BY <2>6 DEF Control, processVars
    <3> QED BY <2>1, <2>3, <2>6, <3>1 DEF Control
  <2>7. CASE Clear(t)
    <3>1. proc # "up" BY <2>7 DEF Clear, processVars
    <3>2. CASE Throw(t) BY <2>1, <2>3, <3>1, <3>2
    <3>3. CASE t \notin session /\ Advance(t, 1)
      <4>1. phase[t] = "hook" => ~WaitsUp(Hook[t][step[t]])
        BY <2>4, <2>7 DEF Clear, WaitsUp
      <4>2. \A u \in Tests : Answers(u) => Answers(u)'
        BY <1>a, <2>0, <3>3, <4>1, AdvanceAnswers
      <4> QED BY <2>3, <3>1, <4>2
    <3> QED BY <2>7, <3>1, <3>2, <3>3 DEF Clear
  <2>8. CASE CallTimesOut(t)
    <3>1. proc # "up" BY <2>8 DEF CallTimesOut
    <3> QED BY <2>1, <2>3, <2>8, <3>1 DEF CallTimesOut
  <2>9. CASE Status(t)
    <3>1. proc # "up" BY <2>9 DEF Status, processVars
    <3> QED BY <2>1, <2>3, <2>9, <3>1 DEF Status
  <2>10. CASE Poll(t)
    <3>1. proc # "up" BY <2>10 DEF Poll, processVars
    <3>2. PICK alive \in BOOLEAN :
            Probe(alive) /\ IF Satisfied(t, alive) THEN Advance(t, 1) ELSE Again(t)
      BY <2>10 DEF Poll
    <3>3. alive = FALSE BY <3>1, <3>2 DEF Probe
    <3>4. CASE Throw(t) BY <2>1, <2>3, <3>1, <3>4
    <3>5. CASE UNCHANGED <<phase, step, swallowed>>
      <4>1. \A u \in Tests : Answers(u) => Answers(u)' BY <3>5 DEF Answers, WaitAhead
      <4> QED BY <2>3, <3>1, <4>1
    <3>6. CASE Satisfied(t, alive) /\ Advance(t, 1)
      <4>1. phase[t] = "hook" => Hook[t][step[t]].kind = "poll" /\ Now(t) = Hook[t][step[t]]
        BY <2>4, <2>10 DEF Poll, Now, Steps
      <4>2. Now(t).until # "up" BY <3>3, <3>6 DEF Satisfied
      <4> QED BY <2>2, <2>3, <3>1, <3>6, <4>1, <4>2 DEF WaitsUp
    <3> QED BY <3>2, <3>4, <3>5, <3>6 DEF Again
  <2>11. CASE IfDown(t)
    <3>1. proc # "up" BY <2>11 DEF IfDown, processVars
    <3>2. Advance(t, 1) BY <2>11, <3>1 DEF IfDown, Probe
    <3>3. phase[t] = "hook" => Hook[t][step[t]].kind = "ifDown" BY <2>4, <2>11 DEF IfDown
    <3> QED BY <2>2, <2>3, <3>1, <3>2, <3>3 DEF WaitsUp
  <2>12. CASE Compose(t) \/ ComposeThrows(t)
    <3>1. At(t, "compose") /\ (Advance(t, 1) \/ Throw(t))
      BY <2>12 DEF Compose, ComposeThrows
    <3>2. Answers(t) BY <1>a, <2>0, <3>1, ComposerAnswers
    <3>3. phase[t] = "hook" => Hook[t][step[t]].kind = "compose" BY <2>4, <3>1
    <3> QED BY <2>1, <2>2, <3>1, <3>2, <3>3 DEF WaitsUp
  <2>13. CASE Submit(t)
    <3>1. proc # "up" /\ Advance(t, 1) BY <2>13 DEF Submit
    <3>2. phase[t] = "hook" => Hook[t][step[t]].kind = "submit" BY <2>4, <2>13 DEF Submit
    <3> QED BY <2>2, <2>3, <3>1, <3>2 DEF WaitsUp
  <2> QED BY <1>1, <2>5, <2>6, <2>7, <2>8, <2>9, <2>10, <2>11, <2>12, <2>13 DEF TestStep
<1>2. ASSUME NEW t \in Tests, Check(t) PROVE \E u \in Tests : Answers(u)'
  <2> DEFINE rs == Firing(Route[t][pos[t]])
  <2>1. proc' \in After(rs) /\ UNCHANGED <<phase, step, session, swallowed>>
    BY <1>2 DEF Check, clientVars
  <2>2. rs \subseteq armed BY DEF Firing
  <2> HIDE DEF rs
  <2>3. PICK r \in rs : TRUE BY <2>1 DEF After
  <2>4. r.session \in sessions /\ r.session \in Tests
    BY <2>2, <2>3 DEF AliveInv, IInv, RulesHaveSessions
  <2>5. Answers(r.session) BY <1>a, <2>4, ArmerAnswers
  <2>6. Answers(r.session)' BY <2>1, <2>5 DEF Answers, WaitAhead
  <2> QED BY <2>4, <2>6
<1>3. CASE ServedLate BY <1>3 DEF ServedLate
<1>4. CASE Boots BY <1>4 DEF Boots
<1> QED BY <1>1, <1>2, <1>3, <1>4 DEF Next

LEMMA NextAlive == AliveInv /\ ReadInv /\ [Next]_vars => AliveInv'
<1>1. ASSUME AliveInv, ReadInv, Next PROVE AliveInv'
  <2>1. IInv' BY <1>1, NextIInv DEF AliveInv
  <2> QED BY <1>1, <2>1, NextFirst, NextAnswered DEF AliveInv
<1>2. ASSUME AliveInv, UNCHANGED vars PROVE AliveInv'
  <2>1. IInv' BY <1>2, NextIInv DEF AliveInv
  <2> QED BY <1>2, <2>1
      DEF AliveInv, vars, clientVars, processVars, SessionFirst, UpOrAnswered, Answers, WaitAhead
<1> QED BY <1>1, <1>2

\* The relayer all of them crashed and restarted is up when every hook has ended
\* and none has thrown: any number of tests, of crashes and of failed calls.
THEOREM RelayerHandedOver == Spec => []HandedOverAlive
<1>1. AliveInv => HandedOverAlive
  BY DEF AliveInv, UpOrAnswered, Answers, WaitAhead, HandedOverAlive
<1> QED BY <1>1, InitAlive, NextAlive, InitReadInv, NextReadInv, PTL DEF Spec
(***************************************************************************)
(* Types                                                                   *)
(***************************************************************************)

\* A bounded set of numbers has its maximum: the least of its bounds.
LEMMA MaxOfNats ==
  ASSUME NEW S, S \subseteq Nat, S # {}, NEW n \in Nat, \A x \in S : x <= n
  PROVE  Max(S) \in S /\ \A x \in S : x <= Max(S)
<1> DEFINE T == {m \in Nat : \A x \in S : x <= m}
           R == OpToRel(<, Nat)
<1>1. PICK m \in T : \A y \in T : ~(<<y, m>> \in R)
  <2>1. n \in T /\ T \subseteq Nat OBVIOUS
  <2>2. IsWellFoundedOn(R, Nat) BY NatLessThanWellFounded
  <2> HIDE DEF T, R
  <2> QED BY <2>1, <2>2, WFMin
<1>2. m \in S
  <2> SUFFICES ASSUME m \notin S PROVE FALSE
    OBVIOUS
  <2>1. PICK x \in S : TRUE OBVIOUS
  <2>2. m - 1 \in Nat /\ \A y \in S : y <= m - 1
    <3>1. \A y \in S : y \in Nat /\ y <= m /\ y # m OBVIOUS
    <3> QED BY <2>1, <3>1
  <2>3. m - 1 \in T /\ m \in Nat BY <2>2
  <2>4. <<m - 1, m>> \in R BY <2>2, <2>3 DEF OpToRel
  <2> QED BY <1>1, <2>3, <2>4
<1>3. \A x \in S : m >= x OBVIOUS
<1>4. Max(S) \in S /\ \A x \in S : Max(S) >= x
  BY <1>2, <1>3 DEF Max
<1>5. Max(S) \in Nat BY <1>4
<1> QED BY <1>4, <1>5

\* What a request arms is a rule the server accepts.
ArmsWell(s) ==
  s.op = "arm" =>
    /\ s.point \in Points /\ s.rule.action \in DOMAIN Severity
    /\ s.rule.class \in STRING /\ s.rule.left \in {-1} \cup (Nat \ {0})

ServerTyped ==
  /\ armed \subseteq Rules /\ IsFiniteSet(armed)
  /\ \E n \in Nat : \A r \in armed : r.stamp <= n
  /\ log \in [Tests -> [Points -> Nat]]

TypeInv ==
  /\ TypeOK /\ ServerTyped
  /\ \A l \in limbo : l.test \in Tests /\ ArmsWell(l.request)

LEMMA RequestArmsWell ==
  ASSUME PlacesOK, NEW t \in Tests, At(t, "control") \/ At(t, "clear"),
         phase[t] = "body" => step[t] \in 1 .. Len(Body[t])
  PROVE  ArmsWell(Now(t))
<1>1. phase[t] # "done" /\ Now(t).kind \in {"control", "clear"} BY DEF At, Now
<1>2. CASE phase[t] = "body"
  <2>1. Now(t) = Body[t][step[t]] /\ step[t] \in 1 .. Len(Body[t]) BY <1>2 DEF Now, Steps
  <2> QED BY <1>1, <2>1, BodyAssumption DEF ArmsWell
<1>3. CASE phase[t] = "hook"
  <2>1. Now(t) = Hook[t][step[t]] /\ step[t] \in 1 .. Len(Hook[t])
    BY <1>3 DEF Now, Steps, PlacesOK
  <2> QED BY <1>1, <2>1, HookAssumption DEF ArmsWell
<1> QED BY <1>1, <1>2, <1>3 DEF PlacesOK

\* The server keeps finitely many rules, whatever requests and messages come.
LEMMA ServeTyped ==
  ASSUME ServerTyped, NEW t \in Tests, NEW s, ArmsWell(s), Serve(t, s)
  PROVE  ServerTyped'
<1>1. CASE ~Known(t) BY <1>1 DEF Serve, serverVars, ServerTyped
<1>2. CASE Known(t)
  <2> DEFINE kept == armed \ Dropped(t, s)
             new  == RuleOf(t, s)
             S    == {0} \cup {r.stamp : r \in armed}
  <2>1. armed' = kept \cup (IF s.op = "arm" THEN {new} ELSE {})
    BY <1>2 DEF Serve
  <2>2. log' \in [Tests -> [Points -> Nat]]
    <3>1. log' = log \/ log' = [log EXCEPT ![t] = [p \in Points |-> 0]] BY <1>2 DEF Serve
    <3> QED BY <3>1 DEF ServerTyped
  <2>3. PICK n \in Nat : \A r \in armed : r.stamp <= n BY DEF ServerTyped
  <2>4. Max(S) \in Nat /\ Max(S) <= n
    <3>1. S \subseteq Nat BY DEF ServerTyped, Rules
    <3>2. \A x \in S : x <= n BY <2>3
    <3>3. S # {} OBVIOUS
    <3> HIDE DEF S
    <3>4. Max(S) \in S BY <3>1, <3>2, <3>3, MaxOfNats
    <3> QED BY <3>1, <3>2, <3>4
  <2>5. kept \subseteq Rules /\ IsFiniteSet(kept) /\ \A r \in kept : r.stamp <= n
    BY <2>3, FS_Subset DEF ServerTyped
  <2>6. CASE s.op = "arm"
    <3>1. new.stamp = 1 + Max(S) BY DEF RuleOf
    <3>2. new \in Rules
      <4>1. 1 + Max(S) \in Nat BY <2>4
      <4> HIDE DEF S
      <4>2. new = [session |-> t, point |-> s.point, action |-> s.rule.action,
                   class |-> s.rule.class, left |-> s.rule.left, stamp |-> 1 + Max(S)]
        BY DEF RuleOf, S
      <4> HIDE DEF new
      <4> QED BY <2>6, <4>1, <4>2 DEF Rules, ArmsWell
    <3>3. armed' = kept \cup {new} BY <2>1, <2>6
    <3> HIDE DEF kept, new, S
    <3>4. IsFiniteSet(armed') BY <2>5, <3>3, FS_AddElement
    <3>5. \A r \in armed' : r.stamp <= n + 1
      <4>1. \A r \in kept : r.stamp \in Nat /\ r.stamp <= n BY <2>5 DEF Rules
      <4> QED BY <2>4, <3>1, <3>3, <4>1
    <3>6. n + 1 \in Nat OBVIOUS
    <3> QED BY <2>2, <2>5, <3>2, <3>3, <3>4, <3>5, <3>6 DEF ServerTyped
  <2>7. CASE s.op # "arm"
    <3>1. armed' = kept BY <2>1, <2>7
    <3> HIDE DEF kept
    <3> QED BY <2>2, <2>5, <3>1 DEF ServerTyped
  <2> QED BY <2>6, <2>7
<1> QED BY <1>1, <1>2

LEMMA CheckTyped ==
  ASSUME ServerTyped, pos \in [Tests -> Nat], fired \subseteq Tests \X Points,
         NEW t \in Tests, Check(t)
  PROVE  ServerTyped' /\ fired' \subseteq Tests \X Points
<1> DEFINE p == Route[t][pos[t]]
           rs == Firing(p)
           of(u) == {r \in rs : r.session = u}
<1>1. /\ armed' = (armed \ rs) \cup Consume(rs)
      /\ log' = [u \in Tests |-> [log[u] EXCEPT ![p] = @ + Cardinality(of(u))]]
      /\ fired' = fired \cup {<<r.session, p>> : r \in rs}
      /\ pos[t] \in DOMAIN Route[t]
  BY DEF Check
<1>2. p \in Points BY <1>1 DEF Points
<1>3. rs \subseteq armed BY DEF Firing
<1> HIDE DEF p, rs
<1>4. IsFiniteSet(rs) BY <1>3, FS_Subset DEF ServerTyped
<1>5. fired' \subseteq Tests \X Points BY <1>1, <1>2, <1>3 DEF ServerTyped, Rules
<1>6. log' \in [Tests -> [Points -> Nat]]
  <2>1. \A u \in Tests : Cardinality(of(u)) \in Nat
    BY <1>4, FS_Subset, FS_CardinalityType
  <2> HIDE DEF of
  <2> QED BY <1>1, <1>2, <2>1 DEF ServerTyped
<1> DEFINE more == {s \in rs : s.left > 1}
           less(r) == [r EXCEPT !.left = @ - 1]
           used == {less(r) : r \in more}
<1>7. Consume(rs) = used \cup {r \in rs : r.left = -1} BY DEF Consume
<1>8. \A r \in more : less(r) \in Rules /\ less(r).stamp = r.stamp
  BY <1>3 DEF ServerTyped, Rules
<1>9. IsFiniteSet(used)
  <2> DEFINE f == [r \in more |-> less(r)]
  <2>1. IsFiniteSet(more) BY <1>4, FS_Subset
  <2>2. f \in Surjection(more, used) BY DEF Surjection
  <2> HIDE DEF f, more, used
  <2> QED BY <2>1, <2>2, FS_Surjection
<1>10. IsFiniteSet(armed')
  <2>1. IsFiniteSet(armed \ rs) BY FS_Subset DEF ServerTyped
  <2>2. IsFiniteSet({r \in rs : r.left = -1}) BY <1>4, FS_Subset
  <2> HIDE DEF used
  <2>3. IsFiniteSet(Consume(rs)) BY <1>7, <1>9, <2>2, FS_Union
  <2> QED BY <1>1, <2>1, <2>3, FS_Union
<1>11. armed' \subseteq Rules BY <1>1, <1>3, <1>7, <1>8 DEF ServerTyped
<1>12. PICK n \in Nat : \A r \in armed : r.stamp <= n BY DEF ServerTyped
<1>13. \A r \in armed' : r.stamp <= n BY <1>1, <1>3, <1>7, <1>8, <1>12
<1> QED BY <1>5, <1>6, <1>10, <1>11, <1>13 DEF ServerTyped

ClientTyped ==
  /\ tries \in [Tests -> 1 .. Attempts] /\ verdict \in [Tests -> {"none", "passed", "failed"}]
  /\ swallowed \subseteq Tests

\* However an await ends, and when a wait probes again.
LEMMA ScriptTypes ==
  ASSUME ClientTyped, NEW t \in Tests, NEW k,
         Throw(t) \/ Advance(t, k) \/ Again(t) \/ UNCHANGED clientVars
  PROVE  ClientTyped'
<1>1. Attempts \in Nat \ {0} /\ 1 \in 1 .. Attempts BY BoundAssumption
<1>2. CASE Throw(t) BY <1>1, <1>2 DEF Throw, Leave, ClientTyped
<1>3. CASE Advance(t, k) BY <1>1, <1>3 DEF Advance, Leave, ClientTyped
<1>4. CASE Again(t)
  <2>1. CASE tries[t] < Attempts
    <3>1. tries' = [tries EXCEPT ![t] = @ + 1] /\ UNCHANGED <<verdict, swallowed>>
      BY <1>4, <2>1 DEF Again
    <3>2. tries[t] + 1 \in 1 .. Attempts BY <1>1, <2>1 DEF ClientTyped
    <3> QED BY <3>1, <3>2 DEF ClientTyped
  <2>2. CASE ~(tries[t] < Attempts) BY <1>2, <1>4, <2>2 DEF Again
  <2> QED BY <2>1, <2>2
<1>5. CASE UNCHANGED clientVars BY <1>5 DEF clientVars, ClientTyped
<1> QED BY <1>2, <1>3, <1>4, <1>5

\* The relayer's process and what is under way to it.
ProcessTyped ==
  /\ proc \in {"up", "down", "booting"} /\ pos \in [Tests -> Nat] /\ faults \in 0 .. MaxFaults
  /\ \A l \in limbo : l.test \in Tests /\ ArmsWell(l.request)

LEMMA NextTypes ==
  ASSUME TypeInv, IInv, ReadInv, Next
  PROVE  ClientTyped' /\ ServerTyped' /\ ProcessTyped' /\ fired' \subseteq Tests \X Points
<1>a. /\ ClientTyped /\ ServerTyped /\ ProcessTyped /\ fired \subseteq Tests \X Points
      /\ PlacesOK /\ MaxFaults \in Nat
  BY BoundAssumption DEF TypeInv, TypeOK, IInv, ClientTyped, ProcessTyped
<1>b. ASSUME Fault PROVE faults' \in 0 .. MaxFaults
  BY <1>a, <1>b DEF Fault, ProcessTyped
<1>c. ASSUME Redelivered PROVE pos' \in [Tests -> Nat]
  BY <1>a, <1>c DEF Redelivered, ProcessTyped
<1>d. ASSUME UNCHANGED serverVars PROVE ServerTyped'
  BY <1>a, <1>d DEF serverVars, ServerTyped
<1>1. ASSUME NEW t \in Tests, TestStep(t)
      PROVE  ClientTyped' /\ ServerTyped' /\ ProcessTyped' /\ fired' \subseteq Tests \X Points
  <2>0. phase[t] # "done" /\ (phase[t] = "body" => step[t] \in 1 .. Len(Body[t])) /\ fired' = fired
    BY <1>1 DEF ReadInv, BodyOf, TestStep, NewSession, Control, Clear, CallTimesOut, Status, Poll,
                IfDown, Compose, ComposeThrows, Submit, At
  <2>1. ClientTyped'
    <3>1. Throw(t) \/ Advance(t, 1) \/ Advance(t, 3) \/ Again(t)
      BY <1>1 DEF TestStep, NewSession, Control, Clear, CallTimesOut, Status, Poll, IfDown,
                  Compose, ComposeThrows, Submit
    <3> QED BY <1>a, <3>1, ScriptTypes
  <2>2. ServerTyped'
    <3>1. \/ UNCHANGED <<armed, log>>
          \/ (At(t, "control") \/ At(t, "clear")) /\ Serve(t, Now(t))
      BY <1>1 DEF TestStep, NewSession, Control, Clear, CallTimesOut, Status, Poll, IfDown,
                  Compose, ComposeThrows, Submit, serverVars
    <3>2. CASE UNCHANGED <<armed, log>> BY <1>a, <3>2 DEF ServerTyped
    <3>3. CASE (At(t, "control") \/ At(t, "clear")) /\ Serve(t, Now(t))
      BY <1>a, <2>0, <3>3, RequestArmsWell, ServeTyped
    <3> QED BY <3>1, <3>2, <3>3
  <2>3. ProcessTyped'
    <3>1. CASE UNCHANGED processVars
      <4>1. faults' = faults \/ Fault
        BY <1>1 DEF TestStep, NewSession, Control, Clear, CallTimesOut, Status, Poll, IfDown,
                    Compose, ComposeThrows, Submit, Probe
      <4> QED BY <1>a, <1>b, <3>1, <4>1 DEF processVars, ProcessTyped
    <3>2. CASE CallTimesOut(t)
      <4>1. Fault /\ UNCHANGED <<proc, pos>> BY <3>2 DEF CallTimesOut
      <4>2. \A l \in limbo' : l.test \in Tests /\ ArmsWell(l.request)
        <5>1. CASE limbo' = limbo BY <1>a, <5>1 DEF ProcessTyped
        <5>2. CASE limbo' # limbo
          <6>1. /\ At(t, "control") \/ At(t, "clear")
                /\ limbo' = limbo \cup {[test |-> t, request |-> Now(t)]}
            BY <3>2, <5>2 DEF CallTimesOut
          <6>2. ArmsWell(Now(t)) BY <1>a, <2>0, <6>1, RequestArmsWell
          <6> QED BY <1>a, <6>1, <6>2 DEF ProcessTyped
        <5> QED BY <5>1, <5>2
      <4> QED BY <1>a, <1>b, <4>1, <4>2 DEF ProcessTyped
    <3>3. CASE Submit(t)
      BY <1>a, <3>3 DEF Submit, ProcessTyped
    <3>4. CASE Compose(t) /\ ~UNCHANGED processVars
      <4>1. proc' \in {"down", "booting"} /\ limbo' = {} /\ Redelivered /\ faults' = faults
        BY <3>4 DEF Compose
      <4> QED BY <1>a, <1>c, <4>1 DEF ProcessTyped
    <3>5. CASE ComposeThrows(t) /\ ~UNCHANGED processVars
      <4>1. proc' = "down" /\ limbo' = {} /\ Redelivered /\ Fault
        BY <3>5 DEF ComposeThrows
      <4> QED BY <1>b, <1>c, <4>1 DEF ProcessTyped
    <3> QED BY <1>1, <3>1, <3>2, <3>3, <3>4, <3>5
        DEF TestStep, NewSession, Control, Clear, Status, Poll, IfDown, ComposeThrows
  <2> QED BY <1>a, <2>0, <2>1, <2>2, <2>3
<1>2. ASSUME NEW t \in Tests, Check(t)
      PROVE  ClientTyped' /\ ServerTyped' /\ ProcessTyped' /\ fired' \subseteq Tests \X Points
  <2>1. ClientTyped' /\ faults' = faults
    BY <1>a, <1>2 DEF Check, clientVars, ClientTyped
  <2>2. ServerTyped' /\ fired' \subseteq Tests \X Points
    BY <1>a, <1>2, CheckTyped DEF ProcessTyped
  <2>3. /\ proc' \in {"up", "down"}
        /\ \/ limbo' = {} /\ Redelivered
           \/ pos' = [pos EXCEPT ![t] = @ + 1] /\ limbo' = limbo
    BY <1>2 DEF Check, After
  <2>4. pos' \in [Tests -> Nat] BY <1>a, <1>c, <2>3 DEF ProcessTyped
  <2> QED BY <1>a, <2>1, <2>2, <2>3, <2>4 DEF ProcessTyped
<1>3. CASE ServedLate
  <2>1. PICK l \in limbo : limbo' = limbo \ {l} /\ Serve(l.test, l.request)
    BY <1>3 DEF ServedLate
  <2>2. l.test \in Tests /\ ArmsWell(l.request) BY <1>a DEF ProcessTyped
  <2>3. ServerTyped' BY <1>a, <2>1, <2>2, ServeTyped
  <2> QED BY <1>a, <1>3, <2>1, <2>3 DEF ServedLate, clientVars, ClientTyped, ProcessTyped
<1>4. CASE Boots
  BY <1>a, <1>d, <1>4 DEF Boots, clientVars, ClientTyped, ProcessTyped
<1> QED BY <1>1, <1>2, <1>3, <1>4 DEF Next

LEMMA NextTypeInv == TypeInv /\ AliveInv /\ ReadInv /\ [Next]_vars => TypeInv'
<1>1. ASSUME TypeInv, AliveInv, ReadInv, Next PROVE TypeInv'
  <2>1. AliveInv' BY <1>1, NextAlive
  <2>2. ClientTyped' /\ ServerTyped' /\ ProcessTyped' /\ fired' \subseteq Tests \X Points
    BY <1>1, NextTypes DEF AliveInv
  <2> QED BY <2>1, <2>2
      DEF AliveInv, IInv, PlacesOK, TypeInv, TypeOK, ClientTyped, ServerTyped, ProcessTyped
<1>2. ASSUME TypeInv, UNCHANGED vars PROVE TypeInv'
  BY <1>2 DEF TypeInv, TypeOK, ServerTyped, vars, clientVars, serverVars, processVars
<1> QED BY <1>1, <1>2

LEMMA InitTypeInv == Init => TypeInv
<1> SUFFICES ASSUME Init PROVE TypeInv
  OBVIOUS
<1>1. IsFiniteSet(armed) BY FS_EmptySet DEF Init
<1>2. ServerTyped /\ limbo = {}
  <2>1. \A r \in armed : r.stamp <= 0 BY DEF Init
  <2> QED BY <1>1, <2>1 DEF Init, ServerTyped
<1>3. TypeOK BY BoundAssumption DEF Init, TypeOK
<1> QED BY <1>2, <1>3 DEF TypeInv

\* The variables keep their types, the rules of the server among them: what it
\* arms, consumes and logs is what bodies may ask for, for any scripts.
THEOREM TypeCorrect == Spec => []TypeOK
<1>1. TypeInv => TypeOK BY DEF TypeInv
<1> QED BY <1>1, InitTypeInv, NextTypeInv, InitAlive, NextAlive, InitReadInv, NextReadInv, PTL
    DEF Spec
=============================================================================
