-------------------------- MODULE FaultSessionsProps --------------------------
(***************************************************************************)
(* Properties of tests that break and repair a relayer they share.         *)
(***************************************************************************)
EXTENDS FaultSessions

Rules ==
  [session : Tests, point : Points, action : DOMAIN Severity, class : STRING,
   left : {-1} \cup (Nat \ {0}), stamp : Nat]

\* Every variable has its type, and a rule belongs to a session of the server.
TypeOK ==
  /\ phase \in [Tests -> {"body", "hook", "done"}] /\ step \in [Tests -> Nat]
  /\ tries \in [Tests -> 1 .. Attempts] /\ verdict \in [Tests -> {"none", "passed", "failed"}]
  /\ session \subseteq Tests /\ swallowed \subseteq Tests
  /\ proc \in {"up", "down", "booting"}
  /\ sessions \subseteq session /\ armed \subseteq Rules
  /\ log \in [Tests -> [Points -> Nat]] /\ pos \in [Tests -> Nat]
  /\ fired \subseteq Tests \X Points /\ faults \in 0 .. MaxFaults

\* The points whose trigger events a test has read before it passes.
PointsRead(t) ==
  {Body[t][i].point : i \in {j \in DOMAIN Body[t] :
     \/ Body[t][j].kind = "status" /\ Body[t][j].atLeast > 0
     \/ Body[t][j].kind = "poll" /\ Body[t][j].until = "fired"}}

\* A test that read its own session's trigger events and passed did not pass
\* vacuously: its rules fired in the relayer, at every point it asked for,
\* whichever neighbour crashed it, restarted it or hit the same points.
\* (waitForCrash() alone would not do: any crash or a late probe ends it.)
PassedMeansFired ==
  \A t \in Tests : verdict[t] = "passed" => \A p \in PointsRead(t) : <<t, p>> \in fired

\* Whatever requests of it are still under way, a test whose hook ended without
\* a throw leaves no rule behind, now or later, that a neighbour's message
\* could run into.
RulesDieWithTheHook ==
  \A t \in Tests : phase[t] = "done" /\ t \notin swallowed => \A r \in armed : r.session # t

\* When every hook has ended and none threw, the relayer that was crashed and
\* restarted by all of them is up: no hook undoes what another one repaired.
HandedOverAlive ==
  (\A t \in Tests : phase[t] = "done") /\ swallowed = {} => proc = "up"

\* Every test ends, hook included, though the relayer may stay down for ever.
TestsEnd == \A t \in Tests : <>(phase[t] = "done")
=============================================================================
