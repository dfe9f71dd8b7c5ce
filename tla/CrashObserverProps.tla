------------------------- MODULE CrashObserverProps -------------------------
(***************************************************************************)
(* What a CrashObservation may be trusted for.                             *)
(***************************************************************************)
EXTENDS CrashObserver

\* Every variable has its type.
TypeOK ==
  /\ pc \in {"probe", "restart", "wait", "check", "done"}
  /\ failed \in 0 .. ConfirmProbes - 1
  /\ prevAlive \in BOOLEAN /\ delivered \in BOOLEAN /\ landed \in BOOLEAN
  /\ crashCount \in Nat /\ restarts \in Nat /\ lost \in Nat
  /\ waited \in 0 .. RecoveryWait - 1
  /\ clock \in Nat
  /\ proc \in {"up", "frozen", "stopped", "booting"}
  /\ slow \in 0 .. MaxSlow /\ crashes \in Nat

\* A crash is never counted that did not happen, whatever the interleaving of
\* late answers, failed restarts and slow boots: the confirmation probes are
\* there for it (the comment on confirmedDown).  It needs MaxSlow below
\* ConfirmProbes.
NoPhantomCrash == crashCount <= crashes

\* A count of zero, the healthy verdict, hides at most one crash, and then the
\* relayer is still down: no crash is repaired without being counted.
ZeroCountHidesOnlyAStandingCrash ==
  crashCount = 0 => \/ crashes = 0 /\ proc = "up"
                    \/ crashes = 1 /\ proc = "frozen"

\* The observer restarts a relayer only for a counted crash or after a restart
\* that was never answered: a healthy relayer is not restarted.
RestartsExplained == restarts <= crashCount + lost

\* The observation ends, also when docker fails or the relayer never comes up.
ObservationEnds == <>(pc = "done")
============================================================================
