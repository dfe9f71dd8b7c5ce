-------------------------- MODULE FreezeSyncProps --------------------------
(***************************************************************************)
(* What the sync waits of the freeze helpers are worth.                    *)
(***************************************************************************)
EXTENDS FreezeSync

\* Every variable has its type.
TypeOK ==
  /\ pc \in {"idle", "write", "poll", "body", "hook"}
  /\ pairs \subseteq Replicas \X Chains /\ unwatched \subseteq Replicas \X Chains
  /\ op \in Ops /\ attempt \in 1 .. MaxAttempts
  /\ polls \subseteq Replicas \X Chains /\ inHook \in BOOLEAN
  /\ todo \subseteq Chains /\ tests \in 0 .. MaxTests /\ failed \in BOOLEAN
  /\ hub \subseteq Chains /\ rep \in [Replicas -> SUBSET Chains]
  /\ net \subseteq [to : Replicas, seq : Nat, write : Ops] /\ seq \in Nat
  /\ late \in Seq(Ops)

\* While a test relies on what its helpers waited for, every replica it waited
\* on agrees with the hub about the chain it waited for, and nothing in flight
\* takes that back: neither the polls, which end one by one, nor the messages of
\* an earlier operation or test.  A pair that an earlier test froze without
\* polling it is left out: the poll may be satisfied by that test's freeze.
SyncedStatusLasts ==
  pc = "body" /\ ~failed =>
    \A p \in pairs \ unwatched : (p[2] \in rep[p[1]]) = (p[2] \in hub)

\* What the hook's cleaning is worth: between two tests the token is frozen for no
\* chain on the hub, and shown as frozen by no replica for a chain that the tests
\* have always polled there when they froze it.  The hook's own poll is not what
\* ensures it, since a replica the freeze has not reached yet looks clean.
CleanWherePolled ==
  pc = "idle" /\ ~failed =>
    /\ hub = {}
    /\ \A p \in (Replicas \X Chains) \ unwatched : p[2] \notin rep[p[1]]

\* What the comment on unfreezeAndSync() says: "Use in afterEach to guarantee clean
\* state before the next test".  The hook passes all replicas and has not failed,
\* so between two tests the token is frozen nowhere.
CleanBetweenTests ==
  pc = "idle" /\ ~failed => hub = {} /\ \A r \in Replicas : rep[r] = {}

\* The hook always ends, whatever the hub, the relayers and the polls do.
HookSettles == pc = "hook" ~> pc = "idle"

=============================================================================
