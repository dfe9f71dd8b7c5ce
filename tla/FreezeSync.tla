----------------------------- MODULE FreezeSync -----------------------------
(***************************************************************************)
(* The hub compliance freeze of one token (test/test-utils/                *)
(* freeze-helpers.ts): freezeAndSync(), unfreezeAndSync() and the          *)
(* afterEach hook cleanupFrozenTokens(), over a sequence of tests.  The    *)
(* hub's registry is written by a retried transaction; the relayers carry  *)
(* each change to the replica registry of every privacy node, and the      *)
(* helpers poll the replicas they are given until the change shows.        *)
(***************************************************************************)
EXTENDS Naturals, FiniteSets, Sequences

CONSTANTS
  Chains,       \* the chain ids the token is frozen for
  Replicas,     \* the privacy nodes' token registries
  PairLists,    \* replicasToSync: lists of pairs <<replica, chain>> that tests pass
  MaxAttempts,  \* attempts of the retry around the hub transaction
  InOrder,      \* the messages to one replica arrive in the order they were sent
  SlowHub,      \* a receipt may time out although the transaction is mined later
  Exhausts,     \* a poll may run out of attempts
  MaxTests      \* bound: tests that freeze the token

ASSUME PairsAssumption ==
  PairLists \subseteq SUBSET (Replicas \X Chains) /\ IsFiniteSet(Replicas \X Chains)
ASSUME BoundsAssumption ==
  /\ MaxAttempts \in Nat \ {0} /\ MaxTests \in Nat
  /\ InOrder \in BOOLEAN /\ SlowHub \in BOOLEAN /\ Exhausts \in BOOLEAN

VARIABLES
  pc,         \* where the test is
  pairs,      \* the list of the test that runs, or of the last one
  op,         \* the write under way: the chains, and whether it freezes
  attempt,    \* attempt of its retry
  polls,      \* the pairs whose poll has not yet seen the expected status
  inHook,     \* the operation belongs to cleanupFrozenTokens()
  todo,       \* chains the hook has still to visit
  tests,      \* tests started so far
  failed,     \* history: a helper has thrown, in a test or in its hook
  unwatched,  \* history: pairs that some test froze without polling them
  hub,        \* chains the hub's registry holds as frozen
  late,       \* given-up transactions still in the hub's pool, in nonce order
  rep,        \* chains each replica holds as frozen
  net,        \* messages on their way to a replica
  seq         \* number of the next message

local == <<pc, pairs, op, attempt, polls, inHook, todo, tests, failed, unwatched>>
chain == <<hub, late, rep, net, seq>>
vars  == <<local, chain>>

Ops  == [freezes : BOOLEAN, chains : SUBSET Chains]
NoOp == [freezes |-> FALSE, chains |-> {}]

Init ==
  /\ pc = "idle" /\ pairs = {} /\ op = NoOp /\ attempt = 1 /\ polls = {}
  /\ inHook = FALSE /\ todo = {} /\ tests = 0 /\ failed = FALSE /\ unwatched = {}
  /\ hub = {} /\ late = <<>> /\ rep = [r \in Replicas |-> {}]
  /\ net = {} /\ seq = 0

(***************************************************************************)
(* The hub and the relayers.                                               *)
(***************************************************************************)
\* The hub's registry applies a write and sends it to every replica.
Applied(o) ==
  /\ hub' = IF o.freezes THEN hub \cup o.chains ELSE hub \ o.chains
  /\ net' = net \cup {[to |-> r, seq |-> seq, write |-> o] : r \in Replicas}
  /\ seq' = seq + 1

\* A write that changes nothing may revert, if the contract is not idempotent.
ChangesNothing(o) == IF o.freezes THEN o.chains \subseteq hub ELSE o.chains \cap hub = {}

Deliver(m) ==
  /\ InOrder => \A n \in net : n.to = m.to => n.seq >= m.seq
  /\ rep' = [rep EXCEPT ![m.to] = IF m.write.freezes THEN @ \cup m.write.chains
                                                      ELSE @ \ m.write.chains]
  /\ net' = net \ {m}
  /\ UNCHANGED <<local, hub, late, seq>>

MinedLate ==
  /\ late # <<>> /\ late' = Tail(late)
  /\ \/ Applied(Head(late))
     \/ ChangesNothing(Head(late)) /\ UNCHANGED <<hub, net, seq>>
  /\ UNCHANGED <<local, rep>>

(***************************************************************************)
(* freezeAndSync() and unfreezeAndSync(): the hub transaction.             *)
(***************************************************************************)
\* The pairs a helper polls once its transaction is mined: the test's list, or in
\* the hook every replica for the chain it visits.
\* Mutants: the helper returns with the receipt; the hook polls one replica.
NothingToPoll(chains) == {}
PairsOfOneReplica(chains) ==
  {CHOOSE r \in Replicas : TRUE} \X chains

PairsToPoll(chains) ==
  IF inHook THEN Replicas \X chains ELSE pairs

Starts(o) == op' = o /\ attempt' = 1 /\ pc' = "write"

\* A helper throws: the test fails and its afterEach hook runs; the hook itself
\* logs the error and goes on with its next chain.
Throws ==
  /\ pc' = "hook" /\ polls' = {} /\ failed' = TRUE
  /\ inHook' = TRUE
  /\ todo' = IF inHook THEN todo ELSE Chains

\* pollAllFrozenOnReplica(), one poll per pair, awaited together.
Polled(left) ==
  /\ polls' = left
  /\ pc' = IF left # {} THEN "poll" ELSE IF inHook THEN "hook" ELSE "body"

\* Every write comes from the hub owner's wallet: it is mined after the ones
\* that were given up before it.
WriteMined ==
  /\ pc = "write" /\ late = <<>> /\ Applied(op)
  /\ Polled(PairsToPoll(op.chains))
  /\ UNCHANGED <<pairs, op, attempt, inHook, todo, tests, failed, unwatched, late, rep>>

\* retryIf: nonce errors and receipt timeouts, and for an unfreeze a revert too.
Retried(error) == error \in {"nonce", "timeout"} \/ (error = "revert" /\ ~op.freezes)

\* Mutant: the attempts of the retry are not counted.
NextAttemptUncounted == attempt

NextAttempt == attempt + 1

MayRetry == attempt < MaxAttempts

RetryOrThrow(error) ==
  \/ /\ Retried(error) /\ MayRetry /\ attempt' = NextAttempt
     /\ UNCHANGED <<pc, polls, failed, inHook, todo>>
  \/ /\ ~(Retried(error) /\ MayRetry) /\ UNCHANGED attempt
     /\ Throws

WriteRejected ==
  /\ pc = "write"
  /\ RetryOrThrow("nonce") \/ RetryOrThrow("other")
  /\ UNCHANGED <<pairs, op, tests, unwatched, chain>>

WriteReverts ==
  /\ pc = "write" /\ ChangesNothing(op)
  /\ RetryOrThrow("revert")
  /\ UNCHANGED <<pairs, op, tests, unwatched, chain>>

\* The receipt times out; the transaction is displaced, or mined later.
ReceiptTimesOut ==
  /\ pc = "write" /\ SlowHub
  /\ late' \in {late, Append(late, op)}
  /\ RetryOrThrow("timeout")
  /\ UNCHANGED <<pairs, op, tests, unwatched, hub, rep, net, seq>>

(***************************************************************************)
(* The polls.                                                              *)
(***************************************************************************)
Shows(p) == (p[2] \in rep[p[1]]) = op.freezes

PollSees(p) ==
  /\ pc = "poll" /\ Shows(p)
  /\ Polled(polls \ {p})
  /\ UNCHANGED <<pairs, op, attempt, inHook, todo, tests, failed, unwatched, chain>>

PollExhausted(p) ==
  /\ pc = "poll" /\ Exhausts /\ ~Shows(p)
  /\ Throws
  /\ UNCHANGED <<pairs, op, attempt, tests, unwatched, chain>>

(***************************************************************************)
(* The tests and their afterEach hook cleanupFrozenTokens().               *)
(***************************************************************************)
ChainsOf(list) == {p[2] : p \in list}

\* A test freezes the chains of its list.
TestFreezes(list) ==
  /\ pc = "idle" /\ tests < MaxTests
  /\ tests' = tests + 1 /\ pairs' = list
  /\ unwatched' = unwatched \cup ((Replicas \X ChainsOf(list)) \ list)
  /\ Starts([freezes |-> TRUE, chains |-> ChainsOf(list)])
  /\ UNCHANGED <<polls, inHook, todo, failed, chain>>

\* It may unfreeze them itself, with the same list.
TestUnfreezes ==
  /\ pc = "body" /\ op.freezes
  /\ Starts([freezes |-> FALSE, chains |-> ChainsOf(pairs)])
  /\ UNCHANGED <<pairs, polls, inHook, todo, tests, failed, unwatched, chain>>

TestEnds ==
  /\ pc = "body"
  /\ pc' = "hook" /\ inHook' = TRUE /\ todo' = Chains
  /\ UNCHANGED <<pairs, op, attempt, polls, tests, failed, unwatched, chain>>

IsTokenFrozenForParticipant(c) == c \in hub

HookVisits(c) ==
  /\ pc = "hook" /\ todo' = todo \ {c}
  /\ IF IsTokenFrozenForParticipant(c)
       THEN Starts([freezes |-> FALSE, chains |-> {c}])
       ELSE UNCHANGED <<pc, op, attempt>>
  /\ UNCHANGED <<pairs, polls, inHook, tests, failed, unwatched, chain>>

HookEnds ==
  /\ pc = "hook" /\ todo = {}
  /\ pc' = "idle" /\ inHook' = FALSE /\ op' = NoOp
  /\ UNCHANGED <<pairs, attempt, polls, todo, tests, failed, unwatched, chain>>

Helper ==
  \/ WriteMined \/ WriteRejected \/ WriteReverts \/ ReceiptTimesOut
  \/ \E p \in polls : PollSees(p) \/ PollExhausted(p)
Test ==
  \/ \E list \in PairLists : TestFreezes(list)
  \/ TestUnfreezes \/ TestEnds \/ (\E c \in todo : HookVisits(c)) \/ HookEnds
Environment == (\E m \in net : Deliver(m)) \/ MinedLate

Next == Helper \/ Test \/ Environment

Spec == Init /\ [][Next]_vars

\* The relayers deliver, the hub answers, and the tests run on.
FairSpec ==
  /\ Spec
  /\ WF_vars(Helper) /\ WF_vars(Test)
  /\ WF_vars(\E m \in net : Deliver(m))

=============================================================================
