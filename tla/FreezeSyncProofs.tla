---------------------------- MODULE FreezeSyncProofs ----------------------------
(***************************************************************************)
(* The freeze helpers keep the types of what they and the hub hold, for    *)
(* any chains, any replicas and any order of delivery: in particular the   *)
(* retry stays within its attempts, in the tests and in the hook.          *)
(*                                                                         *)
(* Where the relayers keep the order, what the polls have seen lasts: the  *)
(* status an operation asks for can only be shown by one of its messages   *)
(* (the hub had the other status before), and nothing older comes after it.*)
(***************************************************************************)
EXTENDS FreezeSyncProps, TLAPS

\* The types of the helper's side, and of the chains' side.
LocalTypes ==
  /\ pc \in {"idle", "write", "poll", "body", "hook"}
  /\ op \in Ops /\ attempt \in 1 .. MaxAttempts
  /\ pairs \subseteq Replicas \X Chains /\ unwatched \subseteq Replicas \X Chains
  /\ polls \subseteq Replicas \X Chains /\ inHook \in BOOLEAN
  /\ todo \subseteq Chains /\ tests \in 0 .. MaxTests /\ failed \in BOOLEAN

ChainTypes ==
  /\ hub \subseteq Chains /\ rep \in [Replicas -> SUBSET Chains]
  /\ net \subseteq [to : Replicas, seq : Nat, write : Ops] /\ seq \in Nat
  /\ late \in Seq(Ops)

\* A write the hub applies is sent on to every replica.
LEMMA AppliedTypes ==
  ASSUME TypeOK, NEW o \in Ops, Applied(o)
  PROVE  /\ hub' \subseteq Chains /\ seq' \in Nat
         /\ net' \subseteq [to : Replicas, seq : Nat, write : Ops]
<1>1. o.chains \subseteq Chains
  BY DEF Ops
<1>2. hub' \subseteq Chains /\ seq' \in Nat
  BY <1>1 DEF Applied, TypeOK
<1>3. ASSUME NEW r \in Replicas
      PROVE  [to |-> r, seq |-> seq, write |-> o] \in [to : Replicas, seq : Nat, write : Ops]
  BY DEF TypeOK
<1>4. net' \subseteq [to : Replicas, seq : Nat, write : Ops]
  BY <1>3 DEF Applied, TypeOK
<1> QED  BY <1>2, <1>4

\* A helper that throws leads to the hook, one that retries has an attempt left.
LEMMA RetryTypes ==
  ASSUME TypeOK, NEW error, RetryOrThrow(error), UNCHANGED <<pairs, op, tests, unwatched>>
  PROVE  LocalTypes'
<1>1. CASE MayRetry /\ attempt' = NextAttempt /\ UNCHANGED <<pc, polls, failed, inHook, todo>>
  <2>1. attempt' \in 1 .. MaxAttempts
    BY <1>1, BoundsAssumption DEF TypeOK, MayRetry, NextAttempt
  <2> QED  BY <1>1, <2>1 DEF TypeOK, LocalTypes
<1>2. CASE UNCHANGED attempt /\ Throws
  <2>1. todo' \subseteq Chains
    BY <1>2 DEF Throws, TypeOK
  <2>2. inHook' \in BOOLEAN /\ failed' \in BOOLEAN
    BY <1>2, Zenon DEF Throws
  <2> QED  BY <1>2, <2>1, <2>2 DEF TypeOK, LocalTypes, Throws
<1> QED  BY <1>1, <1>2 DEF RetryOrThrow

\* An operation starts with its first attempt.
LEMMA StartTypes ==
  ASSUME TypeOK, NEW o \in Ops, Starts(o)
  PROVE  op' \in Ops /\ attempt' \in 1 .. MaxAttempts /\ pc' = "write"
BY BoundsAssumption DEF Starts

\* What is polled are pairs of a replica and a chain.
LEMMA PolledTypes ==
  ASSUME TypeOK, NEW left \in SUBSET (Replicas \X Chains), Polled(left)
  PROVE  polls' \subseteq Replicas \X Chains /\ pc' \in {"hook", "poll", "body"}
BY DEF Polled

LEMMA HelperTypes ==
  ASSUME TypeOK, Helper
  PROVE  LocalTypes' /\ ChainTypes'
<1>1. CASE WriteMined
  <2>1. PairsToPoll(op.chains) \subseteq Replicas \X Chains
    BY PairsAssumption DEF PairsToPoll, TypeOK, Ops
  <2>2. polls' \subseteq Replicas \X Chains /\ pc' \in {"hook", "poll", "body"}
    BY <1>1, <2>1, PolledTypes DEF WriteMined
  <2>3. /\ hub' \subseteq Chains /\ seq' \in Nat
        /\ net' \subseteq [to : Replicas, seq : Nat, write : Ops]
    BY <1>1, AppliedTypes DEF WriteMined, TypeOK
  <2>4. UNCHANGED <<pairs, op, attempt, inHook, todo, tests, failed, unwatched, late, rep>>
    BY <1>1 DEF WriteMined
  <2> QED  BY <2>2, <2>3, <2>4 DEF TypeOK, LocalTypes, ChainTypes
<1>2. CASE WriteRejected \/ WriteReverts
  <2>1. LocalTypes'
    BY <1>2, RetryTypes DEF WriteRejected, WriteReverts
  <2> QED  BY <1>2, <2>1 DEF WriteRejected, WriteReverts, TypeOK, ChainTypes, chain
<1>3. CASE ReceiptTimesOut
  <2>1. LocalTypes'
    BY <1>3, RetryTypes DEF ReceiptTimesOut
  <2>2. late' \in Seq(Ops)
    BY <1>3 DEF ReceiptTimesOut, TypeOK
  <2> QED  BY <1>3, <2>1, <2>2 DEF ReceiptTimesOut, TypeOK, ChainTypes
<1>4. ASSUME NEW p \in polls, PollSees(p)
      PROVE  LocalTypes' /\ ChainTypes'
  <2>1. polls' \subseteq Replicas \X Chains /\ pc' \in {"hook", "poll", "body"}
    BY <1>4, PolledTypes DEF PollSees, TypeOK
  <2> QED  BY <1>4, <2>1 DEF PollSees, TypeOK, LocalTypes, ChainTypes, chain
<1>5. ASSUME NEW p \in polls, PollExhausted(p)
      PROVE  LocalTypes' /\ ChainTypes'
  <2>1. todo' \subseteq Chains /\ polls' = {} /\ pc' = "hook"
    BY <1>5 DEF PollExhausted, Throws, TypeOK
  <2>2. inHook' \in BOOLEAN /\ failed' \in BOOLEAN
    BY <1>5, Zenon DEF PollExhausted, Throws
  <2> QED  BY <1>5, <2>1, <2>2 DEF PollExhausted, TypeOK, LocalTypes, ChainTypes, chain
<1> QED  BY <1>1, <1>2, <1>3, <1>4, <1>5 DEF Helper

LEMMA TestTypes ==
  ASSUME TypeOK, Test
  PROVE  LocalTypes' /\ ChainTypes'
<1>1. ASSUME NEW list \in PairLists, TestFreezes(list)
      PROVE  LocalTypes' /\ ChainTypes'
  <2>1. list \subseteq Replicas \X Chains /\ ChainsOf(list) \subseteq Chains
    BY PairsAssumption DEF ChainsOf
  <2>2. [freezes |-> TRUE, chains |-> ChainsOf(list)] \in Ops
    BY <2>1 DEF Ops
  <2>3. op' \in Ops /\ attempt' \in 1 .. MaxAttempts /\ pc' = "write"
    BY <1>1, <2>2, StartTypes DEF TestFreezes
  <2>4. tests' \in 0 .. MaxTests
    BY <1>1, BoundsAssumption DEF TestFreezes, TypeOK
  <2>5. pairs' \subseteq Replicas \X Chains
    BY <1>1, <2>1 DEF TestFreezes
  <2>6. unwatched' \subseteq Replicas \X Chains
    BY <1>1, <2>1 DEF TestFreezes, TypeOK
  <2> QED  BY <1>1, <2>3, <2>4, <2>5, <2>6 DEF TestFreezes, TypeOK, LocalTypes, ChainTypes, chain
<1>2. CASE TestUnfreezes
  <2>1. ChainsOf(pairs) \subseteq Chains
    BY DEF TypeOK, ChainsOf
  <2>2. [freezes |-> FALSE, chains |-> ChainsOf(pairs)] \in Ops
    BY <2>1 DEF Ops
  <2>3. op' \in Ops /\ attempt' \in 1 .. MaxAttempts /\ pc' = "write"
    BY <1>2, <2>2, StartTypes DEF TestUnfreezes
  <2> QED  BY <1>2, <2>3 DEF TestUnfreezes, TypeOK, LocalTypes, ChainTypes, chain
<1>3. CASE TestEnds
  <2>1. inHook' \in BOOLEAN
    BY <1>3, Zenon DEF TestEnds
  <2> QED  BY <1>3, <2>1 DEF TestEnds, TypeOK, LocalTypes, ChainTypes, chain
<1>4. ASSUME NEW c \in todo, HookVisits(c)
      PROVE  LocalTypes' /\ ChainTypes'
  <2>1. [freezes |-> FALSE, chains |-> {c}] \in Ops
    BY DEF TypeOK, Ops
  <2>2. op' \in Ops /\ attempt' \in 1 .. MaxAttempts /\ pc' \in {"write", "hook"}
    BY <1>4, <2>1, StartTypes DEF HookVisits, TypeOK
  <2> QED  BY <1>4, <2>2 DEF HookVisits, TypeOK, LocalTypes, ChainTypes, chain
<1>5. CASE HookEnds
  <2>1. NoOp \in Ops
    BY DEF NoOp, Ops
  <2>2. inHook' \in BOOLEAN
    BY <1>5, Zenon DEF HookEnds
  <2> QED  BY <1>5, <2>1, <2>2 DEF HookEnds, TypeOK, LocalTypes, ChainTypes, chain
<1> QED  BY <1>1, <1>2, <1>3, <1>4, <1>5 DEF Test

LEMMA EnvironmentTypes ==
  ASSUME TypeOK, Environment
  PROVE  LocalTypes' /\ ChainTypes'
<1>1. ASSUME NEW m \in net, Deliver(m)
      PROVE  LocalTypes' /\ ChainTypes'
  <2>1. m.to \in Replicas /\ m.write.chains \subseteq Chains
    BY DEF TypeOK, Ops
  <2>2. rep' \in [Replicas -> SUBSET Chains]
    BY <1>1, <2>1 DEF Deliver, TypeOK
  <2> QED  BY <1>1, <2>2 DEF Deliver, TypeOK, LocalTypes, ChainTypes, local
<1>2. CASE MinedLate
  <2>1. late # << >> /\ late \in Seq(Ops)
    BY <1>2 DEF MinedLate, TypeOK
  <2>2. Head(late) \in Ops /\ Tail(late) \in Seq(Ops)
    BY <2>1
  <2>3. /\ hub' \subseteq Chains /\ seq' \in Nat
        /\ net' \subseteq [to : Replicas, seq : Nat, write : Ops]
    BY <1>2, <2>2, AppliedTypes DEF MinedLate, TypeOK
  <2> QED  BY <1>2, <2>2, <2>3 DEF MinedLate, TypeOK, LocalTypes, ChainTypes, local
<1> QED  BY <1>1, <1>2 DEF Environment

\* Every variable of the helpers, the hub and the replicas has its type, in
\* whatever order messages arrive and however often a write is retried.
THEOREM TypeCorrect == Spec => []TypeOK
<1>1. Init => TypeOK
  <2> SUFFICES ASSUME Init PROVE TypeOK
    OBVIOUS
  <2>1. NoOp \in Ops
    BY DEF NoOp, Ops
  <2>2. inHook \in BOOLEAN /\ failed \in BOOLEAN
    BY Zenon DEF Init
  <2>3. attempt \in 1 .. MaxAttempts /\ tests \in 0 .. MaxTests /\ seq \in Nat
    BY BoundsAssumption DEF Init
  <2> QED  BY <2>1, <2>2, <2>3 DEF Init, TypeOK
<1>2. TypeOK /\ [Next]_vars => TypeOK'
  <2>1. ASSUME TypeOK, UNCHANGED vars
        PROVE  TypeOK'
    BY <2>1 DEF vars, local, chain, TypeOK
  <2>2. ASSUME TypeOK, Next
        PROVE  TypeOK'
    BY <2>2, HelperTypes, TestTypes, EnvironmentTypes DEF Next, TypeOK, LocalTypes, ChainTypes
  <2> QED  BY <2>1, <2>2
<1> QED  BY <1>1, <1>2, PTL DEF Spec
(***************************************************************************)
(* What the polls are worth when messages arrive in order.                 *)
(***************************************************************************)
To(p) == {m \in net : m.to = p[1] /\ p[2] \in m.write.chains}

Held(p) == p[2] \in rep[p[1]]
Wanted(p) == p[2] \in hub

\* A replica that agrees with the hub about a chain, and will go on doing so.
Settled(p) == Held(p) = Wanted(p) /\ \A m \in To(p) : m.write.freezes = Wanted(p)

\* One that an operation is changing: once it shows the operation's status nothing
\* older is on its way to it, and as long as the hub has not changed neither has it.
Changing(p) ==
  /\ Held(p) = op.freezes => \A m \in To(p) : m.write.freezes = op.freezes
  /\ \A m, n \in To(p) :
       m.write.freezes = op.freezes /\ n.write.freezes # op.freezes => n.seq < m.seq
  /\ Wanted(p) # op.freezes =>
       Held(p) # op.freezes /\ \A m \in To(p) : m.write.freezes # op.freezes

Busy(p) ==
  \/ pc = "write" /\ p[2] \in op.chains
  \/ pc = "poll" /\ p \in polls

\* The pairs that no test has frozen without polling them.
Watched == (Replicas \X Chains) \ unwatched

PairsHold == \A p \in Watched : IF Busy(p) THEN Changing(p) ELSE Settled(p)

\* Where the hub is: what is still to be mined is the write under way, and what
\* is frozen in the hook's time has still to be visited.
HubHolds ==
  /\ IF pc = "write" THEN late \in Seq({op}) ELSE late = << >>
  /\ pc = "poll" => polls \subseteq Replicas \X op.chains /\ \A c \in op.chains : (c \in hub) = op.freezes
  /\ pc = "body" /\ op.freezes => op.chains \subseteq hub
  /\ pc = "idle" => hub = {}
  /\ pc \in {"idle", "body"} => ~inHook
  /\ pc = "hook" => inHook
  /\ inHook => /\ pc \in {"write", "poll"} => ~op.freezes
               /\ hub \subseteq todo \cup (IF pc = "write" THEN op.chains ELSE {})

\* A test operates on the chains of its list, and polls what is watched of them.
ListHolds ==
  /\ pc = "hook" => inHook
  /\ ~inHook /\ pc \in {"write", "poll", "body"} =>
       op.chains = ChainsOf(pairs) /\ \A p \in Watched : p[2] \in op.chains => p \in pairs

SyncInv ==
  /\ ListHolds /\ \A m \in net : m.seq < seq
  /\ ~failed => PairsHold /\ HubHolds

LEMMA AppliedSettled ==
  ASSUME NEW p \in Replicas \X Chains, NEW o \in Ops, p[2] \notin o.chains, Applied(o),
         rep' = rep, Settled(p)
  PROVE  Settled(p)'
<1>1. Wanted(p)' = Wanted(p) /\ Held(p)' = Held(p) BY DEF Applied, Wanted, Held
<1>2. To(p)' = To(p) BY DEF Applied, To
<1> QED BY <1>1, <1>2 DEF Settled

LEMMA AppliedChanging ==
  ASSUME TypeOK, NEW p \in Replicas \X Chains, p[2] \in op.chains, Applied(op),
         op' = op, rep' = rep, \A m \in net : m.seq < seq, Changing(p)
  PROVE  Changing(p)' /\ Wanted(p)' = op.freezes
<1> DEFINE new == [to |-> p[1], seq |-> seq, write |-> op]
<1>0. op.freezes \in BOOLEAN /\ \A m \in To(p) : m.write.freezes \in BOOLEAN
  BY DEF TypeOK, Ops, To
<1>1. Wanted(p)' = op.freezes BY <1>0 DEF Applied, Wanted
<1>2. Held(p)' = Held(p) BY DEF Held
<1>3. To(p)' = To(p) \cup {new} BY DEF Applied, To
<1>4. \A m \in To(p) : m.seq < seq /\ m.seq \in Nat /\ seq \in Nat BY DEF TypeOK, To
<1>5. new.seq = seq /\ new.write = op OBVIOUS
<1> HIDE DEF new
<1>6. \A m, n \in To(p)' :
        m.write.freezes = op.freezes /\ n.write.freezes # op.freezes => n.seq < m.seq
  BY <1>3, <1>4, <1>5 DEF Changing
<1>7. Held(p)' = op.freezes => \A m \in To(p)' : m.write.freezes = op.freezes
  BY <1>2, <1>3, <1>5 DEF Changing
<1> QED BY <1>1, <1>6, <1>7 DEF Changing

LEMMA DeliverSettled ==
  ASSUME TypeOK, NEW p \in Replicas \X Chains, NEW m \in net, Deliver(m), Settled(p)
  PROVE  Settled(p)'
<1>1. Wanted(p)' = Wanted(p) BY DEF Deliver, Wanted
<1>2. To(p)' \subseteq To(p) BY DEF Deliver, To
<1>3. CASE m \in To(p)
  <2>1. m.write.freezes = Wanted(p) BY <1>3 DEF Settled
  <2>2. Held(p)' = m.write.freezes
    <3>1. m.to = p[1] /\ p[2] \in m.write.chains /\ m.write.freezes \in BOOLEAN /\ m.to \in Replicas
      BY <1>3 DEF To, TypeOK, Ops
    <3>2. rep'[p[1]] = IF m.write.freezes THEN rep[p[1]] \cup m.write.chains
                                          ELSE rep[p[1]] \ m.write.chains
      BY <3>1 DEF Deliver, TypeOK
    <3> QED BY <3>1, <3>2 DEF Held
  <2> QED BY <1>1, <1>2, <2>1, <2>2 DEF Settled
<1>4. CASE m \notin To(p)
  <2>1. Held(p)' = Held(p)
    <3>1. CASE m.to # p[1] BY <3>1 DEF Deliver, TypeOK, Held
    <3>2. CASE p[2] \notin m.write.chains BY <3>2 DEF Deliver, TypeOK, Held
    <3> QED BY <1>4, <3>1, <3>2 DEF To
  <2> QED BY <1>1, <1>2, <2>1 DEF Settled
<1> QED BY <1>3, <1>4

\* In order, the first message of an operation comes after all older ones.
LEMMA DeliverChanging ==
  ASSUME TypeOK, InOrder, NEW p \in Replicas \X Chains, NEW m \in net, Deliver(m), Changing(p)
  PROVE  Changing(p)'
<1>0. /\ op.freezes \in BOOLEAN /\ op' = op /\ m.write.freezes \in BOOLEAN
      /\ \A n \in To(p) : n.write.freezes \in BOOLEAN /\ n.seq \in Nat /\ n \in net /\ n.to = p[1]
  BY DEF TypeOK, Ops, To, Deliver, local
<1>1. Wanted(p)' = Wanted(p) BY DEF Deliver, Wanted
<1>2. To(p)' \subseteq To(p) BY DEF Deliver, To
<1>3. CASE m \in To(p)
  <2>1. Held(p)' = m.write.freezes
    <3>1. m.to = p[1] /\ p[2] \in m.write.chains /\ m.to \in Replicas
      BY <1>3 DEF To, TypeOK
    <3>2. rep'[p[1]] = IF m.write.freezes THEN rep[p[1]] \cup m.write.chains
                                          ELSE rep[p[1]] \ m.write.chains
      BY <3>1 DEF Deliver, TypeOK
    <3> QED BY <1>0, <3>1, <3>2 DEF Held
  <2>2. \A n \in To(p) : n.seq >= m.seq
    BY <1>0, <1>3 DEF Deliver
  <2>3. m.write.freezes = op.freezes => \A n \in To(p) : n.write.freezes = op.freezes
    BY <1>0, <1>3, <2>2 DEF Changing
  <2>4. Wanted(p) # op.freezes => m.write.freezes # op.freezes BY <1>3 DEF Changing
  <2> QED BY <1>0, <1>1, <1>2, <2>1, <2>3, <2>4 DEF Changing
<1>4. CASE m \notin To(p)
  <2>1. Held(p)' = Held(p)
    <3>1. CASE m.to # p[1] BY <3>1 DEF Deliver, TypeOK, Held
    <3>2. CASE p[2] \notin m.write.chains BY <3>2 DEF Deliver, TypeOK, Held
    <3> QED BY <1>4, <3>1, <3>2 DEF To
  <2> QED BY <1>0, <1>1, <1>2, <2>1 DEF Changing
<1> QED BY <1>3, <1>4

\* An operation that is about to change what a replica and the hub agree on.
LEMMA StartChanging ==
  ASSUME TypeOK, NEW p \in Replicas \X Chains, NEW o \in Ops, op' = o, UNCHANGED chain,
         Settled(p), Wanted(p) # o.freezes
  PROVE  Changing(p)'
<1>1. Held(p)' = Held(p) /\ Wanted(p)' = Wanted(p) /\ To(p)' = To(p)
  BY DEF chain, Held, Wanted, To
<1> QED BY <1>1 DEF Settled, Changing

\* What an operation was to change and its poll has seen.
LEMMA SeenSettled ==
  ASSUME NEW p, Changing(p), Held(p) = op.freezes, Wanted(p) = op.freezes
  PROVE  Settled(p)
BY DEF Changing, Settled

LEMMA SameSettled ==
  ASSUME NEW p, UNCHANGED chain, Settled(p)
  PROVE  Settled(p)'
<1>1. Held(p)' = Held(p) /\ Wanted(p)' = Wanted(p) /\ To(p)' = To(p)
  BY DEF chain, Held, Wanted, To
<1> QED BY <1>1 DEF Settled

LEMMA SameChanging ==
  ASSUME NEW p, UNCHANGED <<hub, rep, net>>, op' = op, Changing(p)
  PROVE  Changing(p)'
<1>1. Held(p)' = Held(p) /\ Wanted(p)' = Wanted(p) /\ To(p)' = To(p)
  BY DEF Held, Wanted, To
<1> QED BY <1>1 DEF Changing

\* The pairs and the hub, where no helper has thrown.
LEMMA HelperHolds ==
  ASSUME TypeOK, \A m \in net : m.seq < seq, PairsHold, HubHolds, ListHolds, ~failed, ~failed',
         Helper
  PROVE  PairsHold' /\ HubHolds'
<1>0. /\ Watched \subseteq Replicas \X Chains /\ op \in Ops /\ op.freezes \in BOOLEAN
      /\ Watched' = Watched
  BY DEF TypeOK, Ops, Watched, Helper, WriteMined, WriteRejected, WriteReverts, ReceiptTimesOut,
         PollSees, PollExhausted
<1>1. CASE WriteMined
  <2>1. /\ pc = "write" /\ Applied(op) /\ late = << >> /\ rep' = rep /\ op' = op /\ late' = late
        /\ inHook' = inHook /\ todo' = todo
        /\ polls' = PairsToPoll(op.chains)
        /\ pc' = IF polls' # {} THEN "poll" ELSE IF inHook THEN "hook" ELSE "body"
    BY <1>1 DEF WriteMined, Polled
  <2>2. polls' \subseteq Replicas \X op.chains
    <3>1. CASE inHook BY <2>1, <3>1 DEF PairsToPoll
    <3>2. CASE ~inHook
      <4>1. op.chains = ChainsOf(pairs) /\ polls' = pairs
        BY <2>1, <3>2 DEF ListHolds, PairsToPoll
      <4> QED BY <4>1 DEF TypeOK, ChainsOf
    <3> QED BY <3>1, <3>2
  <2>3. ASSUME NEW p \in Watched PROVE IF Busy(p)' THEN Changing(p)' ELSE Settled(p)'
    <3>1. p \in Replicas \X Chains BY <1>0
    <3>2. CASE p[2] \in op.chains
      <4>1. p \in polls'
        <5>1. CASE inHook BY <2>1, <3>1, <3>2, <5>1 DEF PairsToPoll
        <5>2. CASE ~inHook BY <2>1, <3>2, <5>2 DEF PairsToPoll, ListHolds
        <5> QED BY <5>1, <5>2
      <4>2. Busy(p)' BY <2>1, <4>1 DEF Busy
      <4>3. Changing(p) BY <2>1, <3>2 DEF PairsHold, Busy
      <4> QED BY <2>1, <3>1, <3>2, <4>2, <4>3, AppliedChanging
    <3>3. CASE p[2] \notin op.chains
      <4>1. ~Busy(p) BY <2>1, <3>3 DEF Busy
      <4>2. p \notin polls' BY <2>2, <3>1, <3>3
      <4>3. ~Busy(p)' BY <2>1, <4>2 DEF Busy
      <4>4. Settled(p) BY <4>1 DEF PairsHold
      <4> QED BY <1>0, <2>1, <3>1, <3>3, <4>3, <4>4, AppliedSettled
    <3> QED BY <3>2, <3>3
  <2>4. \A c \in op.chains : (c \in hub') = op.freezes
    BY <1>0, <2>1 DEF Applied
  <2>5. inHook => ~op.freezes /\ hub' \subseteq todo
    BY <2>1 DEF HubHolds, Applied
  <2>6. op.freezes => op.chains \subseteq hub' BY <2>4
  <2> QED BY <1>0, <2>1, <2>2, <2>3, <2>4, <2>5, <2>6 DEF PairsHold, HubHolds
<1>2. CASE WriteRejected \/ WriteReverts \/ ReceiptTimesOut
  <2>1. /\ pc = "write" /\ op' = op /\ UNCHANGED <<hub, rep, net>>
        /\ UNCHANGED <<pc, polls, inHook, todo>>
        /\ late' = late \/ late' = Append(late, op)
    BY <1>2 DEF WriteRejected, WriteReverts, ReceiptTimesOut, RetryOrThrow, Throws, chain
  <2>2. late' \in Seq({op}) BY <2>1 DEF HubHolds
  <2>3. ASSUME NEW p \in Watched PROVE IF Busy(p)' THEN Changing(p)' ELSE Settled(p)'
    <3>1. Busy(p)' <=> Busy(p) BY <2>1 DEF Busy
    <3>2. CASE Busy(p) BY <2>1, <3>1, <3>2, SameChanging DEF PairsHold
    <3>3. CASE ~Busy(p)
      <4>1. Settled(p) BY <3>3 DEF PairsHold
      <4> QED BY <2>1, <3>1, <3>3, <4>1 DEF Settled, Held, Wanted, To
    <3> QED BY <3>2, <3>3
  <2> QED BY <1>0, <2>1, <2>2, <2>3 DEF PairsHold, HubHolds
<1>3. ASSUME NEW q \in polls, PollSees(q) PROVE PairsHold' /\ HubHolds'
  <2>1. /\ pc = "poll" /\ Shows(q) /\ polls' = polls \ {q} /\ UNCHANGED chain /\ op' = op
        /\ pc' = IF polls' # {} THEN "poll" ELSE IF inHook THEN "hook" ELSE "body"
        /\ inHook' = inHook /\ todo' = todo
    BY <1>3 DEF PollSees, Polled
  <2>2. polls \subseteq Replicas \X op.chains /\ \A c \in op.chains : (c \in hub) = op.freezes
    BY <2>1 DEF HubHolds
  <2>3. ASSUME NEW p \in Watched PROVE IF Busy(p)' THEN Changing(p)' ELSE Settled(p)'
    <3>1. Busy(p)' <=> p \in polls' BY <2>1 DEF Busy
    <3>2. CASE p \in polls'
      <4>1. Changing(p) BY <2>1, <3>2 DEF PairsHold, Busy
      <4> QED BY <2>1, <3>1, <3>2, <4>1, SameChanging DEF chain
    <3>3. CASE p \notin polls
      <4>1. Settled(p) BY <2>1, <3>3 DEF PairsHold, Busy
      <4> QED BY <2>1, <3>1, <3>3, <4>1, SameSettled
    <3>4. CASE p = q
      <4>1. Changing(p) BY <2>1, <3>4 DEF PairsHold, Busy
      <4>2. Held(p) = op.freezes BY <2>1, <3>4 DEF Shows, Held
      <4>3. Wanted(p) = op.freezes BY <2>2, <3>4 DEF Wanted
      <4>4. Settled(p) BY <4>1, <4>2, <4>3, SeenSettled
      <4> QED BY <2>1, <3>1, <3>4, <4>4, SameSettled
    <3> QED BY <2>1, <3>2, <3>3, <3>4
  <2>4. late = << >> /\ late' = late /\ hub' = hub BY <2>1 DEF HubHolds, chain
  <2>5. inHook => ~op.freezes /\ hub \subseteq todo BY <2>1 DEF HubHolds
  <2> QED BY <1>0, <2>1, <2>2, <2>3, <2>4, <2>5 DEF PairsHold, HubHolds
<1>4. ASSUME NEW q \in polls, PollExhausted(q) PROVE FALSE
  BY <1>4 DEF PollExhausted, Throws
<1> QED BY <1>1, <1>2, <1>3, <1>4 DEF Helper

\* An operation starts where the hub has the other status.
LEMMA StartHolds ==
  ASSUME TypeOK, PairsHold, pc \notin {"write", "poll"}, NEW o \in Ops, Starts(o), UNCHANGED chain,
         unwatched \subseteq unwatched', \A c \in o.chains : (c \in hub) # o.freezes
  PROVE  PairsHold'
<1> SUFFICES ASSUME NEW p \in Watched' PROVE IF Busy(p)' THEN Changing(p)' ELSE Settled(p)'
  BY DEF PairsHold
<1>1. p \in Replicas \X Chains /\ p \in Watched BY DEF Watched
<1>2. Settled(p) BY <1>1 DEF PairsHold, Busy
<1>3. Busy(p)' <=> p[2] \in o.chains BY DEF Busy, Starts
<1>4. CASE p[2] \in o.chains
  BY <1>1, <1>2, <1>3, <1>4, StartChanging DEF Starts, Wanted
<1>5. CASE p[2] \notin o.chains
  BY <1>2, <1>3, <1>5, SameSettled
<1> QED BY <1>4, <1>5

LEMMA RestHolds ==
  ASSUME PairsHold, pc \notin {"write", "poll"}, pc' \notin {"write", "poll"},
         UNCHANGED <<unwatched, chain>>
  PROVE  PairsHold'
<1> SUFFICES ASSUME NEW p \in Watched' PROVE ~Busy(p)' /\ Settled(p)'
  BY DEF PairsHold
<1>1. p \in Watched BY DEF Watched
<1>2. Settled(p) /\ ~Busy(p)' BY <1>1 DEF PairsHold, Busy
<1> QED BY <1>2, SameSettled

LEMMA TestHolds ==
  ASSUME TypeOK, PairsHold, HubHolds, ListHolds, Test
  PROVE  PairsHold' /\ HubHolds'
<1>1. ASSUME NEW list \in PairLists, TestFreezes(list) PROVE PairsHold' /\ HubHolds'
  <2> DEFINE o == [freezes |-> TRUE, chains |-> ChainsOf(list)]
  <2>1. ChainsOf(list) \subseteq Chains BY PairsAssumption DEF ChainsOf
  <2>2. o \in Ops /\ o.freezes = TRUE BY <2>1 DEF Ops
  <2>3. /\ pc = "idle" /\ Starts(o) /\ UNCHANGED chain /\ hub = {} /\ late = << >>
        /\ ~inHook /\ inHook' = inHook /\ unwatched \subseteq unwatched'
    BY <1>1 DEF TestFreezes, HubHolds
  <2> HIDE DEF o
  <2>4. PairsHold' BY <2>2, <2>3, StartHolds
  <2>5. late' \in Seq({op'}) /\ pc' = "write" BY <2>3 DEF chain, Starts
  <2> QED BY <2>3, <2>4, <2>5 DEF HubHolds
<1>2. CASE TestUnfreezes
  <2> DEFINE o == [freezes |-> FALSE, chains |-> ChainsOf(pairs)]
  <2>1. /\ pc = "body" /\ Starts(o) /\ UNCHANGED chain /\ op.chains \subseteq hub /\ late = << >>
        /\ ~inHook /\ inHook' = inHook /\ unwatched' = unwatched
    BY <1>2 DEF TestUnfreezes, HubHolds
  <2>2. o \in Ops /\ o.freezes = FALSE BY DEF TypeOK, Ops, ChainsOf
  <2>3. o.chains = op.chains BY <2>1 DEF ListHolds
  <2> HIDE DEF o
  <2>4. PairsHold' BY <2>1, <2>2, <2>3, StartHolds
  <2>5. late' \in Seq({op'}) /\ pc' = "write" BY <2>1 DEF chain, Starts
  <2> QED BY <2>1, <2>4, <2>5 DEF HubHolds
<1>3. CASE TestEnds
  <2>1. /\ pc = "body" /\ pc' = "hook" /\ inHook' /\ todo' = Chains /\ op' = op
        /\ UNCHANGED <<unwatched, chain>>
    BY <1>3 DEF TestEnds
  <2>2. PairsHold' BY <2>1, RestHolds
  <2>3. hub' \subseteq Chains /\ late' = << >> BY <2>1 DEF chain, HubHolds, TypeOK
  <2> QED BY <2>1, <2>2, <2>3 DEF HubHolds
<1>4. ASSUME NEW c \in todo, HookVisits(c) PROVE PairsHold' /\ HubHolds'
  <2>1. /\ pc = "hook" /\ inHook /\ inHook' = inHook /\ todo' = todo \ {c}
        /\ UNCHANGED <<unwatched, chain>>
        /\ late = << >> /\ hub \subseteq todo /\ hub' = hub /\ late' = late
    BY <1>4 DEF HookVisits, HubHolds, chain
  <2>2. CASE c \in hub
    <3> DEFINE o == [freezes |-> FALSE, chains |-> {c}]
    <3>1. Starts(o) /\ o.freezes = FALSE /\ o.chains = {c} /\ o \in Ops
      BY <1>4, <2>2 DEF HookVisits, IsTokenFrozenForParticipant, TypeOK, Ops
    <3> HIDE DEF o
    <3>2. PairsHold' BY <2>1, <2>2, <3>1, StartHolds
    <3>3. late' \in Seq({op'}) /\ pc' = "write" /\ op' = o BY <2>1, <3>1 DEF Starts
    <3>4. hub' \subseteq todo' \cup op'.chains BY <2>1, <3>1, <3>3
    <3> QED BY <2>1, <3>1, <3>2, <3>3, <3>4 DEF HubHolds
  <2>3. CASE c \notin hub
    <3>1. pc' = "hook" BY <1>4, <2>1, <2>3 DEF HookVisits, IsTokenFrozenForParticipant
    <3>2. PairsHold' BY <2>1, <3>1, RestHolds
    <3>3. hub' \subseteq todo' BY <2>1, <2>3
    <3> QED BY <2>1, <3>1, <3>2, <3>3 DEF HubHolds
  <2> QED BY <2>2, <2>3
<1>5. CASE HookEnds
  <2>1. /\ pc = "hook" /\ todo = {} /\ pc' = "idle" /\ ~inHook' /\ UNCHANGED <<unwatched, chain>>
    BY <1>5 DEF HookEnds
  <2>2. PairsHold' BY <2>1, RestHolds
  <2>3. hub' = {} /\ late' = << >> BY <2>1 DEF HubHolds, chain
  <2> QED BY <2>1, <2>2, <2>3 DEF HubHolds
<1> QED BY <1>1, <1>2, <1>3, <1>4, <1>5 DEF Test

LEMMA EnvironmentHolds ==
  ASSUME TypeOK, InOrder, \A m \in net : m.seq < seq, PairsHold, HubHolds, Environment
  PROVE  PairsHold' /\ HubHolds'
<1>0. Watched \subseteq Replicas \X Chains /\ Watched' = Watched
  BY DEF Watched, Environment, Deliver, MinedLate, local
<1>b. ASSUME UNCHANGED local, NEW p PROVE Busy(p)' <=> Busy(p)
  BY <1>b DEF local, Busy
<1>1. ASSUME NEW m \in net, Deliver(m) PROVE PairsHold' /\ HubHolds'
  <2>1. UNCHANGED local /\ hub' = hub /\ late' = late BY <1>1 DEF Deliver
  <2>2. HubHolds' BY <2>1 DEF HubHolds, local
  <2>3. ASSUME NEW p \in Watched PROVE IF Busy(p)' THEN Changing(p)' ELSE Settled(p)'
    <3>1. p \in Replicas \X Chains BY <1>0
    <3>2. CASE Busy(p) BY <1>1, <1>b, <2>1, <3>1, <3>2, DeliverChanging DEF PairsHold
    <3>3. CASE ~Busy(p)
      <4>1. Settled(p) BY <3>3 DEF PairsHold
      <4> QED BY <1>1, <1>b, <2>1, <3>1, <3>3, <4>1, DeliverSettled
    <3> QED BY <3>2, <3>3
  <2> QED BY <1>0, <2>2, <2>3 DEF PairsHold
<1>2. CASE MinedLate
  <2>1. /\ UNCHANGED local /\ late # << >> /\ late' = Tail(late) /\ rep' = rep
        /\ Applied(Head(late)) \/ UNCHANGED <<hub, net, seq>>
    BY <1>2 DEF MinedLate
  <2>2. pc = "write" /\ late \in Seq({op}) BY <2>1 DEF HubHolds
  <2>3. Head(late) = op /\ Tail(late) \in Seq({op}) /\ op' = op /\ op \in Ops
    BY <2>1, <2>2 DEF local, TypeOK
  <2>4. HubHolds'
    <3>1. inHook => ~op.freezes /\ hub \subseteq todo \cup op.chains BY <2>2 DEF HubHolds
    <3>2. inHook => hub' \subseteq todo \cup op.chains BY <2>1, <2>3, <3>1 DEF Applied
    <3> QED BY <2>1, <2>2, <2>3, <3>1, <3>2 DEF HubHolds, local
  <2>5. CASE UNCHANGED <<hub, net, seq>>
    <3>1. ASSUME NEW p \in Watched PROVE IF Busy(p)' THEN Changing(p)' ELSE Settled(p)'
      <4>1. CASE Busy(p) BY <1>b, <2>1, <2>3, <2>5, <4>1, SameChanging DEF PairsHold
      <4>2. CASE ~Busy(p)
        <5>1. Settled(p) BY <4>2 DEF PairsHold
        <5> QED BY <1>b, <2>1, <2>5, <4>2, <5>1 DEF Settled, Held, Wanted, To
      <4> QED BY <4>1, <4>2
    <3> QED BY <1>0, <2>4, <3>1 DEF PairsHold
  <2>6. CASE Applied(op)
    <3>1. ASSUME NEW p \in Watched PROVE IF Busy(p)' THEN Changing(p)' ELSE Settled(p)'
      <4>1. p \in Replicas \X Chains BY <1>0
      <4>2. Busy(p) <=> p[2] \in op.chains BY <2>2 DEF Busy
      <4>3. CASE p[2] \in op.chains
        <5>1. Changing(p) BY <4>2, <4>3 DEF PairsHold
        <5> QED BY <1>b, <2>1, <2>3, <2>6, <4>1, <4>2, <4>3, <5>1, AppliedChanging
      <4>4. CASE p[2] \notin op.chains
        <5>1. Settled(p) BY <4>2, <4>4 DEF PairsHold
        <5> QED BY <1>b, <2>1, <2>3, <2>6, <4>1, <4>2, <4>4, <5>1, AppliedSettled
      <4> QED BY <4>3, <4>4
    <3> QED BY <1>0, <2>4, <3>1 DEF PairsHold
  <2> QED BY <2>1, <2>3, <2>5, <2>6
<1> QED BY <1>1, <1>2 DEF Environment

\* The messages are numbered in the order they were sent.
LEMMA NumbersGrow ==
  ASSUME TypeOK, \A m \in net : m.seq < seq, [Next]_vars
  PROVE  \A m \in net' : m.seq < seq'
<1>1. \/ \E o : Applied(o)
      \/ net' \subseteq net /\ seq' = seq
  BY DEF Next, Helper, Test, Environment, WriteMined, WriteRejected, WriteReverts, ReceiptTimesOut,
         PollSees, PollExhausted, TestFreezes, TestUnfreezes, TestEnds, HookVisits, HookEnds,
         Deliver, MinedLate, vars, chain
<1>2. ASSUME NEW o, Applied(o) PROVE \A m \in net' : m.seq < seq'
  <2>1. seq \in Nat /\ seq' = seq + 1 /\ \A m \in net : m.seq \in Nat
    BY <1>2 DEF Applied, TypeOK
  <2>2. \A m \in net' : m \in net \/ m.seq = seq BY <1>2 DEF Applied
  <2> QED BY <2>1, <2>2
<1> QED BY <1>1, <1>2

\* No action takes a failure back.
LEMMA FailureLasts ==
  ASSUME [Next]_vars, ~failed'
  PROVE  ~failed
BY DEF Next, Helper, Test, Environment, WriteMined, WriteRejected, WriteReverts, ReceiptTimesOut,
       RetryOrThrow, Throws, PollSees, PollExhausted, TestFreezes, TestUnfreezes, TestEnds,
       HookVisits, HookEnds, Deliver, MinedLate, vars, local

\* A test keeps to its list until it ends, fails or the next one starts.
LEMMA ListLasts ==
  ASSUME TypeOK, ListHolds, [Next]_vars
  PROVE  ListHolds'
<1>1. ASSUME NEW list \in PairLists, TestFreezes(list) PROVE ListHolds'
  <2>1. /\ pairs' = list /\ op' = [freezes |-> TRUE, chains |-> ChainsOf(list)]
        /\ unwatched' = unwatched \cup ((Replicas \X ChainsOf(list)) \ list) /\ pc' = "write"
    BY <1>1 DEF TestFreezes, Starts
  <2>2. op'.chains = ChainsOf(pairs') BY <2>1
  <2>3. ASSUME NEW p \in Watched', p[2] \in op'.chains PROVE p \in pairs'
    <3>1. p \in Replicas \X Chains /\ p \notin unwatched' BY <2>3 DEF Watched
    <3>2. p \in Replicas \X ChainsOf(list) BY <2>1, <2>3, <3>1
    <3> QED BY <2>1, <3>1, <3>2
  <2>4. ChainsOf(pairs)' = ChainsOf(pairs') BY DEF ChainsOf
  <2> QED BY <2>1, <2>2, <2>3, <2>4 DEF ListHolds
<1>2. CASE TestUnfreezes
  <2>1. pc = "body" /\ op' = [freezes |-> FALSE, chains |-> ChainsOf(pairs)]
        /\ UNCHANGED <<pairs, unwatched, inHook>> /\ pc' = "write"
    BY <1>2 DEF TestUnfreezes, Starts
  <2> QED BY <2>1 DEF ListHolds, Watched, ChainsOf
<1>3. ASSUME inHook' PROVE ListHolds' BY <1>3 DEF ListHolds
<1>4. ASSUME pc' = "idle" PROVE ListHolds' BY <1>4 DEF ListHolds
<1>5. ASSUME UNCHANGED <<pairs, op, unwatched, inHook>>,
             pc' \in {"write", "poll", "body"} => pc \in {"write", "poll", "body"},
             pc' = "hook" => pc = "hook"
      PROVE  ListHolds'
  BY <1>5 DEF ListHolds, Watched, ChainsOf
<1>6. CASE Helper
  <2>1. UNCHANGED <<pairs, op, unwatched>> /\ pc \in {"write", "poll"}
    BY <1>6 DEF Helper, WriteMined, WriteRejected, WriteReverts, ReceiptTimesOut, PollSees,
                PollExhausted
  <2>2. inHook' = TRUE \/ (inHook' = inHook /\ pc' # "hook")
    <3>0. inHook = TRUE \/ inHook = FALSE BY Zenon DEF TypeOK
    <3>1. ASSUME Throws PROVE inHook' = TRUE BY <3>1 DEF Throws
    <3>2. ASSUME NEW left, Polled(left), inHook' = inHook PROVE inHook' = TRUE \/ pc' # "hook"
      BY <3>0, <3>2 DEF Polled
    <3>3. CASE WriteRejected \/ WriteReverts \/ ReceiptTimesOut
      BY <3>1, <3>3 DEF WriteRejected, WriteReverts, ReceiptTimesOut, RetryOrThrow
    <3>4. ASSUME NEW p \in polls, PollExhausted(p) PROVE inHook' = TRUE
      BY <3>1, <3>4 DEF PollExhausted
    <3>5. ASSUME NEW p \in polls, PollSees(p)
          PROVE  inHook' = TRUE \/ (inHook' = inHook /\ pc' # "hook")
      BY <3>2, <3>5 DEF PollSees
    <3>6. CASE WriteMined BY <3>2, <3>6 DEF WriteMined
    <3> QED BY <1>6, <3>3, <3>4, <3>5, <3>6 DEF Helper
  <2>3. CASE inHook' = TRUE
    <3>1. inHook' BY <2>3
    <3> QED BY <1>3, <3>1
  <2>4. CASE inHook' = inHook /\ pc' # "hook" BY <1>5, <2>1, <2>4
  <2> QED BY <2>2, <2>3, <2>4
<1>7. CASE Test
  <2>1. CASE TestEnds BY <1>3, <2>1, Zenon DEF TestEnds
  <2>2. ASSUME NEW c \in todo, HookVisits(c) PROVE ListHolds'
    BY <1>3, <2>2 DEF HookVisits, ListHolds
  <2>3. CASE HookEnds BY <1>4, <2>3 DEF HookEnds
  <2> QED BY <1>1, <1>2, <1>7, <2>1, <2>2, <2>3 DEF Test
<1>8. CASE Environment \/ UNCHANGED vars
  BY <1>5, <1>8 DEF Environment, Deliver, MinedLate, vars, local
<1> QED BY <1>6, <1>7, <1>8 DEF Next

LEMMA InitSync == Init => SyncInv
<1> SUFFICES ASSUME Init PROVE SyncInv
  OBVIOUS
<1>1. \A p \in Watched : ~Busy(p) /\ Settled(p)
  <2> SUFFICES ASSUME NEW p \in Watched PROVE ~Busy(p) /\ Settled(p)
    OBVIOUS
  <2>1. p[1] \in Replicas BY DEF Watched
  <2>2. ~Held(p) /\ ~Wanted(p) /\ To(p) = {} BY <2>1 DEF Init, Held, Wanted, To
  <2>3. Held(p) \in BOOLEAN /\ Wanted(p) \in BOOLEAN BY DEF Held, Wanted
  <2> QED BY <2>2, <2>3 DEF Init, Busy, Settled
<1>2. HubHolds BY DEF Init, HubHolds
<1>3. ListHolds BY DEF Init, ListHolds
<1> QED BY <1>1, <1>2, <1>3 DEF Init, SyncInv, PairsHold

LEMMA NextSync == InOrder /\ TypeOK /\ SyncInv /\ [Next]_vars => SyncInv'
<1> SUFFICES ASSUME InOrder, TypeOK, SyncInv, [Next]_vars PROVE SyncInv'
  OBVIOUS
<1>1. \A m \in net' : m.seq < seq' BY NumbersGrow DEF SyncInv
<1>2. ListHolds' BY ListLasts DEF SyncInv
<1>3. ASSUME ~failed' PROVE PairsHold' /\ HubHolds'
  <2>1. ~failed /\ PairsHold /\ HubHolds BY <1>3, FailureLasts DEF SyncInv
  <2>2. CASE Next
    BY <1>3, <2>1, <2>2, HelperHolds, TestHolds, EnvironmentHolds DEF Next, SyncInv
  <2>3. CASE UNCHANGED vars
    BY <2>1, <2>3 DEF vars, local, chain, PairsHold, HubHolds, Watched, Busy, Changing, Settled,
                      Held, Wanted, To
  <2> QED BY <2>2, <2>3
<1> QED BY <1>1, <1>2, <1>3 DEF SyncInv

\* The invariant holds in every state, where the relayers keep the order.
LEMMA SyncHolds == InOrder /\ Spec => [](TypeOK /\ SyncInv)
<1>1. Spec => []TypeOK BY TypeCorrect
<1>2. InOrder => (Spec => [](TypeOK /\ SyncInv))
  <2> SUFFICES ASSUME InOrder PROVE Spec => [](TypeOK /\ SyncInv)
    OBVIOUS
  <2>1. TypeOK /\ SyncInv /\ [Next]_vars => SyncInv' BY NextSync
  <2> QED BY <1>1, <2>1, InitSync, PTL DEF Spec
<1> QED BY <1>2

\* In a test every replica it waited on agrees with the hub, whatever was retried,
\* mined late or still in flight: for any chains, replicas and lists of the tests,
\* about every pair that none of them has frozen without polling it, provided the
\* relayers keep the order.
THEOREM SyncLasts == InOrder /\ Spec => []SyncedStatusLasts
<1>1. TypeOK /\ SyncInv => SyncedStatusLasts
  <2> SUFFICES ASSUME TypeOK, SyncInv, pc = "body", ~failed, NEW p \in pairs \ unwatched
               PROVE  (p[2] \in rep[p[1]]) = (p[2] \in hub)
    BY DEF SyncedStatusLasts
  <2>1. p \in Watched BY DEF Watched, TypeOK
  <2>2. Settled(p) BY <2>1 DEF SyncInv, PairsHold, Busy
  <2> QED BY <2>2 DEF Settled, Held, Wanted
<1> QED BY <1>1, SyncHolds, PTL

\* Between two tests the token is frozen nowhere that the tests have always polled
\* when they froze it, for any lists: the hook adds nothing to what the freezes
\* themselves waited for, provided the relayers keep the order.
THEOREM CleanWhereWatched == InOrder /\ Spec => []CleanWherePolled
<1>1. SyncInv => CleanWherePolled
  <2> SUFFICES ASSUME SyncInv, pc = "idle", ~failed
               PROVE  hub = {} /\ \A p \in Watched : p[2] \notin rep[p[1]]
    BY DEF CleanWherePolled, Watched
  <2>1. hub = {} BY DEF SyncInv, HubHolds
  <2>2. ASSUME NEW p \in Watched PROVE p[2] \notin rep[p[1]]
    <3>1. Settled(p) BY DEF SyncInv, PairsHold, Busy
    <3> QED BY <2>1, <3>1 DEF Settled, Held, Wanted
  <2> QED BY <2>1, <2>2
<1> QED BY <1>1, SyncHolds, PTL
=============================================================================
