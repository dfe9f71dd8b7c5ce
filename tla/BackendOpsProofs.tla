--------------------------- MODULE BackendOpsProofs ---------------------------
(***************************************************************************)
(* What the flows of src/flows/backend guarantee for any number of clients *)
(* on one node, any scripts, and any answers that fail or come too late.   *)
(***************************************************************************)
EXTENDS BackendOpsProps, FiniteSetTheorems, SequenceTheorems, TLAPS

Tokens == [status : TokenStatus, saved : TokenStatus, public : PublicChainStatus, moved : Nat]
Late(n) == [op : Ops, pair : 0 .. n]

(***************************************************************************)
(* Types                                                                   *)
(***************************************************************************)

\* Every step of a script is a write or a poll that may be tried at least once.
LEMMA StepAt ==
  ASSUME NEW c \in Clients, NEW i \in DOMAIN Script[c], NEW j \in DOMAIN Script[c][i]
  PROVE  /\ Script[c][i][j] \in Steps /\ Script[c][i][j].tries \in Nat \ {0}
         /\ DOMAIN Script[c] = 1 .. Len(Script[c]) /\ Len(Script[c]) \in Nat \ {0}
         /\ DOMAIN Script[c][i] = 1 .. Len(Script[c][i]) /\ Len(Script[c][i]) \in Nat \ {0}
<1>1. Script[c] \in Seq(Seq(Steps)) /\ Script[c][i] \in Seq(Steps)
  BY ScriptAssumption
<1>2. Script[c][i][j] \in Steps
  BY <1>1
<1>3. Script[c][i][j].tries \in Nat \ {0}
  BY <1>2 DEF Steps
<1>4. DOMAIN Script[c] = 1 .. Len(Script[c]) /\ Len(Script[c]) \in Nat \ {0}
  BY <1>1, ScriptAssumption
<1>5. DOMAIN Script[c][i] = 1 .. Len(Script[c][i]) /\ Len(Script[c][i]) \in Nat \ {0}
  BY <1>1, ScriptAssumption
<1> QED  BY <1>2, <1>3, <1>4, <1>5

\* What a client is at.
LEMMA ClientAt ==
  ASSUME TypeOK, NEW c \in Clients
  PROVE  /\ flow[c] \in 1 .. Len(Script[c]) /\ step[c] \in 1 .. Len(Script[c][flow[c]])
         /\ Len(Script[c]) \in Nat /\ Len(Script[c][flow[c]]) \in Nat
         /\ Step(c) \in Steps /\ Step(c).tries \in Nat \ {0}
         /\ At(c, "write") => Step(c).on \in Ops
<1>1. flow[c] \in DOMAIN Script[c] /\ step[c] \in DOMAIN Script[c][flow[c]]
  BY DEF TypeOK
<1>2. Step(c) \in Steps /\ Step(c).tries \in Nat \ {0}
  BY <1>1, StepAt DEF Step
<1>3. At(c, "write") => Step(c).on \in Ops
  BY <1>2 DEF At, Steps
<1> QED  BY <1>1, <1>2, <1>3, StepAt

ClientTypes ==
  /\ flow \in [Clients -> Nat] /\ step \in [Clients -> Nat] /\ tries \in [Clients -> Nat]
  /\ \A c \in Clients :
       /\ flow[c] \in DOMAIN Script[c] /\ step[c] \in DOMAIN Script[c][flow[c]]
       /\ tries[c] \in 1 .. Step(c).tries
  /\ outcome \in [Clients -> Outcomes]

LEMMA ResolveTypes ==
  ASSUME TypeOK, NEW c \in Clients, Resolve(c)
  PROVE  ClientTypes'
<1> DEFINE f == flow'[c]
           j == step'[c]
<1>1. /\ flow \in [Clients -> Nat] /\ step \in [Clients -> Nat] /\ tries \in [Clients -> Nat]
      /\ outcome \in [Clients -> Outcomes]
  BY DEF TypeOK
<1>2. /\ flow[c] \in 1 .. Len(Script[c]) /\ step[c] \in 1 .. Len(Script[c][flow[c]])
      /\ Len(Script[c]) \in Nat /\ Len(Script[c][flow[c]]) \in Nat
  BY ClientAt
<1>3. \A d \in Clients : flow[d] \in DOMAIN Script[d] /\ step[d] \in DOMAIN Script[d][flow[d]]
  BY DEF TypeOK
<1>4. tries' = [tries EXCEPT ![c] = 1]
  BY DEF Resolve
<1>5. ASSUME NEW d \in Clients
      PROVE  /\ flow' \in [Clients -> Nat] /\ step' \in [Clients -> Nat]
             /\ outcome' \in [Clients -> Outcomes]
             /\ flow'[d] \in DOMAIN Script[d] /\ step'[d] \in DOMAIN Script[d][flow'[d]]
             /\ d # c => flow'[d] = flow[d] /\ step'[d] = step[d]
  <2>1. CASE step[c] < Len(Script[c][flow[c]])
    <3>1. step' = [step EXCEPT ![c] = step[c] + 1] /\ flow' = flow /\ outcome' = outcome
      BY <2>1 DEF Resolve
    <3>2. step[c] + 1 \in DOMAIN Script[c][flow[c]]
      BY <1>2, <1>3, <2>1, StepAt
    <3> QED  BY <1>1, <1>3, <3>1, <3>2
  <2>2. CASE ~(step[c] < Len(Script[c][flow[c]])) /\ flow[c] < Len(Script[c])
    <3>1. /\ flow' = [flow EXCEPT ![c] = flow[c] + 1] /\ step' = [step EXCEPT ![c] = 1]
          /\ outcome' = outcome
      BY <2>2 DEF Resolve
    <3>2. flow[c] + 1 \in DOMAIN Script[c]
      BY <1>2, <1>3, <2>2, StepAt
    <3>3. 1 \in DOMAIN Script[c][flow[c] + 1]
      <4>1. Script[c][flow[c] + 1] \in Seq(Steps) /\ Len(Script[c][flow[c] + 1]) > 0
        BY <3>2, ScriptAssumption
      <4> QED  BY <4>1
    <3> QED  BY <1>1, <1>3, <3>1, <3>2, <3>3
  <2>3. CASE ~(step[c] < Len(Script[c][flow[c]])) /\ ~(flow[c] < Len(Script[c]))
    <3>1. /\ outcome' = [outcome EXCEPT ![c] = "returned"] /\ flow' = flow /\ step' = step
      BY <2>3 DEF Resolve
    <3> QED  BY <1>1, <1>3, <3>1 DEF Outcomes
  <2> QED  BY <2>1, <2>2, <2>3
<1>6. ASSUME NEW d \in Clients
      PROVE  tries'[d] \in 1 .. Step(d)'.tries
  <2>1. CASE d = c
    <3>1. Step(d)'.tries \in Nat \ {0}
      BY <1>5, StepAt DEF Step
    <3> QED  BY <1>1, <1>4, <2>1, <3>1
  <2>2. CASE d # c
    <3>1. Step(d)' = Step(d)
      BY <1>5, <2>2 DEF Step
    <3>2. tries[d] \in 1 .. Step(d).tries
      BY DEF TypeOK
    <3> QED  BY <1>1, <1>4, <2>2, <3>1, <3>2
  <2> QED  BY <2>1, <2>2
<1>7. tries' \in [Clients -> Nat]
  BY <1>1, <1>4
<1>8. \E d \in Clients : TRUE
  OBVIOUS
<1> QED  BY <1>5, <1>6, <1>7, <1>8 DEF ClientTypes

LEMMA RetryTypes ==
  ASSUME TypeOK, NEW c \in Clients, NEW worthIt, NEW why \in Outcomes, Retry(c, worthIt, why)
  PROVE  ClientTypes'
<1>1. flow' = flow /\ step' = step /\ \A d \in Clients : Step(d)' = Step(d)
  BY DEF Retry, Step
<1>2. /\ tries \in [Clients -> Nat] /\ outcome \in [Clients -> Outcomes]
      /\ Step(c).tries \in Nat /\ \A d \in Clients : tries[d] \in 1 .. Step(d).tries
  BY ClientAt DEF TypeOK
<1>3. CASE worthIt /\ tries[c] < Step(c).tries
  <2>1. tries' = [tries EXCEPT ![c] = tries[c] + 1] /\ outcome' = outcome
    BY <1>3 DEF Retry
  <2>2. tries' \in [Clients -> Nat] /\ \A d \in Clients : tries'[d] \in 1 .. Step(d).tries
    BY <1>2, <1>3, <2>1
  <2> QED  BY <1>1, <2>1, <2>2 DEF TypeOK, ClientTypes
<1>4. CASE ~(worthIt /\ tries[c] < Step(c).tries)
  <2>1. tries' = tries /\ outcome' = [outcome EXCEPT ![c] = why]
    BY <1>4 DEF Retry
  <2> QED  BY <1>1, <1>2, <2>1 DEF TypeOK, ClientTypes
<1> QED  BY <1>3, <1>4

\* A write leaves a token of the registry behind.
LEMMA AfterTypes ==
  ASSUME NEW op \in Ops, NEW t \in Tokens
  PROVE  After(op, t) \in Tokens
<1>1. CASE op \in {"register", "AUTHORIZED", "UNAUTHORIZED", "freeze_privacy_node"}
  BY <1>1 DEF After, Tokens, TokenStatus
<1>2. CASE op = "unfreeze_privacy_node"
  BY <1>2 DEF After, Tokens
<1>3. CASE op \in {"submit", "freeze_public_chain", "unfreeze_public_chain"}
  BY <1>3 DEF After, Tokens, PublicChainStatus
<1>4. CASE op = "teleport"
  BY <1>4 DEF After, Tokens
<1>5. CASE op \in PairStatus \cup {"addPair"}
  BY <1>5 DEF After, PairStatus
<1> QED  BY <1>1, <1>2, <1>3, <1>4, <1>5 DEF Ops, TokenOps

\* Pairs are added, never taken away.
LEMMA ApplyTypes ==
  ASSUME TypeOK, NEW c \in Clients, NEW op \in Ops, NEW pair \in 0 .. Len(pairs), Apply(c, op, pair)
  PROVE  /\ token' \in [Clients -> Tokens]
         /\ pairs' \in Seq(PairStatus) /\ Len(pairs') \in Nat /\ Len(pairs') >= Len(pairs)
         /\ op = "addPair" => Len(pairs') = Len(pairs) + 1
         /\ custody' \in 0 .. Len(pairs')
<1>1. /\ token \in [Clients -> Tokens] /\ pairs \in Seq(PairStatus) /\ custody \in 0 .. Len(pairs)
      /\ Len(pairs) \in Nat
  BY DEF TypeOK, Tokens
<1>2. token' \in [Clients -> Tokens]
  BY <1>1, AfterTypes DEF Apply
<1>3. CASE op = "addPair"
  BY <1>1, <1>2, <1>3 DEF Apply, PairStatus
<1>4. CASE op \in PairStatus
  <2>1. pairs' = [pairs EXCEPT ![pair] = op] /\ custody' = custody
    BY <1>4 DEF Apply, PairStatus, TokenOps
  <2>2. pairs' \in Seq(PairStatus) /\ Len(pairs') = Len(pairs)
    <3>1. CASE pair \in 1 .. Len(pairs)
      BY <1>1, <1>4, <2>1, <3>1, ExceptSeq
    <3>2. CASE pair = 0
      <4>1. pairs' = pairs
        BY <1>1, <2>1, <3>2
      <4> QED  BY <1>1, <4>1
    <3> QED  BY <3>1, <3>2
  <2>3. op # "addPair" /\ custody' \in 0 .. Len(pairs')
    BY <1>1, <1>4, <2>1, <2>2 DEF PairStatus
  <2> QED  BY <1>1, <1>2, <2>2, <2>3
<1>5. CASE op \in TokenOps \cup {"teleport"}
  <2>1. pairs' = pairs /\ custody' \in {0, custody}
    BY <1>5 DEF Apply, PairStatus, TokenOps
  <2> QED  BY <1>1, <1>2, <1>5, <2>1 DEF TokenOps
<1> QED  BY <1>3, <1>4, <1>5 DEF Ops

\* A write named in unsure[] keeps its type when pairs are added.
LEMMA WiderLate ==
  ASSUME NEW n \in Nat, NEW m \in Nat, n <= m, NEW s \in Seq(Late(n))
  PROVE  s \in Seq(Late(m))
<1>1. Late(n) \subseteq Late(m)
  BY DEF Late
<1>2. \A i \in 1 .. Len(s) : s[i] \in Late(m)
  BY <1>1
<1> QED  BY <1>2

UnsureOK(n) ==
  /\ unsure' \in [Clients -> Seq(Late(n))] /\ late' \in [Clients -> SUBSET Nat]
  /\ \A d \in Clients : late'[d] \subseteq DOMAIN unsure'[d]

LEMMA UnsureTypes ==
  ASSUME TypeOK, NEW n \in Nat, Len(pairs) <= n, NEW c \in Clients,
         \/ UNCHANGED <<unsure, late>>
         \/ At(c, "write") /\ Unsure(c) /\ late' = late
         \/ /\ At(c, "write") /\ Unsure(c)
            /\ late' = [late EXCEPT ![c] = late[c] \cup {Len(unsure[c]) + 1}]
         \/ unsure' = unsure /\ \E i : late' = [late EXCEPT ![c] = late[c] \ {i}]
  PROVE  UnsureOK(n)
<1>1. /\ unsure \in [Clients -> Seq(Late(Len(pairs)))] /\ late \in [Clients -> SUBSET Nat]
      /\ \A d \in Clients : late[d] \subseteq DOMAIN unsure[d]
      /\ Len(pairs) \in Nat /\ mine[c] \in 0 .. Len(pairs)
  <2>1. pairs \in Seq(PairStatus) /\ mine \in [Clients -> 0 .. Len(pairs)]
    BY DEF TypeOK
  <2>2. Len(pairs) \in Nat /\ mine[c] \in 0 .. Len(pairs)
    BY <2>1
  <2>3. unsure \in [Clients -> Seq(Late(Len(pairs)))] /\ late \in [Clients -> SUBSET Nat]
    BY DEF TypeOK, Late
  <2>4. \A d \in Clients : late[d] \subseteq DOMAIN unsure[d]
    BY DEF TypeOK
  <2> QED  BY <2>2, <2>3, <2>4
<1>2. unsure \in [Clients -> Seq(Late(n))]
  BY <1>1, WiderLate
<1>3. CASE unsure' = unsure
  <2>1. late' \in [Clients -> SUBSET Nat] /\ \A d \in Clients : late'[d] \subseteq late[d]
    <3>1. CASE late' = late
      BY <1>1, <3>1
    <3>2. CASE \E i : late' = [late EXCEPT ![c] = late[c] \ {i}]
      BY <1>1, <3>2
    <3>3. CASE Unsure(c)
      <4>1. unsure'[c] = Append(unsure[c], [op |-> Step(c).on, pair |-> mine[c]])
        BY <1>1, <3>3 DEF Unsure
      <4>2. Len(unsure'[c]) = Len(unsure[c]) + 1 /\ Len(unsure[c]) \in Nat
        BY <1>1, <4>1
      <4> QED  BY <1>3, <4>2
    <3> QED  BY <3>1, <3>2, <3>3
  <2> QED  BY <1>1, <1>2, <1>3, <2>1 DEF UnsureOK
<1>4. CASE At(c, "write") /\ Unsure(c) /\ late'[c] \subseteq late[c] \cup {Len(unsure[c]) + 1}
           /\ late' \in [Clients -> SUBSET Nat] /\ \A d \in Clients \ {c} : late'[d] = late[d]
  <2> DEFINE w == [op |-> Step(c).on, pair |-> mine[c]]
  <2>1. w \in Late(n)
    BY <1>1, <1>4, ClientAt DEF Late
  <2>2. unsure' = [unsure EXCEPT ![c] = Append(unsure[c], w)]
    BY <1>4 DEF Unsure
  <2> HIDE DEF w
  <2>3. Append(unsure[c], w) \in Seq(Late(n)) /\ Len(Append(unsure[c], w)) = Len(unsure[c]) + 1
    BY <1>2, <2>1
  <2>4. unsure' \in [Clients -> Seq(Late(n))]
    BY <1>2, <2>2, <2>3
  <2>5. late'[c] \subseteq DOMAIN unsure'[c]
    <3>1. unsure'[c] = Append(unsure[c], w)
      BY <1>2, <2>2
    <3>2. unsure[c] \in Seq(Late(n)) /\ DOMAIN unsure[c] = 1 .. Len(unsure[c])
      BY <1>2
    <3>3. DOMAIN unsure'[c] = 1 .. Len(unsure[c]) + 1 /\ Len(unsure[c]) \in Nat
      BY <2>1, <3>1, <3>2
    <3> QED  BY <1>1, <1>4, <3>2, <3>3
  <2>6. \A d \in Clients \ {c} : late'[d] \subseteq DOMAIN unsure'[d]
    BY <1>1, <1>2, <1>4, <2>2
  <2> QED  BY <1>4, <2>4, <2>5, <2>6 DEF UnsureOK
<1>5. Len(unsure[c]) \in Nat
  BY <1>1
<1>6. CASE At(c, "write") /\ Unsure(c) /\ late' = late
  BY <1>1, <1>4, <1>6
<1>7. CASE /\ At(c, "write") /\ Unsure(c)
           /\ late' = [late EXCEPT ![c] = late[c] \cup {Len(unsure[c]) + 1}]
  <2>1. late' \in [Clients -> SUBSET Nat]
    BY <1>1, <1>5, <1>7
  <2> QED  BY <1>1, <1>4, <1>7, <2>1
<1> QED  BY <1>3, <1>6, <1>7

LEMMA AllTypes ==
  ASSUME ClientTypes', token' \in [Clients -> Tokens], pairs' \in Seq(PairStatus),
         custody' \in 0 .. Len(pairs'), mine' \in [Clients -> 0 .. Len(pairs')],
         NEW n, n = Len(pairs'), UnsureOK(n), faults' \in 0 .. MaxFaults
  PROVE  TypeOK'
BY DEF TypeOK, ClientTypes, UnsureOK, Tokens, Late

LEMMA FaultTypes ==
  ASSUME TypeOK, Fault \/ UNCHANGED faults
  PROVE  faults' \in 0 .. MaxFaults
BY BudgetAssumption DEF TypeOK, Fault

\* A step that writes nothing.
LEMMA IdleTypes ==
  ASSUME TypeOK, NEW c \in Clients, ClientTypes', Fault \/ UNCHANGED faults,
         UNCHANGED <<token, pairs, mine, custody>>,
         \/ UNCHANGED <<unsure, late>>
         \/ /\ At(c, "write") /\ Unsure(c)
            /\ late' = [late EXCEPT ![c] = late[c] \cup {Len(unsure[c]) + 1}]
  PROVE  TypeOK'
<1>1. /\ token \in [Clients -> Tokens] /\ pairs \in Seq(PairStatus) /\ Len(pairs) \in Nat
      /\ custody \in 0 .. Len(pairs) /\ mine \in [Clients -> 0 .. Len(pairs)]
  BY DEF TypeOK, Tokens
<1>2. UnsureOK(Len(pairs))
  BY <1>1, UnsureTypes
<1> QED  BY <1>1, <1>2, AllTypes, FaultTypes

\* A step whose write is mined.
LEMMA WriteTypes ==
  ASSUME TypeOK, NEW c \in Clients, ClientTypes', Fault \/ UNCHANGED faults,
         NEW op \in Ops, NEW pair \in 0 .. Len(pairs), Apply(c, op, pair),
         mine' \in {mine, IF op = "addPair" THEN [mine EXCEPT ![c] = Len(pairs) + 1] ELSE mine},
         \/ UNCHANGED <<unsure, late>>
         \/ At(c, "write") /\ Unsure(c) /\ late' = late
         \/ unsure' = unsure /\ \E i : late' = [late EXCEPT ![c] = late[c] \ {i}]
  PROVE  TypeOK'
<1>1. mine \in [Clients -> 0 .. Len(pairs)] /\ pairs \in Seq(PairStatus) /\ Len(pairs) \in Nat
  BY DEF TypeOK
<1>2. /\ token' \in [Clients -> Tokens]
      /\ pairs' \in Seq(PairStatus) /\ Len(pairs') \in Nat /\ Len(pairs') >= Len(pairs)
      /\ op = "addPair" => Len(pairs') = Len(pairs) + 1
      /\ custody' \in 0 .. Len(pairs')
  BY ApplyTypes
<1>3. mine' \in [Clients -> 0 .. Len(pairs')]
  <2>1. CASE mine' = mine
    BY <1>1, <1>2, <2>1
  <2>2. CASE op = "addPair" /\ mine' = [mine EXCEPT ![c] = Len(pairs) + 1]
    BY <1>1, <1>2, <2>2
  <2> QED  BY <2>1, <2>2
<1>4. UnsureOK(Len(pairs'))
  BY <1>2, UnsureTypes
<1> QED  BY <1>2, <1>3, <1>4, AllTypes, FaultTypes

LEMMA TypeStep ==
  ASSUME TypeOK, Next
  PROVE  TypeOK'
<1>1. ASSUME NEW c \in Clients, ClientStep(c)
      PROVE  TypeOK'
  <2> DEFINE op == Step(c).on
             pair == mine[c]
  <2>1. (At(c, "write") => op \in Ops) /\ pair \in 0 .. Len(pairs)
    BY ClientAt DEF TypeOK
  <2>2. {"exhausted", "timedOut", "refused", "aborted"} \subseteq Outcomes
    BY DEF Outcomes
  <2> HIDE DEF op, pair
  <2>3. CASE WriteDone(c)
    <3>1. ClientTypes'
      BY <2>3, ResolveTypes DEF WriteDone
    <3>2. /\ At(c, "write") /\ Apply(c, op, pair) /\ UNCHANGED <<unsure, late, faults>>
          /\ mine' = IF op = "addPair" THEN [mine EXCEPT ![c] = Len(pairs) + 1] ELSE mine
      BY <2>3 DEF WriteDone, op, pair
    <3> QED  BY <2>1, <3>1, <3>2, WriteTypes
  <2>4. CASE FailsAfterWrite(c)
    <3>1. ClientTypes'
      BY <2>2, <2>4, RetryTypes DEF FailsAfterWrite
    <3>2. At(c, "write") /\ Apply(c, op, pair) /\ Unsure(c) /\ Fault /\ UNCHANGED <<mine, late>>
      BY <2>4 DEF FailsAfterWrite, op, pair
    <3> QED  BY <2>1, <3>1, <3>2, WriteTypes
  <2>5. CASE TimesOut(c)
    <3>1. ClientTypes'
      BY <2>2, <2>5, RetryTypes DEF TimesOut
    <3>2. /\ At(c, "write") /\ Unsure(c) /\ Fault /\ UNCHANGED <<token, pairs, mine, custody>>
          /\ late' = [late EXCEPT ![c] = late[c] \cup {Len(unsure[c]) + 1}]
      BY <2>5 DEF TimesOut
    <3> QED  BY <3>1, <3>2, IdleTypes
  <2>6. CASE PollSees(c)
    <3>1. ClientTypes' /\ UNCHANGED <<backendVars, faults>>
      BY <2>6, ResolveTypes DEF PollSees
    <3> QED  BY <3>1, IdleTypes DEF backendVars
  <2>7. CASE FailsBeforeWrite(c) \/ IsRefused(c) \/ PollMisses(c) \/ PollFails(c)
    <3>1. \E worthIt : \E why \in Outcomes : Retry(c, worthIt, why)
      BY <2>2, <2>7 DEF FailsBeforeWrite, IsRefused, PollMisses, PollFails
    <3>2. UNCHANGED backendVars /\ (Fault \/ UNCHANGED faults)
      BY <2>7 DEF FailsBeforeWrite, IsRefused, PollMisses, PollFails
    <3>3. ClientTypes'
      BY <3>1, RetryTypes
    <3> QED  BY <3>2, <3>3, IdleTypes DEF backendVars
  <2> QED  BY <1>1, <2>3, <2>4, <2>5, <2>6, <2>7 DEF ClientStep
<1>2. ASSUME NEW c \in Clients, LateWrite(c)
      PROVE  TypeOK'
  <2>1. ClientTypes' /\ UNCHANGED <<mine, unsure, faults>>
    BY <1>2 DEF LateWrite, clientVars, TypeOK, ClientTypes, Step
  <2>2. PICK i \in late[c] :
          /\ late' = [late EXCEPT ![c] = late[c] \ {i}]
          /\ \/ Apply(c, unsure[c][i].op, unsure[c][i].pair)
             \/ UNCHANGED <<token, pairs, custody>>
    BY <1>2 DEF LateWrite
  <2>3. unsure[c][i].op \in Ops /\ unsure[c][i].pair \in 0 .. Len(pairs)
    <3>1. unsure \in [Clients -> Seq(Late(Len(pairs)))] /\ late[c] \subseteq DOMAIN unsure[c]
      BY DEF TypeOK, Late
    <3>2. unsure[c][i] \in Late(Len(pairs))
      BY <3>1
    <3> QED  BY <3>2 DEF Late
  <2>4. CASE Apply(c, unsure[c][i].op, unsure[c][i].pair)
    BY <2>1, <2>2, <2>3, <2>4, WriteTypes
  <2>5. CASE UNCHANGED <<token, pairs, custody>>
    <3>1. /\ token \in [Clients -> Tokens] /\ pairs \in Seq(PairStatus) /\ Len(pairs) \in Nat
          /\ custody \in 0 .. Len(pairs) /\ mine \in [Clients -> 0 .. Len(pairs)]
      BY DEF TypeOK, Tokens
    <3>2. UnsureOK(Len(pairs))
      <4>1. unsure' = unsure /\ \E j : late' = [late EXCEPT ![c] = late[c] \ {j}]
        BY <2>1, <2>2
      <4>2. Len(pairs) \in Nat /\ Len(pairs) <= Len(pairs)
        BY <3>1
      <4> QED  BY <4>1, <4>2, UnsureTypes, Zenon
    <3> QED  BY <2>1, <2>5, <3>1, <3>2, AllTypes, FaultTypes
  <2> QED  BY <2>2, <2>4, <2>5
<1>3. ASSUME NEW c \in Clients, Deploy(c)
      PROVE  TypeOK'
  <2>1. ClientTypes' /\ UNCHANGED <<pairs, mine, custody, unsure, late, faults>>
    BY <1>3 DEF Deploy, clientVars, TypeOK, ClientTypes, Step
  <2>2. token' \in [Clients -> Tokens]
    <3>1. token \in [Clients -> Tokens]
      BY DEF TypeOK, Tokens
    <3>2. token' = [token EXCEPT ![c] = [token[c] EXCEPT !.public = "DEPLOYED"]]
      BY <1>3 DEF Deploy
    <3>3. [token[c] EXCEPT !.public = "DEPLOYED"] \in Tokens
      BY <3>1 DEF Tokens, PublicChainStatus
    <3> QED  BY <3>1, <3>2, <3>3
  <2>3. /\ pairs \in Seq(PairStatus) /\ Len(pairs) \in Nat
        /\ custody \in 0 .. Len(pairs) /\ mine \in [Clients -> 0 .. Len(pairs)]
    BY DEF TypeOK
  <2>4. UnsureOK(Len(pairs))
    BY <2>1, <2>3, UnsureTypes
  <2> QED  BY <2>1, <2>2, <2>3, <2>4, AllTypes, FaultTypes
<1> QED  BY <1>1, <1>2, <1>3 DEF Next

LEMMA TypeInit ==
  ASSUME Init
  PROVE  TypeOK
<1>1. ASSUME NEW c \in Clients
      PROVE  /\ flow[c] \in DOMAIN Script[c] /\ step[c] \in DOMAIN Script[c][flow[c]]
             /\ tries[c] \in 1 .. Step(c).tries /\ late[c] \subseteq DOMAIN unsure[c]
  <2>1. Script[c] \in Seq(Seq(Steps)) /\ Len(Script[c]) > 0 /\ flow[c] = 1 /\ step[c] = 1
    BY ScriptAssumption DEF Init
  <2>2. 1 \in DOMAIN Script[c]
    BY <2>1
  <2>3. Script[c][1] \in Seq(Steps) /\ Len(Script[c][1]) > 0
    BY <2>1, <2>2, ScriptAssumption
  <2>4. 1 \in DOMAIN Script[c][1]
    BY <2>3
  <2>5. Step(c).tries \in Nat \ {0}
    BY <2>1, <2>2, <2>4, StepAt DEF Step
  <2> QED  BY <2>1, <2>2, <2>4, <2>5 DEF Init
<1>2. pairs \in Seq(PairStatus) /\ Len(pairs) = 0
  BY DEF Init
<1>3. unsure \in [Clients -> Seq([op : Ops, pair : 0 .. Len(pairs)])]
  BY DEF Init
<1>4. faults \in 0 .. MaxFaults
  BY BudgetAssumption DEF Init
<1>5. token \in [Clients -> Tokens]
  BY DEF Init, NewToken, Tokens, TokenStatus, PublicChainStatus
<1>6. /\ flow \in [Clients -> Nat] /\ step \in [Clients -> Nat] /\ tries \in [Clients -> Nat]
      /\ outcome \in [Clients -> Outcomes] /\ late \in [Clients -> SUBSET Nat]
      /\ mine \in [Clients -> 0 .. Len(pairs)] /\ custody \in 0 .. Len(pairs)
  BY <1>2 DEF Init, Outcomes
<1> QED  BY <1>1, <1>2, <1>3, <1>4, <1>5, <1>6 DEF TypeOK, Tokens

LEMMA TypeNext == TypeOK /\ [Next]_vars => TypeOK'
<1>1. ASSUME TypeOK, UNCHANGED vars
      PROVE  TypeOK'
  BY <1>1 DEF TypeOK, vars, clientVars, backendVars, Step
<1> QED  BY <1>1, TypeStep

\* Every variable of the clients and of the node has its type, for any scripts;
\* no call makes more attempts than it may.
THEOREM TypeCorrect == Spec => []TypeOK
BY TypeInit, TypeNext, PTL DEF Spec

(***************************************************************************)
(* The account of the teleports: every one that was mined has returned to  *)
(* its caller, or is one of the writes whose answer failed that has been   *)
(* mined since.                                                            *)
(***************************************************************************)
Returned(c) ==
  {i \in DOMAIN Script[c] :
     Script[c][i] = teleportTokenAndSend /\ (i < flow[c] \/ outcome[c] = "returned")}
Settled(c) == {i \in DOMAIN unsure[c] : unsure[c][i].op = "teleport" /\ i \notin late[c]}

Account(c) ==
  /\ Cardinality(Returned(c)) <= token[c].moved
  /\ token[c].moved <= Cardinality(Returned(c)) + Cardinality(Settled(c))

AccountInv == TypeOK /\ \A c \in Clients : Account(c)

LEMMA Finite ==
  ASSUME TypeOK, NEW c \in Clients
  PROVE  /\ IsFiniteSet(Returned(c)) /\ IsFiniteSet(Settled(c))
         /\ Cardinality(Returned(c)) \in Nat /\ Cardinality(Settled(c)) \in Nat
<1>1. Len(Script[c]) \in Nat /\ DOMAIN Script[c] = 1 .. Len(Script[c])
  BY ScriptAssumption
<1>2. Len(unsure[c]) \in Nat /\ DOMAIN unsure[c] = 1 .. Len(unsure[c])
  BY DEF TypeOK
<1>3. IsFiniteSet(DOMAIN Script[c]) /\ IsFiniteSet(DOMAIN unsure[c])
  BY <1>1, <1>2, FS_Interval
<1>4. Returned(c) \subseteq DOMAIN Script[c] /\ Settled(c) \subseteq DOMAIN unsure[c]
  BY DEF Returned, Settled
<1>5. IsFiniteSet(Returned(c)) /\ IsFiniteSet(Settled(c))
  BY <1>3, <1>4, FS_Subset
<1> QED  BY <1>5, FS_CardinalityType

\* A teleport moves once, and only its client's token.
LEMMA MovedBy ==
  ASSUME TypeOK, NEW c \in Clients, NEW op \in Ops, NEW pair, Apply(c, op, pair)
  PROVE  /\ token'[c].moved = token[c].moved + (IF op = "teleport" THEN 1 ELSE 0)
         /\ \A d \in Clients \ {c} : token'[d] = token[d]
<1>1. token \in [Clients -> Tokens]
  BY DEF TypeOK, Tokens
<1>2. token' = [token EXCEPT ![c] = After(op, token[c])]
  BY DEF Apply
<1>3. ASSUME NEW t \in Tokens
      PROVE  After(op, t).moved = t.moved + (IF op = "teleport" THEN 1 ELSE 0)
  <2>1. CASE op = "teleport"
    BY <2>1 DEF After, Tokens
  <2>2. CASE op # "teleport"
    <3>1. After(op, t).moved = t.moved
      BY <2>2 DEF After, Tokens
    <3> QED  BY <2>2, <3>1 DEF Tokens
  <2> QED  BY <2>1, <2>2
<1> QED  BY <1>1, <1>2, <1>3

\* A teleport is the one call of its flow.
LEMMA TeleportFlow ==
  ASSUME TypeOK, NEW c \in Clients
  PROVE  /\ Script[c][flow[c]] = teleportTokenAndSend =>
              Step(c).kind = "write" /\ Step(c).on = "teleport" /\ Len(Script[c][flow[c]]) = 1
         /\ Step(c).on = "teleport" => Script[c][flow[c]] = teleportTokenAndSend
<1>1. flow[c] \in DOMAIN Script[c] /\ step[c] \in DOMAIN Script[c][flow[c]]
  BY DEF TypeOK
<1>2. Step(c).on = "teleport" => Script[c][flow[c]] = teleportTokenAndSend
  BY <1>1, ScriptAssumption DEF Step
<1>3. ASSUME Script[c][flow[c]] = teleportTokenAndSend
      PROVE  Step(c).kind = "write" /\ Step(c).on = "teleport" /\ Len(Script[c][flow[c]]) = 1
  <2>1. Len(teleportTokenAndSend) = 1 /\ step[c] = 1
    BY <1>1, <1>3 DEF teleportTokenAndSend
  <2>2. Step(c) = Write("teleport", "teleport", TRUE)
    BY <1>3, <2>1 DEF Step, teleportTokenAndSend
  <2> QED  BY <1>3, <2>1, <2>2 DEF Write
<1> QED  BY <1>2, <1>3

\* What has returned grows by the teleport that returns.
LEMMA ReturnedGrows ==
  ASSUME TypeOK, NEW c \in Clients, outcome[c] = "running", Resolve(c)
  PROVE  /\ Returned(c)' = Returned(c) \cup
                 (IF Script[c][flow[c]] = teleportTokenAndSend THEN {flow[c]} ELSE {})
         /\ flow[c] \notin Returned(c)
         /\ \A d \in Clients \ {c} : flow'[d] = flow[d] /\ outcome'[d] = outcome[d]
<1>1. /\ flow[c] \in 1 .. Len(Script[c]) /\ step[c] \in 1 .. Len(Script[c][flow[c]])
      /\ flow \in [Clients -> Nat] /\ outcome \in [Clients -> Outcomes]
      /\ DOMAIN Script[c] = 1 .. Len(Script[c]) /\ Len(Script[c]) \in Nat
  <2>1. flow \in [Clients -> Nat] /\ outcome \in [Clients -> Outcomes]
    BY DEF TypeOK
  <2>2. DOMAIN Script[c] = 1 .. Len(Script[c]) /\ Len(Script[c]) \in Nat
    BY ScriptAssumption
  <2> QED  BY <2>1, <2>2, ClientAt
<1>2. flow[c] \notin Returned(c)
  BY <1>1 DEF Returned
<1>3. CASE step[c] < Len(Script[c][flow[c]])
  <2>1. flow' = flow /\ outcome' = outcome
    BY <1>3 DEF Resolve
  <2>2. Script[c][flow[c]] # teleportTokenAndSend
    <3>1. \A n, m : m \in 1 .. n /\ m < n => n # 1
      OBVIOUS
    <3>2. Len(Script[c][flow[c]]) # 1
      BY <1>1, <1>3, <3>1
    <3> QED  BY <3>2, TeleportFlow
  <2> QED  BY <1>2, <2>1, <2>2 DEF Returned
<1>4. CASE ~(step[c] < Len(Script[c][flow[c]])) /\ flow[c] < Len(Script[c])
  <2>1. flow' = [flow EXCEPT ![c] = flow[c] + 1] /\ outcome' = outcome
    BY <1>4 DEF Resolve
  <2>2. \A i \in DOMAIN Script[c] : i < flow'[c] <=> i < flow[c] \/ i = flow[c]
    BY <1>1, <2>1
  <2> QED  BY <1>1, <1>2, <2>1, <2>2 DEF Returned
<1>5. CASE ~(step[c] < Len(Script[c][flow[c]])) /\ ~(flow[c] < Len(Script[c]))
  <2>1. outcome' = [outcome EXCEPT ![c] = "returned"] /\ flow' = flow
    BY <1>5 DEF Resolve
  <2>2. \A i \in DOMAIN Script[c] : i < flow[c] \/ i = flow[c]
    BY <1>1, <1>5
  <2> QED  BY <1>1, <1>2, <2>1, <2>2 DEF Returned
<1> QED  BY <1>3, <1>4, <1>5

\* A call that did not return is not counted as returned.
LEMMA ReturnedStays ==
  ASSUME TypeOK, NEW c \in Clients, outcome[c] = "running",
         NEW worthIt, NEW why, why # "returned", Retry(c, worthIt, why)
  PROVE  \A d \in Clients : Returned(d)' = Returned(d)
<1>1. flow' = flow /\ (outcome' = outcome \/ outcome' = [outcome EXCEPT ![c] = why])
  BY DEF Retry
<1>2. \A d \in Clients : outcome'[d] = "returned" <=> outcome[d] = "returned"
  BY <1>1 DEF TypeOK
<1> QED  BY <1>1, <1>2 DEF Returned

\* What failed after it was mined is settled at once, what timed out is not.
LEMMA SettledGrows ==
  ASSUME TypeOK, NEW c \in Clients, Unsure(c),
         NEW n, n = Len(unsure[c]) + 1,
         late' = late \/ late' = [late EXCEPT ![c] = late[c] \cup {n}]
  PROVE  /\ n \notin Settled(c)
         /\ Settled(c)' = Settled(c) \cup
              (IF Step(c).on = "teleport" /\ late' = late THEN {n} ELSE {})
         /\ \A d \in Clients \ {c} : Settled(d)' = Settled(d)
<1> DEFINE w == [op |-> Step(c).on, pair |-> mine[c]]
<1>1. /\ unsure \in [Clients -> Seq(Late(Len(pairs)))] /\ late \in [Clients -> SUBSET Nat]
      /\ late[c] \subseteq DOMAIN unsure[c] /\ DOMAIN unsure[c] = 1 .. Len(unsure[c])
      /\ Len(unsure[c]) \in Nat
  <2>1. unsure \in [Clients -> Seq(Late(Len(pairs)))]
    BY DEF TypeOK, Late
  <2>2. late \in [Clients -> SUBSET Nat] /\ late[c] \subseteq DOMAIN unsure[c]
    BY DEF TypeOK
  <2>3. unsure[c] \in Seq(Late(Len(pairs)))
    BY <2>1
  <2>4. DOMAIN unsure[c] = 1 .. Len(unsure[c]) /\ Len(unsure[c]) \in Nat
    BY <2>3
  <2> QED  BY <2>1, <2>2, <2>4
<1>2. unsure'[c] = Append(unsure[c], w) /\ \A d \in Clients \ {c} : unsure'[d] = unsure[d]
  BY <1>1 DEF Unsure
<1>3. /\ DOMAIN unsure'[c] = 1 .. n /\ unsure'[c][n] = w
      /\ \A i \in 1 .. Len(unsure[c]) : unsure'[c][i] = unsure[c][i]
  BY <1>1, <1>2
<1>4. w.op = Step(c).on
  OBVIOUS
<1> HIDE DEF w
<1>5. n \notin DOMAIN unsure[c] /\ DOMAIN unsure'[c] = DOMAIN unsure[c] \cup {n} /\ n \notin late[c]
  BY <1>1, <1>3
<1>6. n \in late'[c] <=> late' # late
  BY <1>1, <1>5
<1>7. \A i \in DOMAIN unsure[c] : i \in late'[c] <=> i \in late[c]
  BY <1>1, <1>5
<1>8. \A d \in Clients \ {c} : late'[d] = late[d]
  BY <1>1
<1>9. Settled(c)' = {i \in DOMAIN unsure'[c] : unsure'[c][i].op = "teleport" /\ i \notin late'[c]}
  BY DEF Settled
<1>10. Settled(c)' = Settled(c) \cup
                       (IF Step(c).on = "teleport" /\ late' = late THEN {n} ELSE {})
  BY <1>1, <1>3, <1>4, <1>5, <1>6, <1>7, <1>9 DEF Settled
<1> QED  BY <1>2, <1>5, <1>8, <1>10 DEF Settled

LEMMA OneMore ==
  ASSUME NEW S, IsFiniteSet(S), NEW x, x \notin S
  PROVE  Cardinality(S \cup {x}) = Cardinality(S) + 1
BY FS_AddElement

\* A step that leaves a client's flows, writes and transfers as they are leaves
\* its account as it is.
LEMMA SameAccount ==
  ASSUME NEW d \in Clients, Account(d), Returned(d)' = Returned(d), Settled(d)' = Settled(d),
         token'[d].moved = token[d].moved
  PROVE  Account(d)'
BY DEF Account

LEMMA AccountStep ==
  ASSUME AccountInv, Next, NEW d \in Clients
  PROVE  Account(d)'
<1>1. /\ Account(d) /\ TypeOK /\ token[d].moved \in Nat
      /\ IsFiniteSet(Returned(d)) /\ IsFiniteSet(Settled(d))
      /\ Cardinality(Returned(d)) \in Nat /\ Cardinality(Settled(d)) \in Nat
  <2>1. TypeOK /\ Account(d)
    BY DEF AccountInv
  <2>2. token[d].moved \in Nat
    BY <2>1 DEF TypeOK
  <2> QED  BY <2>1, <2>2, Finite
<1>2. ASSUME NEW c \in Clients, ClientStep(c)
      PROVE  Account(d)'
  <2> DEFINE op == Step(c).on
             n == Len(unsure[c]) + 1
  <2>1. outcome[c] = "running" /\ (At(c, "write") => op \in Ops)
    BY <1>1, <1>2, ClientAt DEF ClientStep, WriteDone, FailsAfterWrite, FailsBeforeWrite, TimesOut,
       IsRefused, PollSees, PollMisses, PollFails, At
  <2>2. Script[c][flow[c]] = teleportTokenAndSend <=> op = "teleport"
    BY <1>1, TeleportFlow
  <2>3. CASE WriteDone(c)
    <3>1. /\ At(c, "write") /\ Apply(c, op, mine[c]) /\ Resolve(c) /\ UNCHANGED <<unsure, late>>
      BY <2>3 DEF WriteDone
    <3>2. Settled(d)' = Settled(d)
      BY <3>1 DEF Settled
    <3>3. /\ Returned(c)' = Returned(c) \cup (IF op = "teleport" THEN {flow[c]} ELSE {})
          /\ flow[c] \notin Returned(c)
          /\ d # c => flow'[d] = flow[d] /\ outcome'[d] = outcome[d]
      BY <1>1, <2>1, <2>2, <3>1, ReturnedGrows
    <3>4. /\ token'[c].moved = token[c].moved + (IF op = "teleport" THEN 1 ELSE 0)
          /\ d # c => token'[d] = token[d]
      BY <1>1, <2>1, <3>1, MovedBy
    <3>5. CASE d # c
      <4>1. Returned(d)' = Returned(d)
        BY <3>3, <3>5 DEF Returned
      <4> QED  BY <1>1, <3>2, <3>4, <3>5, <4>1, SameAccount
    <3>6. CASE d = c /\ op = "teleport"
      <4>1. Cardinality(Returned(d)') = Cardinality(Returned(d)) + 1
        BY <1>1, <3>3, <3>6, OneMore
      <4>2. token'[d].moved = token[d].moved + 1
        BY <3>4, <3>6
      <4> QED  BY <1>1, <3>2, <4>1, <4>2 DEF Account
    <3>7. CASE d = c /\ op # "teleport"
      <4>1. Returned(d)' = Returned(d) /\ token'[d].moved = token[d].moved
        BY <1>1, <3>3, <3>4, <3>7
      <4> QED  BY <1>1, <3>2, <4>1, SameAccount
    <3> QED  BY <3>5, <3>6, <3>7
  <2>4. CASE FailsAfterWrite(c)
    <3>1. /\ At(c, "write") /\ Apply(c, op, mine[c]) /\ Unsure(c) /\ Retry(c, TRUE, "exhausted")
          /\ late' = late
      BY <2>4 DEF FailsAfterWrite
    <3>2. Returned(d)' = Returned(d)
      BY <1>1, <2>1, <3>1, ReturnedStays
    <3>3. /\ n \notin Settled(c)
          /\ Settled(c)' = Settled(c) \cup (IF op = "teleport" THEN {n} ELSE {})
          /\ d # c => Settled(d)' = Settled(d)
      BY <1>1, <3>1, SettledGrows
    <3>4. /\ token'[c].moved = token[c].moved + (IF op = "teleport" THEN 1 ELSE 0)
          /\ d # c => token'[d] = token[d]
      BY <1>1, <2>1, <3>1, MovedBy
    <3>5. CASE d # c
      BY <1>1, <3>2, <3>3, <3>4, <3>5, SameAccount
    <3>6. CASE d = c /\ op = "teleport"
      <4>1. Cardinality(Settled(d)') = Cardinality(Settled(d)) + 1
        BY <1>1, <3>3, <3>6, OneMore
      <4>2. token'[d].moved = token[d].moved + 1
        BY <3>4, <3>6
      <4> QED  BY <1>1, <3>2, <4>1, <4>2 DEF Account
    <3>7. CASE d = c /\ op # "teleport"
      <4>1. Settled(d)' = Settled(d)
        BY <3>3, <3>7
      <4>2. token'[d].moved = token[d].moved
        BY <1>1, <3>4, <3>7
      <4> QED  BY <1>1, <3>2, <4>1, <4>2, SameAccount
    <3> QED  BY <3>5, <3>6, <3>7
  <2>5. CASE TimesOut(c)
    <3>1. /\ Unsure(c) /\ Retry(c, Step(c).lax, "timedOut") /\ token' = token
          /\ late' = [late EXCEPT ![c] = late[c] \cup {n}]
      BY <2>5 DEF TimesOut
    <3>2. Returned(d)' = Returned(d)
      BY <1>1, <2>1, <3>1, ReturnedStays
    <3>3. late' # late
      <4>1. late[c] \subseteq DOMAIN unsure[c] /\ unsure[c] \in Seq(Late(Len(pairs)))
        BY <1>1 DEF TypeOK, Late
      <4>2. n \notin late[c]
        BY <4>1
      <4>3. late \in [Clients -> SUBSET Nat]
        BY <1>1 DEF TypeOK
      <4> QED  BY <3>1, <4>2, <4>3
    <3>4. Settled(d)' = Settled(d)
      BY <1>1, <3>1, <3>3, SettledGrows
    <3> QED  BY <1>1, <3>1, <3>2, <3>4, SameAccount
  <2>6. CASE PollSees(c)
    <3>1. At(c, "poll") /\ Resolve(c) /\ UNCHANGED <<token, unsure, late>>
      BY <2>6 DEF PollSees, backendVars
    <3>2. Script[c][flow[c]] # teleportTokenAndSend
      BY <1>1, <3>1, TeleportFlow DEF At
    <3>3. Returned(d)' = Returned(d)
      <4>1. CASE d = c
        BY <1>1, <2>1, <3>1, <3>2, <4>1, ReturnedGrows
      <4>2. CASE d # c
        BY <1>1, <2>1, <3>1, <4>2, ReturnedGrows DEF Returned
      <4> QED  BY <4>1, <4>2
    <3>4. Settled(d)' = Settled(d)
      BY <3>1 DEF Settled
    <3> QED  BY <1>1, <3>1, <3>3, <3>4, SameAccount
  <2>7. CASE FailsBeforeWrite(c) \/ IsRefused(c) \/ PollMisses(c) \/ PollFails(c)
    <3>1. \E worthIt, why : why # "returned" /\ Retry(c, worthIt, why)
      BY <2>7 DEF FailsBeforeWrite, IsRefused, PollMisses, PollFails
    <3>2. UNCHANGED <<token, unsure, late>>
      BY <2>7 DEF FailsBeforeWrite, IsRefused, PollMisses, PollFails, backendVars
    <3>3. Returned(d)' = Returned(d)
      BY <1>1, <2>1, <3>1, ReturnedStays
    <3>4. Settled(d)' = Settled(d)
      BY <3>2 DEF Settled
    <3> QED  BY <1>1, <3>2, <3>3, <3>4, SameAccount
  <2> QED  BY <1>2, <2>3, <2>4, <2>5, <2>6, <2>7 DEF ClientStep
<1>3. ASSUME NEW c \in Clients, LateWrite(c)
      PROVE  Account(d)'
  <2>1. UNCHANGED <<flow, outcome, unsure>>
    BY <1>3 DEF LateWrite, clientVars
  <2>2. PICK i \in late[c] :
          /\ late' = [late EXCEPT ![c] = late[c] \ {i}]
          /\ \/ Apply(c, unsure[c][i].op, unsure[c][i].pair)
             \/ UNCHANGED <<token, pairs, custody>>
    BY <1>3 DEF LateWrite
  <2>3. /\ unsure[c][i].op \in Ops /\ i \in DOMAIN unsure[c] /\ late \in [Clients -> SUBSET Nat]
    <3>1. unsure[c] \in Seq(Late(Len(pairs))) /\ late[c] \subseteq DOMAIN unsure[c]
      BY <1>1 DEF TypeOK, Late
    <3>2. unsure[c][i] \in Late(Len(pairs))
      BY <3>1
    <3> QED  BY <1>1, <3>1, <3>2 DEF Late, TypeOK
  <2>4. Returned(d)' = Returned(d)
    BY <2>1 DEF Returned
  <2>5. d # c => Settled(d)' = Settled(d)
    BY <2>1, <2>2, <2>3 DEF Settled
  <2>6. /\ i \notin Settled(c)
        /\ Settled(c)' = Settled(c) \cup (IF unsure[c][i].op = "teleport" THEN {i} ELSE {})
    BY <2>1, <2>2, <2>3 DEF Settled
  <2>7. /\ token'[c].moved = token[c].moved \/ (unsure[c][i].op = "teleport"
                                                  /\ token'[c].moved = token[c].moved + 1)
        /\ d # c => token'[d] = token[d]
    <3>1. CASE Apply(c, unsure[c][i].op, unsure[c][i].pair)
      <4>1. /\ token'[c].moved = token[c].moved + (IF unsure[c][i].op = "teleport" THEN 1 ELSE 0)
            /\ d # c => token'[d] = token[d]
        BY <1>1, <2>3, <3>1, MovedBy
      <4>2. token[c].moved \in Nat
        BY <1>1 DEF TypeOK
      <4> QED  BY <4>1, <4>2
    <3>2. CASE token' = token
      BY <3>2
    <3> QED  BY <2>2, <3>1, <3>2
  <2>8. CASE d # c
    BY <1>1, <2>4, <2>5, <2>7, <2>8, SameAccount
  <2>9. CASE d = c /\ unsure[c][i].op = "teleport"
    <3>1. Cardinality(Settled(d)') = Cardinality(Settled(d)) + 1
      BY <1>1, <2>6, <2>9, OneMore
    <3>2. token'[d].moved \in {token[d].moved, token[d].moved + 1}
      BY <2>7, <2>9
    <3> QED  BY <1>1, <2>4, <3>1, <3>2 DEF Account
  <2>10. CASE d = c /\ unsure[c][i].op # "teleport"
    <3>1. Settled(d)' = Settled(d) /\ token'[d].moved = token[d].moved
      BY <2>6, <2>7, <2>10
    <3> QED  BY <1>1, <2>4, <3>1, SameAccount
  <2> QED  BY <2>8, <2>9, <2>10
<1>4. ASSUME NEW c \in Clients, Deploy(c)
      PROVE  Account(d)'
  <2>1. UNCHANGED <<flow, outcome, unsure, late>>
    BY <1>4 DEF Deploy, clientVars
  <2>2. token'[d].moved = token[d].moved
    <3>1. token \in [Clients -> Tokens]
      BY <1>1 DEF TypeOK, Tokens
    <3>2. token' = [token EXCEPT ![c] = [token[c] EXCEPT !.public = "DEPLOYED"]]
      BY <1>4 DEF Deploy
    <3>3. [token[c] EXCEPT !.public = "DEPLOYED"].moved = token[c].moved
      BY <3>1 DEF Tokens
    <3> QED  BY <3>1, <3>2, <3>3
  <2>3. Returned(d)' = Returned(d) /\ Settled(d)' = Settled(d)
    BY <2>1 DEF Returned, Settled
  <2> QED  BY <1>1, <2>2, <2>3, SameAccount
<1> QED  BY <1>2, <1>3, <1>4 DEF Next

\* However many clients teleport and however their calls fail, what a token
\* moved is what the flows returned, plus at most one transfer per write whose
\* answer failed although it was, or will be, mined.
THEOREM NoTransferUnaccounted == Spec => []TeleportsAccounted
<1>1. Init => AccountInv
  <2> SUFFICES ASSUME Init
               PROVE  TypeOK /\ \A c \in Clients : Account(c)
    BY DEF AccountInv
  <2>1. TypeOK
    BY TypeInit
  <2>2. ASSUME NEW c \in Clients
        PROVE  Account(c)
    <3>1. DOMAIN Script[c] = 1 .. Len(Script[c]) /\ Len(Script[c]) \in Nat
      BY ScriptAssumption
    <3>2. Returned(c) = {} /\ Settled(c) = {} /\ token[c].moved = 0
      BY <3>1 DEF Init, Returned, Settled, NewToken
    <3> QED  BY <3>2, FS_EmptySet DEF Account
  <2> QED  BY <2>1, <2>2
<1>2. AccountInv /\ [Next]_vars => AccountInv'
  <2>1. ASSUME AccountInv, Next
        PROVE  AccountInv'
    BY <2>1, AccountStep, TypeNext DEF AccountInv
  <2>2. ASSUME AccountInv, UNCHANGED vars
        PROVE  AccountInv'
    <3>1. TypeOK'
      BY <2>2, TypeNext DEF AccountInv
    <3>2. \A c \in Clients : Account(c)'
      BY <2>2 DEF AccountInv, vars, clientVars, backendVars, Account, Returned, Settled
    <3> QED  BY <3>1, <3>2 DEF AccountInv
  <2> QED  BY <2>1, <2>2
<1>3. AccountInv => TeleportsAccounted
  <2> SUFFICES ASSUME AccountInv, NEW c \in Clients
               PROVE  /\ Teleports(c) <= token[c].moved
                      /\ token[c].moved <= Teleports(c) + TimesUnsure(c, "teleport")
    BY DEF TeleportsAccounted
  <2>1. TypeOK /\ Account(c) /\ token[c].moved \in Nat
    BY DEF AccountInv, TypeOK
  <2>2. Teleports(c) = Cardinality(Returned(c))
    <3>1. Returned(c) = {i \in DOMAIN Script[c] :
                           /\ Script[c][i] = teleportTokenAndSend
                           /\ i < flow[c] \/ outcome[c] = "returned"}
      BY DEF Returned
    <3> QED  BY <3>1 DEF Teleports
  <2> DEFINE U == {i \in DOMAIN unsure[c] : unsure[c][i].op = "teleport"}
  <2>3. IsFiniteSet(U)
    <3>1. unsure[c] \in Seq(Late(Len(pairs)))
      BY <2>1 DEF TypeOK, Late
    <3>2. Len(unsure[c]) \in Nat /\ DOMAIN unsure[c] = 1 .. Len(unsure[c])
      BY <3>1
    <3>3. IsFiniteSet(DOMAIN unsure[c])
      BY <3>2, FS_Interval
    <3> QED  BY <3>3, FS_Subset
  <2>4. Settled(c) \subseteq U
    BY DEF Settled
  <2>5. Cardinality(Settled(c)) <= Cardinality(U) /\ Cardinality(U) \in Nat
    BY <2>3, <2>4, FS_Subset, FS_CardinalityType
  <2>6. TimesUnsure(c, "teleport") = Cardinality(U)
    BY DEF TimesUnsure
  <2> HIDE DEF U
  <2>7. Cardinality(Returned(c)) \in Nat /\ Cardinality(Settled(c)) \in Nat
    BY <2>1, Finite
  <2> QED  BY <2>1, <2>2, <2>5, <2>6, <2>7 DEF Account
<1> QED  BY <1>1, <1>2, <1>3, PTL DEF Spec

(***************************************************************************)
(* Refusals: as long as no write of a client has failed after it was, or   *)
(* could still be, mined, the registry holds the token that its script     *)
(* expects, but for the relayer's deployment.                              *)
(***************************************************************************)
Match(t, p) ==
  /\ t \in Tokens /\ p \in Tokens
  /\ t.status = p.status /\ t.saved = p.saved
  /\ t.public = p.public \/ (p.public = "PENDING_DEPLOYMENT" /\ t.public = "DEPLOYED")

Expected(Plan, c) ==
  unsure[c] = << >> =>
    /\ outcome[c] # "refused"
    /\ outcome[c] = "running" => Match(token[c], Plan[c][flow[c]][step[c]])

\* A write the registry takes leaves behind what the plan says.
LEMMA MatchAfter ==
  ASSUME NEW op \in Ops, NEW t, NEW p, Match(t, p), Accepts(op, t)
  PROVE  Match(After(op, t), [After(op, p) EXCEPT !.moved = 0])
<1> DEFINE a == After(op, t)
           b == After(op, p)
           q == [b EXCEPT !.moved = 0]
<1>1. a \in Tokens /\ b \in Tokens
  BY AfterTypes DEF Match
<1>2. /\ q \in Tokens /\ q.status = b.status /\ q.saved = b.saved /\ q.public = b.public
  BY <1>1 DEF Tokens
<1>3. t \in Tokens /\ p \in Tokens
  BY DEF Match
<1> DEFINE Same == /\ a.status = b.status /\ a.saved = b.saved
                   /\ a.public = b.public \/ (b.public = "PENDING_DEPLOYMENT" /\ a.public = "DEPLOYED")
<1>4. ASSUME op \in {"register", "AUTHORIZED", "UNAUTHORIZED", "freeze_privacy_node",
                     "unfreeze_privacy_node"}
      PROVE  Same
  <2>1. a.public = t.public /\ b.public = p.public
    BY <1>3, <1>4 DEF After, Tokens
  <2>2. a.status = b.status /\ a.saved = b.saved
    BY <1>3, <1>4 DEF After, Tokens, Match
  <2> QED  BY <2>1, <2>2 DEF Match
<1>5. ASSUME op \in {"submit", "freeze_public_chain", "unfreeze_public_chain"}
      PROVE  Same
  <2>1. a.status = t.status /\ b.status = p.status /\ a.saved = t.saved /\ b.saved = p.saved
    BY <1>3, <1>5 DEF After, Tokens
  <2>2. CASE op = "submit"
    <3>1. /\ a.public = IF t.public = "UNDEFINED" THEN "PENDING_DEPLOYMENT" ELSE t.public
          /\ b.public = IF p.public = "UNDEFINED" THEN "PENDING_DEPLOYMENT" ELSE p.public
      BY <1>3, <2>2 DEF After, Tokens
    <3> QED  BY <2>1, <3>1 DEF Match
  <2>3. CASE op # "submit"
    <3>1. a.public = b.public
      BY <1>3, <1>5, <2>3 DEF After, Tokens
    <3> QED  BY <2>1, <3>1 DEF Match
  <2> QED  BY <2>2, <2>3
<1>6. ASSUME op \in PairStatus \cup {"addPair", "teleport"}
      PROVE  Same
  <2>1. /\ a.status = t.status /\ a.saved = t.saved /\ a.public = t.public
        /\ b.status = p.status /\ b.saved = p.saved /\ b.public = p.public
    BY <1>3, <1>6 DEF After, Tokens, PairStatus
  <2> QED  BY <2>1 DEF Match
<1>7. Same
  BY <1>4, <1>5, <1>6 DEF Ops, TokenOps
<1> HIDE DEF a, b, q
<1>8. Match(a, q)
  BY <1>1, <1>2, <1>7 DEF Match
<1> QED  BY <1>8 DEF a, b, q

\* What a poll has seen is what the plan says after it.
LEMMA MatchSeen ==
  ASSUME TypeOK, NEW c \in Clients, NEW s, s = Step(c), s.kind = "poll", Shows(c, s.on),
         NEW p, Match(token[c], p)
  PROVE  Match(token[c], Passed(s, p))
<1>1. CASE s.on = "DEPLOYED"
  <2>1. token[c].public = "DEPLOYED"
    BY <1>1 DEF Shows
  <2>2. Passed(s, p) = [p EXCEPT !.public = "DEPLOYED"]
    BY <1>1 DEF Passed
  <2> QED  BY <2>1, <2>2 DEF Match, Tokens, PublicChainStatus
<1>2. CASE s.on # "DEPLOYED"
  BY <1>2 DEF Passed
<1> QED  BY <1>1, <1>2

\* In the order of the plan nothing is refused that retry() does not repeat.
LEMMA NotRefused ==
  ASSUME NEW Plan, InOrder(Plan), TypeOK, NEW c \in Clients, At(c, "write"), ~Step(c).lax,
         Match(token[c], Plan[c][flow[c]][step[c]])
  PROVE  ~Refused(c)
<1> DEFINE s == Step(c)
           p == Plan[c][flow[c]][step[c]]
<1>1. s \in Steps /\ s.kind = "write" /\ s.on \in Ops
  BY ClientAt DEF At
<1>2. flow[c] \in DOMAIN Script[c] /\ step[c] \in DOMAIN Script[c][flow[c]]
  BY DEF TypeOK
<1>3. Accepts(s.on, p) /\ ~(s.on \in TokenStatus /\ p.status = s.on)
  BY <1>1, <1>2 DEF InOrder, Step
<1>4. s.on # "teleport"
  <2> SUFFICES ASSUME s.on = "teleport" PROVE FALSE
    OBVIOUS
  <2>1. Script[c][flow[c]] = teleportTokenAndSend
    BY TeleportFlow
  <2>2. step[c] = 1
    BY <1>2, <2>1 DEF teleportTokenAndSend
  <2>3. s = Write("teleport", "teleport", TRUE)
    BY <2>1, <2>2 DEF Step, teleportTokenAndSend
  <2> QED  BY <2>3 DEF Write
<1> HIDE DEF s, p
<1>5. Match(token[c], p) /\ ~s.lax
  BY DEF s, p
<1>6. Accepts(s.on, token[c])
  BY <1>1, <1>3, <1>4, <1>5 DEF Accepts, Match, Ops, TokenOps, PairStatus
<1>7. ~(s.on \in TokenStatus /\ token[c].status = s.on)
  BY <1>3, <1>5 DEF Match
<1>8. CanSign(s.on, mine[c])
  BY <1>4 DEF CanSign
<1> QED  BY <1>6, <1>7, <1>8 DEF Refused, Taken, s

\* The script moves on as the plan does.
LEMMA PlanMoves ==
  ASSUME NEW Plan, InOrder(Plan), TypeOK, NEW c \in Clients, outcome[c] = "running", Resolve(c),
         outcome'[c] = "running"
  PROVE  Plan[c][flow'[c]][step'[c]] = Passed(Step(c), Plan[c][flow[c]][step[c]])
<1>1. /\ flow[c] \in DOMAIN Script[c] /\ step[c] \in DOMAIN Script[c][flow[c]]
      /\ flow \in [Clients -> Nat] /\ step \in [Clients -> Nat] /\ outcome \in [Clients -> Outcomes]
  BY DEF TypeOK
<1>2. IF step[c] < Len(Script[c][flow[c]])
        THEN Plan[c][flow[c]][step[c] + 1] = Passed(Step(c), Plan[c][flow[c]][step[c]])
        ELSE flow[c] < Len(Script[c]) =>
               Plan[c][flow[c] + 1][1] = Passed(Step(c), Plan[c][flow[c]][step[c]])
  BY <1>1 DEF InOrder, Step
<1>3. CASE step[c] < Len(Script[c][flow[c]])
  <2>1. step' = [step EXCEPT ![c] = step[c] + 1] /\ flow' = flow
    BY <1>3 DEF Resolve
  <2> QED  BY <1>1, <1>2, <1>3, <2>1
<1>4. CASE ~(step[c] < Len(Script[c][flow[c]])) /\ flow[c] < Len(Script[c])
  <2>1. flow' = [flow EXCEPT ![c] = flow[c] + 1] /\ step' = [step EXCEPT ![c] = 1]
    BY <1>4 DEF Resolve
  <2> QED  BY <1>1, <1>2, <1>4, <2>1
<1>5. CASE ~(step[c] < Len(Script[c][flow[c]])) /\ ~(flow[c] < Len(Script[c]))
  <2>1. outcome' = [outcome EXCEPT ![c] = "returned"]
    BY <1>5 DEF Resolve
  <2> QED  BY <1>1, <2>1
<1> QED  BY <1>3, <1>4, <1>5

\* A client's step is its own.
LEMMA OthersKeep ==
  ASSUME TypeOK, NEW c \in Clients, ClientStep(c), NEW d \in Clients \ {c}
  PROVE  /\ flow'[d] = flow[d] /\ step'[d] = step[d] /\ outcome'[d] = outcome[d]
         /\ token'[d] = token[d] /\ unsure'[d] = unsure[d]
<1>1. /\ flow \in [Clients -> Nat] /\ step \in [Clients -> Nat] /\ outcome \in [Clients -> Outcomes]
      /\ token \in [Clients -> Tokens] /\ unsure \in [Clients -> Seq(Late(Len(pairs)))]
  BY DEF TypeOK, Tokens, Late
<1>2. Resolve(c) \/ \E worthIt, why : Retry(c, worthIt, why)
  BY DEF ClientStep, WriteDone, FailsAfterWrite, FailsBeforeWrite, TimesOut, IsRefused,
         PollSees, PollMisses, PollFails
<1>3. flow'[d] = flow[d] /\ step'[d] = step[d] /\ outcome'[d] = outcome[d]
  <2>1. CASE Resolve(c)
    BY <1>1, <2>1 DEF Resolve
  <2>2. CASE \E worthIt, why : Retry(c, worthIt, why)
    BY <1>1, <2>2 DEF Retry
  <2> QED  BY <1>2, <2>1, <2>2
<1>4. UNCHANGED token \/ Apply(c, Step(c).on, mine[c])
  BY DEF ClientStep, WriteDone, FailsAfterWrite, FailsBeforeWrite, TimesOut, IsRefused,
         PollSees, PollMisses, PollFails, backendVars
<1>5. token'[d] = token[d]
  BY <1>1, <1>4 DEF Apply
<1>6. UNCHANGED unsure \/ Unsure(c)
  BY DEF ClientStep, WriteDone, FailsAfterWrite, FailsBeforeWrite, TimesOut, IsRefused,
         PollSees, PollMisses, PollFails, backendVars
<1>7. unsure'[d] = unsure[d]
  BY <1>1, <1>6 DEF Unsure
<1> QED  BY <1>3, <1>5, <1>7

LEMMA OwnStep ==
  ASSUME NEW Plan, InOrder(Plan), TypeOK, NEW c \in Clients, Expected(Plan, c), ClientStep(c)
  PROVE  Expected(Plan, c)'
<1> DEFINE p == Plan[c][flow[c]][step[c]]
<1>1. /\ outcome[c] = "running" /\ (At(c, "write") => Step(c).on \in Ops)
      /\ outcome \in [Clients -> Outcomes] /\ token \in [Clients -> Tokens]
  <2>1. outcome[c] = "running"
    BY DEF ClientStep, WriteDone, FailsAfterWrite, FailsBeforeWrite, TimesOut, IsRefused,
           PollSees, PollMisses, PollFails, At
  <2>2. outcome \in [Clients -> Outcomes] /\ token \in [Clients -> Tokens]
    BY DEF TypeOK, Tokens
  <2> QED  BY <2>1, <2>2, ClientAt
<1>2. unsure[c] = << >> => Match(token[c], p)
  BY <1>1 DEF Expected
<1>3. ASSUME Unsure(c)
      PROVE  unsure'[c] # << >>
  <2>1. unsure \in [Clients -> Seq(Late(Len(pairs)))]
    BY DEF TypeOK, Late
  <2>2. unsure'[c] = Append(unsure[c], [op |-> Step(c).on, pair |-> mine[c]])
    BY <1>3, <2>1 DEF Unsure
  <2>3. Len(unsure[c]) \in Nat /\ Len(unsure'[c]) = Len(unsure[c]) + 1
    BY <2>1, <2>2
  <2>4. Len(unsure'[c]) # 0
    BY <2>3
  <2> QED  BY <2>4
<1>4. ASSUME NEW worthIt, NEW why, Retry(c, worthIt, why), UNCHANGED <<token, unsure>>,
             why = "refused" => unsure[c] # << >>
      PROVE  Expected(Plan, c)'
  <2>1. flow' = flow /\ step' = step /\ (outcome' = outcome \/ outcome' = [outcome EXCEPT ![c] = why])
    BY <1>4 DEF Retry
  <2>2. outcome'[c] = outcome[c] \/ outcome'[c] = why
    BY <1>1, <2>1
  <2> QED  BY <1>1, <1>2, <1>4, <2>1, <2>2 DEF Expected
<1>5. ASSUME Resolve(c), UNCHANGED unsure,
             unsure[c] = << >> => Match(token'[c], Passed(Step(c), p))
      PROVE  Expected(Plan, c)'
  <2>1. outcome'[c] # "refused"
    BY <1>1, <1>5 DEF Resolve
  <2>2. outcome'[c] = "running" => Plan[c][flow'[c]][step'[c]] = Passed(Step(c), p)
    BY <1>1, <1>5, PlanMoves
  <2> QED  BY <1>5, <2>1, <2>2 DEF Expected
<1> HIDE DEF p
<1>6. CASE WriteDone(c)
  <2>1. At(c, "write") /\ Taken(c) /\ Apply(c, Step(c).on, mine[c]) /\ Resolve(c) /\ unsure' = unsure
    BY <1>6 DEF WriteDone
  <2>2. token'[c] = After(Step(c).on, token[c]) /\ Accepts(Step(c).on, token[c])
    BY <1>1, <2>1 DEF Apply, Taken
  <2>3. Passed(Step(c), p) = [After(Step(c).on, p) EXCEPT !.moved = 0]
    BY <2>1 DEF Passed, At
  <2>4. unsure[c] = << >> => Match(token'[c], Passed(Step(c), p))
    BY <1>1, <1>2, <2>1, <2>2, <2>3, MatchAfter
  <2> QED  BY <1>5, <2>1, <2>4
<1>7. CASE FailsAfterWrite(c) \/ TimesOut(c)
  <2>1. unsure'[c] # << >>
    BY <1>3, <1>7 DEF FailsAfterWrite, TimesOut
  <2> QED  BY <2>1 DEF Expected
<1>8. CASE PollSees(c)
  <2>1. At(c, "poll") /\ Shows(c, Step(c).on) /\ Resolve(c) /\ UNCHANGED <<token, unsure>>
    BY <1>8 DEF PollSees, backendVars
  <2>2. unsure[c] = << >> => Match(token[c], Passed(Step(c), p))
    BY <1>2, <2>1, MatchSeen DEF At
  <2> QED  BY <1>5, <2>1, <2>2
<1>9. CASE IsRefused(c)
  <2>1. At(c, "write") /\ Refused(c) /\ UNCHANGED <<token, unsure>>
    BY <1>9 DEF IsRefused, backendVars
  <2>2. CASE Step(c).lax
    <3>1. Retry(c, Step(c).lax, "exhausted")
      BY <1>9, <2>2 DEF IsRefused
    <3> QED  BY <1>4, <2>1, <3>1
  <2>3. CASE ~Step(c).lax
    <3>1. Retry(c, Step(c).lax, "refused")
      BY <1>9, <2>3 DEF IsRefused
    <3>2. unsure[c] # << >>
      BY <1>2, <2>1, <2>3, NotRefused DEF p
    <3> QED  BY <1>4, <2>1, <3>1, <3>2
  <2> QED  BY <2>2, <2>3
<1>10. CASE FailsBeforeWrite(c) \/ PollMisses(c) \/ PollFails(c)
  <2>1. \E worthIt, why : why # "refused" /\ Retry(c, worthIt, why)
    BY <1>10 DEF FailsBeforeWrite, PollMisses, PollFails
  <2>2. UNCHANGED <<token, unsure>>
    BY <1>10 DEF FailsBeforeWrite, PollMisses, PollFails, backendVars
  <2> QED  BY <1>4, <2>1, <2>2
<1> QED  BY <1>6, <1>7, <1>8, <1>9, <1>10 DEF ClientStep

LEMMA ExpectedStep ==
  ASSUME NEW Plan, InOrder(Plan), TypeOK, \A c \in Clients : Expected(Plan, c), Next,
         NEW d \in Clients
  PROVE  Expected(Plan, d)'
<1>1. ASSUME NEW c \in Clients, ClientStep(c)
      PROVE  Expected(Plan, d)'
  <2>1. CASE d = c
    BY <1>1, <2>1, OwnStep
  <2>2. CASE d # c
    <3>1. /\ flow'[d] = flow[d] /\ step'[d] = step[d] /\ outcome'[d] = outcome[d]
          /\ token'[d] = token[d] /\ unsure'[d] = unsure[d]
      BY <1>1, <2>2, OthersKeep
    <3> QED  BY <3>1 DEF Expected
  <2> QED  BY <2>1, <2>2
<1>2. ASSUME NEW c \in Clients, LateWrite(c)
      PROVE  Expected(Plan, d)'
  <2>1. UNCHANGED <<flow, step, outcome, unsure>>
    BY <1>2 DEF LateWrite, clientVars
  <2>2. unsure[c] # << >>
    <3>1. PICK i \in late[c] : TRUE
      BY <1>2 DEF LateWrite
    <3>2. i \in DOMAIN unsure[c]
      BY <3>1 DEF TypeOK
    <3> QED  BY <3>2
  <2>3. d # c => token'[d] = token[d]
    <3>1. token' = token \/ \E op, pair : Apply(c, op, pair)
      BY <1>2 DEF LateWrite
    <3>2. token \in [Clients -> Tokens]
      BY DEF TypeOK, Tokens
    <3> QED  BY <3>1, <3>2 DEF Apply
  <2> QED  BY <2>1, <2>2, <2>3 DEF Expected
<1>3. ASSUME NEW c \in Clients, Deploy(c)
      PROVE  Expected(Plan, d)'
  <2>1. UNCHANGED <<flow, step, outcome, unsure>>
    BY <1>3 DEF Deploy, clientVars
  <2>2. /\ token \in [Clients -> Tokens] /\ token[c].public = "PENDING_DEPLOYMENT"
        /\ token' = [token EXCEPT ![c] = [token[c] EXCEPT !.public = "DEPLOYED"]]
    BY <1>3 DEF Deploy, TypeOK, Tokens
  <2>3. ASSUME NEW p, Match(token[c], p)
        PROVE  Match([token[c] EXCEPT !.public = "DEPLOYED"], p)
    BY <2>2, <2>3 DEF Match, Tokens, PublicChainStatus
  <2>4. ASSUME NEW p, Match(token[d], p)
        PROVE  Match(token'[d], p)
    BY <2>2, <2>3, <2>4
  <2> QED  BY <2>1, <2>4 DEF Expected
<1> QED  BY <1>1, <1>2, <1>3 DEF Next

\* However many clients share the node: in the order of a plan, a client whose
\* write is refused for good (a 4xx that isTransient() does not match) has had
\* a write fail that was, or could still be, mined.
THEOREM RefusalsAreEchoes ==
  ASSUME NEW Plan, InOrder(Plan)
  PROVE  Spec => []RefusedOnlyAfterOwnWrite
<1> DEFINE Inv == TypeOK /\ \A c \in Clients : Expected(Plan, c)
<1>1. Init => Inv
  <2> SUFFICES ASSUME Init, NEW c \in Clients
               PROVE  Expected(Plan, c)
    BY TypeInit
  <2>1. token[c] = NewToken /\ Plan[c][flow[c]][step[c]] = NewToken /\ outcome[c] = "running"
    BY DEF Init, InOrder
  <2>2. NewToken \in Tokens
    BY DEF NewToken, Tokens, TokenStatus, PublicChainStatus
  <2> QED  BY <2>1, <2>2 DEF Expected, Match
<1>2. Inv /\ [Next]_vars => Inv'
  <2>1. ASSUME Inv, Next
        PROVE  Inv'
    BY <2>1, TypeNext, ExpectedStep
  <2>2. ASSUME Inv, UNCHANGED vars
        PROVE  Inv'
    BY <2>2, TypeNext DEF vars, clientVars, backendVars, Expected
  <2> QED  BY <2>1, <2>2
<1>3. Inv => RefusedOnlyAfterOwnWrite
  BY DEF Expected, RefusedOnlyAfterOwnWrite
<1> QED  BY <1>1, <1>2, <1>3, PTL DEF Spec

(***************************************************************************)
(* The flows: the last step of each one says what it has done.             *)
(***************************************************************************)
LayerOps == {"submit", "freeze_privacy_node", "unfreeze_privacy_node",
             "freeze_public_chain", "unfreeze_public_chain"}
Final(f) == f[Len(f)]

\* What the last step of a flow says of the writes before it, and which writes are
\* repeated on any error.
Shape(f) ==
  /\ \A i \in DOMAIN f :
       f[i].kind = "write" /\ f[i].lax => f[i].on \in {"addPair", "teleport"}
  /\ \A s \in {"AUTHORIZED", "UNAUTHORIZED"} \cap Asked(f) : Final(f).on = s
  /\ "register" \in Asked(f) =>
       /\ Final(f).kind = "poll"
       /\ Final(f).on \in {"WAITING_APPROVAL", "AUTHORIZED", "UNAUTHORIZED"}
  /\ \A op \in LayerOps \cap Asked(f) : Final(f).kind = "write" /\ Final(f).on = op
  /\ \A s \in PairStatus \cap Asked(f) :
       \/ Final(f).kind = "write" /\ Final(f).on = s
       \/ Final(f).kind = "poll" /\ Final(f).on = "approved" /\ s = "APPROVED"

LEMMA Append1 == ASSUME NEW a, NEW b PROVE <<a>> \o <<b>> = <<a, b>>
<1> DEFINE S == {a, b}
<1>1. <<a>> \in Seq(S) /\ <<b>> \in Seq(S) /\ <<a, b>> \in Seq(S)
  OBVIOUS
<1>2. Len(<<a>> \o <<b>>) = 2 /\ \A i \in 1 .. 2 : (<<a>> \o <<b>>)[i] = <<a, b>>[i]
  BY <1>1
<1>3. <<a>> \o <<b>> \in Seq(S)
  BY <1>1, ConcatProperties
<1> QED  BY <1>1, <1>2, <1>3, SeqEqual

LEMMA Append2 == ASSUME NEW a, NEW b, NEW c PROVE <<a, b>> \o <<c>> = <<a, b, c>>
<1> DEFINE S == {a, b, c}
<1>1. <<a, b>> \in Seq(S) /\ <<c>> \in Seq(S) /\ <<a, b, c>> \in Seq(S)
  OBVIOUS
<1>2. Len(<<a, b>> \o <<c>>) = 3 /\ \A i \in 1 .. 3 : (<<a, b>> \o <<c>>)[i] = <<a, b, c>>[i]
  BY <1>1
<1>3. <<a, b>> \o <<c>> \in Seq(S)
  BY <1>1, ConcatProperties
<1> QED  BY <1>1, <1>2, <1>3, SeqEqual

LEMMA Append3 == ASSUME NEW a, NEW b, NEW c, NEW d PROVE <<a, b, c>> \o <<d>> = <<a, b, c, d>>
<1> DEFINE S == {a, b, c, d}
<1>1. <<a, b, c>> \in Seq(S) /\ <<d>> \in Seq(S) /\ <<a, b, c, d>> \in Seq(S)
  OBVIOUS
<1>2. Len(<<a, b, c>> \o <<d>>) = 4 /\ \A i \in 1 .. 4 : (<<a, b, c>> \o <<d>>)[i] = <<a, b, c, d>>[i]
  BY <1>1
<1>3. <<a, b, c>> \o <<d>> \in Seq(S)
  BY <1>1, ConcatProperties
<1> QED  BY <1>1, <1>2, <1>3, SeqEqual

LEMMA OneStep ==
  ASSUME NEW w, w.kind = "write" /\ w.lax => w.on \in {"addPair", "teleport"},
         w.on # "register",
         w.on \in LayerOps \cup PairStatus => w.kind = "write"
  PROVE  Shape(<<w>>)
<1>1. Len(<<w>>) = 1 /\ DOMAIN <<w>> = {1} /\ <<w>>[1] = w /\ Asked(<<w>>) = {w.on}
  BY DEF Asked
<1> QED  BY <1>1 DEF Shape, Final

LEMMA TwoSteps ==
  ASSUME NEW w, NEW v,
         w.kind = "write" /\ w.lax => w.on \in {"addPair", "teleport"},
         v.kind = "write" /\ v.lax => v.on \in {"addPair", "teleport"},
         \/ w.on = "register" /\ v.kind = "poll" /\ v.on = "WAITING_APPROVAL"
         \/ w.on = "discovered" /\ v.kind = "write" /\ v.on \in PairStatus
  PROVE  Shape(<<w, v>>)
<1>1. Len(<<w, v>>) = 2 /\ DOMAIN <<w, v>> = {1, 2} /\ <<w, v>>[1] = w /\ <<w, v>>[2] = v
  OBVIOUS
<1>2. Asked(<<w, v>>) = {w.on, v.on}
  BY <1>1 DEF Asked
<1> QED  BY <1>1, <1>2 DEF Shape, Final, LayerOps, PairStatus

LEMMA Prepend ==
  ASSUME NEW a, NEW b, NEW c
  PROVE  <<a>> \o <<b, c>> = <<a, b, c>>
<1> DEFINE S == {a, b, c}
<1>1. <<a>> \in Seq(S) /\ <<b, c>> \in Seq(S) /\ <<a, b, c>> \in Seq(S)
  OBVIOUS
<1>2. Len(<<a>> \o <<b, c>>) = 3 /\ \A i \in 1 .. 3 : (<<a>> \o <<b, c>>)[i] = <<a, b, c>>[i]
  BY <1>1
<1>3. <<a>> \o <<b, c>> \in Seq(S)
  BY <1>1, ConcatProperties
<1> QED  BY <1>1, <1>2, <1>3, SeqEqual

LEMMA AppendNothing ==
  ASSUME NEW a, NEW b, NEW c
  PROVE  << >> \o <<a>> = <<a>> /\ <<a, b, c>> \o << >> = <<a, b, c>>
<1> DEFINE S == {a, b, c}
<1>1. <<a>> \in Seq(S) /\ <<a, b, c>> \in Seq(S)
  OBVIOUS
<1> HIDE DEF S
<1> QED  BY <1>1, ConcatEmptySeq

LEMMA ThreeSteps ==
  ASSUME NEW u, NEW v, NEW w, u.on = "addPair", v.kind = "poll", v.on = "discovered",
         w.kind = "write", w.on \in PairStatus, ~w.lax
  PROVE  Shape(<<u, v, w>>)
<1> DEFINE f == <<u, v, w>>
<1>1. Len(f) = 3 /\ DOMAIN f = {1, 2, 3} /\ f[1] = u /\ f[2] = v /\ f[3] = w
  OBVIOUS
<1> HIDE DEF f
<1>2. Asked(f) = {u.on, v.on, w.on}
  BY <1>1 DEF Asked
<1>3. Shape(f)
  BY <1>1, <1>2 DEF Shape, Final, LayerOps, PairStatus
<1> QED  BY <1>3 DEF f

LEMMA FourSteps ==
  ASSUME NEW u, NEW v, NEW w, NEW x, v.kind = "poll", x.kind = "poll", w.kind = "write", ~w.lax,
         \/ /\ u.on = "addPair" /\ v.on = "discovered"
            /\ w.on = "APPROVED" /\ x.on = "approved"
         \/ /\ u.on = "register" /\ ~u.lax /\ v.on = "WAITING_APPROVAL"
            /\ w.on \in {"AUTHORIZED", "UNAUTHORIZED"} /\ x.on = w.on
  PROVE  Shape(<<u, v, w, x>>)
<1> DEFINE f == <<u, v, w, x>>
<1>1. Len(f) = 4 /\ DOMAIN f = {1, 2, 3, 4} /\ f[1] = u /\ f[2] = v /\ f[3] = w /\ f[4] = x
  OBVIOUS
<1> HIDE DEF f
<1>2. Asked(f) = {u.on, v.on, w.on, x.on}
  BY <1>1 DEF Asked
<1>3. Shape(f)
  BY <1>1, <1>2 DEF Shape, Final, LayerOps, PairStatus
<1> QED  BY <1>3 DEF f

LEMMA FlowShape ==
  ASSUME NEW f \in Flows
  PROVE  Shape(f)
<1>1. CASE f = registerToken
  BY <1>1, TwoSteps DEF registerToken, pollUntilTokenStatusIsUpdated, Write, Poll
<1>2. CASE f = submitTokenToPublicChain
  BY <1>2, OneStep DEF submitTokenToPublicChain, Write
<1>3. CASE f \in {getPublicAddress, discoverUserId}
  <2>1. PICK w : f = <<w>> /\ w.kind = "poll" /\ w.on \in {"DEPLOYED", "discovered"}
    BY <1>3 DEF getPublicAddress, discoverUserId, Poll
  <2> QED  BY <2>1, OneStep DEF LayerOps, PairStatus
<1>4. CASE f \in {teleportTokenAndSend, onboardUser}
  <2>1. PICK w : f = <<w>> /\ w.kind = "write" /\ w.on \in {"teleport", "addPair"}
    BY <1>4 DEF teleportTokenAndSend, onboardUser, Write
  <2> QED  BY <2>1, OneStep
<1>5. ASSUME NEW s \in {"AUTHORIZED", "UNAUTHORIZED"}, f = registerTokenAndUpdateStatus(s)
      PROVE  Shape(f)
  <2> DEFINE u == Write("register", "register", FALSE)
             v == pollUntilTokenStatusIsUpdated("WAITING_APPROVAL")
             w == Write(s, "status", FALSE)
             x == pollUntilTokenStatusIsUpdated(s)
  <2>1. /\ v.kind = "poll" /\ x.kind = "poll" /\ w.kind = "write" /\ ~w.lax
        /\ u.on = "register" /\ ~u.lax /\ v.on = "WAITING_APPROVAL" /\ w.on = s /\ x.on = s
    BY DEF Write, pollUntilTokenStatusIsUpdated, Poll
  <2>2. f = (<<u, v>> \o <<w>>) \o <<x>>
    BY <1>5 DEF registerTokenAndUpdateStatus, registerToken, updateTokenStatus
  <2> HIDE DEF u, v, w, x
  <2>3. f = <<u, v, w, x>>
    <3>1. <<u, v>> \o <<w>> = <<u, v, w>>
      BY Append2
    <3>2. <<u, v, w>> \o <<x>> = <<u, v, w, x>>
      BY Append3
    <3> QED  BY <2>2, <3>1, <3>2
  <2> QED  BY <2>1, <2>3, FourSteps
<1>6. ASSUME NEW s \in {"AUTHORIZED", "UNAUTHORIZED"}, f = updateTokenStatus(s)
      PROVE  Shape(f)
  BY <1>6, OneStep DEF updateTokenStatus, Write
<1>7. ASSUME NEW layer \in DOMAIN FreezeOn, f = freezeToken(layer) \/ f = unfreezeToken(layer)
      PROVE  Shape(f)
  <2>1. layer \in {"privacy_node", "public_chain"}
    BY DEF FreezeOn
  <2>2. PICK w : f = <<w>> /\ w.kind = "write" /\ ~w.lax /\ w.on \in {FreezeOn[layer], UnfreezeOn[layer]}
    BY <1>7 DEF freezeToken, unfreezeToken, Write
  <2>3. w.on # "register"
    BY <2>1, <2>2 DEF FreezeOn, UnfreezeOn
  <2> QED  BY <2>2, <2>3, OneStep
<1>8. ASSUME NEW s \in PairStatus, NEW cached \in BOOLEAN, f = updateOnboardingStatus(s, cached)
      PROVE  Shape(f)
  <2> DEFINE v == Poll("discovered", "discover", TRUE)
             w == Write(s, "approve", FALSE)
  <2>1. v.kind = "poll" /\ v.on = "discovered" /\ w.kind = "write" /\ ~w.lax /\ w.on = s
    BY DEF Write, Poll
  <2>2. f = (IF cached THEN << >> ELSE <<v>>) \o <<w>>
    BY <1>8 DEF updateOnboardingStatus, discoverUserId
  <2> HIDE DEF v, w
  <2>3. f = <<w>> \/ f = <<v, w>>
    BY <2>2, Append1, AppendNothing
  <2>4. s # "register"
    BY DEF PairStatus
  <2> QED  BY <2>1, <2>3, <2>4, OneStep, TwoSteps
<1>9. ASSUME NEW s \in PairStatus, f = onboardUserAndUpdateStatus(s)
      PROVE  Shape(f)
  <2> DEFINE u == Write("addPair", "addPair", TRUE)
             v == Poll("discovered", "discover", TRUE)
             w == Write(s, "approve", FALSE)
             x == Poll("approved", "visible", TRUE)
  <2>1. /\ u.on = "addPair" /\ v.kind = "poll" /\ v.on = "discovered" /\ w.kind = "write"
        /\ ~w.lax /\ w.on = s /\ x.kind = "poll" /\ x.on = "approved"
    BY DEF Write, Poll
  <2>2. f = (<<u>> \o (<<v>> \o <<w>>)) \o (IF s = "APPROVED" THEN <<x>> ELSE << >>)
    BY <1>9 DEF onboardUserAndUpdateStatus, onboardUser, updateOnboardingStatus, discoverUserId
  <2> HIDE DEF u, v, w, x
  <2>3. f = <<u, v, w>> \o (IF s = "APPROVED" THEN <<x>> ELSE << >>)
    BY <2>2, Append1, Prepend
  <2>4. f = <<u, v, w>> \/ (s = "APPROVED" /\ f = <<u, v, w, x>>)
    BY <2>3, Append3, AppendNothing
  <2> QED  BY <2>1, <2>4, ThreeSteps, FourSteps
<1>10. DOMAIN UnfreezeOn = DOMAIN FreezeOn
  BY DEF FreezeOn, UnfreezeOn
<1> QED  BY <1>1, <1>2, <1>3, <1>4, <1>5, <1>6, <1>7, <1>8, <1>9, <1>10 DEF Flows

(***************************************************************************)
(* What a flow that returned has done, it has done for good.               *)
(***************************************************************************)
PassedAt(c, k, j) == k < flow[c] \/ (k = flow[c] /\ (j < step[c] \/ outcome[c] = "returned"))

\* No two clients were given one pair.
OwnPair(c) == mine[c] # 0 => \A d \in Clients \ {c} : mine[d] # mine[c]

\* What a client that has not thrown left to be mined is a pair or a transfer;
\* a status of a pair is left by one that goes on with no other pair.
LateHarmless(c) ==
  outcome[c] \in {"running", "returned"} =>
    \A i \in late[c] : unsure[c][i].op \in {"addPair", "teleport"}
LatePair(c) == \A i \in late[c] : unsure[c][i].op \in PairStatus => unsure[c][i].pair = mine[c]

\* Who has added a pair or seen it on the list has one.
Given(c) ==
  \A k \in DOMAIN Script[c] : \A j \in DOMAIN Script[c][k] :
    PassedAt(c, k, j) /\ Script[c][k][j].on \in {"addPair", "discovered"} => mine[c] # 0

\* As long as no answer to a freeze was lost a frozen token is frozen by the plan.
NoFreezeLost(c) == \A i \in DOMAIN unsure[c] : unsure[c][i].op # "freeze_privacy_node"
Thawed(Plan, c) ==
  /\ outcome[c] = "running" => Plan[c][flow[c]][step[c]] \in Tokens
  /\ NoFreezeLost(c) =>
       /\ token[c].saved # "FROZEN"
       /\ outcome[c] = "running" /\ token[c].status = "FROZEN" =>
            Plan[c][flow[c]][step[c]].status = "FROZEN"

StaysDone(c) == outcome[c] = "returned" => Done(c, Script[c][flow[c]])

PairInv == TypeOK /\ \A c \in Clients : OwnPair(c) /\ LateHarmless(c) /\ LatePair(c) /\ Given(c)

\* A client's step leaves the others' writes and pairs alone.
LEMMA OthersKeepWrites ==
  ASSUME TypeOK, NEW c \in Clients, ClientStep(c), NEW d \in Clients \ {c}
  PROVE  late'[d] = late[d] /\ mine'[d] = mine[d]
<1>1. late \in [Clients -> SUBSET Nat] /\ mine \in [Clients -> 0 .. Len(pairs)]
  BY DEF TypeOK
<1>2. late' = late \/ late' = [late EXCEPT ![c] = late[c] \cup {Len(unsure[c]) + 1}]
  BY DEF ClientStep, WriteDone, FailsAfterWrite, FailsBeforeWrite, TimesOut, IsRefused,
         PollSees, PollMisses, PollFails, backendVars
<1>3. mine' = mine \/ mine' = [mine EXCEPT ![c] = Len(pairs) + 1]
  BY DEF ClientStep, WriteDone, FailsAfterWrite, FailsBeforeWrite, TimesOut, IsRefused,
         PollSees, PollMisses, PollFails, backendVars
<1> QED  BY <1>1, <1>2, <1>3

\* What the two kinds of steps make of the place of a client.
LEMMA Moves ==
  ASSUME TypeOK, NEW c \in Clients, ClientStep(c)
  PROVE  /\ outcome[c] = "running"
         /\ \/ (WriteDone(c) \/ PollSees(c)) /\ Resolve(c)
            \/ /\ flow' = flow /\ step' = step /\ outcome'[c] # "returned"
               /\ outcome'[c] = "running" \/ outcome'[c] \in Outcomes \ {"running"}
<1>1. outcome \in [Clients -> Outcomes]
  BY DEF TypeOK
<1>2. outcome[c] = "running"
  BY DEF ClientStep, WriteDone, FailsAfterWrite, FailsBeforeWrite, TimesOut, IsRefused,
         PollSees, PollMisses, PollFails, At
<1>3. CASE WriteDone(c) \/ PollSees(c)
  BY <1>2, <1>3 DEF WriteDone, PollSees
<1>4. CASE ~(WriteDone(c) \/ PollSees(c))
  <2>1. \E worthIt : \E why \in Outcomes \ {"returned"} : Retry(c, worthIt, why)
    BY <1>4 DEF ClientStep, FailsAfterWrite, FailsBeforeWrite, TimesOut, IsRefused,
           PollMisses, PollFails, Outcomes
  <2>2. /\ flow' = flow /\ step' = step
        /\ outcome' = outcome \/ \E why \in Outcomes \ {"returned"} : outcome' = [outcome EXCEPT ![c] = why]
    BY <2>1 DEF Retry
  <2>3. outcome'[c] \in Outcomes \ {"returned"}
    BY <1>1, <1>2, <2>2 DEF Outcomes
  <2> QED  BY <1>2, <2>2, <2>3
<1> QED  BY <1>3, <1>4

\* The writes of unknown fate are kept in their order.
LEMMA UnsureGrows ==
  ASSUME TypeOK, NEW c \in Clients, Unsure(c)
  PROVE  /\ Len(unsure[c]) \in Nat /\ DOMAIN unsure[c] = 1 .. Len(unsure[c])
         /\ DOMAIN unsure'[c] = 1 .. Len(unsure[c]) + 1
         /\ \A i \in DOMAIN unsure[c] : unsure'[c][i] = unsure[c][i]
         /\ unsure'[c][Len(unsure[c]) + 1] = [op |-> Step(c).on, pair |-> mine[c]]
<1> DEFINE w == [op |-> Step(c).on, pair |-> mine[c]]
<1>1. unsure \in [Clients -> Seq(Late(Len(pairs)))]
  BY DEF TypeOK, Late
<1>2. unsure'[c] = Append(unsure[c], w)
  BY <1>1 DEF Unsure
<1> HIDE DEF w
<1>3. unsure[c] \in Seq(Late(Len(pairs)))
  BY <1>1
<1> QED  BY <1>2, <1>3 DEF w

LEMMA WritesKept ==
  ASSUME TypeOK, NEW c \in Clients, ClientStep(c)
  PROVE  /\ unsure' = unsure \/ Unsure(c)
         /\ \A i \in DOMAIN unsure[c] : i \in DOMAIN unsure'[c] /\ unsure'[c][i] = unsure[c][i]
         /\ late[c] \subseteq DOMAIN unsure[c]
<1>1. unsure' = unsure \/ Unsure(c)
  BY DEF ClientStep, WriteDone, FailsAfterWrite, FailsBeforeWrite, TimesOut, IsRefused,
         PollSees, PollMisses, PollFails, backendVars
<1>2. late[c] \subseteq DOMAIN unsure[c]
  BY DEF TypeOK
<1>3. CASE unsure' = unsure
  BY <1>2, <1>3
<1>4. CASE Unsure(c)
  <2>1. /\ Len(unsure[c]) \in Nat /\ DOMAIN unsure[c] = 1 .. Len(unsure[c])
        /\ DOMAIN unsure'[c] = 1 .. Len(unsure[c]) + 1
        /\ \A i \in DOMAIN unsure[c] : unsure'[c][i] = unsure[c][i]
    BY <1>4, UnsureGrows
  <2>2. DOMAIN unsure[c] \subseteq DOMAIN unsure'[c]
    BY <2>1
  <2> QED  BY <1>2, <1>4, <2>1, <2>2
<1> QED  BY <1>1, <1>3, <1>4

\* The step a client is at has the shape of its flow's steps.
LEMMA LaxAt ==
  ASSUME NEW Plan, Composed(Plan), TypeOK, NEW c \in Clients, At(c, "write"), Step(c).lax
  PROVE  Step(c).on \in {"addPair", "teleport"}
<1>1. flow[c] \in DOMAIN Script[c] /\ step[c] \in DOMAIN Script[c][flow[c]]
  BY DEF TypeOK
<1>2. Script[c][flow[c]] \in Flows
  BY <1>1 DEF Composed
<1>3. Shape(Script[c][flow[c]])
  BY <1>2, FlowShape
<1> QED  BY <1>1, <1>3 DEF Shape, Step, At

LEMMA LateStep ==
  ASSUME NEW Plan, Composed(Plan), TypeOK, NEW c \in Clients, LateHarmless(c), ClientStep(c)
  PROVE  LateHarmless(c)' /\ LatePair(c)'
<1>1. /\ outcome[c] = "running" /\ outcome \in [Clients -> Outcomes]
      /\ late \in [Clients -> SUBSET Nat] /\ mine \in [Clients -> 0 .. Len(pairs)]
  BY Moves DEF TypeOK
<1>2. \A i \in late[c] : unsure[c][i].op \in {"addPair", "teleport"}
  BY <1>1 DEF LateHarmless
<1>3. \A i \in late[c] : unsure'[c][i] = unsure[c][i]
  BY WritesKept
<1>4. CASE late' = late
  BY <1>2, <1>3, <1>4 DEF LateHarmless, LatePair, PairStatus
<1>5. CASE late' # late
  <2>1. TimesOut(c)
    BY <1>5 DEF ClientStep, WriteDone, FailsAfterWrite, FailsBeforeWrite, TimesOut, IsRefused,
           PollSees, PollMisses, PollFails, backendVars
  <2>2. /\ At(c, "write") /\ Unsure(c) /\ late' = [late EXCEPT ![c] = late[c] \cup {Len(unsure[c]) + 1}]
        /\ Retry(c, Step(c).lax, "timedOut") /\ mine' = mine
    BY <2>1 DEF TimesOut
  <2>3. late'[c] = late[c] \cup {Len(unsure[c]) + 1}
    BY <1>1, <2>2
  <2> DEFINE w == unsure'[c][Len(unsure[c]) + 1]
  <2>4. w = [op |-> Step(c).on, pair |-> mine[c]]
    BY <2>2, UnsureGrows
  <2>5. w.op = Step(c).on /\ w.pair = mine[c]
    BY <2>4
  <2>6. outcome'[c] \in {"running", "returned"} => Step(c).on \in {"addPair", "teleport"}
    <3>1. CASE Step(c).lax
      BY <2>2, <3>1, LaxAt
    <3>2. CASE ~Step(c).lax
      <4>1. outcome' = [outcome EXCEPT ![c] = "timedOut"]
        BY <2>2, <3>2 DEF Retry
      <4> QED  BY <1>1, <4>1
    <3> QED  BY <3>1, <3>2
  <2> HIDE DEF w
  <2>7. \A i \in late'[c] : i \in late[c] \/ unsure'[c][i] = w
    BY <2>3 DEF w
  <2>8. LateHarmless(c)'
    BY <1>2, <1>3, <2>5, <2>6, <2>7 DEF LateHarmless
  <2>9. LatePair(c)'
    BY <1>2, <1>3, <2>2, <2>5, <2>7 DEF LatePair, PairStatus
  <2> QED  BY <2>8, <2>9
<1> QED  BY <1>4, <1>5

\* A pair is given to a client once, and what gives one is not forgotten.
LEMMA PairsStep ==
  ASSUME TypeOK, NEW c \in Clients, ClientStep(c)
  PROVE  \/ mine' = mine
         \/ mine' = [mine EXCEPT ![c] = Len(pairs) + 1] /\ Len(pairs) \in Nat
<1>1. Len(pairs) \in Nat
  BY DEF TypeOK
<1> QED  BY <1>1 DEF ClientStep, WriteDone, FailsAfterWrite, FailsBeforeWrite, TimesOut,
                IsRefused, PollSees, PollMisses, PollFails, backendVars

LEMMA OwnPairStep ==
  ASSUME TypeOK, \A d \in Clients : OwnPair(d), NEW c \in Clients, ClientStep(c), NEW d \in Clients
  PROVE  OwnPair(d)'
<1>1. mine \in [Clients -> 0 .. Len(pairs)] /\ Len(pairs) \in Nat
  BY DEF TypeOK
<1>2. CASE mine' = mine
  BY <1>2 DEF OwnPair
<1>3. CASE mine' = [mine EXCEPT ![c] = Len(pairs) + 1]
  <2>1. \A e \in Clients : mine[e] <= Len(pairs) /\ mine[e] \in Nat
    BY <1>1
  <2>2. \A e \in Clients : mine'[e] = IF e = c THEN Len(pairs) + 1 ELSE mine[e]
    BY <1>1, <1>3
  <2>3. ASSUME NEW e \in Clients \ {d}, mine'[d] # 0 PROVE mine'[e] # mine'[d]
    <3>1. CASE d = c \/ e = c
      BY <1>1, <2>1, <2>2, <2>3, <3>1
    <3>2. CASE d # c /\ e # c
      BY <2>2, <2>3, <3>2 DEF OwnPair
    <3> QED  BY <3>1, <3>2
  <2> QED  BY <2>3 DEF OwnPair
<1> QED  BY <1>2, <1>3, PairsStep

LEMMA GivenStep ==
  ASSUME TypeOK, NEW c \in Clients, Given(c), ClientStep(c)
  PROVE  Given(c)'
<1>1. /\ flow \in [Clients -> Nat] /\ step \in [Clients -> Nat] /\ outcome \in [Clients -> Outcomes]
      /\ mine \in [Clients -> 0 .. Len(pairs)] /\ outcome[c] = "running"
      /\ flow[c] \in DOMAIN Script[c] /\ step[c] \in DOMAIN Script[c][flow[c]]
  BY Moves DEF TypeOK
<1>2. mine[c] # 0 => mine'[c] # 0
  BY <1>1, PairsStep
<1>3. CASE ~(WriteDone(c) \/ PollSees(c))
  <2>1. flow' = flow /\ step' = step /\ outcome'[c] # "returned"
    BY <1>3, Moves
  <2> QED  BY <1>1, <1>2, <2>1 DEF Given, PassedAt
<1>4. CASE WriteDone(c) \/ PollSees(c)
  <2>1. ASSUME NEW k \in DOMAIN Script[c], NEW j \in DOMAIN Script[c][k], PassedAt(c, k, j)'
        PROVE  PassedAt(c, k, j) \/ (k = flow[c] /\ j = step[c])
    <3>0. k \in Nat /\ j \in Nat /\ Len(Script[c][flow[c]]) \in Nat
          /\ DOMAIN Script[c][flow[c]] = 1 .. Len(Script[c][flow[c]]) /\ flow[c] \in Nat /\ step[c] \in Nat
      BY <1>1, StepAt
    <3>1. CASE step[c] < Len(Script[c][flow[c]])
      <4>1. flow' = flow /\ outcome' = outcome /\ step'[c] = step[c] + 1
        BY <1>1, <1>4, <3>1, Moves DEF Resolve, WriteDone, PollSees
      <4> QED  BY <1>1, <2>1, <3>0, <4>1 DEF PassedAt
    <3>2. CASE ~(step[c] < Len(Script[c][flow[c]])) /\ flow[c] < Len(Script[c])
      <4>1. flow'[c] = flow[c] + 1 /\ outcome' = outcome /\ step'[c] = 1
        BY <1>1, <1>4, <3>2, Moves DEF Resolve, WriteDone, PollSees
      <4> QED  BY <1>1, <2>1, <3>0, <3>2, <4>1, StepAt DEF PassedAt
    <3>3. CASE ~(step[c] < Len(Script[c][flow[c]])) /\ ~(flow[c] < Len(Script[c]))
      <4>1. flow' = flow /\ step' = step
        BY <1>1, <1>4, <3>3, Moves DEF Resolve, WriteDone, PollSees
      <4> QED  BY <1>1, <2>1, <3>0, <3>3, <4>1 DEF PassedAt
    <3> QED  BY <3>1, <3>2, <3>3
  <2>2. Step(c).on \in {"addPair", "discovered"} => mine'[c] # 0
    <3>1. CASE WriteDone(c)
      <4>1. Step(c).on # "discovered"
        BY <3>1, ClientAt DEF WriteDone, Ops, TokenOps, PairStatus
      <4>2. ASSUME Step(c).on = "addPair" PROVE mine' = [mine EXCEPT ![c] = Len(pairs) + 1]
        BY <3>1, <4>2 DEF WriteDone
      <4>3. Len(pairs) \in Nat
        BY DEF TypeOK
      <4> QED  BY <1>1, <4>1, <4>2, <4>3
    <3>2. CASE PollSees(c)
      <4>1. Step(c) \in Steps /\ Step(c).kind = "poll"
        BY <3>2, ClientAt DEF PollSees, At
      <4>2. Step(c).on # "addPair"
        BY <4>1 DEF Steps, TokenStatus
      <4>3. Step(c).on = "discovered" => mine[c] # 0
        BY <3>2 DEF PollSees, Shows
      <4> QED  BY <1>2, <4>2, <4>3
    <3> QED  BY <1>4, <3>1, <3>2
  <2> QED  BY <1>2, <2>1, <2>2 DEF Given, Step
<1> QED  BY <1>3, <1>4

\* What a token that no freeze has surprised becomes.
LEMMA StatusAfter ==
  ASSUME NEW op \in Ops, NEW t \in Tokens
  PROVE  /\ After(op, t) \in Tokens
         /\ After(op, t).saved = IF op = "freeze_privacy_node" THEN t.status ELSE t.saved
         /\ op = "freeze_privacy_node" => After(op, t).status = "FROZEN"
         /\ op = "unfreeze_privacy_node" => After(op, t).status = t.saved
         /\ op = "register" => After(op, t).status = "WAITING_APPROVAL"
         /\ op \in {"AUTHORIZED", "UNAUTHORIZED"} => After(op, t).status = op
         /\ op \notin {"freeze_privacy_node", "unfreeze_privacy_node", "register",
                       "AUTHORIZED", "UNAUTHORIZED"} => After(op, t).status = t.status
<1>1. After(op, t) \in Tokens
  BY AfterTypes
<1>2. CASE op \in {"freeze_privacy_node", "unfreeze_privacy_node", "register"}
  BY <1>1, <1>2 DEF After, Tokens
<1>3. CASE op \in {"AUTHORIZED", "UNAUTHORIZED"}
  BY <1>1, <1>3 DEF After, Tokens
<1>4. CASE op \in {"submit", "freeze_public_chain", "unfreeze_public_chain", "teleport"}
  BY <1>1, <1>4 DEF After, Tokens
<1>5. CASE op \in PairStatus \cup {"addPair"}
  BY <1>1, <1>5 DEF After, PairStatus
<1> QED  BY <1>2, <1>3, <1>4, <1>5 DEF Ops, TokenOps

\* The token of a client that is at step s of its plan, whose token is p.
Cool(t, running, p) == t.saved # "FROZEN" /\ (running /\ t.status = "FROZEN" => p.status = "FROZEN")

LEMMA CoolAfter ==
  ASSUME NEW op \in Ops, NEW t \in Tokens, NEW p \in Tokens, Cool(t, TRUE, p),
         op = "freeze_privacy_node" => p.status # "FROZEN"
  PROVE  Cool(After(op, t), TRUE, [After(op, p) EXCEPT !.moved = 0])
<1>1. /\ After(op, p) \in Tokens
      /\ [After(op, p) EXCEPT !.moved = 0].status = After(op, p).status
  BY StatusAfter DEF Tokens
<1>2. CASE op = "freeze_privacy_node"
  BY <1>1, <1>2, StatusAfter DEF Cool
<1>3. CASE op # "freeze_privacy_node"
  <2>1. After(op, t).saved # "FROZEN"
    BY <1>3, StatusAfter DEF Cool
  <2>2. CASE op = "unfreeze_privacy_node"
    <3>1. After(op, t).status = t.saved
      BY <2>2, StatusAfter
    <3> QED  BY <2>1, <3>1 DEF Cool
  <2>3. CASE op \in {"register", "AUTHORIZED", "UNAUTHORIZED"}
    <3>1. After(op, t).status \in {"WAITING_APPROVAL", "AUTHORIZED", "UNAUTHORIZED"}
      BY <2>3, StatusAfter
    <3> QED  BY <2>1, <3>1 DEF Cool
  <2>4. CASE op \notin {"unfreeze_privacy_node", "register", "AUTHORIZED", "UNAUTHORIZED"}
    <3>1. After(op, t).status = t.status /\ After(op, p).status = p.status
      BY <1>3, <2>4, StatusAfter
    <3> QED  BY <1>1, <2>1, <3>1 DEF Cool
  <2> QED  BY <2>2, <2>3, <2>4
<1> QED  BY <1>2, <1>3

\* A write other than a freeze thaws or leaves the status alone.
LEMMA CoolStill ==
  ASSUME NEW op \in Ops, op # "freeze_privacy_node", NEW t \in Tokens, NEW p,
         NEW r \in BOOLEAN, Cool(t, r, p)
  PROVE  Cool(After(op, t), r, p)
<1>1. After(op, t).saved = t.saved
  BY StatusAfter
<1>2. After(op, t).status \in {t.status, t.saved, "WAITING_APPROVAL", "AUTHORIZED", "UNAUTHORIZED"}
  BY StatusAfter
<1> QED  BY <1>1, <1>2 DEF Cool

LEMMA PassedTypes ==
  ASSUME NEW s \in Steps, NEW p \in Tokens
  PROVE  Passed(s, p) \in Tokens
<1>1. CASE s.kind = "write"
  <2>1. s.on \in Ops
    BY <1>1 DEF Steps
  <2>2. After(s.on, p) \in Tokens
    BY <2>1, AfterTypes
  <2> QED  BY <1>1, <2>2 DEF Passed, Tokens
<1>2. CASE s.kind # "write"
  BY <1>2 DEF Passed, Tokens, PublicChainStatus
<1> QED  BY <1>1, <1>2

LEMMA ThawedStep ==
  ASSUME NEW Plan, InOrder(Plan), Composed(Plan), TypeOK, NEW c \in Clients,
         Thawed(Plan, c), ClientStep(c)
  PROVE  Thawed(Plan, c)'
<1> DEFINE p == Plan[c][flow[c]][step[c]]
           q == Plan[c][flow'[c]][step'[c]]
           op == Step(c).on
<1>1. /\ outcome[c] = "running" /\ p \in Tokens /\ token \in [Clients -> Tokens]
      /\ flow[c] \in DOMAIN Script[c] /\ step[c] \in DOMAIN Script[c][flow[c]]
      /\ Step(c) \in Steps /\ (At(c, "write") => op \in Ops)
  <2>1. outcome[c] = "running"
    BY Moves
  <2>2. token \in [Clients -> Tokens] /\ flow[c] \in DOMAIN Script[c] /\ step[c] \in DOMAIN Script[c][flow[c]]
    BY DEF TypeOK, Tokens
  <2> QED  BY <2>1, <2>2, ClientAt DEF Thawed
<1>2. NoFreezeLost(c) => Cool(token[c], TRUE, p)
  BY <1>1 DEF Thawed, Cool
<1>3. NoFreezeLost(c)' => NoFreezeLost(c) /\ (Unsure(c) => op # "freeze_privacy_node")
  <2>1. NoFreezeLost(c)' => NoFreezeLost(c)
    BY WritesKept DEF NoFreezeLost
  <2>2. ASSUME NoFreezeLost(c)', Unsure(c) PROVE op # "freeze_privacy_node"
    <3>1. /\ Len(unsure[c]) \in Nat /\ Len(unsure[c]) + 1 \in DOMAIN unsure'[c]
          /\ unsure'[c][Len(unsure[c]) + 1] = [op |-> op, pair |-> mine[c]]
      BY <2>2, UnsureGrows
    <3> QED  BY <2>2, <3>1 DEF NoFreezeLost
  <2> QED  BY <2>1, <2>2
<1>4. ASSUME outcome'[c] = "running" => q \in Tokens,
             NoFreezeLost(c)' => Cool(token'[c], outcome'[c] = "running", q)
      PROVE  Thawed(Plan, c)'
  BY <1>4 DEF Thawed, Cool
<1>5. op = "freeze_privacy_node" => p.status # "FROZEN"
  BY <1>1 DEF Composed, Step
<1>6. (WriteDone(c) \/ PollSees(c)) /\ outcome'[c] = "running" =>
        q = Passed(Step(c), p) /\ q \in Tokens
  <2>1. WriteDone(c) \/ PollSees(c) => Resolve(c)
    BY DEF WriteDone, PollSees
  <2> QED  BY <1>1, <2>1, PlanMoves, PassedTypes
<1>7. ~(WriteDone(c) \/ PollSees(c)) => q = p
  BY Moves
<1> HIDE DEF p, q
<1>8. CASE WriteDone(c)
  <2>1. At(c, "write") /\ token'[c] = After(op, token[c]) /\ unsure' = unsure
    BY <1>1, <1>8 DEF WriteDone, Apply
  <2>2. Passed(Step(c), p) = [After(op, p) EXCEPT !.moved = 0]
    BY <2>1 DEF Passed, At
  <2>3. ASSUME NoFreezeLost(c)'
        PROVE  Cool(token'[c], TRUE, Passed(Step(c), p))
    <3>1. op \in Ops /\ token[c] \in Tokens /\ Cool(token[c], TRUE, p)
      BY <1>1, <1>2, <1>3, <2>1, <2>3
    <3> HIDE DEF op
    <3>2. Cool(After(op, token[c]), TRUE, [After(op, p) EXCEPT !.moved = 0])
      BY <1>1, <1>5, <3>1, CoolAfter
    <3> QED  BY <2>1, <2>2, <3>2
  <2>4. NoFreezeLost(c)' => Cool(token'[c], outcome'[c] = "running", q)
    BY <1>6, <1>8, <2>3 DEF Cool
  <2> QED  BY <1>4, <1>6, <1>8, <2>4
<1>9. CASE PollSees(c)
  <2>1. Step(c).kind = "poll" /\ UNCHANGED <<token, unsure>>
    BY <1>9 DEF PollSees, backendVars, At
  <2>2. Passed(Step(c), p).status = p.status
    BY <1>1, <2>1 DEF Passed, Tokens
  <2>3. NoFreezeLost(c)' => Cool(token'[c], outcome'[c] = "running", q)
    BY <1>2, <1>3, <1>6, <1>9, <2>1, <2>2 DEF Cool
  <2> QED  BY <1>4, <1>6, <1>9, <2>3
<1>10. CASE FailsAfterWrite(c)
  <2>1. At(c, "write") /\ token'[c] = After(op, token[c]) /\ Unsure(c)
    BY <1>1, <1>10 DEF FailsAfterWrite, Apply
  <2>2. NoFreezeLost(c)' => Cool(token'[c], TRUE, p)
    BY <1>1, <1>2, <1>3, <2>1, CoolStill
  <2>3. q = p
    <3>1. ~(WriteDone(c) \/ PollSees(c)) \/ WriteDone(c) \/ PollSees(c)
      OBVIOUS
    <3> QED  BY <1>7, <1>10, Moves DEF FailsAfterWrite, Retry, p, q
  <2> QED  BY <1>1, <1>4, <2>2, <2>3 DEF Cool
<1>11. CASE FailsBeforeWrite(c) \/ TimesOut(c) \/ IsRefused(c) \/ PollMisses(c) \/ PollFails(c)
  <2>1. token' = token
    BY <1>11 DEF FailsBeforeWrite, TimesOut, IsRefused, PollMisses, PollFails, backendVars
  <2>2. q = p
    BY <1>11 DEF FailsBeforeWrite, TimesOut, IsRefused, PollMisses, PollFails, Retry, p, q
  <2> QED  BY <1>1, <1>2, <1>3, <1>4, <2>1, <2>2 DEF Cool
<1> QED  BY <1>8, <1>9, <1>10, <1>11 DEF ClientStep

\* A pair that is given a status was added, or looked up, before.
LEMMA PairGiven ==
  ASSUME NEW Plan, Composed(Plan), TypeOK, NEW c \in Clients, Given(c), NEW i \in DOMAIN Script[c],
         i < flow[c] \/ (i = flow[c] /\ outcome[c] = "returned"),
         PairStatus \cap Asked(Script[c][i]) # {}
  PROVE  mine[c] # 0
<1>1. PICK k \in 1 .. i : Asked(Script[c][k]) \cap {"addPair", "discovered"} # {}
  BY DEF Composed
<1>2. i \in Nat /\ k \in Nat /\ k \in DOMAIN Script[c]
  <2>1. Script[c] \in Seq(Seq(Steps))
    BY ScriptAssumption
  <2>2. DOMAIN Script[c] = 1 .. Len(Script[c]) /\ Len(Script[c]) \in Nat
    BY <2>1
  <2> QED  BY <2>2
<1>3. PICK j \in DOMAIN Script[c][k] : Script[c][k][j].on \in {"addPair", "discovered"}
  BY <1>1 DEF Asked
<1>4. flow[c] \in Nat
  BY DEF TypeOK
<1>5. PassedAt(c, k, j)
  BY <1>2, <1>4 DEF PassedAt
<1> QED  BY <1>2, <1>3, <1>5 DEF Given

\* Where the last step of a flow leaves its client.
LEMMA FlowPassed ==
  ASSUME TypeOK, NEW c \in Clients, ClientStep(c), flow'[c] # flow[c] \/ outcome'[c] = "returned"
  PROVE  /\ WriteDone(c) \/ PollSees(c)
         /\ Step(c) = Final(Script[c][flow[c]])
         /\ flow[c] < flow'[c] \/ (flow[c] = flow'[c] /\ outcome'[c] = "returned")
         /\ outcome'[c] = "returned" => flow'[c] = flow[c]
<1>1. /\ flow \in [Clients -> Nat] /\ outcome \in [Clients -> Outcomes] /\ outcome[c] = "running"
      /\ (WriteDone(c) \/ PollSees(c)) /\ Resolve(c)
  BY Moves DEF TypeOK
<1>2. /\ step[c] \in 1 .. Len(Script[c][flow[c]]) /\ Len(Script[c][flow[c]]) \in Nat
  BY ClientAt
<1>3. ~(step[c] < Len(Script[c][flow[c]]))
  BY <1>1 DEF Resolve
<1>4. step[c] = Len(Script[c][flow[c]])
  BY <1>2, <1>3
<1>5. \/ flow' = [flow EXCEPT ![c] = flow[c] + 1] /\ outcome' = outcome
      \/ flow' = flow /\ outcome' = [outcome EXCEPT ![c] = "returned"]
  BY <1>1, <1>3 DEF Resolve
<1>6. outcome'[c] = "returned" => flow'[c] = flow[c]
  BY <1>1, <1>5
<1>7. flow[c] < flow'[c] \/ (flow[c] = flow'[c] /\ outcome'[c] = "returned")
  BY <1>1, <1>5
<1> QED  BY <1>1, <1>4, <1>6, <1>7 DEF Step, Final

\* What the last step of a flow leaves on its token.
LEMMA TokenDone ==
  ASSUME NEW Plan, Composed(Plan), TypeOK, NEW c \in Clients, Thawed(Plan, c), ClientStep(c),
         NEW f \in Flows, Step(c) = Final(f), WriteDone(c) \/ PollSees(c)
  PROVE  /\ \A s \in {"AUTHORIZED", "UNAUTHORIZED"} \cap Asked(f) : token'[c].status = s
         /\ "register" \in Asked(f) => token'[c].status # "UNDEFINED"
         /\ "submit" \in Asked(f) => token'[c].public # "UNDEFINED"
         /\ "freeze_privacy_node" \in Asked(f) => token'[c].status = "FROZEN"
         /\ "unfreeze_privacy_node" \in Asked(f) => token'[c].status = token[c].saved
         /\ "freeze_public_chain" \in Asked(f) => token'[c].public = "FROZEN"
         /\ "unfreeze_public_chain" \in Asked(f) => token'[c].public = "DEPLOYED"
<1>1. token \in [Clients -> Tokens]
  BY DEF TypeOK, Tokens
<1>2. Shape(f)
  BY FlowShape
<1>3. ASSUME NEW op \in LayerOps \cap Asked(f)
      PROVE  WriteDone(c) /\ Step(c).on = op /\ token'[c] = After(op, token[c])
  <2>1. Step(c).kind = "write" /\ Step(c).on = op
    BY <1>2 DEF Shape
  <2>2. WriteDone(c)
    BY <2>1 DEF PollSees, At
  <2> QED  BY <1>1, <2>1, <2>2 DEF WriteDone, Apply
<1>4. ASSUME NEW s \in TokenStatus \cap {"WAITING_APPROVAL", "AUTHORIZED", "UNAUTHORIZED"},
             Step(c).on = s
      PROVE  s # "WAITING_APPROVAL" \/ PollSees(c) => token'[c].status = s
  <2>1. CASE PollSees(c)
    BY <1>4, <2>1 DEF PollSees, Shows, backendVars
  <2>2. CASE WriteDone(c) /\ s # "WAITING_APPROVAL"
    <3>1. token'[c] = After(s, token[c])
      BY <1>1, <1>4, <2>2 DEF WriteDone, Apply
    <3>2. s \in Ops /\ s \in {"AUTHORIZED", "UNAUTHORIZED"}
      BY <2>2 DEF Ops, TokenOps
    <3> QED  BY <1>1, <3>1, <3>2, StatusAfter
  <2> QED  BY <2>1, <2>2
<1>5. \A s \in {"AUTHORIZED", "UNAUTHORIZED"} \cap Asked(f) : token'[c].status = s
  BY <1>2, <1>4 DEF Shape, TokenStatus
<1>6. ASSUME "register" \in Asked(f) PROVE token'[c].status # "UNDEFINED"
  <2>1. Step(c).kind = "poll" /\ Step(c).on \in {"WAITING_APPROVAL", "AUTHORIZED", "UNAUTHORIZED"}
    BY <1>2, <1>6 DEF Shape
  <2>2. PollSees(c)
    BY <2>1 DEF WriteDone, At
  <2> QED  BY <1>4, <2>1, <2>2 DEF TokenStatus
<1>7. "submit" \in Asked(f) => token'[c].public # "UNDEFINED"
  <2>1. After("submit", token[c]).public # "UNDEFINED"
    BY <1>1 DEF After, Tokens
  <2> QED  BY <1>3, <2>1 DEF LayerOps
<1>8. /\ "freeze_privacy_node" \in Asked(f) => token'[c].status = "FROZEN"
      /\ "unfreeze_privacy_node" \in Asked(f) => token'[c].status = token[c].saved
  BY <1>1, <1>3, StatusAfter DEF LayerOps, Ops, TokenOps
<1>9. /\ "freeze_public_chain" \in Asked(f) => token'[c].public = "FROZEN"
      /\ "unfreeze_public_chain" \in Asked(f) => token'[c].public = "DEPLOYED"
  <2>1. /\ After("freeze_public_chain", token[c]).public = "FROZEN"
        /\ After("unfreeze_public_chain", token[c]).public = "DEPLOYED"
    BY <1>1 DEF After, Tokens
  <2> QED  BY <1>3, <2>1 DEF LayerOps
<1> QED  BY <1>5, <1>6, <1>7, <1>8, <1>9

LEMMA FlowEnds ==
  ASSUME NEW Plan, Composed(Plan), TypeOK, NEW c \in Clients, Thawed(Plan, c), ClientStep(c),
         flow'[c] # flow[c] \/ outcome'[c] = "returned", Given(c)', OwnPair(c)', TypeOK',
         NEW i \in DOMAIN Script[c], flow[c] = i
  PROVE  Done(c, Script[c][i])'
<1> DEFINE f == Script[c][i]
<1>1. /\ WriteDone(c) \/ PollSees(c)
      /\ Step(c) = Final(f)
      /\ flow[c] < flow'[c] \/ (flow[c] = flow'[c] /\ outcome'[c] = "returned")
  BY FlowPassed
<1>2. flow[c] \in DOMAIN Script[c] /\ step[c] \in DOMAIN f /\ f \in Flows /\ flow[c] \in Nat
  BY DEF TypeOK, Composed
<1>3. Shape(f)
  BY <1>2, FlowShape
<1>4. unsure' = unsure
  BY <1>1 DEF WriteDone, PollSees, backendVars
<1>5. ASSUME NEW k \in DOMAIN Script[c], NEW j \in DOMAIN Script[c][k], k <= i,
             Script[c][k][j].on \in {"addPair", "discovered"}
      PROVE  mine'[c] # 0
  <2>1. k \in Nat
    BY StepAt
  <2>3. flow'[c] \in Nat
    BY DEF TypeOK
  <2>2. PassedAt(c, k, j)'
    BY <1>1, <1>2, <1>5, <2>1, <2>3 DEF PassedAt
  <2> QED  BY <1>5, <2>2 DEF Given
<1>6. "addPair" \in Asked(f) => \A d \in Clients \ {c} : mine'[d] # mine'[c]
  <2> SUFFICES ASSUME "addPair" \in Asked(f) PROVE mine'[c] # 0
    BY DEF OwnPair
  <2>1. PICK j \in DOMAIN f : f[j].on = "addPair"
    BY DEF Asked
  <2> QED  BY <1>2, <1>5, <2>1
<1>7. ASSUME NEW s \in PairStatus \cap Asked(f) PROVE (pairs[mine[c]])' = s
  <2>1. mine'[c] # 0
    <3>1. PICK k \in 1 .. i : Asked(Script[c][k]) \cap {"addPair", "discovered"} # {}
      BY <1>2, <1>7 DEF Composed
    <3>2. k \in DOMAIN Script[c] /\ k <= i
      BY <1>2, <3>1, StepAt
    <3>3. PICK j \in DOMAIN Script[c][k] : Script[c][k][j].on \in {"addPair", "discovered"}
      BY <3>1 DEF Asked
    <3> QED  BY <1>5, <3>2, <3>3
  <2>2. pairs \in Seq(PairStatus) /\ mine \in [Clients -> 0 .. Len(pairs)] /\ Len(pairs) \in Nat
    BY DEF TypeOK
  <2>3. CASE Step(c).kind = "write" /\ Step(c).on = s
    <3>1. WriteDone(c)
      BY <1>1, <2>3 DEF PollSees, At
    <3>2. s # "addPair"
      BY DEF PairStatus
    <3>3. mine' = mine /\ pairs' = [pairs EXCEPT ![mine[c]] = s]
      BY <2>3, <3>1, <3>2 DEF WriteDone, Apply
    <3>4. mine[c] \in 1 .. Len(pairs)
      BY <2>1, <2>2, <3>3
    <3> QED  BY <2>2, <3>3, <3>4
  <2>4. CASE Step(c).kind = "poll" /\ Step(c).on = "approved" /\ s = "APPROVED"
    <3>1. PollSees(c)
      BY <1>1, <2>4 DEF WriteDone, At
    <3> QED  BY <2>4, <3>1 DEF PollSees, Shows, backendVars
  <2> QED  BY <1>1, <1>3, <2>3, <2>4 DEF Shape
<1>8. "unfreeze_privacy_node" \in Asked(f) =>
        token[c].saved # "FROZEN" \/ TimesUnsure(c, "freeze_privacy_node") > 0
  <2> SUFFICES ASSUME ~NoFreezeLost(c) PROVE TimesUnsure(c, "freeze_privacy_node") > 0
    BY DEF Thawed
  <2> DEFINE S == {n \in DOMAIN unsure[c] : unsure[c][n].op = "freeze_privacy_node"}
  <2>1. S # {}
    BY DEF NoFreezeLost
  <2>2. IsFiniteSet(S)
    <3>1. unsure[c] \in Seq(Late(Len(pairs)))
      BY DEF TypeOK, Late
    <3>2. DOMAIN unsure[c] = 1 .. Len(unsure[c]) /\ Len(unsure[c]) \in Nat
      BY <3>1
    <3>3. IsFiniteSet(1 .. Len(unsure[c]))
      BY <3>2, FS_Interval
    <3> QED  BY <3>2, <3>3, FS_Subset
  <2>3. Cardinality(S) \in Nat /\ Cardinality(S) # 0
    BY <2>1, <2>2, FS_CardinalityType, FS_EmptySet
  <2> QED  BY <2>3 DEF TimesUnsure
<1>9. TimesUnsure(c, "freeze_privacy_node")' = TimesUnsure(c, "freeze_privacy_node")
  BY <1>4 DEF TimesUnsure
<1>10. /\ \A s \in {"AUTHORIZED", "UNAUTHORIZED"} \cap Asked(f) : token'[c].status = s
       /\ "register" \in Asked(f) => token'[c].status # "UNDEFINED"
       /\ "submit" \in Asked(f) => token'[c].public # "UNDEFINED"
       /\ "freeze_privacy_node" \in Asked(f) => token'[c].status = "FROZEN"
       /\ "unfreeze_privacy_node" \in Asked(f) => token'[c].status = token[c].saved
       /\ "freeze_public_chain" \in Asked(f) => token'[c].public = "FROZEN"
       /\ "unfreeze_public_chain" \in Asked(f) => token'[c].public = "DEPLOYED"
  BY <1>1, <1>2, TokenDone
<1> HIDE DEF f
<1>11. Done(c, f)'
  BY <1>6, <1>7, <1>8, <1>9, <1>10 DEF Done
<1> QED  BY <1>11 DEF f

\* What keeps a finished flow's work: its token's status, its public status once
\* set, the fate of its writes, and its pair.
LEMMA DoneKept ==
  ASSUME NEW c \in Clients, NEW f, Done(c, f), unsure'[c] = unsure[c],
         token'[c].status = token[c].status,
         token'[c].public = token[c].public
           \/ (token[c].public = "PENDING_DEPLOYMENT" /\ token'[c].public = "DEPLOYED"),
         mine'[c] = mine[c], \A d \in Clients \ {c} : mine'[d] = mine[d] \/ mine'[d] # mine[c],
         PairStatus \cap Asked(f) # {} => pairs'[mine[c]] = pairs[mine[c]]
  PROVE  Done(c, f)'
<1>1. TimesUnsure(c, "freeze_privacy_node")' = TimesUnsure(c, "freeze_privacy_node")
  BY DEF TimesUnsure
<1>2. "addPair" \in Asked(f) => \A d \in Clients \ {c} : mine'[d] # mine'[c]
  BY DEF Done
<1>3. \A s \in PairStatus \cap Asked(f) : (pairs[mine[c]])' = s
  BY DEF Done
<1>4. /\ \A s \in {"AUTHORIZED", "UNAUTHORIZED"} \cap Asked(f) : token'[c].status = s
      /\ "register" \in Asked(f) => token'[c].status # "UNDEFINED"
      /\ "freeze_privacy_node" \in Asked(f) => token'[c].status = "FROZEN"
      /\ "unfreeze_privacy_node" \in Asked(f) =>
           token'[c].status # "FROZEN" \/ TimesUnsure(c, "freeze_privacy_node") > 0
  BY DEF Done
<1>5. /\ "submit" \in Asked(f) => token'[c].public # "UNDEFINED"
      /\ "freeze_public_chain" \in Asked(f) => token'[c].public = "FROZEN"
      /\ "unfreeze_public_chain" \in Asked(f) => token'[c].public = "DEPLOYED"
  BY DEF Done
<1> QED  BY <1>1, <1>2, <1>3, <1>4, <1>5 DEF Done

\* A mined write touches the pair it names and no other.
LEMMA OtherPairs ==
  ASSUME TypeOK, NEW c \in Clients, NEW op \in Ops, NEW pair \in 0 .. Len(pairs),
         Apply(c, op, pair), NEW n \in 1 .. Len(pairs), op \in PairStatus => pair # n
  PROVE  pairs'[n] = pairs[n]
<1>1. pairs \in Seq(PairStatus) /\ Len(pairs) \in Nat
  BY DEF TypeOK
<1>2. CASE op = "addPair"
  <2>1. pairs' = Append(pairs, "PENDING")
    BY <1>2 DEF Apply, PairStatus
  <2> QED  BY <1>1, <2>1
<1>3. CASE op \in PairStatus
  <2>1. pairs' = [pairs EXCEPT ![pair] = op]
    BY <1>3 DEF Apply, PairStatus
  <2> QED  BY <1>1, <1>3, <2>1
<1>4. CASE op \notin PairStatus \cup {"addPair"}
  <2>1. op # "addPair" /\ op \notin PairStatus
    BY <1>4
  <2>2. pairs' = pairs
    BY <2>1 DEF Apply
  <2> QED  BY <2>2
<1> QED  BY <1>2, <1>3, <1>4

\* A client that has returned keeps what its last flow has done: the others have
\* pairs of their own, and what is still to be mined for it is harmless.
LEMMA StaysDoneStep ==
  ASSUME NEW Plan, Composed(Plan), PairInv, NEW c \in Clients, outcome[c] = "returned",
         NEW i \in DOMAIN Script[c], flow[c] = i, Done(c, Script[c][i]), Next
  PROVE  Done(c, Script[c][i])'
<1> DEFINE f == Script[c][i]
<1>1. TypeOK /\ OwnPair(c) /\ LateHarmless(c) /\ LatePair(c) /\ Given(c)
  BY DEF PairInv
<1>2. /\ token \in [Clients -> Tokens] /\ pairs \in Seq(PairStatus) /\ Len(pairs) \in Nat
      /\ mine \in [Clients -> 0 .. Len(pairs)]
  BY <1>1 DEF TypeOK, Tokens
<1>3. PairStatus \cap Asked(f) # {} => mine[c] \in 1 .. Len(pairs)
  BY <1>1, <1>2, PairGiven
<1> HIDE DEF f
<1>4. Done(c, f)
  BY DEF f
<1>5. ASSUME NEW d \in Clients, ClientStep(d)
      PROVE  Done(c, f)'
  <2>1. d # c
    <3>1. outcome[d] = "running"
      BY <1>1, <1>5, Moves
    <3> QED  BY <3>1
  <2>2. token'[c] = token[c] /\ unsure'[c] = unsure[c] /\ mine'[c] = mine[c]
    BY <1>1, <1>5, <2>1, OthersKeep, OthersKeepWrites
  <2>3. \A e \in Clients \ {c} : mine'[e] = mine[e] \/ mine'[e] # mine[c]
    <3>1. mine' = mine \/ mine' = [mine EXCEPT ![d] = Len(pairs) + 1]
      BY <1>1, <1>5, PairsStep
    <3>2. Len(pairs) + 1 # mine[c]
      BY <1>2
    <3> QED  BY <1>2, <3>1, <3>2
  <2>4. PairStatus \cap Asked(f) # {} => pairs'[mine[c]] = pairs[mine[c]]
    <3>1. CASE pairs' = pairs
      BY <3>1
    <3>2. CASE WriteDone(d) \/ FailsAfterWrite(d)
      <4>1. At(d, "write") /\ Apply(d, Step(d).on, mine[d])
        BY <3>2 DEF WriteDone, FailsAfterWrite
      <4>2. Step(d).on \in Ops /\ mine[d] \in 0 .. Len(pairs)
        BY <1>1, <1>2, <4>1, ClientAt
      <4>3. mine[c] # 0 => mine[d] # mine[c]
        BY <1>1, <2>1 DEF OwnPair
      <4>4. ASSUME mine[c] \in 1 .. Len(pairs) PROVE pairs'[mine[c]] = pairs[mine[c]]
        BY <1>1, <1>2, <4>1, <4>2, <4>3, <4>4, OtherPairs
      <4> QED  BY <1>3, <4>4
    <3> QED  BY <1>5, <3>1, <3>2 DEF ClientStep, FailsBeforeWrite, TimesOut, IsRefused, PollSees,
                    PollMisses, PollFails, backendVars
  <2> QED  BY <1>4, <2>2, <2>3, <2>4, DoneKept
<1>6. ASSUME NEW d \in Clients, LateWrite(d)
      PROVE  Done(c, f)'
  <2>1. mine' = mine /\ unsure' = unsure
    BY <1>6 DEF LateWrite
  <2>2. CASE UNCHANGED <<token, pairs>>
    BY <1>4, <2>1, <2>2, DoneKept
  <2>3. CASE ~UNCHANGED <<token, pairs>>
    <3>1. PICK j \in late[d] : Apply(d, unsure[d][j].op, unsure[d][j].pair)
      BY <1>6, <2>3 DEF LateWrite
    <3> DEFINE op == unsure[d][j].op
               pair == unsure[d][j].pair
    <3>2. op \in Ops /\ pair \in 0 .. Len(pairs)
      <4>1. unsure \in [Clients -> Seq(Late(Len(pairs)))] /\ j \in DOMAIN unsure[d]
        BY <1>1, <3>1 DEF TypeOK, Late
      <4>2. unsure[d][j] \in Late(Len(pairs))
        BY <4>1
      <4> QED  BY <4>2 DEF Late
    <3>3. d = c => op \in {"addPair", "teleport"}
      BY <1>1, <3>1 DEF LateHarmless
    <3>4. op \in PairStatus /\ mine[c] # 0 => pair # mine[c]
      <4>1. CASE d = c
        BY <3>3, <4>1 DEF PairStatus
      <4>2. CASE d # c
        BY <1>1, <3>1, <4>2 DEF PairInv, LatePair, OwnPair
      <4> QED  BY <4>1, <4>2
    <3>5. Apply(d, op, pair)
      BY <3>1
    <3> HIDE DEF op, pair
    <3>6. PairStatus \cap Asked(f) # {} => pairs'[mine[c]] = pairs[mine[c]]
      <4>1. ASSUME mine[c] \in 1 .. Len(pairs) PROVE pairs'[mine[c]] = pairs[mine[c]]
        BY <1>1, <1>2, <3>2, <3>4, <3>5, <4>1, OtherPairs
      <4> QED  BY <1>3, <4>1
    <3>7. token'[c].status = token[c].status /\ token'[c].public = token[c].public
      <4>1. CASE d = c
        <5>1. token'[c] = After(op, token[c])
          BY <1>2, <3>5, <4>1 DEF Apply
        <5> QED  BY <1>2, <3>3, <4>1, <5>1 DEF After, Tokens
      <4>2. CASE d # c
        BY <1>2, <3>5, <4>2 DEF Apply
      <4> QED  BY <4>1, <4>2
    <3> QED  BY <1>4, <2>1, <3>6, <3>7, DoneKept
  <2> QED  BY <2>2, <2>3
<1>7. ASSUME NEW d \in Clients, Deploy(d)
      PROVE  Done(c, f)'
  <2>1. /\ mine' = mine /\ unsure' = unsure /\ pairs' = pairs
        /\ token[d].public = "PENDING_DEPLOYMENT"
        /\ token' = [token EXCEPT ![d] = [token[d] EXCEPT !.public = "DEPLOYED"]]
    BY <1>7 DEF Deploy
  <2>2. /\ token'[c].status = token[c].status
        /\ token'[c].public = token[c].public
             \/ (token[c].public = "PENDING_DEPLOYMENT" /\ token'[c].public = "DEPLOYED")
    BY <1>2, <2>1 DEF Tokens
  <2> QED  BY <1>4, <2>1, <2>2, DoneKept
<1>8. Done(c, f)'
  BY <1>5, <1>6, <1>7 DEF Next
<1> QED  BY <1>8 DEF f

\* A step of the node: a write mined late, or the deployment.
LEMMA NodeStep ==
  ASSUME NEW Plan, PairInv, NEW d \in Clients, LateWrite(d) \/ Deploy(d), NEW c \in Clients,
         Thawed(Plan, c)
  PROVE  OwnPair(c)' /\ LateHarmless(c)' /\ LatePair(c)' /\ Given(c)' /\ Thawed(Plan, c)'
<1>1. /\ TypeOK /\ OwnPair(c) /\ LateHarmless(c) /\ LatePair(c) /\ Given(c)
      /\ token \in [Clients -> Tokens] /\ late \in [Clients -> SUBSET Nat]
  BY DEF PairInv, TypeOK, Tokens
<1>2. UNCHANGED <<flow, step, outcome, mine, unsure>>
  BY DEF LateWrite, Deploy, clientVars
<1>3. late'[c] \subseteq late[c]
  <2>1. late' = late \/ \E i : late' = [late EXCEPT ![d] = late[d] \ {i}]
    BY DEF LateWrite, Deploy
  <2> QED  BY <1>1, <2>1
<1>4. OwnPair(c)' /\ Given(c)'
  BY <1>1, <1>2 DEF OwnPair, Given, PassedAt
<1>5. LateHarmless(c)' /\ LatePair(c)'
  BY <1>1, <1>2, <1>3 DEF LateHarmless, LatePair
<1> DEFINE p == Plan[c][flow[c]][step[c]]
           r == outcome[c] = "running"
<1>6. ASSUME NoFreezeLost(c)
      PROVE  Cool(token'[c], r, p)
  <2>1. Cool(token[c], r, p)
    BY <1>6 DEF Thawed, Cool
  <2> HIDE DEF p
  <2>2. CASE token'[c] = token[c]
    BY <2>1, <2>2
  <2>3. CASE Deploy(d)
    <3>1. token' = [token EXCEPT ![d] = [token[d] EXCEPT !.public = "DEPLOYED"]]
      BY <2>3 DEF Deploy
    <3>2. token'[c].saved = token[c].saved /\ token'[c].status = token[c].status
      BY <1>1, <3>1 DEF Tokens
    <3> QED  BY <2>1, <3>2 DEF Cool
  <2>4. CASE LateWrite(d) /\ token'[c] # token[c]
    <3>1. PICK j \in late[d] : Apply(d, unsure[d][j].op, unsure[d][j].pair)
      BY <2>4 DEF LateWrite
    <3>2. d = c
      BY <1>1, <2>4, <3>1 DEF Apply
    <3> DEFINE op == unsure[c][j].op
    <3>3. op \in Ops /\ op # "freeze_privacy_node"
      <4>1. unsure \in [Clients -> Seq(Late(Len(pairs)))] /\ j \in DOMAIN unsure[c]
        BY <1>1, <3>1, <3>2 DEF TypeOK, Late
      <4>2. unsure[c][j] \in Late(Len(pairs))
        BY <4>1
      <4> QED  BY <1>6, <4>1, <4>2 DEF Late, NoFreezeLost
    <3>4. token'[c] = After(op, token[c])
      BY <1>1, <3>1, <3>2 DEF Apply
    <3> HIDE DEF op
    <3>5. token[c] \in Tokens /\ r \in BOOLEAN
      BY <1>1
    <3> HIDE DEF r
    <3>6. Cool(After(op, token[c]), r, p)
      BY <2>1, <3>3, <3>5, CoolStill
    <3> QED  BY <3>4, <3>6
  <2> QED  BY <2>2, <2>3, <2>4
<1>7. Thawed(Plan, c)'
  BY <1>2, <1>6 DEF Thawed, Cool, NoFreezeLost
<1> QED  BY <1>4, <1>5, <1>7

\* The others' share of a client's step.
LEMMA OthersThawed ==
  ASSUME NEW Plan, PairInv, NEW c \in Clients, ClientStep(c), NEW d \in Clients \ {c},
         Thawed(Plan, d)
  PROVE  LateHarmless(d)' /\ LatePair(d)' /\ Given(d)' /\ Thawed(Plan, d)'
<1>1. TypeOK /\ LateHarmless(d) /\ LatePair(d) /\ Given(d)
  BY DEF PairInv
<1>2. /\ flow'[d] = flow[d] /\ step'[d] = step[d] /\ outcome'[d] = outcome[d]
      /\ token'[d] = token[d] /\ unsure'[d] = unsure[d]
      /\ late'[d] = late[d] /\ mine'[d] = mine[d]
  BY <1>1, OthersKeep, OthersKeepWrites
<1>3. Given(d)' /\ LateHarmless(d)' /\ LatePair(d)'
  BY <1>1, <1>2 DEF Given, PassedAt, LateHarmless, LatePair
<1>4. Thawed(Plan, d)'
  BY <1>2 DEF Thawed, NoFreezeLost
<1> QED  BY <1>3, <1>4

PlanInv(Plan) ==
  PairInv /\ \A c \in Clients : Thawed(Plan, c) /\ StaysDone(c)

LEMMA PlanStep ==
  ASSUME NEW Plan, InOrder(Plan), Composed(Plan), PlanInv(Plan), Next
  PROVE  /\ PlanInv(Plan)'
         /\ \A c \in Clients : \A i \in DOMAIN Script[c] :
              flow[c] = i /\ (flow'[c] # i \/ outcome'[c] = "returned") => Done(c, Script[c][i])'
<1>1. /\ TypeOK /\ TypeOK' /\ PairInv
      /\ \A c \in Clients : Thawed(Plan, c) /\ StaysDone(c) /\ LateHarmless(c) /\ OwnPair(c) /\ Given(c)
  BY TypeNext DEF PlanInv, PairInv
<1>2. ASSUME NEW c \in Clients
      PROVE  OwnPair(c)' /\ LateHarmless(c)' /\ LatePair(c)' /\ Given(c)' /\ Thawed(Plan, c)'
  <2>1. ASSUME NEW d \in Clients, ClientStep(d)
        PROVE  OwnPair(c)' /\ LateHarmless(c)' /\ LatePair(c)' /\ Given(c)' /\ Thawed(Plan, c)'
    <3>1. OwnPair(c)'
      BY <1>1, <2>1, OwnPairStep
    <3>2. CASE d = c
      BY <1>1, <2>1, <3>1, <3>2, LateStep, GivenStep, ThawedStep
    <3>3. CASE d # c
      BY <1>1, <2>1, <3>1, <3>3, OthersThawed
    <3> QED  BY <3>2, <3>3
  <2>2. ASSUME NEW d \in Clients, LateWrite(d) \/ Deploy(d)
        PROVE  OwnPair(c)' /\ LateHarmless(c)' /\ LatePair(c)' /\ Given(c)' /\ Thawed(Plan, c)'
    BY <1>1, <2>2, NodeStep
  <2> QED  BY <2>1, <2>2 DEF Next
<1>3. ASSUME NEW c \in Clients, NEW i \in DOMAIN Script[c], flow[c] = i,
             flow'[c] # i \/ outcome'[c] = "returned"
      PROVE  Done(c, Script[c][i])'
  <2>1. CASE outcome[c] = "returned"
    BY <1>1, <1>3, <2>1, StaysDoneStep DEF StaysDone
  <2>2. CASE outcome[c] # "returned"
    <3>1. ClientStep(c)
      <4>1. ASSUME NEW d \in Clients, ClientStep(d) PROVE d = c
        <5>1. d # c => flow'[c] = flow[c] /\ outcome'[c] = outcome[c]
          BY <1>1, <4>1, OthersKeep
        <5> QED  BY <1>3, <2>2, <5>1
      <4>2. ASSUME NEW d \in Clients, LateWrite(d) \/ Deploy(d) PROVE FALSE
        BY <1>3, <2>2, <4>2 DEF LateWrite, Deploy, clientVars
      <4> QED  BY <4>1, <4>2 DEF Next
    <3> QED  BY <1>1, <1>2, <1>3, <3>1, FlowEnds
  <2> QED  BY <2>1, <2>2
<1>4. ASSUME NEW c \in Clients PROVE StaysDone(c)'
  <2> SUFFICES ASSUME outcome'[c] = "returned" PROVE Done(c, Script[c][flow[c]])'
    BY DEF StaysDone
  <2>1. PICK i \in DOMAIN Script[c] : flow[c] = i
    BY <1>1 DEF TypeOK
  <2>2. Done(c, Script[c][i])'
    BY <1>3, <2>1
  <2>3. flow'[c] = i
    <3>1. CASE \E d \in Clients : LateWrite(d) \/ Deploy(d)
      BY <2>1, <3>1 DEF LateWrite, Deploy, clientVars
    <3>2. ASSUME NEW d \in Clients, ClientStep(d), d # c PROVE flow'[c] = i
      BY <1>1, <2>1, <3>2, OthersKeep
    <3>3. CASE ClientStep(c)
      BY <1>1, <2>1, <3>3, FlowPassed
    <3> QED  BY <3>1, <3>2, <3>3 DEF Next
  <2> QED  BY <2>2, <2>3
<1> QED  BY <1>1, <1>2, <1>3, <1>4 DEF PlanInv, PairInv

\* A flow that returns has done what it was asked, and a client that has finished
\* its script keeps it: however many attempts and stale lists the flow took,
\* whatever is mined late and whatever the other clients of the node write, for
\* scripts made of the flows in an order the registry takes. An unfreeze thaws
\* unless the answer to a freeze was lost.
THEOREM ReturnedIsDone ==
  ASSUME NEW Plan, InOrder(Plan), Composed(Plan)
  PROVE  Spec => ReturnedMeansDone
<1>1. Init => PlanInv(Plan)
  <2> SUFFICES ASSUME Init, NEW c \in Clients
               PROVE  /\ OwnPair(c) /\ LateHarmless(c) /\ LatePair(c) /\ Given(c)
                      /\ Thawed(Plan, c) /\ StaysDone(c)
    BY TypeInit DEF PlanInv, PairInv
  <2>1. /\ flow[c] = 1 /\ step[c] = 1 /\ outcome[c] = "running" /\ mine[c] = 0 /\ late[c] = {}
        /\ token[c] = NewToken /\ Plan[c][1][1] = NewToken
    BY DEF Init, InOrder
  <2>2. OwnPair(c) /\ LateHarmless(c) /\ LatePair(c) /\ StaysDone(c)
    BY <2>1 DEF OwnPair, LateHarmless, LatePair, StaysDone
  <2>3. Given(c)
    <3>1. ASSUME NEW k \in DOMAIN Script[c], NEW j \in DOMAIN Script[c][k]
          PROVE  ~PassedAt(c, k, j)
      <4>1. k \in Nat /\ k >= 1 /\ j \in Nat /\ j >= 1
        BY StepAt
      <4> QED  BY <2>1, <4>1 DEF PassedAt
    <3> QED  BY <3>1 DEF Given
  <2>4. Thawed(Plan, c)
    <3>1. NewToken \in Tokens /\ NewToken.saved = "UNDEFINED" /\ NewToken.status = "UNDEFINED"
      BY DEF NewToken, Tokens, TokenStatus, PublicChainStatus
    <3> QED  BY <2>1, <3>1 DEF Thawed
  <2> QED  BY <2>2, <2>3, <2>4
<1>2. PlanInv(Plan) /\ [Next]_vars => PlanInv(Plan)'
  <2>1. ASSUME PlanInv(Plan), Next PROVE PlanInv(Plan)'
    BY <2>1, PlanStep
  <2>2. ASSUME PlanInv(Plan), UNCHANGED vars PROVE PlanInv(Plan)'
    <3>1. UNCHANGED <<flow, step, tries, outcome, token, pairs, mine, custody, late, unsure, faults>>
      BY <2>2 DEF vars, clientVars, backendVars
    <3>2. TypeOK'
      BY <2>2, TypeNext DEF PlanInv, PairInv
    <3>3. \A c \in Clients : OwnPair(c)' /\ LateHarmless(c)' /\ LatePair(c)' /\ Given(c)'
      BY <2>2, <3>1 DEF PlanInv, PairInv, OwnPair, LateHarmless, LatePair, Given, PassedAt
    <3>4. \A c \in Clients : Thawed(Plan, c)'
      BY <2>2, <3>1 DEF PlanInv, Thawed, NoFreezeLost
    <3>5. \A c \in Clients : \A f : Done(c, f)' <=> Done(c, f)
      BY <3>1 DEF Done, TimesUnsure
    <3>6. \A c \in Clients : StaysDone(c)'
      <4> SUFFICES ASSUME NEW c \in Clients, outcome'[c] = "returned"
                   PROVE  Done(c, Script[c][flow[c]])'
        BY DEF StaysDone
      <4>1. PICK f : f = Script[c][flow[c]]
        OBVIOUS
      <4>2. Done(c, f)
        BY <2>2, <3>1, <4>1 DEF PlanInv, StaysDone
      <4>3. Done(c, f)'
        BY <3>5, <4>2
      <4>4. f = Script[c][flow'[c]]
        BY <3>1, <4>1
      <4> QED  BY <4>3, <4>4
    <3> QED  BY <3>2, <3>3, <3>4, <3>6 DEF PlanInv, PairInv
  <2> QED  BY <2>1, <2>2
<1>3. PlanInv(Plan) /\ [Next]_vars =>
        [\A c \in Clients : \A i \in DOMAIN Script[c] :
           flow[c] = i /\ (flow'[c] # i \/ outcome'[c] = "returned") => Done(c, Script[c][i])']_vars
  BY PlanStep
<1> QED  BY <1>1, <1>2, <1>3, PTL DEF Spec, ReturnedMeansDone

================================================================================
