-------------------------- MODULE BatchSendProofs --------------------------
(***************************************************************************)
(* Racing batches leave no hole in the signer's nonces, for any number of  *)
(* workers, any batch and any chunk size.                                  *)
(***************************************************************************)
EXTENDS BatchSendProps, FiniteSetTheorems, TLAPS

\* The nonces below the one an attempt sends next are taken: by the attempt, or
\* by the worker it lost them to.
BelowTaken ==
  \A c \in Calls : pc[c] = "send" => \A m \in 0 .. base[c] + sent[c] - 1 : m \in Taken

Types ==
  /\ base \in [Calls -> Nat] /\ sent \in [Calls -> Nat]
  /\ pc \in [Calls -> {"nonce", "send", "returned", "threw"}]

Full == Types /\ Contiguous /\ BelowTaken
IInv == Types /\ (~refused => Contiguous /\ BelowTaken)

\* Nothing is taken yet.
LEMMA IInvInit ==
  ASSUME Init
  PROVE  IInv
BY DEF Init, IInv, Types, Contiguous, BelowTaken, Taken

\* A step that keeps accepted, and moves no call past an untaken nonce.
LEMMA QuietStep ==
  ASSUME Full, Types', UNCHANGED accepted,
         \A d \in Calls : pc'[d] = "send" =>
           \A m \in 0 .. base'[d] + sent'[d] - 1 : m \in Taken
  PROVE  Full'
<1>1. Taken' = Taken
  BY DEF Taken
<1> QED  BY <1>1 DEF Full, Contiguous, BelowTaken

\* The accepted nonce closes the prefix below it.
LEMMA AcceptStep ==
  ASSUME Full, NEW c \in Calls, Accept(c)
  PROVE  Full'
<1>1. Taken' = Taken \cup {base[c] + sent[c]}
  <2> DEFINE r == [nonce |-> base[c] + sent[c], call |-> c, attempt |-> attempt[c]]
  <2>1. accepted' = accepted \cup {r} /\ r.nonce = base[c] + sent[c]
    BY DEF Accept, Nonce
  <2> HIDE DEF r
  <2>2. Taken' = {q.nonce : q \in accepted \cup {r}}
    BY <2>1 DEF Taken
  <2> QED  BY <2>1, <2>2 DEF Taken
<1>2. /\ pc' = pc /\ base' = base /\ sent' = [sent EXCEPT ![c] = sent[c] + 1]
      /\ pc[c] = "send" /\ base[c] \in Nat /\ sent[c] \in Nat
  BY DEF Accept, Answered, ChunkOpen, Full, Types
<1>3. Types'
  BY <1>2 DEF Full, Types
<1>4. ASSUME NEW m \in 0 .. base[c] + sent[c]
      PROVE  m \in Taken'
  BY <1>1, <1>2, <1>4 DEF Full, BelowTaken
<1>5. Contiguous'
  BY <1>1, <1>4 DEF Full, Contiguous
<1>6. ASSUME NEW d \in Calls, pc'[d] = "send", NEW m \in 0 .. base'[d] + sent'[d] - 1
      PROVE  m \in Taken'
  <2>1. CASE d = c
    BY <1>2, <1>4, <1>6, <2>1 DEF Full, Types
  <2>2. CASE d # c
    BY <1>1, <1>2, <1>6, <2>2 DEF Full, Types, BelowTaken
  <2> QED  BY <2>1, <2>2
<1> QED  BY <1>3, <1>5, <1>6 DEF Full, BelowTaken

\* A nonce that is answered with a conflict is taken already.
LEMMA TakenStep ==
  ASSUME Full, NEW c \in Calls, NonceConflict(c) \/ AlreadyKnown(c)
  PROVE  Full'
<1>1. base[c] + sent[c] \in Taken
  BY DEF NonceConflict, AlreadyKnown, Own, Taken, Nonce
<1>2. /\ UNCHANGED <<pc, base, accepted>> /\ sent' = [sent EXCEPT ![c] = sent[c] + 1]
      /\ pc[c] = "send" /\ base[c] \in Nat /\ sent[c] \in Nat
  BY DEF NonceConflict, AlreadyKnown, Answered, ChunkOpen, Full, Types
<1>3. Types'
  BY <1>2 DEF Full, Types
<1>4. ASSUME NEW d \in Calls, pc'[d] = "send", NEW m \in 0 .. base'[d] + sent'[d] - 1
      PROVE  m \in Taken
  <2>1. CASE d = c
    BY <1>1, <1>2, <1>4, <2>1 DEF Full, Types, BelowTaken
  <2>2. CASE d # c
    BY <1>2, <1>4, <2>2 DEF Full, Types, BelowTaken
  <2> QED  BY <2>1, <2>2
<1> QED  BY <1>2, <1>3, <1>4, QuietStep

\* The other steps of a call: it reads the pending nonce, or stops sending.
LEMMA OtherStep ==
  ASSUME Full, NEW c \in Calls,
         ReadNonce(c) \/ StartsOver(c) \/ GivesUp(c) \/ HttpFails(c) \/ AllSent(c)
  PROVE  Full'
<1>1. CASE ReadNonce(c)
  <2>1. PICK n \in 0 .. Cardinality(accepted) :
          PendingNonce(n) /\ base' = [base EXCEPT ![c] = n]
    BY <1>1 DEF ReadNonce
  <2>2. /\ n \in Nat /\ sent' = [sent EXCEPT ![c] = 0] /\ pc' = [pc EXCEPT ![c] = "send"]
        /\ UNCHANGED accepted
    BY <1>1, <2>1 DEF ReadNonce
  <2>3. Types'
    BY <2>1, <2>2 DEF Full, Types
  <2>4. ASSUME NEW d \in Calls, pc'[d] = "send", NEW m \in 0 .. base'[d] + sent'[d] - 1
        PROVE  m \in Taken
    <3>1. CASE d = c
      BY <2>1, <2>2, <2>4, <3>1 DEF Full, Types, PendingNonce
    <3>2. CASE d # c
      BY <2>1, <2>2, <2>4, <3>2 DEF Full, Types, BelowTaken
    <3> QED  BY <3>1, <3>2
  <2> QED  BY <2>2, <2>3, <2>4, QuietStep
<1>2. CASE StartsOver(c) \/ GivesUp(c) \/ HttpFails(c) \/ AllSent(c)
  <2>1. /\ UNCHANGED <<base, sent, accepted>>
        /\ \E p \in {"nonce", "threw", "returned"} : pc' = [pc EXCEPT ![c] = p]
    BY <1>2 DEF StartsOver, GivesUp, HttpFails, AllSent
  <2>2. Types'
    BY <2>1 DEF Full, Types
  <2>3. ASSUME NEW d \in Calls, pc'[d] = "send"
        PROVE  pc[d] = "send"
    BY <2>1, <2>3 DEF Full, Types
  <2> QED  BY <2>1, <2>2, <2>3, QuietStep DEF Full, BelowTaken
<1> QED  BY <1>1, <1>2

\* Every step keeps the types, and a refusal is not forgotten.
LEMMA TypesStep ==
  ASSUME Types, NEW c \in Calls, Step(c)
  PROVE  Types' /\ (refused => refused')
<1>1. CASE ReadNonce(c)
  <2>1. PICK n \in 0 .. Cardinality(accepted) : base' = [base EXCEPT ![c] = n]
    BY <1>1 DEF ReadNonce
  <2> QED  BY <1>1, <2>1 DEF ReadNonce, Types
<1>2. CASE Item(c)
  BY <1>2 DEF Item, Accept, NonceConflict, AlreadyKnown, Refused, Answered, Types
<1>3. CASE StartsOver(c) \/ GivesUp(c) \/ HttpFails(c) \/ AllSent(c)
  BY <1>3 DEF StartsOver, GivesUp, HttpFails, AllSent, Types
<1> QED  BY <1>1, <1>2, <1>3 DEF Step

\* The nonces of racing batches never have a hole, for any number of workers,
\* any batches and any chunk size, unless the node has refused a transaction
\* for another reason than its nonce.
THEOREM NoncesStayContiguous == Spec => []NoNonceGap
<1>1. Init => IInv
  BY IInvInit
<1>2. IInv /\ [Next]_vars => IInv'
  <2> SUFFICES ASSUME IInv, [Next]_vars PROVE IInv'
    OBVIOUS
  <2>1. CASE UNCHANGED vars
    BY <2>1 DEF vars, IInv, Types, Contiguous, BelowTaken, Taken
  <2>2. CASE Next
    <3>1. PICK c \in Calls : Step(c)
      BY <2>2 DEF Next
    <3>2. Types' /\ (refused => refused')
      BY <3>1, TypesStep DEF IInv
    <3>3. CASE refused'
      BY <3>2, <3>3 DEF IInv
    <3>4. CASE ~refused'
      <4>1. Full /\ ~Refused(c)
        BY <3>2, <3>4 DEF IInv, Full, Refused
      <4>2. Full'
        BY <3>1, <4>1, AcceptStep, TakenStep, OtherStep DEF Step, Item
      <4> QED  BY <4>2 DEF IInv, Full
    <3> QED  BY <3>3, <3>4
  <2> QED  BY <2>1, <2>2
<1>3. IInv => NoNonceGap
  BY DEF IInv, NoNonceGap
<1> QED  BY <1>1, <1>2, <1>3, PTL DEF Spec

\* Every variable of the batches has its type, whatever the node answers.
THEOREM TypeCorrect == Spec => []TypeOK
<1>1. Init => TypeOK
  <2> SUFFICES ASSUME Init PROVE TypeOK
    OBVIOUS
  <2>1. attempt \in [Calls -> 1 .. MaxAttempts]
    BY BudgetAssumption DEF Init
  <2>2. accepted = {} /\ refused \in BOOLEAN /\ conflict \in [Calls -> BOOLEAN]
    BY Zenon DEF Init
  <2>3. /\ pc \in [Calls -> {"nonce", "send", "returned", "threw"}]
        /\ base \in [Calls -> Nat] /\ sent \in [Calls -> Nat]
    BY DEF Init
  <2> QED  BY <2>1, <2>2, <2>3 DEF TypeOK
<1>2. TypeOK /\ [Next]_vars => TypeOK'
  <2> SUFFICES ASSUME TypeOK, [Next]_vars PROVE TypeOK'
    OBVIOUS
  <2>1. CASE UNCHANGED vars
    BY <2>1 DEF vars, TypeOK
  <2>2. ASSUME NEW c \in Calls, ReadNonce(c)
        PROVE  TypeOK'
    <3>1. PICK n \in 0 .. Cardinality(accepted) : base' = [base EXCEPT ![c] = n]
      BY <2>2 DEF ReadNonce
    <3> QED  BY <2>2, <3>1 DEF ReadNonce, TypeOK
  <2>3. ASSUME NEW c \in Calls, Accept(c)
        PROVE  TypeOK'
    <3>1. [nonce |-> Nonce(c), call |-> c, attempt |-> attempt[c]]
            \in [nonce : Nat, call : Calls, attempt : 1 .. MaxAttempts]
      BY DEF TypeOK, Nonce
    <3> QED  BY <2>3, <3>1 DEF Accept, Answered, TypeOK
  <2>4. ASSUME NEW c \in Calls, NonceConflict(c)
        PROVE  TypeOK'
    <3>1. PICK mined \in BOOLEAN : conflict' = [conflict EXCEPT ![c] = @ \/ HasNonceError(mined)]
      BY <2>4 DEF NonceConflict
    <3>2. conflict' = [conflict EXCEPT ![c] = TRUE]
      BY <3>1, Zenon DEF HasNonceError
    <3> QED  BY <2>4, <3>2 DEF NonceConflict, Answered, TypeOK
  <2>5. ASSUME NEW c \in Calls, AlreadyKnown(c) \/ Refused(c)
        PROVE  TypeOK'
    <3>1. sent' \in [Calls -> Nat] /\ UNCHANGED <<pc, attempt, base, conflict, accepted>>
      BY <2>5 DEF AlreadyKnown, Refused, Answered, TypeOK
    <3>2. refused' \in BOOLEAN
      BY <2>5, Zenon DEF AlreadyKnown, Refused, TypeOK
    <3> QED  BY <3>1, <3>2 DEF TypeOK
  <2>6. ASSUME NEW c \in Calls, StartsOver(c) \/ HttpFails(c)
        PROVE  TypeOK'
    <3>1. MayRetry(c) => attempt[c] + 1 \in 1 .. MaxAttempts
      BY BudgetAssumption DEF TypeOK, MayRetry
    <3> QED  BY <2>6, <3>1 DEF StartsOver, HttpFails, TypeOK
  <2>7. ASSUME NEW c \in Calls, GivesUp(c) \/ AllSent(c)
        PROVE  TypeOK'
    BY <2>7 DEF GivesUp, AllSent, TypeOK
  <2> QED  BY <2>1, <2>2, <2>3, <2>4, <2>5, <2>6, <2>7 DEF Next, Step, Item
<1> QED  BY <1>1, <1>2, PTL DEF Spec

(***************************************************************************)
(* What a call has in the node, record by record.                          *)
(***************************************************************************)
Sending(c) == pc[c] \in {"send", "returned"}
Sent(c)    == base[c] .. base[c] + sent[c] - 1
Rec(c, n)  == [nonce |-> n, call |-> c, attempt |-> attempt[c]]

\* No transaction is of an attempt to come; those of the attempt under way have
\* the nonces it sent, those of earlier attempts have lower ones; and while there
\* is no conflict the node has every one sent.
RecordsOf(c) ==
  /\ \A r \in Own(c) : r.attempt <= attempt[c]
  /\ pc[c] = "nonce" => \A r \in Own(c) : r.attempt # attempt[c]
  /\ Sending(c) => \A r \in Own(c) :
       IF r.attempt = attempt[c] THEN r.nonce \in Sent(c) ELSE r.nonce < base[c]
  /\ Sending(c) /\ ~conflict[c] => \A n \in Sent(c) : Rec(c, n) \in accepted
  /\ pc[c] = "returned" => sent[c] = Count[c] /\ ~conflict[c]

RecordsInv == ~refused => \A c \in Calls : RecordsOf(c)

\* A call a step does not touch keeps its records.
LEMMA OthersRecords ==
  ASSUME NEW d \in Calls, RecordsOf(d), Own(d)' = Own(d),
         pc'[d] = pc[d], attempt'[d] = attempt[d], base'[d] = base[d],
         sent'[d] = sent[d], conflict'[d] = conflict[d], accepted \subseteq accepted'
  PROVE  RecordsOf(d)'
BY DEF RecordsOf, Sending, Sent, Rec

\* The pending nonce is above every transaction of the earlier attempts.
LEMMA RecordsRead ==
  ASSUME TypeOK, Contiguous, NEW c \in Calls, RecordsOf(c), ReadNonce(c)
  PROVE  RecordsOf(c)'
<1>1. PICK n \in 0 .. Cardinality(accepted) :
        PendingNonce(n) /\ base' = [base EXCEPT ![c] = n]
  BY DEF ReadNonce
<1>2. /\ n \in Nat /\ base'[c] = n /\ sent'[c] = 0 /\ pc[c] = "nonce" /\ pc'[c] = "send"
      /\ UNCHANGED <<attempt, accepted>> /\ Own(c)' = Own(c)
  BY <1>1 DEF ReadNonce, TypeOK, Own
<1>3. ASSUME NEW r \in Own(c)
      PROVE  r.nonce < n /\ r.attempt # attempt[c]
  <2>1. r.nonce \in Taken /\ r.nonce \in Nat
    BY DEF Own, Taken, TypeOK
  <2>2. n \notin Taken
    BY <1>1 DEF PendingNonce
  <2> QED  BY <1>2, <2>1, <2>2 DEF Contiguous, RecordsOf
<1> QED  BY <1>2, <1>3 DEF RecordsOf, Sending, Sent

\* An accepted transaction is the next of its attempt.
LEMMA RecordsAccept ==
  ASSUME TypeOK, NEW c \in Calls, RecordsOf(c), Accept(c)
  PROVE  RecordsOf(c)'
<1> DEFINE q == Rec(c, Nonce(c))
<1>1. /\ UNCHANGED <<pc, attempt, base, conflict>> /\ sent'[c] = sent[c] + 1
      /\ pc[c] = "send" /\ base[c] \in Nat /\ sent[c] \in Nat /\ attempt[c] \in Nat
  BY BudgetAssumption DEF Accept, Answered, ChunkOpen, TypeOK
<1>2. accepted' = accepted \cup {q} /\ Own(c)' = Own(c) \cup {q}
  BY DEF Accept, Rec, Own
<1>3. q.nonce = base[c] + sent[c] /\ q.attempt = attempt[c]
  BY DEF Rec, Nonce
<1>4. Sent(c)' = Sent(c) \cup {base[c] + sent[c]}
  BY <1>1 DEF Sent
<1>5. ASSUME NEW r \in Own(c)'
      PROVE  /\ r.attempt <= attempt[c]
             /\ IF r.attempt = attempt[c] THEN r.nonce \in Sent(c)' ELSE r.nonce < base[c]
  BY <1>1, <1>2, <1>3, <1>4 DEF RecordsOf, Sending
<1>6. ASSUME ~conflict[c], NEW n \in Sent(c)'
      PROVE  Rec(c, n) \in accepted'
  BY <1>1, <1>2, <1>4, <1>6 DEF RecordsOf, Sending, Nonce
<1> QED  BY <1>1, <1>5, <1>6 DEF RecordsOf, Sending, Rec

\* A nonce conflict is noticed; and while the node refuses nothing, it never has
\* the very transaction of an earlier attempt.
LEMMA RecordsRejected ==
  ASSUME TypeOK, NEW c \in Calls, RecordsOf(c), NonceConflict(c) \/ AlreadyKnown(c)
  PROVE  RecordsOf(c)'
<1>1. /\ UNCHANGED <<pc, attempt, base, accepted>> /\ sent'[c] = sent[c] + 1
      /\ pc[c] = "send" /\ base[c] \in Nat /\ sent[c] \in Nat
      /\ Own(c)' = Own(c)
  BY DEF NonceConflict, AlreadyKnown, Answered, ChunkOpen, TypeOK, Own
<1>2. ~AlreadyKnown(c)
  BY <1>1 DEF AlreadyKnown, RecordsOf, Sending, Sent, Nonce
<1>3. PICK mined \in BOOLEAN :
        conflict' = [conflict EXCEPT ![c] = @ \/ HasNonceError(mined)]
  BY <1>2 DEF NonceConflict
<1>4. conflict'[c] = TRUE
  BY <1>3, Zenon DEF HasNonceError, TypeOK
<1>5. Sent(c) \subseteq Sent(c)'
  BY <1>1 DEF Sent
<1> QED  BY <1>1, <1>4, <1>5 DEF RecordsOf, Sending

\* A call that starts over, gives up or returns.
LEMMA RecordsEnd ==
  ASSUME TypeOK, NEW c \in Calls, RecordsOf(c),
         StartsOver(c) \/ GivesUp(c) \/ HttpFails(c) \/ AllSent(c)
  PROVE  RecordsOf(c)'
<1>1. /\ UNCHANGED <<base, sent, conflict, accepted>> /\ pc[c] = "send"
      /\ Own(c)' = Own(c) /\ attempt[c] \in Nat
      /\ \A r \in Own(c) : r.attempt \in Nat
  BY BudgetAssumption DEF StartsOver, GivesUp, HttpFails, AllSent, TypeOK, Own
<1>2. \/ pc'[c] = "nonce" /\ attempt'[c] = attempt[c] + 1
      \/ pc'[c] = "threw" /\ attempt'[c] = attempt[c]
      \/ pc'[c] = "returned" /\ attempt'[c] = attempt[c] /\ sent[c] = Count[c] /\ ~conflict[c]
  BY DEF StartsOver, GivesUp, HttpFails, AllSent, TypeOK
<1> QED  BY <1>1, <1>2 DEF RecordsOf, Sending, Sent, Rec

\* Every step keeps the records of every call.
LEMMA RecordsStep ==
  ASSUME TypeOK, NoNonceGap, RecordsInv, [Next]_vars
  PROVE  RecordsInv'
<1>1. CASE UNCHANGED vars
  BY <1>1 DEF vars, RecordsInv, RecordsOf, Sending, Sent, Rec, Own
<1>2. ASSUME NEW c \in Calls, Step(c)
      PROVE  RecordsInv'
  <2> SUFFICES ASSUME ~refused', NEW d \in Calls PROVE RecordsOf(d)'
    BY DEF RecordsInv
  <2>1. ~refused /\ ~Refused(c)
    BY <1>2, TypesStep DEF Refused, TypeOK, Types
  <2>2. RecordsOf(c) /\ RecordsOf(d) /\ Contiguous
    BY <2>1 DEF RecordsInv, NoNonceGap
  <2>3. CASE d = c
    BY <1>2, <2>1, <2>2, <2>3, RecordsRead, RecordsAccept, RecordsRejected, RecordsEnd
       DEF Step, Item
  <2>4. CASE d # c
    <3>1. /\ pc'[d] = pc[d] /\ attempt'[d] = attempt[d] /\ base'[d] = base[d]
          /\ sent'[d] = sent[d] /\ conflict'[d] = conflict[d]
      <4>1. CASE ReadNonce(c)
        <5>1. PICK n \in 0 .. Cardinality(accepted) : base' = [base EXCEPT ![c] = n]
          BY <4>1 DEF ReadNonce
        <5> QED  BY <2>4, <4>1, <5>1 DEF ReadNonce, TypeOK
      <4>2. CASE NonceConflict(c)
        <5>1. PICK mined \in BOOLEAN :
                conflict' = [conflict EXCEPT ![c] = @ \/ HasNonceError(mined)]
          BY <4>2 DEF NonceConflict
        <5>2. conflict'[d] = conflict[d]
          BY <2>4, <5>1, Zenon DEF TypeOK
        <5> QED  BY <2>4, <4>2, <5>2 DEF NonceConflict, Answered, TypeOK
      <4>3. CASE Accept(c) \/ AlreadyKnown(c)
        BY <2>4, <4>3 DEF Accept, AlreadyKnown, Answered, TypeOK
      <4>4. CASE StartsOver(c) \/ GivesUp(c) \/ HttpFails(c) \/ AllSent(c)
        BY <2>4, <4>4 DEF StartsOver, GivesUp, HttpFails, AllSent, TypeOK
      <4> QED  BY <1>2, <2>1, <4>1, <4>2, <4>3, <4>4 DEF Step, Item
    <3>2. Own(d)' = Own(d) /\ accepted \subseteq accepted'
      <4>1. CASE Accept(c)
        BY <2>4, <4>1 DEF Accept, Own
      <4>2. CASE ~Accept(c)
        BY <1>2, <4>2 DEF Step, Item, ReadNonce, NonceConflict, AlreadyKnown, Refused,
                          StartsOver, GivesUp, HttpFails, AllSent, Own
      <4> QED  BY <4>1, <4>2
    <3> QED  BY <2>2, <3>1, <3>2, OthersRecords
  <2> QED  BY <2>3, <2>4
<1> QED  BY <1>1, <1>2 DEF Next

\* An attempt has as many nonces as it sent transactions.
LEMMA SentSize ==
  ASSUME NEW a \in Nat, NEW k \in Nat
  PROVE  IsFiniteSet(a .. a + k - 1) /\ Cardinality(a .. a + k - 1) = k
<1>1. PICK b \in Int : b = a + k - 1
  OBVIOUS
<1>2. IsFiniteSet(a .. b) /\ Cardinality(a .. b) = IF a > b THEN 0 ELSE b - a + 1
  BY FS_Interval
<1> QED  BY <1>1, <1>2

\* As many transactions as the nonces they were sent with.
LEMMA RecordsCounted ==
  ASSUME TypeOK, RecordsInv
  PROVE  ReturnedMeansSent
<1> SUFFICES ASSUME ~refused, NEW c \in Calls, pc[c] = "returned"
             PROVE  Cardinality({r \in Own(c) : r.attempt = attempt[c]}) = Count[c]
  BY DEF ReturnedMeansSent
<1> DEFINE Last == {r \in Own(c) : r.attempt = attempt[c]}
           At == [n \in Sent(c) |-> Rec(c, n)]
<1>1. RecordsOf(c) /\ sent[c] = Count[c] /\ ~conflict[c] /\ Sending(c)
  BY DEF RecordsInv, RecordsOf, Sending
<1>2. base[c] \in Nat /\ Count[c] \in Nat
  BY CallsAssumption DEF TypeOK
<1>3. Sent(c) = base[c] .. base[c] + Count[c] - 1
  BY <1>1 DEF Sent
<1>4. IsFiniteSet(Sent(c)) /\ Cardinality(Sent(c)) = Count[c]
  BY <1>2, <1>3, SentSize
<1>5. ASSUME NEW n \in Sent(c)
      PROVE  Rec(c, n) \in Last
  BY <1>1, <1>5 DEF RecordsOf, Own, Rec
<1>6. ASSUME NEW r \in Last
      PROVE  r.nonce \in Sent(c) /\ r = Rec(c, r.nonce)
  <2>1. r.nonce \in Sent(c)
    BY <1>1, <1>6 DEF RecordsOf
  <2>2. r \in [nonce : Nat, call : Calls, attempt : 1 .. MaxAttempts] /\ r.call = c
    BY <1>6 DEF Own, TypeOK
  <2> QED  BY <1>6, <2>1, <2>2 DEF Rec
<1>7. At \in Bijection(Sent(c), Last)
  <2>1. At \in [Sent(c) -> Last]
    BY <1>5
  <2>2. \A m, n \in Sent(c) : At[m] = At[n] => m = n
    BY DEF Rec
  <2>3. \A r \in Last : \E n \in Sent(c) : At[n] = r
    BY <1>6
  <2> QED  BY <2>1, <2>2, <2>3 DEF Bijection, Injection, Surjection, IsInjective
<1>8. Cardinality(Last) = Cardinality(Sent(c))
  BY <1>4, <1>7, FS_Bijection DEF ExistsBijection
<1> QED  BY <1>4, <1>8

\* A call that returns had all transfers of its last attempt accepted, whatever
\* the other workers sent meanwhile, unless the node refused one.
THEOREM ReturnsWhatItSent == Spec => []ReturnedMeansSent
<1>1. Init => RecordsInv
  BY DEF Init, RecordsInv, RecordsOf, Sending, Own
<1>2. TypeOK /\ NoNonceGap /\ RecordsInv /\ [Next]_vars => RecordsInv'
  BY RecordsStep
<1>3. TypeOK /\ RecordsInv => ReturnedMeansSent
  BY RecordsCounted
<1> QED  BY <1>1, <1>2, <1>3, TypeCorrect, NoncesStayContiguous, PTL DEF Spec

(***************************************************************************)
(* How much a call sends too much.                                         *)
(***************************************************************************)
\* The attempt under way has sent as much as was answered, less the conflict.
ThisAttempt(c) ==
  IF pc[c] = "nonce" THEN 0 ELSE sent[c] - (IF conflict[c] THEN 1 ELSE 0)

SpentOf(c) ==
  /\ sent[c] <= Count[c]
  /\ Cardinality(Own(c)) <= (attempt[c] - 1) * (Count[c] - 1) + ThisAttempt(c)

SpentInv == IsFiniteSet(accepted) /\ \A c \in Calls : SpentOf(c)

LEMMA OwnFinite ==
  ASSUME IsFiniteSet(accepted), NEW c
  PROVE  IsFiniteSet(Own(c)) /\ Cardinality(Own(c)) \in Nat
<1>1. Own(c) \subseteq accepted
  BY DEF Own
<1>2. IsFiniteSet(Own(c))
  BY <1>1, FS_Subset
<1> QED  BY <1>2, FS_CardinalityType

\* One more transaction, and one more attempt, in numbers.
LEMMA OneMore ==
  ASSUME NEW S, IsFiniteSet(S), NEW x
  PROVE  /\ Cardinality(S \cup {x}) \in Nat
         /\ Cardinality(S \cup {x}) <= Cardinality(S) + 1
<1>1. Cardinality(S) \in Nat
  BY FS_CardinalityType
<1>2. Cardinality(S \cup {x}) = IF x \in S THEN Cardinality(S) ELSE Cardinality(S) + 1
  BY FS_AddElement
<1> QED  BY <1>1, <1>2

LEMMA AttemptCost ==
  ASSUME NEW a \in Nat, NEW b \in Nat, b = a + 1, NEW k \in Nat
  PROVE  (a - 1) * (k - 1) + (k - 1) = (b - 1) * (k - 1) + 0
<1>1. \A x, y \in Int : (x - 1) * y + y = x * y + 0
  BY SMT
<1>2. b - 1 = a /\ k - 1 \in Int
  OBVIOUS
<1> QED  BY <1>1, <1>2

\* The records a step adds to a call, and what the step leaves of the others.
LEMMA SpentStep ==
  ASSUME TypeOK, SpentInv, NEW c \in Calls, Step(c)
  PROVE  SpentInv'
<1>1. /\ sent[c] \in Nat /\ attempt[c] \in Nat \ {0} /\ Count[c] \in Nat \ {0}
      /\ conflict[c] \in BOOLEAN /\ SpentOf(c) /\ IsFiniteSet(Own(c))
      /\ Cardinality(Own(c)) \in Nat
  BY CallsAssumption, BudgetAssumption, OwnFinite DEF TypeOK, SpentInv
<1>2. /\ IsFiniteSet(accepted')
      /\ \A d \in Calls \ {c} :
           /\ Own(d)' = Own(d) /\ pc'[d] = pc[d] /\ attempt'[d] = attempt[d]
           /\ sent'[d] = sent[d] /\ conflict'[d] = conflict[d]
  <2>1. CASE Accept(c)
    <3>1. PICK r \in {Rec(c, Nonce(c))} : accepted' = accepted \cup {r} /\ r.call = c
      BY <2>1 DEF Accept, Rec
    <3>2. IsFiniteSet(accepted')
      BY <3>1, FS_AddElement DEF SpentInv
    <3> QED  BY <2>1, <3>1, <3>2 DEF Accept, Answered, TypeOK, Own
  <2>2. CASE NonceConflict(c)
    <3>1. PICK mined \in BOOLEAN :
            conflict' = [conflict EXCEPT ![c] = @ \/ HasNonceError(mined)]
      BY <2>2 DEF NonceConflict
    <3>2. \A d \in Calls \ {c} : conflict'[d] = conflict[d]
      BY <3>1, Zenon DEF TypeOK
    <3> QED  BY <2>2, <3>2 DEF NonceConflict, Answered, TypeOK, Own, SpentInv
  <2>3. CASE ReadNonce(c) \/ AlreadyKnown(c) \/ Refused(c)
    BY <2>3 DEF ReadNonce, AlreadyKnown, Refused, Answered, TypeOK, Own, SpentInv
  <2>4. CASE StartsOver(c) \/ GivesUp(c) \/ HttpFails(c) \/ AllSent(c)
    BY <2>4 DEF StartsOver, GivesUp, HttpFails, AllSent, TypeOK, Own, SpentInv
  <2> QED  BY <2>1, <2>2, <2>3, <2>4 DEF Step, Item
<1>3. SpentOf(c)'
  <2>1. CASE Accept(c)
    <3>1. PICK r \in {Rec(c, Nonce(c))} : accepted' = accepted \cup {r} /\ r.call = c
      BY <2>1 DEF Accept, Rec
    <3>2. Own(c)' = Own(c) \cup {r}
      BY <3>1 DEF Own
    <3>3. /\ Cardinality(Own(c) \cup {r}) \in Nat
          /\ Cardinality(Own(c) \cup {r}) <= Cardinality(Own(c)) + 1
      BY <1>1, OneMore
    <3>4. /\ sent'[c] = sent[c] + 1 /\ sent[c] < Count[c] /\ pc[c] = "send"
          /\ UNCHANGED <<pc, attempt, conflict>>
      BY <2>1 DEF Accept, Answered, ChunkOpen, TypeOK
    <3> QED  BY <1>1, <3>2, <3>3, <3>4 DEF SpentOf, ThisAttempt
  <2>2. CASE NonceConflict(c) \/ AlreadyKnown(c) \/ Refused(c)
    <3>1. /\ sent'[c] = sent[c] + 1 /\ sent[c] < Count[c] /\ pc[c] = "send"
          /\ UNCHANGED <<pc, attempt, accepted>> /\ Own(c)' = Own(c)
      BY <2>2 DEF NonceConflict, AlreadyKnown, Refused, Answered, ChunkOpen, TypeOK, Own
    <3> QED  BY <1>1, <3>1 DEF SpentOf, ThisAttempt
  <2>3. CASE ReadNonce(c)
    <3>1. /\ sent'[c] = 0 /\ ~conflict'[c] /\ pc[c] = "nonce"
          /\ UNCHANGED <<attempt, accepted>> /\ Own(c)' = Own(c)
      BY <2>3 DEF ReadNonce, TypeOK, Own
    <3> QED  BY <1>1, <3>1 DEF SpentOf, ThisAttempt
  <2>4. CASE StartsOver(c)
    <3>1. /\ UNCHANGED <<sent, accepted>> /\ attempt'[c] = attempt[c] + 1 /\ Own(c)' = Own(c)
          /\ pc[c] = "send" /\ conflict[c] /\ pc'[c] = "nonce"
      BY <2>4 DEF StartsOver, TypeOK, Own
    <3>2. Cardinality(Own(c)) <= (attempt[c] - 1) * (Count[c] - 1) + (Count[c] - 1)
      <4>1. (attempt[c] - 1) * (Count[c] - 1) \in Int
        BY <1>1
      <4> QED  BY <1>1, <3>1, <4>1 DEF SpentOf, ThisAttempt
    <3>3. (attempt[c] - 1) * (Count[c] - 1) + (Count[c] - 1)
            = (attempt'[c] - 1) * (Count[c] - 1) + 0
      <4>1. attempt[c] \in Nat /\ attempt'[c] \in Nat /\ Count[c] \in Nat
        BY <1>1, <3>1
      <4> QED  BY <3>1, <4>1, AttemptCost
    <3> QED  BY <1>1, <3>1, <3>2, <3>3 DEF SpentOf, ThisAttempt
  <2>5. CASE GivesUp(c) \/ HttpFails(c) \/ AllSent(c)
    <3>1. /\ UNCHANGED <<attempt, sent, conflict, accepted>> /\ Own(c)' = Own(c)
          /\ pc[c] = "send" /\ pc'[c] # "nonce"
      BY <2>5 DEF GivesUp, HttpFails, RetryIf, AllSent, TypeOK, Own
    <3> QED  BY <1>1, <3>1 DEF SpentOf, ThisAttempt
  <2> QED  BY <2>1, <2>2, <2>3, <2>4, <2>5 DEF Step, Item
<1>4. ASSUME NEW d \in Calls \ {c}
      PROVE  SpentOf(d)'
  BY <1>2 DEF SpentOf, ThisAttempt, SpentInv
<1> QED  BY <1>2, <1>3, <1>4 DEF SpentInv

\* What a call sends beyond its batch is bounded by its attempts: each that is
\* started over had one transaction rejected.
THEOREM OverSendsLittle == Spec => []OverSendBound
<1>1. Init => SpentInv
  <2> SUFFICES ASSUME Init, NEW c \in Calls PROVE SpentOf(c) /\ IsFiniteSet(accepted)
    BY FS_EmptySet DEF Init, SpentInv
  <2>1. Own(c) = {} /\ accepted = {}
    BY DEF Init, Own
  <2>2. attempt[c] = 1 /\ sent[c] = 0 /\ pc[c] = "nonce" /\ Count[c] \in Nat \ {0}
    BY CallsAssumption DEF Init
  <2> QED  BY <2>1, <2>2, FS_EmptySet DEF SpentOf, ThisAttempt
<1>2. TypeOK /\ SpentInv /\ [Next]_vars => SpentInv'
  <2>1. TypeOK /\ SpentInv /\ UNCHANGED vars => SpentInv'
    BY DEF vars, SpentInv, SpentOf, ThisAttempt, Own
  <2> QED  BY <2>1, SpentStep DEF Next
<1>3. TypeOK /\ SpentInv => OverSendBound
  <2> SUFFICES ASSUME TypeOK, SpentInv, NEW c \in Calls
               PROVE  Cardinality(Own(c)) <= Count[c] + (attempt[c] - 1) * (Count[c] - 1)
    BY DEF OverSendBound
  <2>1. /\ sent[c] \in Nat /\ attempt[c] \in Nat /\ Count[c] \in Nat \ {0} /\ SpentOf(c)
        /\ Cardinality(Own(c)) \in Nat
    BY CallsAssumption, BudgetAssumption, OwnFinite DEF TypeOK, SpentInv
  <2>2. ThisAttempt(c) <= Count[c] /\ ThisAttempt(c) \in Int
    BY <2>1 DEF SpentOf, ThisAttempt
  <2>3. (attempt[c] - 1) * (Count[c] - 1) \in Int
    BY <2>1
  <2> QED  BY <2>1, <2>2, <2>3 DEF SpentOf
<1> QED  BY <1>1, <1>2, <1>3, TypeCorrect, PTL DEF Spec

=============================================================================
