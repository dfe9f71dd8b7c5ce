--------------------------- MODULE TxSubmitProofs ---------------------------
(***************************************************************************)
(* Proofs about sendTx() and submitTx(), for every set of calls, every     *)
(* retry budget and every length of the wallet's history.                  *)
(***************************************************************************)
EXTENDS TxSubmitProps, FiniteSetTheorems, SequenceTheorems, TLAPS

(***************************************************************************)
(* The inductive invariant.                                                *)
(***************************************************************************)

\* The transaction a call waits for is one it broadcast.
AwaitsOwn ==
  \A c \in Calls : pc[c] = "wait" => awaited[c] \in DOMAIN txs /\ AwaitedTx(c).call = c

IInv == TypeOK /\ AwaitsOwn /\ ReturnedReceiptIsOwn

\* On a reliable chain: what a call's live transactions can be, by where it is;
\* and a nonce that was read has no hole before it, so none is waited for in vain.
AliveByPlace ==
  \A c \in Calls :
    /\ pc[c] \in {"nonce", "send", "threw"} => Alive(c) = {}
    /\ pc[c] \in {"wait", "returned"} => Alive(c) \subseteq {awaited[c]}

NoHole ==
  /\ \A c \in Calls : pc[c] = "send" => ~Gapped(nonceRead[c])
  /\ \A i \in DOMAIN txs : txs[i].state = "pool" => ~Gapped(txs[i].nonce)

MinedBelowNext ==
  \A i \in DOMAIN txs : txs[i].state \in {"mined", "reverted"} => txs[i].nonce < next

RInv == IInv /\ AliveByPlace /\ NoHole /\ MinedBelowNext /\ GivenUpIsDisplaced

(***************************************************************************)
(* Facts about the chain.                                                  *)
(***************************************************************************)

\* The pool appends a transaction and touches the state of pooled ones only.
LEMMA AcceptFacts ==
  ASSUME TypeOK, NEW c \in Calls, Accept(c)
  PROVE  /\ txs' \in Seq(Txs) /\ Len(txs') = Len(txs) + 1
         /\ DOMAIN txs' = 1 .. Len(txs) + 1 /\ DOMAIN txs = 1 .. Len(txs)
         /\ Len(txs) \in Nat
         /\ txs'[Len(txs) + 1] = [call |-> c, nonce |-> nonceRead[c], state |-> "pool"]
         /\ \A i \in 1 .. Len(txs) :
              /\ txs'[i].call = txs[i].call /\ txs'[i].nonce = txs[i].nonce
              /\ txs'[i].state = IF txs[i].nonce = nonceRead[c] /\ txs[i].state = "pool"
                                   THEN "displaced" ELSE txs[i].state
<1> DEFINE old == [i \in DOMAIN txs |->
                     IF txs[i].nonce = nonceRead[c] /\ txs[i].state = "pool"
                       THEN [txs[i] EXCEPT !.state = "displaced"] ELSE txs[i]]
           new == [call |-> c, nonce |-> nonceRead[c], state |-> "pool"]
<1>1. txs \in Seq(Txs) /\ Len(txs) \in Nat /\ DOMAIN txs = 1 .. Len(txs)
  BY DEF TypeOK
<1>2. new \in Txs
  BY DEF TypeOK, Txs, TxState
<1>3. \A i \in 1 .. Len(txs) : txs[i] \in Txs
  BY <1>1
<1>4. \A i \in 1 .. Len(txs) : old[i] \in Txs
  BY <1>1, <1>3 DEF Txs, TxState
<1>5. old \in [1 .. Len(txs) -> Txs]
  BY <1>1, <1>4
<1>6. old \in Seq(Txs) /\ Len(old) = Len(txs)
  BY <1>1, <1>5
<1>7. txs' = Append(old, new)
  BY DEF Accept
<1> HIDE DEF old
<1>8. /\ txs' \in Seq(Txs) /\ Len(txs') = Len(txs) + 1
      /\ txs'[Len(txs) + 1] = new
      /\ \A i \in 1 .. Len(txs) : txs'[i] = old[i]
  BY <1>1, <1>2, <1>6, <1>7
<1>9. DOMAIN txs' = 1 .. Len(txs) + 1
  BY <1>1, <1>8
<1>10. \A i \in 1 .. Len(txs) :
         /\ old[i].call = txs[i].call /\ old[i].nonce = txs[i].nonce
         /\ old[i].state = IF txs[i].nonce = nonceRead[c] /\ txs[i].state = "pool"
                             THEN "displaced" ELSE txs[i].state
  BY <1>1, <1>3 DEF old, Txs
<1> QED  BY <1>1, <1>8, <1>9, <1>10

\* A state change of one transaction.
LEMMA SetStateFacts ==
  ASSUME TypeOK, NEW i \in DOMAIN txs, NEW st \in TxState, SetState(i, st)
  PROVE  /\ txs' \in Seq(Txs) /\ Len(txs') = Len(txs) /\ DOMAIN txs' = DOMAIN txs
         /\ txs'[i].state = st
         /\ \A j \in DOMAIN txs :
              /\ txs'[j].call = txs[j].call /\ txs'[j].nonce = txs[j].nonce
              /\ j # i => txs'[j].state = txs[j].state
<1>1. txs \in Seq(Txs) /\ Len(txs) \in Nat /\ DOMAIN txs = 1 .. Len(txs)
  BY DEF TypeOK
<1>2. \A j \in 1 .. Len(txs) : txs[j] \in Txs
  BY <1>1
<1>3. txs' = [txs EXCEPT ![i] = [txs[i] EXCEPT !.state = st]]
  BY DEF SetState
<1>4. [txs[i] EXCEPT !.state = st] \in Txs
  BY <1>1, <1>2 DEF Txs
<1>5. txs' \in [1 .. Len(txs) -> Txs]
  BY <1>1, <1>2, <1>3, <1>4
<1>6. txs' \in Seq(Txs) /\ Len(txs') = Len(txs)
  BY <1>1, <1>5
<1> QED  BY <1>1, <1>2, <1>3, <1>5, <1>6 DEF Txs

\* Both catch blocks end in another attempt or in a throw, within the budget.
LEMMA RetryFacts ==
  ASSUME TypeOK, NEW c \in Calls, RetryOrThrow(c) \/ ResubmitOrThrow(c)
  PROVE  /\ tries' \in [Calls -> 1 .. MaxTries] /\ attempt' \in [Calls -> 1 .. MaxDisplaced]
         /\ \E l \in {"nonce", "threw"} : pc' = [pc EXCEPT ![c] = l]
<1>1. /\ tries \in [Calls -> 1 .. MaxTries] /\ attempt \in [Calls -> 1 .. MaxDisplaced]
      /\ MaxTries \in Nat /\ MaxDisplaced \in Nat /\ 1 \in 1 .. MaxTries
  BY BudgetAssumption DEF TypeOK
<1>2. CASE RetryOrThrow(c)
  BY <1>1, <1>2 DEF RetryOrThrow, Goto
<1>3. CASE ResubmitOrThrow(c)
  BY <1>1, <1>3 DEF ResubmitOrThrow, Goto
<1> QED  BY <1>2, <1>3

\* A step of the pool's or the miner's.
LEMMA MineFacts ==
  ASSUME TypeOK, Mine
  PROVE  \E i \in DOMAIN txs, st \in {"mined", "reverted"} :
           /\ txs[i].state = "pool" /\ txs[i].nonce = next
           /\ SetState(i, st) /\ next' = next + 1 /\ UNCHANGED clientVars
BY DEF Mine

\* What any step does to the transactions that exist: they keep their owner and
\* nonce, and a result is final.
LEMMA ChainStep ==
  ASSUME TypeOK, [Next]_vars
  PROVE  /\ txs' \in Seq(Txs) /\ Len(txs) \in Nat /\ Len(txs') \in Nat
         /\ Len(txs) <= Len(txs') /\ next \in Nat /\ next' \in Nat /\ next <= next'
         /\ DOMAIN txs = 1 .. Len(txs) /\ DOMAIN txs' = 1 .. Len(txs')
         /\ \A i \in DOMAIN txs :
              /\ txs'[i].call = txs[i].call /\ txs'[i].nonce = txs[i].nonce
              /\ txs[i].state # "pool" => txs'[i].state = txs[i].state
<1>1. /\ txs \in Seq(Txs) /\ Len(txs) \in Nat /\ DOMAIN txs = 1 .. Len(txs) /\ next \in Nat
  BY DEF TypeOK
<1>2. CASE UNCHANGED chainVars
  BY <1>1, <1>2 DEF chainVars
<1>3. ASSUME NEW c \in Calls, Accept(c)
      PROVE  /\ txs' \in Seq(Txs) /\ Len(txs') = Len(txs) + 1 /\ next' = next
             /\ DOMAIN txs' = 1 .. Len(txs')
             /\ \A i \in DOMAIN txs :
                  /\ txs'[i].call = txs[i].call /\ txs'[i].nonce = txs[i].nonce
                  /\ txs[i].state # "pool" => txs'[i].state = txs[i].state
  BY <1>1, <1>3, AcceptFacts DEF Accept
<1>4. ASSUME NEW i \in DOMAIN txs, NEW st \in TxState, SetState(i, st), txs[i].state = "pool"
      PROVE  /\ txs' \in Seq(Txs) /\ Len(txs') = Len(txs) /\ DOMAIN txs' = DOMAIN txs
             /\ \A j \in DOMAIN txs :
                  /\ txs'[j].call = txs[j].call /\ txs'[j].nonce = txs[j].nonce
                  /\ txs[j].state # "pool" => txs'[j].state = txs[j].state
  BY <1>4, SetStateFacts
<1>5. ASSUME NEW c \in Calls, Step(c)
      PROVE  UNCHANGED chainVars \/ Accept(c)
  BY <1>5 DEF Step, Answered, ReadNonce, NonceRejected, Refused, Broadcast, BroadcastGarbled,
       ReceiptArrives, ReplacedNoticed, ReceiptTimesOut, WaitGarbled
<1>6. CASE \E c \in Calls : Step(c)
  BY <1>1, <1>2, <1>3, <1>5, <1>6
<1>7. CASE Mine
  <2>1. PICK i \in DOMAIN txs, st \in {"mined", "reverted"} :
          txs[i].state = "pool" /\ SetState(i, st) /\ next' = next + 1
    BY <1>7, MineFacts
  <2>2. st \in TxState
    BY DEF TxState
  <2> QED  BY <1>1, <1>4, <2>1, <2>2
<1>8. CASE Evict
  <2>1. PICK i \in DOMAIN txs : txs[i].state = "pool" /\ SetState(i, "displaced")
    BY <1>8 DEF Evict
  <2>2. "displaced" \in TxState /\ next' = next
    BY <1>8 DEF TxState, Evict
  <2> QED  BY <1>1, <1>4, <2>1, <2>2
<1>9. CASE UNCHANGED vars
  BY <1>2, <1>9 DEF vars, chainVars
<1> QED  BY <1>6, <1>7, <1>8, <1>9 DEF Next

(***************************************************************************)
(* Types, and the receipt a call returns, on any chain.                    *)
(***************************************************************************)

LEMMA InitIInv == Init => IInv
<1> SUFFICES ASSUME Init PROVE IInv
  OBVIOUS
<1>1. TypeOK
  BY BudgetAssumption DEF Init, TypeOK, Locations
<1>2. \A c \in Calls : pc[c] = "nonce"
  BY DEF Init
<1> QED  BY <1>1, <1>2 DEF IInv, AwaitsOwn, ReturnedReceiptIsOwn

\* The client side of a step: one call moves, and what it now awaits it has just
\* broadcast.
LEMMA ClientStep ==
  ASSUME IInv, NEW c \in Calls, Step(c)
  PROVE  /\ pc' \in [Calls -> Locations] /\ \A d \in Calls \ {c} : pc'[d] = pc[d]
         /\ tries' \in [Calls -> 1 .. MaxTries] /\ attempt' \in [Calls -> 1 .. MaxDisplaced]
         /\ nonceRead' \in [Calls -> Nat]
         /\ \/ UNCHANGED awaited /\ pc'[c] \in {"nonce", "send", "threw"}
            \/ UNCHANGED <<awaited, chainVars>> /\ pc'[c] = "returned" /\ pc[c] = "wait"
                 /\ AwaitedTx(c).state = "mined"
            \/ /\ Accept(c) /\ pc'[c] = "wait"
               /\ awaited' = [awaited EXCEPT ![c] = Len(txs) + 1]
         /\ givenUp' = givenUp \/ (givenUp' = givenUp \cup {awaited[c]} /\ pc[c] = "wait")
<1>1. /\ pc \in [Calls -> Locations]
      /\ tries \in [Calls -> 1 .. MaxTries] /\ attempt \in [Calls -> 1 .. MaxDisplaced]
      /\ nonceRead \in [Calls -> Nat] /\ awaited \in [Calls -> Nat]
      /\ next \in Nat /\ Len(txs) \in Nat /\ TypeOK
  BY DEF IInv, TypeOK
<1>2. ASSUME RetryOrThrow(c) \/ ResubmitOrThrow(c)
      PROVE  /\ pc' \in [Calls -> Locations] /\ \A d \in Calls \ {c} : pc'[d] = pc[d]
             /\ pc'[c] \in {"nonce", "threw"}
             /\ tries' \in [Calls -> 1 .. MaxTries]
             /\ attempt' \in [Calls -> 1 .. MaxDisplaced]
  <2>1. /\ tries' \in [Calls -> 1 .. MaxTries] /\ attempt' \in [Calls -> 1 .. MaxDisplaced]
        /\ \E l \in {"nonce", "threw"} : pc' = [pc EXCEPT ![c] = l]
    BY <1>1, <1>2, RetryFacts
  <2> QED  BY <1>1, <2>1 DEF Locations
<1>3. ASSUME NEW l \in Locations, Goto(c, l)
      PROVE  /\ pc' \in [Calls -> Locations] /\ \A d \in Calls \ {c} : pc'[d] = pc[d]
             /\ pc'[c] = l
  BY <1>1, <1>3 DEF Goto
<1>4. CASE ReadNonce(c)
  <2>1. PICK n \in next .. next + Len(txs) : nonceRead' = [nonceRead EXCEPT ![c] = n]
    BY <1>4 DEF ReadNonce
  <2>2. nonceRead' \in [Calls -> Nat]
    BY <1>1, <2>1
  <2>3. Goto(c, "send") /\ "send" \in Locations /\ UNCHANGED <<tries, attempt, awaited, givenUp>>
    BY <1>4 DEF ReadNonce, Locations
  <2> QED  BY <1>1, <1>3, <2>2, <2>3
<1>5. CASE NonceRejected(c)
  <2>1. RetryOrThrow(c) /\ UNCHANGED <<nonceRead, awaited, givenUp>>
    BY <1>5 DEF NonceRejected
  <2> QED  BY <1>1, <1>2, <2>1
<1>6. CASE Refused(c)
  <2>1. /\ Goto(c, "threw") /\ "threw" \in Locations
        /\ UNCHANGED <<tries, attempt, nonceRead, awaited, givenUp>>
    BY <1>6 DEF Refused, Locations
  <2> QED  BY <1>1, <1>3, <2>1
<1>7. CASE Broadcast(c)
  <2>1. /\ Accept(c) /\ awaited' = [awaited EXCEPT ![c] = Len(txs) + 1]
        /\ Goto(c, "wait") /\ "wait" \in Locations
        /\ UNCHANGED <<tries, attempt, nonceRead, givenUp>>
    BY <1>7 DEF Broadcast, Locations
  <2> QED  BY <1>1, <1>3, <2>1
<1>8. CASE BroadcastGarbled(c)
  <2>1. RetryOrThrow(c) /\ UNCHANGED <<nonceRead, awaited, givenUp>>
    BY <1>8 DEF BroadcastGarbled
  <2> QED  BY <1>1, <1>2, <2>1
<1>9. CASE ReceiptArrives(c)
  <2>1. UNCHANGED <<tries, attempt, nonceRead, awaited, givenUp, chainVars>> /\ pc[c] = "wait"
    BY <1>9 DEF ReceiptArrives
  <2>2. CASE AwaitedTx(c).state = "mined" /\ Goto(c, "returned")
    <3>1. "returned" \in Locations
      BY DEF Locations
    <3> QED  BY <1>1, <1>3, <2>1, <2>2, <3>1
  <2>3. CASE Goto(c, "threw")
    <3>1. "threw" \in Locations
      BY DEF Locations
    <3> QED  BY <1>1, <1>3, <2>1, <2>3, <3>1
  <2> QED  BY <1>9, <2>2, <2>3 DEF ReceiptArrives
<1>10. CASE ReplacedNoticed(c)
  <2>1. /\ RetryOrThrow(c) \/ ResubmitOrThrow(c)
        /\ UNCHANGED <<nonceRead, awaited, givenUp>>
    BY <1>10 DEF ReplacedNoticed
  <2> QED  BY <1>1, <1>2, <2>1
<1>11. ASSUME RetryOrThrow(c) \/ ResubmitOrThrow(c)
              \/ (Goto(c, "threw") /\ UNCHANGED <<tries, attempt>>)
       PROVE  /\ pc' \in [Calls -> Locations] /\ \A d \in Calls \ {c} : pc'[d] = pc[d]
              /\ pc'[c] \in {"nonce", "threw"}
              /\ tries' \in [Calls -> 1 .. MaxTries]
              /\ attempt' \in [Calls -> 1 .. MaxDisplaced]
  <2>1. "threw" \in Locations
    BY DEF Locations
  <2> QED  BY <1>1, <1>2, <1>3, <1>11, <2>1
<1>12. CASE ReceiptTimesOut(c)
  <2>1. /\ ResubmitOrThrow(c) \/ (Goto(c, "threw") /\ UNCHANGED <<tries, attempt>>)
        /\ UNCHANGED <<nonceRead, awaited>>
        /\ givenUp' = givenUp \cup {awaited[c]} /\ pc[c] = "wait"
    BY <1>12 DEF ReceiptTimesOut
  <2> QED  BY <1>1, <1>11, <2>1
<1>13. CASE WaitGarbled(c)
  <2>1. /\ RetryOrThrow(c) \/ (Goto(c, "threw") /\ UNCHANGED <<tries, attempt>>)
        /\ UNCHANGED <<nonceRead, awaited, givenUp>>
    BY <1>13 DEF WaitGarbled
  <2> QED  BY <1>1, <1>11, <2>1
<1> QED  BY <1>4, <1>5, <1>6, <1>7, <1>8, <1>9, <1>10, <1>12, <1>13 DEF Step, Answered

\* Every step keeps the types and the ownership of what is awaited or returned.
LEMMA IInvStep ==
  ASSUME IInv, [Next]_vars
  PROVE  IInv'
<1>0. TypeOK /\ AwaitsOwn /\ ReturnedReceiptIsOwn
  BY DEF IInv
<1>1. /\ pc \in [Calls -> Locations] /\ awaited \in [Calls -> Nat]
      /\ \A c \in Calls : awaited[c] \in 0 .. Len(txs)
      /\ givenUp \subseteq 1 .. Len(txs)
  BY <1>0 DEF TypeOK
<1>2. /\ txs' \in Seq(Txs) /\ Len(txs) \in Nat /\ Len(txs') \in Nat
      /\ Len(txs) <= Len(txs') /\ next' \in Nat
      /\ DOMAIN txs = 1 .. Len(txs) /\ DOMAIN txs' = 1 .. Len(txs')
      /\ \A i \in DOMAIN txs :
           /\ txs'[i].call = txs[i].call
           /\ txs[i].state # "pool" => txs'[i].state = txs[i].state
  BY <1>0, ChainStep
\* Ownership survives for every call whose place and awaited transaction stay.
<1>3. ASSUME NEW d \in Calls, awaited'[d] = awaited[d],
             pc'[d] \in {"wait", "returned"} => pc'[d] = pc[d]
      PROVE  /\ pc'[d] = "wait" => awaited'[d] \in DOMAIN txs' /\ txs'[awaited'[d]].call = d
             /\ pc'[d] = "returned" => /\ awaited'[d] \in DOMAIN txs'
                                       /\ txs'[awaited'[d]].call = d
                                       /\ txs'[awaited'[d]].state = "mined"
  BY <1>0, <1>1, <1>2, <1>3 DEF AwaitsOwn, ReturnedReceiptIsOwn, Own, AwaitedTx
<1>4. CASE \E c \in Calls : Step(c)
  <2>1. PICK c \in Calls : Step(c)
    BY <1>4
  <2>2. /\ pc' \in [Calls -> Locations] /\ \A d \in Calls \ {c} : pc'[d] = pc[d]
        /\ tries' \in [Calls -> 1 .. MaxTries] /\ attempt' \in [Calls -> 1 .. MaxDisplaced]
        /\ nonceRead' \in [Calls -> Nat]
        /\ givenUp' = givenUp \/ (givenUp' = givenUp \cup {awaited[c]} /\ pc[c] = "wait")
    BY <2>1, ClientStep
  <2>3. \/ UNCHANGED awaited /\ pc'[c] \in {"nonce", "send", "threw"}
        \/ UNCHANGED <<awaited, chainVars>> /\ pc'[c] = "returned" /\ pc[c] = "wait"
             /\ AwaitedTx(c).state = "mined"
        \/ /\ Accept(c) /\ pc'[c] = "wait"
           /\ awaited' = [awaited EXCEPT ![c] = Len(txs) + 1]
    BY <2>1, ClientStep
  <2>4. ASSUME Accept(c)
        PROVE  Len(txs') = Len(txs) + 1 /\ txs'[Len(txs) + 1].call = c
    <3>1. /\ Len(txs') = Len(txs) + 1
          /\ txs'[Len(txs) + 1] = [call |-> c, nonce |-> nonceRead[c], state |-> "pool"]
      BY <1>0, <2>4, AcceptFacts
    <3> QED  BY <3>1
  <2>5. /\ awaited' \in [Calls -> Nat] /\ \A d \in Calls : awaited'[d] \in 0 .. Len(txs')
        /\ \A d \in Calls \ {c} : awaited'[d] = awaited[d]
    <3>1. CASE UNCHANGED awaited
      BY <1>1, <1>2, <3>1
    <3>2. CASE Accept(c) /\ awaited' = [awaited EXCEPT ![c] = Len(txs) + 1]
      <4>1. Len(txs') = Len(txs) + 1
        BY <2>4, <3>2
      <4>2. awaited' \in [Calls -> Nat]
        BY <1>1, <1>2, <3>2
      <4>3. ASSUME NEW d \in Calls
            PROVE  awaited'[d] = IF d = c THEN Len(txs) + 1 ELSE awaited[d]
        BY <1>1, <3>2, <4>3
      <4> QED  BY <1>1, <1>2, <4>1, <4>2, <4>3
    <3> QED  BY <2>3, <3>1, <3>2
  <2>6. givenUp' \subseteq 1 .. Len(txs')
    <3>1. pc[c] = "wait" => awaited[c] \in 1 .. Len(txs)
      BY <1>0, <1>2 DEF AwaitsOwn
    <3>2. givenUp \subseteq 1 .. Len(txs) /\ 1 .. Len(txs) \subseteq 1 .. Len(txs')
      BY <1>1, <1>2
    <3>3. CASE givenUp' = givenUp
      BY <3>2, <3>3
    <3>4. CASE givenUp' = givenUp \cup {awaited[c]} /\ pc[c] = "wait"
      BY <3>1, <3>2, <3>4
    <3> QED  BY <2>2, <3>3, <3>4
  <2>7. TypeOK'
    BY <1>2, <2>2, <2>5, <2>6 DEF TypeOK
  <2>8. /\ pc'[c] = "wait" => awaited'[c] \in DOMAIN txs' /\ txs'[awaited'[c]].call = c
        /\ pc'[c] = "returned" => /\ awaited'[c] \in DOMAIN txs'
                                  /\ txs'[awaited'[c]].call = c
                                  /\ txs'[awaited'[c]].state = "mined"
    <3>1. CASE UNCHANGED awaited /\ pc'[c] \in {"nonce", "send", "threw"}
      BY <3>1
    <3>2. CASE UNCHANGED <<awaited, chainVars>> /\ pc'[c] = "returned" /\ pc[c] = "wait"
                 /\ AwaitedTx(c).state = "mined"
      BY <1>0, <3>2 DEF AwaitsOwn, AwaitedTx, chainVars
    <3>3. CASE /\ Accept(c) /\ pc'[c] = "wait"
               /\ awaited' = [awaited EXCEPT ![c] = Len(txs) + 1]
      BY <1>1, <1>2, <2>4, <3>3
    <3> QED  BY <2>3, <3>1, <3>2, <3>3
  <2>9. AwaitsOwn' /\ ReturnedReceiptIsOwn'
    BY <1>3, <2>2, <2>5, <2>8 DEF AwaitsOwn, ReturnedReceiptIsOwn, Own, AwaitedTx
  <2> QED  BY <2>7, <2>9 DEF IInv
<1>5. CASE UNCHANGED clientVars
  <2>1. TypeOK'
    BY <1>0, <1>1, <1>2, <1>5 DEF TypeOK, clientVars
  <2>2. AwaitsOwn' /\ ReturnedReceiptIsOwn'
    BY <1>3, <1>5 DEF clientVars, AwaitsOwn, ReturnedReceiptIsOwn, Own, AwaitedTx
  <2> QED  BY <2>1, <2>2 DEF IInv
<1> QED  BY <1>4, <1>5 DEF Next, Mine, Evict, vars, clientVars

\* The variables keep their types, on any chain.
THEOREM TypeCorrect == Spec => []TypeOK
<1>1. IInv => TypeOK
  BY DEF IInv
<1> QED  BY InitIInv, IInvStep, <1>1, PTL DEF Spec

\* A call that returns hands back the successful receipt of its own transaction,
\* on any chain: slow, flaky or forgetful.
THEOREM ReceiptIsOwn == Spec => []ReturnedReceiptIsOwn
<1>1. IInv => ReturnedReceiptIsOwn
  BY DEF IInv
<1> QED  BY InitIInv, IInvStep, <1>1, PTL DEF Spec

(***************************************************************************)
(* The reliable chain: no receipt is late, no answer is garbled, nothing   *)
(* is evicted.                                                             *)
(***************************************************************************)
Reliable == ~SlowChain /\ ~FlakyRpc /\ ~Evicts

\* A pooled nonce that is not mined stays pooled, perhaps by a replacement.
LEMMA PoolStep ==
  ASSUME Reliable, TypeOK, [Next]_vars, NEW m \in Int, m >= next', InPool(m)
  PROVE  InPool(m)'
<1>1. PICK i \in DOMAIN txs : txs[i].nonce = m /\ txs[i].state = "pool"
  BY DEF InPool
<1>2. DOMAIN txs = 1 .. Len(txs) /\ Len(txs) \in Nat /\ next \in Nat
  BY DEF TypeOK
<1>3. CASE UNCHANGED txs
  BY <1>3 DEF InPool
<1>4. ASSUME NEW c \in Calls, Accept(c)
      PROVE  InPool(m)'
  <2>1. /\ DOMAIN txs' = 1 .. Len(txs) + 1
        /\ txs'[Len(txs) + 1] = [call |-> c, nonce |-> nonceRead[c], state |-> "pool"]
        /\ txs'[i].nonce = m
        /\ txs'[i].state = IF m = nonceRead[c] THEN "displaced" ELSE "pool"
    BY <1>1, <1>2, <1>4, AcceptFacts
  <2>2. CASE m = nonceRead[c]
    <3>1. Len(txs) + 1 \in DOMAIN txs'
      BY <1>2, <2>1
    <3> QED  BY <2>1, <2>2, <3>1 DEF InPool
  <2>3. CASE m # nonceRead[c]
    <3>1. i \in DOMAIN txs'
      BY <1>2, <2>1
    <3> QED  BY <2>1, <2>3, <3>1 DEF InPool
  <2> QED  BY <2>2, <2>3
<1>5. ASSUME NEW c \in Calls, Step(c)
      PROVE  UNCHANGED txs \/ Accept(c)
  BY <1>5 DEF Step, Answered, ReadNonce, NonceRejected, Refused, Broadcast, BroadcastGarbled,
       ReceiptArrives, ReplacedNoticed, ReceiptTimesOut, WaitGarbled, chainVars
<1>6. CASE Mine
  <2>1. PICK j \in DOMAIN txs, st \in {"mined", "reverted"} :
          txs[j].nonce = next /\ SetState(j, st) /\ next' = next + 1
    BY <1>6, MineFacts
  <2>2. st \in TxState /\ i # j
    BY <1>1, <1>2, <2>1 DEF TxState
  <2>3. DOMAIN txs' = DOMAIN txs /\ txs'[i].nonce = m /\ txs'[i].state = "pool"
    BY <1>1, <2>1, <2>2, SetStateFacts
  <2> QED  BY <1>1, <2>3 DEF InPool
<1> QED  BY <1>3, <1>4, <1>5, <1>6 DEF Next, Evict, Reliable, vars

\* So a nonce without a hole before it never gets one.
LEMMA GapStep ==
  ASSUME Reliable, TypeOK, [Next]_vars, NEW n \in Nat, ~Gapped(n)
  PROVE  \A m \in next' .. n - 1 : InPool(m)'
<1>1. next \in Nat /\ next' \in Nat /\ next <= next'
  BY ChainStep
<1>2. SUFFICES ASSUME NEW m \in next' .. n - 1
               PROVE  InPool(m)'
  OBVIOUS
<1>3. m \in next .. n - 1 /\ m >= next' /\ m \in Int
  BY <1>1, <1>2
<1>4. InPool(m)
  BY <1>3 DEF Gapped
<1> QED  BY <1>3, <1>4, PoolStep

\* A broadcast leaves its caller with one live transaction, the new one.
LEMMA AliveAfterBroadcast ==
  ASSUME TypeOK, NEW c \in Calls, Accept(c), Alive(c) = {}
  PROVE  Alive(c)' \subseteq {Len(txs) + 1}
<1>1. /\ DOMAIN txs' = 1 .. Len(txs) + 1 /\ DOMAIN txs = 1 .. Len(txs) /\ Len(txs) \in Nat
      /\ \A i \in 1 .. Len(txs) :
           /\ txs'[i].call = txs[i].call
           /\ txs'[i].state = IF txs[i].nonce = nonceRead[c] /\ txs[i].state = "pool"
                                THEN "displaced" ELSE txs[i].state
  BY AcceptFacts
<1> QED  BY <1>1 DEF Alive, Own

\* What another call, or the chain, does to a call's live transactions.
LEMMA AliveShrinks ==
  ASSUME TypeOK, [Next]_vars, NEW d \in Calls,
         \A c \in Calls : Accept(c) => c # d
  PROVE  Alive(d)' \subseteq Alive(d)
<1>1. /\ DOMAIN txs = 1 .. Len(txs) /\ DOMAIN txs' = 1 .. Len(txs')
      /\ Len(txs) \in Nat /\ Len(txs') \in Nat
      /\ \A i \in DOMAIN txs :
           /\ txs'[i].call = txs[i].call
           /\ txs[i].state # "pool" => txs'[i].state = txs[i].state
  BY ChainStep
<1>2. \A i \in DOMAIN txs' : txs'[i].call = d => i \in DOMAIN txs
  <2>1. CASE UNCHANGED txs
    BY <2>1
  <2>2. ASSUME NEW c \in Calls, Accept(c)
        PROVE  \A i \in DOMAIN txs' : txs'[i].call = d => i \in DOMAIN txs
    <3>1. /\ DOMAIN txs' = 1 .. Len(txs) + 1 /\ c # d
          /\ txs'[Len(txs) + 1] = [call |-> c, nonce |-> nonceRead[c], state |-> "pool"]
      BY <2>2, AcceptFacts
    <3> QED  BY <1>1, <3>1
  <2>3. ASSUME NEW c \in Calls, Step(c)
        PROVE  UNCHANGED txs \/ Accept(c)
    BY <2>3 DEF Step, Answered, ReadNonce, NonceRejected, Refused, Broadcast, BroadcastGarbled,
         ReceiptArrives, ReplacedNoticed, ReceiptTimesOut, WaitGarbled, chainVars
  <2>4. CASE Mine \/ Evict
    <3>1. PICK i \in DOMAIN txs, st \in TxState : SetState(i, st)
      BY <2>4, MineFacts DEF Evict, TxState
    <3>2. DOMAIN txs' = DOMAIN txs
      BY <3>1, SetStateFacts
    <3> QED  BY <3>2
  <2> QED  BY <2>1, <2>2, <2>3, <2>4 DEF Next, vars
<1>3. \A i \in DOMAIN txs : txs[i] \in Txs
  BY <1>1 DEF TypeOK
<1> QED  BY <1>1, <1>2, <1>3 DEF Alive, Own, Txs, TxState

\* The three ways a call stops waiting leave nothing of it alive but a mined
\* transaction it returns; giving up needs a displaced one.
LEMMA WaitEnds ==
  ASSUME Reliable, RInv, NEW c \in Calls, pc[c] = "wait",
         ReceiptArrives(c) \/ ReplacedNoticed(c) \/ ReceiptTimesOut(c)
  PROVE  /\ pc'[c] = "returned" \/ Alive(c) = {}
         /\ awaited[c] \in DOMAIN txs
         /\ ReceiptTimesOut(c) => AwaitedTx(c).state = "displaced"
<1>1. /\ awaited[c] \in DOMAIN txs /\ AwaitedTx(c).call = c
      /\ Alive(c) \subseteq {awaited[c]} /\ pc \in [Calls -> Locations]
  BY DEF RInv, IInv, AwaitsOwn, AliveByPlace, TypeOK
<1>2. AwaitedTx(c).state \in TxState /\ AwaitedTx(c).nonce \in Nat /\ next \in Nat
  <2>1. AwaitedTx(c) \in Txs
    BY <1>1 DEF AwaitedTx, RInv, IInv, TypeOK
  <2> QED  BY <2>1 DEF Txs, RInv, IInv, TypeOK
<1>3. ASSUME AwaitedTx(c).state \notin {"pool", "mined"}
      PROVE  Alive(c) = {}
  BY <1>1, <1>3 DEF Alive, AwaitedTx
<1>4. ASSUME ReceiptArrives(c)
      PROVE  pc'[c] = "returned" \/ Alive(c) = {}
  <2>1. pc'[c] = "returned" \/ AwaitedTx(c).state = "reverted"
    BY <1>1, <1>4 DEF ReceiptArrives, Goto
  <2> QED  BY <1>3, <2>1
<1>5. ReplacedNoticed(c) => AwaitedTx(c).state = "displaced"
  BY DEF ReplacedNoticed
<1>6. ReceiptTimesOut(c) => AwaitedTx(c).state = "displaced"
  <2> SUFFICES ASSUME ReceiptTimesOut(c), AwaitedTx(c).state # "displaced"
               PROVE  FALSE
    OBVIOUS
  <2>1. Gapped(AwaitedTx(c).nonce)
    BY DEF ReceiptTimesOut, Reliable
  <2>2. CASE AwaitedTx(c).state = "pool"
    BY <1>1, <2>1, <2>2 DEF RInv, NoHole, AwaitedTx
  <2>3. CASE AwaitedTx(c).state \in {"mined", "reverted"}
    <3>1. AwaitedTx(c).nonce < next
      BY <1>1, <2>3 DEF RInv, MinedBelowNext, AwaitedTx
    <3> QED  BY <1>2, <2>1, <3>1 DEF Gapped
  <2> QED  BY <1>2, <2>2, <2>3 DEF TxState
<1> QED  BY <1>1, <1>3, <1>4, <1>5, <1>6

LEMMA InitRInv == Init => RInv
<1> SUFFICES ASSUME Init PROVE RInv
  OBVIOUS
<1>1. txs = << >> /\ givenUp = {} /\ \A c \in Calls : pc[c] = "nonce"
  BY DEF Init
<1>2. AliveByPlace
  BY <1>1 DEF AliveByPlace, Alive, Own
<1>3. NoHole /\ MinedBelowNext /\ GivenUpIsDisplaced
  BY <1>1 DEF NoHole, MinedBelowNext, GivenUpIsDisplaced
<1> QED  BY <1>2, <1>3, InitIInv DEF RInv

LEMMA RInvStep ==
  ASSUME Reliable, RInv, [Next]_vars
  PROVE  RInv'
<1>0. TypeOK /\ IInv
  BY DEF RInv, IInv
<1>1. IInv'
  BY <1>0, IInvStep
<1>2. /\ txs \in Seq(Txs) /\ Len(txs) \in Nat /\ Len(txs') \in Nat
      /\ DOMAIN txs = 1 .. Len(txs) /\ DOMAIN txs' = 1 .. Len(txs')
      /\ next \in Nat /\ next' \in Nat /\ next <= next'
      /\ pc \in [Calls -> Locations] /\ nonceRead \in [Calls -> Nat]
      /\ \A i \in DOMAIN txs :
           /\ txs[i] \in Txs /\ i \in DOMAIN txs'
           /\ txs'[i].call = txs[i].call /\ txs'[i].nonce = txs[i].nonce
           /\ txs[i].state # "pool" => txs'[i].state = txs[i].state
  BY <1>0, ChainStep DEF TypeOK
<1>3. \A c, d \in Calls : Accept(c) /\ Accept(d) => c = d
  <2> SUFFICES ASSUME NEW c \in Calls, NEW d \in Calls, Accept(c), Accept(d)
               PROVE  c = d
    OBVIOUS
  <2>1. /\ txs'[Len(txs) + 1] = [call |-> c, nonce |-> nonceRead[c], state |-> "pool"]
        /\ txs'[Len(txs) + 1] = [call |-> d, nonce |-> nonceRead[d], state |-> "pool"]
    BY <1>0, AcceptFacts
  <2> QED  BY <2>1
\* A call that stays where it is, with what it awaits, keeps its part.
<1>4. ASSUME NEW d \in Calls, pc'[d] = pc[d], awaited'[d] = awaited[d], ~Accept(d)
      PROVE  /\ pc'[d] \in {"nonce", "send", "threw"} => Alive(d)' = {}
             /\ pc'[d] \in {"wait", "returned"} => Alive(d)' \subseteq {awaited'[d]}
  <2>1. Alive(d)' \subseteq Alive(d)
    BY <1>0, <1>4, AliveShrinks
  <2> QED  BY <1>4, <2>1 DEF RInv, AliveByPlace
<1>5. ASSUME NEW c \in Calls, Step(c)
      PROVE  AliveByPlace'
  <2>1. /\ \A d \in Calls \ {c} : pc'[d] = pc[d]
        /\ \/ UNCHANGED awaited /\ pc'[c] \in {"nonce", "send", "threw"}
           \/ UNCHANGED <<awaited, chainVars>> /\ pc'[c] = "returned" /\ pc[c] = "wait"
           \/ /\ Accept(c) /\ pc'[c] = "wait"
              /\ awaited' = [awaited EXCEPT ![c] = Len(txs) + 1]
    BY <1>0, <1>5, ClientStep
  <2>2. \A d \in Calls \ {c} : awaited'[d] = awaited[d]
    BY <1>0, <2>1 DEF TypeOK
  <2>3. UNCHANGED chainVars \/ Accept(c)
    BY <1>5 DEF Step, Answered, ReadNonce, NonceRejected, Refused, Broadcast, BroadcastGarbled,
         ReceiptArrives, ReplacedNoticed, ReceiptTimesOut, WaitGarbled
  <2>4. \A d \in Calls \ {c} : ~Accept(d)
    <3> SUFFICES ASSUME NEW d \in Calls \ {c}, Accept(d) PROVE FALSE
      OBVIOUS
    <3>1. CASE Accept(c)
      BY <1>3, <1>5, <3>1
    <3>2. CASE UNCHANGED chainVars
      <4>1. Len(txs') = Len(txs) + 1
        BY <1>0, AcceptFacts
      <4> QED  BY <1>2, <3>2, <4>1 DEF chainVars
    <3> QED  BY <2>3, <3>1, <3>2
  <2>5. \A d \in Calls \ {c} :
          /\ pc'[d] \in {"nonce", "send", "threw"} => Alive(d)' = {}
          /\ pc'[d] \in {"wait", "returned"} => Alive(d)' \subseteq {awaited'[d]}
    BY <1>4, <2>1, <2>2, <2>4
  <2>6. /\ pc'[c] \in {"nonce", "send", "threw"} => Alive(c)' = {}
        /\ pc'[c] \in {"wait", "returned"} => Alive(c)' \subseteq {awaited'[c]}
    <3>1. CASE Broadcast(c)
      <4>1. Alive(c) = {} /\ Accept(c)
        BY <1>5, <3>1 DEF Broadcast, RInv, AliveByPlace
      <4>2. Alive(c)' \subseteq {Len(txs) + 1}
        BY <1>0, <1>5, <4>1, AliveAfterBroadcast
      <4>3. awaited'[c] = Len(txs) + 1 /\ pc'[c] = "wait"
        BY <1>0, <1>2, <1>5, <3>1 DEF Broadcast, Goto, TypeOK
      <4> QED  BY <4>2, <4>3
    <3>2. CASE ReadNonce(c) \/ NonceRejected(c) \/ Refused(c)
      <4>1. pc[c] \in {"nonce", "send"} /\ UNCHANGED chainVars
        BY <3>2 DEF ReadNonce, NonceRejected, Refused
      <4>2. pc'[c] \in {"nonce", "send", "threw"}
        <5>1. \/ Goto(c, "send") \/ Goto(c, "nonce") \/ Goto(c, "threw")
          BY <3>2 DEF ReadNonce, NonceRejected, Refused, RetryOrThrow
        <5> QED  BY <1>2, <1>5, <5>1 DEF Goto
      <4>3. Alive(c)' = {}
        BY <1>5, <4>1 DEF RInv, AliveByPlace, Alive, Own, chainVars
      <4> QED  BY <4>2, <4>3
    <3>3. CASE ReceiptArrives(c) \/ ReplacedNoticed(c) \/ ReceiptTimesOut(c)
      <4>1. pc[c] = "wait" /\ UNCHANGED <<awaited, chainVars>>
        BY <3>3 DEF ReceiptArrives, ReplacedNoticed, ReceiptTimesOut
      <4>2. pc'[c] \in {"nonce", "threw", "returned"}
        <5>1. \/ Goto(c, "returned") \/ Goto(c, "nonce") \/ Goto(c, "threw")
          BY <3>3 DEF ReceiptArrives, ReplacedNoticed, ReceiptTimesOut, RetryOrThrow,
               ResubmitOrThrow
        <5> QED  BY <1>2, <1>5, <5>1 DEF Goto
      <4>3. pc'[c] = "returned" \/ Alive(c) = {}
        BY <1>5, <3>3, <4>1, WaitEnds
      <4>4. Alive(c)' = Alive(c) /\ Alive(c) \subseteq {awaited'[c]}
        BY <1>5, <4>1 DEF RInv, AliveByPlace, Alive, Own, chainVars
      <4> QED  BY <4>2, <4>3, <4>4
    <3> QED  BY <1>5, <3>1, <3>2, <3>3 DEF Step, Answered, BroadcastGarbled, WaitGarbled, Reliable
  <2> QED  BY <2>5, <2>6 DEF AliveByPlace
<1>6. ASSUME UNCHANGED clientVars, Mine \/ UNCHANGED vars
      PROVE  AliveByPlace'
  <2>1. \A d \in Calls : ~Accept(d)
    <3> SUFFICES ASSUME NEW d \in Calls, Accept(d) PROVE FALSE
      OBVIOUS
    <3>1. Len(txs') = Len(txs) + 1 /\ next' = next
      BY <1>0, AcceptFacts DEF Accept
    <3>2. ~Mine
      BY <1>2, <3>1 DEF Mine
    <3> QED  BY <1>2, <1>6, <3>1, <3>2 DEF vars
  <2> QED  BY <1>4, <1>6, <2>1 DEF AliveByPlace, clientVars
<1>7. AliveByPlace'
  BY <1>5, <1>6 DEF Next, Mine, Evict, Reliable, vars, clientVars
\* The nonces.
<1>8. ASSUME NEW i \in DOMAIN txs', txs'[i].state # "displaced"
      PROVE  /\ txs'[i].state = "pool" => \A m \in next' .. txs'[i].nonce - 1 : InPool(m)'
             /\ txs'[i].state \in {"mined", "reverted"} => txs'[i].nonce < next'
  <2>1. CASE i \in DOMAIN txs /\ txs[i].state = "pool"
    <3>1. ~Gapped(txs[i].nonce) /\ txs[i].nonce \in Nat
      BY <1>2, <2>1 DEF RInv, NoHole, Txs
    <3>2. \A m \in next' .. txs[i].nonce - 1 : InPool(m)'
      BY <1>0, <3>1, GapStep
    <3>3. txs'[i].state \in {"mined", "reverted"} => txs'[i].nonce < next'
      <4>1. CASE UNCHANGED txs
        BY <2>1, <4>1
      <4>2. ASSUME NEW c \in Calls, Accept(c)
            PROVE  txs'[i].state \in {"pool", "displaced"}
        BY <1>0, <1>2, <2>1, <4>2, AcceptFacts
      <4>3. ASSUME NEW c \in Calls, Step(c)
            PROVE  UNCHANGED txs \/ Accept(c)
        BY <4>3 DEF Step, Answered, ReadNonce, NonceRejected, Refused, Broadcast, BroadcastGarbled,
             ReceiptArrives, ReplacedNoticed, ReceiptTimesOut, WaitGarbled, chainVars
      <4>4. CASE Mine
        <5>1. PICK j \in DOMAIN txs, st \in {"mined", "reverted"} :
                txs[j].nonce = next /\ SetState(j, st) /\ next' = next + 1
          BY <1>0, <4>4, MineFacts
        <5>2. st \in TxState
          BY DEF TxState
        <5>3. i # j => txs'[i].state = "pool"
          BY <1>0, <2>1, <5>1, <5>2, SetStateFacts
        <5>4. i = j => txs'[i].nonce < next'
          BY <1>2, <2>1, <5>1
        <5> QED  BY <5>3, <5>4
      <4> QED  BY <4>1, <4>2, <4>3, <4>4 DEF Next, Evict, Reliable, vars
    <3> QED  BY <1>2, <2>1, <3>2, <3>3
  <2>2. CASE i \in DOMAIN txs /\ txs[i].state # "pool"
    <3>1. txs'[i].state \in {"mined", "reverted"} /\ txs[i].state = txs'[i].state
      BY <1>2, <1>8, <2>2 DEF Txs, TxState
    <3>2. txs[i].nonce < next /\ txs[i].nonce \in Nat
      BY <1>2, <2>2, <3>1 DEF RInv, MinedBelowNext, Txs
    <3> QED  BY <1>2, <2>2, <3>1, <3>2
  <2>3. CASE i \notin DOMAIN txs
    <3>1. PICK c \in Calls : Step(c) /\ Accept(c)
      <4>1. ASSUME NEW c \in Calls, Step(c)
            PROVE  UNCHANGED txs \/ Accept(c)
        BY <4>1 DEF Step, Answered, ReadNonce, NonceRejected, Refused, Broadcast, BroadcastGarbled,
             ReceiptArrives, ReplacedNoticed, ReceiptTimesOut, WaitGarbled, chainVars
      <4>2. ~Mine
        <5> SUFFICES ASSUME Mine PROVE FALSE
          OBVIOUS
        <5>1. PICK j \in DOMAIN txs, st \in {"mined", "reverted"} : SetState(j, st)
          BY <1>0, MineFacts
        <5>2. st \in TxState
          BY DEF TxState
        <5>3. DOMAIN txs' = DOMAIN txs
          BY <1>0, <5>1, <5>2, SetStateFacts
        <5> QED  BY <1>8, <2>3, <5>3
      <4> QED  BY <1>8, <2>3, <4>1, <4>2 DEF Next, Evict, Reliable, vars
    <3>2. /\ i = Len(txs) + 1
          /\ txs'[Len(txs) + 1] = [call |-> c, nonce |-> nonceRead[c], state |-> "pool"]
      <4>1. /\ DOMAIN txs' = 1 .. Len(txs) + 1
            /\ txs'[Len(txs) + 1] = [call |-> c, nonce |-> nonceRead[c], state |-> "pool"]
        BY <1>0, <3>1, AcceptFacts
      <4>2. i = Len(txs) + 1
        BY <1>2, <1>8, <2>3, <4>1
      <4> QED  BY <4>1, <4>2
    <3>3. pc[c] = "send"
      BY <1>2, <1>8, <2>3, <3>1 DEF Step, Answered, ReadNonce, NonceRejected, Refused, Broadcast,
         BroadcastGarbled, ReceiptArrives, ReplacedNoticed, ReceiptTimesOut, WaitGarbled, chainVars
    <3>4. ~Gapped(nonceRead[c]) /\ nonceRead[c] \in Nat
      BY <1>2, <3>1, <3>3 DEF RInv, NoHole
    <3>5. \A m \in next' .. nonceRead[c] - 1 : InPool(m)'
      BY <1>0, <3>4, GapStep
    <3> QED  BY <3>2, <3>5
  <2> QED  BY <2>1, <2>2, <2>3
<1>9. ASSUME NEW d \in Calls, pc'[d] = "send"
      PROVE  \A m \in next' .. nonceRead'[d] - 1 : InPool(m)'
  <2>1. CASE ReadNonce(d)
    <3>1. PICK n \in next .. next + Len(txs) :
            PendingNonce(n) /\ nonceRead' = [nonceRead EXCEPT ![d] = n]
      BY <2>1 DEF ReadNonce
    <3>2. nonceRead'[d] = n /\ ~Gapped(n) /\ UNCHANGED chainVars
      BY <1>2, <1>9, <2>1, <3>1 DEF PendingNonce, ReadNonce
    <3>3. \A m \in next .. n - 1 : InPool(m)
      BY <3>2 DEF Gapped
    <3> QED  BY <3>2, <3>3 DEF InPool, chainVars
  <2>2. CASE ~ReadNonce(d)
    <3>1. pc[d] = "send" /\ nonceRead'[d] = nonceRead[d]
      <4>1. CASE UNCHANGED clientVars
        BY <1>9, <4>1 DEF clientVars
      <4>2. ASSUME NEW c \in Calls, Step(c)
            PROVE  pc[d] = "send" /\ nonceRead'[d] = nonceRead[d]
        <5>1. CASE c # d
          <6>1. pc'[d] = pc[d]
            BY <1>0, <1>9, <4>2, <5>1, ClientStep
          <6>2. nonceRead'[d] = nonceRead[d]
            BY <1>2, <1>9, <4>2, <5>1 DEF Step, Answered, ReadNonce, NonceRejected, Refused, Broadcast,
               BroadcastGarbled, ReceiptArrives, ReplacedNoticed, ReceiptTimesOut, WaitGarbled
          <6> QED  BY <1>9, <6>1, <6>2
        <5>2. CASE c = d
          <6>1. \/ Goto(d, "wait") \/ Goto(d, "nonce") \/ Goto(d, "threw")
                \/ Goto(d, "returned")
            BY <2>2, <4>2, <5>2 DEF Step, Answered, NonceRejected, Refused, Broadcast,
               BroadcastGarbled, ReceiptArrives, ReplacedNoticed, ReceiptTimesOut,
               WaitGarbled, RetryOrThrow, ResubmitOrThrow
          <6> QED  BY <1>2, <1>9, <6>1 DEF Goto
        <5> QED  BY <5>1, <5>2
      <4> QED  BY <4>1, <4>2 DEF Next, Mine, Evict, vars, clientVars
    <3>2. ~Gapped(nonceRead[d]) /\ nonceRead[d] \in Nat
      BY <1>2, <1>9, <3>1 DEF RInv, NoHole
    <3>3. \A m \in next' .. nonceRead[d] - 1 : InPool(m)'
      BY <1>0, <3>2, GapStep
    <3> QED  BY <3>1, <3>3
  <2> QED  BY <2>1, <2>2
<1>10. NoHole' /\ MinedBelowNext'
  <2>1. ASSUME NEW i \in DOMAIN txs', txs'[i].state = "pool"
        PROVE  ~Gapped(txs[i].nonce)'
    BY <1>8, <2>1 DEF Gapped
  <2>2. ASSUME NEW d \in Calls, pc'[d] = "send"
        PROVE  ~Gapped(nonceRead[d])'
    BY <1>9, <2>2 DEF Gapped
  <2>3. NoHole'
    BY <2>1, <2>2 DEF NoHole
  <2>4. MinedBelowNext'
    BY <1>8 DEF MinedBelowNext
  <2> QED  BY <2>3, <2>4
<1>11. GivenUpIsDisplaced'
  <2>1. givenUp \subseteq DOMAIN txs
    BY <1>0, <1>2 DEF TypeOK
  <2>2. CASE UNCHANGED givenUp
    BY <1>2, <2>1, <2>2 DEF RInv, GivenUpIsDisplaced
  <2>3. ASSUME NEW c \in Calls, ReceiptTimesOut(c)
        PROVE  GivenUpIsDisplaced'
    <3>1. /\ givenUp' = givenUp \cup {awaited[c]} /\ pc[c] = "wait"
      BY <2>3 DEF ReceiptTimesOut
    <3>2. awaited[c] \in DOMAIN txs /\ txs[awaited[c]].state = "displaced"
      BY <2>3, <3>1, WaitEnds DEF AwaitedTx
    <3> QED  BY <1>2, <2>1, <3>1, <3>2 DEF RInv, GivenUpIsDisplaced
  <2>4. UNCHANGED givenUp \/ \E c \in Calls : ReceiptTimesOut(c)
    BY DEF Next, Step, Answered, ReadNonce, NonceRejected, Refused, Broadcast, BroadcastGarbled,
       ReceiptArrives, ReplacedNoticed, WaitGarbled, Mine, Evict, vars, clientVars
  <2> QED  BY <2>2, <2>3, <2>4
<1> QED  BY <1>1, <1>7, <1>10, <1>11 DEF RInv

(***************************************************************************)
(* Results for the reliable chain.                                         *)
(***************************************************************************)

LEMMA RInvariance == ASSUME Reliable PROVE Spec => []RInv
<1>1. RInv /\ [Next]_vars => RInv'
  BY RInvStep
<1> QED  BY InitRInv, <1>1, PTL DEF Spec

\* On a reliable chain no call has two transactions that took or can still take
\* effect, and a call that threw has none: retries and resubmissions do not
\* duplicate a write, for any retry budget and any number of concurrent calls.
THEOREM OneEffect ==
  ASSUME Reliable
  PROVE  Spec => []AtMostOneEffect
<1>1. RInv => AtMostOneEffect
  <2> SUFFICES ASSUME RInv, NEW c \in Calls
               PROVE  /\ \A i, j \in Alive(c) : i = j
                      /\ pc[c] = "threw" => Alive(c) = {}
    BY DEF AtMostOneEffect
  <2>1. pc[c] \in Locations
    BY DEF RInv, IInv, TypeOK
  <2> QED  BY <2>1 DEF RInv, AliveByPlace, Locations
<1> QED  BY RInvariance, <1>1, PTL

\* On a reliable chain a receipt timeout does mean a displaced transaction.
THEOREM TimeoutIsDisplacement ==
  ASSUME Reliable
  PROVE  Spec => []GivenUpIsDisplaced
<1>1. RInv => GivenUpIsDisplaced
  BY DEF RInv
<1> QED  BY RInvariance, <1>1, PTL

\* The abstract answer and effects, as the refinement mapping gives them.
Answer(c) == IF pc[c] \in {"returned", "threw"} THEN pc[c] ELSE "none"
AnswerFn  == [c \in Calls |-> Answer(c)]
AppliedFn == [c \in Calls |-> Applied(c)]

\* A client step applies nothing: it can only add to the pool or displace in it.
LEMMA ClientAppliesNothing ==
  ASSUME TypeOK, NEW c \in Calls, Step(c), NEW d \in Calls
  PROVE  Applied(d)' <=> Applied(d)
<1>1. CASE UNCHANGED txs
  BY <1>1 DEF Applied, Own
<1>2. CASE Accept(c)
  <2>1. /\ DOMAIN txs' = 1 .. Len(txs) + 1 /\ DOMAIN txs = 1 .. Len(txs) /\ Len(txs) \in Nat
        /\ txs'[Len(txs) + 1] = [call |-> c, nonce |-> nonceRead[c], state |-> "pool"]
        /\ \A i \in 1 .. Len(txs) :
             /\ txs'[i].call = txs[i].call
             /\ txs'[i].state = IF txs[i].nonce = nonceRead[c] /\ txs[i].state = "pool"
                                  THEN "displaced" ELSE txs[i].state
    BY <1>2, AcceptFacts
  <2>2. \A i \in 1 .. Len(txs) : txs'[i].state = "mined" <=> txs[i].state = "mined"
    BY <2>1
  <2>3. \A i \in DOMAIN txs' : txs'[i].state = "mined" => i \in 1 .. Len(txs)
    BY <2>1
  <2>4. Own(d)' = {i \in DOMAIN txs' : txs'[i].call = d}
    BY DEF Own
  <2>5. Own(d) = {i \in DOMAIN txs : txs[i].call = d}
    BY DEF Own
  <2>6. Applied(d)' <=> \E i \in DOMAIN txs' : txs'[i].call = d /\ txs'[i].state = "mined"
    BY <2>4 DEF Applied
  <2>7. Applied(d) <=> \E i \in DOMAIN txs : txs[i].call = d /\ txs[i].state = "mined"
    BY <2>5 DEF Applied
  <2> QED  BY <2>1, <2>2, <2>3, <2>6, <2>7
<1>3. UNCHANGED txs \/ Accept(c)
  BY DEF Step, Answered, ReadNonce, NonceRejected, Refused, Broadcast, BroadcastGarbled,
     ReceiptArrives, ReplacedNoticed, ReceiptTimesOut, WaitGarbled, chainVars
<1> QED  BY <1>1, <1>2, <1>3

LEMMA AtomicStep ==
  ASSUME Reliable, RInv, RInv', [Next]_vars
  PROVE  [AC!Next]_(AC!acvars)
<1>0. TypeOK /\ pc \in [Calls -> Locations] /\ pc' \in [Calls -> Locations]
  BY DEF RInv, IInv, TypeOK
<1>1. ASSUME NEW c \in Calls, Step(c)
      PROVE  [AC!Next]_(AC!acvars)
  <2>1. \A d \in Calls : Applied(d)' <=> Applied(d)
    BY <1>0, <1>1, ClientAppliesNothing
  <2>2. AppliedFn' = AppliedFn
    <3>1. \A d \in Calls : Applied(d) \in BOOLEAN /\ Applied(d)' \in BOOLEAN
      BY DEF Applied
    <3>2. \A d \in Calls : Applied(d)' = Applied(d)
      BY <2>1, <3>1
    <3> QED  BY <3>2 DEF AppliedFn
  <2>3. \A d \in Calls \ {c} : pc'[d] = pc[d]
    BY <1>1, ClientStep DEF RInv
  <2>4. Answer(c) = "none"
    BY <1>1 DEF Answer, Step, Answered, ReadNonce, NonceRejected, Refused, Broadcast,
       BroadcastGarbled, ReceiptArrives, ReplacedNoticed, ReceiptTimesOut, WaitGarbled
  <2>5. AnswerFn' = [AnswerFn EXCEPT ![c] = Answer(c)']
    BY <1>1, <2>3 DEF AnswerFn, Answer
  <2>6. AppliedFn[c] = Applied(c) /\ AnswerFn[c] = "none"
    BY <1>1, <2>4 DEF AppliedFn, AnswerFn
  <2>7. CASE pc'[c] \notin {"returned", "threw"}
    <3>1. AnswerFn' = AnswerFn
      BY <2>4, <2>5, <2>7 DEF Answer, AnswerFn
    <3> QED  BY <2>2, <3>1 DEF AC!acvars, AnswerFn, AppliedFn, Answer
  <2>8. CASE pc'[c] = "returned"
    <3>1. Applied(c)'
      BY <1>1, <2>8 DEF RInv, IInv, ReturnedReceiptIsOwn, Applied, AwaitedTx
    <3>2. Applied(c)
      BY <1>1, <2>1, <3>1
    <3>3. AnswerFn' = [AnswerFn EXCEPT ![c] = "returned"]
      BY <2>5, <2>8 DEF Answer
    <3>4. AC!Return(c)
      BY <2>2, <2>6, <3>2, <3>3 DEF AC!Return, AnswerFn, AppliedFn, Answer
    <3> QED  BY <1>1, <3>4 DEF AC!Next
  <2>9. CASE pc'[c] = "threw"
    <3>1. Alive(c)' = {}
      BY <1>1, <2>9 DEF RInv, AliveByPlace
    <3>2. ~Applied(c)
      <4>1. ~Applied(c)'
        BY <3>1 DEF Applied, Alive
      <4> QED  BY <1>1, <2>1, <4>1
    <3>3. AnswerFn' = [AnswerFn EXCEPT ![c] = "threw"]
      BY <2>5, <2>9 DEF Answer
    <3>4. AC!Throw(c)
      BY <2>2, <2>6, <3>2, <3>3 DEF AC!Throw, AnswerFn, AppliedFn, Answer
    <3> QED  BY <1>1, <3>4 DEF AC!Next
  <2> QED  BY <2>7, <2>8, <2>9
<1>2. CASE Mine
  <2>1. PICK i \in DOMAIN txs, st \in {"mined", "reverted"} :
          /\ txs[i].state = "pool" /\ txs[i].nonce = next
          /\ SetState(i, st) /\ next' = next + 1 /\ UNCHANGED clientVars
    BY <1>0, <1>2, MineFacts
  <2>2. st \in TxState
    BY DEF TxState
  <2>3. /\ DOMAIN txs' = DOMAIN txs /\ txs'[i].state = st
        /\ \A j \in DOMAIN txs :
             /\ txs'[j].call = txs[j].call
             /\ j # i => txs'[j].state = txs[j].state
    BY <1>0, <2>1, <2>2, SetStateFacts
  <2>4. AnswerFn' = AnswerFn
    BY <2>1 DEF AnswerFn, Answer, clientVars
  <2> DEFINE c == txs[i].call
  <2>5. c \in Calls
    <3>1. txs[i] \in Txs
      BY <1>0, <2>1 DEF TypeOK
    <3> QED  BY <3>1 DEF Txs
  <2>6. i \in Alive(c)
    BY <2>1 DEF Alive, Own
  <2>7. ASSUME NEW d \in Calls
        PROVE  Applied(d)' <=> Applied(d) \/ (st = "mined" /\ d = c)
    BY <2>1, <2>3 DEF Applied, Own
  <2>8. CASE st = "reverted"
    <3>1. \A d \in Calls : Applied(d)' = Applied(d)
      BY <2>7, <2>8 DEF Applied
    <3> QED  BY <2>4, <3>1 DEF AC!acvars, AnswerFn, AppliedFn, Answer
  <2>9. CASE st = "mined"
    <3>1. pc[c] = "wait"
      <4>1. pc[c] \in {"wait", "returned"} /\ Alive(c) \subseteq {awaited[c]}
        BY <1>0, <2>5, <2>6 DEF RInv, AliveByPlace, Locations
      <4>2. pc[c] # "returned"
        BY <2>1, <2>5, <2>6, <4>1 DEF RInv, IInv, ReturnedReceiptIsOwn, AwaitedTx
      <4> QED  BY <4>1, <4>2
    <3>2. ~Applied(c)
      <4>1. Alive(c) \subseteq {awaited[c]}
        BY <2>5, <3>1 DEF RInv, AliveByPlace
      <4> QED  BY <2>1, <2>6, <4>1 DEF Applied, Alive
    <3>3. \A d \in Calls : Applied(d)' = IF d = c THEN TRUE ELSE Applied(d)
      BY <2>7, <2>9 DEF Applied
    <3>4. AppliedFn' = [AppliedFn EXCEPT ![c] = TRUE]
      BY <2>5, <3>3 DEF AppliedFn
    <3>5. AnswerFn[c] = "none" /\ AppliedFn[c] = FALSE
      BY <2>5, <3>1, <3>2 DEF AnswerFn, Answer, AppliedFn, Applied
    <3>6. AC!Apply(c)
      BY <2>4, <3>4, <3>5 DEF AC!Apply, AnswerFn, AppliedFn, Answer
    <3> QED  BY <2>5, <3>6 DEF AC!Next
  <2> QED  BY <2>8, <2>9
<1>3. CASE UNCHANGED vars
  BY <1>3 DEF vars, AC!acvars, Applied, Own
<1> QED  BY <1>1, <1>2, <1>3 DEF Next, Evict, Reliable

\* On a reliable chain sendTx() and submitTx() implement AtomicCall: the write
\* takes effect at most once, before the call returns, and never after it threw.
THEOREM ImplementsAtomicCall ==
  ASSUME Reliable
  PROVE  Spec => CallIsAtomic
<1>1. Init => AC!Init
  BY DEF Init, AC!Init, Applied, Own
<1>2. RInv /\ RInv' /\ [Next]_vars => [AC!Next]_(AC!acvars)
  BY AtomicStep
<1> QED  BY RInvariance, <1>1, <1>2, PTL DEF Spec, CallIsAtomic, AC!Spec

(***************************************************************************)
(* The budget, on any chain.                                               *)
(***************************************************************************)
\* The attempts a call has used; the one under way counts once it was broadcast.
Used(c) ==
  (attempt[c] - 1) * MaxTries + tries[c] - (IF pc[c] \in {"nonce", "send"} THEN 1 ELSE 0)

BudgetOf(c) == Cardinality(Own(c)) <= Used(c) /\ (c \in SendCalls => attempt[c] = 1)
BudgetInv   == \A c \in Calls : BudgetOf(c)

LEMMA OwnFinite ==
  ASSUME TypeOK, NEW c \in Calls
  PROVE  /\ IsFiniteSet(Own(c)) /\ Cardinality(Own(c)) \in Nat
         /\ \A i : /\ Cardinality(Own(c) \cup {i}) \in Nat
                   /\ Cardinality(Own(c) \cup {i}) <= Cardinality(Own(c)) + 1
<1>1. Own(c) \subseteq 1 .. Len(txs) /\ Len(txs) \in Nat
  BY DEF Own, TypeOK
<1>2. IsFiniteSet(1 .. Len(txs))
  BY <1>1, FS_Interval
<1>3. IsFiniteSet(Own(c))
  BY <1>1, <1>2, FS_Subset
<1>4. Cardinality(Own(c)) \in Nat
  BY <1>3, FS_CardinalityType
<1>5. ASSUME NEW i
      PROVE  /\ Cardinality(Own(c) \cup {i}) \in Nat
             /\ Cardinality(Own(c) \cup {i}) <= Cardinality(Own(c)) + 1
  <2>1. Cardinality(Own(c) \cup {i}) =
          IF i \in Own(c) THEN Cardinality(Own(c)) ELSE Cardinality(Own(c)) + 1
    BY <1>3, FS_AddElement
  <2> QED  BY <1>4, <2>1
<1> QED  BY <1>3, <1>4, <1>5, Zenon

\* An accepted transaction is one more of its call's.
LEMMA OwnAfterAccept ==
  ASSUME TypeOK, NEW c \in Calls, Accept(c)
  PROVE  /\ Own(c)' = Own(c) \cup {Len(txs) + 1}
         /\ \A d \in Calls \ {c} : Own(d)' = Own(d)
<1>1. /\ DOMAIN txs' = 1 .. Len(txs) + 1 /\ DOMAIN txs = 1 .. Len(txs) /\ Len(txs) \in Nat
      /\ txs'[Len(txs) + 1].call = c
      /\ \A i \in 1 .. Len(txs) : txs'[i].call = txs[i].call
  <2>1. txs'[Len(txs) + 1] = [call |-> c, nonce |-> nonceRead[c], state |-> "pool"]
    BY AcceptFacts
  <2>2. /\ DOMAIN txs' = 1 .. Len(txs) + 1 /\ DOMAIN txs = 1 .. Len(txs) /\ Len(txs) \in Nat
        /\ \A i \in 1 .. Len(txs) : txs'[i].call = txs[i].call
    BY AcceptFacts, Zenon
  <2> QED  BY <2>1, <2>2
<1>2. DOMAIN txs' = DOMAIN txs \cup {Len(txs) + 1}
  BY <1>1
<1> QED  BY <1>1, <1>2 DEF Own

\* A call's other attempts cost what its loops allow.
LEMMA UsedUp ==
  ASSUME NEW a \in Nat, NEW t \in Nat, NEW m \in Nat, t <= m
  PROVE  /\ (a - 1) * m \in Int
         /\ (a - 1) * m + t <= (a + 1 - 1) * m + 1 - 1
<1>1. \A x, y \in Int : (x - 1) * y \in Int /\ (x - 1) * y + y = x * y
  BY SMT
<1>2. (a - 1) * m + m = a * m /\ a + 1 - 1 = a /\ (a - 1) * m \in Int /\ a * m \in Int
  BY <1>1
<1> QED  BY <1>2

\* A call moves on without a broadcast, or with one.
LEMMA BudgetStep ==
  ASSUME TypeOK, BudgetInv, NEW c \in Calls, Step(c)
  PROVE  BudgetOf(c)' /\ \A d \in Calls \ {c} : BudgetOf(d)'
<1>1. /\ tries[c] \in Nat /\ attempt[c] \in Nat /\ tries[c] <= MaxTries /\ MaxTries \in Nat
      /\ BudgetOf(c)
  BY BudgetAssumption DEF TypeOK, BudgetInv
<1>2. (attempt[c] - 1) * MaxTries \in Int
  BY <1>1, UsedUp
<1>3. c \in SubmitCalls => c \notin SendCalls
  BY CallsAssumption
<1>4. Cardinality(Own(c)) \in Nat
  BY OwnFinite
<1>5. ASSUME RetryOrThrow(c), NEW n \in Nat,
             n <= (attempt[c] - 1) * MaxTries + tries[c], Cardinality(Own(c)') = n
      PROVE  BudgetOf(c)'
  <2>1. /\ attempt'[c] = attempt[c]
        /\ \/ pc'[c] = "nonce" /\ tries'[c] = tries[c] + 1
           \/ pc'[c] = "threw" /\ tries'[c] = tries[c]
    BY <1>5 DEF RetryOrThrow, Goto, TypeOK
  <2> QED  BY <1>1, <1>2, <1>5, <2>1 DEF BudgetOf, Used
<1>6. ASSUME ResubmitOrThrow(c), c \in SubmitCalls, pc[c] = "wait", UNCHANGED txs
      PROVE  BudgetOf(c)'
  <2>1. Own(c)' = Own(c)
    BY <1>6 DEF Own
  <2>2. CASE attempt'[c] = attempt[c] + 1 /\ tries'[c] = 1 /\ pc'[c] = "nonce"
    <3>1. (attempt[c] - 1) * MaxTries + tries[c] <= (attempt'[c] - 1) * MaxTries + 1 - 1
      BY <1>1, <2>2, UsedUp
    <3>2. (attempt'[c] - 1) * MaxTries \in Int
      BY <1>1, <2>2, UsedUp
    <3> QED  BY <1>1, <1>2, <1>3, <1>4, <1>6, <2>1, <2>2, <3>1, <3>2 DEF BudgetOf, Used
  <2>3. CASE attempt'[c] = attempt[c] /\ tries'[c] = tries[c] /\ pc'[c] = "threw"
    BY <1>1, <1>2, <1>4, <1>6, <2>1, <2>3 DEF BudgetOf, Used
  <2> QED  BY <1>6, <2>2, <2>3 DEF ResubmitOrThrow, Goto, TypeOK
<1>7. ASSUME Accept(c)
      PROVE  /\ Cardinality(Own(c)') \in Nat
             /\ Cardinality(Own(c)') <= Cardinality(Own(c)) + 1
  BY <1>7, OwnFinite, OwnAfterAccept
<1>8. BudgetOf(c)'
  <2>1. CASE ReadNonce(c) \/ Refused(c) \/ ReceiptArrives(c)
    <3>1. /\ UNCHANGED <<tries, attempt, txs>> /\ Own(c)' = Own(c)
          /\ pc'[c] \in {"nonce", "send"} => pc[c] \in {"nonce", "send"}
      BY <2>1 DEF ReadNonce, Refused, ReceiptArrives, Goto, TypeOK, chainVars, Own
    <3> QED  BY <1>1, <1>2, <1>4, <3>1 DEF BudgetOf, Used
  <2>2. CASE NonceRejected(c)
    <3>1. RetryOrThrow(c) /\ Own(c)' = Own(c) /\ pc[c] = "send"
      BY <2>2 DEF NonceRejected, chainVars, Own
    <3> QED  BY <1>1, <1>2, <1>4, <1>5, <3>1 DEF BudgetOf, Used
  <2>3. CASE Broadcast(c)
    <3>1. /\ Accept(c) /\ UNCHANGED <<tries, attempt>> /\ pc[c] = "send" /\ pc'[c] = "wait"
      BY <2>3 DEF Broadcast, Goto, TypeOK
    <3> QED  BY <1>1, <1>2, <1>4, <1>7, <3>1 DEF BudgetOf, Used
  <2>4. CASE BroadcastGarbled(c)
    <3>1. RetryOrThrow(c) /\ pc[c] = "send" /\ (Accept(c) \/ UNCHANGED chainVars)
      BY <2>4 DEF BroadcastGarbled
    <3>2. /\ Cardinality(Own(c)') \in Nat
          /\ Cardinality(Own(c)') <= Cardinality(Own(c)) + 1
      <4>1. CASE Accept(c)
        BY <1>7, <4>1
      <4>2. CASE UNCHANGED chainVars
        <5>1. Own(c)' = Own(c)
          BY <4>2 DEF chainVars, Own
        <5> QED  BY <1>4, <5>1
      <4> QED  BY <3>1, <4>1, <4>2
    <3> QED  BY <1>1, <1>2, <1>4, <1>5, <3>1, <3>2 DEF BudgetOf, Used
  <2>5. CASE ReplacedNoticed(c)
    <3>1. /\ pc[c] = "wait" /\ UNCHANGED txs /\ Own(c)' = Own(c)
          /\ (c \in SubmitCalls /\ ResubmitOrThrow(c)) \/ RetryOrThrow(c)
      BY <2>5 DEF ReplacedNoticed, chainVars, Own
    <3> QED  BY <1>1, <1>2, <1>4, <1>5, <1>6, <3>1 DEF BudgetOf, Used
  <2>6. CASE ReceiptTimesOut(c) \/ WaitGarbled(c)
    <3>1. /\ pc[c] = "wait" /\ UNCHANGED txs /\ Own(c)' = Own(c)
          /\ \/ c \in SubmitCalls /\ ResubmitOrThrow(c)
             \/ RetryOrThrow(c)
             \/ UNCHANGED <<tries, attempt>> /\ pc'[c] = "threw"
      BY <2>6 DEF ReceiptTimesOut, WaitGarbled, Goto, TypeOK, chainVars, Own
    <3> QED  BY <1>1, <1>2, <1>4, <1>5, <1>6, <3>1 DEF BudgetOf, Used
  <2> QED  BY <2>1, <2>2, <2>3, <2>4, <2>5, <2>6 DEF Step, Answered
<1>9. ASSUME NEW d \in Calls \ {c}
      PROVE  BudgetOf(d)'
  <2>1. Own(d)' = Own(d)
    <3>1. Accept(c) \/ UNCHANGED chainVars
      BY DEF Step, Answered, ReadNonce, NonceRejected, Refused, Broadcast, BroadcastGarbled,
             ReceiptArrives, ReplacedNoticed, ReceiptTimesOut, WaitGarbled
    <3> QED  BY <3>1, OwnAfterAccept DEF chainVars, Own
  <2>2. tries'[d] = tries[d] /\ attempt'[d] = attempt[d] /\ pc'[d] = pc[d]
    BY DEF Step, Answered, ReadNonce, NonceRejected, Refused, Broadcast, BroadcastGarbled,
           ReceiptArrives, ReplacedNoticed, ReceiptTimesOut, WaitGarbled, RetryOrThrow,
           ResubmitOrThrow, Goto, TypeOK
  <2> QED  BY <2>1, <2>2 DEF BudgetOf, Used, BudgetInv
<1> QED  BY <1>8, <1>9

\* No chain, however slow, flaky or forgetful, makes a call broadcast more often
\* than its nested retry loops allow.
THEOREM BroadcastsWithinBudget == Spec => []BroadcastBudget
<1>1. Init => BudgetInv
  <2> SUFFICES ASSUME Init, NEW c \in Calls PROVE BudgetOf(c)
    BY DEF BudgetInv
  <2>1. Own(c) = {}
    BY DEF Init, Own
  <2>2. attempt[c] = 1 /\ tries[c] = 1 /\ pc[c] = "nonce" /\ MaxTries \in Nat
    BY BudgetAssumption DEF Init
  <2> QED  BY <2>1, <2>2, FS_EmptySet DEF BudgetOf, Used
<1>2. TypeOK /\ BudgetInv /\ [Next]_vars => BudgetInv'
  <2> SUFFICES ASSUME TypeOK, BudgetInv, [Next]_vars PROVE BudgetInv'
    OBVIOUS
  <2>1. CASE \E c \in Calls : Step(c)
    BY <2>1, BudgetStep DEF BudgetInv
  <2>2. CASE Mine \/ Evict \/ UNCHANGED vars
    <3>1. UNCHANGED clientVars
      BY <2>2 DEF Mine, Evict, vars, clientVars
    <3>2. DOMAIN txs' = DOMAIN txs /\ \A i \in DOMAIN txs : txs'[i].call = txs[i].call
      <4>1. CASE Mine \/ Evict
        <5>1. PICK i \in DOMAIN txs, st \in {"mined", "reverted", "displaced"} : SetState(i, st)
          BY <4>1 DEF Mine, Evict
        <5> QED  BY <5>1, SetStateFacts DEF TxState
      <4> QED  BY <2>2, <4>1 DEF vars
    <3>3. \A c \in Calls : Own(c)' = Own(c)
      BY <3>2 DEF Own
    <3> QED  BY <3>1, <3>3 DEF BudgetInv, BudgetOf, Used, clientVars
  <2> QED  BY <2>1, <2>2 DEF Next
<1>3. TypeOK /\ BudgetInv => BroadcastBudget
  <2> SUFFICES ASSUME TypeOK, BudgetInv, NEW c \in Calls
               PROVE  Cardinality(Own(c)) <=
                        MaxTries * (IF c \in SubmitCalls THEN MaxDisplaced ELSE 1)
    BY DEF BroadcastBudget
  <2>1. /\ tries[c] \in 1 .. MaxTries /\ attempt[c] \in 1 .. MaxDisplaced
        /\ MaxTries \in Nat /\ MaxDisplaced \in Nat /\ BudgetOf(c)
    BY BudgetAssumption DEF TypeOK, BudgetInv
  <2>2. Cardinality(Own(c)) \in Nat
    BY OwnFinite
  <2>3. (attempt[c] - 1) * MaxTries \in Int
    BY <2>1, UsedUp
  <2>4. Cardinality(Own(c)) <= (attempt[c] - 1) * MaxTries + MaxTries
    BY <2>1, <2>2, <2>3 DEF BudgetOf, Used
  <2>5. \A a, b, m \in Nat : a <= b => (a - 1) * m + m <= m * b
    BY SMT
  <2>6. CASE c \in SubmitCalls
    <3>1. (attempt[c] - 1) * MaxTries + MaxTries <= MaxTries * MaxDisplaced
      BY <2>1, <2>5
    <3>2. MaxTries * MaxDisplaced \in Nat
      BY <2>1
    <3> QED  BY <2>1, <2>2, <2>3, <2>4, <2>6, <3>1, <3>2
  <2>7. CASE c \notin SubmitCalls
    <3>1. attempt[c] = 1
      BY <2>1, <2>7 DEF BudgetOf, Calls
    <3> QED  BY <2>1, <2>2, <2>4, <2>7, <3>1
  <2> QED  BY <2>6, <2>7
<1> QED  BY <1>1, <1>2, <1>3, TypeCorrect, PTL DEF Spec

=============================================================================
