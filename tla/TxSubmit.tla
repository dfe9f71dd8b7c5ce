------------------------------ MODULE TxSubmit ------------------------------
(***************************************************************************)
(* sendTx() and submitTx() of src/utils/common.ts: concurrent calls that   *)
(* sign with the same wallet, against a node that keeps one pooled         *)
(* transaction per nonce.  A call reads the wallet's pending nonce,        *)
(* broadcasts, and races the receipt against a timer; each await is a      *)
(* point where the other calls and the chain may step in.                  *)
(* The three environment constants say which faults the chain may show;    *)
(* with all of them FALSE only nonce races and replacements remain.        *)
(***************************************************************************)
EXTENDS Integers, Sequences, FiniteSets

CONSTANTS
  SubmitCalls,   \* calls of submitTx()
  SendCalls,     \* calls of sendTx()
  MaxTries,      \* attempts of retry(): 5 in the code
  MaxDisplaced,  \* maxDisplacedRetries of submitTx(): 5 in the code
  SlowChain,     \* a receipt may take longer than RECEIPT_TIMEOUT_MS
  FlakyRpc,      \* the node's answer may be garbage (BAD_DATA)
  Evicts         \* the pool may lose a transaction

ASSUME CallsAssumption ==
  SubmitCalls \cap SendCalls = {} /\ IsFiniteSet(SubmitCalls \cup SendCalls)
ASSUME BudgetAssumption == MaxTries \in Nat \ {0} /\ MaxDisplaced \in Nat \ {0}
ASSUME FaultsAssumption ==
  SlowChain \in BOOLEAN /\ FlakyRpc \in BOOLEAN /\ Evicts \in BOOLEAN

Calls == SubmitCalls \cup SendCalls

VARIABLES
  pc,         \* where each call is
  tries,      \* attempt of the current retry()
  attempt,    \* attempt of submitTx()'s outer loop
  nonceRead,  \* pending nonce the signer has fetched for this broadcast
  awaited,    \* index in txs of the transaction waited for, 0 if none
  givenUp,    \* history: transactions whose receipt timer fired
  txs,        \* every transaction the node accepted, in order
  next        \* the wallet's next nonce to be mined

clientVars == <<pc, tries, attempt, nonceRead, awaited, givenUp>>
chainVars  == <<txs, next>>
vars == <<pc, tries, attempt, nonceRead, awaited, givenUp, txs, next>>

Locations == {"nonce", "send", "wait", "returned", "threw"}
TxState   == {"pool", "mined", "reverted", "displaced"}
Txs       == [call : Calls, nonce : Nat, state : TxState]

InPool(n) == \E i \in DOMAIN txs : txs[i].nonce = n /\ txs[i].state = "pool"

\* Some nonce before n is neither mined nor pooled: n cannot be mined yet.
Gapped(n)       == \E m \in next .. n - 1 : ~InPool(m)
PendingNonce(n) == ~InPool(n) /\ ~Gapped(n)

Init ==
  /\ pc = [c \in Calls |-> "nonce"]
  /\ tries = [c \in Calls |-> 1] /\ attempt = [c \in Calls |-> 1]
  /\ nonceRead = [c \in Calls |-> 0] /\ awaited = [c \in Calls |-> 0]
  /\ givenUp = {} /\ txs = << >> /\ next = 0

Goto(c, l) == pc' = [pc EXCEPT ![c] = l]

(***************************************************************************)
(* retry(): a retryable error (isNonceError, isTransientRpcError) starts   *)
(* the factory again while attempts last, and is thrown by the last one.   *)
(***************************************************************************)
\* Mutant: one attempt too many.
RetryOnceMore(c) ==
  /\ IF tries[c] <= MaxTries
       THEN Goto(c, "nonce") /\ tries' = [tries EXCEPT ![c] = @ + 1]
       ELSE Goto(c, "threw") /\ UNCHANGED tries
  /\ UNCHANGED attempt

RetryOrThrow(c) ==
  /\ IF tries[c] < MaxTries
       THEN Goto(c, "nonce") /\ tries' = [tries EXCEPT ![c] = @ + 1]
       ELSE Goto(c, "threw") /\ UNCHANGED tries
  /\ UNCHANGED attempt

\* submitTx()'s catch: resubmit with a fresh retry(), or rethrow.
ResubmitOrThrow(c) ==
  IF attempt[c] < MaxDisplaced
    THEN /\ Goto(c, "nonce")
         /\ attempt' = [attempt EXCEPT ![c] = @ + 1]
         /\ tries' = [tries EXCEPT ![c] = 1]
    ELSE Goto(c, "threw") /\ UNCHANGED <<attempt, tries>>

(***************************************************************************)
(* txFactory(): fetch the pending nonce, then broadcast.                   *)
(***************************************************************************)
ReadNonce(c) ==
  /\ pc[c] = "nonce"
  /\ \E n \in next .. next + Len(txs) :
       PendingNonce(n) /\ nonceRead' = [nonceRead EXCEPT ![c] = n]
  /\ Goto(c, "send")
  /\ UNCHANGED <<tries, attempt, awaited, givenUp, chainVars>>

\* The node refuses with a nonce error: the nonce is mined already, or a
\* pooled transaction has it and the fee is too low to replace it.
NonceRejected(c) ==
  /\ pc[c] = "send"
  /\ nonceRead[c] < next \/ InPool(nonceRead[c])
  /\ RetryOrThrow(c)
  /\ UNCHANGED <<nonceRead, awaited, givenUp, chainVars>>

\* Any other refusal (gas estimation reverts, no funds) is not retryable.
Refused(c) ==
  /\ pc[c] = "send"
  /\ Goto(c, "threw")
  /\ UNCHANGED <<tries, attempt, nonceRead, awaited, givenUp, chainVars>>

\* The pool takes the transaction, in place of one with the same nonce.
Accept(c) ==
  /\ nonceRead[c] >= next
  /\ txs' = Append(
       [i \in DOMAIN txs |->
          IF txs[i].nonce = nonceRead[c] /\ txs[i].state = "pool"
            THEN [txs[i] EXCEPT !.state = "displaced"] ELSE txs[i]],
       [call |-> c, nonce |-> nonceRead[c], state |-> "pool"])
  /\ UNCHANGED next

Broadcast(c) ==
  /\ pc[c] = "send"
  /\ Accept(c)
  /\ awaited' = [awaited EXCEPT ![c] = Len(txs) + 1]
  /\ Goto(c, "wait")
  /\ UNCHANGED <<tries, attempt, nonceRead, givenUp>>

\* The answer is garbage, whether or not the node accepted the transaction.
BroadcastGarbled(c) ==
  /\ FlakyRpc /\ pc[c] = "send"
  /\ Accept(c) \/ UNCHANGED chainVars
  /\ RetryOrThrow(c)
  /\ UNCHANGED <<nonceRead, awaited, givenUp>>

(***************************************************************************)
(* waitForReceipt(): response.wait() against the timer.                    *)
(***************************************************************************)
AwaitedTx(c) == txs[awaited[c]]

\* Mutant: the receipt's status is not looked at.
ReceiptOfAnyStatus(c) ==
  /\ pc[c] = "wait"
  /\ AwaitedTx(c).state \in {"mined", "reverted"} /\ Goto(c, "returned")
  /\ UNCHANGED <<tries, attempt, nonceRead, awaited, givenUp, chainVars>>

ReceiptArrives(c) ==
  /\ pc[c] = "wait"
  /\ \/ AwaitedTx(c).state = "mined" /\ Goto(c, "returned")
     \/ AwaitedTx(c).state = "reverted" /\ Goto(c, "threw")
  /\ UNCHANGED <<tries, attempt, nonceRead, awaited, givenUp, chainVars>>

\* wait() sees another transaction mined under this nonce: submitTx()
\* resubmits, for sendTx() it is a nonce error of its retry().
ReplacedNoticed(c) ==
  /\ pc[c] = "wait" /\ AwaitedTx(c).state = "displaced"
  /\ AwaitedTx(c).nonce < next
  /\ IF c \in SubmitCalls THEN ResubmitOrThrow(c) ELSE RetryOrThrow(c)
  /\ UNCHANGED <<nonceRead, awaited, givenUp, chainVars>>

\* The timer fires first.  Only submitTx() resubmits.
\* Mutants: the timer is shorter than the time a receipt takes; it is not set.
ReceiptTimesOutEarly(c) ==
  /\ pc[c] = "wait"
  /\ givenUp' = givenUp \cup {awaited[c]}
  /\ IF c \in SubmitCalls THEN ResubmitOrThrow(c)
     ELSE Goto(c, "threw") /\ UNCHANGED <<tries, attempt>>
  /\ UNCHANGED <<nonceRead, awaited, chainVars>>

NoTimer(c) == FALSE

ReceiptTimesOut(c) ==
  /\ pc[c] = "wait"
  /\ SlowChain \/ AwaitedTx(c).state = "displaced" \/ Gapped(AwaitedTx(c).nonce)
  /\ givenUp' = givenUp \cup {awaited[c]}
  /\ IF c \in SubmitCalls THEN ResubmitOrThrow(c)
     ELSE Goto(c, "threw") /\ UNCHANGED <<tries, attempt>>
  /\ UNCHANGED <<nonceRead, awaited, chainVars>>

\* A garbled answer while polling for the receipt: a retryable error inside
\* sendTx()'s retry(), outside submitTx()'s.
WaitGarbled(c) ==
  /\ FlakyRpc /\ pc[c] = "wait"
  /\ IF c \in SendCalls THEN RetryOrThrow(c)
     ELSE Goto(c, "threw") /\ UNCHANGED <<tries, attempt>>
  /\ UNCHANGED <<nonceRead, awaited, givenUp, chainVars>>

(***************************************************************************)
(* The chain.                                                              *)
(***************************************************************************)
SetState(i, st) == txs' = [txs EXCEPT ![i].state = st]

Mine ==
  \E i \in DOMAIN txs :
    /\ txs[i].state = "pool" /\ txs[i].nonce = next
    /\ \E st \in {"mined", "reverted"} : SetState(i, st)
    /\ next' = next + 1
    /\ UNCHANGED clientVars

Evict ==
  /\ Evicts
  /\ \E i \in DOMAIN txs : txs[i].state = "pool" /\ SetState(i, "displaced")
  /\ UNCHANGED <<clientVars, next>>

Answered(c) ==
  \/ ReadNonce(c) \/ NonceRejected(c) \/ Refused(c) \/ Broadcast(c)
  \/ ReceiptArrives(c) \/ ReplacedNoticed(c) \/ ReceiptTimesOut(c)
Step(c) == Answered(c) \/ BroadcastGarbled(c) \/ WaitGarbled(c)

Next == (\E c \in Calls : Step(c)) \/ Mine \/ Evict
Spec == Init /\ [][Next]_vars

\* The JavaScript of a call goes on, its timer fires, blocks are produced; no
\* answer has to be garbled.
FairSpec == Spec /\ (\A c \in Calls : WF_vars(Answered(c))) /\ WF_vars(Mine)

=============================================================================
