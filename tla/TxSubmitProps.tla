---------------------------- MODULE TxSubmitProps ----------------------------
(***************************************************************************)
(* Properties of sendTx() and submitTx(), and their refinement of          *)
(* AtomicCall when the chain is reliable.                                  *)
(***************************************************************************)
EXTENDS TxSubmit

\* Every variable has its type.
TypeOK ==
  /\ pc \in [Calls -> Locations]
  /\ tries \in [Calls -> 1 .. MaxTries] /\ attempt \in [Calls -> 1 .. MaxDisplaced]
  /\ nonceRead \in [Calls -> Nat]
  /\ awaited \in [Calls -> Nat]
  /\ \A c \in Calls : awaited[c] \in 0 .. Len(txs)
  /\ givenUp \subseteq 1 .. Len(txs)
  /\ txs \in Seq(Txs) /\ next \in Nat

Own(c)     == {i \in DOMAIN txs : txs[i].call = c}
Alive(c)   == {i \in Own(c) : txs[i].state \in {"pool", "mined"}}
Applied(c) == \E i \in Own(c) : txs[i].state = "mined"

(***************************************************************************)
(* Safety                                                                  *)
(***************************************************************************)

\* A call that returns hands back the receipt of a transaction of its own
\* that was mined with status 1, whatever else the wallet's calls did.
ReturnedReceiptIsOwn ==
  \A c \in Calls : pc[c] = "returned" =>
    awaited[c] \in Own(c) /\ AwaitedTx(c).state = "mined"

\* No call broadcasts more often than its attempts allow: MaxTries for
\* sendTx(), MaxTries * MaxDisplaced for submitTx(), on any chain.
BroadcastBudget ==
  \A c \in Calls :
    Cardinality(Own(c)) <= MaxTries * (IF c \in SubmitCalls THEN MaxDisplaced ELSE 1)

\* On a reliable chain a call never has two transactions that took or can
\* still take effect, and none once it has thrown.
AtMostOneEffect ==
  \A c \in Calls :
    /\ \A i, j \in Alive(c) : i = j
    /\ pc[c] = "threw" => Alive(c) = {}

\* A transaction is sent twice only after the first is known to be dead: on a
\* reliable chain only a displaced transaction is given up.
GivenUpIsDisplaced == \A i \in givenUp : txs[i].state = "displaced"

(***************************************************************************)
(* Liveness                                                                *)
(***************************************************************************)

\* Every call returns or throws, on any chain: retries are bounded and the
\* timer bounds every wait.
CallSettles == \A c \in Calls : <>(pc[c] \in {"returned", "threw"})

(***************************************************************************)
(* Refinement                                                              *)
(***************************************************************************)
AC == INSTANCE AtomicCall WITH
  answer  <- [c \in Calls |-> IF pc[c] \in {"returned", "threw"} THEN pc[c] ELSE "none"],
  applied <- [c \in Calls |-> Applied(c)]

\* On a reliable chain both helpers are atomic calls.
CallIsAtomic == AC!Spec

=============================================================================
