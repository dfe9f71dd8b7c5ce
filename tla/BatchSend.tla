----------------------------- MODULE BatchSend -----------------------------
(***************************************************************************)
(* sendBatchTransactions() (test/test-utils/batch-transactions-helpers.ts) *)
(* with TransactionBuilder.signBatch() and TransactionSender: workers that *)
(* share a signer each send a batch of identical transfers, in chunks, and *)
(* start over with fresh nonces when the node reports a nonce conflict.    *)
(* The node takes the transactions of a chunk one by one, so the chunks of *)
(* two workers interleave.                                                 *)
(***************************************************************************)
EXTENDS Naturals, FiniteSets

CONSTANTS
  Calls,        \* calls of sendBatchTransactions() with one signer
  Count,        \* transfers each call sends
  BatchSize,    \* JSON_RPC_BATCH_SIZE
  MaxAttempts   \* maxAttempts of the retry

ASSUME CallsAssumption == IsFiniteSet(Calls) /\ Count \in [Calls -> Nat \ {0}]
ASSUME BudgetAssumption == BatchSize \in Nat \ {0} /\ MaxAttempts \in Nat \ {0}

VARIABLES
  pc,        \* where each call is: read the nonce, send, returned or threw
  attempt,   \* attempt of the retry
  base,      \* the nonce the attempt's first transaction is signed with
  sent,      \* transactions of the attempt the node has answered
  conflict,  \* a result of the chunk under way is a nonce error
  accepted,  \* what the node accepted: records of nonce, call and attempt
  refused    \* history: the node refused a transaction, not for its nonce

vars == <<pc, attempt, base, sent, conflict, accepted, refused>>

Taken  == {r.nonce : r \in accepted}
Own(c) == {r \in accepted : r.call = c}

Init ==
  /\ pc = [c \in Calls |-> "nonce"]
  /\ attempt = [c \in Calls |-> 1]
  /\ base = [c \in Calls |-> 0] /\ sent = [c \in Calls |-> 0]
  /\ conflict = [c \in Calls |-> FALSE]
  /\ accepted = {} /\ refused = FALSE

\* getTransactionCount(signer, 'pending'): the first nonce that is free.
PendingNonce(n) == n \notin Taken /\ \A m \in 0 .. n - 1 : m \in Taken

ReadNonce(c) ==
  /\ pc[c] = "nonce"
  /\ \E n \in 0 .. Cardinality(accepted) :
       PendingNonce(n) /\ base' = [base EXCEPT ![c] = n]
  /\ sent' = [sent EXCEPT ![c] = 0]
  /\ conflict' = [conflict EXCEPT ![c] = FALSE]
  /\ pc' = [pc EXCEPT ![c] = "send"]
  /\ UNCHANGED <<attempt, accepted, refused>>

(***************************************************************************)
(* One transaction of the chunk reaches the node.                          *)
(***************************************************************************)
\* Mutant: signBatch() increments the nonce before it signs.
NonceFromOne(c) == base[c] + sent[c] + 1

Nonce(c) == base[c] + sent[c]

\* Every result of the chunk is in; the program looks at them only then.
ChunkAnswered(c) == sent[c] > 0 /\ (sent[c] % BatchSize = 0 \/ sent[c] = Count[c])
ChunkOpen(c) ==
  /\ pc[c] = "send" /\ sent[c] < Count[c]
  /\ sent[c] % BatchSize = 0 => ~conflict[c]

Answered(c) == sent' = [sent EXCEPT ![c] = @ + 1]

Accept(c) ==
  /\ ChunkOpen(c) /\ Nonce(c) \notin Taken
  /\ accepted' = accepted \cup {[nonce |-> Nonce(c), call |-> c, attempt |-> attempt[c]]}
  /\ Answered(c)
  /\ UNCHANGED <<pc, attempt, base, conflict, refused>>

\* Mutant: only errors that say "replacement" are nonce errors.
HasNonceErrorIfReplaced(mined) == ~mined

\* hasNonceError(): "nonce too low" once the other transaction is mined,
\* "replacement transaction underpriced" before.
HasNonceError(mined) == TRUE

NonceConflict(c) ==
  /\ ChunkOpen(c) /\ Nonce(c) \in Taken
  /\ \E mined \in BOOLEAN :
       conflict' = [conflict EXCEPT ![c] = @ \/ HasNonceError(mined)]
  /\ Answered(c)
  /\ UNCHANGED <<pc, attempt, base, accepted, refused>>

\* The node has this very transaction, signed alike by an earlier attempt, in
\* its pool: "already known" is not taken for a nonce error.
AlreadyKnown(c) ==
  /\ ChunkOpen(c) /\ \E r \in Own(c) : r.nonce = Nonce(c)
  /\ Answered(c)
  /\ UNCHANGED <<pc, attempt, base, conflict, accepted, refused>>

\* Any other error result is not looked at.
Refused(c) ==
  /\ ChunkOpen(c) /\ Nonce(c) \notin Taken
  /\ refused' = TRUE
  /\ Answered(c)
  /\ UNCHANGED <<pc, attempt, base, conflict, accepted>>

(***************************************************************************)
(* The results of a chunk are inspected: go on, start over, or give up.    *)
(***************************************************************************)
MayRetry(c) == attempt[c] < MaxAttempts

StartsOver(c) ==
  /\ pc[c] = "send" /\ ChunkAnswered(c) /\ conflict[c] /\ MayRetry(c)
  /\ attempt' = [attempt EXCEPT ![c] = @ + 1]
  /\ pc' = [pc EXCEPT ![c] = "nonce"]
  /\ UNCHANGED <<base, sent, conflict, accepted, refused>>

GivesUp(c) ==
  /\ pc[c] = "send" /\ ChunkAnswered(c) /\ conflict[c] /\ ~MayRetry(c)
  /\ pc' = [pc EXCEPT ![c] = "threw"]
  /\ UNCHANGED <<attempt, base, sent, conflict, accepted, refused>>

\* Mutant: every error is retried.
RetryIfAny(error) == TRUE

RetryIf(error) == error = "nonce conflict"

\* The request for the chunk fails or its answer is lost, whatever part of it the
\* node took.
HttpFails(c) ==
  /\ pc[c] = "send"
  /\ IF RetryIf("http") /\ MayRetry(c)
       THEN /\ attempt' = [attempt EXCEPT ![c] = @ + 1]
            /\ pc' = [pc EXCEPT ![c] = "nonce"]
       ELSE pc' = [pc EXCEPT ![c] = "threw"] /\ UNCHANGED attempt
  /\ UNCHANGED <<base, sent, conflict, accepted, refused>>

AllSent(c) ==
  /\ pc[c] = "send" /\ sent[c] = Count[c] /\ ~conflict[c]
  /\ pc' = [pc EXCEPT ![c] = "returned"]
  /\ UNCHANGED <<attempt, base, sent, conflict, accepted, refused>>

Item(c) == Accept(c) \/ NonceConflict(c) \/ AlreadyKnown(c) \/ Refused(c)
Step(c) == ReadNonce(c) \/ Item(c) \/ StartsOver(c) \/ GivesUp(c) \/ HttpFails(c)
           \/ AllSent(c)

Next == \E c \in Calls : Step(c)

Spec == Init /\ [][Next]_vars

=============================================================================
