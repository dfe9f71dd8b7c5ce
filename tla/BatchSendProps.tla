--------------------------- MODULE BatchSendProps ---------------------------
(***************************************************************************)
(* Properties of sendBatchTransactions().                                  *)
(***************************************************************************)
EXTENDS BatchSend

\* Every variable has its type.
TypeOK ==
  /\ pc \in [Calls -> {"nonce", "send", "returned", "threw"}]
  /\ attempt \in [Calls -> 1 .. MaxAttempts]
  /\ base \in [Calls -> Nat] /\ sent \in [Calls -> Nat]
  /\ conflict \in [Calls -> BOOLEAN] /\ refused \in BOOLEAN
  /\ accepted \subseteq [nonce : Nat, call : Calls, attempt : 1 .. MaxAttempts]

\* The racing batches of a signer never leave a hole in its nonces, behind
\* which every later transaction of the wallet would wait, unless the node has
\* refused one for another reason.
Contiguous == \A n \in Taken : \A m \in 0 .. n : m \in Taken
NoNonceGap == ~refused => Contiguous

\* A call that returns had all transfers of its last attempt accepted, unless
\* the node has refused one: a conflict in any chunk is noticed.
ReturnedMeansSent ==
  ~refused => \A c \in Calls : pc[c] = "returned" =>
    Cardinality({r \in Own(c) : r.attempt = attempt[c]}) = Count[c]

\* What a call sends too much is bounded: every attempt that is started over
\* had at least one transaction rejected, so a batch of one is sent once.
OverSendBound ==
  \A c \in Calls :
    Cardinality(Own(c)) <= Count[c] + (attempt[c] - 1) * (Count[c] - 1)

=============================================================================
