---------------------------- MODULE MCBatchSend ----------------------------
(***************************************************************************)
(* Two workers with one signer, each with a batch of three transfers that  *)
(* is sent in chunks of two.                                               *)
(***************************************************************************)
EXTENDS BatchSendProps

CONSTANTS b1, b2

MCCalls == {b1, b2}
MCCount == [c \in MCCalls |-> 3]

=============================================================================
