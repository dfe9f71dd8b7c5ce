------------------------------ MODULE MCTxSubmit ------------------------------
(***************************************************************************)
(* Instances of the two send helpers for TLC: calls are model values.      *)
(***************************************************************************)
EXTENDS TxSubmitProps

CONSTANTS s1, s2, t1
MCTwoSubmits == {s1, s2}
MCOneSubmit  == {s1}
MCOneSend    == {t1}
MCNone       == {}

=============================================================================
