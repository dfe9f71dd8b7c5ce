-------------------------- MODULE MCParallelRunner --------------------------
(***************************************************************************)
(* An instance of the parallel runner for TLC: one file is @serial, three  *)
(* parallel ones compete for two slots (two of them with equal durations), *)
(* and the @smoke selection is empty.                                      *)
(***************************************************************************)
EXTENDS ParallelRunnerProps

MCFiles        == 1 .. 4
MCSerialTagged == {1}
MCSmokeTagged  == {}
MCDuration     == [f \in MCFiles |-> IF f = 4 THEN 9 ELSE 3]

=============================================================================
