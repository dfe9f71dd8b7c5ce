---------------------------- MODULE MCFaultSessions ----------------------------
(***************************************************************************)
(* Two tests on one relayer: a crash loop that counts its triggers, as in  *)
(* Enygma_DestRevertCrash_TripleRevertBatch (with two cycles), and one     *)
(* with an error rule of its own at the loop's first point, the waits for  *)
(* parallel neighbours and the clean-up helpers the client offers.         *)
(***************************************************************************)
EXTENDS FaultSessionsProps
CONSTANTS loop, neighbour

MCTests == {loop, neighbour}
MCBody == [t \in MCTests |->
  IF t = loop
    THEN << newSession, arm("mint", "error", "dest", -1), arm("revert", "crash", "", 2), submit,
            waitForCrash, compose("restart"), waitUntilAlive,
            waitForCrash, compose("restart"), waitUntilAlive,
            clearPoint("mint"), triggerCount("revert", 2) >>
    ELSE << newSession, arm("mint", "error", "own", 1), expectArmed("mint"), submit,
            assertLiveAfter("mint"), clearLog, clearAllRules >>]
MCHook == [t \in MCTests |->
  IF t = loop
    THEN << compose("restart"), waitUntilAlive, clear >>
    ELSE << ifDown, ensureRunning, waitForCompose, clear >>]
MCRoute == [t \in MCTests |-> IF t = loop THEN << "mint", "revert" >> ELSE << "mint" >>]
=============================================================================
