------------------------- MODULE ParallelRunnerProps -------------------------
(***************************************************************************)
(* Properties of the parallel runner, and its refinement of WorkQueue.     *)
(***************************************************************************)
EXTENDS ParallelRunner

\* Every variable has its type; queuePos overshoots the queue by at most one
\* failed pull per slot.
TypeOK ==
  /\ opts \in Options /\ phase \in Phases
  /\ outcome \in [Files -> Outcomes]
  /\ slotState \in [Slots -> {"idle", "waiting", "running", "done"}]
  /\ slotFile \in [Slots -> Files \cup {NoFile}]
  /\ runIndex \in [Slots -> Nat]
  /\ queue = << >> \/ queue \in [0 .. Total - 1 -> Parallel]
  /\ queuePos \in Nat
  /\ bailFlag \in BOOLEAN /\ exitCode \in {NoExit, 0, 1}
  /\ wrote \subseteq Files
  /\ run \in 1 .. MaxRuns /\ unmerged \subseteq 1 .. MaxRuns

Running == {s \in Slots : slotState[s] = "running"}
Dispatched == {f \in Parallel : outcome[f] # "todo" \/ \E s \in Running : slotFile[s] = f}

(***************************************************************************)
(* Safety                                                                  *)
(***************************************************************************)

\* The exit code is 0 only if a child ran every selected file and passed
\* (run(), "All tests passed"): whichever slots pulled, stalled or bailed.
SuccessMeansAllPassed ==
  exitCode = 0 => \A f \in Selected : outcome[f] = "passed"

\* The cursor and the slots agree: while the parallel phase lasts the
\* dispatched files are exactly the queue's prefix below the cursor, and no
\* two slots hold the same file (the claim of the comment above queuePos).
QueuePrefixDispatched ==
  phase = "parallel" =>
    /\ Dispatched = {queue[i] : i \in {j \in DOMAIN queue : j < queuePos}}
    /\ \A s, t \in Running : slotFile[s] = slotFile[t] => s = t

\* No child outlives the runner when it exits by itself: a bail or a failure
\* waits for the children of the other slots.
NoChildLeftBehind == phase = "exited" => Running = {}

\* Serial files run alone: a parallel child exists only when every serial
\* file has passed in this run.
ParallelOnlyAfterSerialPassed ==
  Running # {} => \A f \in Serial : outcome[f] = "passed"

\* Without --bail one failing parallel file costs no other file its run.
FailureWithoutBailRunsAll ==
  /\ phase = "exited" /\ ~opts.bail
  /\ \A f \in Serial : outcome[f] = "passed"
  /\ \E f \in Selected : outcome[f] # "todo"
  => \A f \in Selected : outcome[f] # "todo"

\* When the final merge has consumed the directory, the merged report holds a
\* result for every file whose child reported.
MergedReportComplete ==
  phase = "exited" /\ reports = {} =>
    \A f \in wrote : \E r \in merged : r.run = run /\ f \in r.files

(***************************************************************************)
(* Action properties                                                       *)
(***************************************************************************)

\* From the failure that sets bailFlag on, that step included, no slot starts
\* another file: not one that wakes late, nor one whose child passes later.
BailStopsDispatch == [][bailFlag' => Dispatched' \subseteq Dispatched]_vars

\* A merge takes in a report of an earlier run only if that run was killed,
\* never merged, or failed to merge.
StaleReportOnlyFromUnmergedRun ==
  [][merged' # merged => \A r \in merged' : r.run = run \/ r.run \in unmerged]_vars

(***************************************************************************)
(* Liveness                                                                *)
(***************************************************************************)

\* Every run ends (main's promise chain always settles), unless it is killed.
RunEnds == phase = "bootstrap" ~> phase \in {"exited", "killed"}

(***************************************************************************)
(* Refinement                                                              *)
(***************************************************************************)
StatusOf(f) ==
  IF outcome[f] # "todo" THEN outcome[f]
  ELSE IF \/ phase = "serial" /\ f \in Serial
          \/ phase # "killed" /\ \E s \in Running : slotFile[s] = f
       THEN "running" ELSE "todo"

Status == [f \in Files |-> StatusOf(f)]

Verdict ==
  IF phase = "killed" THEN "killed"
  ELSE IF exitCode = 0 THEN "ok" ELSE IF exitCode = 1 THEN "fail" ELSE "none"

WQ == INSTANCE WorkQueue WITH selected <- Selected, status <- Status, verdict <- Verdict

\* The runner keeps the promises of WorkQueue.
RunsTheQueue == WQ!Spec

=============================================================================
