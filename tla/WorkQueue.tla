------------------------------ MODULE WorkQueue ------------------------------
(***************************************************************************)
(* What a parallel test run promises to whoever started it, whatever the   *)
(* way the files are spread over child processes:                          *)
(*   - a selected file is executed at most once in a run;                  *)
(*   - a run that reports success has executed and passed all of them;     *)
(*   - a run that reports failure leaves no test process behind, and has a *)
(*     failed file to show, or never got as far as starting one.           *)
(* A run may be killed at any point; the next run starts from nothing.     *)
(* ParallelRunner is shown to implement this module.                       *)
(***************************************************************************)
CONSTANT Files          \* test files that exist

VARIABLES
  selected,             \* the files this run has to execute
  status,               \* progress of each file in this run
  verdict               \* what the run has told its caller

wqvars == <<selected, status, verdict>>

Status  == {"todo", "running", "passed", "failed"}
Verdict == {"none", "ok", "fail", "killed"}

Fresh(S) ==
  /\ selected = S
  /\ status = [f \in Files |-> "todo"]
  /\ verdict = "none"

Init == \E S \in SUBSET Files : Fresh(S)

\* The only moves a file makes: it starts once and ends once.
Moves == {<<"todo", "running">>, <<"running", "passed">>, <<"running", "failed">>}

Advance ==
  /\ verdict = "none"
  /\ status' \in [Files -> Status]
  /\ \A f \in Files :
       \/ status'[f] = status[f]
       \/ f \in selected /\ <<status[f], status'[f]>> \in Moves
  /\ UNCHANGED <<selected, verdict>>

\* A verdict can come with the end of the last file, in one step.
Conclude(v) ==
  /\ verdict = "none"
  /\ verdict' = v
  /\ status' \in [Files -> Status]
  /\ \A f \in Files :
       \/ status'[f] = status[f]
       \/ f \in selected /\ status[f] = "running" /\ status'[f] \in {"passed", "failed"}
  /\ \A f \in Files : status'[f] # "running"
  /\ v = "ok" => \A f \in selected : status'[f] = "passed"
  /\ v = "fail" => \/ \E f \in selected : status'[f] = "failed"
                   \/ \A f \in Files : status'[f] = "todo"
  /\ UNCHANGED selected

\* What was running is lost with the run.
Kill ==
  /\ verdict = "none"
  /\ verdict' = "killed"
  /\ status' = [f \in Files |-> IF status[f] = "running" THEN "todo" ELSE status[f]]
  /\ UNCHANGED selected

Again ==
  /\ verdict # "none"
  /\ verdict' = "none"
  /\ status' = [f \in Files |-> "todo"]
  /\ selected' \in SUBSET Files

Next ==
  \/ Advance
  \/ \E v \in {"ok", "fail"} : Conclude(v)
  \/ Kill
  \/ Again

Spec == Init /\ [][Next]_wqvars

=============================================================================
