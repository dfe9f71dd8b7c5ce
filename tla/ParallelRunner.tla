--------------------------- MODULE ParallelRunner ---------------------------
(***************************************************************************)
(* The parallel test runner, scripts/runners/base-parallel-runner.js with  *)
(* its two subclasses.  One run goes through                               *)
(*   bootstrap -> serial child -> relayer recovery -> slots -> merge.      *)
(* The slots are async functions of one JavaScript process that share a    *)
(* queue cursor; each holds one child process at a time.  Code between two *)
(* awaits is one step here: when a child closes, its slot books the result *)
(* and takes the next file in the same step.                               *)
(* Report files stay on disk between runs, so the model runs the program   *)
(* MaxRuns times over one report directory and may kill it at any point.   *)
(***************************************************************************)
EXTENDS Integers, FiniteSets, Functions

CONSTANTS
  Files,          \* the matched test files, numbered in glob order
  SerialTagged,   \* files whose text contains @serial
  SmokeTagged,    \* files whose text contains @smoke
  Duration,       \* how long each file takes, as a report records it
  WorkerCount,    \* PARALLEL_WORKERS (0 also stands for a negative one)
  Staggered,      \* WORKER_STAGGER_MS > 0
  MaxRuns,        \* bound: runs of the program over one report directory
  NoFile          \* "this slot holds no file"

ASSUME FilesAssumption ==
  /\ Files \subseteq Nat /\ Files # {} /\ IsFiniteSet(Files)
  /\ SerialTagged \subseteq Files /\ SmokeTagged \subseteq Files
  /\ Duration \in [Files -> Nat]
  /\ NoFile \notin Files
ASSUME WorkersAssumption == WorkerCount \in Nat
ASSUME OptionsAssumption == Staggered \in BOOLEAN /\ MaxRuns \in Nat \ {0}

VARIABLES
  opts,       \* the command line: --bail, SKIP_BOOTSTRAP, which subclass
  phase,      \* where run() is
  outcome,    \* result of the child that executed each file
  slotState,  \* where each runSlot() is
  slotFile,   \* the file whose child the slot is awaiting
  runIndex,   \* files this slot has finished, part of the report name
  queue,      \* parallel files in dispatch order, fixed when the phase starts
  queuePos,   \* the shared cursor
  bailFlag,
  exitCode,
  wrote,      \* history: files whose child left a report in this run
  reports,    \* worker-*.json on disk
  merged,     \* contents of mochawesome.json
  run,        \* number of this run
  unmerged    \* history: runs that ended without a complete mergeReports()

vars == <<opts, phase, outcome, slotState, slotFile, runIndex, queue, queuePos,
          bailFlag, exitCode, wrote, reports, merged, run, unmerged>>
slotVars   == <<slotState, slotFile, runIndex>>
queueVars  == <<queue, queuePos, bailFlag>>
reportVars == <<wrote, reports, merged>>

Slots    == 0 .. WorkerCount - 1
Options  == [bail : BOOLEAN, skipBootstrap : BOOLEAN, smoke : BOOLEAN]
Outcomes == {"todo", "passed", "failed"}
Phases   == {"bootstrap", "serial", "recovery", "parallel", "exited", "killed"}
NoExit   == -1

(***************************************************************************)
(* partitionFiles() of the two subclasses.                                 *)
(***************************************************************************)
\* Mutant: the serial files stay in the queue.
PartitionWithoutRemoval(smoke) ==
  IF smoke THEN [serial |-> {}, parallel |-> SmokeTagged]
           ELSE [serial |-> SerialTagged, parallel |-> Files]

Partition(smoke) ==
  IF smoke THEN [serial |-> {}, parallel |-> SmokeTagged]
           ELSE [serial |-> SerialTagged, parallel |-> Files \ SerialTagged]

Serial   == Partition(opts.smoke).serial
Parallel == Partition(opts.smoke).parallel
Selected == Serial \cup Parallel
Total    == Cardinality(Parallel)

\* Mutant: a failure counts only under --bail.
FailuresUnderBail == {f \in Parallel : opts.bail /\ outcome[f] = "failed"}

Failures == {f \in Parallel : outcome[f] = "failed"}

(***************************************************************************)
(* Reports.  A child's report is named after its slot and its index in the *)
(* slot, the serial child's after the word serial (slot -1 here); mocha    *)
(* overwrites a file of that name.                                         *)
(***************************************************************************)
ReportTag(s, i) == <<s, i>>
SerialTag == <<-1, 0>>

Write(disk, tag, fs, ok) ==
  {r \in disk : r.tag # tag}
    \cup {[tag |-> tag, run |-> run, files |-> fs, ok |-> ok]}

\* Mutant: the inputs are deleted before the tools have succeeded.
MergeReportsDeletingFirst(disk) ==
  /\ reports' = {}
  /\ \/ disk = {} /\ UNCHANGED <<merged, unmerged>>
     \/ disk # {} /\ merged' = disk /\ UNCHANGED unmerged
     \/ disk # {} /\ UNCHANGED merged /\ unmerged' = unmerged \cup {run}

\* Mutant: merged inputs are left on disk.
MergeReportsKeepingInputs(disk) ==
  /\ reports' = disk
  /\ \/ disk = {} /\ UNCHANGED <<merged, unmerged>>
     \/ disk # {} /\ merged' = disk /\ UNCHANGED unmerged

\* mergeReports() over the directory's contents: nothing to do; both tools
\* succeed and the inputs are deleted; marge fails after the merge; the merge
\* itself fails.  Errors are swallowed.
MergeReports(disk) ==
  \/ disk = {} /\ reports' = {} /\ UNCHANGED <<merged, unmerged>>
  \/ disk # {} /\ reports' = {} /\ merged' = disk /\ UNCHANGED unmerged
  \/ disk # {} /\ reports' = disk /\ merged' = disk /\ unmerged' = unmerged \cup {run}
  \/ disk # {} /\ reports' = disk /\ UNCHANGED merged /\ unmerged' = unmerged \cup {run}

(***************************************************************************)
(* _loadDurationHints() and _sortByExpectedDuration(): files without a     *)
(* duration hint first, then longest first; the sort is stable.  A hint is *)
(* taken only from a file that passed in the last merged report; the model *)
(* lets any of those be missing, as the report's format decides it.        *)
(***************************************************************************)
Trusted == {f \in Files : \E r \in merged : f \in r.files /\ r.ok}

Longer(hinted, a, b) ==
  /\ b \in hinted
  /\ a \in hinted => Duration[a] > Duration[b]

Before(hinted, a, b) ==
  Longer(hinted, a, b) \/ (~Longer(hinted, b, a) /\ a < b)

SortByExpectedDuration(hinted, fs) ==
  {q \in Bijection(0 .. Cardinality(fs) - 1, fs) :
     \A i, j \in DOMAIN q : i < j => Before(hinted, q[i], q[j])}

(***************************************************************************)
(* One run.                                                                *)
(***************************************************************************)
AllSlots(v) == [s \in Slots |-> v]

Init ==
  /\ opts \in Options
  /\ phase = "bootstrap" /\ exitCode = NoExit
  /\ outcome = [f \in Files |-> "todo"]
  /\ slotState = AllSlots("idle") /\ slotFile = AllSlots(NoFile)
  /\ runIndex = AllSlots(0)
  /\ queue = << >> /\ queuePos = 0 /\ bailFlag = FALSE
  /\ wrote = {} /\ reports = {} /\ merged = {}
  /\ run = 1 /\ unmerged = {}

Exit(code) == phase' = "exited" /\ exitCode' = code

\* bootstrap() skips its child for one worker or on request.  runSerial()
\* returns at once when there is nothing serial.
BootstrapSkipped == opts.skipBootstrap \/ WorkerCount <= 1

\* Mutant: the serial child is not awaited.
AfterBootstrapAtOnce == "recovery"

AfterBootstrap == IF Serial = {} THEN "recovery" ELSE "serial"

Bootstrap ==
  /\ phase = "bootstrap"
  /\ phase' = AfterBootstrap
  /\ UNCHANGED <<opts, outcome, exitCode, run, unmerged, slotVars, queueVars, reportVars>>

BootstrapFails ==
  /\ phase = "bootstrap" /\ ~BootstrapSkipped
  /\ Exit(1)
  /\ unmerged' = unmerged \cup {run}
  /\ UNCHANGED <<opts, outcome, run, slotVars, queueVars, reportVars>>

\* The child that runs every serial file closes.
SerialPasses ==
  /\ phase = "serial"
  /\ outcome' = [f \in Files |-> IF f \in Serial THEN "passed" ELSE outcome[f]]
  /\ reports' = Write(reports, SerialTag, Serial, TRUE)
  /\ wrote' = wrote \cup Serial
  /\ phase' = "recovery"
  /\ UNCHANGED <<opts, exitCode, merged, run, unmerged, slotVars, queueVars>>

\* A child that dies (signal, load error) leaves no report.
SerialFails ==
  /\ phase = "serial"
  /\ outcome' = [f \in Files |-> IF f \in Serial THEN "failed" ELSE outcome[f]]
  /\ \/ wrote' = wrote \cup Serial /\ MergeReports(Write(reports, SerialTag, Serial, FALSE))
     \/ UNCHANGED wrote /\ MergeReports(reports)
  /\ Exit(1)
  /\ UNCHANGED <<opts, run, slotVars, queueVars>>

\* awaitRelayerRecovery() returns and the slots start.  Slot 0, or every slot
\* when there is no stagger, takes its first file before the next await.
FirstWave == IF Staggered THEN Slots \cap {0} ELSE Slots

StartParallel ==
  /\ phase = "recovery" /\ Parallel # {}
  /\ phase' = "parallel"
  /\ \E hinted \in SUBSET Trusted : queue' \in SortByExpectedDuration(hinted, Parallel)
  /\ queuePos' = Cardinality(FirstWave)
  /\ slotState' = [s \in Slots |-> IF s \notin FirstWave THEN "waiting"
                                   ELSE IF s < Total THEN "running" ELSE "done"]
  /\ slotFile' = [s \in Slots |-> IF s \in FirstWave /\ s < Total THEN queue'[s] ELSE NoFile]
  /\ UNCHANGED <<opts, outcome, exitCode, runIndex, bailFlag, run, unmerged, reportVars>>

NothingParallel ==
  /\ phase = "recovery" /\ Parallel = {}
  /\ MergeReports(reports)
  /\ Exit(0)
  /\ UNCHANGED <<opts, outcome, run, wrote, slotVars, queueVars>>

\* The head of the slot's loop: stop on bailFlag, else queuePos++ and stop when
\* the cursor is past the end.
\* Mutant: bailFlag is not looked at again.
MayPullAfterBail(bailing) == queuePos < Total

MayPull(bailing) == ~bailing /\ queuePos < Total

Cursor(bailing) == IF bailing THEN queuePos ELSE queuePos + 1

TakeNext(s, bailing) ==
  /\ queuePos' = Cursor(bailing)
  /\ IF MayPull(bailing)
       THEN /\ slotState' = [slotState EXCEPT ![s] = "running"]
            /\ slotFile' = [slotFile EXCEPT ![s] = queue[queuePos]]
       ELSE /\ slotState' = [slotState EXCEPT ![s] = "done"]
            /\ slotFile' = [slotFile EXCEPT ![s] = NoFile]

\* The stagger timers, slotId * staggerDelayMs, fire in slot order.
SlotWakes(s) ==
  /\ phase = "parallel" /\ slotState[s] = "waiting"
  /\ \A t \in Slots : t < s => slotState[t] # "waiting"
  /\ TakeNext(s, bailFlag)
  /\ UNCHANGED <<opts, phase, outcome, runIndex, queue, bailFlag, exitCode, run,
                 unmerged, reportVars>>

ChildPasses(s) ==
  /\ phase = "parallel" /\ slotState[s] = "running"
  /\ outcome' = [outcome EXCEPT ![slotFile[s]] = "passed"]
  /\ reports' = Write(reports, ReportTag(s, runIndex[s]), {slotFile[s]}, TRUE)
  /\ wrote' = wrote \cup {slotFile[s]}
  /\ runIndex' = [runIndex EXCEPT ![s] = @ + 1]
  /\ TakeNext(s, bailFlag)
  /\ UNCHANGED <<opts, phase, queue, bailFlag, exitCode, merged, run, unmerged>>

BailAfterFailure == bailFlag \/ opts.bail

ChildFails(s) ==
  /\ phase = "parallel" /\ slotState[s] = "running"
  /\ outcome' = [outcome EXCEPT ![slotFile[s]] = "failed"]
  /\ \/ /\ reports' = Write(reports, ReportTag(s, runIndex[s]), {slotFile[s]}, FALSE)
        /\ wrote' = wrote \cup {slotFile[s]}
     \/ UNCHANGED <<reports, wrote>>
  /\ runIndex' = [runIndex EXCEPT ![s] = @ + 1]
  /\ bailFlag' = BailAfterFailure
  /\ TakeNext(s, BailAfterFailure)
  /\ UNCHANGED <<opts, phase, queue, exitCode, merged, run, unmerged>>

\* Mutant: waiting until every slot has found the queue empty.
AllSlotsFoundNothing == queuePos = Total + WorkerCount

AllSlotsDone == \A s \in Slots : slotState[s] = "done"

ParallelExitCode == IF Failures # {} THEN 1 ELSE 0

\* Promise.all over the slots resolves.
ParallelEnds ==
  /\ phase = "parallel" /\ AllSlotsDone
  /\ MergeReports(reports)
  /\ Exit(ParallelExitCode)
  /\ UNCHANGED <<opts, outcome, run, wrote, slotVars, queueVars>>

(***************************************************************************)
(* The process group is killed (Ctrl-C, a CI timeout), and runs again.     *)
(***************************************************************************)
Killed ==
  /\ phase \notin {"exited", "killed"}
  /\ phase' = "killed"
  /\ unmerged' = unmerged \cup {run}
  /\ UNCHANGED <<opts, outcome, exitCode, run, slotVars, queueVars, reportVars>>

NewRun ==
  /\ phase \in {"exited", "killed"} /\ run < MaxRuns
  /\ opts' \in Options
  /\ phase' = "bootstrap" /\ exitCode' = NoExit
  /\ outcome' = [f \in Files |-> "todo"]
  /\ slotState' = AllSlots("idle") /\ slotFile' = AllSlots(NoFile)
  /\ runIndex' = AllSlots(0)
  /\ queue' = << >> /\ queuePos' = 0 /\ bailFlag' = FALSE
  /\ wrote' = {}
  /\ run' = run + 1
  /\ UNCHANGED <<reports, merged, unmerged>>

SlotStep(s) == SlotWakes(s) \/ ChildPasses(s) \/ ChildFails(s)
MainStep ==
  \/ Bootstrap \/ BootstrapFails
  \/ SerialPasses \/ SerialFails
  \/ StartParallel \/ NothingParallel
  \/ ParallelEnds

Next == MainStep \/ (\E s \in Slots : SlotStep(s)) \/ Killed \/ NewRun

Spec == Init /\ [][Next]_vars

\* Timers fire, and every child closes: mocha bounds each test.  Nothing
\* forces a kill or another run.
FairSpec == Spec /\ WF_vars(MainStep) /\ \A s \in Slots : WF_vars(SlotStep(s))

=============================================================================
