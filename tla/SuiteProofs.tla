------------------------------ MODULE SuiteProofs ------------------------------
(***************************************************************************)
(* Proofs about a run of the suite. First the parallel runner, for every   *)
(* set of files, every number of slots and every sequence of runs. Then    *)
(* what has to be in place before a test, for every set of nodes, every    *)
(* number of workers above one, every test that keeps to the wallets and   *)
(* chains it was given, and any number of failures, repetitions and late   *)
(* transactions.                                                           *)
(*                                                                         *)
(* The second part: the programs of the processes are taken apart          *)
(* position by position (Sound: a look spares only what it looks for, an   *)
(* instance is stored after it is wired). The invariant then says that     *)
(* what a process has passed, taken or spared, has been seen to (Done),    *)
(* also by the lanes that nobody waits for any more (Strays), and the      *)
(* chain of the roles follows from it: whoever comes to grant a role has   *)
(* passed the step that gave it the right to.                              *)
(***************************************************************************)
EXTENDS ParallelRunnerProps, SetupProps, SequenceTheorems, FiniteSetTheorems, TLAPS

(***************************************************************************)
(* The inductive invariant.                                                *)
(***************************************************************************)
\* Until the slots start, nothing of the parallel phase has happened.
NotStarted ==
  phase \in {"bootstrap", "serial", "recovery"} =>
    /\ Running = {} /\ ~bailFlag
    /\ \A f \in Parallel : outcome[f] = "todo"

\* The serial child exists for some serial files, and precedes every result.
SerialFirst ==
  /\ phase \in {"bootstrap", "serial"} => \A f \in Files : outcome[f] = "todo"
  /\ phase = "serial" => Serial # {}
  /\ phase \in {"recovery", "parallel"} => \A f \in Serial : outcome[f] = "passed"

\* The queue enumerates the parallel files; the slots hold files of its prefix
\* that have no result yet.
QueueInv ==
  phase = "parallel" =>
    /\ queue \in Bijection(0 .. Total - 1, Parallel)
    /\ \A s \in Running : slotFile[s] \in Parallel /\ outcome[slotFile[s]] = "todo"

\* A slot stops only at the end of the queue or on a bail, and a bail has a
\* failed file behind it.
StopInv ==
  phase = "parallel" =>
    /\ \A s \in Slots : slotState[s] = "done" => bailFlag \/ queuePos >= Total
    /\ bailFlag => opts.bail /\ Failures # {}

\* The exit code is set when the run exits and not before.
ExitInv == exitCode = NoExit <=> phase # "exited"

IInv ==
  /\ TypeOK
  /\ NotStarted /\ SerialFirst /\ QueueInv /\ StopInv /\ ExitInv
  /\ QueuePrefixDispatched
  /\ NoChildLeftBehind
  /\ ParallelOnlyAfterSerialPassed

(***************************************************************************)
(* Facts about the operators.                                              *)
(***************************************************************************)

\* The two halves of the partition are disjoint sets of files, so the queue's
\* length is a natural number.
LEMMA PartitionFacts ==
  ASSUME opts \in Options
  PROVE  /\ Serial \subseteq Files /\ Parallel \subseteq Files
         /\ Serial \cap Parallel = {}
         /\ Total \in Nat
         /\ Parallel = {} => Total = 0
<1>1. Serial \subseteq Files /\ Parallel \subseteq Files /\ Serial \cap Parallel = {}
  BY FilesAssumption DEF Serial, Parallel, Partition, Options
<1>2. IsFiniteSet(Parallel)
  BY <1>1, FS_Subset, FilesAssumption
<1>3. Total \in Nat
  BY <1>2, FS_CardinalityType DEF Total
<1>4. Parallel = {} => Total = 0
  BY FS_EmptySet DEF Total
<1> QED  BY <1>1, <1>3, <1>4

\* The first wave is an initial segment of the slots.
LEMMA FirstWaveFacts ==
  /\ Cardinality(FirstWave) \in Nat
  /\ FirstWave = 0 .. Cardinality(FirstWave) - 1
  /\ FirstWave \subseteq Slots
<1>1. CASE Staggered /\ WorkerCount > 0
  <2>1. FirstWave = {0}
    BY <1>1, WorkersAssumption DEF FirstWave, Slots
  <2>2. Cardinality({0}) = 1
    BY FS_Singleton
  <2>3. 0 .. 1 - 1 = {0}
    OBVIOUS
  <2>4. 0 \in Slots
    BY <1>1, WorkersAssumption DEF Slots
  <2> QED  BY <2>1, <2>2, <2>3, <2>4
<1>2. CASE Staggered /\ ~(WorkerCount > 0)
  <2>1. FirstWave = {}
    BY <1>2, WorkersAssumption DEF FirstWave, Slots
  <2>2. Cardinality({}) = 0
    BY FS_EmptySet
  <2>3. 0 .. 0 - 1 = {}
    OBVIOUS
  <2> QED  BY <2>1, <2>2, <2>3
<1>3. CASE ~Staggered
  <2>1. FirstWave = 0 .. WorkerCount - 1
    BY <1>3 DEF FirstWave, Slots
  <2>2. Cardinality(0 .. WorkerCount - 1) = WorkerCount
    BY FS_Interval, WorkersAssumption
  <2> QED  BY <2>1, <2>2, WorkersAssumption DEF Slots
<1> QED  BY <1>1, <1>2, <1>3

\* A merge touches only the report variables.
LEMMA MergeFacts ==
  ASSUME NEW disk, MergeReports(disk), TypeOK
  PROVE  unmerged' \subseteq 1 .. MaxRuns
BY DEF MergeReports, TypeOK

(***************************************************************************)
(* The initial states.                                                     *)
(***************************************************************************)
LEMMA InitInvariant == Init => IInv
<1> SUFFICES ASSUME Init PROVE IInv
  OBVIOUS
<1> USE DEF Init
<1>1. TypeOK
  <2>1. 1 \in 1 .. MaxRuns
    BY OptionsAssumption
  <2> QED  BY <2>1 DEF TypeOK, Phases, Outcomes, AllSlots, NoExit
<1>2. Running = {}
  BY DEF Running, AllSlots
<1>3. \A f \in Files : outcome[f] = "todo"
  OBVIOUS
<1>4. NotStarted /\ SerialFirst
  BY <1>2, <1>3, PartitionFacts DEF NotStarted, SerialFirst
<1>5. QueueInv /\ StopInv /\ ExitInv /\ QueuePrefixDispatched
  BY DEF QueueInv, StopInv, ExitInv, QueuePrefixDispatched
<1>6. NoChildLeftBehind /\ ParallelOnlyAfterSerialPassed
  BY <1>2 DEF NoChildLeftBehind, ParallelOnlyAfterSerialPassed
<1> QED  BY <1>1, <1>4, <1>5, <1>6 DEF IInv

(***************************************************************************)
(* The steps.                                                              *)
(***************************************************************************)

\* Every step keeps the types.
LEMMA TypeStep ==
  ASSUME IInv, [Next]_vars
  PROVE  TypeOK'
<1> USE DEF TypeOK, Outcomes, Phases, NoExit
<1>0. TypeOK /\ opts \in Options
  BY DEF IInv
<1>1. CASE Bootstrap
  BY <1>0, <1>1 DEF Bootstrap, AfterBootstrap, slotVars, queueVars, reportVars, Total, Parallel
<1>2. CASE BootstrapFails
  BY <1>0, <1>2 DEF BootstrapFails, Exit, slotVars, queueVars, reportVars, Total, Parallel
<1>3. CASE SerialPasses
  BY <1>0, <1>3, PartitionFacts DEF SerialPasses, slotVars, queueVars, Total, Parallel
<1>4. CASE SerialFails
  <2>1. unmerged' \subseteq 1 .. MaxRuns
    BY <1>0, <1>4, MergeFacts DEF SerialFails
  <2> QED  BY <1>0, <1>4, <2>1, PartitionFacts
           DEF SerialFails, Exit, slotVars, queueVars, Total, Parallel
<1>5. CASE StartParallel
  <2>1. queue' \in [0 .. Total - 1 -> Parallel]
    BY <1>5 DEF StartParallel, SortByExpectedDuration, Bijection, Injection, Total
  <2>2. Total' = Total /\ Parallel' = Parallel
    BY <1>5 DEF StartParallel, Total, Parallel
  <2>3. slotFile' \in [Slots -> Files \cup {NoFile}]
    <3> SUFFICES ASSUME NEW s \in Slots, s < Total
                 PROVE  queue'[s] \in Files
      BY <1>5 DEF StartParallel
    <3> s \in 0 .. Total - 1
      BY <1>0, PartitionFacts, WorkersAssumption DEF Slots
    <3> QED  BY <1>0, <2>1, PartitionFacts
  <2>4. queuePos' \in Nat
    BY <1>5, FirstWaveFacts DEF StartParallel
  <2> QED  BY <1>0, <1>5, <2>1, <2>2, <2>3, <2>4
           DEF StartParallel, slotVars, reportVars
<1>6. CASE NothingParallel
  <2>1. unmerged' \subseteq 1 .. MaxRuns
    BY <1>0, <1>6, MergeFacts DEF NothingParallel
  <2> QED  BY <1>0, <1>6, <2>1
           DEF NothingParallel, Exit, slotVars, queueVars, Total, Parallel
<1>7. ASSUME NEW s \in Slots, NEW b \in BOOLEAN, TakeNext(s, b),
             phase = "parallel", UNCHANGED <<opts, queue>>
      PROVE  /\ slotState' \in [Slots -> {"idle", "waiting", "running", "done"}]
             /\ slotFile' \in [Slots -> Files \cup {NoFile}]
             /\ queuePos' \in Nat
             /\ queue' = << >> \/ queue' \in [0 .. Total' - 1 -> Parallel']
  <2>1. queuePos' \in Nat
    BY <1>0, <1>7 DEF TakeNext, Cursor
  <2>2. MayPull(b) => queue[queuePos] \in Files
    <3> SUFFICES ASSUME MayPull(b) PROVE queue[queuePos] \in Files
      OBVIOUS
    <3>1. queuePos \in 0 .. Total - 1
      BY <1>0, PartitionFacts DEF MayPull
    <3>2. queue \in [0 .. Total - 1 -> Parallel]
      BY <1>7 DEF IInv, QueueInv, Bijection, Injection
    <3> QED  BY <1>0, <3>1, <3>2, PartitionFacts
  <2> QED  BY <1>0, <1>7, <2>1, <2>2 DEF TakeNext, Total, Parallel
<1>8. ASSUME NEW s \in Slots, slotState[s] = "running", phase = "parallel"
      PROVE  slotFile[s] \in Files
  BY <1>0, <1>8, PartitionFacts DEF IInv, QueueInv, Running
<1>9. ASSUME NEW s \in Slots, SlotWakes(s)
      PROVE  TypeOK'
  BY <1>0, <1>7, <1>9 DEF SlotWakes, reportVars
<1>10. ASSUME NEW s \in Slots, ChildPasses(s)
       PROVE  TypeOK'
  BY <1>0, <1>7, <1>8, <1>10 DEF ChildPasses
<1>11. ASSUME NEW s \in Slots, ChildFails(s)
       PROVE  TypeOK'
  <2>1. BailAfterFailure \in BOOLEAN
    BY <1>0 DEF BailAfterFailure, Options
  <2>2. /\ slotState' \in [Slots -> {"idle", "waiting", "running", "done"}]
        /\ slotFile' \in [Slots -> Files \cup {NoFile}]
        /\ queuePos' \in Nat
        /\ queue' = << >> \/ queue' \in [0 .. Total' - 1 -> Parallel']
    BY <1>7, <1>11, <2>1 DEF ChildFails
  <2>3. wrote' \subseteq Files
    BY <1>0, <1>8, <1>11 DEF ChildFails
  <2>4. bailFlag' \in BOOLEAN
    BY <1>11, <2>1 DEF ChildFails
  <2>5. outcome' \in [Files -> Outcomes] /\ runIndex' \in [Slots -> Nat]
    <3>1. /\ outcome' = [outcome EXCEPT ![slotFile[s]] = "failed"]
          /\ runIndex' = [runIndex EXCEPT ![s] = @ + 1]
      BY <1>11 DEF ChildFails
    <3>2. outcome' \in [Files -> Outcomes]
      BY <1>0, <3>1
    <3>3. s \in Slots /\ runIndex \in [Slots -> Nat]
      BY <1>0, <1>11
    <3>4. runIndex' \in [Slots -> Nat]
      BY <3>1, <3>3
    <3> QED  BY <3>2, <3>4
  <2>6. UNCHANGED <<opts, phase, exitCode, run, unmerged>>
    BY <1>11 DEF ChildFails
  <2> QED  BY <1>0, <2>2, <2>3, <2>4, <2>5, <2>6
<1>12. CASE ParallelEnds
  <2>1. unmerged' \subseteq 1 .. MaxRuns
    BY <1>0, <1>12, MergeFacts DEF ParallelEnds
  <2> QED  BY <1>0, <1>12, <2>1
           DEF ParallelEnds, ParallelExitCode, Exit, slotVars, queueVars, Total, Parallel
<1>13. CASE Killed
  BY <1>0, <1>13 DEF Killed, slotVars, queueVars, reportVars, Total, Parallel
<1>14. CASE NewRun
  <2>1. run' \in 1 .. MaxRuns
    BY <1>0, <1>14, OptionsAssumption DEF NewRun
  <2> QED  BY <1>0, <1>14, <2>1 DEF NewRun, AllSlots
<1>15. CASE UNCHANGED vars
  BY <1>0, <1>15 DEF vars, Total, Parallel
<1> QED  BY <1>1, <1>2, <1>3, <1>4, <1>5, <1>6, <1>9, <1>10, <1>11, <1>12, <1>13,
            <1>14, <1>15 DEF Next, MainStep, SlotStep

\* One turn of a slot's loop: it books the result of the child it held, if it
\* held one, and pulls the next file or stops.
LEMMA SlotTurn ==
  ASSUME IInv, phase = "parallel", NEW s \in Slots, NEW b \in BOOLEAN,
         TakeNext(s, b), UNCHANGED <<opts, phase, queue>>,
         bailFlag => b, b => bailFlag',
         \/ slotState[s] = "waiting" /\ outcome' = outcome
         \/ /\ slotState[s] = "running"
            /\ \E r \in {"passed", "failed"} :
                  outcome' = [outcome EXCEPT ![slotFile[s]] = r]
  PROVE  /\ QueueInv' /\ QueuePrefixDispatched'
         /\ \A t \in Slots : slotState'[t] = "done" => bailFlag' \/ queuePos' >= Total'
         /\ \A f \in Serial : outcome'[f] = outcome[f]
<1> DEFINE Prefix(n) == {queue[i] : i \in {j \in DOMAIN queue : j < n}}
<1>1. /\ TypeOK /\ opts \in Options
      /\ Serial' = Serial /\ Parallel' = Parallel /\ Total' = Total
  BY DEF IInv, TypeOK, Serial, Parallel, Total
<1>2. /\ Parallel \subseteq Files /\ Serial \cap Parallel = {} /\ Serial \subseteq Files
      /\ Total \in Nat /\ queuePos \in Nat
  BY <1>1, PartitionFacts DEF TypeOK
<1>3. /\ queue \in [0 .. Total - 1 -> Parallel]
      /\ \A i, j \in 0 .. Total - 1 : queue[i] = queue[j] => i = j
      /\ queue \in Bijection(0 .. Total - 1, Parallel)
  BY DEF IInv, QueueInv, Bijection, Injection, IsInjective
<1>4. /\ Dispatched = Prefix(queuePos)
      /\ \A t, u \in Running : slotFile[t] = slotFile[u] => t = u
      /\ \A t \in Running : slotFile[t] \in Parallel /\ outcome[slotFile[t]] = "todo"
  BY DEF IInv, QueueInv, QueuePrefixDispatched
<1>5. /\ slotState \in [Slots -> {"idle", "waiting", "running", "done"}]
      /\ slotFile \in [Slots -> Files \cup {NoFile}]
      /\ outcome \in [Files -> Outcomes]
  BY <1>1 DEF TypeOK
<1>6. /\ s \in Running => outcome'[slotFile[s]] # "todo"
      /\ \A f \in Files : outcome'[f] # outcome[f] => s \in Running /\ f = slotFile[s]
  BY <1>2, <1>4, <1>5 DEF Running, Outcomes
<1>7. \A f \in Serial : outcome'[f] = outcome[f]
  BY <1>2, <1>4, <1>6
<1>8. \A t \in Running : slotFile[t] \in Dispatched
  BY <1>4 DEF Dispatched
<1>9. CASE MayPull(b)
  <2>1. queuePos \in 0 .. Total - 1 /\ queuePos' = queuePos + 1
    BY <1>2, <1>9 DEF MayPull, TakeNext, Cursor
  <2>2. /\ slotState' = [slotState EXCEPT ![s] = "running"]
        /\ slotFile' = [slotFile EXCEPT ![s] = queue[queuePos]]
    BY <1>9 DEF TakeNext
  <2>3. /\ Running' = Running \cup {s} /\ slotFile'[s] = queue[queuePos]
        /\ \A t \in Slots : t # s => slotFile'[t] = slotFile[t]
    BY <1>5, <2>2 DEF Running
  <2>4. queue[queuePos] \in Parallel /\ queue[queuePos] \notin Dispatched
    BY <1>3, <1>4, <2>1
  <2>5. outcome[queue[queuePos]] = "todo" /\ outcome'[queue[queuePos]] = "todo"
    BY <1>2, <1>6, <1>8, <2>4 DEF Dispatched
  <2>6. Prefix(queuePos + 1) = Prefix(queuePos) \cup {queue[queuePos]}
    BY <1>3, <2>1
  <2>7. Dispatched' = Dispatched \cup {queue[queuePos]}
    <3>1. ASSUME NEW f \in Parallel, f \in Dispatched'
          PROVE  f \in Dispatched \cup {queue[queuePos]}
      BY <1>1, <1>2, <1>6, <1>8, <2>3, <3>1 DEF Dispatched, Running
    <3>2. ASSUME NEW f \in Parallel, f \in Dispatched
          PROVE  f \in Dispatched'
      BY <1>1, <1>2, <1>6, <2>3, <3>2 DEF Dispatched, Running
    <3>3. queue[queuePos] \in Dispatched'
      BY <1>1, <2>3, <2>4 DEF Dispatched
    <3> QED  BY <1>1, <3>1, <3>2, <3>3 DEF Dispatched
  <2>8. Dispatched' = Prefix(queuePos')
    BY <1>4, <2>1, <2>6, <2>7
  <2>9. \A t, u \in Running' : slotFile'[t] = slotFile'[u] => t = u
    BY <1>4, <1>8, <2>3, <2>4 DEF Running
  <2>10. \A t \in Running' : slotFile'[t] \in Parallel /\ outcome'[slotFile'[t]] = "todo"
    <3> SUFFICES ASSUME NEW t \in Running', t # s
                 PROVE  slotFile[t] \in Parallel /\ outcome'[slotFile[t]] = "todo"
      BY <2>3, <2>4, <2>5 DEF Running
    <3> t \in Running
      BY <2>3
    <3> QED  BY <1>2, <1>4, <1>6
  <2>11. \A t \in Slots : slotState'[t] = "done" => bailFlag' \/ queuePos' >= Total'
    <3> SUFFICES ASSUME NEW t \in Slots, slotState'[t] = "done"
                 PROVE  bailFlag' \/ queuePos' >= Total'
      OBVIOUS
    <3>1. slotState[t] = "done"
      BY <1>5, <2>2
    <3>2. bailFlag \/ queuePos >= Total
      BY <3>1 DEF IInv, StopInv
    <3> QED  BY <1>1, <1>2, <2>1, <3>2
  <2> QED  BY <1>1, <1>3, <1>7, <2>8, <2>9, <2>10, <2>11 DEF QueueInv, QueuePrefixDispatched
<1>10. CASE ~MayPull(b)
  <2>1. b \/ queuePos >= Total
    BY <1>2, <1>10 DEF MayPull
  <2>2. queuePos' = IF b THEN queuePos ELSE queuePos + 1
    BY DEF TakeNext, Cursor
  <2>3. /\ slotState' = [slotState EXCEPT ![s] = "done"]
        /\ slotFile' = [slotFile EXCEPT ![s] = NoFile]
    BY <1>10 DEF TakeNext
  <2>4. /\ Running' = Running \ {s}
        /\ \A t \in Slots : t # s => slotFile'[t] = slotFile[t]
    BY <1>5, <2>3 DEF Running
  <2>5. Dispatched' = Dispatched
    <3>1. ASSUME NEW f \in Parallel, f \in Dispatched'
          PROVE  f \in Dispatched
      BY <1>1, <1>2, <1>6, <1>8, <2>4, <3>1 DEF Dispatched, Running
    <3>2. ASSUME NEW f \in Parallel, f \in Dispatched
          PROVE  f \in Dispatched'
      BY <1>1, <1>2, <1>6, <2>4, <3>2 DEF Dispatched, Running
    <3> QED  BY <1>1, <3>1, <3>2 DEF Dispatched
  <2>6. Prefix(queuePos') = Prefix(queuePos)
    <3>1. CASE b
      BY <2>2, <3>1
    <3>2. CASE ~b
      <4>1. \A j \in DOMAIN queue : j < queuePos /\ j < queuePos + 1
        BY <1>2, <1>3, <2>1, <3>2
      <4> QED  BY <2>2, <3>2, <4>1
    <3> QED  BY <3>1, <3>2
  <2>7. Dispatched' = Prefix(queuePos')
    BY <1>4, <2>5, <2>6
  <2>8. \A t, u \in Running' : slotFile'[t] = slotFile'[u] => t = u
    BY <1>4, <2>4 DEF Running
  <2>9. \A t \in Running' : slotFile'[t] \in Parallel /\ outcome'[slotFile'[t]] = "todo"
    BY <1>2, <1>4, <1>6, <2>4 DEF Running
  <2>10. bailFlag' \/ queuePos' >= Total'
    BY <1>1, <1>2, <2>1, <2>2
  <2> QED  BY <1>1, <1>3, <1>7, <2>7, <2>8, <2>9, <2>10 DEF QueueInv, QueuePrefixDispatched
<1> QED  BY <1>9, <1>10

\* Every step keeps the rest of the invariant.
LEMMA SafetyStep ==
  ASSUME IInv, [Next]_vars
  PROVE  /\ NotStarted' /\ SerialFirst' /\ QueueInv' /\ StopInv' /\ ExitInv'
         /\ QueuePrefixDispatched' /\ NoChildLeftBehind'
         /\ ParallelOnlyAfterSerialPassed'
<1> USE DEF IInv
<1> DEFINE Rest == /\ NotStarted /\ SerialFirst /\ QueueInv /\ StopInv /\ ExitInv
                   /\ QueuePrefixDispatched /\ NoChildLeftBehind
                   /\ ParallelOnlyAfterSerialPassed
<1>0. /\ opts \in Options /\ phase \in Phases /\ outcome \in [Files -> Outcomes]
      /\ Serial \subseteq Files /\ Parallel \subseteq Files /\ Serial \cap Parallel = {}
      /\ Total \in Nat /\ queuePos \in Nat /\ bailFlag \in BOOLEAN
      /\ slotState \in [Slots -> {"idle", "waiting", "running", "done"}]
      /\ slotFile \in [Slots -> Files \cup {NoFile}]
  BY PartitionFacts DEF TypeOK
\* Steps that leave the slots and the results alone, before the slots start.
<1>1. CASE Bootstrap
  <2>1. /\ UNCHANGED <<opts, outcome, slotState, slotFile, bailFlag, exitCode>>
        /\ phase = "bootstrap"
        /\ phase' = IF Serial = {} THEN "recovery" ELSE "serial"
    BY <1>1 DEF Bootstrap, AfterBootstrap, slotVars, queueVars
  <2>2. Serial' = Serial /\ Parallel' = Parallel /\ Running' = Running
    BY <2>1 DEF Serial, Parallel, Running
  <2> QED  BY <2>1, <2>2
           DEF NotStarted, SerialFirst, QueueInv, StopInv, ExitInv, QueuePrefixDispatched,
               NoChildLeftBehind, ParallelOnlyAfterSerialPassed
<1>2. CASE BootstrapFails \/ SerialFails \/ NothingParallel
  <2>1. /\ UNCHANGED <<opts, slotState>> /\ phase' = "exited" /\ exitCode' \in {0, 1}
        /\ phase \in {"bootstrap", "serial", "recovery"}
    BY <1>2 DEF BootstrapFails, SerialFails, NothingParallel, Exit, slotVars
  <2>2. Running' = {}
    BY <2>1 DEF Running, NotStarted
  <2> QED  BY <2>1, <2>2
           DEF NotStarted, SerialFirst, QueueInv, StopInv, ExitInv, NoExit, QueuePrefixDispatched,
               NoChildLeftBehind, ParallelOnlyAfterSerialPassed
<1>3. CASE SerialPasses
  <2>1. /\ UNCHANGED <<opts, slotState, slotFile, bailFlag, exitCode>>
        /\ phase = "serial" /\ phase' = "recovery"
        /\ outcome' = [f \in Files |-> IF f \in Serial THEN "passed" ELSE outcome[f]]
    BY <1>3 DEF SerialPasses, slotVars, queueVars
  <2>2. Serial' = Serial /\ Parallel' = Parallel /\ Running' = {}
    BY <2>1 DEF Serial, Parallel, Running, NotStarted
  <2>3. \A f \in Serial : outcome'[f] = "passed"
    BY <1>0, <2>1
  <2>4. \A f \in Parallel : outcome'[f] = "todo"
    BY <1>0, <2>1 DEF NotStarted
  <2> QED  BY <2>1, <2>2, <2>3, <2>4
           DEF NotStarted, SerialFirst, QueueInv, StopInv, ExitInv, QueuePrefixDispatched,
               NoChildLeftBehind, ParallelOnlyAfterSerialPassed
<1>4. CASE StartParallel
  <2>1. /\ UNCHANGED <<opts, outcome, bailFlag, exitCode>>
        /\ phase = "recovery" /\ phase' = "parallel"
        /\ queue' \in Bijection(0 .. Total - 1, Parallel)
        /\ queuePos' = Cardinality(FirstWave)
    BY <1>4 DEF StartParallel, SortByExpectedDuration, Total
  <2>2. /\ slotState' = [s \in Slots |-> IF s \notin FirstWave THEN "waiting"
                                         ELSE IF s < Total THEN "running" ELSE "done"]
        /\ slotFile' = [s \in Slots |-> IF s \in FirstWave /\ s < Total
                                        THEN queue'[s] ELSE NoFile]
    BY <1>4 DEF StartParallel
  <2>3. Serial' = Serial /\ Parallel' = Parallel /\ Total' = Total
    BY <2>1 DEF Serial, Parallel, Total
  <2>4. /\ Running' = {s \in FirstWave : s < Total}
        /\ \A s \in Running' : slotFile'[s] = queue'[s]
    BY <2>2, FirstWaveFacts DEF Running
  <2>5. /\ queue' \in [0 .. Total - 1 -> Parallel]
        /\ \A i, j \in 0 .. Total - 1 : queue'[i] = queue'[j] => i = j
    BY <2>1 DEF Bijection, Injection, IsInjective
  <2>6. Running' = {j \in 0 .. Total - 1 : j < queuePos'}
    BY <1>0, <2>1, <2>4, FirstWaveFacts
  <2>7. \A f \in Parallel : outcome'[f] = "todo"
    BY <2>1 DEF NotStarted
  <2>8. Dispatched' = {queue'[i] : i \in {j \in DOMAIN queue' : j < queuePos'}}
    BY <2>3, <2>4, <2>5, <2>6, <2>7 DEF Dispatched
  <2>9. \A s, t \in Running' : slotFile'[s] = slotFile'[t] => s = t
    BY <2>4, <2>5, <2>6
  <2>10. \A s \in Running' : slotFile'[s] \in Parallel /\ outcome'[slotFile'[s]] = "todo"
    BY <2>4, <2>5, <2>6, <2>7
  <2>11. \A s \in Slots : slotState'[s] = "done" => queuePos' >= Total'
    BY <1>0, <2>1, <2>2, <2>3, FirstWaveFacts
  <2>12. QueueInv' /\ QueuePrefixDispatched'
    BY <2>1, <2>3, <2>8, <2>9, <2>10 DEF QueueInv, QueuePrefixDispatched
  <2>13. ~bailFlag'
    BY <2>1 DEF NotStarted
  <2>14. \A f \in Serial' : outcome'[f] = "passed"
    BY <2>1, <2>3 DEF SerialFirst
  <2>15. StopInv' /\ SerialFirst' /\ ParallelOnlyAfterSerialPassed'
    BY <2>1, <2>11, <2>13, <2>14 DEF StopInv, SerialFirst, ParallelOnlyAfterSerialPassed
  <2> QED  BY <2>1, <2>12, <2>15 DEF NotStarted, ExitInv, NoChildLeftBehind
\* The slots.
<1>5. ASSUME NEW s \in Slots, SlotWakes(s)
      PROVE  Rest'
  <2>1. /\ phase = "parallel" /\ slotState[s] = "waiting" /\ TakeNext(s, bailFlag)
        /\ UNCHANGED <<opts, phase, outcome, queue, bailFlag, exitCode>>
    BY <1>5 DEF SlotWakes
  <2>2. /\ QueueInv' /\ QueuePrefixDispatched'
        /\ \A t \in Slots : slotState'[t] = "done" => bailFlag' \/ queuePos' >= Total'
    BY <1>0, <1>5, <2>1, SlotTurn
  <2>3. Serial' = Serial /\ Parallel' = Parallel /\ Failures' = Failures
    BY <2>1 DEF Serial, Parallel, Failures
  <2>4. StopInv'
    BY <2>1, <2>2, <2>3 DEF StopInv
  <2>5. SerialFirst' /\ ParallelOnlyAfterSerialPassed'
    BY <2>1, <2>3 DEF SerialFirst, ParallelOnlyAfterSerialPassed
  <2> QED  BY <2>1, <2>2, <2>4, <2>5 DEF NotStarted, ExitInv, NoChildLeftBehind
<1>6. ASSUME NEW s \in Slots, ChildPasses(s)
      PROVE  Rest'
  <2>1. /\ phase = "parallel" /\ slotState[s] = "running" /\ TakeNext(s, bailFlag)
        /\ outcome' = [outcome EXCEPT ![slotFile[s]] = "passed"]
        /\ UNCHANGED <<opts, phase, queue, bailFlag, exitCode>>
    BY <1>6 DEF ChildPasses
  <2>2. /\ QueueInv' /\ QueuePrefixDispatched'
        /\ \A t \in Slots : slotState'[t] = "done" => bailFlag' \/ queuePos' >= Total'
        /\ \A f \in Serial : outcome'[f] = outcome[f]
    BY <1>0, <1>6, <2>1, SlotTurn
  <2>3. Serial' = Serial /\ Parallel' = Parallel
    BY <2>1 DEF Serial, Parallel
  <2>4. outcome[slotFile[s]] = "todo"
    BY <1>6, <2>1 DEF QueueInv, Running
  <2>5. Failures \subseteq Failures'
    BY <1>0, <2>1, <2>3, <2>4 DEF Failures
  <2>6. StopInv'
    BY <2>1, <2>2, <2>5 DEF StopInv
  <2>7. SerialFirst' /\ ParallelOnlyAfterSerialPassed'
    BY <2>1, <2>2, <2>3 DEF SerialFirst, ParallelOnlyAfterSerialPassed
  <2> QED  BY <2>1, <2>2, <2>6, <2>7 DEF NotStarted, ExitInv, NoChildLeftBehind
<1>7. ASSUME NEW s \in Slots, ChildFails(s)
      PROVE  Rest'
  <2>1. /\ phase = "parallel" /\ slotState[s] = "running" /\ TakeNext(s, BailAfterFailure)
        /\ outcome' = [outcome EXCEPT ![slotFile[s]] = "failed"]
        /\ bailFlag' = BailAfterFailure
        /\ UNCHANGED <<opts, phase, queue, exitCode>>
    BY <1>7 DEF ChildFails
  <2>2. /\ BailAfterFailure \in BOOLEAN
        /\ bailFlag => BailAfterFailure
        /\ BailAfterFailure => opts.bail
    BY <1>0, <2>1 DEF BailAfterFailure, StopInv, Options
  <2>3. BailAfterFailure => bailFlag'
    BY <2>1
  <2>4. /\ QueueInv' /\ QueuePrefixDispatched'
        /\ \A t \in Slots : slotState'[t] = "done" => bailFlag' \/ queuePos' >= Total'
        /\ \A f \in Serial : outcome'[f] = outcome[f]
    BY <1>0, <1>7, <2>1, <2>2, <2>3, SlotTurn
  <2>5. Serial' = Serial /\ Parallel' = Parallel
    BY <2>1 DEF Serial, Parallel
  <2>6. slotFile[s] \in Parallel
    BY <1>7, <2>1 DEF QueueInv, Running
  <2>7. slotFile[s] \in Failures'
    BY <1>0, <2>1, <2>5, <2>6 DEF Failures
  <2>8. bailFlag' => opts.bail'
    BY <2>1, <2>2
  <2>9. StopInv'
    BY <2>4, <2>7, <2>8 DEF StopInv
  <2>10. SerialFirst' /\ ParallelOnlyAfterSerialPassed'
    BY <2>1, <2>4, <2>5 DEF SerialFirst, ParallelOnlyAfterSerialPassed
  <2> QED  BY <2>1, <2>4, <2>9, <2>10 DEF NotStarted, ExitInv, NoChildLeftBehind
<1>8. CASE ParallelEnds
  <2>1. /\ phase' = "exited" /\ exitCode' # NoExit /\ UNCHANGED slotState
        /\ \A s \in Slots : slotState[s] = "done"
    BY <1>8 DEF ParallelEnds, AllSlotsDone, ParallelExitCode, Exit, NoExit, slotVars
  <2>2. Running' = {}
    BY <2>1 DEF Running
  <2> QED  BY <2>1, <2>2
           DEF NotStarted, SerialFirst, QueueInv, StopInv, ExitInv, QueuePrefixDispatched,
               NoChildLeftBehind, ParallelOnlyAfterSerialPassed
\* The end of a run and the next one.
<1>9. CASE Killed
  <2>1. /\ phase' = "killed" /\ phase # "exited"
        /\ UNCHANGED <<opts, outcome, exitCode, slotState>>
    BY <1>9 DEF Killed, slotVars
  <2>2. Running' = Running /\ Serial' = Serial
    BY <2>1 DEF Running, Serial
  <2> QED  BY <2>1, <2>2
           DEF NotStarted, SerialFirst, QueueInv, StopInv, ExitInv, QueuePrefixDispatched,
               NoChildLeftBehind, ParallelOnlyAfterSerialPassed
<1>10. CASE NewRun
  <2>1. /\ phase' = "bootstrap" /\ exitCode' = NoExit /\ bailFlag' = FALSE
        /\ outcome' = [f \in Files |-> "todo"] /\ slotState' = [s \in Slots |-> "idle"]
        /\ opts' \in Options
    BY <1>10 DEF NewRun, AllSlots
  <2>2. Running' = {}
    BY <2>1 DEF Running
  <2>3. Parallel' \subseteq Files
    BY <2>1, FilesAssumption DEF Parallel, Partition, Options
  <2> QED  BY <2>1, <2>2, <2>3
           DEF NotStarted, SerialFirst, QueueInv, StopInv, ExitInv, QueuePrefixDispatched,
               NoChildLeftBehind, ParallelOnlyAfterSerialPassed
<1>11. CASE UNCHANGED vars
  BY <1>11 DEF vars, NotStarted, SerialFirst, QueueInv, StopInv, ExitInv,
       QueuePrefixDispatched, NoChildLeftBehind, ParallelOnlyAfterSerialPassed, Running,
       Dispatched, Failures, Parallel, Serial, Total
<1> QED  BY <1>1, <1>2, <1>3, <1>4, <1>5, <1>6, <1>7, <1>8, <1>9, <1>10, <1>11
         DEF Next, MainStep, SlotStep

(***************************************************************************)
(* Safety for every instance.                                              *)
(***************************************************************************)

\* IInv is an invariant: the lemmas above, put together.
THEOREM Invariance == Spec => []IInv
<1>1. IInv /\ [Next]_vars => IInv'
  BY TypeStep, SafetyStep DEF IInv
<1> QED  BY InitInvariant, <1>1, PTL DEF Spec

\* The variables keep their types in every run of every instance.
THEOREM TypeCorrect == Spec => []TypeOK
<1>1. IInv => TypeOK
  BY DEF IInv
<1> QED  BY Invariance, <1>1, PTL

\* However the slots' awaits interleave, the cursor and the slots agree: no file
\* is skipped or given to two slots.
THEOREM CursorAgreesWithSlots == Spec => []QueuePrefixDispatched
<1>1. IInv => QueuePrefixDispatched
  BY DEF IInv
<1> QED  BY Invariance, <1>1, PTL

\* The runner never exits with a child still running.
THEOREM ExitLeavesNoChild == Spec => []NoChildLeftBehind
<1>1. IInv => NoChildLeftBehind
  BY DEF IInv
<1> QED  BY Invariance, <1>1, PTL

\* No parallel child runs before every serial file has passed.
THEOREM SerialIsolation == Spec => []ParallelOnlyAfterSerialPassed
<1>1. IInv => ParallelOnlyAfterSerialPassed
  BY DEF IInv
<1> QED  BY Invariance, <1>1, PTL

\* When the slots have all stopped, either a failure made them bail or every
\* parallel file has a result.  This is where a positive number of slots matters.
LEMMA AllRanOrBailed ==
  ASSUME WorkerCount > 0, IInv, phase = "parallel", AllSlotsDone
  PROVE  bailFlag \/ \A f \in Parallel : outcome[f] # "todo"
<1> SUFFICES ASSUME ~bailFlag, NEW f \in Parallel
             PROVE  outcome[f] # "todo"
  OBVIOUS
<1>1. 0 \in Slots
  BY WorkersAssumption DEF Slots
<1>2. queuePos >= Total
  BY <1>1 DEF IInv, StopInv, AllSlotsDone
<1>3. Total \in Nat /\ queuePos \in Nat
  BY PartitionFacts DEF IInv, TypeOK
<1>4. PICK i \in 0 .. Total - 1 : queue[i] = f
  BY DEF IInv, QueueInv, Bijection, Surjection
<1>5. DOMAIN queue = 0 .. Total - 1
  BY DEF IInv, QueueInv, Bijection, Injection
<1>6. i < queuePos
  BY <1>2, <1>3, <1>4
<1>7. f \in Dispatched
  BY <1>4, <1>5, <1>6 DEF IInv, QueuePrefixDispatched
<1>8. Running = {}
  BY DEF AllSlotsDone, Running
<1> QED  BY <1>7, <1>8 DEF Dispatched

\* What an exit reports is true: the two properties about exits, from IInv.
LEMMA ExitStep ==
  ASSUME WorkerCount > 0, IInv, [Next]_vars,
         SuccessMeansAllPassed, FailureWithoutBailRunsAll
  PROVE  SuccessMeansAllPassed' /\ FailureWithoutBailRunsAll'
<1> DEFINE Goal == SuccessMeansAllPassed /\ FailureWithoutBailRunsAll
<1>0. /\ outcome \in [Files -> Outcomes] /\ opts \in Options
      /\ phase # "exited" => exitCode = NoExit
      /\ NoExit # 0
  BY DEF IInv, TypeOK, ExitInv, NoExit
<1>1. ASSUME phase' # "exited", exitCode' # 0
      PROVE  Goal'
  BY <1>1 DEF SuccessMeansAllPassed, FailureWithoutBailRunsAll
<1>2. CASE Bootstrap \/ SerialPasses \/ StartParallel \/ Killed \/ NewRun
           \/ \E s \in Slots : SlotStep(s)
  <2>1. phase' # "exited" /\ ((exitCode' = exitCode /\ phase # "exited") \/ exitCode' = NoExit)
    BY <1>2 DEF Bootstrap, AfterBootstrap, SerialPasses, StartParallel, Killed, NewRun,
         SlotStep, SlotWakes, ChildPasses, ChildFails
  <2> QED  BY <1>0, <1>1, <2>1
<1>3. CASE BootstrapFails
  <2>1. /\ UNCHANGED <<opts, outcome>> /\ exitCode' = 1
        /\ \A f \in Files : outcome[f] = "todo"
    BY <1>3 DEF BootstrapFails, Exit, IInv, SerialFirst
  <2>2. Selected' = Selected /\ Serial' = Serial /\ Selected \subseteq Files
    BY <1>0, <2>1, PartitionFacts DEF Selected, Serial, Parallel
  <2> QED  BY <2>1, <2>2, PartitionFacts, <1>0
           DEF SuccessMeansAllPassed, FailureWithoutBailRunsAll, Selected
<1>4. CASE SerialFails
  <2>1. /\ opts' = opts /\ exitCode' = 1 /\ Serial # {}
        /\ outcome' = [f \in Files |-> IF f \in Serial THEN "failed" ELSE outcome[f]]
    BY <1>4 DEF SerialFails, Exit, IInv, SerialFirst
  <2>2. Serial' = Serial /\ Serial \subseteq Files
    BY <1>0, <2>1, PartitionFacts DEF Serial
  <2>3. ~(\A f \in Serial' : outcome'[f] = "passed")
    BY <2>1, <2>2
  <2> QED  BY <2>1, <2>3 DEF SuccessMeansAllPassed, FailureWithoutBailRunsAll
<1>5. CASE NothingParallel
  <2>1. /\ UNCHANGED <<opts, outcome>> /\ Parallel = {}
        /\ \A f \in Serial : outcome[f] = "passed"
    BY <1>5 DEF NothingParallel, IInv, SerialFirst
  <2>2. Selected' = Selected /\ Selected = Serial
    BY <2>1 DEF Selected, Serial, Parallel
  <2>3. \A f \in Selected' : outcome'[f] = "passed"
    BY <2>1, <2>2
  <2> QED  BY <2>3 DEF SuccessMeansAllPassed, FailureWithoutBailRunsAll
<1>6. CASE ParallelEnds
  <2>1. /\ UNCHANGED <<opts, outcome>> /\ phase = "parallel" /\ AllSlotsDone
        /\ exitCode' = IF Failures # {} THEN 1 ELSE 0
        /\ \A f \in Serial : outcome[f] = "passed"
    BY <1>6 DEF ParallelEnds, ParallelExitCode, Exit, IInv, SerialFirst
  <2>2. Selected' = Selected /\ opts' = opts /\ Parallel \subseteq Files
    BY <1>0, <2>1, PartitionFacts DEF Selected, Serial, Parallel
  <2>3. bailFlag \/ \A f \in Parallel : outcome[f] # "todo"
    BY <2>1, AllRanOrBailed
  <2>4. bailFlag => opts.bail /\ Failures # {}
    BY <2>1 DEF IInv, StopInv
  <2>5. exitCode' = 0 => \A f \in Selected' : outcome'[f] = "passed"
    BY <1>0, <2>1, <2>2, <2>3, <2>4 DEF Failures, Selected, Outcomes
  <2>6. ~opts'.bail => \A f \in Selected' : outcome'[f] # "todo"
    BY <2>1, <2>2, <2>3, <2>4 DEF Selected
  <2> QED  BY <2>5, <2>6 DEF SuccessMeansAllPassed, FailureWithoutBailRunsAll
<1>7. CASE UNCHANGED vars
  BY <1>7 DEF vars, SuccessMeansAllPassed, FailureWithoutBailRunsAll, Selected, Serial,
       Parallel
<1> QED  BY <1>2, <1>3, <1>4, <1>5, <1>6, <1>7 DEF Next, MainStep

\* With at least one slot, exit code 0 means that every selected file ran and
\* passed, and without --bail a failure costs no other file its run.  Without
\* the assumption the first half is false: see the run runner_no_workers.
THEOREM ExitCodeIsTrue ==
  ASSUME WorkerCount > 0
  PROVE  Spec => []SuccessMeansAllPassed /\ []FailureWithoutBailRunsAll
<1> DEFINE Exits == SuccessMeansAllPassed /\ FailureWithoutBailRunsAll
<1>1. Init => Exits
  BY DEF Init, NoExit, SuccessMeansAllPassed, FailureWithoutBailRunsAll
<1>2. IInv /\ Exits /\ [Next]_vars => Exits'
  BY ExitStep
<1> QED  BY Invariance, <1>1, <1>2, PTL DEF Spec

(***************************************************************************)
(* The runner implements WorkQueue.                                        *)
(***************************************************************************)

\* A file's status stays or makes one of WorkQueue's moves.
Moved(f) ==
  \/ Status'[f] = Status[f]
  \/ f \in Selected /\ <<Status[f], Status'[f]>> \in WQ!Moves

\* A slot's turn moves each file along todo -> running -> passed or failed.
LEMMA SlotTurnMoves ==
  ASSUME IInv, phase = "parallel", NEW s \in Slots, NEW b \in BOOLEAN,
         TakeNext(s, b), UNCHANGED <<opts, phase, queue>>,
         bailFlag => b, b => bailFlag',
         \/ slotState[s] = "waiting" /\ outcome' = outcome
         \/ /\ slotState[s] = "running"
            /\ \E r \in {"passed", "failed"} :
                  outcome' = [outcome EXCEPT ![slotFile[s]] = r],
         NEW f \in Files
  PROVE  Moved(f)
<1>1. QueueInv' /\ Parallel' = Parallel /\ Parallel \subseteq Selected
  BY SlotTurn DEF Parallel, Selected
<1>2. /\ outcome \in [Files -> Outcomes]
      /\ slotState \in [Slots -> {"idle", "waiting", "running", "done"}]
      /\ slotFile \in [Slots -> Files \cup {NoFile}]
  BY DEF IInv, TypeOK
<1>3. /\ Running \ {s} \subseteq Running'
      /\ \A t \in Slots : t # s => slotFile'[t] = slotFile[t]
  BY <1>2 DEF Running, TakeNext
<1>4. \A t \in Running : slotFile[t] \in Parallel /\ outcome[slotFile[t]] = "todo"
  BY DEF IInv, QueueInv
<1>5. \A t \in Running' : slotFile'[t] \in Parallel
  BY <1>1 DEF QueueInv
<1>6. CASE outcome'[f] # outcome[f]
  <2>1. s \in Running /\ f = slotFile[s] /\ outcome'[f] \in {"passed", "failed"}
    BY <1>2, <1>6 DEF Running
  <2>2. outcome[f] = "todo" /\ f \in Selected
    BY <1>1, <1>4, <2>1
  <2>3. Status[f] = "running" /\ Status'[f] = outcome'[f]
    BY <2>1, <2>2 DEF Status, StatusOf
  <2> QED  BY <2>1, <2>2, <2>3 DEF Moved, WQ!Moves
<1>7. CASE outcome'[f] = outcome[f] /\ outcome[f] # "todo"
  BY <1>7 DEF Moved, Status, StatusOf
<1>8. CASE outcome'[f] = outcome[f] /\ outcome[f] = "todo"
  <2>1. s \in Running => slotFile[s] # f
    BY <1>2, <1>4, <1>8 DEF Running
  <2>2. (\E t \in Running : slotFile[t] = f) => \E t \in Running' : slotFile'[t] = f
    BY <1>3, <2>1 DEF Running
  <2>3. (\E t \in Running' : slotFile'[t] = f) => f \in Selected
    BY <1>1, <1>5
  <2>4. /\ Status[f] = IF \E t \in Running : slotFile[t] = f THEN "running" ELSE "todo"
        /\ Status'[f] = IF \E t \in Running' : slotFile'[t] = f THEN "running" ELSE "todo"
    BY <1>8 DEF Status, StatusOf
  <2> QED  BY <2>2, <2>3, <2>4 DEF Moved, WQ!Moves
<1> QED  BY <1>6, <1>7, <1>8

LEMMA StatusType ==
  ASSUME IInv
  PROVE  \A f \in Files : Status[f] \in WQ!Status
BY DEF IInv, TypeOK, Outcomes, Status, StatusOf, WQ!Status

\* Every step of the runner is a step of WorkQueue or a stutter.
LEMMA RefinementStep ==
  ASSUME WorkerCount > 0, IInv, IInv', [Next]_vars
  PROVE  [WQ!Next]_(WQ!wqvars)
<1>0. /\ opts \in Options /\ outcome \in [Files -> Outcomes]
      /\ Serial \subseteq Files /\ Parallel \subseteq Files /\ Serial \cap Parallel = {}
      /\ Selected \subseteq Files /\ Serial \subseteq Selected /\ Parallel \subseteq Selected
  BY PartitionFacts DEF IInv, TypeOK, Selected
<1>1. Status' \in [Files -> WQ!Status]
  <2>1. \A f \in Files : Status'[f] \in WQ!Status
    BY DEF IInv, TypeOK, Outcomes, Status, StatusOf, WQ!Status
  <2> QED  BY <2>1 DEF Status
\* The steps that start or end children, and those that WorkQueue does not see.
<1>2. ASSUME opts' = opts, Verdict = "none", Verdict' = "none",
             \A f \in Files : Moved(f)
      PROVE  WQ!Next
  <2>1. Selected' = Selected
    BY <1>2 DEF Selected, Serial, Parallel
  <2> QED  BY <1>1, <1>2, <2>1 DEF Moved, WQ!Next, WQ!Advance
<1>3. phase \notin {"exited", "killed"} => Verdict = "none"
  BY DEF IInv, ExitInv, Verdict, NoExit
<1>4. phase' \notin {"exited", "killed"} => Verdict' = "none"
  BY DEF IInv, ExitInv, Verdict, NoExit
<1>5. CASE Bootstrap
  <2>1. /\ UNCHANGED <<opts, outcome, slotState, slotFile>>
        /\ phase = "bootstrap" /\ phase' \in {"serial", "recovery"}
        /\ Running = {} /\ \A f \in Files : outcome[f] = "todo"
    BY <1>5 DEF Bootstrap, AfterBootstrap, slotVars, IInv, NotStarted, SerialFirst
  <2>2. Serial' = Serial /\ Running' = {}
    BY <2>1 DEF Serial, Running
  <2>3. ASSUME NEW f \in Files
        PROVE  /\ Status[f] = "todo"
               /\ Status'[f] = "todo" \/ (f \in Serial /\ Status'[f] = "running")
    <3>1. outcome[f] = "todo" /\ outcome'[f] = "todo"
      BY <2>1, <2>3
    <3>2. Status[f] = "todo"
      BY <2>1, <2>3, <3>1 DEF Status, StatusOf
    <3>3. Status'[f] = IF phase' = "serial" /\ f \in Serial THEN "running" ELSE "todo"
      BY <2>2, <2>3, <3>1 DEF Status, StatusOf
    <3> QED  BY <3>2, <3>3
  <2>4. \A f \in Files : Moved(f)
    BY <1>0, <2>3 DEF Moved, WQ!Moves
  <2> QED  BY <1>2, <1>3, <1>4, <2>1, <2>4
<1>6. CASE SerialPasses
  <2>1. /\ UNCHANGED <<opts, slotState, slotFile>>
        /\ phase = "serial" /\ phase' = "recovery"
        /\ outcome' = [f \in Files |-> IF f \in Serial THEN "passed" ELSE outcome[f]]
        /\ Running = {} /\ \A f \in Files : outcome[f] = "todo"
    BY <1>6 DEF SerialPasses, slotVars, IInv, NotStarted, SerialFirst
  <2>2. Serial' = Serial /\ Running' = {}
    BY <2>1 DEF Serial, Running
  <2>3. \A f \in Files :
          IF f \in Serial THEN Status[f] = "running" /\ Status'[f] = "passed"
                          ELSE Status'[f] = Status[f]
    BY <2>1, <2>2 DEF Status, StatusOf
  <2>4. \A f \in Files : Moved(f)
    BY <1>0, <2>3 DEF Moved, WQ!Moves
  <2> QED  BY <1>2, <1>3, <1>4, <2>1, <2>4
<1>7. CASE StartParallel
  <2>1. /\ UNCHANGED <<opts, outcome>>
        /\ phase = "recovery" /\ phase' = "parallel" /\ Running = {}
    BY <1>7 DEF StartParallel, IInv, NotStarted
  <2>2. Parallel' = Parallel
    BY <2>1 DEF Parallel
  <2>3. \A s \in Running' : slotFile'[s] \in Selected
    BY <1>0, <2>1, <2>2 DEF IInv, QueueInv
  <2>4. \A f \in Files :
          \/ Status'[f] = Status[f]
          \/ f \in Selected /\ Status[f] = "todo" /\ Status'[f] = "running"
    BY <2>1, <2>3 DEF Status, StatusOf
  <2>5. \A f \in Files : Moved(f)
    BY <2>4 DEF Moved, WQ!Moves
  <2> QED  BY <1>2, <1>3, <1>4, <2>1, <2>5
<1>8. ASSUME NEW s \in Slots, SlotStep(s)
      PROVE  WQ!Next
  <2>0. BailAfterFailure \in BOOLEAN /\ bailFlag \in BOOLEAN
    BY <1>0 DEF BailAfterFailure, Options, IInv, TypeOK
  <2>1. CASE SlotWakes(s) \/ ChildPasses(s)
    <3>1. /\ phase = "parallel" /\ TakeNext(s, bailFlag)
          /\ UNCHANGED <<opts, phase, queue, bailFlag>>
          /\ \/ slotState[s] = "waiting" /\ outcome' = outcome
             \/ /\ slotState[s] = "running"
                /\ \E r \in {"passed", "failed"} :
                      outcome' = [outcome EXCEPT ![slotFile[s]] = r]
      BY <2>1 DEF SlotWakes, ChildPasses
    <3>2. \A f \in Files : Moved(f)
      <4> SUFFICES ASSUME NEW f \in Files
                   PROVE  Moved(f)
        OBVIOUS
      <4> QED  BY <1>8, <2>0, <3>1, SlotTurnMoves
    <3> QED  BY <1>2, <1>3, <1>4, <3>1, <3>2
  <2>2. CASE ChildFails(s)
    <3>1. /\ phase = "parallel" /\ TakeNext(s, BailAfterFailure)
          /\ UNCHANGED <<opts, phase, queue>> /\ bailFlag' = BailAfterFailure
          /\ slotState[s] = "running"
          /\ \E r \in {"passed", "failed"} :
                outcome' = [outcome EXCEPT ![slotFile[s]] = r]
      BY <2>2 DEF ChildFails
    <3>2. bailFlag => BailAfterFailure
      BY DEF BailAfterFailure
    <3>3. BailAfterFailure => bailFlag'
      BY <3>1
    <3>4. \A f \in Files : Moved(f)
      <4> SUFFICES ASSUME NEW f \in Files
                   PROVE  Moved(f)
        OBVIOUS
      <4> QED  BY <1>8, <2>0, <3>1, <3>2, <3>3, SlotTurnMoves
    <3> QED  BY <1>2, <1>3, <1>4, <3>1, <3>4
  <2> QED  BY <1>8, <2>1, <2>2 DEF SlotStep
\* The steps that conclude.
<1>9. CASE BootstrapFails
  <2>1. /\ UNCHANGED <<opts, outcome, slotState, slotFile>>
        /\ phase = "bootstrap" /\ phase' = "exited" /\ exitCode' = 1
        /\ Running = {} /\ \A f \in Files : outcome[f] = "todo"
    BY <1>9 DEF BootstrapFails, Exit, slotVars, IInv, NotStarted, SerialFirst
  <2>2. Selected' = Selected /\ Running' = {}
    BY <2>1 DEF Selected, Serial, Parallel, Running
  <2>3. \A f \in Files : Status[f] = "todo" /\ Status'[f] = "todo"
    BY <2>1, <2>2 DEF Status, StatusOf
  <2>4. Verdict = "none" /\ Verdict' = "fail"
    BY <1>3, <2>1 DEF Verdict
  <2> QED  BY <1>1, <2>2, <2>3, <2>4 DEF WQ!Next, WQ!Conclude
<1>10. CASE SerialFails
  <2>1. /\ UNCHANGED <<opts, slotState, slotFile>>
        /\ phase = "serial" /\ phase' = "exited" /\ exitCode' = 1
        /\ outcome' = [f \in Files |-> IF f \in Serial THEN "failed" ELSE outcome[f]]
        /\ Serial # {} /\ Running = {} /\ \A f \in Files : outcome[f] = "todo"
    BY <1>10 DEF SerialFails, Exit, slotVars, IInv, NotStarted, SerialFirst
  <2>2. Selected' = Selected /\ Serial' = Serial /\ Running' = {}
    BY <2>1 DEF Selected, Serial, Parallel, Running
  <2>3. \A f \in Files : IF f \in Serial THEN Status[f] = "running" /\ Status'[f] = "failed"
                        ELSE Status[f] = "todo" /\ Status'[f] = "todo"
    BY <2>1, <2>2 DEF Status, StatusOf
  <2>4. Verdict = "none" /\ Verdict' = "fail"
    BY <1>3, <2>1 DEF Verdict
  <2>5. \E f \in Selected : Status'[f] = "failed"
    BY <1>0, <2>1, <2>3
  <2> QED  BY <1>0, <1>1, <2>2, <2>3, <2>4, <2>5 DEF WQ!Next, WQ!Conclude
<1>11. CASE NothingParallel
  <2>1. /\ UNCHANGED <<opts, outcome, slotState, slotFile>>
        /\ phase = "recovery" /\ phase' = "exited" /\ exitCode' = 0
        /\ Parallel = {} /\ Running = {} /\ \A f \in Serial : outcome[f] = "passed"
    BY <1>11 DEF NothingParallel, Exit, slotVars, IInv, NotStarted, SerialFirst
  <2>2. Selected' = Selected /\ Selected = Serial /\ Running' = {}
    BY <2>1 DEF Selected, Serial, Parallel, Running
  <2>3. \A f \in Files : Status'[f] = Status[f] /\ Status'[f] = outcome[f]
    BY <1>0, <2>1, <2>2 DEF Status, StatusOf
  <2>4. Verdict = "none" /\ Verdict' = "ok"
    BY <1>3, <2>1 DEF Verdict
  <2>5. \A f \in Files : Status'[f] # "running"
    BY <1>0, <2>3 DEF Outcomes
  <2>6. \A f \in Selected : Status'[f] = "passed"
    BY <1>0, <2>1, <2>2, <2>3
  <2> QED  BY <1>1, <2>2, <2>3, <2>4, <2>5, <2>6 DEF WQ!Next, WQ!Conclude
<1>12. CASE ParallelEnds
  <2>1. /\ UNCHANGED <<opts, outcome, slotState, slotFile>>
        /\ phase = "parallel" /\ phase' = "exited" /\ AllSlotsDone
        /\ exitCode' = IF Failures # {} THEN 1 ELSE 0
        /\ \A f \in Serial : outcome[f] = "passed"
    BY <1>12 DEF ParallelEnds, ParallelExitCode, Exit, slotVars, IInv, SerialFirst
  <2>2. Selected' = Selected /\ Running = {} /\ Running' = {}
    BY <2>1 DEF Selected, Serial, Parallel, Running, AllSlotsDone
  <2>3. \A f \in Files : Status'[f] = Status[f] /\ Status'[f] = outcome[f]
    BY <1>0, <2>1, <2>2 DEF Status, StatusOf
  <2>4. \A f \in Files : Status'[f] # "running"
    BY <1>0, <2>3 DEF Outcomes
  <2>5. CASE Failures # {}
    <3>1. Verdict = "none" /\ Verdict' = "fail"
      BY <1>3, <2>1, <2>5 DEF Verdict
    <3>2. \E f \in Selected : Status'[f] = "failed"
      BY <1>0, <2>3, <2>5 DEF Failures
    <3> QED  BY <1>1, <2>2, <2>3, <2>4, <3>1, <3>2 DEF WQ!Next, WQ!Conclude
  <2>6. CASE Failures = {}
    <3>1. Verdict = "none" /\ Verdict' = "ok"
      BY <1>3, <2>1, <2>6 DEF Verdict
    <3>2. \A f \in Parallel : outcome[f] # "todo"
      BY <2>1, <2>6, AllRanOrBailed DEF IInv, StopInv
    <3>3. \A f \in Selected : Status'[f] = "passed"
      BY <1>0, <2>1, <2>3, <2>6, <3>2 DEF Failures, Selected, Outcomes
    <3> QED  BY <1>1, <2>2, <2>3, <2>4, <3>1, <3>3 DEF WQ!Next, WQ!Conclude
  <2> QED  BY <2>5, <2>6
\* The end of a run and the next one.
<1>13. CASE Killed
  <2>1. /\ UNCHANGED <<opts, outcome, slotState, slotFile>>
        /\ phase \notin {"exited", "killed"} /\ phase' = "killed"
    BY <1>13 DEF Killed, slotVars
  <2>2. Selected' = Selected /\ Running' = Running /\ Serial' = Serial
    BY <2>1 DEF Selected, Serial, Parallel, Running
  <2>3. \A f \in Files : Status'[f] = outcome[f]
    BY <1>0, <2>1 DEF Status, StatusOf, Outcomes
  <2>4. \A f \in Files :
          Status'[f] = IF Status[f] = "running" THEN "todo" ELSE Status[f]
    BY <1>0, <2>3 DEF Status, StatusOf, Outcomes
  <2>5. Status' = [f \in Files |-> IF Status[f] = "running" THEN "todo" ELSE Status[f]]
    BY <2>4 DEF Status
  <2>6. Verdict = "none" /\ Verdict' = "killed"
    BY <1>3, <2>1 DEF Verdict
  <2> QED  BY <2>2, <2>5, <2>6 DEF WQ!Next, WQ!Kill
<1>14. CASE NewRun
  <2>1. /\ phase \in {"exited", "killed"} /\ phase' = "bootstrap" /\ exitCode' = NoExit
        /\ outcome' = [f \in Files |-> "todo"] /\ slotState' = [s \in Slots |-> "idle"]
        /\ opts' \in Options
    BY <1>14 DEF NewRun, AllSlots
  <2>2. Running' = {} /\ Verdict' = "none"
    BY <2>1 DEF Running, Verdict, NoExit
  <2>3. Status' = [f \in Files |-> "todo"]
    BY <2>1, <2>2 DEF Status, StatusOf
  <2>4. Selected' \in SUBSET Files
    BY <2>1, FilesAssumption DEF Selected, Serial, Parallel, Partition, Options
  <2>5. CASE Verdict # "none"
    BY <2>2, <2>3, <2>4, <2>5 DEF WQ!Next, WQ!Again
  <2>6. CASE Verdict = "none"
    BY <2>1, <2>6 DEF Verdict, IInv, ExitInv, TypeOK, NoExit
  <2> QED  BY <2>5, <2>6
<1>15. CASE UNCHANGED vars
  BY <1>15 DEF vars, WQ!wqvars, Selected, Serial, Parallel, Status, StatusOf, Verdict,
       Running
<1> QED  BY <1>5, <1>6, <1>7, <1>8, <1>9, <1>10, <1>11, <1>12, <1>13, <1>14, <1>15
         DEF Next, MainStep

\* With at least one slot the runner implements WorkQueue: each selected file is
\* executed at most once per run, success is reported only when all have passed,
\* failure only with a failed file or before the first one, and no process is
\* left behind by a run that ends by itself.
THEOREM ImplementsWorkQueue ==
  ASSUME WorkerCount > 0
  PROVE  Spec => RunsTheQueue
<1>1. Init => WQ!Init
  <2> SUFFICES ASSUME Init PROVE WQ!Init
    OBVIOUS
  <2>1. Selected \in SUBSET Files
    BY PartitionFacts DEF Init, Selected
  <2>2. Running = {} /\ phase = "bootstrap" /\ \A f \in Files : outcome[f] = "todo"
    BY DEF Init, Running, AllSlots
  <2>3. Status = [f \in Files |-> "todo"]
    BY <2>2 DEF Status, StatusOf
  <2>4. Verdict = "none"
    BY DEF Init, Verdict, NoExit
  <2> QED  BY <2>1, <2>3, <2>4 DEF WQ!Init, WQ!Fresh
<1>2. IInv /\ IInv' /\ [Next]_vars => [WQ!Next]_(WQ!wqvars)
  BY RefinementStep
<1> QED  BY Invariance, <1>1, <1>2, PTL DEF Spec, RunsTheQueue, WQ!Spec

(***************************************************************************)
(* Bailing.                                                                *)
(***************************************************************************)

\* A turn that sees the bail flag takes no file.
LEMMA BailedTurn ==
  ASSUME IInv, phase = "parallel", NEW s \in Slots, TakeNext(s, TRUE), opts' = opts,
         outcome' = outcome \/ (slotState[s] = "running"
                                 /\ \E r : outcome' = [outcome EXCEPT ![slotFile[s]] = r])
  PROVE  Dispatched' \subseteq Dispatched
<1>1. /\ outcome \in [Files -> Outcomes] /\ Parallel \subseteq Files
      /\ slotState \in [Slots -> {"idle", "waiting", "running", "done"}]
      /\ slotFile \in [Slots -> Files \cup {NoFile}]
  BY PartitionFacts DEF IInv, TypeOK
<1>2. Parallel' = Parallel
  BY DEF Parallel
<1>3. /\ slotState' = [slotState EXCEPT ![s] = "done"]
      /\ slotFile' = [slotFile EXCEPT ![s] = NoFile]
  BY DEF TakeNext, MayPull
<1>4. Running' \subseteq Running /\ \A t \in Running' : slotFile'[t] = slotFile[t]
  BY <1>1, <1>3 DEF Running
<1>5. \A f \in Files : outcome'[f] = outcome[f] \/ (s \in Running /\ f = slotFile[s])
  BY <1>1 DEF Running
<1> QED  BY <1>1, <1>2, <1>4, <1>5 DEF Dispatched

\* After a failure under --bail no slot starts another file, however many slots
\* are between two files at that moment.
THEOREM BailIsFinal == Spec => BailStopsDispatch
<1> DEFINE A == bailFlag' => Dispatched' \subseteq Dispatched
<1>1. ASSUME IInv, [Next]_vars PROVE A
  <2> SUFFICES ASSUME bailFlag' PROVE Dispatched' \subseteq Dispatched
    OBVIOUS
  <2> USE <1>1
  <2>1. phase \in {"bootstrap", "serial", "recovery"} => ~bailFlag
    BY DEF IInv, NotStarted
  <2>2. ASSUME NEW s \in Slots, SlotStep(s) PROVE Dispatched' \subseteq Dispatched
    <3>1. /\ phase = "parallel" /\ opts' = opts /\ TakeNext(s, TRUE)
      BY <2>2 DEF SlotStep, SlotWakes, ChildPasses, ChildFails, BailAfterFailure, TakeNext,
           Cursor, MayPull
    <3>2. outcome' = outcome \/ (slotState[s] = "running"
                                  /\ \E r : outcome' = [outcome EXCEPT ![slotFile[s]] = r])
      BY <2>2 DEF SlotStep, SlotWakes, ChildPasses, ChildFails
    <3> QED  BY <2>2, <3>1, <3>2, BailedTurn
  <2>3. CASE ParallelEnds \/ Killed \/ UNCHANGED vars
    <3>1. UNCHANGED <<opts, outcome, slotState, slotFile>>
      BY <2>3 DEF ParallelEnds, Killed, vars, slotVars
    <3> QED  BY <3>1 DEF Dispatched, Running, Parallel
  <2>4. CASE NewRun
    BY <2>4 DEF NewRun
  <2>5. CASE Bootstrap \/ BootstrapFails \/ SerialPasses \/ SerialFails \/ StartParallel
             \/ NothingParallel
    BY <2>1, <2>5 DEF Bootstrap, BootstrapFails, SerialPasses, SerialFails, StartParallel,
         NothingParallel, queueVars
  <2> QED  BY <2>2, <2>3, <2>4, <2>5 DEF Next, MainStep
<1> QED  BY Invariance, <1>1, PTL DEF Spec, BailStopsDispatch

(***************************************************************************)
(* The merged report.                                                      *)
(***************************************************************************)
\* A report of this run stays on disk until the merge: its name is of a slot
\* and of an index that the slot has gone past, or the serial child's.
Holds(disk, f) == \E r \in disk : r.run = run /\ f \in r.files

ReportsNamed ==
  /\ \A r \in reports : r.run \in Nat /\ r.run <= run
  /\ \A r \in reports : r.run = run =>
       r.tag = SerialTag \/ \E s \in Slots, n \in Nat : r.tag = <<s, n>> /\ n < runIndex[s]

ReportsInv ==
  /\ ReportsNamed
  /\ phase \in {"bootstrap", "serial"} => wrote = {}
  /\ phase \in {"recovery", "parallel"} => \A f \in wrote : Holds(reports, f)
  /\ MergedReportComplete

\* Whatever becomes of a merge, an emptied directory is in the merged report.
LEMMA MergeHolds ==
  ASSUME NEW disk, MergeReports(disk), run' = run, reports' = {},
         \A f \in wrote' : Holds(disk, f)
  PROVE  \A f \in wrote' : \E r \in merged' : r.run = run' /\ f \in r.files
BY DEF MergeReports, Holds

\* A merge invents no report.
LEMMA MergeNames ==
  ASSUME NEW disk, MergeReports(disk)
  PROVE  reports' \subseteq disk
BY DEF MergeReports

\* The disk after a report of this run was written under a slot's name.
Written(q, s) ==
  /\ q.tag = <<s, runIndex[s]>> /\ q.run = run /\ q.files = {slotFile[s]}
  /\ reports' = {r \in reports : r.tag # q.tag} \cup {q}

\* A child's report takes a name of its own.
LEMMA SlotReports ==
  ASSUME TypeOK, ReportsInv, phase = "parallel", NEW s \in Slots,
         wrote' \in {wrote, wrote \cup {slotFile[s]}},
         \/ \E q : Written(q, s)
         \/ reports' = reports /\ wrote' = wrote,
         runIndex' = [runIndex EXCEPT ![s] = @ + 1], run' = run, phase' = phase
  PROVE  ReportsInv'
<1>1. /\ runIndex \in [Slots -> Nat] /\ run \in Nat /\ -1 \notin Slots
      /\ runIndex' \in [Slots -> Nat] /\ runIndex'[s] = runIndex[s] + 1
      /\ \A t \in Slots : runIndex[t] <= runIndex'[t]
  BY DEF TypeOK, Slots
<1>2. ReportsNamed /\ \A f \in wrote : Holds(reports, f)
  BY DEF ReportsInv
<1>3. \A r \in reports : r.run = run => r.tag # <<s, runIndex[s]>>
  <2> SUFFICES ASSUME NEW r \in reports, r.run = run, r.tag = <<s, runIndex[s]>> PROVE FALSE
    OBVIOUS
  <2>1. SerialTag = <<-1, 0>>
    BY DEF SerialTag
  <2>2. r.tag # SerialTag
    BY <1>1, <2>1
  <2>3. PICK t \in Slots, n \in Nat : r.tag = <<t, n>> /\ n < runIndex[t]
    BY <1>2, <2>2 DEF ReportsNamed
  <2>4. t = s /\ n = runIndex[s]
    BY <2>3
  <2> QED  BY <1>1, <2>3, <2>4
<1>5. CASE reports' = reports /\ wrote' = wrote
  BY <1>1, <1>2, <1>5 DEF ReportsInv, ReportsNamed, Holds, MergedReportComplete
<1>6. ASSUME NEW new, Written(new, s)
      PROVE  ReportsInv'
  <2>0. /\ new.tag = <<s, runIndex[s]>> /\ new.run = run /\ new.files = {slotFile[s]}
        /\ reports' = {r \in reports : r.tag # new.tag} \cup {new}
    BY <1>6 DEF Written
  <2>1. \A f \in wrote' : Holds(reports, f) \/ f \in new.files
    BY <1>2, <2>0
  <2>2. \A f \in wrote' : Holds(reports, f)'
    BY <1>3, <2>0, <2>1 DEF Holds
  <2>3. ReportsNamed'
    <3>1. \A r \in reports' : r.run \in Nat /\ r.run <= run'
      BY <1>1, <1>2, <2>0 DEF ReportsNamed
    <3>2. ASSUME NEW r \in reports', r.run = run'
          PROVE  r.tag = SerialTag \/ \E t \in Slots, n \in Nat : r.tag = <<t, n>> /\ n < runIndex'[t]
      <4>1. CASE r = new
        BY <1>1, <2>0, <4>1
      <4>2. CASE r \in reports
        BY <1>1, <1>2, <3>2, <4>2 DEF ReportsNamed
      <4> QED  BY <2>0, <4>1, <4>2
    <3> QED  BY <3>1, <3>2 DEF ReportsNamed, SerialTag
  <2> QED  BY <2>2, <2>3 DEF ReportsInv, MergedReportComplete
<1> QED  BY <1>5, <1>6

\* The end of the phases: the directory is merged, or there is nothing of this run.
LEMMA FinalMerge ==
  ASSUME ReportsNamed, NEW disk, MergeReports(disk), run' = run, runIndex' = runIndex,
         phase' = "exited", \A f \in wrote' : Holds(disk, f),
         \A r \in disk : r \in reports \/ (r.run = run /\ r.tag = SerialTag), run \in Nat
  PROVE  ReportsInv'
<1>1. reports' \subseteq disk
  BY MergeNames
<1>2. ReportsNamed'
  BY <1>1 DEF ReportsNamed, SerialTag
<1>3. reports' = {} => \A f \in wrote' : \E r \in merged' : r.run = run' /\ f \in r.files
  BY MergeHolds
<1> QED  BY <1>2, <1>3 DEF ReportsInv, MergedReportComplete

LEMMA ReportsStep ==
  ASSUME TypeOK, ReportsInv, [Next]_vars
  PROVE  ReportsInv'
<1>0. ReportsNamed /\ run \in Nat
  BY DEF ReportsInv, TypeOK
<1>1. CASE Bootstrap
  BY <1>1 DEF Bootstrap, AfterBootstrap, reportVars, slotVars, ReportsInv, ReportsNamed, Holds,
              MergedReportComplete
<1>2. CASE BootstrapFails
  BY <1>2 DEF BootstrapFails, Exit, reportVars, slotVars, ReportsInv, ReportsNamed, Holds,
              MergedReportComplete
<1>3. CASE SerialPasses \/ SerialFails
  <2>1. wrote = {} /\ UNCHANGED <<run, runIndex>>
    BY <1>3 DEF SerialPasses, SerialFails, slotVars, ReportsInv
  <2>2. ASSUME NEW ok
        PROVE  /\ \A f \in Serial : Holds(Write(reports, SerialTag, Serial, ok), f)
               /\ \A r \in Write(reports, SerialTag, Serial, ok) :
                    r \in reports \/ (r.run = run /\ r.tag = SerialTag)
    <3> DEFINE new == [tag |-> SerialTag, run |-> run, files |-> Serial, ok |-> ok]
    <3>1. new.tag = SerialTag /\ new.run = run /\ new.files = Serial
      OBVIOUS
    <3>2. Write(reports, SerialTag, Serial, ok) = {r \in reports : r.tag # SerialTag} \cup {new}
      BY DEF Write
    <3> HIDE DEF new
    <3> QED  BY <3>1, <3>2 DEF Holds
  <2>3. CASE SerialPasses
    <3>1. /\ reports' = Write(reports, SerialTag, Serial, TRUE) /\ wrote' = Serial
          /\ phase' = "recovery"
      BY <2>1, <2>3 DEF SerialPasses
    <3>2. \A f \in wrote' : Holds(reports, f)'
      BY <2>1, <2>2, <3>1 DEF Holds
    <3>3. ReportsNamed'
      <4>1. \A r \in reports' : r \in reports \/ (r.run = run /\ r.tag = SerialTag)
        BY <2>2, <3>1
      <4> QED  BY <1>0, <2>1, <4>1 DEF ReportsNamed, SerialTag
    <3> QED  BY <3>1, <3>2, <3>3 DEF ReportsInv, MergedReportComplete
  <2>4. CASE SerialFails
    <3>1. \/ wrote' = Serial /\ MergeReports(Write(reports, SerialTag, Serial, FALSE))
          \/ wrote' = {} /\ MergeReports(reports)
      BY <2>1, <2>4 DEF SerialFails
    <3>2. phase' = "exited"
      BY <2>4 DEF SerialFails, Exit
    <3>3. CASE wrote' = Serial /\ MergeReports(Write(reports, SerialTag, Serial, FALSE))
      <4> DEFINE disk == Write(reports, SerialTag, Serial, FALSE)
      <4>1. /\ \A f \in wrote' : Holds(disk, f)
            /\ \A r \in disk : r \in reports \/ (r.run = run /\ r.tag = SerialTag)
        BY <2>2, <3>3
      <4>2. MergeReports(disk)
        BY <3>3
      <4> HIDE DEF disk
      <4> QED  BY <1>0, <2>1, <3>2, <4>1, <4>2, FinalMerge
    <3>4. CASE wrote' = {} /\ MergeReports(reports)
      BY <1>0, <2>1, <3>2, <3>4, FinalMerge
    <3> QED  BY <3>1, <3>3, <3>4
  <2> QED  BY <1>3, <2>3, <2>4
<1>4. CASE StartParallel
  BY <1>4 DEF StartParallel, reportVars, ReportsInv, ReportsNamed, Holds, MergedReportComplete
<1>5. CASE NothingParallel \/ ParallelEnds
  <2>1. /\ MergeReports(reports) /\ UNCHANGED <<run, runIndex, wrote>> /\ phase' = "exited"
        /\ phase \in {"recovery", "parallel"}
    BY <1>5 DEF NothingParallel, ParallelEnds, Exit, slotVars
  <2>2. \A f \in wrote' : Holds(reports, f)
    BY <2>1 DEF ReportsInv, Holds
  <2> QED  BY <1>0, <2>1, <2>2, FinalMerge
<1>6. ASSUME NEW s \in Slots, SlotStep(s)
      PROVE  ReportsInv'
  <2>1. CASE SlotWakes(s)
    BY <2>1 DEF SlotWakes, reportVars, ReportsInv, ReportsNamed, Holds, MergedReportComplete
  <2>2. CASE ChildPasses(s)
    <3>1. /\ Written([tag |-> <<s, runIndex[s]>>, run |-> run, files |-> {slotFile[s]}, ok |-> TRUE], s)
          /\ wrote' = wrote \cup {slotFile[s]} /\ phase = "parallel"
          /\ runIndex' = [runIndex EXCEPT ![s] = @ + 1] /\ run' = run /\ phase' = phase
      BY <2>2 DEF ChildPasses, Write, ReportTag, Written
    <3>2. wrote' \in {wrote, wrote \cup {slotFile[s]}}
      BY <3>1
    <3> QED  BY <3>1, <3>2, SlotReports
  <2>3. CASE ChildFails(s)
    <3>1. /\ \/ /\ Written([tag |-> <<s, runIndex[s]>>, run |-> run, files |-> {slotFile[s]}, ok |-> FALSE], s)
                /\ wrote' = wrote \cup {slotFile[s]}
             \/ reports' = reports /\ wrote' = wrote
          /\ phase = "parallel"
          /\ runIndex' = [runIndex EXCEPT ![s] = @ + 1] /\ run' = run /\ phase' = phase
      BY <2>3 DEF ChildFails, Write, ReportTag, Written
    <3>2. wrote' \in {wrote, wrote \cup {slotFile[s]}}
      BY <3>1
    <3> QED  BY <3>1, <3>2, SlotReports
  <2> QED  BY <1>6, <2>1, <2>2, <2>3 DEF SlotStep
<1>7. CASE Killed
  BY <1>7 DEF Killed, slotVars, reportVars, ReportsInv, ReportsNamed, Holds, MergedReportComplete
<1>8. CASE NewRun
  <2>1. /\ run' = run + 1 /\ wrote' = {} /\ phase' = "bootstrap" /\ UNCHANGED reports
    BY <1>8 DEF NewRun
  <2>2. \A r \in reports' : r.run \in Nat /\ r.run <= run' /\ r.run # run'
    BY <1>0, <2>1 DEF ReportsNamed
  <2> QED  BY <2>1, <2>2 DEF ReportsInv, ReportsNamed, MergedReportComplete
<1>9. CASE UNCHANGED vars
  BY <1>9 DEF vars, ReportsInv, ReportsNamed, Holds, MergedReportComplete
<1> QED  BY <1>1, <1>2, <1>3, <1>4, <1>5, <1>6, <1>7, <1>8, <1>9 DEF Next, MainStep

\* A merge that consumed the directory lost no result of its run: no slot's
\* report overwrites another's, and an earlier run's is overwritten only.
THEOREM MergeLosesNothing == Spec => []MergedReportComplete
<1>1. Init => ReportsInv
  BY DEF Init, ReportsInv, ReportsNamed, MergedReportComplete
<1>2. ReportsInv => MergedReportComplete
  BY DEF ReportsInv
<1> QED  BY <1>1, <1>2, ReportsStep, TypeCorrect, PTL DEF Spec

(***************************************************************************)
(* Reports of earlier runs.                                                *)
(***************************************************************************)
\* A report on disk is this run's, while it lasts, or of a run that left its
\* reports unmerged.
Explained(r, at, ph, gone) == r.run \in gone \/ (r.run = at /\ ph \notin {"exited", "killed"})
StaleInv == \A r \in reports : Explained(r, run, phase, unmerged)

\* What any step does with the reports: it adds this run's, or merges them all.
LEMMA ReportsMove ==
  ASSUME [Next]_vars
  PROVE  \/ UNCHANGED <<phase, run, unmerged, reports, merged>>
         \/ /\ UNCHANGED <<run, unmerged, merged>> /\ phase \notin {"exited", "killed"}
            /\ phase' \notin {"exited", "killed"}
            /\ \A r \in reports' : r \in reports \/ r.run = run
         \/ /\ phase \notin {"exited", "killed"} /\ phase' = "exited" /\ run' = run
            /\ \E disk : MergeReports(disk) /\ \A r \in disk : r \in reports \/ r.run = run
         \/ /\ unmerged' = unmerged \cup {run} /\ UNCHANGED <<run, reports, merged>>
         \/ /\ phase \in {"exited", "killed"} /\ UNCHANGED <<reports, merged, unmerged>>
<1>0. ASSUME NEW tag, NEW fs, NEW ok, NEW r \in Write(reports, tag, fs, ok)
      PROVE  r \in reports \/ r.run = run
  BY <1>0 DEF Write
<1>1. CASE Bootstrap
  BY <1>1 DEF Bootstrap, AfterBootstrap, reportVars
<1>2. CASE BootstrapFails \/ Killed
  BY <1>2 DEF BootstrapFails, Killed, reportVars
<1>3. CASE SerialPasses
  BY <1>0, <1>3 DEF SerialPasses
<1>4. CASE SerialFails
  BY <1>0, <1>4 DEF SerialFails, Exit
<1>5. CASE StartParallel
  BY <1>5 DEF StartParallel, reportVars
<1>6. CASE NothingParallel \/ ParallelEnds
  BY <1>6 DEF NothingParallel, ParallelEnds, Exit
<1>7. ASSUME NEW s \in Slots, SlotStep(s)
      PROVE  /\ UNCHANGED <<run, unmerged, merged, phase>> /\ phase = "parallel"
             /\ \A r \in reports' : r \in reports \/ r.run = run
  <2>1. CASE SlotWakes(s)
    BY <2>1 DEF SlotWakes, reportVars
  <2>2. CASE ChildPasses(s)
    BY <2>2 DEF ChildPasses, Write
  <2>3. CASE ChildFails(s)
    BY <2>3 DEF ChildFails, Write
  <2> QED  BY <1>7, <2>1, <2>2, <2>3 DEF SlotStep
<1>8. CASE NewRun
  BY <1>8 DEF NewRun
<1>9. CASE UNCHANGED vars
  BY <1>9 DEF vars
<1> QED  BY <1>1, <1>2, <1>3, <1>4, <1>5, <1>6, <1>7, <1>8, <1>9 DEF Next, MainStep

\* Only what a killed or unmerged run left behind ever gets into another run's
\* merged report.
THEOREM StaleReportsExplained == Spec => StaleReportOnlyFromUnmergedRun
<1> DEFINE A == merged' # merged => \A r \in merged' : r.run = run \/ r.run \in unmerged
<1>1. Init => StaleInv
  BY DEF Init, StaleInv
<1>2. StaleInv /\ [Next]_vars => StaleInv' /\ A
  <2> SUFFICES ASSUME StaleInv, [Next]_vars PROVE StaleInv' /\ A
    OBVIOUS
  <2>1. CASE UNCHANGED <<phase, run, unmerged, reports, merged>>
    BY <2>1 DEF StaleInv
  <2>2. CASE /\ UNCHANGED <<run, unmerged, merged>> /\ phase \notin {"exited", "killed"}
             /\ phase' \notin {"exited", "killed"}
             /\ \A r \in reports' : r \in reports \/ r.run = run
    BY <2>2 DEF StaleInv, Explained
  <2>3. ASSUME phase \notin {"exited", "killed"}, phase' = "exited", run' = run,
               NEW disk, MergeReports(disk), \A r \in disk : r \in reports \/ r.run = run
        PROVE  StaleInv' /\ A
    BY <2>3 DEF MergeReports, StaleInv, Explained
  <2>4. CASE unmerged' = unmerged \cup {run} /\ UNCHANGED <<run, reports, merged>>
    BY <2>4 DEF StaleInv, Explained
  <2>5. CASE phase \in {"exited", "killed"} /\ UNCHANGED <<reports, merged, unmerged>>
    BY <2>5 DEF StaleInv, Explained
  <2> QED  BY ReportsMove, <2>1, <2>2, <2>3, <2>4, <2>5
<1> QED  BY <1>1, <1>2, PTL DEF Spec, StaleReportOnlyFromUnmergedRun

(***************************************************************************)
(* Lanes                                                                   *)
(***************************************************************************)
\* The operations, by the kind of step.
Reads == {"getContract", "resolve", "instances.set"}
Looks == {"hasRole", "balance", "instances.has", "noProxy", "unwired", "allActive"}
Sends == {"grantRole", "mapSelectors", "call", "fund", "pay", "sync"}
Polls == {"verifyParticipant", "replicas"}

\* The look s that finds what it asks for spares the step r.
Spares(s, r) ==
  /\ r.on = s.on
  /\ \/ s.op = "hasRole" /\ r.op = "grantRole" /\ r.role = s.role /\ r.to = s.to
     \/ s.op = "balance" /\ r.op = "fund" /\ r.to = s.to
     \/ s.op = "instances.has" /\ r.op \in {"resolve", "instances.set"}
     \/ s.op = "noProxy" /\ r.op \in {"hasRole", "grantRole"}
     \/ s.op = "unwired" /\ r.op = "mapSelectors"
     \/ s.op = "allActive" /\ r.op = "sync"

\* A step is one of its kind, and its wallets have a slot.
Proper(s) ==
  /\ s.on \in Chains
  /\ \/ s.kind = "look" /\ s.op \in Looks
     \/ s.kind = "send" /\ s.op \in Sends
     \/ s.kind = "read" /\ s.op \in Reads
     \/ s.kind = "poll" /\ s.op \in Polls
  /\ s.op = "fund" => s.to[1] \in Workers
  /\ s.op = "pay" => s.by[1] \in Workers

\* What a look may spare is what it looks for.
Skips(L, j) ==
  L[j].kind = "look" =>
    /\ L[j].skip \in Nat /\ j + L[j].skip <= Len(L)
    /\ \A m \in j + 1 .. j + L[j].skip : Spares(L[j], L[m])

\* An instance is looked for, wired twice, and only then stored.
Wires(L, j) ==
  /\ L[j].op = "instances.has" => L[j].skip = 3 /\ L[j + 3].op = "instances.set"
  /\ L[j].op = "resolve" =>
       /\ j > 1 /\ L[j - 1].on = L[j].on
       /\ \/ L[j - 1].op = "instances.has"
          \/ j > 2 /\ L[j - 1].op = "resolve" /\ L[j - 2].op = "instances.has"
  /\ L[j].op = "instances.set" =>
       /\ j > 2 /\ L[j - 1].on = L[j].on
       /\ L[j - 1].op = "resolve" /\ L[j - 2].op = "resolve"

\* A step is where it may be.
Fits(L, j) == Proper(L[j]) /\ Skips(L, j) /\ Wires(L, j)

\* A lane is a sequence of such steps.
Sound(L) ==
  /\ L \in Seq(ToSet(L))
  /\ \A j \in 1 .. Len(L) : Fits(L, j)

\* The steps of the programs, by what they are for.
seekInstance(c)   == look("instances.has", c, "", seed, 3)
seekRole(c, r, to) == look("hasRole", c, r, to, 1)
seekBalance(c, w) == look("balance", c, "", adminWallet(w), 1)
seekActive(n)     == look("allActive", n, "", seed, 1)
seekProxy(c)      == look("noProxy", c, "", seed, 2 * Len(WorkerSlots))
seekWiring        == look("unwired", Hub, "", seed, 1)
fundSlot(c, w)    == send("fund", c, "", adminWallet(w), seed)
syncNode(n)       == send("sync", n, "", seed, seed)
mapSelectors(w)   == send("mapSelectors", Hub, "", seed, adminWallet(w))
awaitReplicas     == poll("replicas", FALSE)
awaitHub          == poll("verifyParticipant", TRUE)

\* The fields of the looks, polls and particular transactions the programs are made of.
LEMMA SeekFields ==
  /\ \A c : /\ seekInstance(c).kind = "look" /\ seekInstance(c).op = "instances.has"
            /\ seekInstance(c).on = c /\ seekInstance(c).skip = 3
  /\ \A c, r, to :
       /\ seekRole(c, r, to).kind = "look" /\ seekRole(c, r, to).op = "hasRole"
       /\ seekRole(c, r, to).on = c /\ seekRole(c, r, to).skip = 1
       /\ seekRole(c, r, to).role = r /\ seekRole(c, r, to).to = to
  /\ \A c, w : /\ seekBalance(c, w).kind = "look" /\ seekBalance(c, w).op = "balance"
               /\ seekBalance(c, w).on = c /\ seekBalance(c, w).skip = 1
               /\ seekBalance(c, w).to = adminWallet(w)
  /\ \A c : /\ seekActive(c).kind = "look" /\ seekActive(c).op = "allActive"
            /\ seekActive(c).on = c /\ seekActive(c).skip = 1
  /\ \A c : /\ seekProxy(c).kind = "look" /\ seekProxy(c).op = "noProxy"
            /\ seekProxy(c).on = c /\ seekProxy(c).skip = 2 * Len(WorkerSlots)
  /\ seekWiring.kind = "look" /\ seekWiring.op = "unwired"
  /\ seekWiring.on = Hub /\ seekWiring.skip = 1
  /\ \A c, w : /\ fundSlot(c, w).kind = "send" /\ fundSlot(c, w).op = "fund"
               /\ fundSlot(c, w).on = c /\ fundSlot(c, w).to = adminWallet(w)
               /\ fundSlot(c, w).by = seed
  /\ \A c : syncNode(c).kind = "send" /\ syncNode(c).op = "sync" /\ syncNode(c).on = c
  /\ \A w : /\ mapSelectors(w).kind = "send" /\ mapSelectors(w).op = "mapSelectors"
            /\ mapSelectors(w).on = Hub /\ mapSelectors(w).by = adminWallet(w)
  /\ awaitReplicas.kind = "poll" /\ awaitReplicas.op = "replicas" /\ awaitReplicas.on = Hub
  /\ awaitHub.kind = "poll" /\ awaitHub.op = "verifyParticipant" /\ awaitHub.on = Hub
BY DEF seekInstance, seekRole, seekBalance, seekActive, seekProxy, seekWiring,
  fundSlot, syncNode, mapSelectors, awaitReplicas, awaitHub, look, send, poll, Step

\* The fields of a transaction and of a read.
LEMMA StepFields ==
  /\ \A op, c, r, to, by :
       /\ send(op, c, r, to, by).kind = "send" /\ send(op, c, r, to, by).op = op
       /\ send(op, c, r, to, by).on = c /\ send(op, c, r, to, by).role = r
       /\ send(op, c, r, to, by).to = to /\ send(op, c, r, to, by).by = by
  /\ \A op, c :
       /\ read(op, c).kind = "read" /\ read(op, c).op = op /\ read(op, c).on = c
BY DEF send, read, Step

\* A function on 1 .. n is a sequence over its elements.
LEMMA SeqIs ==
  ASSUME NEW n \in Nat, NEW L, L = [i \in 1 .. n |-> L[i]]
  PROVE  L \in Seq(ToSet(L)) /\ Len(L) = n /\ DOMAIN L = 1 .. n
<1>1. DOMAIN L = 1 .. n
  OBVIOUS
<1>2. \A i \in 1 .. n : L[i] \in ToSet(L)
  BY <1>1 DEF ToSet
<1>3. L \in [1 .. n -> ToSet(L)]
  BY <1>2
<1>4. L \in Seq(ToSet(L))
  BY <1>3, SeqDef
<1> QED  BY <1>1, <1>4, LenProperties

\* The elements of a sequence are its range.
LEMMA SeqParts ==
  ASSUME NEW L, L \in Seq(ToSet(L))
  PROVE  Len(L) \in Nat /\ DOMAIN L = 1 .. Len(L) /\ L = [i \in 1 .. Len(L) |-> L[i]]
<1>1. Len(L) \in Nat /\ L \in [1 .. Len(L) -> ToSet(L)] /\ DOMAIN L = 1 .. Len(L)
  BY LenProperties
<1> QED  BY <1>1

\* Two sequences, one after the other, position by position.
LEMMA ConcatIs ==
  ASSUME NEW a, NEW b, a \in Seq(ToSet(a)), b \in Seq(ToSet(b))
  PROVE  LET L == a \o b IN
         /\ L \in Seq(ToSet(L)) /\ Len(L) = Len(a) + Len(b)
         /\ \A i \in 1 .. Len(a) : L[i] = a[i]
         /\ \A i \in 1 .. Len(b) : L[Len(a) + i] = b[i]
<1> DEFINE S == ToSet(a) \cup ToSet(b)
           L == a \o b
<1>1. a \in Seq(S) /\ b \in Seq(S)
  BY SeqMonotonic
<1>2. Len(a) \in Nat /\ Len(b) \in Nat
  BY LenProperties
<1>3. /\ L \in Seq(S) /\ Len(L) = Len(a) + Len(b)
      /\ \A i \in 1 .. Len(a) + Len(b) : L[i] = IF i <= Len(a) THEN a[i] ELSE b[i - Len(a)]
  BY <1>1, ConcatProperties
<1> HIDE DEF L, S
<1>4. /\ \A i \in 1 .. Len(a) : L[i] = a[i]
      /\ \A i \in 1 .. Len(b) : L[Len(a) + i] = b[i]
  <2>1. ASSUME NEW i \in 1 .. Len(a)
        PROVE  L[i] = a[i]
    <3>1. i \in 1 .. Len(a) + Len(b) /\ i <= Len(a)
      BY <1>2
    <3> QED  BY <1>3, <3>1
  <2>2. ASSUME NEW i \in 1 .. Len(b)
        PROVE  L[Len(a) + i] = b[i]
    <3>1. /\ Len(a) + i \in 1 .. Len(a) + Len(b)
          /\ ~ Len(a) + i <= Len(a) /\ (Len(a) + i) - Len(a) = i
      BY <1>2
    <3> QED  BY <1>3, <3>1
  <2> QED  BY <2>1, <2>2
<1>5. L \in [1 .. Len(L) -> S]
  BY <1>3, LenProperties
<1>6. L = [i \in 1 .. Len(a) + Len(b) |-> L[i]]
  BY <1>3, <1>5
<1>7. L \in Seq(ToSet(L))
  <2>1. PICK n \in Nat : n = Len(a) + Len(b)
    BY <1>2
  <2>2. L = [i \in 1 .. n |-> L[i]]
    BY <1>6, <2>1
  <2> HIDE DEF L
  <2> QED  BY <2>1, <2>2, SeqIs
<1> QED  BY <1>3, <1>4, <1>7 DEF L

\* Lanes one after the other are one.
LEMMA SoundConcat ==
  ASSUME NEW a, NEW b, Sound(a), Sound(b)
  PROVE  Sound(a \o b)
<1> DEFINE L == a \o b
<1>1. a \in Seq(ToSet(a)) /\ b \in Seq(ToSet(b))
  BY DEF Sound
<1>2. /\ L \in Seq(ToSet(L)) /\ Len(L) = Len(a) + Len(b)
      /\ \A i \in 1 .. Len(a) : L[i] = a[i]
      /\ \A i \in 1 .. Len(b) : L[Len(a) + i] = b[i]
  BY <1>1, ConcatIs
<1>3. Len(a) \in Nat /\ Len(b) \in Nat
  BY <1>1, LenProperties
<1> HIDE DEF L
<1>4. ASSUME NEW j \in 1 .. Len(a)
      PROVE  Fits(L, j)
  <2>1. L[j] = a[j] /\ Fits(a, j)
    BY <1>2 DEF Sound
  <2>2. Skips(L, j)
    <3>1. SUFFICES ASSUME L[j].kind = "look"
                   PROVE  /\ L[j].skip \in Nat /\ j + L[j].skip <= Len(L)
                          /\ \A m \in j + 1 .. j + L[j].skip : Spares(L[j], L[m])
      BY DEF Skips
    <3>2. a[j].skip \in Nat /\ j + a[j].skip <= Len(a) /\ \A m \in j + 1 .. j + a[j].skip : Spares(a[j], a[m])
      BY <2>1, <3>1 DEF Fits, Skips
    <3>3. \A m \in j + 1 .. j + a[j].skip : L[m] = a[m]
      <4> SUFFICES ASSUME NEW m \in j + 1 .. j + a[j].skip
                   PROVE  m \in 1 .. Len(a)
        BY <1>2
      <4> QED  BY <1>3, <3>2
    <3> QED  BY <1>2, <1>3, <2>1, <3>2, <3>3
  <2>3. Wires(L, j)
    <3>1. Wires(a, j) /\ Skips(a, j) /\ Proper(a[j])
      BY <2>1 DEF Fits
    <3>2. j > 1 => L[j - 1] = a[j - 1]
      BY <1>2, <1>3
    <3>3. j > 2 => L[j - 2] = a[j - 2]
      BY <1>2, <1>3
    <3>4. a[j].op = "instances.has" => L[j + 3] = a[j + 3]
      <4>1. a[j].op = "instances.has" => a[j].kind = "look" /\ a[j].skip = 3
        BY <3>1 DEF Proper, Wires, Reads, Sends, Polls
      <4>2. a[j].op = "instances.has" => j + 3 \in 1 .. Len(a)
        BY <1>3, <3>1, <4>1 DEF Skips
      <4> QED  BY <1>2, <4>2
    <3> QED  BY <2>1, <3>1, <3>2, <3>3, <3>4 DEF Wires
  <2> QED  BY <2>1, <2>2, <2>3 DEF Fits
<1>5. ASSUME NEW i \in 1 .. Len(b)
      PROVE  Fits(L, Len(a) + i)
  <2> DEFINE j == Len(a) + i
  <2>1. L[j] = b[i] /\ Fits(b, i)
    BY <1>2 DEF Sound
  <2>2. Skips(L, j)
    <3>1. SUFFICES ASSUME L[j].kind = "look"
                   PROVE  /\ L[j].skip \in Nat /\ j + L[j].skip <= Len(L)
                          /\ \A m \in j + 1 .. j + L[j].skip : Spares(L[j], L[m])
      BY DEF Skips
    <3>2. b[i].skip \in Nat /\ i + b[i].skip <= Len(b) /\ \A m \in i + 1 .. i + b[i].skip : Spares(b[i], b[m])
      BY <2>1, <3>1 DEF Fits, Skips
    <3>3. ASSUME NEW m \in j + 1 .. j + b[i].skip
          PROVE  Spares(b[i], L[m])
      <4>1. m - Len(a) \in i + 1 .. i + b[i].skip /\ m - Len(a) \in 1 .. Len(b)
            /\ m = Len(a) + (m - Len(a))
        BY <1>3, <3>2
      <4>2. L[m] = b[m - Len(a)]
        BY <1>2, <4>1
      <4> QED  BY <3>2, <4>1, <4>2
    <3> QED  BY <1>2, <1>3, <2>1, <3>2, <3>3
  <2>3. Wires(L, j)
    <3>1. Wires(b, i) /\ Skips(b, i) /\ Proper(b[i])
      BY <2>1 DEF Fits
    <3>2. i > 1 => L[j - 1] = b[i - 1]
      <4>1. i > 1 => i - 1 \in 1 .. Len(b) /\ j - 1 = Len(a) + (i - 1)
        BY <1>3
      <4> QED  BY <1>2, <4>1
    <3>3. i > 2 => L[j - 2] = b[i - 2]
      <4>1. i > 2 => i - 2 \in 1 .. Len(b) /\ j - 2 = Len(a) + (i - 2)
        BY <1>3
      <4> QED  BY <1>2, <4>1
    <3>4. b[i].op = "instances.has" => L[j + 3] = b[i + 3]
      <4>1. b[i].op = "instances.has" => b[i].kind = "look" /\ b[i].skip = 3
        BY <3>1 DEF Proper, Wires, Reads, Sends, Polls
      <4>2. b[i].op = "instances.has" => i + 3 \in 1 .. Len(b) /\ j + 3 = Len(a) + (i + 3)
        BY <1>3, <3>1, <4>1 DEF Skips
      <4> QED  BY <1>2, <4>2
    <3>5. (i > 1 => j > 1) /\ (i > 2 => j > 2)
      BY <1>3
    <3> HIDE DEF j
    <3> QED  BY <2>1, <3>1, <3>2, <3>3, <3>4, <3>5 DEF Wires
  <2> QED  BY <2>1, <2>2, <2>3 DEF Fits
<1>6. ASSUME NEW j \in 1 .. Len(L)
      PROVE  Fits(L, j)
  <2>1. j \in 1 .. Len(a) \/ j - Len(a) \in 1 .. Len(b)
    BY <1>2, <1>3
  <2>2. j = Len(a) + (j - Len(a))
    BY <1>3
  <2> QED  BY <1>4, <1>5, <2>1, <2>2
<1> QED  BY <1>2, <1>6 DEF Sound, L

\* Two steps for each member of a sequence: where each of them is.
LEMMA TwoEach ==
  ASSUME NEW n \in Nat
  PROVE  /\ \A i \in 1 .. 2 * n : \E k \in 1 .. n : \E j \in {1, 2} : i = 2 * (k - 1) + j
         /\ \A k \in 1 .. n : \A j \in {1, 2} :
              /\ 2 * (k - 1) + j \in 1 .. 2 * n
              /\ ((2 * (k - 1) + j - 1) \div 2) + 1 = k /\ ((2 * (k - 1) + j - 1) % 2) + 1 = j
<1>1. ASSUME NEW i \in 1 .. 2 * n
      PROVE  \E k \in 1 .. n : \E j \in {1, 2} : i = 2 * (k - 1) + j
  <2>1. ((i - 1) \div 2) + 1 \in 1 .. n /\ ((i - 1) % 2) + 1 \in {1, 2}
        /\ i = 2 * ((((i - 1) \div 2) + 1) - 1) + (((i - 1) % 2) + 1)
    OBVIOUS
  <2> QED  BY <2>1
<1>2. ASSUME NEW k \in 1 .. n, NEW j \in {1, 2}
      PROVE  /\ 2 * (k - 1) + j \in 1 .. 2 * n
             /\ ((2 * (k - 1) + j - 1) \div 2) + 1 = k /\ ((2 * (k - 1) + j - 1) % 2) + 1 = j
  OBVIOUS
<1> QED  BY <1>1, <1>2

\* Four steps for each member of a sequence: where each of them is.
LEMMA FourEach ==
  ASSUME NEW n \in Nat
  PROVE  /\ \A i \in 1 .. 4 * n : \E k \in 1 .. n : \E j \in 1 .. 4 : i = 4 * (k - 1) + j
         /\ \A k \in 1 .. n : \A j \in 1 .. 4 :
              /\ 4 * (k - 1) + j \in 1 .. 4 * n
              /\ ((4 * (k - 1) + j - 1) \div 4) + 1 = k /\ ((4 * (k - 1) + j - 1) % 4) + 1 = j
<1>1. ASSUME NEW i \in 1 .. 4 * n
      PROVE  \E k \in 1 .. n : \E j \in 1 .. 4 : i = 4 * (k - 1) + j
  <2>1. ((i - 1) \div 4) + 1 \in 1 .. n /\ ((i - 1) % 4) + 1 \in 1 .. 4
        /\ i = 4 * ((((i - 1) \div 4) + 1) - 1) + (((i - 1) % 4) + 1)
    OBVIOUS
  <2> QED  BY <2>1
<1>2. ASSUME NEW k \in 1 .. n, NEW j \in 1 .. 4
      PROVE  /\ 4 * (k - 1) + j \in 1 .. 4 * n
             /\ ((4 * (k - 1) + j - 1) \div 4) + 1 = k /\ ((4 * (k - 1) + j - 1) % 4) + 1 = j
  OBVIOUS
<1> QED  BY <1>1, <1>2

\* A lane of two steps for every slot, or of four for every node.
LEMMA InstancesAt ==
  ASSUME NEW cs, Len(cs) \in Nat
  PROVE  LET L == getInstances(cs) IN
         /\ Len(L) = 4 * Len(cs) /\ DOMAIN L = 1 .. 4 * Len(cs)
         /\ \A k \in 1 .. Len(cs) :
              /\ L[4 * (k - 1) + 1] = seekInstance(cs[k])
              /\ L[4 * (k - 1) + 2] = read("resolve", cs[k])
              /\ L[4 * (k - 1) + 3] = read("resolve", cs[k])
              /\ L[4 * (k - 1) + 4] = read("instances.set", cs[k])
<1> DEFINE L == getInstances(cs)
<1>1. L = [i \in 1 .. 4 * Len(cs) |-> getInstance(cs[((i - 1) \div 4) + 1])[((i - 1) % 4) + 1]]
  BY DEF getInstances, InTurn
<1>2. Len(L) = 4 * Len(cs) /\ DOMAIN L = 1 .. 4 * Len(cs)
  BY <1>1
<1>3. ASSUME NEW k \in 1 .. Len(cs), NEW j \in 1 .. 4
      PROVE  L[4 * (k - 1) + j] = getInstance(cs[k])[j]
  <2>1. /\ 4 * (k - 1) + j \in 1 .. 4 * Len(cs)
        /\ ((4 * (k - 1) + j - 1) \div 4) + 1 = k /\ ((4 * (k - 1) + j - 1) % 4) + 1 = j
    BY FourEach
  <2> QED  BY <1>1, <2>1
<1> HIDE DEF L
<1>4. ASSUME NEW k \in 1 .. Len(cs)
      PROVE  /\ L[4 * (k - 1) + 1] = getInstance(cs[k])[1] /\ L[4 * (k - 1) + 2] = getInstance(cs[k])[2]
             /\ L[4 * (k - 1) + 3] = getInstance(cs[k])[3] /\ L[4 * (k - 1) + 4] = getInstance(cs[k])[4]
  BY <1>3
<1>5. ASSUME NEW c
      PROVE  /\ getInstance(c)[1] = seekInstance(c)
             /\ getInstance(c)[2] = read("resolve", c) /\ getInstance(c)[3] = read("resolve", c)
             /\ getInstance(c)[4] = read("instances.set", c)
  BY DEF getInstance, seekInstance
<1>6. Len(L) = 4 * Len(cs) /\ DOMAIN L = 1 .. 4 * Len(cs)
         /\ \A k \in 1 .. Len(cs) :
              /\ L[4 * (k - 1) + 1] = seekInstance(cs[k])
              /\ L[4 * (k - 1) + 2] = read("resolve", cs[k])
              /\ L[4 * (k - 1) + 3] = read("resolve", cs[k])
              /\ L[4 * (k - 1) + 4] = read("instances.set", cs[k])
  BY <1>2, <1>4, <1>5
<1> QED  BY <1>6 DEF L

\* The slots are a sequence over the workers.
LEMMA SlotsTyped ==
  /\ Len(WorkerSlots) \in Nat /\ DOMAIN WorkerSlots = 1 .. Len(WorkerSlots)
  /\ \A k \in 1 .. Len(WorkerSlots) : WorkerSlots[k] \in Workers
  /\ \A w \in Workers : \E k \in 1 .. Len(WorkerSlots) : w = WorkerSlots[k]
<1>1. WorkerSlots \in Seq(Workers)
  BY SlotAssumption
<1> QED  BY <1>1 DEF Workers, ToSet

\* fundNode(): for each slot the look at its balance, then its transfer.
LEMMA FundAt ==
  ASSUME NEW c
  PROVE  LET L == fundNode(c) n == Len(WorkerSlots) IN
         /\ Len(L) = 2 * n /\ DOMAIN L = 1 .. 2 * n
         /\ \A k \in 1 .. n :
              /\ L[2 * (k - 1) + 1] = seekBalance(c, WorkerSlots[k])
              /\ L[2 * (k - 1) + 2] = fundSlot(c, WorkerSlots[k])
<1> DEFINE L == fundNode(c)
           n == Len(WorkerSlots)
           block(w) == << seekBalance(c, w), fundSlot(c, w) >>
<1>1. n \in Nat
  BY SlotsTyped
<1>2. L = [i \in 1 .. 2 * n |-> block(WorkerSlots[((i - 1) \div 2) + 1])[((i - 1) % 2) + 1]]
  BY DEF fundNode, InTurn, block, seekBalance, fundSlot
<1> HIDE DEF L, block
<1>3. Len(L) = 2 * n /\ DOMAIN L = 1 .. 2 * n
  <2>1. L = [i \in 1 .. 2 * n |-> L[i]]
    BY <1>2
  <2>2. 2 * n \in Nat
    BY <1>1
  <2> HIDE DEF n
  <2> QED  BY <2>1, <2>2, SeqIs
<1>4. ASSUME NEW k \in 1 .. n, NEW j \in {1, 2}
      PROVE  L[2 * (k - 1) + j] = block(WorkerSlots[k])[j]
  <2>1. /\ 2 * (k - 1) + j \in 1 .. 2 * n
        /\ ((2 * (k - 1) + j - 1) \div 2) + 1 = k /\ ((2 * (k - 1) + j - 1) % 2) + 1 = j
    BY <1>1, TwoEach
  <2> QED  BY <1>2, <2>1
<1>5. ASSUME NEW k \in 1 .. n
      PROVE  /\ L[2 * (k - 1) + 1] = block(WorkerSlots[k])[1]
             /\ L[2 * (k - 1) + 2] = block(WorkerSlots[k])[2]
  <2> QED  BY <1>4
<1>6. Len(L) = 2 * n /\ DOMAIN L = 1 .. 2 * n
         /\ \A k \in 1 .. n :
              /\ L[2 * (k - 1) + 1] = seekBalance(c, WorkerSlots[k])
              /\ L[2 * (k - 1) + 2] = fundSlot(c, WorkerSlots[k])
  BY <1>3, <1>5 DEF block
<1> QED  BY <1>6 DEF L

\* A step put before a sequence.
LEMMA ConsIs ==
  ASSUME NEW e, NEW G, G \in Seq(ToSet(G))
  PROVE  LET L == <<e>> \o G IN
         /\ L \in Seq(ToSet(L)) /\ Len(L) = 1 + Len(G) /\ L[1] = e
         /\ \A i \in 1 .. Len(G) : L[1 + i] = G[i]
<1> DEFINE F == <<e>>
<1>1. F = [i \in 1 .. 1 |-> F[i]] /\ F[1] = e
  OBVIOUS
<1> HIDE DEF F
<1>2. F \in Seq(ToSet(F)) /\ Len(F) = 1
  BY <1>1, SeqIs
<1>3. F \in Seq(ToSet(F)) /\ G \in Seq(ToSet(G))
  BY <1>2
<1> DEFINE L == F \o G
<1>4. /\ L \in Seq(ToSet(L)) /\ Len(L) = Len(F) + Len(G)
      /\ \A i \in 1 .. Len(F) : L[i] = F[i]
      /\ \A i \in 1 .. Len(G) : L[Len(F) + i] = G[i]
  BY <1>3, ConcatIs
<1> HIDE DEF L
<1>5. /\ L \in Seq(ToSet(L)) /\ Len(L) = 1 + Len(G) /\ L[1] = e
      /\ \A i \in 1 .. Len(G) : L[1 + i] = G[i]
  BY <1>1, <1>2, <1>4
<1> QED  BY <1>5 DEF L, F

\* bootstrapNode(): the look for a proxy, then for each slot a look and a grant.
LEMMA BootAt ==
  ASSUME NEW c
  PROVE  LET L == bootstrapNode(c) n == Len(WorkerSlots) IN
         /\ L \in Seq(ToSet(L)) /\ Len(L) = 2 * n + 1
         /\ L[1] = seekProxy(c)
         /\ \A k \in 1 .. n :
              /\ L[2 * k] = seekRole(c, "ADMIN", adminWallet(WorkerSlots[k]))
              /\ L[2 * k + 1] = send("grantRole", c, "ADMIN", adminWallet(WorkerSlots[k]), seed)
<1> DEFINE L == bootstrapNode(c)
           n == Len(WorkerSlots)
           block(w) == grantOnce(c, "ADMIN", adminWallet(w), seed)
           first == seekProxy(c)
           G == [i \in 1 .. 2 * n |-> block(WorkerSlots[((i - 1) \div 2) + 1])[((i - 1) % 2) + 1]]
<1>1. n \in Nat
  BY SlotsTyped
<1>2. L = <<first>> \o G
  BY DEF bootstrapNode, InTurn, seekProxy
<1> HIDE DEF L, block
<1>3. ASSUME NEW k \in 1 .. n, NEW j \in {1, 2}
      PROVE  G[2 * (k - 1) + j] = block(WorkerSlots[k])[j]
  <2>1. /\ 2 * (k - 1) + j \in 1 .. 2 * n
        /\ ((2 * (k - 1) + j - 1) \div 2) + 1 = k /\ ((2 * (k - 1) + j - 1) % 2) + 1 = j
    BY <1>1, TwoEach
  <2> QED  BY <2>1
<1>4. ASSUME NEW w
      PROVE  /\ block(w)[1] = seekRole(c, "ADMIN", adminWallet(w))
             /\ block(w)[2] = send("grantRole", c, "ADMIN", adminWallet(w), seed)
  BY DEF grantOnce, block, seekRole
<1>5. G \in Seq(ToSet(G)) /\ Len(G) = 2 * n
  <2>1. G = [i \in 1 .. 2 * n |-> G[i]]
    OBVIOUS
  <2>2. 2 * n \in Nat
    BY <1>1
  <2> HIDE DEF n, G
  <2> QED  BY <2>1, <2>2, SeqIs
<1> HIDE DEF G, first
<1>6. /\ L \in Seq(ToSet(L)) /\ Len(L) = 1 + Len(G) /\ L[1] = first
      /\ \A i \in 1 .. Len(G) : L[1 + i] = G[i]
  <2>1. G \in Seq(ToSet(G))
    BY <1>5
  <2>2. LET K == <<first>> \o G IN
        /\ K \in Seq(ToSet(K)) /\ Len(K) = 1 + Len(G) /\ K[1] = first
        /\ \A i \in 1 .. Len(G) : K[1 + i] = G[i]
    BY <2>1, ConsIs
  <2> QED  BY <1>2, <2>2
<1>7. /\ L \in Seq(ToSet(L)) /\ Len(L) = 2 * n + 1 /\ L[1] = first
      /\ \A i \in 1 .. 2 * n : L[1 + i] = G[i]
  BY <1>1, <1>5, <1>6
<1>8. ASSUME NEW k \in 1 .. n
      PROVE  /\ L[2 * k] = block(WorkerSlots[k])[1]
             /\ L[2 * k + 1] = block(WorkerSlots[k])[2]
  <2>1. /\ 2 * (k - 1) + 1 \in 1 .. 2 * n /\ 1 + (2 * (k - 1) + 1) = 2 * k
        /\ 2 * (k - 1) + 2 \in 1 .. 2 * n /\ 1 + (2 * (k - 1) + 2) = 2 * k + 1
    BY <1>1
  <2>2. G[2 * (k - 1) + 1] = block(WorkerSlots[k])[1] /\ G[2 * (k - 1) + 2] = block(WorkerSlots[k])[2]
    BY <1>3
  <2> QED  BY <1>7, <2>1, <2>2
<1>9. /\ L \in Seq(ToSet(L)) /\ Len(L) = 2 * n + 1
      /\ L[1] = seekProxy(c)
      /\ \A k \in 1 .. n :
           /\ L[2 * k] = seekRole(c, "ADMIN", adminWallet(WorkerSlots[k]))
           /\ L[2 * k + 1] = send("grantRole", c, "ADMIN", adminWallet(WorkerSlots[k]), seed)
  BY <1>4, <1>7, <1>8 DEF first
<1> QED  BY <1>9 DEF L

\* The resynchronisation: for each node a look at its replica, then the request.
LEMMA SyncAt ==
  ASSUME NEW cs, Len(cs) \in Nat
  PROVE  LET L == InTurn(cs, 2, requestSync) IN
         /\ Len(L) = 2 * Len(cs) /\ DOMAIN L = 1 .. 2 * Len(cs)
         /\ \A k \in 1 .. Len(cs) :
              /\ L[2 * (k - 1) + 1] = seekActive(cs[k])
              /\ L[2 * (k - 1) + 2] = syncNode(cs[k])
<1> DEFINE L == InTurn(cs, 2, requestSync)
<1>1. L = [i \in 1 .. 2 * Len(cs) |-> requestSync(cs[((i - 1) \div 2) + 1])[((i - 1) % 2) + 1]]
  BY DEF InTurn
<1> HIDE DEF L
<1>2. Len(L) = 2 * Len(cs) /\ DOMAIN L = 1 .. 2 * Len(cs)
  <2>1. L = [i \in 1 .. 2 * Len(cs) |-> L[i]] /\ 2 * Len(cs) \in Nat
    BY <1>1
  <2> QED  BY <2>1, SeqIs
<1>3. ASSUME NEW k \in 1 .. Len(cs), NEW j \in {1, 2}
      PROVE  L[2 * (k - 1) + j] = requestSync(cs[k])[j]
  <2>1. /\ 2 * (k - 1) + j \in 1 .. 2 * Len(cs)
        /\ ((2 * (k - 1) + j - 1) \div 2) + 1 = k /\ ((2 * (k - 1) + j - 1) % 2) + 1 = j
    BY TwoEach
  <2> QED  BY <1>1, <2>1
<1>4. ASSUME NEW k \in 1 .. Len(cs)
      PROVE  /\ L[2 * (k - 1) + 1] = requestSync(cs[k])[1]
             /\ L[2 * (k - 1) + 2] = requestSync(cs[k])[2]
  BY <1>3
<1>5. ASSUME NEW c
      PROVE  /\ requestSync(c)[1] = seekActive(c)
             /\ requestSync(c)[2] = syncNode(c)
  BY DEF requestSync, seekActive, syncNode
<1>6. Len(L) = 2 * Len(cs) /\ DOMAIN L = 1 .. 2 * Len(cs)
         /\ \A k \in 1 .. Len(cs) :
              /\ L[2 * (k - 1) + 1] = seekActive(cs[k])
              /\ L[2 * (k - 1) + 2] = syncNode(cs[k])
  BY <1>2, <1>4, <1>5
<1> QED  BY <1>6 DEF L

\* A sequence of two.
LEMMA PairIs ==
  ASSUME NEW x, NEW y
  PROVE  LET L == <<x, y>> IN
         L \in Seq(ToSet(L)) /\ Len(L) = 2 /\ L[1] = x /\ L[2] = y
<1> DEFINE L == <<x, y>>
<1>1. L = [i \in 1 .. 2 |-> L[i]] /\ L[1] = x /\ L[2] = y
  OBVIOUS
<1> HIDE DEF L
<1>2. L \in Seq(ToSet(L)) /\ Len(L) = 2
  BY <1>1, SeqIs
<1>3. L \in Seq(ToSet(L)) /\ Len(L) = 2 /\ L[1] = x /\ L[2] = y
  BY <1>1, <1>2
<1> QED  BY <1>3 DEF L

\* A sequence of four.
LEMMA FourIs ==
  ASSUME NEW x, NEW y, NEW z, NEW u
  PROVE  LET L == <<x, y, z, u>> IN
         /\ L \in Seq(ToSet(L)) /\ Len(L) = 4
         /\ L[1] = x /\ L[2] = y /\ L[3] = z /\ L[4] = u
<1> DEFINE L == <<x, y, z, u>>
<1>1. L = [i \in 1 .. 4 |-> L[i]] /\ L[1] = x /\ L[2] = y /\ L[3] = z /\ L[4] = u
  OBVIOUS
<1> HIDE DEF L
<1>2. L \in Seq(ToSet(L)) /\ Len(L) = 4
  BY <1>1, SeqIs
<1>3. /\ L \in Seq(ToSet(L)) /\ Len(L) = 4
      /\ L[1] = x /\ L[2] = y /\ L[3] = z /\ L[4] = u
  BY <1>1, <1>2
<1> QED  BY <1>3 DEF L

\* Two pairs, one after the other, are a sequence of four.
LEMMA PairsAre ==
  ASSUME NEW x, NEW y, NEW z, NEW u
  PROVE  LET L == <<x, y>> \o <<z, u>> IN
         /\ L \in Seq(ToSet(L)) /\ Len(L) = 4
         /\ L[1] = x /\ L[2] = y /\ L[3] = z /\ L[4] = u
<1> DEFINE a == <<x, y>>
           b == <<z, u>>
<1>1. a \in Seq(ToSet(a)) /\ Len(a) = 2 /\ a[1] = x /\ a[2] = y
  BY PairIs
<1>2. b \in Seq(ToSet(b)) /\ Len(b) = 2 /\ b[1] = z /\ b[2] = u
  BY PairIs
<1> HIDE DEF a, b
<1>3. a \in Seq(ToSet(a)) /\ b \in Seq(ToSet(b))
  BY <1>1, <1>2
<1> DEFINE L == a \o b
<1>4. /\ L \in Seq(ToSet(L)) /\ Len(L) = Len(a) + Len(b)
      /\ \A i \in 1 .. Len(a) : L[i] = a[i]
      /\ \A i \in 1 .. Len(b) : L[Len(a) + i] = b[i]
  BY <1>3, ConcatIs
<1> HIDE DEF L
<1>5. /\ L \in Seq(ToSet(L)) /\ Len(L) = 4
      /\ L[1] = x /\ L[2] = y /\ L[2 + 1] = z /\ L[2 + 2] = u
  BY <1>1, <1>2, <1>4
<1>6. /\ L \in Seq(ToSet(L)) /\ Len(L) = 4
      /\ L[1] = x /\ L[2] = y /\ L[3] = z /\ L[4] = u
  BY <1>5
<1> QED  BY <1>6 DEF L, a, b

\* The lane of a node while roles are granted, and the hub's after it.
LEMMA NodeLane ==
  ASSUME NEW n, NEW w
  PROVE  LET L == grantOperatorRole(n, w) \o grantBankEmployeeRole(n, w) IN
         /\ L \in Seq(ToSet(L)) /\ Len(L) = 4
         /\ L[1] = seekRole(n, "PRIVACY_NODE_OPERATOR", operatorWallet(w))
         /\ L[2] = send("grantRole", n, "PRIVACY_NODE_OPERATOR", operatorWallet(w), adminWallet(w))
         /\ L[3] = seekRole(n, "BANK_EMPLOYEE", bankEmployeeWallet(w))
         /\ L[4] = send("grantRole", n, "BANK_EMPLOYEE", bankEmployeeWallet(w), operatorWallet(w))
BY PairsAre DEF grantOperatorRole, grantBankEmployeeRole, grantOnce, seekRole

\* The lane of the hub in the third stage of a setup, and what is in it.
hubLane(w) == << poll("replicas", FALSE) >> \o getInstance(Hub)
                \o grantNetworkOperatorRole(w) \o grantComplianceRole(w)

\* The lane of the hub in the third stage of a setup, step by step.
LEMMA HubLane ==
  ASSUME NEW w
  PROVE  LET L == hubLane(w) IN
         /\ L \in Seq(ToSet(L)) /\ Len(L) = 11
         /\ L[1] = awaitReplicas
         /\ L[2] = seekInstance(Hub)
         /\ L[3] = read("resolve", Hub) /\ L[4] = read("resolve", Hub)
         /\ L[5] = read("instances.set", Hub)
         /\ L[6] = seekRole(Hub, "PRIVATE_NETWORK_OPERATOR", operatorWallet(w))
         /\ L[7] = send("grantRole", Hub, "PRIVATE_NETWORK_OPERATOR", operatorWallet(w), adminWallet(w))
         /\ L[8] = seekRole(Hub, "COMPLIANCE_OFFICER", complianceWallet(w))
         /\ L[9] = send("grantRole", Hub, "COMPLIANCE_OFFICER", complianceWallet(w), operatorWallet(w))
         /\ L[10] = seekWiring
         /\ L[11] = mapSelectors(w)
<1> DEFINE x1 == awaitReplicas
           x2 == seekInstance(Hub)
           x3 == read("resolve", Hub)
           x5 == read("instances.set", Hub)
           x6 == seekRole(Hub, "PRIVATE_NETWORK_OPERATOR", operatorWallet(w))
           x7 == send("grantRole", Hub, "PRIVATE_NETWORK_OPERATOR", operatorWallet(w), adminWallet(w))
           x8 == seekRole(Hub, "COMPLIANCE_OFFICER", complianceWallet(w))
           x9 == send("grantRole", Hub, "COMPLIANCE_OFFICER", complianceWallet(w), operatorWallet(w))
           x10 == seekWiring
           x11 == mapSelectors(w)
           I == <<x2, x3, x3, x5>>
           N == <<x6, x7>>
           K == <<x8, x9>> \o <<x10, x11>>
           L == ((<<x1>> \o I) \o N) \o K
<1>1. hubLane(w) = L
  BY DEF hubLane, getInstance, grantNetworkOperatorRole, grantComplianceRole, grantOnce,
     seekInstance, seekRole, seekWiring, awaitReplicas, mapSelectors
<1> HIDE DEF x1, x2, x3, x5, x6, x7, x8, x9, x10, x11
<1>2. I \in Seq(ToSet(I)) /\ Len(I) = 4 /\ I[1] = x2 /\ I[2] = x3 /\ I[3] = x3 /\ I[4] = x5
  BY FourIs
<1>3. N \in Seq(ToSet(N)) /\ Len(N) = 2 /\ N[1] = x6 /\ N[2] = x7
  BY PairIs
<1>4. K \in Seq(ToSet(K)) /\ Len(K) = 4 /\ K[1] = x8 /\ K[2] = x9 /\ K[3] = x10 /\ K[4] = x11
  BY PairsAre
<1> HIDE DEF I, N, K
<1>5. I \in Seq(ToSet(I))
  BY <1>2
<1> DEFINE a == <<x1>> \o I
<1>6. a \in Seq(ToSet(a)) /\ Len(a) = 1 + Len(I) /\ a[1] = x1 /\ \A i \in 1 .. Len(I) : a[1 + i] = I[i]
  BY <1>5, ConsIs
<1> HIDE DEF a
<1>7. Len(a) = 5 /\ a[1] = x1 /\ a[1 + 1] = x2 /\ a[1 + 2] = x3 /\ a[1 + 3] = x3 /\ a[1 + 4] = x5
  BY <1>2, <1>6
<1>8. Len(a) = 5 /\ a[1] = x1 /\ a[2] = x2 /\ a[3] = x3 /\ a[4] = x3 /\ a[5] = x5
  BY <1>7
<1>9. a \in Seq(ToSet(a)) /\ N \in Seq(ToSet(N))
  BY <1>3, <1>6
<1> DEFINE b == a \o N
<1>10. /\ b \in Seq(ToSet(b)) /\ Len(b) = Len(a) + Len(N)
       /\ \A i \in 1 .. Len(a) : b[i] = a[i]
       /\ \A i \in 1 .. Len(N) : b[Len(a) + i] = N[i]
  BY <1>9, ConcatIs
<1> HIDE DEF b
<1>11. /\ Len(b) = 7 /\ b[1] = x1 /\ b[2] = x2 /\ b[3] = x3 /\ b[4] = x3 /\ b[5] = x5
       /\ b[5 + 1] = x6 /\ b[5 + 2] = x7
  BY <1>3, <1>8, <1>10
<1>12. /\ Len(b) = 7 /\ b[1] = x1 /\ b[2] = x2 /\ b[3] = x3 /\ b[4] = x3 /\ b[5] = x5
       /\ b[6] = x6 /\ b[7] = x7
  BY <1>11
<1>13. b \in Seq(ToSet(b)) /\ K \in Seq(ToSet(K))
  BY <1>4, <1>10
<1>14. L = b \o K
  BY DEF a, b
<1> HIDE DEF L
<1> DEFINE d == b \o K
<1>15. /\ d \in Seq(ToSet(d)) /\ Len(d) = Len(b) + Len(K)
       /\ \A i \in 1 .. Len(b) : d[i] = b[i]
       /\ \A i \in 1 .. Len(K) : d[Len(b) + i] = K[i]
  BY <1>13, ConcatIs
<1> HIDE DEF d
<1>16. /\ Len(d) = 11 /\ d[1] = x1 /\ d[2] = x2 /\ d[3] = x3 /\ d[4] = x3 /\ d[5] = x5
       /\ d[6] = x6 /\ d[7] = x7
       /\ d[7 + 1] = x8 /\ d[7 + 2] = x9 /\ d[7 + 3] = x10 /\ d[7 + 4] = x11
  BY <1>4, <1>12, <1>15
<1>17. /\ d \in Seq(ToSet(d)) /\ Len(d) = 11
       /\ d[1] = x1 /\ d[2] = x2 /\ d[3] = x3 /\ d[4] = x3 /\ d[5] = x5
       /\ d[6] = x6 /\ d[7] = x7 /\ d[8] = x8 /\ d[9] = x9 /\ d[10] = x10 /\ d[11] = x11
  <2>1. d[8] = x8 /\ d[9] = x9 /\ d[10] = x10 /\ d[11] = x11
    BY <1>16
  <2>2. d \in Seq(ToSet(d))
    BY <1>15
  <2> QED  BY <1>16, <2>1, <2>2
<1>18. hubLane(w) = d
  BY <1>1, <1>14 DEF d
<1> QED  BY <1>17, <1>18 DEF x1, x2, x3, x5, x6, x7, x8, x9, x10, x11

\* A look for what comes next, and nothing else, fits where it is.
LEMMA LookFits ==
  ASSUME NEW L, NEW j \in Nat, Len(L) \in Nat, j + 1 <= Len(L),
         L[j].kind = "look", L[j].op \in {"hasRole", "balance", "unwired", "allActive"},
         L[j].on \in Chains, L[j].skip = 1, Spares(L[j], L[j + 1])
  PROVE  Fits(L, j)
<1>1. \A m \in j + 1 .. j + 1 : m = j + 1
  OBVIOUS
<1>2. Skips(L, j)
  BY <1>1 DEF Skips
<1>3. Proper(L[j]) /\ Wires(L, j)
  BY DEF Proper, Wires, Looks
<1> QED  BY <1>2, <1>3 DEF Fits

\* A transaction of a known kind, between wallets of a slot, fits wherever it is.
LEMMA SendFits ==
  ASSUME NEW L, NEW j, L[j].kind = "send", L[j].op \in Sends, L[j].on \in Chains,
         L[j].op = "fund" => L[j].to[1] \in Workers,
         L[j].op = "pay" => L[j].by[1] \in Workers
  PROVE  Fits(L, j)
BY DEF Fits, Proper, Skips, Wires, Sends

\* An empty lane is sound.
LEMMA EmptySound == Sound(<< >>)
<1>1. << >> \in Seq(ToSet(<< >>)) /\ Len(<< >>) = 0
  BY EmptySeq
<1> QED  BY <1>1 DEF Sound

\* getInstance() is sound: it wires an instance twice before it stores it.
LEMMA InstanceSound ==
  ASSUME NEW c \in Chains
  PROVE  Sound(getInstance(c))
<1> DEFINE L == getInstance(c)
<1>1. L \in Seq(ToSet(L)) /\ Len(L) = 4
      /\ L[1] = seekInstance(c) /\ L[2] = read("resolve", c)
      /\ L[3] = read("resolve", c) /\ L[4] = read("instances.set", c)
  BY FourIs DEF getInstance, seekInstance
<1> HIDE DEF L
<1>2. Fits(L, 1)
  <2>1. \A m \in 2 .. 4 : m = 2 \/ m = 3 \/ m = 4
    OBVIOUS
  <2> QED  BY <1>1, <2>1, SeekFields, StepFields DEF Fits, Proper, Skips, Wires, Spares, Looks
<1>3. Fits(L, 2) /\ Fits(L, 3) /\ Fits(L, 4)
  BY <1>1, SeekFields, StepFields DEF Fits, Proper, Skips, Wires, Reads
<1>4. \A j \in 1 .. Len(L) : j = 1 \/ j = 2 \/ j = 3 \/ j = 4
  BY <1>1
<1>5. Sound(L)
  BY <1>1, <1>2, <1>3, <1>4 DEF Sound
<1> QED  BY <1>5 DEF L

\* So are the instances of several chains in turn.
LEMMA InstancesSound ==
  ASSUME NEW cs, Len(cs) \in Nat, \A k \in 1 .. Len(cs) : cs[k] \in Chains
  PROVE  Sound(getInstances(cs))
<1> DEFINE L == getInstances(cs)
           n == Len(cs)
<1>1. /\ Len(L) = 4 * n /\ DOMAIN L = 1 .. 4 * n
      /\ \A k \in 1 .. n :
           /\ L[4 * (k - 1) + 1] = seekInstance(cs[k])
           /\ L[4 * (k - 1) + 2] = read("resolve", cs[k])
           /\ L[4 * (k - 1) + 3] = read("resolve", cs[k])
           /\ L[4 * (k - 1) + 4] = read("instances.set", cs[k])
  BY InstancesAt
<1>7. Len(L) = 4 * n
  BY <1>1
<1>2. L = [i \in 1 .. 4 * n |-> L[i]]
  BY DEF getInstances, InTurn
<1> HIDE DEF L
<1>3. L \in Seq(ToSet(L))
  <2>1. 4 * n \in Nat
    OBVIOUS
  <2> HIDE DEF n
  <2> QED  BY <1>2, <2>1, SeqIs
<1>4. ASSUME NEW k \in 1 .. n
      PROVE  /\ Fits(L, 4 * (k - 1) + 1) /\ Fits(L, 4 * (k - 1) + 2)
             /\ Fits(L, 4 * (k - 1) + 3) /\ Fits(L, 4 * (k - 1) + 4)
  <2> DEFINE a == 4 * (k - 1)
  <2>1. /\ L[a + 1] = seekInstance(cs[k]) /\ L[a + 2] = read("resolve", cs[k])
        /\ L[a + 3] = read("resolve", cs[k]) /\ L[a + 4] = read("instances.set", cs[k])
        /\ cs[k] \in Chains
    BY <1>1
  <2>2. a \in Nat /\ a + 4 <= Len(L)
    BY <1>1
  <2> HIDE DEF a
  <2>3. \A m \in (a + 1) + 1 .. (a + 1) + 3 : m = a + 2 \/ m = a + 3 \/ m = a + 4
    BY <2>2
  <2>4. (a + 1) + 3 <= Len(L) /\ (a + 1) + 3 = a + 4 /\ a + 4 > 2
        /\ (a + 2) - 1 = a + 1 /\ a + 2 > 1
        /\ (a + 3) - 1 = a + 2 /\ (a + 3) - 2 = a + 1 /\ a + 3 > 2
        /\ (a + 4) - 1 = a + 3 /\ (a + 4) - 2 = a + 2
    BY <2>2
  <2>5. Fits(L, a + 1)
    <3> DEFINE f == seekInstance(cs[k])
    <3>1. L[a + 1] = f /\ f.kind = "look" /\ f.op = "instances.has" /\ f.on = cs[k] /\ f.skip = 3
      BY <2>1, SeekFields
    <3>2. Spares(f, L[a + 2]) /\ Spares(f, L[a + 3]) /\ Spares(f, L[a + 4]) /\ L[a + 4].op = "instances.set"
      BY <2>1, <3>1, StepFields DEF Spares
    <3> HIDE DEF f
    <3>3. Skips(L, a + 1)
      BY <2>3, <2>4, <3>1, <3>2 DEF Skips
    <3>4. Proper(f) /\ Wires(L, a + 1)
      BY <2>1, <2>4, <3>1, <3>2 DEF Proper, Wires, Looks
    <3> QED  BY <3>1, <3>3, <3>4 DEF Fits
  <2>6. Fits(L, a + 2) /\ Fits(L, a + 3) /\ Fits(L, a + 4)
    BY <2>1, <2>2, <2>4, SeekFields, StepFields DEF Fits, Proper, Skips, Wires, Reads
  <2> QED  BY <2>5, <2>6 DEF a
<1>5. ASSUME NEW j \in 1 .. Len(L)
      PROVE  Fits(L, j)
  <2>a. j \in 1 .. 4 * n
    BY <1>7
  <2>1. PICK k \in 1 .. n, i \in 1 .. 4 : j = 4 * (k - 1) + i
    BY <2>a, FourEach
  <2>2. i = 1 \/ i = 2 \/ i = 3 \/ i = 4
    OBVIOUS
  <2> QED  BY <1>4, <2>1, <2>2
<1>6. Sound(L)
  BY <1>3, <1>5 DEF Sound
<1> QED  BY <1>6 DEF L

\* fundNode() is sound: each look spares the transfer to the same wallet.
LEMMA FundSound ==
  ASSUME NEW c \in Chains
  PROVE  Sound(fundNode(c))
<1> DEFINE L == fundNode(c)
           n == Len(WorkerSlots)
<1>0. n \in Nat /\ \A k \in 1 .. n : WorkerSlots[k] \in Workers
  BY SlotsTyped
<1>1. /\ Len(L) = 2 * n /\ DOMAIN L = 1 .. 2 * n
      /\ \A k \in 1 .. n :
           /\ L[2 * (k - 1) + 1] = seekBalance(c, WorkerSlots[k])
           /\ L[2 * (k - 1) + 2] = fundSlot(c, WorkerSlots[k])
  BY FundAt
<1>7. Len(L) = 2 * n
  BY <1>1
<1>2. L = [i \in 1 .. 2 * n |-> L[i]]
  BY DEF fundNode, InTurn
<1> HIDE DEF L
<1>3. L \in Seq(ToSet(L))
  <2>1. 2 * n \in Nat
    BY <1>0
  <2> HIDE DEF n
  <2> QED  BY <1>2, <2>1, SeqIs
<1>4. ASSUME NEW k \in 1 .. n
      PROVE  Fits(L, 2 * (k - 1) + 1) /\ Fits(L, 2 * (k - 1) + 2)
  <2> DEFINE a == 2 * (k - 1)
             w == WorkerSlots[k]
  <2>1. /\ L[a + 1] = seekBalance(c, w)
        /\ L[a + 2] = fundSlot(c, w)
        /\ w \in Workers
    BY <1>0, <1>1
  <2>2. a \in Nat /\ a + 2 <= Len(L)
    BY <1>0, <1>7
  <2> HIDE DEF a, w
  <2>4. (a + 1) + 1 <= Len(L) /\ (a + 1) + 1 = a + 2
    BY <2>2
  <2>5. Fits(L, a + 1)
    <3>1. Spares(L[a + 1], L[(a + 1) + 1])
      BY <2>1, <2>4, SeekFields DEF Spares
    <3>2. /\ L[a + 1].kind = "look" /\ L[a + 1].op = "balance"
          /\ L[a + 1].on = c /\ L[a + 1].skip = 1
      BY <2>1, SeekFields
    <3> QED  BY <1>0, <1>7, <2>2, <2>4, <3>1, <3>2, LookFits
  <2>6. adminWallet(w)[1] = w
    BY DEF adminWallet
  <2>7. Fits(L, a + 2)
    <3>1. /\ L[a + 2].kind = "send" /\ L[a + 2].op = "fund"
          /\ L[a + 2].on = c /\ L[a + 2].to[1] = w
      BY <2>1, <2>6, SeekFields
    <3> QED  BY <2>1, <3>1, SendFits DEF Sends
  <2> QED  BY <2>5, <2>7 DEF a
<1>5. ASSUME NEW j \in 1 .. Len(L)
      PROVE  Fits(L, j)
  <2>a. j \in 1 .. 2 * n
    BY <1>7
  <2>1. PICK k \in 1 .. n, i \in {1, 2} : j = 2 * (k - 1) + i
    BY <1>0, <2>a, TwoEach
  <2> QED  BY <1>4, <2>1
<1>6. Sound(L)
  BY <1>3, <1>5 DEF Sound
<1> QED  BY <1>6 DEF L

\* The resynchronisation of the nodes is sound.
LEMMA SyncSound ==
  ASSUME NEW cs, Len(cs) \in Nat, \A k \in 1 .. Len(cs) : cs[k] \in Chains
  PROVE  Sound(InTurn(cs, 2, requestSync))
<1> DEFINE L == InTurn(cs, 2, requestSync)
           n == Len(cs)
<1>1. /\ Len(L) = 2 * n /\ DOMAIN L = 1 .. 2 * n
      /\ \A k \in 1 .. n :
           /\ L[2 * (k - 1) + 1] = seekActive(cs[k])
           /\ L[2 * (k - 1) + 2] = syncNode(cs[k])
  BY SyncAt
<1>7. Len(L) = 2 * n
  BY <1>1
<1>2. L = [i \in 1 .. 2 * n |-> L[i]]
  BY DEF InTurn
<1> HIDE DEF L
<1>3. L \in Seq(ToSet(L))
  <2>1. 2 * n \in Nat
    OBVIOUS
  <2> HIDE DEF n
  <2> QED  BY <1>2, <2>1, SeqIs
<1>4. ASSUME NEW k \in 1 .. n
      PROVE  Fits(L, 2 * (k - 1) + 1) /\ Fits(L, 2 * (k - 1) + 2)
  <2> DEFINE a == 2 * (k - 1)
             c == cs[k]
  <2>1. /\ L[a + 1] = seekActive(c)
        /\ L[a + 2] = syncNode(c)
        /\ c \in Chains
    BY <1>1
  <2>2. a \in Nat /\ a + 2 <= Len(L)
    BY <1>7
  <2> HIDE DEF a, c
  <2>4. (a + 1) + 1 <= Len(L) /\ (a + 1) + 1 = a + 2
    BY <2>2
  <2>5. Fits(L, a + 1)
    <3>1. Spares(L[a + 1], L[(a + 1) + 1])
      BY <2>1, <2>4, SeekFields DEF Spares
    <3>2. /\ L[a + 1].kind = "look" /\ L[a + 1].op = "allActive"
          /\ L[a + 1].on = c /\ L[a + 1].skip = 1
      BY <2>1, SeekFields
    <3> QED  BY <1>7, <2>1, <2>2, <2>4, <3>1, <3>2, LookFits
  <2>6. Fits(L, a + 2)
    <3>1. L[a + 2].kind = "send" /\ L[a + 2].op = "sync" /\ L[a + 2].on = c
      BY <2>1, SeekFields
    <3> QED  BY <2>1, <3>1, SendFits DEF Sends
  <2> QED  BY <2>5, <2>6 DEF a
<1>5. ASSUME NEW j \in 1 .. Len(L)
      PROVE  Fits(L, j)
  <2>a. j \in 1 .. 2 * n
    BY <1>7
  <2>1. PICK k \in 1 .. n, i \in {1, 2} : j = 2 * (k - 1) + i
    BY <2>a, TwoEach
  <2> QED  BY <1>4, <2>1
<1>6. Sound(L)
  BY <1>3, <1>5 DEF Sound
<1> QED  BY <1>6 DEF L

\* bootstrapNode() is sound: the look for a proxy spares all of it, each other look one grant.
LEMMA BootSound ==
  ASSUME NEW c \in Chains
  PROVE  Sound(bootstrapNode(c))
<1> DEFINE L == bootstrapNode(c)
           n == Len(WorkerSlots)
<1>0. n \in Nat /\ \A k \in 1 .. n : WorkerSlots[k] \in Workers
  BY SlotsTyped
<1>1. /\ L \in Seq(ToSet(L)) /\ Len(L) = 2 * n + 1
      /\ L[1] = seekProxy(c)
      /\ \A k \in 1 .. n :
           /\ L[2 * k] = seekRole(c, "ADMIN", adminWallet(WorkerSlots[k]))
           /\ L[2 * k + 1] = send("grantRole", c, "ADMIN", adminWallet(WorkerSlots[k]), seed)
  BY BootAt
<1> HIDE DEF L
<1>2. ASSUME NEW k \in 1 .. n
      PROVE  /\ Fits(L, 2 * k) /\ Fits(L, 2 * k + 1)
             /\ Spares(L[1], L[2 * k]) /\ Spares(L[1], L[2 * k + 1])
  <2> DEFINE a == 2 * k
             w == WorkerSlots[k]
             first == seekProxy(c)
  <2>1. /\ L[a] = seekRole(c, "ADMIN", adminWallet(w))
        /\ L[a + 1] = send("grantRole", c, "ADMIN", adminWallet(w), seed)
    BY <1>1
  <2>2. a \in Nat /\ a + 1 <= Len(L)
    BY <1>0, <1>1
  <2>3. L[1] = first /\ first.op = "noProxy" /\ first.on = c
    BY <1>1, SeekFields
  <2> HIDE DEF a, w, first
  <2>4. \A m \in a + 1 .. a + 1 : m = a + 1
    BY <2>2
  <2>5. Fits(L, a)
    BY <2>1, <2>2, <2>4, SeekFields, StepFields DEF Fits, Proper, Skips, Wires, Spares, Looks
  <2>6. Fits(L, a + 1)
    BY <2>1, <2>2, StepFields DEF Fits, Proper, Skips, Wires, Sends
  <2>7. Spares(L[1], L[a]) /\ Spares(L[1], L[a + 1])
    BY <2>1, <2>3, SeekFields, StepFields DEF Spares
  <2> QED  BY <2>5, <2>6, <2>7 DEF a
<1>3. ASSUME NEW m \in 2 .. 2 * n + 1
      PROVE  \E k \in 1 .. n : m = 2 * k \/ m = 2 * k + 1
  <2>a. m - 1 \in 1 .. 2 * n
    BY <1>0
  <2>1. PICK k \in 1 .. n, i \in {1, 2} : m - 1 = 2 * (k - 1) + i
    BY <1>0, <2>a, TwoEach
  <2>2. m = 2 * k \/ m = 2 * k + 1
    BY <2>1
  <2> QED  BY <2>2
<1>4. Fits(L, 1)
  <2> DEFINE first == seekProxy(c)
  <2>1. L[1] = first /\ first.op = "noProxy" /\ first.on = c /\ first.kind = "look" /\ first.skip = 2 * n
    BY <1>1, SeekFields
  <2>2. \A m \in 2 .. 2 * n + 1 : Spares(L[1], L[m])
    BY <1>2, <1>3
  <2> HIDE DEF first
  <2>3. /\ 2 * n \in Nat /\ 1 + 2 * n <= Len(L)
        /\ \A m \in 1 + 1 .. 1 + 2 * n : m \in 2 .. 2 * n + 1
    BY <1>0, <1>1
  <2>4. Skips(L, 1)
    BY <2>1, <2>2, <2>3 DEF Skips
  <2>5. Proper(L[1]) /\ Wires(L, 1)
    BY <2>1 DEF Proper, Wires, Looks
  <2> QED  BY <2>4, <2>5 DEF Fits
<1>5. ASSUME NEW j \in 1 .. Len(L)
      PROVE  Fits(L, j)
  <2>1. j = 1 \/ j \in 2 .. 2 * n + 1
    BY <1>0, <1>1
  <2> QED  BY <1>2, <1>3, <1>4, <2>1
<1>6. Sound(L)
  BY <1>1, <1>5 DEF Sound
<1> QED  BY <1>6 DEF L

\* The hub and the nodes are the chains.
LEMMA HubIsAChain == Hub \in Chains /\ Nodes \subseteq Chains /\ Hub \notin Nodes
BY ChainAssumption DEF Chains

\* The nodes a test asks for are a sequence of nodes.
LEMMA UsedNodes ==
  /\ Len(getActiveNodes) \in Nat \ {0} /\ \A k \in 1 .. Len(getActiveNodes) : getActiveNodes[k] \in Nodes
  /\ Used \in Seq(Nodes) /\ Len(Used) \in Nat \ {0} /\ DOMAIN Used = 1 .. Len(Used)
  /\ \A k \in 1 .. Len(Used) : Used[k] \in Nodes
  /\ ToSet(Used) \subseteq Nodes
  /\ Last(getActiveNodes) \in Nodes
<1> DEFINE A == getActiveNodes
<1>1. A \in Seq(Nodes) /\ NodeCount \in 1 .. Len(A)
  BY ChainAssumption
<1> HIDE DEF A
<1>2. Len(A) \in Nat /\ A \in [1 .. Len(A) -> Nodes]
  BY <1>1, LenProperties
<1>3. NodeCount \in Int /\ 1 \in Int /\ \A i \in 1 .. NodeCount : A[i] \in Nodes
  BY <1>1, <1>2
<1>4. /\ SubSeq(A, 1, NodeCount) \in Seq(Nodes)
      /\ Len(SubSeq(A, 1, NodeCount)) = IF 1 <= NodeCount THEN NodeCount - 1 + 1 ELSE 0
  BY <1>3, SubSeqProperties
<1>5. Used = SubSeq(A, 1, NodeCount)
  BY DEF Used, A
<1> DEFINE U == Used
<1>6. U \in Seq(Nodes) /\ Len(U) = NodeCount
  BY <1>1, <1>4, <1>5
<1> HIDE DEF U
<1>7. Len(U) \in Nat \ {0} /\ DOMAIN U = 1 .. Len(U) /\ U \in [1 .. Len(U) -> Nodes]
  BY <1>1, <1>6, LenProperties
<1>8. ToSet(U) \subseteq Nodes
  BY <1>7 DEF ToSet
<1>9. Last(A) \in Nodes
  BY <1>1, <1>2 DEF Last
<1>10. /\ Len(A) \in Nat \ {0} /\ \A k \in 1 .. Len(A) : A[k] \in Nodes
       /\ U \in Seq(Nodes) /\ Len(U) \in Nat \ {0} /\ DOMAIN U = 1 .. Len(U)
       /\ \A k \in 1 .. Len(U) : U[k] \in Nodes
  BY <1>1, <1>2, <1>6, <1>7
<1> QED  BY <1>8, <1>9, <1>10 DEF U, A

\* The grants on a node are sound.
LEMMA NodeSound ==
  ASSUME NEW n \in Chains, NEW w
  PROVE  Sound(grantOperatorRole(n, w) \o grantBankEmployeeRole(n, w))
<1> DEFINE L == grantOperatorRole(n, w) \o grantBankEmployeeRole(n, w)
<1>1. /\ L \in Seq(ToSet(L)) /\ Len(L) = 4
      /\ L[1] = seekRole(n, "PRIVACY_NODE_OPERATOR", operatorWallet(w))
      /\ L[2] = send("grantRole", n, "PRIVACY_NODE_OPERATOR", operatorWallet(w), adminWallet(w))
      /\ L[3] = seekRole(n, "BANK_EMPLOYEE", bankEmployeeWallet(w))
      /\ L[4] = send("grantRole", n, "BANK_EMPLOYEE", bankEmployeeWallet(w), operatorWallet(w))
  BY NodeLane
<1> HIDE DEF L
<1>2. Spares(L[1], L[2]) /\ Spares(L[3], L[4])
  BY <1>1, SeekFields, StepFields DEF Spares
<1>3. /\ L[1].kind = "look" /\ L[1].op = "hasRole" /\ L[1].on = n /\ L[1].skip = 1
      /\ L[3].kind = "look" /\ L[3].op = "hasRole" /\ L[3].on = n /\ L[3].skip = 1
      /\ L[2].kind = "send" /\ L[2].op = "grantRole" /\ L[2].on = n
      /\ L[4].kind = "send" /\ L[4].op = "grantRole" /\ L[4].on = n
  BY <1>1, SeekFields, StepFields
<1>4. Len(L) = 4
  BY <1>1
<1>5. Spares(L[1], L[1 + 1]) /\ Spares(L[3], L[3 + 1])
  BY <1>2
<1>6. Fits(L, 1) /\ Fits(L, 3)
  BY <1>3, <1>4, <1>5, LookFits
<1>7. Fits(L, 2) /\ Fits(L, 4)
  BY <1>3, SendFits DEF Sends
<1>8. \A j \in 1 .. Len(L) : j = 1 \/ j = 2 \/ j = 3 \/ j = 4
  BY <1>4
<1>9. L \in Seq(ToSet(L))
  BY <1>1
<1>10. Sound(L)
  BY <1>6, <1>7, <1>8, <1>9 DEF Sound
<1> QED  BY <1>10 DEF L

\* The lane of the hub in the third stage of a setup is sound.
LEMMA HubSound ==
  ASSUME NEW w
  PROVE  Sound(hubLane(w))
<1> DEFINE L == hubLane(w)
<1>1. /\ L \in Seq(ToSet(L)) /\ Len(L) = 11
      /\ L[1] = awaitReplicas
      /\ L[2] = seekInstance(Hub)
      /\ L[3] = read("resolve", Hub) /\ L[4] = read("resolve", Hub)
      /\ L[5] = read("instances.set", Hub)
      /\ L[6] = seekRole(Hub, "PRIVATE_NETWORK_OPERATOR", operatorWallet(w))
      /\ L[7] = send("grantRole", Hub, "PRIVATE_NETWORK_OPERATOR", operatorWallet(w), adminWallet(w))
      /\ L[8] = seekRole(Hub, "COMPLIANCE_OFFICER", complianceWallet(w))
      /\ L[9] = send("grantRole", Hub, "COMPLIANCE_OFFICER", complianceWallet(w), operatorWallet(w))
      /\ L[10] = seekWiring
      /\ L[11] = mapSelectors(w)
  BY HubLane
<1> HIDE DEF L
<1>2. Len(L) = 11 /\ Hub \in Chains
  BY <1>1, HubIsAChain
<1>3. Fits(L, 1)
  <2>1. L[1].kind = "poll" /\ L[1].op = "replicas" /\ L[1].on = Hub
    BY <1>1, SeekFields
  <2> QED  BY <1>2, <2>1 DEF Fits, Proper, Skips, Wires, Polls
<1>4. Fits(L, 2)
  <2>1. L[2].kind = "look" /\ L[2].op = "instances.has" /\ L[2].on = Hub /\ L[2].skip = 3
    BY <1>1, SeekFields
  <2>2. Spares(L[2], L[3]) /\ Spares(L[2], L[4]) /\ Spares(L[2], L[5]) /\ L[5].op = "instances.set"
    BY <1>1, <2>1, StepFields DEF Spares
  <2>3. \A m \in 2 + 1 .. 2 + 3 : m = 3 \/ m = 4 \/ m = 5
    OBVIOUS
  <2>4. Skips(L, 2)
    BY <1>2, <2>1, <2>2, <2>3 DEF Skips
  <2>5. Proper(L[2]) /\ Wires(L, 2)
    BY <1>2, <2>1, <2>2 DEF Proper, Wires, Looks
  <2> QED  BY <2>4, <2>5 DEF Fits
<1>5. Fits(L, 3) /\ Fits(L, 4) /\ Fits(L, 5)
  <2>1. /\ L[2].op = "instances.has" /\ L[2].on = Hub
        /\ L[3].kind = "read" /\ L[3].op = "resolve" /\ L[3].on = Hub
        /\ L[4].kind = "read" /\ L[4].op = "resolve" /\ L[4].on = Hub
        /\ L[5].kind = "read" /\ L[5].op = "instances.set" /\ L[5].on = Hub
    BY <1>1, SeekFields, StepFields
  <2> QED  BY <1>2, <2>1 DEF Fits, Proper, Skips, Wires, Reads
<1>6. /\ Spares(L[6], L[7]) /\ Spares(L[8], L[9]) /\ Spares(L[10], L[11])
      /\ L[6].kind = "look" /\ L[6].op = "hasRole" /\ L[6].on = Hub /\ L[6].skip = 1
      /\ L[8].kind = "look" /\ L[8].op = "hasRole" /\ L[8].on = Hub /\ L[8].skip = 1
      /\ L[10].kind = "look" /\ L[10].op = "unwired" /\ L[10].on = Hub /\ L[10].skip = 1
  BY <1>1, SeekFields, StepFields DEF Spares
<1>7. /\ L[7].kind = "send" /\ L[7].op = "grantRole" /\ L[7].on = Hub
      /\ L[9].kind = "send" /\ L[9].op = "grantRole" /\ L[9].on = Hub
      /\ L[11].kind = "send" /\ L[11].op = "mapSelectors" /\ L[11].on = Hub
  BY <1>1, SeekFields, StepFields
<1>8. Spares(L[6], L[6 + 1]) /\ Spares(L[8], L[8 + 1]) /\ Spares(L[10], L[10 + 1])
  BY <1>6
<1>9. Fits(L, 6) /\ Fits(L, 8) /\ Fits(L, 10)
  BY <1>2, <1>6, <1>8, LookFits
<1>10. Fits(L, 7) /\ Fits(L, 9) /\ Fits(L, 11)
  BY <1>2, <1>7, SendFits DEF Sends
<1>11. \A j \in 1 .. Len(L) : \/ j = 1 \/ j = 2 \/ j = 3 \/ j = 4 \/ j = 5 \/ j = 6
                              \/ j = 7 \/ j = 8 \/ j = 9 \/ j = 10 \/ j = 11
  BY <1>2
<1>12. L \in Seq(ToSet(L))
  BY <1>1
<1>13. Sound(L)
  BY <1>3, <1>4, <1>5, <1>9, <1>10, <1>11, <1>12 DEF Sound
<1> QED  BY <1>13 DEF L

\* The body of a test is sound when it is in order.
LEMMA BodySound ==
  ASSUME BodiesInOrder, NEW w \in Testers
  PROVE  Sound(Body[w])
<1> DEFINE L == Body[w]
<1>1. L \in Seq(ToSet(L))
  BY DEF BodiesInOrder
<1>2. Len(L) \in Nat /\ DOMAIN L = 1 .. Len(L)
  BY <1>1, LenProperties
<1>3. ASSUME NEW j \in 1 .. Len(L)
      PROVE  Fits(L, j)
  <2>1. /\ L[j].on \in ToSet(Used) \cup {Hub}
        /\ \/ /\ L[j].kind = "look" /\ L[j].op = "hasRole" /\ L[j].skip = 1 /\ j < Len(L)
              /\ L[j + 1].kind = "send" /\ L[j + 1].op = "grantRole"
              /\ L[j + 1].on = L[j].on /\ L[j + 1].role = L[j].role /\ L[j + 1].to = L[j].to
           \/ L[j].kind = "send" /\ L[j].op = "grantRole"
           \/ L[j].kind = "send" /\ L[j].op = "call"
           \/ L[j].kind = "send" /\ L[j].op = "pay" /\ L[j].by = adminWallet(w)
    BY <1>2 DEF BodiesInOrder
  <2>2. L[j].on \in Chains
    BY <2>1, HubIsAChain, UsedNodes
  <2>3. adminWallet(w)[1] \in Workers
    BY SlotAssumption DEF adminWallet
  <2> HIDE DEF L
  <2>4. CASE L[j].kind = "look"
    <3>1. Spares(L[j], L[j + 1]) /\ L[j].skip = 1 /\ L[j].op = "hasRole" /\ j < Len(L)
      BY <2>1, <2>4 DEF Spares
    <3> QED  BY <1>2, <2>2, <2>4, <3>1, LookFits
  <2>5. CASE L[j].kind # "look"
    BY <2>1, <2>2, <2>3, <2>5, SendFits DEF Sends
  <2> QED  BY <2>4, <2>5
<1>4. Sound(L)
  BY <1>1, <1>3 DEF Sound
<1> QED  BY <1>4 DEF L

\* Nothing but these is done in a lane.
Ops(L, S) == \A j \in 1 .. Len(L) : L[j].op \in S

\* The operations of two lanes, one after the other, are those of either.
LEMMA OpsConcat ==
  ASSUME NEW S, NEW a, NEW b, Sound(a), Sound(b), Ops(a, S), Ops(b, S)
  PROVE  Ops(a \o b, S)
<1> DEFINE L == a \o b
<1>1. a \in Seq(ToSet(a)) /\ b \in Seq(ToSet(b))
  BY DEF Sound
<1>2. /\ L \in Seq(ToSet(L)) /\ Len(L) = Len(a) + Len(b)
      /\ \A i \in 1 .. Len(a) : L[i] = a[i]
      /\ \A i \in 1 .. Len(b) : L[Len(a) + i] = b[i]
  BY <1>1, ConcatIs
<1>3. Len(a) \in Nat /\ Len(b) \in Nat
  BY <1>1, LenProperties
<1> HIDE DEF L
<1>4. ASSUME NEW j \in 1 .. Len(L)
      PROVE  L[j].op \in S
  <2>1. j \in 1 .. Len(a) \/ \E i \in 1 .. Len(b) : j = Len(a) + i
    <3>1. j \in 1 .. Len(a) \/ (j - Len(a) \in 1 .. Len(b) /\ j = Len(a) + (j - Len(a)))
      BY <1>2, <1>3
    <3> QED  BY <3>1
  <2>2. CASE j \in 1 .. Len(a)
    BY <1>2, <2>2 DEF Ops
  <2>3. CASE \E i \in 1 .. Len(b) : j = Len(a) + i
    <3>1. PICK i \in 1 .. Len(b) : j = Len(a) + i
      BY <2>3
    <3>2. L[j] = b[i]
      BY <1>2, <3>1
    <3> QED  BY <3>2 DEF Ops
  <2> QED  BY <2>1, <2>2, <2>3
<1>5. Ops(L, S)
  BY <1>4 DEF Ops
<1> QED  BY <1>5 DEF L

\* What wires the singletons.
Wiring == {"instances.has", "resolve", "instances.set"}

\* An empty lane has no operation.
LEMMA EmptyOps == ASSUME NEW S PROVE Ops(<< >>, S)
<1>1. Len(<< >>) = 0
  BY EmptySeq
<1> QED  BY <1>1 DEF Ops

\* getInstance() does nothing but wire.
LEMMA InstanceOps == ASSUME NEW c PROVE Ops(getInstance(c), Wiring)
<1> DEFINE L == getInstance(c)
<1>1. L \in Seq(ToSet(L)) /\ Len(L) = 4
      /\ L[1] = seekInstance(c) /\ L[2] = read("resolve", c)
      /\ L[3] = read("resolve", c) /\ L[4] = read("instances.set", c)
  BY FourIs DEF getInstance, seekInstance
<1> HIDE DEF L
<1>2. \A j \in 1 .. Len(L) : j = 1 \/ j = 2 \/ j = 3 \/ j = 4
  BY <1>1
<1>3. L[1].op \in Wiring /\ L[2].op \in Wiring /\ L[3].op \in Wiring /\ L[4].op \in Wiring
  BY <1>1, SeekFields, StepFields DEF Wiring
<1>4. Ops(L, Wiring)
  BY <1>2, <1>3 DEF Ops
<1> QED  BY <1>4 DEF L

\* Nor do the instances of several chains.
LEMMA InstancesOps ==
  ASSUME NEW cs, Len(cs) \in Nat
  PROVE  Ops(getInstances(cs), Wiring)
<1> DEFINE L == getInstances(cs)
           n == Len(cs)
<1>1. /\ Len(L) = 4 * n
      /\ \A k \in 1 .. n :
           /\ L[4 * (k - 1) + 1] = seekInstance(cs[k])
           /\ L[4 * (k - 1) + 2] = read("resolve", cs[k])
           /\ L[4 * (k - 1) + 3] = read("resolve", cs[k])
           /\ L[4 * (k - 1) + 4] = read("instances.set", cs[k])
  BY InstancesAt
<1> HIDE DEF L
<1>2. ASSUME NEW k \in 1 .. n
      PROVE  /\ L[4 * (k - 1) + 1].op \in Wiring /\ L[4 * (k - 1) + 2].op \in Wiring
             /\ L[4 * (k - 1) + 3].op \in Wiring /\ L[4 * (k - 1) + 4].op \in Wiring
  BY <1>1, SeekFields, StepFields DEF Wiring
<1>3. ASSUME NEW j \in 1 .. Len(L)
      PROVE  L[j].op \in Wiring
  <2>1. j \in 1 .. 4 * n
    BY <1>1
  <2>2. PICK k \in 1 .. n, i \in 1 .. 4 : j = 4 * (k - 1) + i
    BY <2>1, FourEach
  <2>3. i = 1 \/ i = 2 \/ i = 3 \/ i = 4
    OBVIOUS
  <2> QED  BY <1>2, <2>2, <2>3
<1>4. Ops(L, Wiring)
  BY <1>3 DEF Ops
<1> QED  BY <1>4 DEF L

\* fundNode() looks at balances and transfers.
LEMMA FundOps ==
  ASSUME NEW c
  PROVE  Ops(fundNode(c), {"balance", "fund"})
<1> DEFINE L == fundNode(c)
           n == Len(WorkerSlots)
<1>1. /\ Len(L) = 2 * n
      /\ \A k \in 1 .. n :
           /\ L[2 * (k - 1) + 1] = seekBalance(c, WorkerSlots[k])
           /\ L[2 * (k - 1) + 2] = fundSlot(c, WorkerSlots[k])
  BY FundAt
<1> HIDE DEF L
<1>2. ASSUME NEW j \in 1 .. Len(L)
      PROVE  L[j].op \in {"balance", "fund"}
  <2>1. j \in 1 .. 2 * n /\ n \in Nat
    BY <1>1, SlotsTyped
  <2>2. PICK k \in 1 .. n, i \in {1, 2} : j = 2 * (k - 1) + i
    BY <2>1, TwoEach
  <2>3. L[j] = seekBalance(c, WorkerSlots[k]) \/ L[j] = fundSlot(c, WorkerSlots[k])
    BY <1>1, <2>2
  <2> QED  BY <2>3, SeekFields
<1>3. Ops(L, {"balance", "fund"})
  BY <1>2 DEF Ops
<1> QED  BY <1>3 DEF L

\* The resynchronisation looks at the replicas and asks for a new one.
LEMMA SyncOps ==
  ASSUME NEW cs, Len(cs) \in Nat
  PROVE  Ops(InTurn(cs, 2, requestSync), {"allActive", "sync"})
<1> DEFINE L == InTurn(cs, 2, requestSync)
           n == Len(cs)
<1>1. /\ Len(L) = 2 * n
      /\ \A k \in 1 .. n :
           /\ L[2 * (k - 1) + 1] = seekActive(cs[k])
           /\ L[2 * (k - 1) + 2] = syncNode(cs[k])
  BY SyncAt
<1> HIDE DEF L
<1>2. ASSUME NEW j \in 1 .. Len(L)
      PROVE  L[j].op \in {"allActive", "sync"}
  <2>1. j \in 1 .. 2 * n
    BY <1>1
  <2>2. PICK k \in 1 .. n, i \in {1, 2} : j = 2 * (k - 1) + i
    BY <2>1, TwoEach
  <2>3. L[j] = seekActive(cs[k]) \/ L[j] = syncNode(cs[k])
    BY <1>1, <2>2
  <2> QED  BY <2>3, SeekFields
<1>3. Ops(L, {"allActive", "sync"})
  BY <1>2 DEF Ops
<1> QED  BY <1>3 DEF L

\* bootstrapNode() looks for a proxy and for roles, and grants.
LEMMA BootOps ==
  ASSUME NEW c
  PROVE  Ops(bootstrapNode(c), {"noProxy", "hasRole", "grantRole"})
<1> DEFINE L == bootstrapNode(c)
           n == Len(WorkerSlots)
<1>1. /\ L \in Seq(ToSet(L)) /\ Len(L) = 2 * n + 1
      /\ L[1] = seekProxy(c)
      /\ \A k \in 1 .. n :
           /\ L[2 * k] = seekRole(c, "ADMIN", adminWallet(WorkerSlots[k]))
           /\ L[2 * k + 1] = send("grantRole", c, "ADMIN", adminWallet(WorkerSlots[k]), seed)
  BY BootAt
<1> HIDE DEF L
<1>2. ASSUME NEW j \in 1 .. Len(L)
      PROVE  L[j].op \in {"noProxy", "hasRole", "grantRole"}
  <2>1. n \in Nat /\ Len(L) = 2 * n + 1
    BY <1>1, SlotsTyped
  <2>2. j = 1 \/ j - 1 \in 1 .. 2 * n
    BY <2>1
  <2>3. CASE j = 1
    BY <1>1, <2>3, SeekFields
  <2>4. CASE j - 1 \in 1 .. 2 * n
    <3>1. PICK k \in 1 .. n, i \in {1, 2} : j - 1 = 2 * (k - 1) + i
      BY <2>1, <2>4, TwoEach
    <3>2. j = 2 * k \/ j = 2 * k + 1
      BY <3>1
    <3>3. \/ L[j] = seekRole(c, "ADMIN", adminWallet(WorkerSlots[k]))
          \/ L[j] = send("grantRole", c, "ADMIN", adminWallet(WorkerSlots[k]), seed)
      BY <1>1, <3>2
    <3> QED  BY <3>3, SeekFields, StepFields
  <2> QED  BY <2>2, <2>3, <2>4
<1>3. Ops(L, {"noProxy", "hasRole", "grantRole"})
  BY <1>2 DEF Ops
<1> QED  BY <1>3 DEF L

\* The grants on a node look for roles and grant.
LEMMA NodeOps ==
  ASSUME NEW n, NEW w
  PROVE  Ops(grantOperatorRole(n, w) \o grantBankEmployeeRole(n, w), {"hasRole", "grantRole"})
<1> DEFINE L == grantOperatorRole(n, w) \o grantBankEmployeeRole(n, w)
<1>1. /\ L \in Seq(ToSet(L)) /\ Len(L) = 4
      /\ L[1] = seekRole(n, "PRIVACY_NODE_OPERATOR", operatorWallet(w))
      /\ L[2] = send("grantRole", n, "PRIVACY_NODE_OPERATOR", operatorWallet(w), adminWallet(w))
      /\ L[3] = seekRole(n, "BANK_EMPLOYEE", bankEmployeeWallet(w))
      /\ L[4] = send("grantRole", n, "BANK_EMPLOYEE", bankEmployeeWallet(w), operatorWallet(w))
  BY NodeLane
<1> HIDE DEF L
<1>2. \A j \in 1 .. Len(L) : j = 1 \/ j = 2 \/ j = 3 \/ j = 4
  BY <1>1
<1>3. /\ L[1].op = "hasRole" /\ L[2].op = "grantRole"
      /\ L[3].op = "hasRole" /\ L[4].op = "grantRole"
  BY <1>1, SeekFields, StepFields
<1>4. Ops(L, {"hasRole", "grantRole"})
  BY <1>2, <1>3 DEF Ops
<1> QED  BY <1>4 DEF L

\* What is done in it.
HubOps == Wiring \cup {"replicas", "hasRole", "grantRole", "unwired", "mapSelectors"}

\* What the lane of the hub in the third stage of a setup does.
LEMMA HubLaneOps ==
  ASSUME NEW w
  PROVE  /\ Ops(hubLane(w), HubOps)
         /\ \A j \in 1 .. Len(hubLane(w)) : hubLane(w)[j].op = "unwired" => j = 10
         /\ hubLane(w)[5].op = "instances.set" /\ hubLane(w)[5].on = Hub
<1> DEFINE L == hubLane(w)
<1>1. /\ L \in Seq(ToSet(L)) /\ Len(L) = 11
      /\ L[1] = awaitReplicas
      /\ L[2] = seekInstance(Hub)
      /\ L[3] = read("resolve", Hub) /\ L[4] = read("resolve", Hub)
      /\ L[5] = read("instances.set", Hub)
      /\ L[6] = seekRole(Hub, "PRIVATE_NETWORK_OPERATOR", operatorWallet(w))
      /\ L[7] = send("grantRole", Hub, "PRIVATE_NETWORK_OPERATOR", operatorWallet(w), adminWallet(w))
      /\ L[8] = seekRole(Hub, "COMPLIANCE_OFFICER", complianceWallet(w))
      /\ L[9] = send("grantRole", Hub, "COMPLIANCE_OFFICER", complianceWallet(w), operatorWallet(w))
      /\ L[10] = seekWiring
      /\ L[11] = mapSelectors(w)
  BY HubLane
<1> HIDE DEF L
<1>2. /\ L[1].op = "replicas" /\ L[2].op = "instances.has" /\ L[3].op = "resolve" /\ L[4].op = "resolve"
      /\ L[5].op = "instances.set" /\ L[6].op = "hasRole" /\ L[7].op = "grantRole"
      /\ L[8].op = "hasRole" /\ L[9].op = "grantRole" /\ L[10].op = "unwired" /\ L[11].op = "mapSelectors"
      /\ L[5].on = Hub
  BY <1>1, SeekFields, StepFields
<1>3. \A j \in 1 .. Len(L) : \/ j = 1 \/ j = 2 \/ j = 3 \/ j = 4 \/ j = 5 \/ j = 6
                             \/ j = 7 \/ j = 8 \/ j = 9 \/ j = 10 \/ j = 11
  BY <1>1
<1>4. ASSUME NEW j \in 1 .. Len(L)
      PROVE  L[j].op \in HubOps /\ (L[j].op = "unwired" => j = 10)
  BY <1>2, <1>3 DEF HubOps, Wiring
<1>5. Ops(L, HubOps) /\ (\A j \in 1 .. Len(L) : L[j].op = "unwired" => j = 10)
      /\ L[5].op = "instances.set" /\ L[5].on = Hub
  BY <1>2, <1>4 DEF Ops
<1> QED  BY <1>5 DEF L

\* What the body of a test does when it is in order.
LEMMA BodyOps ==
  ASSUME BodiesInOrder, NEW w \in Testers
  PROVE  Ops(Body[w], {"hasRole", "grantRole", "call", "pay"})
<1>1. Len(Body[w]) \in Nat /\ DOMAIN Body[w] = 1 .. Len(Body[w])
  BY LenProperties DEF BodiesInOrder
<1> QED  BY <1>1 DEF Ops, BodiesInOrder

\* Three stages and one more.
LEMMA ThreeAndOne ==
  ASSUME NEW x, NEW y, NEW z, NEW u
  PROVE  LET L == <<x, y, z>> \o <<u>> IN
         /\ L \in Seq(ToSet(L)) /\ Len(L) = 4
         /\ L[1] = x /\ L[2] = y /\ L[3] = z /\ L[4] = u
<1> DEFINE a == <<x, y, z>>
           b == <<u>>
<1>1. a = [i \in 1 .. 3 |-> a[i]] /\ a[1] = x /\ a[2] = y /\ a[3] = z
  OBVIOUS
<1>2. b = [i \in 1 .. 1 |-> b[i]] /\ b[1] = u
  OBVIOUS
<1> HIDE DEF a, b
<1>3. a \in Seq(ToSet(a)) /\ Len(a) = 3
  BY <1>1, SeqIs
<1>4. b \in Seq(ToSet(b)) /\ Len(b) = 1
  BY <1>2, SeqIs
<1>5. a \in Seq(ToSet(a)) /\ b \in Seq(ToSet(b))
  BY <1>3, <1>4
<1> DEFINE L == a \o b
<1>6. /\ L \in Seq(ToSet(L)) /\ Len(L) = Len(a) + Len(b)
      /\ \A i \in 1 .. Len(a) : L[i] = a[i]
      /\ \A i \in 1 .. Len(b) : L[Len(a) + i] = b[i]
  BY <1>5, ConcatIs
<1> HIDE DEF L
<1>7. /\ Len(L) = 4 /\ L[1] = x /\ L[2] = y /\ L[3] = z /\ L[3 + 1] = u
  BY <1>1, <1>2, <1>3, <1>4, <1>6
<1>8. L[4] = u
  BY <1>7
<1>9. L \in Seq(ToSet(L))
  BY <1>6
<1> QED  BY <1>7, <1>8, <1>9 DEF L, a, b

\* Which process runs which program.
LEMMA ProgramOf ==
  /\ Testers \cap Scripts = {}
  /\ Program["wait"] = waitForParticipants /\ Program["unfreeze"] = unfreezeParticipants
  /\ Program["boot"] = bootstrap
  /\ \A w \in Testers : Program[w] = initializePrivacyNodesAndPnh(w) \o << OneLane(Body[w]) >>
<1>1. Testers \cap Scripts = {}
  BY SlotAssumption, ScriptAssumption
<1>2. \A w \in Testers : w # "wait" /\ w # "unfreeze" /\ w # "boot" /\ w \in Procs
  BY <1>1 DEF Scripts, Procs
<1>3. "wait" \in Procs /\ "unfreeze" \in Procs /\ "boot" \in Procs
  BY DEF Scripts, Procs
<1>4. /\ Program["wait"] = waitForParticipants /\ Program["unfreeze"] = unfreezeParticipants
      /\ Program["boot"] = bootstrap
  BY <1>3 DEF Program
<1>5. \A w \in Testers : Program[w] = initializePrivacyNodesAndPnh(w) \o << OneLane(Body[w]) >>
  BY <1>2 DEF Program
<1> QED  BY <1>1, <1>4, <1>5

\* The stages of a test's process, chain by chain.
LEMMA TesterProgram ==
  ASSUME NEW w \in Testers
  PROVE  LET P == Program[w] IN
         /\ Len(P) = 4 /\ DOMAIN P = 1 .. 4
         /\ \A c \in Chains :
              /\ P[1][c] = IF c = Hub THEN getInstances(Used) ELSE << >>
              /\ P[2][c] = IF c \in ToSet(Used)
                             THEN grantOperatorRole(c, w) \o grantBankEmployeeRole(c, w) ELSE << >>
              /\ P[3][c] = IF c = Hub THEN hubLane(w) ELSE << >>
              /\ P[4][c] = IF c = Hub THEN Body[w] ELSE << >>
<1> DEFINE x == OneLane(getInstances(Used))
           y == [c \in Chains |-> IF c \in ToSet(Used)
                   THEN grantOperatorRole(c, w) \o grantBankEmployeeRole(c, w) ELSE << >>]
           z == OneLane(hubLane(w))
           u == OneLane(Body[w])
           P == Program[w]
<1>1. P = <<x, y, z>> \o <<u>>
  BY ProgramOf DEF initializePrivacyNodesAndPnh, hubLane
<1>2. \A c \in Chains :
        /\ x[c] = IF c = Hub THEN getInstances(Used) ELSE << >>
        /\ y[c] = IF c \in ToSet(Used)
                    THEN grantOperatorRole(c, w) \o grantBankEmployeeRole(c, w) ELSE << >>
        /\ z[c] = IF c = Hub THEN hubLane(w) ELSE << >>
        /\ u[c] = IF c = Hub THEN Body[w] ELSE << >>
  BY DEF OneLane
<1> HIDE DEF x, y, z, u, P
<1>3. P \in Seq(ToSet(P)) /\ Len(P) = 4 /\ P[1] = x /\ P[2] = y /\ P[3] = z /\ P[4] = u
  BY <1>1, ThreeAndOne
<1>4. DOMAIN P = 1 .. 4
  <2>1. P \in Seq(ToSet(P)) /\ Len(P) = 4
    BY <1>3
  <2> QED  BY <2>1, LenProperties
<1>5. \A c \in Chains :
        /\ P[1][c] = IF c = Hub THEN getInstances(Used) ELSE << >>
        /\ P[2][c] = IF c \in ToSet(Used)
                       THEN grantOperatorRole(c, w) \o grantBankEmployeeRole(c, w) ELSE << >>
        /\ P[3][c] = IF c = Hub THEN hubLane(w) ELSE << >>
        /\ P[4][c] = IF c = Hub THEN Body[w] ELSE << >>
  BY <1>2, <1>3
<1>6. Len(P) = 4 /\ DOMAIN P = 1 .. 4
  BY <1>3, <1>4
<1> QED  BY <1>5, <1>6 DEF P

\* The two stages of the bootstrap.
LEMMA BootProgram ==
  ASSUME Len(WorkerSlots) > 1
  PROVE  LET P == Program["boot"] IN
         /\ Len(P) = 2 /\ DOMAIN P = 1 .. 2
         /\ \A c \in Chains : P[1][c] = bootstrapNode(c) /\ P[2][c] = fundNode(c)
<1> DEFINE x == [c \in Chains |-> bootstrapNode(c)]
           y == [c \in Chains |-> fundNode(c)]
           P == Program["boot"]
<1>1. ~ Len(WorkerSlots) <= 1
  BY SlotsTyped
<1>2. P = <<x, y>>
  BY <1>1, ProgramOf DEF bootstrap
<1>3. \A c \in Chains : x[c] = bootstrapNode(c) /\ y[c] = fundNode(c)
  OBVIOUS
<1> HIDE DEF x, y, P
<1>4. P \in Seq(ToSet(P)) /\ Len(P) = 2 /\ P[1] = x /\ P[2] = y
  BY <1>2, PairIs
<1>5. P \in Seq(ToSet(P)) /\ Len(P) = 2
  BY <1>4
<1>6. DOMAIN P = 1 .. 2
  BY <1>5, LenProperties
<1>7. Len(P) = 2 /\ DOMAIN P = 1 .. 2 /\ \A c \in Chains : P[1][c] = bootstrapNode(c) /\ P[2][c] = fundNode(c)
  BY <1>3, <1>4, <1>6
<1> QED  BY <1>7 DEF P

\* The one stage of the two other scripts: it wires, polls and resynchronises.
LEMMA ScriptProgram ==
  ASSUME NEW p \in {"wait", "unfreeze"}
  PROVE  LET P == Program[p] IN
         /\ Len(P) = 1 /\ DOMAIN P = 1 .. 1
         /\ \A c \in Chains : /\ Sound(P[1][c])
                              /\ Ops(P[1][c], Wiring \cup {"getContract", "verifyParticipant", "allActive", "sync"})
<1> DEFINE K == Wiring \cup {"getContract", "verifyParticipant", "allActive", "sync"}
           W == << read("getContract", Hub), poll("verifyParticipant", TRUE) >>
           G == getInstance(Hub)
           I == getInstances(getActiveNodes)
           S == InTurn(getActiveNodes, 2, requestSync)
           U == (G \o I) \o S
<1>1. Sound(W) /\ Ops(W, K)
  <2>1. W = <<read("getContract", Hub), awaitHub>>
    BY DEF awaitHub
  <2> HIDE DEF W
  <2>2. W \in Seq(ToSet(W)) /\ Len(W) = 2 /\ W[1] = read("getContract", Hub) /\ W[2] = awaitHub
    BY <2>1, PairIs
  <2>3. /\ W[1].kind = "read" /\ W[1].op = "getContract" /\ W[1].on = Hub
        /\ W[2].kind = "poll" /\ W[2].op = "verifyParticipant" /\ W[2].on = Hub
    BY <2>2, SeekFields, StepFields
  <2>4. Fits(W, 1) /\ Fits(W, 2)
    BY <2>3, HubIsAChain DEF Fits, Proper, Skips, Wires, Reads, Polls
  <2>5. \A j \in 1 .. Len(W) : j = 1 \/ j = 2
    BY <2>2
  <2> QED  BY <2>2, <2>3, <2>4, <2>5 DEF Sound, Ops
<1>2. Len(getActiveNodes) \in Nat /\ \A k \in 1 .. Len(getActiveNodes) : getActiveNodes[k] \in Chains
  BY UsedNodes, HubIsAChain
<1>3. Sound(G) /\ Sound(I) /\ Sound(S)
  BY <1>2, HubIsAChain, InstanceSound, InstancesSound, SyncSound
<1>4. Ops(G, K) /\ Ops(I, K) /\ Ops(S, K)
  <2>1. Ops(G, Wiring) /\ Ops(I, Wiring) /\ Ops(S, {"allActive", "sync"})
    BY <1>2, InstanceOps, InstancesOps, SyncOps
  <2> HIDE DEF G, I, S
  <2> QED  BY <2>1 DEF Ops
<1> HIDE DEF W, G, I, S, K
<1>5. Sound(G \o I) /\ Ops(G \o I, K)
  BY <1>3, <1>4, SoundConcat, OpsConcat
<1>6. Sound(U) /\ Ops(U, K)
  BY <1>3, <1>4, <1>5, SoundConcat, OpsConcat
<1>7. Sound(<< >>) /\ Ops(<< >>, K)
  BY EmptySound, EmptyOps
<1> DEFINE P == Program[p]
<1>8. P = << OneLane(W) >> \/ P = << OneLane(U) >>
  BY ProgramOf DEF waitForParticipants, unfreezeParticipants, W, G, I, S
<1> HIDE DEF P, U
<1>9. Len(P) = 1 /\ DOMAIN P = 1 .. 1 /\ (P[1] = OneLane(W) \/ P[1] = OneLane(U))
  <2>1. ASSUME NEW f, P = <<f>>
        PROVE  Len(P) = 1 /\ DOMAIN P = 1 .. 1 /\ P[1] = f
    BY <2>1
  <2> QED  BY <1>8, <2>1
<1>10. \A c \in Chains : Sound(P[1][c]) /\ Ops(P[1][c], K)
  BY <1>1, <1>6, <1>7, <1>9 DEF OneLane
<1> QED  BY <1>9, <1>10 DEF P, K

\* What is assumed: the bootstrap is run at all, and the bodies are in order.
SuiteInOrder == Len(WorkerSlots) > 1 /\ BodiesInOrder

\* The processes whose steps the invariant follows.
Tracked == {"boot"} \cup Testers

\* Every stage of every program has a sound lane on every chain.
LEMMA Lanes ==
  ASSUME SuiteInOrder, NEW p \in Procs
  PROVE  /\ Len(Program[p]) \in Nat \ {0} /\ DOMAIN Program[p] = 1 .. Len(Program[p])
         /\ \A k \in 1 .. Len(Program[p]), c \in Chains :
              /\ Sound(Program[p][k][c])
              /\ Len(Program[p][k][c]) \in Nat
              /\ DOMAIN Program[p][k][c] = 1 .. Len(Program[p][k][c])
<1> DEFINE P == Program[p]
<1>1. ASSUME NEW L, Sound(L)
      PROVE  Len(L) \in Nat /\ DOMAIN L = 1 .. Len(L)
  BY <1>1, LenProperties DEF Sound
<1>2. CASE p \in {"wait", "unfreeze"}
  <2>1. Len(P) = 1 /\ DOMAIN P = 1 .. 1 /\ \A c \in Chains : Sound(P[1][c])
    BY <1>2, ScriptProgram
  <2> HIDE DEF P
  <2>2. \A k \in 1 .. 1 : k = 1
    OBVIOUS
  <2>3. Len(P) \in Nat \ {0} /\ DOMAIN P = 1 .. Len(P)
        /\ \A k \in 1 .. Len(P), c \in Chains : Sound(P[k][c])
    BY <2>1, <2>2
  <2> QED  BY <1>1, <2>3 DEF P
<1>3. CASE p = "boot"
  <2>1. Len(P) = 2 /\ DOMAIN P = 1 .. 2
        /\ \A c \in Chains : P[1][c] = bootstrapNode(c) /\ P[2][c] = fundNode(c)
    BY <1>3, BootProgram DEF SuiteInOrder
  <2> HIDE DEF P
  <2>2. \A k \in 1 .. 2 : k = 1 \/ k = 2
    OBVIOUS
  <2>3. \A c \in Chains : Sound(P[1][c]) /\ Sound(P[2][c])
    BY <2>1, BootSound, FundSound
  <2>4. Len(P) \in Nat \ {0} /\ DOMAIN P = 1 .. Len(P)
        /\ \A k \in 1 .. Len(P), c \in Chains : Sound(P[k][c])
    BY <2>1, <2>2, <2>3
  <2> QED  BY <1>1, <2>4 DEF P
<1>4. CASE p \in Testers
  <2>1. /\ Len(P) = 4 /\ DOMAIN P = 1 .. 4
        /\ \A c \in Chains :
              /\ P[1][c] = IF c = Hub THEN getInstances(Used) ELSE << >>
              /\ P[2][c] = IF c \in ToSet(Used)
                             THEN grantOperatorRole(c, p) \o grantBankEmployeeRole(c, p) ELSE << >>
              /\ P[3][c] = IF c = Hub THEN hubLane(p) ELSE << >>
              /\ P[4][c] = IF c = Hub THEN Body[p] ELSE << >>
    BY <1>4, TesterProgram
  <2> HIDE DEF P
  <2>2. \A k \in 1 .. 4 : k = 1 \/ k = 2 \/ k = 3 \/ k = 4
    OBVIOUS
  <2>3. Sound(getInstances(Used)) /\ Sound(hubLane(p)) /\ Sound(Body[p]) /\ Sound(<< >>)
    <3>1. \A k \in 1 .. Len(Used) : Used[k] \in Chains
      BY UsedNodes, HubIsAChain
    <3> QED  BY <1>4, <3>1, UsedNodes, InstancesSound, HubSound, BodySound, EmptySound DEF SuiteInOrder
  <2>4. \A c \in Chains : Sound(grantOperatorRole(c, p) \o grantBankEmployeeRole(c, p))
    BY NodeSound
  <2>5. \A c \in Chains : Sound(P[1][c]) /\ Sound(P[2][c]) /\ Sound(P[3][c]) /\ Sound(P[4][c])
    BY <2>1, <2>3, <2>4
  <2>6. Len(P) \in Nat \ {0} /\ DOMAIN P = 1 .. Len(P)
        /\ \A k \in 1 .. Len(P), c \in Chains : Sound(P[k][c])
    BY <2>1, <2>2, <2>5
  <2> QED  BY <1>1, <2>6 DEF P
<1> QED  BY <1>2, <1>3, <1>4 DEF Procs, Scripts

\* Which steps are found where.
LEMMA Kinds ==
  ASSUME SuiteInOrder, NEW p \in Procs, NEW k \in 1 .. Len(Program[p]), NEW c \in Chains,
         NEW j \in 1 .. Len(Program[p][k][c])
  PROVE  LET s == Program[p][k][c][j] IN
         /\ p \in {"wait", "unfreeze"} /\ s.kind = "send" => s.op = "sync"
         /\ s.op = "pay" => p \in Testers /\ k = TestStage
         /\ p \in Tracked /\ s.op \in Wiring => p \in Testers /\ c = Hub /\ k # GrantStage
         /\ s.op = "unwired" =>
              /\ p \in Testers /\ c = Hub /\ j = 10
              /\ Len(Program[p][k][c]) > 5
              /\ Program[p][k][c][5].op = "instances.set" /\ Program[p][k][c][5].on = Hub
         /\ p \in Testers /\ k = GrantStage => c \in ToSet(Used) /\ s.op \in {"hasRole", "grantRole"}
<1> DEFINE P == Program[p]
           L == Program[p][k][c]
           s == Program[p][k][c][j]
<1>1. Testers \cap Scripts = {}
  BY ProgramOf
<1>2. Proper(s)
  BY Lanes DEF Sound, Fits
<1>3. CASE p \in {"wait", "unfreeze"}
  <2>1. k = 1 /\ Ops(L, Wiring \cup {"getContract", "verifyParticipant", "allActive", "sync"})
    <3>1. Len(P) = 1 /\ Ops(P[1][c], Wiring \cup {"getContract", "verifyParticipant", "allActive", "sync"})
      BY <1>3, ScriptProgram
    <3>2. k = 1
      BY <3>1
    <3> QED  BY <3>1, <3>2
  <2>2. s.op \in Wiring \cup {"getContract", "verifyParticipant", "allActive", "sync"}
    BY <2>1 DEF Ops
  <2>3. p \notin Testers /\ p \notin Tracked
    BY <1>1, <1>3 DEF Tracked, Scripts
  <2> HIDE DEF s
  <2>4. s.kind = "send" => s.op = "sync"
    BY <1>2, <2>2 DEF Proper, Wiring, Sends, Looks, Reads, Polls
  <2>5. s.op # "pay" /\ s.op # "unwired"
    BY <2>2 DEF Wiring
  <2> QED  BY <2>3, <2>4, <2>5 DEF s
<1>4. CASE p = "boot"
  <2>1. L = bootstrapNode(c) \/ L = fundNode(c)
    <3>1. Len(P) = 2 /\ P[1][c] = bootstrapNode(c) /\ P[2][c] = fundNode(c)
      BY <1>4, BootProgram DEF SuiteInOrder
    <3>2. k = 1 \/ k = 2
      BY <3>1
    <3> QED  BY <3>1, <3>2
  <2>2. Ops(bootstrapNode(c), {"noProxy", "hasRole", "grantRole"}) /\ Ops(fundNode(c), {"balance", "fund"})
    BY BootOps, FundOps
  <2> HIDE DEF L
  <2>3. L[j].op \in {"noProxy", "hasRole", "grantRole", "balance", "fund"}
    <3>1. j \in 1 .. Len(L)
      BY DEF L
    <3> QED  BY <2>1, <2>2, <3>1 DEF Ops
  <2>4. p \notin Testers /\ p \notin {"wait", "unfreeze"}
    BY <1>1, <1>4 DEF Scripts
  <2>5. s.op \in {"noProxy", "hasRole", "grantRole", "balance", "fund"}
    BY <2>3 DEF L
  <2> HIDE DEF s
  <2>6. s.op # "pay" /\ s.op # "unwired" /\ s.op \notin Wiring
    BY <2>5 DEF Wiring
  <2> QED  BY <2>4, <2>6 DEF s
<1>5. CASE p \in Testers
  <2>1. /\ Len(P) = 4
        /\ P[1][c] = IF c = Hub THEN getInstances(Used) ELSE << >>
        /\ P[2][c] = IF c \in ToSet(Used)
                       THEN grantOperatorRole(c, p) \o grantBankEmployeeRole(c, p) ELSE << >>
        /\ P[3][c] = IF c = Hub THEN hubLane(p) ELSE << >>
        /\ P[4][c] = IF c = Hub THEN Body[p] ELSE << >>
    BY <1>5, TesterProgram
  <2>2. k = 1 \/ k = 2 \/ k = 3 \/ k = 4
    BY <2>1
  <2>3. p \notin {"wait", "unfreeze"}
    BY <1>1, <1>5 DEF Scripts
  <2>4. L # << >>
    <3>1. Len(<< >>) = 0
      BY EmptySeq
    <3>2. Len(L) # 0
      BY Lanes
    <3> QED  BY <3>1, <3>2
  <2>5. j \in 1 .. Len(L)
    OBVIOUS
  <2>6. CASE k = 1
    <3>1. c = Hub /\ L = getInstances(Used)
      BY <2>1, <2>4, <2>6
    <3>2. Ops(L, Wiring)
      BY <3>1, UsedNodes, InstancesOps
    <3>3. s.op \in Wiring
      BY <2>5, <3>2 DEF Ops
    <3>4. s.op # "pay" /\ s.op # "unwired"
      BY <3>3 DEF Wiring
    <3> QED  BY <1>5, <2>3, <2>6, <3>1, <3>4 DEF GrantStage
  <2>7. CASE k = 2
    <3>1. c \in ToSet(Used) /\ L = grantOperatorRole(c, p) \o grantBankEmployeeRole(c, p)
      BY <2>1, <2>4, <2>7
    <3>2. Ops(L, {"hasRole", "grantRole"})
      BY <3>1, NodeOps
    <3>3. s.op \in {"hasRole", "grantRole"}
      BY <2>5, <3>2 DEF Ops
    <3>4. s.op # "pay" /\ s.op # "unwired" /\ s.op \notin Wiring
      BY <3>3 DEF Wiring
    <3> QED  BY <2>3, <3>1, <3>3, <3>4
  <2>8. CASE k = 3
    <3>1. c = Hub /\ L = hubLane(p)
      BY <2>1, <2>4, <2>8
    <3>2. Ops(L, HubOps) /\ (\A i \in 1 .. Len(L) : L[i].op = "unwired" => i = 10)
          /\ L[5].op = "instances.set" /\ L[5].on = Hub
      BY <3>1, HubLaneOps
    <3>3. s.op \in HubOps /\ (s.op = "unwired" => j = 10)
      BY <2>5, <3>2 DEF Ops
    <3>4. s.op # "pay"
      BY <3>3 DEF HubOps, Wiring
    <3>5. Len(L) = 11
      BY <3>1, HubLane
    <3> QED  BY <1>5, <2>3, <2>8, <3>1, <3>2, <3>3, <3>4, <3>5 DEF GrantStage
  <2>9. CASE k = 4
    <3>1. c = Hub /\ L = Body[p]
      BY <2>1, <2>4, <2>9
    <3>2. Ops(L, {"hasRole", "grantRole", "call", "pay"})
      BY <1>5, <3>1, BodyOps DEF SuiteInOrder
    <3>3. s.op \in {"hasRole", "grantRole", "call", "pay"}
      BY <2>5, <3>2 DEF Ops
    <3>4. s.op # "unwired" /\ s.op \notin Wiring
      BY <3>3 DEF Wiring
    <3> QED  BY <1>5, <2>3, <2>9, <3>4 DEF GrantStage, TestStage
  <2> QED  BY <2>2, <2>6, <2>7, <2>8, <2>9
<1> QED  BY <1>3, <1>4, <1>5 DEF Procs, Scripts

\* What is so once step s of process p is passed, taken or spared.
SeenTo(p, s) ==
  /\ s.op = "grantRole" /\ s.on \in configured => <<s.on, s.role, s.to>> \in members
  /\ s.op = "mapSelectors" => mapped
  /\ s.op = "resolve" => s.on \in configured
  /\ s.op = "instances.set" /\ p \in Testers => s.on \in stored[p]
  /\ s.op = "replicas" => \A n \in ToSet(Used) : replica[n] = "active"
  /\ s.op = "fund" /\ (\A w \in Testers : progress[w] = "waiting") =>
       balance[s.on][s.to[1]] >= FundMin

\* Process p is past step j of stage k on chain c.
Passed(p, k, c, j) ==
  \/ progress[p] = "returned"
  \/ progress[p] = "running" /\ (k < stage[p] \/ (k = stage[p] /\ j < lane[<<p, "awaited">>][c]))

\* The types.
StateTyped ==
  /\ progress \in [Procs -> {"waiting", "running", "returned", "threw"}]
  /\ stage \in [Procs -> Nat] /\ lane \in [Threads -> [Chains -> Nat]]
  /\ stored \in [Procs -> SUBSET Chains] /\ wired \in [Procs -> [Chains -> Nat]]
  /\ balance \in [Chains -> [Workers -> Nat]]
  /\ replica \in [Nodes -> {"none", "stale", "active"}]

\* A process is within its program, and at its start unless it runs.
InStage ==
  \A p \in Procs :
    /\ stage[p] \in 1 .. Len(Program[p])
    /\ \A c \in Chains : lane[<<p, "awaited">>][c] \in 1 .. Len(Program[p][stage[p]][c]) + 1
    /\ progress[p] # "running" => stage[p] = 1 /\ \A c \in Chains : lane[<<p, "awaited">>][c] = 1

\* What the bootstrap or a test has passed has been seen to, and is still so.
Done ==
  \A p \in Tracked : \A k \in 1 .. Len(Program[p]), c \in Chains :
    \A j \in 1 .. Len(Program[p][k][c]) : Passed(p, k, c, j) => SeenTo(p, Program[p][k][c][j])

\* So it is for the lanes a setup that threw has left running.
Strays ==
  \A p \in Testers, c \in Chains :
    /\ lane[<<p, "stray">>][c] \in 0 .. Len(Program[p][GrantStage][c])
    /\ lane[<<p, "stray">>][c] # 0 => progress[p] # "waiting" /\ ToSet(Used) \subseteq configured
    /\ \A j \in 1 .. lane[<<p, "stray">>][c] - 1 : SeenTo(p, Program[p][GrantStage][c][j])

\* No test is started before the bootstrap has returned.
Started == \A w \in Testers : progress[w] # "waiting" => progress["boot"] = "returned"

\* What was given up while pending is a transaction of some program, and pays nobody
\* from an admin wallet before the tests.
Pending ==
  \A s \in loose :
    /\ s.on \in Chains /\ (s.op = "fund" => s.to[1] \in Workers)
    /\ s.op = "pay" => s.by[1] \in Workers /\ \E w \in Testers : progress[w] # "waiting"

\* The seed wallet administers every chain, and the hub always has a registry.
Seeded ==
  /\ \A c \in Chains : <<c, "ADMIN", seed>> \in members
  /\ Hub \in configured /\ configured \subseteq Chains

\* A stored instance is of a chain with a registry, and has both its contracts.
Singletons ==
  \A w \in Testers : stored[w] \subseteq configured /\ \A c \in stored[w] : wired[w][c] = 2

\* A test that is about to wire or store an instance has not stored it, and has wired
\* it as often as the steps before say.
HalfWired ==
  \A w \in Testers : progress[w] = "running" =>
    LET L == Program[w][stage[w]][Hub] j == lane[<<w, "awaited">>][Hub] IN
    j <= Len(L) =>
      /\ L[j].op = "resolve" =>
           /\ L[j].on \notin stored[w]
           /\ wired[w][L[j].on] = IF L[j - 1].op = "resolve" THEN 1 ELSE 0
      /\ L[j].op = "instances.set" => L[j].on \notin stored[w] /\ wired[w][L[j].on] = 2

\* The inductive invariant.
SetupInv ==
  /\ StateTyped /\ InStage /\ Done /\ Strays /\ Started /\ Pending /\ Seeded
  /\ Singletons /\ HalfWired /\ ~refused

(***************************************************************************)
(* What a step does not undo                                               *)
(***************************************************************************)
Grows ==
  /\ configured' = configured /\ members \subseteq members' /\ (mapped => mapped')
  /\ \A n \in Nodes : replica[n] = "active" => replica'[n] = "active"
  /\ \A w \in Testers : progress[w] # "waiting" => progress'[w] # "waiting"
  /\ \/ \E w \in Testers : progress[w] # "waiting"
     \/ \A c \in Chains, w \in Workers : balance'[c][w] >= balance[c][w]

\* No singleton is taken from a test process that goes on.
Keeps(p) == p \in Testers => stored[p] \subseteq stored'[p]

\* What a passed step stands for is not undone by a step that only grows the state.
LEMMA HoldsStays ==
  ASSUME NEW p, NEW s, Proper(s), StateTyped, StateTyped', Grows, Keeps(p), SeenTo(p, s)
  PROVE  SeenTo(p, s)'
<1>1. s.op = "grantRole" /\ s.on \in configured' => <<s.on, s.role, s.to>> \in members'
  BY DEF SeenTo, Grows
<1>2. s.op = "mapSelectors" => mapped'
  BY DEF SeenTo, Grows
<1>3. s.op = "resolve" => s.on \in configured'
  BY DEF SeenTo, Grows
<1>4. s.op = "instances.set" /\ p \in Testers => s.on \in stored'[p]
  BY DEF SeenTo, Keeps
<1>5. s.op = "replicas" => \A n \in ToSet(Used) : replica'[n] = "active"
  BY UsedNodes DEF SeenTo, Grows
<1>6. s.op = "fund" /\ (\A w \in Testers : progress'[w] = "waiting") => balance'[s.on][s.to[1]] >= FundMin
  <2>1. SUFFICES ASSUME s.op = "fund", \A w \in Testers : progress'[w] = "waiting"
                 PROVE  balance'[s.on][s.to[1]] >= FundMin
    OBVIOUS
  <2>2. s.on \in Chains /\ s.to[1] \in Workers
    BY <2>1 DEF Proper
  <2>3. \A w \in Testers : progress[w] = "waiting"
    BY <2>1 DEF Grows
  <2>4. balance[s.on][s.to[1]] >= FundMin
    BY <2>1, <2>3 DEF SeenTo
  <2>5. balance'[s.on][s.to[1]] >= balance[s.on][s.to[1]]
    BY <2>2, <2>3 DEF Grows
  <2>6. balance[s.on][s.to[1]] \in Nat /\ balance'[s.on][s.to[1]] \in Nat /\ FundMin \in Nat
    BY <2>2, AmountAssumption DEF StateTyped
  <2> HIDE DEF SeenTo
  <2> QED  BY <2>4, <2>5, <2>6
<1> QED  BY <1>1, <1>2, <1>3, <1>4, <1>5, <1>6 DEF SeenTo

\* What a transaction does to the chains.
LEMMA EffectGrows ==
  ASSUME NEW s, StateTyped, s.on \in Chains, Affords(s), Effect(s),
         s.op = "fund" => s.to[1] \in Workers,
         s.op = "pay" => s.by[1] \in Workers /\ \E w \in Testers : progress[w] # "waiting"
  PROVE  /\ members \subseteq members' /\ (mapped => mapped')
         /\ balance' \in [Chains -> [Workers -> Nat]]
         /\ \/ \E w \in Testers : progress[w] # "waiting"
            \/ \A c \in Chains, w \in Workers : balance'[c][w] >= balance[c][w]
         /\ s.op = "grantRole" => <<s.on, s.role, s.to>> \in members'
         /\ s.op = "mapSelectors" => mapped'
         /\ s.op = "fund" => balance'[s.on][s.to[1]] >= FundMin
<1>1. /\ members \subseteq members' /\ (mapped => mapped')
      /\ s.op = "grantRole" => <<s.on, s.role, s.to>> \in members'
      /\ s.op = "mapSelectors" => mapped'
  BY DEF Effect
<1>2. /\ balance \in [Chains -> [Workers -> Nat]]
      /\ FundTarget \in Nat /\ FundMin \in Nat /\ FundTarget >= FundMin
  BY AmountAssumption DEF StateTyped
<1>3. CASE s.op = "fund"
  <2> DEFINE w == s.to[1]
  <2>1. balance' = [balance EXCEPT ![s.on][w] = @ + FundTarget]
    BY <1>3 DEF Effect
  <2>2. s.on \in Chains /\ w \in Workers
    BY <1>3
  <2> HIDE DEF w
  <2>3. balance[s.on][w] \in Nat /\ balance[s.on] \in [Workers -> Nat]
    BY <1>2, <2>2
  <2>4. balance' \in [Chains -> [Workers -> Nat]]
    BY <1>2, <2>1, <2>2, <2>3
  <2>5. \A c \in Chains, v \in Workers :
          balance'[c][v] = IF c = s.on /\ v = w THEN balance[c][v] + FundTarget ELSE balance[c][v]
    BY <1>2, <2>1, <2>2
  <2>6. \A c \in Chains, v \in Workers : balance[c][v] \in Nat
    BY <1>2
  <2>7. \A c \in Chains, v \in Workers : balance'[c][v] >= balance[c][v]
    BY <1>2, <2>5, <2>6
  <2>8. balance'[s.on][w] >= FundMin
    BY <1>2, <2>2, <2>3, <2>5
  <2> QED  BY <1>1, <1>3, <2>4, <2>7, <2>8 DEF w
<1>4. CASE s.op = "pay"
  <2> DEFINE w == s.by[1]
  <2>1. balance' = [balance EXCEPT ![s.on][w] = @ - 1] /\ balance[s.on][w] >= 1
    BY <1>4 DEF Effect, Affords
  <2>2. s.on \in Chains /\ w \in Workers
    BY <1>4
  <2> HIDE DEF w
  <2>3. balance[s.on][w] \in Nat /\ balance[s.on] \in [Workers -> Nat]
    BY <1>2, <2>2
  <2>4. balance[s.on][w] - 1 \in Nat
    BY <2>1, <2>3
  <2>5. balance' \in [Chains -> [Workers -> Nat]]
    BY <1>2, <2>1, <2>2, <2>3, <2>4
  <2> QED  BY <1>1, <1>4, <2>5
<1>5. CASE s.op # "fund" /\ s.op # "pay"
  <2>1. balance' = balance
    BY <1>5 DEF Effect
  <2>2. \A c \in Chains, w \in Workers : balance[c][w] \in Nat
    BY <1>2
  <2> QED  BY <1>1, <1>2, <1>5, <2>1, <2>2
<1> QED  BY <1>3, <1>4, <1>5

(***************************************************************************)
(* Where a thread is                                                       *)
(***************************************************************************)
\* The stage a thread is in and its steps on a chain.
stageOf(t) == IF t[2] = "stray" THEN GrantStage ELSE stage[t[1]]
stepsOf(t, c) == Program[t[1]][stageOf(t)][c]

\* A thread is the awaited one of a process, or the stray one of a test process.
LEMMA ThreadOf ==
  ASSUME NEW t \in Threads
  PROVE  \/ t[1] \in Procs /\ t[2] = "awaited" /\ t = <<t[1], "awaited">>
         \/ t[1] \in Testers /\ t[1] \in Procs /\ t[2] = "stray" /\ t = <<t[1], "stray">>
BY DEF Threads, Procs

\* A thread that runs stands on a step of a lane of its program.
LEMMA Position ==
  ASSUME SuiteInOrder, StateTyped, InStage, NEW t \in Threads, NEW c \in Chains, Runs(t, c)
  PROVE  LET p == t[1] k == stageOf(t) L == stepsOf(t, c) j == lane[t][c] IN
         /\ p \in Procs /\ (t[2] = "stray" => p \in Testers) /\ k \in 1 .. Len(Program[p])
         /\ (t[2] # "stray" => t[2] = "awaited" /\ progress[p] = "running")
         /\ Lane(t, c) = L /\ Sound(L) /\ Len(L) \in Nat /\ j \in 1 .. Len(L)
         /\ At(t, c) = L[j] /\ Fits(L, j)
<1> DEFINE p == t[1]
           k == stageOf(t)
           L == stepsOf(t, c)
           j == lane[t][c]
<1>1. /\ p \in Procs /\ (t[2] = "stray" => p \in Testers)
      /\ (t[2] # "stray" => t[2] = "awaited")
  BY ThreadOf
<1>2. k \in 1 .. Len(Program[p])
  <2>1. CASE t[2] = "stray"
    <3>1. Len(Program[p]) = 4
      BY <1>1, <2>1, TesterProgram
    <3>2. k = 2
      BY <2>1 DEF stageOf, GrantStage
    <3> QED  BY <3>1, <3>2
  <2>2. CASE t[2] # "stray"
    BY <1>1, <2>2 DEF InStage, stageOf
  <2> QED  BY <2>1, <2>2
<1>3. /\ DOMAIN Program[p] = 1 .. Len(Program[p])
      /\ Sound(Program[p][k][c]) /\ Len(Program[p][k][c]) \in Nat
      /\ DOMAIN Program[p][k][c] = 1 .. Len(Program[p][k][c])
  BY <1>1, <1>2, Lanes
<1>4. Lane(t, c) = L
  BY <1>1, <1>2, <1>3 DEF Lane, stageOf, stepsOf
<1>5. j \in DOMAIN L
  BY <1>4 DEF Runs
<1>6. j \in 1 .. Len(L) /\ Sound(L) /\ Len(L) \in Nat
  BY <1>3, <1>5 DEF stepsOf
<1>7. At(t, c) = L[j] /\ Fits(L, j)
  BY <1>4, <1>6 DEF At, Sound
<1>8. t[2] # "stray" => progress[p] = "running"
  BY <1>1 DEF Runs
<1> QED  BY <1>1, <1>2, <1>4, <1>6, <1>7, <1>8

(***************************************************************************)
(* What has been seen to                                                   *)
(***************************************************************************)
\* Process w is past stage k.
Beyond(w, k) == progress[w] = "returned" \/ (progress[w] = "running" /\ stage[w] > k)

\* A process beyond a stage has passed every step of it.
LEMMA PassedBeyond ==
  ASSUME StateTyped, NEW p \in Procs, NEW k \in Nat, NEW c, NEW j, Beyond(p, k)
  PROVE  Passed(p, k, c, j)
<1>1. stage[p] \in Nat
  BY DEF StateTyped
<1> QED  BY <1>1 DEF Beyond, Passed

\* The bootstrap has a grant and a transfer for each worker on each chain.
LEMMA BootCovers ==
  ASSUME NEW c, NEW w \in Workers
  PROVE  /\ \E j \in 1 .. Len(bootstrapNode(c)) :
              bootstrapNode(c)[j] = send("grantRole", c, "ADMIN", adminWallet(w), seed)
         /\ \E j \in 1 .. Len(fundNode(c)) : fundNode(c)[j] = fundSlot(c, w)
<1>1. PICK k \in 1 .. Len(WorkerSlots) : w = WorkerSlots[k]
  BY SlotsTyped
<1>2. Len(WorkerSlots) \in Nat
  BY SlotsTyped
<1>3. \E j \in 1 .. Len(bootstrapNode(c)) :
        bootstrapNode(c)[j] = send("grantRole", c, "ADMIN", adminWallet(w), seed)
  <2> DEFINE L == bootstrapNode(c)
  <2>1. /\ Len(L) = 2 * Len(WorkerSlots) + 1
        /\ L[2 * k + 1] = send("grantRole", c, "ADMIN", adminWallet(w), seed)
    BY <1>1, BootAt
  <2> HIDE DEF L
  <2>2. 2 * k + 1 \in 1 .. Len(L)
    BY <1>2, <2>1
  <2> QED  BY <2>1, <2>2 DEF L
<1>4. \E j \in 1 .. Len(fundNode(c)) : fundNode(c)[j] = fundSlot(c, w)
  <2> DEFINE L == fundNode(c)
  <2>1. /\ Len(L) = 2 * Len(WorkerSlots)
        /\ L[2 * (k - 1) + 2] = fundSlot(c, w)
    BY <1>1, FundAt
  <2> HIDE DEF L
  <2>2. 2 * (k - 1) + 2 \in 1 .. Len(L)
    BY <1>2, <2>1
  <2> QED  BY <2>1, <2>2 DEF L
<1> QED  BY <1>3, <1>4

\* After the bootstrap.
LEMMA AdminsReady ==
  ASSUME SuiteInOrder, StateTyped, Done, progress["boot"] = "returned",
         NEW c \in Chains, NEW w \in Workers
  PROVE  /\ c \in configured => <<c, "ADMIN", adminWallet(w)>> \in members
         /\ (\A v \in Testers : progress[v] = "waiting") => balance[c][w] >= FundMin
<1>1. "boot" \in Procs /\ "boot" \in Tracked
  BY DEF Procs, Scripts, Tracked
<1>2. /\ Len(Program["boot"]) = 2
      /\ Program["boot"][1][c] = bootstrapNode(c) /\ Program["boot"][2][c] = fundNode(c)
  BY BootProgram DEF SuiteInOrder
<1>3. PICK i \in 1 .. Len(bootstrapNode(c)) :
        bootstrapNode(c)[i] = send("grantRole", c, "ADMIN", adminWallet(w), seed)
  BY BootCovers
<1>4. PICK j \in 1 .. Len(fundNode(c)) : fundNode(c)[j] = fundSlot(c, w)
  BY BootCovers
<1>5. Passed("boot", 1, c, i) /\ Passed("boot", 2, c, j)
  BY DEF Passed
<1>6. 1 \in 1 .. 2 /\ 2 \in 1 .. 2
  OBVIOUS
<1>7. SeenTo("boot", bootstrapNode(c)[i]) /\ SeenTo("boot", fundNode(c)[j])
  BY <1>1, <1>2, <1>5, <1>6 DEF Done
<1>8. c \in configured => <<c, "ADMIN", adminWallet(w)>> \in members
  BY <1>3, <1>7, StepFields DEF SeenTo
<1>9. adminWallet(w)[1] = w
  BY DEF adminWallet
<1>10. (\A v \in Testers : progress[v] = "waiting") => balance[c][w] >= FundMin
  BY <1>4, <1>7, <1>9, SeekFields DEF SeenTo
<1> QED  BY <1>8, <1>10

\* After the first stage of a setup.
LEMMA UsedReady ==
  ASSUME SuiteInOrder, StateTyped, Done, Singletons, NEW w \in Testers, Beyond(w, 1)
  PROVE  ToSet(Used) \subseteq stored[w] /\ ToSet(Used) \subseteq configured
<1>1. w \in Procs /\ w \in Tracked
  BY DEF Procs, Tracked
<1>2. Len(Program[w]) = 4 /\ Program[w][1][Hub] = getInstances(Used) /\ Hub \in Chains
  BY TesterProgram, HubIsAChain
<1>3. ASSUME NEW n \in ToSet(Used)
      PROVE  n \in stored[w]
  <2>1. PICK k \in 1 .. Len(Used) : n = Used[k]
    BY UsedNodes DEF ToSet
  <2>2. Len(Used) \in Nat
    BY UsedNodes
  <2> DEFINE L == getInstances(Used)
             j == 4 * (k - 1) + 4
  <2>3. Len(L) = 4 * Len(Used) /\ L[j] = read("instances.set", n)
    BY <2>1, <2>2, InstancesAt
  <2>4. j \in 1 .. 4 * Len(Used)
    BY <2>2
  <2>5. Passed(w, 1, Hub, j)
    BY <1>1, PassedBeyond
  <2> HIDE DEF L, j
  <2>6. 1 \in 1 .. 4 /\ j \in 1 .. Len(L)
    BY <2>3, <2>4
  <2>7. SeenTo(w, L[j])
    BY <1>1, <1>2, <2>5, <2>6 DEF Done, L
  <2> QED  BY <2>3, <2>7, StepFields DEF SeenTo
<1> QED  BY <1>3 DEF Singletons

\* After the second.
LEMMA NodesReady ==
  ASSUME SuiteInOrder, StateTyped, Done, Singletons, NEW w \in Testers, Beyond(w, 2), NEW n \in ToSet(Used)
  PROVE  /\ <<n, "PRIVACY_NODE_OPERATOR", operatorWallet(w)>> \in members
         /\ <<n, "BANK_EMPLOYEE", bankEmployeeWallet(w)>> \in members
<1>1. w \in Procs /\ w \in Tracked /\ n \in Chains /\ stage[w] \in Nat
  BY UsedNodes, HubIsAChain DEF Procs, Tracked, StateTyped
<1>2. n \in configured
  BY <1>1, UsedReady DEF Beyond
<1> DEFINE L == grantOperatorRole(n, w) \o grantBankEmployeeRole(n, w)
<1>3. Len(Program[w]) = 4 /\ Program[w][2][n] = L
  BY <1>1, TesterProgram
<1>4. /\ Len(L) = 4
      /\ L[2] = send("grantRole", n, "PRIVACY_NODE_OPERATOR", operatorWallet(w), adminWallet(w))
      /\ L[4] = send("grantRole", n, "BANK_EMPLOYEE", bankEmployeeWallet(w), operatorWallet(w))
  BY NodeLane
<1> HIDE DEF L
<1>5. Passed(w, 2, n, 2) /\ Passed(w, 2, n, 4)
  BY <1>1, PassedBeyond
<1>6. SeenTo(w, L[2]) /\ SeenTo(w, L[4])
  <2>1. 2 \in 1 .. 4 /\ 4 \in 1 .. 4
    OBVIOUS
  <2> QED  BY <1>1, <1>3, <1>4, <1>5, <2>1 DEF Done
<1> QED  BY <1>2, <1>4, <1>6, StepFields DEF SeenTo

\* After the third.
LEMMA HubReady ==
  ASSUME SuiteInOrder, StateTyped, Done, Seeded, NEW w \in Testers, Beyond(w, 3)
  PROVE  /\ Hub \in stored[w] /\ mapped
         /\ <<Hub, "PRIVATE_NETWORK_OPERATOR", operatorWallet(w)>> \in members
         /\ <<Hub, "COMPLIANCE_OFFICER", complianceWallet(w)>> \in members
         /\ \A n \in ToSet(Used) : replica[n] = "active"
<1>1. w \in Procs /\ w \in Tracked /\ Hub \in Chains /\ Hub \in configured
  BY HubIsAChain DEF Procs, Tracked, Seeded
<1> DEFINE L == hubLane(w)
<1>2. Len(Program[w]) = 4 /\ Program[w][3][Hub] = L
  BY <1>1, TesterProgram
<1>3. /\ Len(L) = 11 /\ L[1] = awaitReplicas /\ L[5] = read("instances.set", Hub)
      /\ L[7] = send("grantRole", Hub, "PRIVATE_NETWORK_OPERATOR", operatorWallet(w), adminWallet(w))
      /\ L[9] = send("grantRole", Hub, "COMPLIANCE_OFFICER", complianceWallet(w), operatorWallet(w))
      /\ L[11] = mapSelectors(w)
  BY HubLane
<1> HIDE DEF L
<1>4. \A j \in 1 .. 11 : SeenTo(w, L[j])
  <2>1. \A j \in 1 .. 11 : Passed(w, 3, Hub, j)
    BY <1>1, PassedBeyond
  <2>2. 3 \in 1 .. 4
    OBVIOUS
  <2> QED  BY <1>1, <1>2, <1>3, <2>1, <2>2 DEF Done
<1>5. SeenTo(w, L[1]) /\ SeenTo(w, L[5]) /\ SeenTo(w, L[7]) /\ SeenTo(w, L[9]) /\ SeenTo(w, L[11])
  BY <1>4
<1>6. \A n \in ToSet(Used) : replica[n] = "active"
  BY <1>3, <1>5, SeekFields DEF SeenTo
<1>7. Hub \in stored[w] /\ mapped
  BY <1>3, <1>5, SeekFields, StepFields DEF SeenTo
<1>8. /\ <<Hub, "PRIVATE_NETWORK_OPERATOR", operatorWallet(w)>> \in members
      /\ <<Hub, "COMPLIANCE_OFFICER", complianceWallet(w)>> \in members
  BY <1>1, <1>3, <1>5, StepFields DEF SeenTo
<1> QED  BY <1>6, <1>7, <1>8

\* Which role administers which.
LEMMA RolesAdmins ==
  /\ AdminOf["ADMIN"] = "ADMIN" /\ AdminOf["PRIVACY_NODE_OPERATOR"] = "ADMIN"
  /\ AdminOf["BANK_EMPLOYEE"] = "PRIVACY_NODE_OPERATOR"
  /\ AdminOf["PRIVATE_NETWORK_OPERATOR"] = "ADMIN"
  /\ AdminOf["COMPLIANCE_OFFICER"] = "PRIVATE_NETWORK_OPERATOR"
BY DEF AdminOf

\* Every grant of the bootstrap is the seed wallet's, of the admin role.
LEMMA BootGrants ==
  ASSUME NEW c, NEW j \in 1 .. Len(bootstrapNode(c)), bootstrapNode(c)[j].op = "grantRole"
  PROVE  /\ bootstrapNode(c)[j].role = "ADMIN" /\ bootstrapNode(c)[j].by = seed
         /\ bootstrapNode(c)[j].on = c
<1> DEFINE L == bootstrapNode(c)
           n == Len(WorkerSlots)
<1>1. /\ L \in Seq(ToSet(L)) /\ Len(L) = 2 * n + 1
      /\ L[1] = seekProxy(c)
      /\ \A k \in 1 .. n :
           /\ L[2 * k] = seekRole(c, "ADMIN", adminWallet(WorkerSlots[k]))
           /\ L[2 * k + 1] = send("grantRole", c, "ADMIN", adminWallet(WorkerSlots[k]), seed)
  BY BootAt
<1> HIDE DEF L
<1>2. n \in Nat /\ Len(L) = 2 * n + 1 /\ j \in 1 .. Len(L) /\ L[j].op = "grantRole"
  BY <1>1, SlotsTyped DEF L
<1>3. j = 1 \/ j - 1 \in 1 .. 2 * n
  BY <1>2
<1>4. CASE j = 1
  <2>1. L[1].op = "noProxy"
    BY <1>1, SeekFields
  <2> QED  BY <1>2, <1>4, <2>1
<1>5. CASE j - 1 \in 1 .. 2 * n
  <2>1. PICK k \in 1 .. n, i \in {1, 2} : j - 1 = 2 * (k - 1) + i
    BY <1>2, <1>5, TwoEach
  <2>2. j = 2 * k \/ j = 2 * k + 1
    BY <2>1
  <2>3. \/ L[j] = seekRole(c, "ADMIN", adminWallet(WorkerSlots[k]))
        \/ L[j] = send("grantRole", c, "ADMIN", adminWallet(WorkerSlots[k]), seed)
    BY <1>1, <2>2
  <2>4. L[j] = send("grantRole", c, "ADMIN", adminWallet(WorkerSlots[k]), seed)
    BY <1>2, <2>3, SeekFields
  <2> QED  BY <2>4, StepFields DEF L
<1> QED  BY <1>3, <1>4, <1>5

\* A tester that has started finds its admin wallet on every chain it may use.
LEMMA AdminHeld ==
  ASSUME SuiteInOrder, StateTyped, Done, Started, NEW w \in Testers, progress[w] # "waiting",
         NEW c \in Chains, c \in configured
  PROVE  <<c, "ADMIN", adminWallet(w)>> \in members
<1>1. progress["boot"] = "returned" /\ w \in Workers
  BY SlotAssumption DEF Started
<1> QED  BY <1>1, AdminsReady

\* What a body relies on is there.
LEMMA Relied ==
  ASSUME SuiteInOrder, StateTyped, InStage, Done, Started, Seeded, Singletons,
         NEW w \in Testers, progress[w] = "running", stage[w] = TestStage,
         NEW j \in 1 .. Len(Body[w]), j = lane[<<w, "awaited">>][Hub],
         NEW role, NEW by, Relies(w, j, role, by)
  PROVE  <<Body[w][j].on, role, by>> \in members
<1> DEFINE L == Body[w]
           c == L[j].on
<1>1. Len(L) \in Nat /\ DOMAIN L = 1 .. Len(L)
  BY LenProperties DEF SuiteInOrder, BodiesInOrder
<1>2. c \in ToSet(Used) \cup {Hub}
  BY <1>1 DEF SuiteInOrder, BodiesInOrder
<1>3. w \in Procs /\ w \in Tracked /\ Hub \in Chains /\ c \in Chains
  BY <1>2, UsedNodes, HubIsAChain DEF Procs, Tracked
<1>4. Beyond(w, 1) /\ Beyond(w, 2) /\ Beyond(w, 3)
  BY DEF Beyond, TestStage
<1>5. c \in configured
  BY <1>2, <1>4, UsedReady DEF Seeded
<1>6. CASE <<role, by>> \in Held(c, w)
  <2>1. <<c, "ADMIN", adminWallet(w)>> \in members
    BY <1>3, <1>5, AdminHeld
  <2>2. c = Hub => /\ <<c, "PRIVATE_NETWORK_OPERATOR", operatorWallet(w)>> \in members
                   /\ <<c, "COMPLIANCE_OFFICER", complianceWallet(w)>> \in members
    BY <1>4, HubReady
  <2>3. c # Hub => /\ <<c, "PRIVACY_NODE_OPERATOR", operatorWallet(w)>> \in members
                   /\ <<c, "BANK_EMPLOYEE", bankEmployeeWallet(w)>> \in members
    BY <1>2, <1>4, NodesReady
  <2> HIDE DEF c
  <2>4. \/ role = "ADMIN" /\ by = adminWallet(w)
        \/ c = Hub /\ role = "PRIVATE_NETWORK_OPERATOR" /\ by = operatorWallet(w)
        \/ c = Hub /\ role = "COMPLIANCE_OFFICER" /\ by = complianceWallet(w)
        \/ c # Hub /\ role = "PRIVACY_NODE_OPERATOR" /\ by = operatorWallet(w)
        \/ c # Hub /\ role = "BANK_EMPLOYEE" /\ by = bankEmployeeWallet(w)
    BY <1>6 DEF Held
  <2>5. <<c, role, by>> \in members
    BY <2>1, <2>2, <2>3, <2>4
  <2> QED  BY <2>5 DEF c
<1>7. CASE ~ <<role, by>> \in Held(c, w)
  <2>1. PICK i \in 1 .. j - 1 : /\ L[i].op = "grantRole" /\ L[i].on = c
                                /\ L[i].role = role /\ L[i].to = by
    BY <1>7 DEF Relies
  <2>2. i \in 1 .. Len(L) /\ i < j
    BY <1>1
  <2>3. Len(Program[w]) = 4 /\ Program[w][4][Hub] = L
    BY <1>3, TesterProgram
  <2>4. Passed(w, 4, Hub, i)
    BY <2>2 DEF Passed, TestStage
  <2>5. 4 \in 1 .. 4
    OBVIOUS
  <2>6. SeenTo(w, L[i])
    BY <1>3, <2>2, <2>3, <2>4, <2>5 DEF Done
  <2> QED  BY <1>5, <2>1, <2>6 DEF SeenTo
<1> QED  BY <1>6, <1>7

\* The hazard of the setup: whatever a thread is about to send is accepted.
LEMMA Accepted ==
  ASSUME SuiteInOrder, StateTyped, InStage, Done, Strays, Started, Seeded, Singletons,
         NEW t \in Threads, NEW c \in Chains, Runs(t, c), At(t, c).kind = "send"
  PROVE  Accepts(At(t, c))
<1> DEFINE p == t[1]
           k == stageOf(t)
           L == stepsOf(t, c)
           j == lane[t][c]
           s == At(t, c)
<1>1. /\ p \in Procs /\ (t[2] = "stray" => p \in Testers) /\ k \in 1 .. Len(Program[p])
      /\ (t[2] # "stray" => t[2] = "awaited" /\ progress[p] = "running")
      /\ Len(L) \in Nat /\ j \in 1 .. Len(L) /\ s = L[j] /\ Proper(s)
  BY Position DEF Fits
<1>2. s.op \in Sends
  <2>1. s.kind = "send" /\ Proper(s)
    BY <1>1
  <2> HIDE DEF s
  <2> QED  BY <2>1 DEF Proper
<1>3. j \in 1 .. Len(Program[p][k][c]) /\ s = Program[p][k][c][j]
  BY <1>1 DEF stepsOf
<1>4. CASE s.op \in {"fund", "pay", "sync"}
  BY <1>4 DEF Accepts
<1>5. CASE p \in {"wait", "unfreeze"}
  <2>1. s.op = "sync"
    BY <1>1, <1>3, <1>5, Kinds
  <2> QED  BY <1>4, <2>1
<1>6. CASE p = "boot" /\ s.op \notin {"fund", "pay", "sync"}
  <2>1. /\ Len(Program[p]) = 2
        /\ Program[p][1][c] = bootstrapNode(c) /\ Program[p][2][c] = fundNode(c)
    BY <1>6, BootProgram DEF SuiteInOrder
  <2>2. k = 1 \/ k = 2
    BY <1>1, <2>1
  <2>3. CASE k = 2
    <3>1. j \in 1 .. Len(fundNode(c)) /\ s = fundNode(c)[j]
      BY <1>3, <2>1, <2>3
    <3>2. s.op \in {"balance", "fund"}
      BY <3>1, FundOps DEF Ops
    <3> QED  BY <1>2, <1>6, <3>2 DEF Sends
  <2>4. CASE k = 1
    <3>1. j \in 1 .. Len(bootstrapNode(c)) /\ s = bootstrapNode(c)[j]
      BY <1>3, <2>1, <2>4
    <3>2. s.op \in {"noProxy", "hasRole", "grantRole"}
      BY <3>1, BootOps DEF Ops
    <3>3. s.op = "grantRole"
      BY <1>2, <3>2 DEF Sends
    <3>4. s.role = "ADMIN" /\ s.by = seed /\ s.on = c
      BY <3>1, <3>3, BootGrants
    <3> QED  BY <3>3, <3>4, RolesAdmins DEF Accepts, Seeded
  <2> QED  BY <2>2, <2>3, <2>4
<1>7. CASE p \in Testers /\ s.op \notin {"fund", "pay", "sync"}
  <2>1. /\ Len(Program[p]) = 4
        /\ Program[p][1][c] = IF c = Hub THEN getInstances(Used) ELSE << >>
        /\ Program[p][2][c] = IF c \in ToSet(Used)
                       THEN grantOperatorRole(c, p) \o grantBankEmployeeRole(c, p) ELSE << >>
        /\ Program[p][3][c] = IF c = Hub THEN hubLane(p) ELSE << >>
        /\ Program[p][4][c] = IF c = Hub THEN Body[p] ELSE << >>
    BY <1>7, TesterProgram
  <2>2. Program[p][k][c] # << >>
    <3>1. Len(<< >>) = 0
      BY EmptySeq
    <3>2. Len(Program[p][k][c]) # 0
      BY <1>1 DEF stepsOf
    <3> QED  BY <3>1, <3>2
  <2>3. k = 1 \/ k = 2 \/ k = 3 \/ k = 4
    BY <1>1, <2>1
  <2>4. progress[p] # "waiting"
    <3>1. t[2] = "stray" => t = <<p, "stray">>
      BY ThreadOf
    <3>2. t[2] = "stray" => lane[<<p, "stray">>][c] # 0
      BY <1>1, <3>1
    <3> QED  BY <1>1, <1>7, <3>2 DEF Strays
  <2>5. k # GrantStage => t[2] = "awaited" /\ progress[p] = "running" /\ stage[p] = k /\ t = <<p, "awaited">>
    BY <1>1, ThreadOf DEF stageOf
  <2>6. CASE k = 1
    <3>1. j \in 1 .. Len(getInstances(Used)) /\ s = getInstances(Used)[j]
      BY <1>3, <2>1, <2>2, <2>6
    <3>2. s.op \in Wiring
      BY <3>1, UsedNodes, InstancesOps DEF Ops
    <3> QED  BY <1>2, <3>2 DEF Sends, Wiring
  <2>7. CASE k = 2
    <3> DEFINE G == grantOperatorRole(c, p) \o grantBankEmployeeRole(c, p)
    <3>1. c \in ToSet(Used) /\ Program[p][2][c] = G /\ j \in 1 .. Len(G) /\ s = G[j]
      BY <1>3, <2>1, <2>2, <2>7
    <3>2. /\ Len(G) = 4
          /\ G[1] = seekRole(c, "PRIVACY_NODE_OPERATOR", operatorWallet(p))
          /\ G[2] = send("grantRole", c, "PRIVACY_NODE_OPERATOR", operatorWallet(p), adminWallet(p))
          /\ G[3] = seekRole(c, "BANK_EMPLOYEE", bankEmployeeWallet(p))
          /\ G[4] = send("grantRole", c, "BANK_EMPLOYEE", bankEmployeeWallet(p), operatorWallet(p))
      BY NodeLane
    <3> HIDE DEF G
    <3>3. G[1].kind = "look" /\ G[3].kind = "look" /\ s.kind = "send"
      BY <3>2, SeekFields
    <3>4. j = 2 \/ j = 4
      <4>1. j = 1 \/ j = 2 \/ j = 3 \/ j = 4
        BY <3>1, <3>2
      <4> QED  BY <3>1, <3>3, <4>1
    <3>5. c \in configured
      <4>1. CASE t[2] = "stray"
        <5>1. t = <<p, "stray">>
          BY <4>1, ThreadOf
        <5>2. lane[<<p, "stray">>][c] # 0
          BY <1>1, <5>1
        <5> QED  BY <1>7, <3>1, <5>2 DEF Strays
      <4>2. CASE t[2] # "stray"
        <5>1. Beyond(p, 1)
          BY <1>1, <2>7, <4>2 DEF Beyond, stageOf
        <5> QED  BY <1>7, <3>1, <5>1, UsedReady
      <4> QED  BY <4>1, <4>2
    <3>6. CASE j = 2
      <4>1. <<c, "ADMIN", adminWallet(p)>> \in members
        BY <1>7, <2>4, <3>5, AdminHeld
      <4>2. s.op = "grantRole" /\ s.on = c /\ s.role = "PRIVACY_NODE_OPERATOR" /\ s.by = adminWallet(p)
        BY <3>1, <3>2, <3>6, StepFields
      <4> QED  BY <4>1, <4>2, RolesAdmins DEF Accepts
    <3>7. CASE j = 4
      <4>1. SeenTo(p, G[2])
        <5>1. CASE t[2] = "stray"
          <6>1. t = <<p, "stray">>
            BY <5>1, ThreadOf
          <6>2. 2 \in 1 .. lane[<<p, "stray">>][c] - 1
            BY <3>7, <6>1
          <6>3. SeenTo(p, Program[p][GrantStage][c][2])
            BY <1>7, <6>2 DEF Strays
          <6> QED  BY <3>1, <6>3 DEF GrantStage
        <5>2. CASE t[2] # "stray"
          <6>1. t = <<p, "awaited">> /\ progress[p] = "running" /\ stage[p] = 2
            BY <1>1, <2>7, <5>2, ThreadOf DEF stageOf
          <6>2. Passed(p, 2, c, 2)
            BY <3>7, <6>1 DEF Passed
          <6>3. 2 \in 1 .. 4 /\ p \in Tracked
            BY <1>7 DEF Tracked
          <6> QED  BY <2>1, <3>1, <3>2, <6>2, <6>3 DEF Done
        <5> QED  BY <5>1, <5>2
      <4>2. <<c, "PRIVACY_NODE_OPERATOR", operatorWallet(p)>> \in members
        BY <3>2, <3>5, <4>1, StepFields DEF SeenTo
      <4>3. s.op = "grantRole" /\ s.on = c /\ s.role = "BANK_EMPLOYEE" /\ s.by = operatorWallet(p)
        BY <3>1, <3>2, <3>7, StepFields
      <4> QED  BY <4>2, <4>3, RolesAdmins DEF Accepts
    <3> QED  BY <3>4, <3>6, <3>7
  <2>8. CASE k = 3
    <3> DEFINE G == hubLane(p)
    <3>1. c = Hub /\ Program[p][3][Hub] = G /\ j \in 1 .. Len(G) /\ s = G[j]
      BY <1>3, <2>1, <2>2, <2>8
    <3>2. /\ Len(G) = 11
          /\ G[1] = awaitReplicas
          /\ G[2] = seekInstance(Hub)
          /\ G[3] = read("resolve", Hub) /\ G[4] = read("resolve", Hub)
          /\ G[5] = read("instances.set", Hub)
          /\ G[6] = seekRole(Hub, "PRIVATE_NETWORK_OPERATOR", operatorWallet(p))
          /\ G[7] = send("grantRole", Hub, "PRIVATE_NETWORK_OPERATOR", operatorWallet(p), adminWallet(p))
          /\ G[8] = seekRole(Hub, "COMPLIANCE_OFFICER", complianceWallet(p))
          /\ G[9] = send("grantRole", Hub, "COMPLIANCE_OFFICER", complianceWallet(p), operatorWallet(p))
          /\ G[10] = seekWiring
          /\ G[11] = mapSelectors(p)
      BY HubLane
    <3> HIDE DEF G
    <3>3. /\ G[1].kind = "poll" /\ G[2].kind = "look" /\ G[3].kind = "read" /\ G[4].kind = "read"
          /\ G[5].kind = "read" /\ G[6].kind = "look" /\ G[8].kind = "look" /\ G[10].kind = "look"
      BY <3>2, SeekFields, StepFields
    <3>4. j = 7 \/ j = 9 \/ j = 11
      <4>1. \/ j = 1 \/ j = 2 \/ j = 3 \/ j = 4 \/ j = 5 \/ j = 6
            \/ j = 7 \/ j = 8 \/ j = 9 \/ j = 10 \/ j = 11
        BY <3>1, <3>2
      <4>2. s.kind = "send"
        OBVIOUS
      <4> QED  BY <3>1, <3>3, <4>1, <4>2
    <3>5. <<Hub, "ADMIN", adminWallet(p)>> \in members
      BY <1>7, <2>4, HubIsAChain, AdminHeld DEF Seeded
    <3>6. CASE j = 7
      <4>1. s.op = "grantRole" /\ s.on = Hub /\ s.role = "PRIVATE_NETWORK_OPERATOR" /\ s.by = adminWallet(p)
        BY <3>1, <3>2, <3>6, StepFields
      <4> QED  BY <3>5, <4>1, RolesAdmins DEF Accepts
    <3>7. CASE j = 9
      <4>1. s.op = "grantRole" /\ s.on = Hub /\ s.role = "COMPLIANCE_OFFICER" /\ s.by = operatorWallet(p)
        BY <3>1, <3>2, <3>7, StepFields
      <4>2. Passed(p, 3, Hub, 7)
        BY <2>5, <2>8, <3>1, <3>7 DEF Passed, GrantStage
      <4>3. 3 \in 1 .. 4 /\ 7 \in 1 .. 11 /\ p \in Tracked /\ Hub \in Chains
        BY <1>7, HubIsAChain DEF Tracked
      <4>4. SeenTo(p, G[7])
        BY <2>1, <3>1, <3>2, <4>2, <4>3 DEF Done
      <4>5. <<Hub, "PRIVATE_NETWORK_OPERATOR", operatorWallet(p)>> \in members
        BY <3>2, <4>4, StepFields DEF SeenTo, Seeded
      <4> QED  BY <4>1, <4>5, RolesAdmins DEF Accepts
    <3>8. CASE j = 11
      <4>1. s.op = "mapSelectors" /\ s.on = Hub /\ s.by = adminWallet(p)
        BY <3>1, <3>2, <3>8, SeekFields
      <4> QED  BY <3>5, <4>1 DEF Accepts
    <3> QED  BY <3>4, <3>6, <3>7, <3>8
  <2>9. CASE k = 4
    <3>1. c = Hub /\ j \in 1 .. Len(Body[p]) /\ s = Body[p][j] /\ s = Body[p][lane[<<p, "awaited">>][Hub]]
          /\ progress[p] = "running" /\ stage[p] = TestStage /\ j = lane[<<p, "awaited">>][Hub]
      BY <1>3, <2>1, <2>2, <2>5, <2>9 DEF GrantStage, TestStage
    <3>2. /\ Body[p] \in Seq(ToSet(Body[p]))
          /\ \A i \in DOMAIN Body[p] : Body[p][i].kind = "send" =>
               \/ Body[p][i].op = "grantRole" /\ Relies(p, i, AdminOf[Body[p][i].role], Body[p][i].by)
               \/ Body[p][i].op = "call" /\ Relies(p, i, Body[p][i].role, Body[p][i].by)
               \/ Body[p][i].op = "pay"
      BY <1>7 DEF SuiteInOrder, BodiesInOrder
    <3>3. j \in DOMAIN Body[p]
      BY <3>1, <3>2, LenProperties
    <3>4. \/ s.op = "grantRole" /\ Relies(p, j, AdminOf[s.role], s.by)
          \/ s.op = "call" /\ Relies(p, j, s.role, s.by)
      <4>1. s.kind = "send" /\ s.op # "pay"
        BY <1>7
      <4> HIDE DEF s
      <4> QED  BY <3>1, <3>2, <3>3, <4>1
    <3>5. CASE s.op = "grantRole" /\ Relies(p, j, AdminOf[s.role], s.by)
      <4>1. <<Body[p][j].on, AdminOf[s.role], s.by>> \in members
        BY <1>7, <3>1, <3>5, Relied
      <4> QED  BY <3>1, <3>5, <4>1 DEF Accepts
    <3>6. CASE s.op = "call" /\ Relies(p, j, s.role, s.by)
      <4>1. <<Body[p][j].on, s.role, s.by>> \in members
        BY <1>7, <3>1, <3>6, Relied
      <4>2. mapped
        <5>1. Beyond(p, 3)
          BY <3>1 DEF Beyond, TestStage
        <5> QED  BY <1>7, <5>1, HubReady
      <4> QED  BY <3>1, <3>6, <4>1, <4>2 DEF Accepts
    <3> QED  BY <3>4, <3>5, <3>6
  <2> QED  BY <2>3, <2>6, <2>7, <2>8, <2>9
<1> QED  BY <1>1, <1>4, <1>5, <1>6, <1>7 DEF Procs, Scripts

\* Every step of every program is one of its kind.
LEMMA ProperAt ==
  ASSUME SuiteInOrder, NEW p \in Procs, NEW k \in 1 .. Len(Program[p]), NEW c \in Chains,
         NEW j \in 1 .. Len(Program[p][k][c])
  PROVE  Proper(Program[p][k][c][j])
BY Lanes DEF Sound, Fits

\* What a thread may send, now or later.
LEMMA SendTyped ==
  ASSUME SuiteInOrder, StateTyped, InStage, NEW t \in Threads, NEW c \in Chains, Runs(t, c)
  PROVE  LET s == At(t, c) IN
         /\ Proper(s)
         /\ s.op = "pay" => t[1] \in Testers /\ t[2] = "awaited" /\ progress[t[1]] = "running"
<1> DEFINE p == t[1]
           k == stageOf(t)
           L == stepsOf(t, c)
           j == lane[t][c]
           s == At(t, c)
<1>1. /\ p \in Procs /\ (t[2] = "stray" => p \in Testers) /\ k \in 1 .. Len(Program[p])
      /\ (t[2] # "stray" => t[2] = "awaited" /\ progress[p] = "running")
      /\ j \in 1 .. Len(L) /\ s = L[j] /\ Proper(s)
  BY Position DEF Fits
<1>2. j \in 1 .. Len(Program[p][k][c]) /\ s = Program[p][k][c][j]
  BY <1>1 DEF stepsOf
<1>3. s.op = "pay" => p \in Testers /\ k = TestStage
  BY <1>1, <1>2, Kinds
<1>4. k = TestStage => t[2] # "stray"
  BY DEF stageOf, GrantStage, TestStage
<1> QED  BY <1>1, <1>3, <1>4

\* A look that finds what it asks for has found what the spared steps are for.
LEMMA FoundHolds ==
  ASSUME SuiteInOrder, StateTyped, InStage, Done, Singletons,
         NEW t \in Threads, NEW c \in Chains, Runs(t, c), t[1] \in Tracked,
         At(t, c).kind = "look", Finds(t[1], At(t, c)),
         NEW m \in lane[t][c] + 1 .. lane[t][c] + At(t, c).skip
  PROVE  SeenTo(t[1], stepsOf(t, c)[m])
<1> DEFINE p == t[1]
           k == stageOf(t)
           L == stepsOf(t, c)
           j == lane[t][c]
           s == At(t, c)
<1>1. /\ p \in Procs /\ k \in 1 .. Len(Program[p])
      /\ (t[2] # "stray" => t[2] = "awaited" /\ progress[p] = "running")
      /\ Len(L) \in Nat /\ j \in 1 .. Len(L) /\ s = L[j] /\ Fits(L, j)
  BY Position
<1>2. Proper(s) /\ Spares(s, L[m])
  BY <1>1 DEF Fits, Skips
<1>3. j \in 1 .. Len(Program[p][k][c]) /\ s = Program[p][k][c][j] /\ L = Program[p][k][c]
  BY <1>1 DEF stepsOf
<1>4. s.op \in Looks
  <2>1. s.kind = "look" /\ Proper(s)
    BY <1>2
  <2> HIDE DEF s
  <2> QED  BY <2>1 DEF Proper
<1>5. /\ s.op \in Wiring => p \in Testers
      /\ s.op = "unwired" =>
           /\ p \in Testers /\ c = Hub /\ j = 10 /\ Len(L) > 5
           /\ L[5].op = "instances.set" /\ L[5].on = Hub
      /\ p \in Testers /\ k = GrantStage => s.op \in {"hasRole", "grantRole"}
  <2> DEFINE M == Program[p][k][c]
  <2>1. p \in Procs /\ k \in 1 .. Len(Program[p]) /\ j \in 1 .. Len(M) /\ p \in Tracked
    BY <1>1, <1>3
  <2>2. /\ p \in Tracked /\ M[j].op \in Wiring => p \in Testers
        /\ M[j].op = "unwired" =>
             /\ p \in Testers /\ c = Hub /\ j = 10 /\ Len(M) > 5
             /\ M[5].op = "instances.set" /\ M[5].on = Hub
        /\ p \in Testers /\ k = GrantStage => M[j].op \in {"hasRole", "grantRole"}
    <3> HIDE DEF k, j, p
    <3>1. /\ p \in Tracked /\ M[j].op \in Wiring => p \in Testers
      BY <2>1, Kinds
    <3>2. M[j].op = "unwired" =>
             /\ p \in Testers /\ c = Hub /\ j = 10 /\ Len(M) > 5
             /\ M[5].op = "instances.set" /\ M[5].on = Hub
      BY <2>1, Kinds
    <3>3. p \in Testers /\ k = GrantStage => M[j].op \in {"hasRole", "grantRole"}
      BY <2>1, Kinds
    <3> QED  BY <3>1, <3>2, <3>3
  <2>3. s = M[j] /\ L = M
    BY <1>3
  <2> HIDE DEF M, s, L, k, j, p
  <2> QED  BY <2>1, <2>2, <2>3
<1>6. s.op # "unwired"
  <2>1. SUFFICES ASSUME s.op = "unwired"
                 PROVE  FALSE
    OBVIOUS
  <2>2. wired[p][Hub] = 0
    BY <2>1 DEF Finds
  <2>3. /\ p \in Testers /\ c = Hub /\ j = 10 /\ Len(L) > 5
        /\ L[5].op = "instances.set" /\ L[5].on = Hub /\ k # GrantStage
    BY <1>5, <2>1
  <2>4. t[2] = "awaited" /\ progress[p] = "running" /\ stage[p] = k /\ t = <<p, "awaited">>
    BY <1>1, <2>3, ThreadOf DEF stageOf
  <2>5. Passed(p, k, c, 5)
    BY <2>3, <2>4 DEF Passed
  <2>6. 5 \in 1 .. Len(L)
    BY <1>1, <2>3
  <2>7. SeenTo(p, L[5])
    BY <1>1, <1>3, <2>5, <2>6 DEF Done
  <2>8. Hub \in stored[p]
    BY <2>3, <2>7 DEF SeenTo
  <2> QED  BY <2>2, <2>3, <2>8 DEF Singletons
<1> HIDE DEF s, L, j, k
<1>7. CASE s.op = "instances.has"
  <2>1. s.on \in stored[p] /\ p \in Testers
    BY <1>5, <1>7 DEF Finds, s, Wiring
  <2>2. s.on \in configured
    BY <2>1 DEF Singletons
  <2> QED  BY <1>2, <1>7, <2>1, <2>2 DEF Spares, SeenTo, L
<1>8. CASE s.op = "hasRole"
  <2>1. <<s.on, s.role, s.to>> \in members
    BY <1>8 DEF Finds, s
  <2> QED  BY <1>2, <1>8, <2>1 DEF Spares, SeenTo, L
<1>9. CASE s.op = "balance"
  <2>1. balance[s.on][s.to[1]] >= FundMin
    BY <1>9 DEF Finds, s
  <2> QED  BY <1>2, <1>9, <2>1 DEF Spares, SeenTo, L
<1>10. CASE s.op = "noProxy"
  <2>1. s.on \notin configured
    BY <1>10 DEF Finds, s
  <2> QED  BY <1>2, <1>10, <2>1 DEF Spares, SeenTo, L
<1>11. CASE s.op = "allActive"
  BY <1>2, <1>11 DEF Spares, SeenTo, L
<1> QED  BY <1>4, <1>6, <1>7, <1>8, <1>9, <1>10, <1>11 DEF Looks

\* A look tells nothing of its own.
LEMMA LookHolds ==
  ASSUME NEW p, NEW s, Proper(s), s.kind = "look"
  PROVE  SeenTo(p, s)
BY DEF Proper, SeenTo, Looks

(***************************************************************************)
(* A thread goes on                                                        *)
(***************************************************************************)
\* A thread that goes on moves on its own chain only.
LEMMA AdvanceMoves ==
  ASSUME SuiteInOrder, StateTyped, InStage, NEW t \in Threads, NEW c \in Chains, Runs(t, c),
         NEW n \in Nat, Advance(t, c, n), lane[t][c] + n <= Len(stepsOf(t, c)) + 1
  PROVE  /\ lane' \in [Threads -> [Chains -> Nat]] /\ progress' = progress /\ stage' = stage
         /\ \A u \in Threads, d \in Chains : (u # t \/ d # c) => lane'[u][d] = lane[u][d]
         /\ t[2] = "awaited" => lane'[t][c] = lane[t][c] + n
         /\ t[2] = "stray" => lane'[t][c] = IF lane[t][c] + n > Len(stepsOf(t, c)) THEN 0 ELSE lane[t][c] + n
<1>1. Lane(t, c) = stepsOf(t, c)
  BY Position
<1>2. lane \in [Threads -> [Chains -> Nat]] /\ lane[t] \in [Chains -> Nat] /\ lane[t][c] \in Nat
  BY DEF StateTyped
<1> DEFINE new == IF t[2] = "stray" /\ lane[t][c] + n > Len(stepsOf(t, c)) THEN 0 ELSE lane[t][c] + n
<1>3. lane' = [lane EXCEPT ![t][c] = new] /\ progress' = progress /\ stage' = stage
  BY <1>1 DEF Advance
<1>4. new \in Nat
  BY <1>2
<1>5. /\ t[2] = "awaited" => new = lane[t][c] + n
      /\ t[2] = "stray" => new = IF lane[t][c] + n > Len(stepsOf(t, c)) THEN 0 ELSE lane[t][c] + n
  OBVIOUS
<1> HIDE DEF new
<1>6. /\ lane' \in [Threads -> [Chains -> Nat]] /\ lane'[t][c] = new
      /\ \A u \in Threads, d \in Chains : (u # t \/ d # c) => lane'[u][d] = lane[u][d]
  BY <1>2, <1>3, <1>4
<1> QED  BY <1>3, <1>5, <1>6

\* A thread that goes on by steps that have been seen to keeps the positions, what
\* has been passed, the strays and the order of bootstrap and tests.
LEMMA AdvanceKeeps ==
  ASSUME SuiteInOrder, StateTyped, StateTyped', InStage, Done, Strays, Started,
         NEW t \in Threads, NEW c \in Chains, Runs(t, c),
         NEW n \in Nat, Advance(t, c, n), lane[t][c] + n <= Len(stepsOf(t, c)) + 1,
         Grows, \A p \in Procs : Keeps(p), NEW L, L = stepsOf(t, c),
         t[1] \in Tracked => \A m \in lane[t][c] .. lane[t][c] + n - 1 : SeenTo(t[1], L[m])'
  PROVE  InStage' /\ Done' /\ Strays' /\ Started'
<1> DEFINE p == t[1]
           k == stageOf(t)
           j == lane[t][c]
<1>1. /\ p \in Procs /\ (t[2] = "stray" => p \in Testers) /\ k \in 1 .. Len(Program[p])
      /\ (t[2] # "stray" => t[2] = "awaited" /\ progress[p] = "running")
      /\ Len(L) \in Nat /\ j \in 1 .. Len(L)
  BY Position
<1>2. /\ progress' = progress /\ stage' = stage
      /\ \A u \in Threads, d \in Chains : (u # t \/ d # c) => lane'[u][d] = lane[u][d]
      /\ t[2] = "awaited" => lane'[t][c] = j + n
      /\ t[2] = "stray" => lane'[t][c] = IF j + n > Len(L) THEN 0 ELSE j + n
  BY AdvanceMoves
<1>3. /\ \A q \in Procs : <<q, "awaited">> \in Threads
      /\ \A q \in Testers : <<q, "stray">> \in Threads
      /\ Testers \subseteq Procs
  BY DEF Threads, Procs
<1>4. \/ t[2] = "awaited" /\ t = <<p, "awaited">> /\ k = stage[p]
      \/ t[2] = "stray" /\ t = <<p, "stray">> /\ p \in Testers /\ k = GrantStage
  BY ThreadOf DEF stageOf
<1>5. L = Program[p][k][c]
  BY DEF stepsOf
<1>6. InStage'
  <2>1. ASSUME NEW q \in Procs, NEW d \in Chains
        PROVE  lane'[<<q, "awaited">>][d] \in 1 .. Len(Program[q][stage[q]][d]) + 1
    <3>1. CASE <<q, "awaited">> = t /\ d = c
      <4>1. q = p /\ t[2] = "awaited" /\ L = Program[q][stage[q]][d]
        BY <1>4, <1>5, <3>1
      <4>2. j + n \in 1 .. Len(L) + 1
        BY <1>1
      <4> QED  BY <1>2, <3>1, <4>1, <4>2
    <3>2. CASE <<q, "awaited">> # t \/ d # c
      BY <1>2, <1>3, <3>2 DEF InStage
    <3> QED  BY <3>1, <3>2
  <2>2. ASSUME NEW q \in Procs, progress[q] # "running"
        PROVE  stage[q] = 1 /\ \A d \in Chains : lane'[<<q, "awaited">>][d] = 1
    <3>1. <<q, "awaited">> # t
      <4>1. <<q, "awaited">> = t => q = p /\ t[2] = "awaited"
        BY <1>4
      <4> QED  BY <1>1, <2>2, <4>1
    <3> QED  BY <1>2, <1>3, <2>2, <3>1 DEF InStage
  <2> QED  BY <1>2, <2>1, <2>2 DEF InStage
<1>7. Done'
  <2>1. SUFFICES ASSUME NEW q \in Tracked, NEW h \in 1 .. Len(Program[q]), NEW d \in Chains,
                        NEW i \in 1 .. Len(Program[q][h][d]), Passed(q, h, d, i)'
                 PROVE  SeenTo(q, Program[q][h][d][i])'
    BY DEF Done
  <2>2. q \in Procs
    BY DEF Tracked, Procs, Scripts
  <2>3. CASE Passed(q, h, d, i)
    <3>1. SeenTo(q, Program[q][h][d][i]) /\ Proper(Program[q][h][d][i]) /\ Keeps(q)
      BY <2>2, <2>3, ProperAt DEF Done
    <3> QED  BY <3>1, HoldsStays
  <2>4. CASE ~ Passed(q, h, d, i)
    <3>1. /\ progress[q] = "running" /\ h = stage[q]
          /\ i < lane'[<<q, "awaited">>][d] /\ ~ i < lane[<<q, "awaited">>][d]
      BY <1>2, <2>1, <2>4 DEF Passed
    <3>2. t = <<q, "awaited">> /\ d = c
      BY <1>2, <1>3, <2>2, <3>1
    <3>3. q = p /\ t[2] = "awaited" /\ h = k
      BY <1>4, <3>1, <3>2
    <3>4. i \in j .. j + n - 1
      BY <1>1, <1>2, <3>1, <3>2, <3>3
    <3>5. Program[q][h][d] = L
      BY <1>5, <3>2, <3>3
    <3> QED  BY <3>3, <3>4, <3>5
  <2> QED  BY <2>3, <2>4
<1>8. Strays'
  <2>1. ASSUME NEW q \in Testers, NEW d \in Chains
        PROVE  /\ lane'[<<q, "stray">>][d] \in 0 .. Len(Program[q][GrantStage][d])
               /\ lane'[<<q, "stray">>][d] # 0 => progress'[q] # "waiting" /\ ToSet(Used) \subseteq configured'
    <3>1. CASE <<q, "stray">> = t /\ d = c
      <4>1. q = p /\ t[2] = "stray" /\ L = Program[q][GrantStage][d]
        BY <1>4, <1>5, <3>1
      <4>2. lane'[t][c] \in 0 .. Len(L)
        <5>1. lane'[t][c] = IF j + n > Len(L) THEN 0 ELSE j + n
          BY <1>2, <4>1
        <5> HIDE DEF j
        <5> QED  BY <1>1, <5>1
      <4>3. lane[<<q, "stray">>][d] # 0
        BY <1>1, <3>1
      <4> QED  BY <1>2, <3>1, <4>1, <4>2, <4>3 DEF Strays, Grows
    <3>2. CASE <<q, "stray">> # t \/ d # c
      BY <1>2, <1>3, <3>2 DEF Strays, Grows
    <3> QED  BY <3>1, <3>2
  <2>2. ASSUME NEW q \in Testers, NEW d \in Chains, NEW i \in 1 .. lane'[<<q, "stray">>][d] - 1
        PROVE  SeenTo(q, Program[q][GrantStage][d][i])'
    <3>1. q \in Procs /\ Len(Program[q]) = 4 /\ Len(Program[q][GrantStage][d]) \in Nat
      <4>1. q \in Procs /\ Len(Program[q]) = 4
        BY <1>3, TesterProgram
      <4> QED  BY <4>1, Lanes DEF GrantStage
    <3>2. i \in 1 .. Len(Program[q][GrantStage][d])
      BY <2>1, <3>1
    <3>3. Proper(Program[q][GrantStage][d][i]) /\ Keeps(q)
      <4>1. GrantStage \in 1 .. Len(Program[q])
        BY <3>1 DEF GrantStage
      <4> QED  BY <3>1, <3>2, <4>1, ProperAt
    <3>4. CASE i \in 1 .. lane[<<q, "stray">>][d] - 1
      <4>1. SeenTo(q, Program[q][GrantStage][d][i])
        BY <3>4 DEF Strays
      <4> QED  BY <3>3, <4>1, HoldsStays
    <3>5. CASE ~ i \in 1 .. lane[<<q, "stray">>][d] - 1
      <4>1. <<q, "stray">> = t /\ d = c
        BY <1>2, <1>3, <2>2, <3>5
      <4>2. q = p /\ t[2] = "stray" /\ L = Program[q][GrantStage][d]
        BY <1>4, <1>5, <4>1
      <4>3. i \in j .. j + n - 1
        <5>1. lane'[t][c] = IF j + n > Len(L) THEN 0 ELSE j + n
          BY <1>2, <4>2
        <5>2. i \in 1 .. lane'[t][c] - 1 /\ ~ i \in 1 .. j - 1
          BY <2>2, <3>5, <4>1
        <5> HIDE DEF j
        <5>3. j \in Nat
          BY <1>1
        <5> QED  BY <5>1, <5>2, <5>3
      <4>4. q \in Tracked
        BY DEF Tracked
      <4> QED  BY <4>2, <4>3, <4>4
    <3> QED  BY <3>4, <3>5
  <2> QED  BY <2>1, <2>2 DEF Strays
<1>9. Started'
  BY <1>2 DEF Started
<1> QED  BY <1>6, <1>7, <1>8, <1>9

\* A step that wires nothing comes to no half-wired instance.
LEMMA WiringIdle ==
  ASSUME SuiteInOrder, StateTyped, InStage, Singletons, HalfWired,
         NEW t \in Threads, NEW c \in Chains, Runs(t, c),
         NEW n \in Nat, Advance(t, c, n), lane[t][c] + n <= Len(stepsOf(t, c)) + 1,
         stored' = stored, wired' = wired, configured' = configured,
         n > 0 => stepsOf(t, c)[lane[t][c] + n - 1].op \notin {"instances.has", "resolve"}
  PROVE  Singletons' /\ HalfWired'
<1>1. Singletons'
  BY DEF Singletons
<1>2. /\ progress' = progress /\ stage' = stage
      /\ \A u \in Threads, d \in Chains : (u # t \/ d # c) => lane'[u][d] = lane[u][d]
      /\ t[2] = "awaited" => lane'[t][c] = lane[t][c] + n
  BY AdvanceMoves
<1>3. ASSUME NEW w \in Testers, progress[w] = "running", NEW L, L = Program[w][stage[w]][Hub],
             NEW i, i = lane'[<<w, "awaited">>][Hub], i <= Len(L)
      PROVE  /\ L[i].op = "resolve" =>
                  /\ L[i].on \notin stored[w]
                  /\ wired[w][L[i].on] = IF L[i - 1].op = "resolve" THEN 1 ELSE 0
             /\ L[i].op = "instances.set" => L[i].on \notin stored[w] /\ wired[w][L[i].on] = 2
  <2>1. <<w, "awaited">> \in Threads /\ w \in Procs /\ Hub \in Chains
    BY HubIsAChain DEF Threads, Procs
  <2>2. CASE i = lane[<<w, "awaited">>][Hub]
    BY <1>3, <2>2 DEF HalfWired
  <2>3. CASE i # lane[<<w, "awaited">>][Hub]
    <3>1. t = <<w, "awaited">> /\ c = Hub
      BY <1>2, <1>3, <2>1, <2>3
    <3>2. t[1] = w /\ t[2] = "awaited" /\ stepsOf(t, c) = L
      BY <1>3, <3>1 DEF stepsOf, stageOf
    <3>3. lane[t][c] \in 1 .. Len(L) /\ Len(L) \in Nat /\ Sound(L)
      BY <3>2, Position
    <3>4. i = lane[t][c] + n
      BY <1>2, <1>3, <3>1, <3>2
    <3>5. n > 0
      BY <2>3, <3>1, <3>3, <3>4
    <3>6. i \in 1 .. Len(L)
      BY <1>3, <3>3, <3>4
    <3>7. Fits(L, i)
      BY <3>3, <3>6 DEF Sound
    <3>8. L[i - 1].op \notin {"instances.has", "resolve"}
      <4>1. i - 1 = lane[t][c] + n - 1
        BY <3>3, <3>4
      <4> QED  BY <3>2, <3>5, <4>1
    <3> QED  BY <3>7, <3>8 DEF Fits, Wires
  <2> QED  BY <2>2, <2>3
<1>4. HalfWired'
  <2>1. SUFFICES ASSUME NEW w \in Testers, progress'[w] = "running"
                 PROVE  LET L == Program[w][stage'[w]][Hub] i == lane'[<<w, "awaited">>][Hub] IN
                        i <= Len(L) =>
                          /\ L[i].op = "resolve" =>
                               /\ L[i].on \notin stored'[w]
                               /\ wired'[w][L[i].on] = IF L[i - 1].op = "resolve" THEN 1 ELSE 0
                          /\ L[i].op = "instances.set" => L[i].on \notin stored'[w] /\ wired'[w][L[i].on] = 2
    BY DEF HalfWired
  <2>2. progress[w] = "running" /\ stage'[w] = stage[w]
    BY <1>2, <2>1
  <2> QED  BY <1>3, <2>2
<1> QED  BY <1>1, <1>4

(***************************************************************************)
(* A call throws                                                           *)
(***************************************************************************)
\* What a transaction that is sent and given up leaves behind.
Sendable(S) ==
  \A s \in S : Proper(s) /\ (s.op = "pay" => \E w \in Testers : progress[w] # "waiting")

\* Whatever is under way on the other chains may be sent.
LEMMA InFlightSendable ==
  ASSUME SuiteInOrder, StateTyped, InStage, NEW t \in Threads, NEW c \in Chains
  PROVE  Sendable(InFlight(t, c))
<1> SUFFICES ASSUME NEW d \in Chains, Runs(t, d)
             PROVE  LET s == At(t, d) IN
                    Proper(s) /\ (s.op = "pay" => \E w \in Testers : progress[w] # "waiting")
  BY DEF Sendable, InFlight
<1> QED  BY SendTyped

\* A transaction that is given up is one that may be mined late.
LEMMA StaysPending ==
  ASSUME Pending, NEW S, Sendable(S), loose' \subseteq loose \cup S,
         \A w \in Testers : progress[w] # "waiting" => progress'[w] # "waiting"
  PROVE  Pending'
BY DEF Pending, Sendable, Proper

\* What a throw does to the processes.
LEMMA ThrowMoves ==
  ASSUME SuiteInOrder, StateTyped, InStage, NEW t \in Threads, NEW c \in Chains, Runs(t, c),
         NEW pending, Throw(t, c, pending)
  PROVE  LET p == t[1] IN
         /\ t[2] = "stray" =>
              /\ lane' = [lane EXCEPT ![t][c] = 0] /\ loose' = loose \cup pending
              /\ progress' = progress /\ stage' = stage /\ stored' = stored /\ wired' = wired
         /\ t[2] = "awaited" =>
              /\ progress' = [progress EXCEPT ![p] = "threw"] /\ stage' = [stage EXCEPT ![p] = 1]
              /\ loose' \subseteq loose \cup pending \cup InFlight(t, c)
              /\ p \in Testers => stored' = stored /\ wired' = wired
              /\ p \notin Testers =>
                   /\ stored' = [stored EXCEPT ![p] = {}]
                   /\ wired' = [wired EXCEPT ![p] = [d \in Chains |-> 0]]
              /\ IF p \in Testers /\ stage[p] = GrantStage
                   THEN lane' = [AtStart(t) EXCEPT ![<<p, "stray">>] = [d \in Chains |-> Stray(t, c, d)]]
                   ELSE lane' = AtStart(t)
<1> DEFINE p == t[1]
<1>1. CASE t[2] = "stray"
  <2>1. t[2] # "awaited"
    BY <1>1
  <2> QED  BY <1>1, <2>1 DEF Throw
<1>2. CASE t[2] = "awaited" /\ p \in Testers
  <2>1. /\ lane' = IF stage[p] = GrantStage
              THEN [AtStart(t) EXCEPT ![<<p, "stray">>] = [d \in Chains |-> Stray(t, c, d)]]
              ELSE AtStart(t)
        /\ loose' = loose \cup pending /\ Ends(p, "threw")
    BY <1>2 DEF Throw
  <2>2. t[2] # "stray"
    BY <1>2
  <2> QED  BY <1>2, <2>1, <2>2 DEF Ends
<1>3. CASE t[2] = "awaited" /\ p \notin Testers
  <2>1. /\ \E sent \in SUBSET InFlight(t, c) : loose' = loose \cup pending \cup sent
        /\ lane' = AtStart(t) /\ Ends(p, "threw")
    BY <1>3 DEF Throw
  <2>2. t[2] # "stray"
    BY <1>3
  <2>3. loose' \subseteq loose \cup pending \cup InFlight(t, c)
    BY <2>1
  <2> QED  BY <1>3, <2>1, <2>2, <2>3 DEF Ends
<1> QED  BY <1>1, <1>2, <1>3, ThreadOf

\* What a process's step may do to the chains.
ChainsGrow ==
  /\ configured' = configured /\ replica' = replica
  /\ members \subseteq members' /\ (mapped => mapped')
  /\ balance' \in [Chains -> [Workers -> Nat]]
  /\ \/ \E w \in Testers : progress[w] # "waiting"
     \/ \A c \in Chains, w \in Workers : balance'[c][w] >= balance[c][w]

\* A throw, process by process and lane by lane.
LEMMA ThrowTyped ==
  ASSUME SuiteInOrder, StateTyped, InStage, NEW t \in Threads, NEW c \in Chains, Runs(t, c),
         NEW pending, Throw(t, c, pending), ChainsGrow
  PROVE  /\ StateTyped' /\ Grows /\ \A p \in Procs : p # t[1] \/ p \in Testers => stored'[p] = stored[p] /\ wired'[p] = wired[p]
         /\ \A u \in Threads, d \in Chains : u[1] # t[1] => lane'[u][d] = lane[u][d]
         /\ t[2] = "awaited" =>
              /\ \A p \in Procs : p # t[1] => progress'[p] = progress[p] /\ stage'[p] = stage[p]
              /\ progress'[t[1]] = "threw" /\ stage'[t[1]] = 1
              /\ \A d \in Chains : lane'[t][d] = 1
              /\ t[1] \in Testers => \A d \in Chains :
                   lane'[<<t[1], "stray">>][d] = IF stage[t[1]] = GrantStage THEN Stray(t, c, d)
                                                 ELSE lane[<<t[1], "stray">>][d]
<1> DEFINE p == t[1]
           a == <<p, "awaited">>
           y == <<p, "stray">>
<1>1. /\ p \in Procs /\ t \in Threads
      /\ \/ t[2] = "awaited" /\ t = a /\ t[2] # "stray"
         \/ t[2] = "stray" /\ t = y /\ p \in Testers /\ t[2] # "awaited"
      /\ a # y
  BY ThreadOf
<1>2. /\ progress \in [Procs -> {"waiting", "running", "returned", "threw"}]
      /\ stage \in [Procs -> Nat] /\ lane \in [Threads -> [Chains -> Nat]]
      /\ stored \in [Procs -> SUBSET Chains] /\ wired \in [Procs -> [Chains -> Nat]]
  BY DEF StateTyped
<1>3. /\ t[2] = "stray" =>
           /\ lane' = [lane EXCEPT ![t][c] = 0]
           /\ progress' = progress /\ stage' = stage /\ stored' = stored /\ wired' = wired
      /\ t[2] = "awaited" =>
           /\ progress' = [progress EXCEPT ![p] = "threw"] /\ stage' = [stage EXCEPT ![p] = 1]
           /\ p \in Testers => stored' = stored /\ wired' = wired
           /\ p \notin Testers =>
                /\ stored' = [stored EXCEPT ![p] = {}]
                /\ wired' = [wired EXCEPT ![p] = [d \in Chains |-> 0]]
           /\ IF p \in Testers /\ stage[p] = GrantStage
                THEN lane' = [AtStart(t) EXCEPT ![y] = [d \in Chains |-> Stray(t, c, d)]]
                ELSE lane' = AtStart(t)
  BY ThrowMoves
<1>4. \A u \in Threads : u[1] # p => u # a /\ u # y
  OBVIOUS
<1>5. p \in Testers => y \in Threads
  BY DEF Threads
<1>6. \A d \in Chains : lane[t][d] \in Nat /\ (p \in Testers => lane[y][d] \in Nat)
  BY <1>2, <1>5
<1>7. \A d \in Chains : p \in Testers => Stray(t, c, d) \in Nat
  <2> SUFFICES ASSUME NEW d \in Chains, p \in Testers
               PROVE  Stray(t, c, d) \in Nat
    OBVIOUS
  <2>1. Stray(t, c, d) = lane[y][d] \/ Stray(t, c, d) = lane[t][d]
    BY DEF Stray
  <2> QED  BY <1>6, <2>1
<1>8. AtStart(t) \in [Threads -> [Chains -> Nat]]
      /\ (\A d \in Chains : AtStart(t)[t][d] = 1)
      /\ \A u \in Threads : u # t => AtStart(t)[u] = lane[u]
  BY <1>2 DEF AtStart
<1> HIDE DEF a, y
<1>9. CASE t[2] = "stray"
  <2>1. lane' \in [Threads -> [Chains -> Nat]]
    <3>1. lane' = [lane EXCEPT ![t][c] = 0]
      BY <1>3, <1>9
    <3> QED  BY <1>2, <3>1
  <2>2. \A u \in Threads, d \in Chains : u[1] # p => lane'[u][d] = lane[u][d]
    <3>1. \A u \in Threads : u # t => lane'[u] = lane[u]
      BY <1>2, <1>3, <1>9
    <3>2. t = y
      BY <1>1, <1>9
    <3> HIDE DEF p
    <3> QED  BY <1>4, <3>1, <3>2
  <2>3. progress' = progress /\ stage' = stage /\ stored' = stored /\ wired' = wired
    BY <1>3, <1>9
  <2>4. StateTyped'
    BY <2>1, <2>3 DEF StateTyped, ChainsGrow
  <2>5. Grows
    BY <2>3 DEF Grows, ChainsGrow
  <2> QED  BY <1>1, <1>9, <2>2, <2>3, <2>4, <2>5
<1>10. CASE t[2] = "awaited"
  <2>0. t = a
    BY <1>1, <1>10
  <2>1. /\ progress' \in [Procs -> {"waiting", "running", "returned", "threw"}] /\ stage' \in [Procs -> Nat]
        /\ \A q \in Procs : q # p => progress'[q] = progress[q] /\ stage'[q] = stage[q]
        /\ progress'[p] = "threw" /\ stage'[p] = 1
    <3>1. progress' = [progress EXCEPT ![p] = "threw"] /\ stage' = [stage EXCEPT ![p] = 1] /\ p \in Procs
      BY <1>1, <1>3, <1>10
    <3> HIDE DEF p
    <3> QED  BY <1>2, <3>1
  <2>2. /\ stored' \in [Procs -> SUBSET Chains] /\ wired' \in [Procs -> [Chains -> Nat]]
        /\ \A q \in Procs : q # p \/ q \in Testers => stored'[q] = stored[q] /\ wired'[q] = wired[q]
    <3>1. CASE p \in Testers
      <4>1. stored' = stored /\ wired' = wired
        BY <1>3, <1>10, <3>1
      <4> QED  BY <1>2, <4>1
    <3>2. CASE p \notin Testers
      <4>1. stored' = [stored EXCEPT ![p] = {}] /\ wired' = [wired EXCEPT ![p] = [d \in Chains |-> 0]]
        BY <1>3, <1>10, <3>2
      <4>2. [d \in Chains |-> 0] \in [Chains -> Nat] /\ {} \in SUBSET Chains
        OBVIOUS
      <4>3. stored' \in [Procs -> SUBSET Chains] /\ \A q \in Procs : q # p => stored'[q] = stored[q]
        BY <1>2, <4>1, <4>2
      <4>4. wired' \in [Procs -> [Chains -> Nat]] /\ \A q \in Procs : q # p => wired'[q] = wired[q]
        BY <1>2, <4>1, <4>2
      <4> HIDE DEF p
      <4> QED  BY <3>2, <4>3, <4>4
    <3> QED  BY <3>1, <3>2
  <2>3. /\ lane' \in [Threads -> [Chains -> Nat]]
        /\ \A u \in Threads : u # a /\ u # y => lane'[u] = lane[u]
        /\ \A d \in Chains : lane'[t][d] = 1
        /\ p \in Testers => \A d \in Chains :
             lane'[y][d] = IF stage[p] = GrantStage THEN Stray(t, c, d) ELSE lane[y][d]
    <3>1. CASE p \in Testers /\ stage[p] = GrantStage
      <4> DEFINE f == [d \in Chains |-> Stray(t, c, d)]
      <4>1. f \in [Chains -> Nat] /\ \A d \in Chains : f[d] = Stray(t, c, d)
        BY <1>7, <3>1
      <4>2. lane' = [AtStart(t) EXCEPT ![y] = f]
        BY <1>3, <1>10, <3>1
      <4> HIDE DEF f
      <4>3. lane' \in [Threads -> [Chains -> Nat]] /\ lane'[y] = f
            /\ \A u \in Threads : u # y => lane'[u] = AtStart(t)[u]
        BY <1>5, <1>8, <3>1, <4>1, <4>2
      <4> QED  BY <1>1, <1>8, <2>0, <3>1, <4>1, <4>3
    <3>2. CASE ~ (p \in Testers /\ stage[p] = GrantStage)
      <4>1. lane' = AtStart(t)
        BY <1>3, <1>10, <3>2
      <4> QED  BY <1>1, <1>5, <1>8, <2>0, <3>2, <4>1
    <3> QED  BY <3>1, <3>2
  <2>4. StateTyped'
    BY <2>1, <2>2, <2>3 DEF StateTyped, ChainsGrow
  <2>5. Grows
    <3>1. \A w \in Testers : progress[w] # "waiting" => progress'[w] # "waiting"
      <4>1. Testers \subseteq Procs
        BY DEF Procs
      <4>2. \A w \in Testers : w = p \/ progress'[w] = progress[w]
        BY <2>1, <4>1
      <4>3. progress'[p] = "threw"
        BY <2>1
      <4> QED  BY <4>2, <4>3
    <3> QED  BY <3>1 DEF Grows, ChainsGrow
  <2>6. \A u \in Threads, d \in Chains : u[1] # p => lane'[u][d] = lane[u][d]
    BY <1>4, <2>3
  <2>7. p \in Testers => \A d \in Chains :
             lane'[<<p, "stray">>][d] = IF stage[p] = GrantStage THEN Stray(t, c, d) ELSE lane[<<p, "stray">>][d]
    BY <2>3 DEF y
  <2>8. \A d \in Chains : lane'[t][d] = 1
    BY <2>3
  <2>9. (p \in Testers => \A d \in Chains :
             lane'[<<p, "stray">>][d] = IF stage[p] = GrantStage THEN Stray(t, c, d) ELSE lane[<<p, "stray">>][d])
    BY <2>7
  <2>10. (\A q \in Procs : q # p => progress'[q] = progress[q] /\ stage'[q] = stage[q]) /\ progress'[p] = "threw" /\ stage'[p] = 1
    BY <2>1
  <2>11. t[2] = "awaited" =>
              /\ \A q \in Procs : q # p => progress'[q] = progress[q] /\ stage'[q] = stage[q]
              /\ progress'[p] = "threw" /\ stage'[p] = 1
              /\ \A d \in Chains : lane'[t][d] = 1
              /\ p \in Testers => \A d \in Chains :
                   lane'[<<p, "stray">>][d] = IF stage[p] = GrantStage THEN Stray(t, c, d)
                                                 ELSE lane[<<p, "stray">>][d]
    BY <2>8, <2>9, <2>10
  <2>12. \A q \in Procs : q # p \/ q \in Testers => stored'[q] = stored[q] /\ wired'[q] = wired[q]
    BY <2>2
  <2> QED  BY <2>4, <2>5, <2>6, <2>11, <2>12
<1> QED  BY <1>1, <1>9, <1>10

\* A process goes on as it was, or is at the start of a stage whose earlier ones
\* it has passed; it keeps its singletons, or has none; its stray lanes end, stay
\* as they are, or are those of the setup that threw.
Moves(p) ==
  /\ \/ /\ progress'[p] = progress[p] /\ stage'[p] = stage[p]
        /\ \A d \in Chains : lane'[<<p, "awaited">>][d] = lane[<<p, "awaited">>][d]
        /\ p \in Testers => stored'[p] = stored[p] /\ wired'[p] = wired[p]
     \/ /\ stage'[p] \in 1 .. Len(Program[p]) /\ (progress'[p] # "running" => stage'[p] = 1)
        /\ \A d \in Chains : lane'[<<p, "awaited">>][d] = 1
        /\ p \in Testers => (stored'[p] = stored[p] /\ wired'[p] = wired[p]) \/ stored'[p] = {}
  /\ \A k \in 1 .. Len(Program[p]), d \in Chains : \A j \in 1 .. Len(Program[p][k][d]) :
       Passed(p, k, d, j)' => Passed(p, k, d, j) /\ Keeps(p)
  /\ p \in Testers => \A d \in Chains :
       \/ lane'[<<p, "stray">>][d] = 0
       \/ lane'[<<p, "stray">>][d] = lane[<<p, "stray">>][d] /\ Keeps(p)
       \/ /\ lane'[<<p, "stray">>][d] \in 1 .. Len(Program[p][GrantStage][d])
          /\ Keeps(p) /\ Beyond(p, 1) /\ progress'[p] # "waiting"
          /\ \A i \in 1 .. lane'[<<p, "stray">>][d] - 1 : Passed(p, GrantStage, d, i)

\* The first step of a stage neither wires nor stores an instance.
LEMMA FirstWiresNothing ==
  ASSUME SuiteInOrder, NEW p \in Procs, NEW k \in 1 .. Len(Program[p]), NEW c \in Chains,
         Len(Program[p][k][c]) >= 1
  PROVE  Program[p][k][c][1].op \notin {"resolve", "instances.set"}
<1>1. 1 \in 1 .. Len(Program[p][k][c]) /\ Sound(Program[p][k][c])
  BY Lanes
<1>2. Fits(Program[p][k][c], 1)
  BY <1>1 DEF Sound
<1> QED  BY <1>2 DEF Fits, Wires

\* When every process moves so, the invariant about the programs is kept.
LEMMA MovesKeep ==
  ASSUME SuiteInOrder, StateTyped, StateTyped', InStage, Done, Strays, Singletons, HalfWired,
         Grows, \A p \in Procs : Moves(p)
  PROVE  InStage' /\ Done' /\ Strays' /\ Singletons' /\ HalfWired'
<1>1. \A p \in Testers : p \in Procs /\ p \in Tracked
  BY DEF Procs, Tracked
<1>2. \A p \in Tracked : p \in Procs
  BY DEF Procs, Tracked, Scripts
<1>3. InStage'
  <2>1. SUFFICES ASSUME NEW p \in Procs
                 PROVE  /\ stage'[p] \in 1 .. Len(Program[p])
                        /\ \A c \in Chains : lane'[<<p, "awaited">>][c] \in 1 .. Len(Program[p][stage'[p]][c]) + 1
                        /\ progress'[p] # "running" => stage'[p] = 1 /\ \A c \in Chains : lane'[<<p, "awaited">>][c] = 1
    BY DEF InStage
  <2>2. CASE progress'[p] = progress[p] /\ stage'[p] = stage[p]
             /\ \A d \in Chains : lane'[<<p, "awaited">>][d] = lane[<<p, "awaited">>][d]
    BY <2>2 DEF InStage
  <2>3. CASE stage'[p] \in 1 .. Len(Program[p]) /\ (progress'[p] # "running" => stage'[p] = 1)
             /\ \A d \in Chains : lane'[<<p, "awaited">>][d] = 1
    <3>1. \A c \in Chains : Len(Program[p][stage'[p]][c]) \in Nat
      BY <2>3, Lanes
    <3>2. \A c \in Chains : 1 \in 1 .. Len(Program[p][stage'[p]][c]) + 1
      BY <3>1
    <3> QED  BY <2>3, <3>2
  <2> QED  BY <2>2, <2>3 DEF Moves
<1>4. Done'
  <2>1. SUFFICES ASSUME NEW p \in Tracked, NEW k \in 1 .. Len(Program[p]), NEW d \in Chains,
                        NEW j \in 1 .. Len(Program[p][k][d]), Passed(p, k, d, j)'
                 PROVE  SeenTo(p, Program[p][k][d][j])'
    BY DEF Done
  <2>2. Moves(p) /\ p \in Procs
    BY <1>2
  <2>3. Passed(p, k, d, j) /\ Keeps(p)
    BY <2>1, <2>2 DEF Moves
  <2>4. SeenTo(p, Program[p][k][d][j]) /\ Proper(Program[p][k][d][j])
    BY <2>2, <2>3, ProperAt DEF Done
  <2> QED  BY <2>3, <2>4, HoldsStays
<1>5. Strays'
  <2>1. SUFFICES ASSUME NEW p \in Testers, NEW d \in Chains
                 PROVE  LET new == lane'[<<p, "stray">>][d] IN
                        /\ new \in 0 .. Len(Program[p][GrantStage][d])
                        /\ new # 0 => progress'[p] # "waiting" /\ ToSet(Used) \subseteq configured'
                        /\ \A j \in 1 .. new - 1 : SeenTo(p, Program[p][GrantStage][d][j])'
    BY DEF Strays
  <2>2. /\ p \in Procs /\ p \in Tracked /\ GrantStage \in 1 .. Len(Program[p])
        /\ Len(Program[p][GrantStage][d]) \in Nat
    <3>1. p \in Procs /\ p \in Tracked /\ Len(Program[p]) = 4
      BY <1>1, TesterProgram
    <3>2. GrantStage \in 1 .. Len(Program[p])
      BY <3>1 DEF GrantStage
    <3> QED  BY <3>1, <3>2, Lanes
  <2> DEFINE L == Program[p][GrantStage][d]
             new == lane'[<<p, "stray">>][d]
  <2>3. CASE new = 0
    BY <2>2, <2>3
  <2>4. CASE new = lane[<<p, "stray">>][d] /\ Keeps(p)
    <3>1. /\ new \in 0 .. Len(L)
          /\ new # 0 => progress[p] # "waiting" /\ ToSet(Used) \subseteq configured
          /\ \A j \in 1 .. new - 1 : SeenTo(p, L[j])
      BY <2>4 DEF Strays
    <3>2. new # 0 => progress'[p] # "waiting" /\ ToSet(Used) \subseteq configured'
      BY <3>1 DEF Grows
    <3>3. ASSUME NEW j \in 1 .. new - 1
          PROVE  SeenTo(p, L[j])'
      <4>1. j \in 1 .. Len(L)
        <5> HIDE DEF new, L
        <5> QED  BY <2>2, <3>1 DEF L
      <4>2. Proper(L[j]) /\ SeenTo(p, L[j])
        BY <2>2, <3>1, <4>1, ProperAt
      <4> QED  BY <2>4, <4>2, HoldsStays
    <3> QED  BY <3>1, <3>2, <3>3
  <2>5. CASE /\ new \in 1 .. Len(L) /\ Keeps(p) /\ Beyond(p, 1) /\ progress'[p] # "waiting"
             /\ \A i \in 1 .. new - 1 : Passed(p, GrantStage, d, i)
    <3>1. ToSet(Used) \subseteq configured'
      <4>1. ToSet(Used) \subseteq configured
        BY <2>5, UsedReady
      <4> QED  BY <4>1 DEF Grows
    <3>2. ASSUME NEW j \in 1 .. new - 1
          PROVE  SeenTo(p, L[j])'
      <4>1. j \in 1 .. Len(L) /\ Passed(p, GrantStage, d, j)
        <5>1. Passed(p, GrantStage, d, j)
          BY <2>5
        <5> HIDE DEF new, L
        <5> QED  BY <2>2, <2>5, <5>1 DEF L
      <4>2. Proper(L[j]) /\ SeenTo(p, L[j])
        BY <2>2, <4>1, ProperAt DEF Done
      <4> QED  BY <2>5, <4>2, HoldsStays
    <3>3. new \in 0 .. Len(L)
      BY <2>2, <2>5
    <3> QED  BY <2>5, <3>1, <3>2, <3>3
  <2>6. Moves(p)
    BY <2>2
  <2> QED  BY <2>3, <2>4, <2>5, <2>6 DEF Moves
<1>6. Singletons'
  <2>1. SUFFICES ASSUME NEW w \in Testers
                 PROVE  stored'[w] \subseteq configured' /\ \A c \in stored'[w] : wired'[w][c] = 2
    BY DEF Singletons
  <2>2. (stored'[w] = stored[w] /\ wired'[w] = wired[w]) \/ stored'[w] = {}
    <3>1. Moves(w)
      BY <1>1
    <3> QED  BY <3>1 DEF Moves
  <2> QED  BY <2>2 DEF Singletons, Grows
<1>7. HalfWired'
  <2>1. SUFFICES ASSUME NEW w \in Testers, progress'[w] = "running",
                        lane'[<<w, "awaited">>][Hub] <= Len(Program[w][stage'[w]][Hub])
                 PROVE  LET L == Program[w][stage'[w]][Hub] i == lane'[<<w, "awaited">>][Hub] IN
                        /\ L[i].op = "resolve" =>
                             /\ L[i].on \notin stored'[w]
                             /\ wired'[w][L[i].on] = IF L[i - 1].op = "resolve" THEN 1 ELSE 0
                        /\ L[i].op = "instances.set" => L[i].on \notin stored'[w] /\ wired'[w][L[i].on] = 2
    BY DEF HalfWired
  <2>2. CASE /\ progress'[w] = progress[w] /\ stage'[w] = stage[w]
             /\ \A d \in Chains : lane'[<<w, "awaited">>][d] = lane[<<w, "awaited">>][d]
             /\ stored'[w] = stored[w] /\ wired'[w] = wired[w]
    <3>1. lane'[<<w, "awaited">>][Hub] = lane[<<w, "awaited">>][Hub]
      BY <2>2, HubIsAChain
    <3> QED  BY <2>1, <2>2, <3>1 DEF HalfWired
  <2>3. CASE /\ stage'[w] \in 1 .. Len(Program[w])
             /\ \A d \in Chains : lane'[<<w, "awaited">>][d] = 1
    <3>1. lane'[<<w, "awaited">>][Hub] = 1 /\ Hub \in Chains /\ w \in Procs
      BY <1>1, <2>3, HubIsAChain
    <3>2. Program[w][stage'[w]][Hub][1].op \notin {"resolve", "instances.set"}
      <4>1. Len(Program[w][stage'[w]][Hub]) >= 1
        BY <2>1, <2>3, <3>1, Lanes
      <4> QED  BY <2>3, <3>1, <4>1, FirstWiresNothing
    <3> QED  BY <3>1, <3>2
  <2>4. Moves(w)
    BY <1>1
  <2> QED  BY <2>2, <2>3, <2>4 DEF Moves
<1> QED  BY <1>3, <1>4, <1>5, <1>6, <1>7

\* A throw keeps the invariant, the lanes it leaves running included: what they have
\* passed by then holds for the process that no longer waits for them.
LEMMA ThrowKeeps ==
  ASSUME SuiteInOrder, StateTyped, InStage, Done, Strays, Started, Pending, Singletons, HalfWired,
         NEW t \in Threads, NEW c \in Chains, Runs(t, c),
         NEW pending, Sendable(pending), Throw(t, c, pending), ChainsGrow
  PROVE  /\ StateTyped' /\ InStage' /\ Done' /\ Strays' /\ Started' /\ Pending'
         /\ Singletons' /\ HalfWired'
<1> DEFINE p == t[1]
<1>1. /\ p \in Procs
      /\ \/ t[2] = "awaited" /\ t = <<p, "awaited">>
         \/ t[2] = "stray" /\ t = <<p, "stray">> /\ p \in Testers
  BY ThreadOf
<1>2. /\ Testers \subseteq Procs
      /\ \A q \in Procs : <<q, "awaited">> \in Threads
      /\ \A q \in Testers : <<q, "stray">> \in Threads
  BY DEF Procs, Threads
<1>3. /\ StateTyped' /\ Grows
      /\ \A q \in Procs : q # p \/ q \in Testers => stored'[q] = stored[q] /\ wired'[q] = wired[q]
      /\ \A u \in Threads, d \in Chains : u[1] # p => lane'[u][d] = lane[u][d]
  BY ThrowTyped
<1>4. \A q \in Procs : Keeps(q)
  BY <1>3 DEF Keeps
<1>5. CASE t[2] = "stray"
  <2>1. /\ lane' = [lane EXCEPT ![t][c] = 0] /\ loose' = loose \cup pending
        /\ progress' = progress /\ stage' = stage /\ stored' = stored /\ wired' = wired
    BY <1>5, ThrowMoves
  <2>2. \A u \in Threads, d \in Chains :
          lane'[u][d] = IF u = t /\ d = c THEN 0 ELSE lane[u][d]
    <3>1. lane \in [Threads -> [Chains -> Nat]]
      BY DEF StateTyped
    <3> QED  BY <2>1, <3>1
  <2>3. \A q \in Procs, d \in Chains : lane'[<<q, "awaited">>][d] = lane[<<q, "awaited">>][d]
    <3>1. \A q \in Procs : <<q, "awaited">> # t
      BY <1>5
    <3> QED  BY <1>2, <2>2, <3>1
  <2>4. \A q \in Procs : Moves(q)
    <3> SUFFICES ASSUME NEW q \in Procs
                 PROVE  Moves(q)
      OBVIOUS
    <3>1. \A k \in 1 .. Len(Program[q]), d \in Chains : \A j \in 1 .. Len(Program[q][k][d]) :
            Passed(q, k, d, j)' => Passed(q, k, d, j)
      BY <2>1, <2>3 DEF Passed
    <3>2. q \in Testers => \A d \in Chains :
            lane'[<<q, "stray">>][d] = 0 \/ lane'[<<q, "stray">>][d] = lane[<<q, "stray">>][d]
      BY <1>2, <2>2
    <3> QED  BY <1>4, <2>1, <2>3, <3>1, <3>2 DEF Moves
  <2>5. Started'
    BY <2>1 DEF Started
  <2>6. Pending'
    BY <2>1, StaysPending
  <2> QED  BY <1>3, <2>4, <2>5, <2>6, MovesKeep
<1>6. CASE t[2] = "awaited"
  <2>1. /\ \A q \in Procs : q # p => progress'[q] = progress[q] /\ stage'[q] = stage[q]
        /\ progress'[p] = "threw" /\ stage'[p] = 1
        /\ \A d \in Chains : lane'[t][d] = 1
        /\ p \in Testers => \A d \in Chains :
             lane'[<<p, "stray">>][d] = IF stage[p] = GrantStage THEN Stray(t, c, d)
                                        ELSE lane[<<p, "stray">>][d]
    BY <1>6, ThrowTyped
  <2>2. t = <<p, "awaited">> /\ progress[p] = "running"
    BY <1>1, <1>6 DEF Runs
  <2>3. ASSUME NEW q \in Procs, q # p
        PROVE  Moves(q)
    <3>1. \A d \in Chains : lane'[<<q, "awaited">>][d] = lane[<<q, "awaited">>][d]
      BY <1>2, <1>3, <2>3
    <3>2. q \in Testers => \A d \in Chains : lane'[<<q, "stray">>][d] = lane[<<q, "stray">>][d]
      BY <1>2, <1>3, <2>3
    <3>3. progress'[q] = progress[q] /\ stage'[q] = stage[q] /\ stored'[q] = stored[q] /\ wired'[q] = wired[q]
      BY <1>3, <2>1, <2>3
    <3>4. \A k \in 1 .. Len(Program[q]), d \in Chains : \A j \in 1 .. Len(Program[q][k][d]) :
            Passed(q, k, d, j)' => Passed(q, k, d, j)
      BY <3>1, <3>3 DEF Passed
    <3> QED  BY <1>4, <3>1, <3>2, <3>3, <3>4 DEF Moves
  <2>4. Moves(p)
    <3>1. \A d \in Chains : lane'[<<p, "awaited">>][d] = 1
      BY <2>1, <2>2
    <3>2. \A k, d, j : ~ Passed(p, k, d, j)'
      BY <2>1 DEF Passed
    <3>3. 1 \in 1 .. Len(Program[p])
      BY <1>1, Lanes
    <3>4. p \in Testers => stored'[p] = stored[p] /\ wired'[p] = wired[p]
      BY <1>1, <1>3
    <3>5. ASSUME p \in Testers, NEW d \in Chains
          PROVE  LET new == lane'[<<p, "stray">>][d] IN
                 \/ new = 0
                 \/ new = lane[<<p, "stray">>][d] /\ Keeps(p)
                 \/ /\ new \in 1 .. Len(Program[p][GrantStage][d])
                    /\ Keeps(p) /\ Beyond(p, 1) /\ progress'[p] # "waiting"
                    /\ \A i \in 1 .. new - 1 : Passed(p, GrantStage, d, i)
      <4> DEFINE new == lane'[<<p, "stray">>][d]
      <4>1. CASE new = lane[<<p, "stray">>][d]
        BY <1>1, <1>4, <4>1
      <4>2. CASE new # lane[<<p, "stray">>][d]
        <5>1. stage[p] = GrantStage /\ new = Stray(t, c, d)
          BY <2>1, <3>5, <4>2
        <5>2. new = lane[t][d] /\ new \in DOMAIN Lane(t, d)
          BY <4>2, <5>1 DEF Stray
        <5>3. stage[p] \in 1 .. Len(Program[p])
          BY <1>1 DEF InStage
        <5>4. DOMAIN Program[p] = 1 .. Len(Program[p])
              /\ DOMAIN Program[p][stage[p]][d] = 1 .. Len(Program[p][stage[p]][d])
          BY <1>1, <5>3, Lanes
        <5>5. Lane(t, d) = Program[p][GrantStage][d]
          BY <1>6, <5>1, <5>3, <5>4 DEF Lane
        <5>6. new \in 1 .. Len(Program[p][GrantStage][d])
          BY <5>1, <5>2, <5>4, <5>5
        <5>7. \A i \in 1 .. new - 1 : Passed(p, GrantStage, d, i)
          <6> SUFFICES ASSUME NEW i \in 1 .. new - 1
                       PROVE  i < lane[<<p, "awaited">>][d]
            BY <2>2, <5>1 DEF Passed
          <6>1. lane[<<p, "awaited">>][d] = new /\ new \in Nat
            <7>1. lane[t][d] \in Nat
              BY DEF StateTyped
            <7> QED  BY <2>2, <5>2, <7>1
          <6> HIDE DEF new
          <6> QED  BY <6>1
        <5>8. Beyond(p, 1)
          BY <2>2, <5>1 DEF Beyond, GrantStage
        <5>9. progress'[p] # "waiting"
          BY <2>1
        <5> QED  BY <1>1, <1>4, <5>6, <5>7, <5>8, <5>9
      <4> QED  BY <4>1, <4>2
    <3>6. /\ stage'[p] \in 1 .. Len(Program[p]) /\ (progress'[p] # "running" => stage'[p] = 1)
      BY <2>1, <3>3
    <3> HIDE DEF p
    <3> QED  BY <3>1, <3>2, <3>4, <3>5, <3>6 DEF Moves
  <2>5. \A q \in Procs : Moves(q)
    BY <2>3, <2>4
  <2>6. Started'
    <3> SUFFICES ASSUME NEW w \in Testers, progress'[w] # "waiting"
                 PROVE  progress'["boot"] = "returned"
      BY DEF Started
    <3>1. "boot" \in Procs /\ w \in Procs
      BY <1>2 DEF Procs, Scripts
    <3>2. progress[w] # "waiting"
      BY <2>1, <2>2, <3>1
    <3>3. progress["boot"] = "returned"
      BY <3>2 DEF Started
    <3> QED  BY <2>1, <2>2, <3>1, <3>3
  <2>7. Pending'
    <3>1. loose' \subseteq loose \cup pending \cup InFlight(t, c)
      BY <1>6, ThrowMoves
    <3>2. Sendable(pending \cup InFlight(t, c))
      BY InFlightSendable DEF Sendable
    <3>3. \A w \in Testers : progress[w] # "waiting" => progress'[w] # "waiting"
      BY <1>3 DEF Grows
    <3> QED  BY <3>1, <3>2, <3>3, StaysPending
  <2> QED  BY <1>3, <2>5, <2>6, <2>7, MovesKeep
<1> QED  BY <1>1, <1>5, <1>6

(***************************************************************************)
(* The steps of the threads                                                *)
(***************************************************************************)
\* The seed wallet's roles are not taken away.
LEMMA SeededStays ==
  ASSUME Seeded, configured' = configured, members \subseteq members'
  PROVE  Seeded'
BY DEF Seeded

\* A thread that throws keeps the whole invariant.
LEMMA ThrowsOn ==
  ASSUME SuiteInOrder, SetupInv, NEW t \in Threads, NEW c \in Chains, Runs(t, c),
         NEW pending, Sendable(pending), Throw(t, c, pending), ChainsGrow, refused' = refused
  PROVE  SetupInv'
<1>1. /\ StateTyped' /\ InStage' /\ Done' /\ Strays' /\ Started' /\ Pending'
      /\ Singletons' /\ HalfWired'
  BY ThrowKeeps DEF SetupInv
<1>2. Seeded'
  BY SeededStays DEF SetupInv, ChainsGrow
<1>3. ~ refused'
  BY DEF SetupInv
<1> QED  BY <1>1, <1>2, <1>3 DEF SetupInv

\* A thread that goes on keeps the whole invariant.
LEMMA StepsOn ==
  ASSUME SuiteInOrder, SetupInv, NEW t \in Threads, NEW c \in Chains, Runs(t, c),
         NEW n \in Nat, Advance(t, c, n), lane[t][c] + n <= Len(stepsOf(t, c)) + 1,
         ChainsGrow, stored' \in [Procs -> SUBSET Chains], wired' \in [Procs -> [Chains -> Nat]],
         \A p \in Procs : Keeps(p), NEW L, L = stepsOf(t, c),
         t[1] \in Tracked => \A m \in lane[t][c] .. lane[t][c] + n - 1 : StateTyped' => SeenTo(t[1], L[m])',
         loose' = loose, refused' = refused, Singletons', HalfWired'
  PROVE  SetupInv'
<1>1. /\ lane' \in [Threads -> [Chains -> Nat]] /\ progress' = progress /\ stage' = stage
  BY AdvanceMoves DEF SetupInv
<1>2. StateTyped'
  BY <1>1 DEF StateTyped, ChainsGrow, SetupInv
<1>3. Grows
  BY <1>1 DEF Grows, ChainsGrow
<1>4. InStage' /\ Done' /\ Strays' /\ Started'
  BY <1>2, <1>3, AdvanceKeeps DEF SetupInv
<1>5. Pending'
  <2>1. Sendable({}) /\ loose' \subseteq loose \cup {}
    BY DEF Sendable
  <2>2. \A w \in Testers : progress[w] # "waiting" => progress'[w] # "waiting"
    BY <1>1
  <2> QED  BY <2>1, <2>2, StaysPending DEF SetupInv
<1>6. Seeded'
  BY SeededStays DEF SetupInv, ChainsGrow
<1>7. ~ refused'
  BY DEF SetupInv
<1> QED  BY <1>2, <1>4, <1>5, <1>6, <1>7 DEF SetupInv

\* A thread that wires an instance.
LEMMA WiringKeeps ==
  ASSUME SuiteInOrder, StateTyped, InStage, Singletons, HalfWired,
         NEW t \in Threads, NEW c \in Chains, Runs(t, c), Advance(t, c, 1), configured' = configured,
         \A w \in Testers : w # t[1] => stored'[w] = stored[w] /\ wired'[w] = wired[w],
         NEW L, L = stepsOf(t, c), NEW i, i = lane[t][c] + 1,
         t[1] \in Testers =>
           /\ t[2] = "awaited" /\ c = Hub
           /\ stored'[t[1]] \subseteq configured /\ \A d \in stored'[t[1]] : wired'[t[1]][d] = 2
           /\ i <= Len(L) =>
                /\ L[i].op = "resolve" =>
                     /\ L[i].on \notin stored'[t[1]]
                     /\ wired'[t[1]][L[i].on] = IF L[i - 1].op = "resolve" THEN 1 ELSE 0
                /\ L[i].op = "instances.set" => L[i].on \notin stored'[t[1]] /\ wired'[t[1]][L[i].on] = 2
  PROVE  Singletons' /\ HalfWired'
<1>1. lane[t][c] + 1 <= Len(stepsOf(t, c)) + 1 /\ lane[t][c] \in 1 .. Len(stepsOf(t, c))
  BY Position
<1>2. /\ progress' = progress /\ stage' = stage
      /\ \A u \in Threads, d \in Chains : (u # t \/ d # c) => lane'[u][d] = lane[u][d]
      /\ t[2] = "awaited" => lane'[t][c] = lane[t][c] + 1
  <2>1. 1 \in Nat
    OBVIOUS
  <2> QED  BY <1>1, <2>1, AdvanceMoves
<1>3. Singletons'
  BY DEF Singletons
<1>4. ASSUME NEW w \in Testers, progress'[w] = "running"
      PROVE  LET M == Program[w][stage'[w]][Hub] j == lane'[<<w, "awaited">>][Hub] IN
             j <= Len(M) =>
               /\ M[j].op = "resolve" =>
                    /\ M[j].on \notin stored'[w]
                    /\ wired'[w][M[j].on] = IF M[j - 1].op = "resolve" THEN 1 ELSE 0
               /\ M[j].op = "instances.set" => M[j].on \notin stored'[w] /\ wired'[w][M[j].on] = 2
  <2>1. progress[w] = "running" /\ stage'[w] = stage[w]
    BY <1>2, <1>4
  <2>2. CASE w = t[1]
    <3>1. t = <<w, "awaited">> /\ c = Hub
      BY <2>2, ThreadOf
    <3>2. L = Program[w][stage'[w]][Hub]
      BY <2>1, <2>2, <3>1 DEF stepsOf, stageOf
    <3>3. lane'[<<w, "awaited">>][Hub] = i
      BY <1>2, <3>1
    <3> QED  BY <2>2, <3>2, <3>3
  <2>3. CASE w # t[1]
    <3>1. <<w, "awaited">> # t /\ <<w, "awaited">> \in Threads
      BY <2>3 DEF Threads, Procs
    <3>2. lane'[<<w, "awaited">>][Hub] = lane[<<w, "awaited">>][Hub]
      BY <1>2, <3>1, HubIsAChain
    <3>3. stored'[w] = stored[w] /\ wired'[w] = wired[w]
      BY <2>3
    <3> QED  BY <2>1, <3>2, <3>3 DEF HalfWired
  <2> QED  BY <2>2, <2>3
<1>5. HalfWired'
  BY <1>4 DEF HalfWired
<1> QED  BY <1>3, <1>5

\* A step that changes none of the variables the invariant is about keeps it.
LEMMA Unmoved ==
  ASSUME SetupInv, UNCHANGED <<progress, stage, lane, stored, wired, configured, members, balance,
                               mapped, replica, loose, refused>>
  PROVE  SetupInv'
<1>1. StateTyped' /\ InStage' /\ Started' /\ Seeded'
  BY DEF SetupInv, StateTyped, InStage, Started, Seeded
<1>2. \A p, s : SeenTo(p, s) => SeenTo(p, s)'
  BY DEF SeenTo
<1>3. \A p, k, c, j : Passed(p, k, c, j)' => Passed(p, k, c, j)
  BY DEF Passed
<1>4. Done'
  BY <1>2, <1>3 DEF SetupInv, Done
<1>5. Strays'
  BY <1>2 DEF SetupInv, Strays
<1>6. Pending' /\ Singletons' /\ HalfWired' /\ ~ refused'
  BY DEF SetupInv, Pending, Singletons, HalfWired
<1> QED  BY <1>1, <1>4, <1>5, <1>6 DEF SetupInv

\* A thread that runs stands on a step that fits; one that wires is a test that waits.
LEMMA Fitting ==
  ASSUME SuiteInOrder, SetupInv, NEW t \in Threads, NEW c \in Chains, Runs(t, c)
  PROVE  LET p == t[1] k == stageOf(t) L == stepsOf(t, c) j == lane[t][c] IN
         /\ p \in Procs /\ Len(L) \in Nat /\ j \in 1 .. Len(L) /\ At(t, c) = L[j]
         /\ Sound(L) /\ Fits(L, j) /\ Proper(L[j])
         /\ p \in Tracked /\ L[j].op \in Wiring => p \in Testers /\ t[2] = "awaited" /\ c = Hub
<1> DEFINE p == t[1]
           k == stageOf(t)
           L == stepsOf(t, c)
           j == lane[t][c]
<1>1. /\ p \in Procs /\ k \in 1 .. Len(Program[p])
      /\ (t[2] # "stray" => t[2] = "awaited")
      /\ Len(L) \in Nat /\ j \in 1 .. Len(L) /\ At(t, c) = L[j] /\ Sound(L) /\ Fits(L, j)
  BY Position DEF SetupInv
<1>2. j \in 1 .. Len(Program[p][k][c]) /\ L = Program[p][k][c]
  BY <1>1 DEF stepsOf
<1>3. p \in Tracked /\ L[j].op \in Wiring => p \in Testers /\ c = Hub /\ k # GrantStage
  <2> DEFINE M == Program[p][k][c]
  <2> HIDE DEF k, j, p
  <2>1. p \in Tracked /\ M[j].op \in Wiring => p \in Testers /\ c = Hub /\ k # GrantStage
    BY <1>1, <1>2, Kinds
  <2> QED  BY <1>2, <2>1
<1>4. k # GrantStage => t[2] # "stray"
  BY DEF stageOf
<1>5. Proper(L[j])
  BY <1>1 DEF Fits
<1> QED  BY <1>1, <1>3, <1>4, <1>5

\* A mined transaction takes nothing away and leaves its step seen to.
LEMMA MinedKeeps ==
  ASSUME SuiteInOrder, SetupInv, NEW t \in Threads, NEW c \in Chains, Runs(t, c),
         NEW s, s = At(t, c), s.kind = "send", Affords(s), Effect(s),
         configured' = configured, replica' = replica
  PROVE  /\ ChainsGrow
         /\ \A p : StateTyped' => SeenTo(p, s)'
<1>1. Proper(s) /\ s.kind = "send"
      /\ (s.op = "pay" => t[1] \in Testers /\ progress[t[1]] = "running")
  BY SendTyped DEF SetupInv
<1>2. s.op \in Sends /\ s.on \in Chains /\ (s.op = "fund" => s.to[1] \in Workers)
      /\ (s.op = "pay" => s.by[1] \in Workers /\ \E w \in Testers : progress[w] # "waiting")
  <2> QED  BY <1>1 DEF Proper
<1>3. /\ members \subseteq members' /\ (mapped => mapped')
      /\ balance' \in [Chains -> [Workers -> Nat]]
      /\ \/ \E w \in Testers : progress[w] # "waiting"
         \/ \A d \in Chains, w \in Workers : balance'[d][w] >= balance[d][w]
      /\ s.op = "grantRole" => <<s.on, s.role, s.to>> \in members'
      /\ s.op = "mapSelectors" => mapped'
      /\ s.op = "fund" => balance'[s.on][s.to[1]] >= FundMin
  <2>1. StateTyped /\ Affords(s) /\ Effect(s)
    BY DEF SetupInv
  <2> QED  BY <1>2, <2>1, EffectGrows
<1>4. \A p : SeenTo(p, s)'
  <2>1. s.op \notin {"resolve", "instances.set", "replicas"}
    BY <1>2 DEF Sends
  <2> QED  BY <1>3, <2>1 DEF SeenTo
<1> QED  BY <1>3, <1>4 DEF ChainsGrow

\* Mined() keeps the invariant.
LEMMA MinedStep ==
  ASSUME SuiteInOrder, SetupInv, NEW t \in Threads, NEW c \in Chains, Runs(t, c), Mined(t, c),
         configured' = configured, replica' = replica
  PROVE  SetupInv'
<1> DEFINE L == stepsOf(t, c)
           j == lane[t][c]
<1>1. /\ t[1] \in Procs /\ Len(L) \in Nat /\ j \in 1 .. Len(L) /\ At(t, c) = L[j] /\ Proper(L[j])
  BY Fitting
<1>2. /\ At(t, c).kind = "send" /\ Affords(At(t, c)) /\ Effect(At(t, c)) /\ Advance(t, c, 1)
      /\ stored' = stored /\ wired' = wired /\ loose' = loose /\ refused' = refused
  BY DEF Mined
<1>10. PICK s : s = At(t, c)
  OBVIOUS
<1>3. ChainsGrow /\ \A p : StateTyped' => SeenTo(p, s)'
  BY <1>2, <1>10, MinedKeeps
<1>4. j + 1 <= Len(L) + 1 /\ 1 \in Nat /\ j + 1 - 1 = j
  BY <1>1
<1>5. L[j + 1 - 1].op \notin {"instances.has", "resolve"}
  <2>1. L[j].kind = "send" /\ Proper(L[j])
    BY <1>1, <1>2
  <2>2. L[j].op \in Sends
    <3> HIDE DEF L, j
    <3> QED  BY <2>1 DEF Proper
  <2> QED  BY <1>4, <2>2 DEF Sends
<1>6. Singletons' /\ HalfWired'
  BY <1>2, <1>4, <1>5, WiringIdle DEF SetupInv
<1>7. PICK M : M = L
  OBVIOUS
<1>8. \A m \in j .. j + 1 - 1 : StateTyped' => SeenTo(t[1], M[m])'
  <2>1. \A m \in j .. j + 1 - 1 : m = j
    BY <1>1
  <2>2. s = M[j]
    BY <1>1, <1>7, <1>10
  <2> QED  BY <1>3, <2>1, <2>2
<1>9. stored' \in [Procs -> SUBSET Chains] /\ wired' \in [Procs -> [Chains -> Nat]] /\ \A p \in Procs : Keeps(p)
  BY <1>2 DEF SetupInv, StateTyped, Keeps
<1> QED  BY <1>2, <1>3, <1>4, <1>6, <1>7, <1>8, <1>9, StepsOn

\* Chains that stand still have grown.
LEMMA StandStill ==
  ASSUME SetupInv, members' = members, mapped' = mapped, balance' = balance,
         configured' = configured, replica' = replica
  PROVE  ChainsGrow
<1>1. balance \in [Chains -> [Workers -> Nat]]
  BY DEF SetupInv, StateTyped
<1>2. \A c \in Chains, w \in Workers : balance'[c][w] >= balance[c][w]
  BY <1>1
<1> QED  BY <1>1, <1>2 DEF ChainsGrow

\* Where nothing is sent nothing is mined late.
LEMMA NothingSendable == Sendable({})
BY DEF Sendable

\* Refused() keeps the invariant: the role is there, so no access manager refuses.
LEMMA RefusedStep ==
  ASSUME SuiteInOrder, SetupInv, NEW t \in Threads, NEW c \in Chains, Runs(t, c), Refused(t, c),
         configured' = configured, replica' = replica
  PROVE  SetupInv'
<1>1. /\ At(t, c).kind = "send" /\ refused' = (refused \/ ~ Accepts(At(t, c)))
      /\ Throw(t, c, {}) /\ members' = members /\ mapped' = mapped /\ balance' = balance
  BY DEF Refused, chainVars
<1>2. Accepts(At(t, c))
  BY <1>1, Accepted DEF SetupInv
<1>3. ~ refused /\ ~ refused'
  BY <1>1, <1>2 DEF SetupInv
<1>4. ChainsGrow
  BY <1>1, StandStill
<1>5. /\ StateTyped' /\ InStage' /\ Done' /\ Strays' /\ Started' /\ Pending'
      /\ Singletons' /\ HalfWired'
  BY <1>1, <1>4, NothingSendable, ThrowKeeps DEF SetupInv
<1>6. Seeded'
  BY <1>4, SeededStays DEF SetupInv, ChainsGrow
<1> QED  BY <1>3, <1>5, <1>6 DEF SetupInv

\* SendFails() keeps the invariant, whether unsent, mined, paid for again or pending.
LEMMA SendFailsStep ==
  ASSUME SuiteInOrder, SetupInv, NEW t \in Threads, NEW c \in Chains, Runs(t, c), SendFails(t, c),
         configured' = configured, replica' = replica
  PROVE  SetupInv'
<1>1. PICK s : s = At(t, c)
  OBVIOUS
<1>2. /\ s.kind = "send" /\ Affords(s) /\ refused' = refused
      /\ \/ chainVars' = chainVars /\ Throw(t, c, {})
         \/ /\ Effect(s)
            /\ IF s.op = "pay" THEN Advance(t, c, 0) /\ UNCHANGED <<stored, wired, loose>>
               ELSE Throw(t, c, {})
         \/ chainVars' = chainVars /\ Throw(t, c, {s})
  BY <1>1 DEF SendFails
<1>3. Sendable({s})
  <2>1. Proper(s) /\ (s.op = "pay" => t[1] \in Testers /\ progress[t[1]] = "running")
    BY <1>1, SendTyped DEF SetupInv
  <2> QED  BY <2>1 DEF Sendable
<1>4. CASE chainVars' = chainVars /\ Throw(t, c, {})
  <2>1. ChainsGrow
    BY <1>4, StandStill DEF chainVars
  <2> QED  BY <1>2, <1>4, <2>1, NothingSendable, ThrowsOn
<1>5. CASE chainVars' = chainVars /\ Throw(t, c, {s})
  <2>1. ChainsGrow
    BY <1>5, StandStill DEF chainVars
  <2> QED  BY <1>2, <1>3, <1>5, <2>1, ThrowsOn
<1>6. CASE Effect(s) /\ s.op # "pay" /\ Throw(t, c, {})
  <2>1. ChainsGrow
    BY <1>1, <1>2, <1>6, MinedKeeps
  <2> QED  BY <1>2, <1>6, <2>1, NothingSendable, ThrowsOn
<1>7. CASE Effect(s) /\ Advance(t, c, 0) /\ UNCHANGED <<stored, wired, loose>>
  <2>1. ChainsGrow
    BY <1>1, <1>2, <1>7, MinedKeeps
  <2>2. lane[t][c] + 0 <= Len(stepsOf(t, c)) + 1 /\ 0 \in Nat
    BY Fitting
  <2>3. Singletons' /\ HalfWired'
    <3>1. ~ (0 > 0)
      OBVIOUS
    <3> QED  BY <1>7, <2>1, <2>2, <3>1, WiringIdle DEF SetupInv, ChainsGrow
  <2>4. PICK L : L = stepsOf(t, c)
    OBVIOUS
  <2>5. \A m \in lane[t][c] .. lane[t][c] + 0 - 1 : StateTyped' => SeenTo(t[1], L[m])'
    BY Fitting
  <2>6. stored' \in [Procs -> SUBSET Chains] /\ wired' \in [Procs -> [Chains -> Nat]] /\ \A p \in Procs : Keeps(p)
    BY <1>7 DEF SetupInv, StateTyped, Keeps
  <2> QED  BY <1>2, <1>7, <2>1, <2>2, <2>3, <2>4, <2>5, <2>6, StepsOn
<1> QED  BY <1>2, <1>4, <1>5, <1>6, <1>7

\* ReadFails() keeps the invariant.
LEMMA ReadFailsStep ==
  ASSUME SuiteInOrder, SetupInv, NEW t \in Threads, NEW c \in Chains, Runs(t, c), ReadFails(t, c),
         configured' = configured, replica' = replica
  PROVE  SetupInv'
<1>1. Throw(t, c, {}) /\ refused' = refused /\ chainVars' = chainVars
  BY DEF ReadFails
<1>2. ChainsGrow
  BY <1>1, StandStill DEF chainVars
<1> QED  BY <1>1, <1>2, NothingSendable, ThrowsOn

\* A poll that misses keeps the invariant, out of attempts or not.
LEMMA AgainStep ==
  ASSUME SuiteInOrder, SetupInv, NEW t \in Threads, NEW c \in Chains, Runs(t, c), Again(t, c),
         chainVars' = chainVars, refused' = refused, configured' = configured, replica' = replica
  PROVE  SetupInv'
<1>1. CASE Throw(t, c, {})
  <2>1. ChainsGrow
    BY StandStill DEF chainVars
  <2> QED  BY <1>1, <2>1, NothingSendable, ThrowsOn
<1>2. CASE UNCHANGED <<progress, stage, lane, left, stored, wired, loose>>
  BY <1>2, Unmoved DEF chainVars
<1> QED  BY <1>1, <1>2 DEF Again

\* Poll() keeps the invariant.
LEMMA PollStep ==
  ASSUME SuiteInOrder, SetupInv, NEW t \in Threads, NEW c \in Chains, Runs(t, c), Poll(t, c),
         configured' = configured, replica' = replica
  PROVE  SetupInv'
<1> DEFINE L == stepsOf(t, c)
           j == lane[t][c]
<1>1. /\ t[1] \in Procs /\ Len(L) \in Nat /\ j \in 1 .. Len(L) /\ At(t, c) = L[j] /\ Proper(L[j])
  BY Fitting
<1>2. /\ At(t, c).kind = "poll" /\ chainVars' = chainVars /\ refused' = refused
      /\ \/ Finds(t[1], At(t, c)) /\ Advance(t, c, 1) /\ UNCHANGED <<stored, wired, loose>>
         \/ Again(t, c)
         \/ Throw(t, c, {})
  BY DEF Poll
<1>3. ChainsGrow
  BY <1>2, StandStill DEF chainVars
<1>4. CASE Again(t, c)
  BY <1>2, <1>4, AgainStep
<1>5. CASE Throw(t, c, {})
  BY <1>2, <1>3, <1>5, NothingSendable, ThrowsOn
<1>6. CASE Finds(t[1], At(t, c)) /\ Advance(t, c, 1) /\ UNCHANGED <<stored, wired, loose>>
  <2>1. PICK s : s = At(t, c)
    OBVIOUS
  <2>2. Proper(s) /\ s.kind = "poll" /\ s.op \in Polls
    <3>1. Proper(s) /\ s.kind = "poll"
      BY <1>1, <1>2, <2>1
    <3> QED  BY <3>1 DEF Proper
  <2>3. \A p : SeenTo(p, s)'
    <3>1. s.op \notin {"grantRole", "mapSelectors", "resolve", "instances.set", "fund"}
      BY <2>2 DEF Polls
    <3>2. s.op = "replicas" => \A n \in ToSet(Used) : replica[n] = "active"
      BY <1>6, <2>1 DEF Finds
    <3> QED  BY <3>1, <3>2 DEF SeenTo
  <2>4. j + 1 <= Len(L) + 1 /\ 1 \in Nat /\ j + 1 - 1 = j
    BY <1>1
  <2>5. L[j + 1 - 1].op \notin {"instances.has", "resolve"}
    BY <1>1, <2>1, <2>2, <2>4 DEF Polls
  <2>6. Singletons' /\ HalfWired'
    BY <1>6, <2>4, <2>5, WiringIdle DEF SetupInv
  <2>7. PICK M : M = L
    OBVIOUS
  <2>8. \A m \in j .. j + 1 - 1 : StateTyped' => SeenTo(t[1], M[m])'
    <3>1. \A m \in j .. j + 1 - 1 : m = j
      BY <1>1
    <3>2. s = M[j]
      BY <1>1, <2>1, <2>7
    <3> QED  BY <2>3, <3>1, <3>2
  <2>9. stored' \in [Procs -> SUBSET Chains] /\ wired' \in [Procs -> [Chains -> Nat]] /\ \A p \in Procs : Keeps(p)
    BY <1>6 DEF SetupInv, StateTyped, Keeps
  <2> QED  BY <1>2, <1>3, <1>6, <2>4, <2>6, <2>7, <2>8, <2>9, StepsOn
<1> QED  BY <1>2, <1>4, <1>5, <1>6

\* What the step before tells of the wiring step at j.
LEMMA HalfWiredAt ==
  ASSUME SuiteInOrder, SetupInv, NEW t \in Threads, NEW c \in Chains, Runs(t, c),
         t[1] \in Testers, t[2] = "awaited", c = Hub,
         NEW L, L = stepsOf(t, c), NEW j, j = lane[t][c]
  PROVE  /\ L[j].op = "resolve" =>
              /\ L[j].on \notin stored[t[1]]
              /\ wired[t[1]][L[j].on] = IF L[j - 1].op = "resolve" THEN 1 ELSE 0
         /\ L[j].op = "instances.set" => L[j].on \notin stored[t[1]] /\ wired[t[1]][L[j].on] = 2
<1>1. t = <<t[1], "awaited">> /\ progress[t[1]] = "running" /\ j <= Len(L)
  BY ThreadOf, Fitting DEF Runs
<1>2. L = Program[t[1]][stage[t[1]]][Hub] /\ j = lane[<<t[1], "awaited">>][Hub]
  BY <1>1 DEF stepsOf, stageOf
<1> QED  BY <1>1, <1>2 DEF SetupInv, HalfWired

\* Read() keeps the invariant: an instance is stored when both contracts are wired.
LEMMA ReadStep ==
  ASSUME SuiteInOrder, SetupInv, NEW t \in Threads, NEW c \in Chains, Runs(t, c), Read(t, c),
         configured' = configured, replica' = replica
  PROVE  SetupInv'
<1>1. PICK L : L = stepsOf(t, c)
  OBVIOUS
<1>2. PICK j : j = lane[t][c]
  OBVIOUS
<1>3. PICK s : s = At(t, c)
  OBVIOUS
<1>4. PICK p : p = t[1]
  OBVIOUS
<1>5. /\ p \in Procs /\ Len(L) \in Nat /\ j \in 1 .. Len(L) /\ s = L[j] /\ Proper(s)
      /\ Sound(L) /\ Fits(L, j)
      /\ p \in Tracked /\ s.op \in Wiring => p \in Testers /\ t[2] = "awaited" /\ c = Hub
  BY <1>1, <1>2, <1>3, <1>4, Fitting
<1>6. /\ s.kind = "read" /\ (s.op = "resolve" => s.on \in configured) /\ Advance(t, c, 1)
      /\ wired' = IF s.op = "resolve" THEN [wired EXCEPT ![p][s.on] = @ + 1] ELSE wired
      /\ stored' = IF s.op = "instances.set" THEN [stored EXCEPT ![p] = @ \cup {s.on}] ELSE stored
      /\ chainVars' = chainVars /\ loose' = loose /\ refused' = refused
  BY <1>3, <1>4 DEF Read
<1>7. s.op \in Reads /\ s.on \in Chains
  BY <1>5, <1>6 DEF Proper
<1>8. ChainsGrow
  BY <1>6, StandStill DEF chainVars
<1>9. /\ stored \in [Procs -> SUBSET Chains] /\ wired \in [Procs -> [Chains -> Nat]]
      /\ Singletons /\ Testers \subseteq Procs
  BY DEF SetupInv, StateTyped, Procs
<1>10. /\ stored' \in [Procs -> SUBSET Chains] /\ \A q \in Procs : stored[q] \subseteq stored'[q]
       /\ \A q \in Procs : q # p \/ s.op # "instances.set" => stored'[q] = stored[q]
       /\ s.op = "instances.set" => stored'[p] = stored[p] \cup {s.on}
  <2>1. CASE s.op = "instances.set"
    <3>1. stored' = [stored EXCEPT ![p] = @ \cup {s.on}]
      BY <1>6, <2>1
    <3> QED  BY <1>5, <1>7, <1>9, <2>1, <3>1
  <2>2. CASE s.op # "instances.set"
    BY <1>6, <1>9, <2>2
  <2> QED  BY <2>1, <2>2
<1>11. /\ wired' \in [Procs -> [Chains -> Nat]]
       /\ \A q \in Procs : q # p \/ s.op # "resolve" => wired'[q] = wired[q]
       /\ s.op = "resolve" => /\ wired'[p][s.on] = wired[p][s.on] + 1
                              /\ \A d \in Chains : d # s.on => wired'[p][d] = wired[p][d]
  <2>1. CASE s.op = "resolve"
    <3>1. wired' = [wired EXCEPT ![p][s.on] = @ + 1] /\ wired[p] \in [Chains -> Nat] /\ wired[p][s.on] + 1 \in Nat
      BY <1>5, <1>6, <1>7, <1>9, <2>1
    <3> QED  BY <1>5, <1>7, <1>9, <2>1, <3>1
  <2>2. CASE s.op # "resolve"
    BY <1>6, <1>9, <2>2
  <2> QED  BY <2>1, <2>2
<1>12. \A q \in Procs : Keeps(q)
  BY <1>10 DEF Keeps
<1>13. p \in Tracked => SeenTo(p, s)'
  <2>1. s.op \notin {"grantRole", "mapSelectors", "replicas", "fund"}
    BY <1>7 DEF Reads
  <2>2. s.op = "resolve" => s.on \in configured'
    BY <1>6, <1>8 DEF ChainsGrow
  <2>3. s.op = "instances.set" => s.on \in stored'[p]
    BY <1>10
  <2> QED  BY <2>1, <2>2, <2>3 DEF SeenTo
<1>14. ASSUME p \in Testers, s.op \in Wiring, NEW i, i = j + 1
       PROVE  /\ t[2] = "awaited" /\ c = Hub
              /\ stored'[p] \subseteq configured /\ \A d \in stored'[p] : wired'[p][d] = 2
              /\ i <= Len(L) =>
                   /\ L[i].op = "resolve" =>
                        /\ L[i].on \notin stored'[p]
                        /\ wired'[p][L[i].on] = IF L[i - 1].op = "resolve" THEN 1 ELSE 0
                   /\ L[i].op = "instances.set" => L[i].on \notin stored'[p] /\ wired'[p][L[i].on] = 2
  <2>1. t[2] = "awaited" /\ c = Hub /\ p \in Tracked
    BY <1>5, <1>14 DEF Tracked
  <2>2. /\ s.op = "resolve" => s.on \notin stored[p] /\ wired[p][s.on] = IF L[j - 1].op = "resolve" THEN 1 ELSE 0
        /\ s.op = "instances.set" => s.on \notin stored[p] /\ wired[p][s.on] = 2
    BY <1>1, <1>2, <1>4, <1>5, <1>14, <2>1, HalfWiredAt
  <2>3. stored[p] \subseteq configured /\ \A d \in stored[p] : wired[p][d] = 2
    BY <1>9, <1>14 DEF Singletons
  <2>4. i \in Nat /\ i - 1 = j /\ i - 2 = j - 1 /\ (i <= Len(L) => Fits(L, i))
    <3>1. i \in Nat /\ i - 1 = j /\ i - 2 = j - 1 /\ (i <= Len(L) => i \in 1 .. Len(L))
      BY <1>5, <1>14
    <3> QED  BY <1>5, <3>1 DEF Sound
  <2>5. i <= Len(L) /\ L[i].op = "resolve" =>
          s.on = L[i].on /\ (s.op = "instances.has" \/ (s.op = "resolve" /\ L[j - 1].op = "instances.has"))
    BY <1>5, <2>4 DEF Fits, Wires
  <2>6. i <= Len(L) /\ L[i].op = "instances.set" =>
          s.on = L[i].on /\ s.op = "resolve" /\ L[j - 1].op = "resolve"
    BY <1>5, <2>4 DEF Fits, Wires
  <2>7. s.op # "instances.has"
    BY <1>7 DEF Reads
  <2>8. CASE s.op = "resolve"
    <3>1. stored'[p] = stored[p]
      BY <1>5, <1>10, <2>8
    <3>2. \A d \in stored[p] : d \in Chains /\ wired'[p][d] = wired[p][d]
      BY <1>5, <1>9, <1>11, <2>2, <2>8
    <3>3. i <= Len(L) /\ L[i].op = "resolve" => wired'[p][L[i].on] = 1
      BY <1>11, <2>2, <2>5, <2>8
    <3>4. i <= Len(L) /\ L[i].op = "instances.set" => wired'[p][L[i].on] = 2
      BY <1>11, <2>2, <2>6, <2>8
    <3>5. L[i - 1].op = "resolve"
      BY <1>5, <2>4, <2>8
    <3>6. i <= Len(L) /\ L[i].op \in {"resolve", "instances.set"} => L[i].on \notin stored'[p]
      BY <2>2, <2>5, <2>6, <2>8, <3>1
    <3> QED  BY <2>1, <2>3, <3>1, <3>2, <3>3, <3>4, <3>5, <3>6
  <2>9. CASE s.op = "instances.set"
    <3>1. stored'[p] = stored[p] \cup {s.on} /\ wired'[p] = wired[p]
      BY <1>5, <1>10, <1>11, <2>9
    <3>2. s.on \in configured
      <4>1. j > 2 /\ L[j - 1].on = s.on /\ L[j - 1].op = "resolve"
        BY <1>5, <2>9 DEF Fits, Wires
      <4>2. j - 1 \in 1 .. Len(L) /\ j - 1 < j
        BY <1>5, <4>1
      <4>3. t = <<p, "awaited">> /\ progress[p] = "running" /\ L = Program[p][stage[p]][c]
        BY <1>1, <1>4, <2>1, ThreadOf DEF Runs, stepsOf, stageOf
      <4>4. Passed(p, stage[p], c, j - 1)
        BY <1>2, <4>2, <4>3 DEF Passed
      <4>5. stage[p] \in 1 .. Len(Program[p])
        BY <1>5 DEF SetupInv, InStage
      <4>6. SeenTo(p, L[j - 1])
        BY <2>1, <4>2, <4>3, <4>4, <4>5 DEF SetupInv, Done
      <4> QED  BY <4>1, <4>6 DEF SeenTo
    <3>3. ~ (i <= Len(L) /\ L[i].op = "resolve") /\ ~ (i <= Len(L) /\ L[i].op = "instances.set")
      BY <2>5, <2>6, <2>9
    <3> QED  BY <2>1, <2>2, <2>3, <2>9, <3>1, <3>2, <3>3
  <2> QED  BY <1>14, <2>7, <2>8, <2>9 DEF Wiring
<1>15. Singletons' /\ HalfWired'
  <2>1. CASE s.op \in Wiring
    <3>1. PICK i : i = j + 1
      OBVIOUS
    <3>2. \A w \in Testers : w # p => stored'[w] = stored[w] /\ wired'[w] = wired[w]
      BY <1>9, <1>10, <1>11
    <3>3. p \in Testers =>
              /\ t[2] = "awaited" /\ c = Hub
              /\ stored'[p] \subseteq configured /\ \A d \in stored'[p] : wired'[p][d] = 2
              /\ i <= Len(L) =>
                   /\ L[i].op = "resolve" =>
                        /\ L[i].on \notin stored'[p]
                        /\ wired'[p][L[i].on] = IF L[i - 1].op = "resolve" THEN 1 ELSE 0
                   /\ L[i].op = "instances.set" => L[i].on \notin stored'[p] /\ wired'[p][L[i].on] = 2
      BY <1>14, <2>1, <3>1
    <3> QED  BY <1>1, <1>2, <1>4, <1>6, <3>1, <3>2, <3>3, WiringKeeps DEF SetupInv
  <2>2. CASE s.op \notin Wiring
    <3>1. stored' = stored /\ wired' = wired
      BY <1>6, <2>2 DEF Wiring
    <3>2. 1 \in Nat /\ lane[t][c] + 1 <= Len(stepsOf(t, c)) + 1 /\ lane[t][c] + 1 - 1 = j
      BY <1>1, <1>2, <1>5
    <3>3. stepsOf(t, c)[lane[t][c] + 1 - 1].op \notin {"instances.has", "resolve"}
      BY <1>1, <1>5, <2>2, <3>2 DEF Wiring
    <3> QED  BY <1>6, <3>1, <3>2, <3>3, WiringIdle DEF SetupInv
  <2> QED  BY <2>1, <2>2
<1>16. \A m \in lane[t][c] .. lane[t][c] + 1 - 1 : StateTyped' => SeenTo(p, L[m])' \/ p \notin Tracked
  <2>1. \A m \in lane[t][c] .. lane[t][c] + 1 - 1 : m = j
    BY <1>2, <1>5
  <2> QED  BY <1>5, <1>13, <2>1
<1>17. 1 \in Nat /\ lane[t][c] + 1 <= Len(stepsOf(t, c)) + 1
  BY <1>1, <1>2, <1>5
<1>18. t[1] \in Tracked => \A m \in lane[t][c] .. lane[t][c] + 1 - 1 : StateTyped' => SeenTo(t[1], L[m])'
  BY <1>4, <1>16
<1> QED  BY <1>1, <1>6, <1>8, <1>10, <1>11, <1>12, <1>15, <1>17, <1>18, StepsOn

\* Look() keeps the invariant: the steps it spares have been seen to already.
LEMMA LookStep ==
  ASSUME SuiteInOrder, SetupInv, NEW t \in Threads, NEW c \in Chains, Runs(t, c), Look(t, c),
         configured' = configured, replica' = replica
  PROVE  SetupInv'
<1>1. PICK L : L = stepsOf(t, c)
  OBVIOUS
<1>2. PICK j : j = lane[t][c]
  OBVIOUS
<1>3. PICK s : s = At(t, c)
  OBVIOUS
<1>4. PICK p : p = t[1]
  OBVIOUS
<1>5. /\ p \in Procs /\ Len(L) \in Nat /\ j \in 1 .. Len(L) /\ s = L[j] /\ Proper(s)
      /\ Sound(L) /\ Fits(L, j)
      /\ p \in Tracked /\ s.op \in Wiring => p \in Testers /\ t[2] = "awaited" /\ c = Hub
  BY <1>1, <1>2, <1>3, <1>4, Fitting
<1> DEFINE found == Finds(p, s)
           n == IF found THEN 1 + s.skip ELSE 1
<1>6. /\ s.kind = "look" /\ Advance(t, c, n)
      /\ wired' = IF s.op = "instances.has" /\ ~ found THEN [wired EXCEPT ![p][s.on] = 0] ELSE wired
      /\ stored' = stored /\ chainVars' = chainVars /\ loose' = loose /\ refused' = refused
  BY <1>3, <1>4 DEF Look
<1>7. s.op \in Looks /\ s.on \in Chains
  BY <1>5, <1>6 DEF Proper
<1>8. ChainsGrow
  BY <1>6, StandStill DEF chainVars
<1>9. /\ stored \in [Procs -> SUBSET Chains] /\ wired \in [Procs -> [Chains -> Nat]]
      /\ StateTyped /\ Singletons /\ Testers \subseteq Procs
  BY DEF SetupInv, StateTyped, Procs
<1>10. /\ s.skip \in Nat /\ j + s.skip <= Len(L)
       /\ \A m \in j + 1 .. j + s.skip : Spares(s, L[m])
  BY <1>5, <1>6 DEF Fits, Skips
<1>11. \A q \in Procs : Keeps(q)
  BY <1>6 DEF Keeps
<1>12. Grows
  <2>1. progress' = progress
    BY <1>6 DEF Advance
  <2> QED  BY <1>8, <2>1 DEF Grows, ChainsGrow
<1>13. ASSUME p \in Tracked, StateTyped', NEW m \in j .. j + n - 1
       PROVE  SeenTo(p, L[m])'
  <2>1. CASE m = j
    <3>1. SeenTo(p, L[m])
      BY <1>5, <1>6, <2>1, LookHolds
    <3>2. Proper(L[m]) /\ Keeps(p)
      BY <1>5, <1>11, <2>1
    <3> QED  BY <1>9, <1>12, <1>13, <3>1, <3>2, HoldsStays
  <2>2. CASE m # j
    <3>1. found /\ m \in j + 1 .. j + s.skip
      BY <1>5, <1>10, <1>13, <2>2
    <3>2. SeenTo(p, L[m])
      <4>1. t[1] \in Tracked /\ At(t, c).kind = "look" /\ Finds(t[1], At(t, c))
            /\ m \in lane[t][c] + 1 .. lane[t][c] + At(t, c).skip
        BY <1>2, <1>3, <1>4, <1>6, <1>13, <3>1
      <4> QED  BY <1>1, <1>4, <4>1, FoundHolds DEF SetupInv
    <3>3. Proper(L[m])
      <4>1. m \in 1 .. Len(L)
        BY <1>5, <1>10, <3>1
      <4> QED  BY <1>5, <4>1 DEF Sound, Fits
    <3> QED  BY <1>5, <1>9, <1>11, <1>12, <1>13, <3>2, <3>3, HoldsStays
  <2> QED  BY <2>1, <2>2
<1>14. n \in Nat /\ j + n <= Len(L) + 1 /\ n > 0 /\ (n = 1 \/ (found /\ n = 1 + s.skip))
  BY <1>5, <1>10
<1>15. CASE s.op # "instances.has" \/ found
  <2>1. wired' = wired
    BY <1>6, <1>15
  <2>2. L[j + n - 1].op \notin {"instances.has", "resolve"}
    <3>1. CASE n = 1
      <4>1. j + n - 1 = j
        BY <1>5, <3>1
      <4>2. CASE s.op # "instances.has"
        BY <1>5, <1>7, <4>1, <4>2 DEF Looks
      <4>3. CASE s.op = "instances.has"
        <5>1. s.skip = 3 /\ found
          BY <1>5, <1>15, <4>3 DEF Fits, Wires
        <5>2. n = 4
          BY <5>1
        <5> QED  BY <3>1, <5>2
      <4> QED  BY <4>2, <4>3
    <3>2. CASE n # 1
      <4>1. n = 1 + s.skip /\ s.skip > 0
        BY <1>10, <1>14, <3>2
      <4>2. j + n - 1 = j + s.skip /\ j + s.skip \in j + 1 .. j + s.skip
        <5> HIDE DEF n
        <5> QED  BY <1>5, <1>10, <4>1
      <4>3. CASE s.op = "instances.has"
        <5>1. s.skip = 3 /\ L[j + 3].op = "instances.set"
          BY <1>5, <4>3 DEF Fits, Wires
        <5> HIDE DEF n
        <5> QED  BY <4>2, <5>1
      <4>4. CASE s.op # "instances.has"
        <5>1. Spares(s, L[j + s.skip])
          BY <1>10, <4>2
        <5>2. L[j + s.skip].op \notin {"instances.has", "resolve"}
          BY <4>4, <5>1 DEF Spares
        <5> HIDE DEF n
        <5> QED  BY <4>2, <5>2
      <4> QED  BY <4>3, <4>4
    <3> QED  BY <3>1, <3>2
  <2> HIDE DEF n, found
  <2>3. lane[t][c] + n <= Len(stepsOf(t, c)) + 1 /\ stepsOf(t, c)[lane[t][c] + n - 1].op \notin {"instances.has", "resolve"}
    BY <1>1, <1>2, <1>14, <2>2
  <2>4. Singletons' /\ HalfWired'
    BY <1>6, <1>14, <2>1, <2>3, WiringIdle DEF SetupInv
  <2>5. stored' \in [Procs -> SUBSET Chains] /\ wired' \in [Procs -> [Chains -> Nat]]
    BY <1>6, <1>9, <2>1
  <2>6. t[1] \in Tracked => \A m \in lane[t][c] .. lane[t][c] + n - 1 : StateTyped' => SeenTo(t[1], L[m])'
    BY <1>2, <1>4, <1>13
  <2> QED  BY <1>1, <1>6, <1>8, <1>11, <1>14, <2>3, <2>4, <2>5, <2>6, StepsOn
<1>16. CASE s.op = "instances.has" /\ ~ found
  <2>1. n = 1 /\ wired' = [wired EXCEPT ![p][s.on] = 0] /\ s.on \notin stored[p]
    BY <1>6, <1>16 DEF Finds
  <2> HIDE DEF n, found
  <2>2. /\ wired' \in [Procs -> [Chains -> Nat]]
        /\ \A q \in Procs : q # p => wired'[q] = wired[q]
        /\ wired'[p][s.on] = 0 /\ \A d \in Chains : d # s.on => wired'[p][d] = wired[p][d]
    BY <1>5, <1>7, <1>9, <2>1
  <2>3. PICK i : i = j + 1
    OBVIOUS
  <2>4. ASSUME p \in Testers
        PROVE  /\ t[2] = "awaited" /\ c = Hub
               /\ stored'[p] \subseteq configured /\ \A d \in stored'[p] : wired'[p][d] = 2
               /\ i <= Len(L) =>
                    /\ L[i].op = "resolve" =>
                         /\ L[i].on \notin stored'[p]
                         /\ wired'[p][L[i].on] = IF L[i - 1].op = "resolve" THEN 1 ELSE 0
                    /\ L[i].op = "instances.set" => L[i].on \notin stored'[p] /\ wired'[p][L[i].on] = 2
    <3>1. t[2] = "awaited" /\ c = Hub
      BY <1>5, <1>16, <2>4 DEF Tracked, Wiring
    <3>2. stored[p] \subseteq configured /\ stored[p] \subseteq Chains /\ \A d \in stored[p] : wired[p][d] = 2
      BY <1>5, <1>9, <2>4 DEF Singletons
    <3>3. \A d \in stored[p] : wired'[p][d] = 2
      BY <2>1, <2>2, <3>2
    <3>4. i - 1 = j /\ (i <= Len(L) => Fits(L, i))
      <4>1. i - 1 = j /\ (i <= Len(L) => i \in 1 .. Len(L))
        BY <1>5, <2>3
      <4> QED  BY <1>5, <4>1 DEF Sound
    <3>5. i <= Len(L) /\ L[i].op = "resolve" => s.on = L[i].on
      BY <1>5, <3>4 DEF Fits, Wires
    <3>6. ~ (i <= Len(L) /\ L[i].op = "instances.set")
      BY <1>5, <1>16, <3>4 DEF Fits, Wires
    <3>7. L[i - 1].op # "resolve"
      BY <1>5, <1>16, <3>4
    <3> QED  BY <1>6, <2>1, <2>2, <3>1, <3>2, <3>3, <3>5, <3>6, <3>7
  <2>5. Singletons' /\ HalfWired'
    <3>1. \A w \in Testers : w # p => stored'[w] = stored[w] /\ wired'[w] = wired[w]
      BY <1>6, <1>9, <2>2
    <3>2. Advance(t, c, 1)
      BY <1>6, <2>1
    <3> QED  BY <1>1, <1>2, <1>4, <1>6, <2>3, <2>4, <3>1, <3>2, WiringKeeps DEF SetupInv
  <2>6. stored' \in [Procs -> SUBSET Chains]
    BY <1>6, <1>9
  <2>7. t[1] \in Tracked => \A m \in lane[t][c] .. lane[t][c] + n - 1 : StateTyped' => SeenTo(t[1], L[m])'
    BY <1>2, <1>4, <1>13
  <2>8. lane[t][c] + n <= Len(stepsOf(t, c)) + 1
    BY <1>1, <1>2, <1>14
  <2> QED  BY <1>1, <1>6, <1>8, <1>11, <1>14, <2>2, <2>5, <2>6, <2>7, <2>8, StepsOn
<1> QED  BY <1>15, <1>16

(***************************************************************************)
(* The steps of the processes                                              *)
(***************************************************************************)
\* A process of which nothing changes moves.
LEMMA StaysPut ==
  ASSUME NEW q \in Procs, progress'[q] = progress[q], stage'[q] = stage[q],
         stored'[q] = stored[q], wired'[q] = wired[q],
         \A d \in Chains : lane'[<<q, "awaited">>][d] = lane[<<q, "awaited">>][d],
         q \in Testers => \A d \in Chains : lane'[<<q, "stray">>][d] = lane[<<q, "stray">>][d]
  PROVE  Moves(q)
<1>1. Keeps(q)
  BY DEF Keeps
<1>2. \A k \in 1 .. Len(Program[q]), d \in Chains : \A j \in 1 .. Len(Program[q][k][d]) :
        Passed(q, k, d, j)' => Passed(q, k, d, j)
  BY DEF Passed
<1> QED  BY <1>1, <1>2 DEF Moves

\* One process moves.
LEMMA ProcMoves ==
  ASSUME SuiteInOrder, SetupInv, NEW p \in Procs, Moves(p), StateTyped',
         progress'[p] # "waiting", \A q \in Procs : q # p => progress'[q] = progress[q] /\ stage'[q] = stage[q],
         p \in Testers => progress["boot"] = "returned",
         p = "boot" => progress["boot"] # "returned",
         \A q \in Procs : q # p => stored'[q] = stored[q] /\ wired'[q] = wired[q],
         \A u \in Threads : u[1] # p => lane'[u] = lane[u],
         ChainsGrow, NEW S, Sendable(S), loose' \subseteq loose \cup S, refused' = refused
  PROVE  SetupInv'
<1>1. /\ Testers \subseteq Procs /\ "boot" \in Procs /\ "boot" \notin Testers
      /\ \A q \in Procs : <<q, "awaited">> \in Threads
      /\ \A q \in Testers : <<q, "stray">> \in Threads
  BY ProgramOf DEF Procs, Threads, Scripts
<1>2. Grows
  <2>1. \A w \in Testers : progress[w] # "waiting" => progress'[w] # "waiting"
    BY <1>1
  <2> QED  BY <2>1 DEF Grows, ChainsGrow
<1>3. \A q \in Procs : Moves(q)
  <2>1. ASSUME NEW q \in Procs, q # p
        PROVE  Moves(q)
    <3>1. \A d \in Chains : lane'[<<q, "awaited">>][d] = lane[<<q, "awaited">>][d]
      BY <1>1, <2>1
    <3>2. q \in Testers => \A d \in Chains : lane'[<<q, "stray">>][d] = lane[<<q, "stray">>][d]
      BY <1>1, <2>1
    <3> QED  BY <2>1, <3>1, <3>2, StaysPut
  <2> QED  BY <2>1
<1>4. InStage' /\ Done' /\ Strays' /\ Singletons' /\ HalfWired'
  BY <1>2, <1>3, MovesKeep DEF SetupInv
<1>5. Started'
  <2> SUFFICES ASSUME NEW w \in Testers, progress'[w] # "waiting"
               PROVE  progress'["boot"] = "returned"
    BY DEF Started
  <2>1. progress["boot"] = "returned"
    BY <1>1 DEF SetupInv, Started
  <2> QED  BY <1>1, <2>1
<1>6. Pending'
  BY <1>2, StaysPending DEF SetupInv, Grows
<1>7. Seeded'
  BY SeededStays DEF SetupInv, ChainsGrow
<1>8. ~ refused'
  BY DEF SetupInv
<1> QED  BY <1>4, <1>5, <1>6, <1>7, <1>8 DEF SetupInv

\* The lanes of a process's next stage.
LEMMA AtStartLanes ==
  ASSUME StateTyped, NEW p \in Procs, lane' = AtStart(<<p, "awaited">>)
  PROVE  /\ lane' \in [Threads -> [Chains -> Nat]]
         /\ \A d \in Chains : lane'[<<p, "awaited">>][d] = 1
         /\ \A u \in Threads : u # <<p, "awaited">> => lane'[u] = lane[u]
<1>1. <<p, "awaited">> \in Threads
  BY DEF Threads
<1>2. lane \in [Threads -> [Chains -> Nat]]
  BY DEF StateTyped
<1>3. PICK t : t = <<p, "awaited">>
  OBVIOUS
<1>4. PICK f : f = [c \in Chains |-> 1]
  OBVIOUS
<1>5. f \in [Chains -> Nat] /\ \A d \in Chains : f[d] = 1
  BY <1>4
<1>6. lane' = [lane EXCEPT ![t] = f]
  BY <1>3, <1>4 DEF AtStart
<1>7. t \in Threads
  BY <1>1, <1>3
<1>8. lane' \in [Threads -> [Chains -> Nat]] /\ lane'[t] = f /\ \A u \in Threads : u # t => lane'[u] = lane[u]
  BY <1>2, <1>5, <1>6, <1>7
<1> QED  BY <1>3, <1>5, <1>8

\* All of a stage whose barrier is passed has been passed.
LEMMA StagePassed ==
  ASSUME SuiteInOrder, SetupInv, NEW p \in Procs, progress[p] = "running",
         \A c \in Chains : ~ Runs(<<p, "awaited">>, c),
         NEW k \in 1 .. Len(Program[p]), k <= stage[p], NEW d \in Chains, NEW j \in 1 .. Len(Program[p][k][d])
  PROVE  Passed(p, k, d, j)
<1>1. PICK t : t = <<p, "awaited">>
  OBVIOUS
<1>2. stage[p] \in 1 .. Len(Program[p]) /\ stage[p] \in Nat
  BY DEF SetupInv, InStage, StateTyped
<1>3. /\ DOMAIN Program[p] = 1 .. Len(Program[p])
      /\ Len(Program[p][stage[p]][d]) \in Nat
      /\ DOMAIN Program[p][stage[p]][d] = 1 .. Len(Program[p][stage[p]][d])
  BY <1>2, Lanes
<1>4. Lane(t, d) = Program[p][stage[p]][d]
  BY <1>1, <1>2, <1>3 DEF Lane
<1>5. lane[t][d] \notin 1 .. Len(Program[p][stage[p]][d])
  <2>1. t[1] = p /\ ~ Runs(t, d)
    BY <1>1
  <2> QED  BY <1>3, <1>4, <2>1 DEF Runs
<1>6. lane[t][d] \in 1 .. Len(Program[p][stage[p]][d]) + 1
  BY <1>1 DEF SetupInv, InStage
<1>7. lane[t][d] = Len(Program[p][stage[p]][d]) + 1
  <2>1. PICK n \in Nat : n = Len(Program[p][stage[p]][d])
    BY <1>3
  <2>2. PICK l : l = lane[t][d]
    OBVIOUS
  <2>3. l \in 1 .. n + 1 /\ l \notin 1 .. n
    BY <1>5, <1>6, <2>1, <2>2
  <2>4. l = n + 1
    <3>1. n \in Nat
      BY <2>1

    <3>2. l \in Nat /\ l <= n + 1 /\ 1 <= l
      BY <2>3, <3>1
    <3>3. ~ (l <= n)
      BY <2>3, <3>1, <3>2
    <3> QED  BY <3>1, <3>2, <3>3
  <2> QED  BY <2>1, <2>2, <2>4
<1>8. k = stage[p] => j < lane[t][d]
  BY <1>3, <1>7
<1>9. k < stage[p] \/ k = stage[p]
  BY <1>2
<1> QED  BY <1>1, <1>8, <1>9 DEF Passed

\* StageEnds() keeps the invariant: behind the barrier every lane is passed.
LEMMA StageEndsStep ==
  ASSUME SuiteInOrder, SetupInv, NEW p \in Procs, StageEnds(p), configured' = configured, replica' = replica
  PROVE  SetupInv'
<1>1. /\ progress[p] = "running" /\ (\A c \in Chains : ~ Runs(<<p, "awaited">>, c))
      /\ lane' = AtStart(<<p, "awaited">>) /\ loose' = loose /\ refused' = refused /\ chainVars' = chainVars
      /\ \/ /\ stage[p] < Len(Program[p]) /\ stage' = [stage EXCEPT ![p] = @ + 1]
            /\ progress' = progress /\ stored' = stored /\ wired' = wired
         \/ ~ (stage[p] < Len(Program[p])) /\ Ends(p, "returned")
  BY DEF StageEnds
<1>2. /\ StateTyped /\ stage[p] \in 1 .. Len(Program[p]) /\ Len(Program[p]) \in Nat \ {0}
      /\ progress \in [Procs -> {"waiting", "running", "returned", "threw"}] /\ stage \in [Procs -> Nat]
      /\ stored \in [Procs -> SUBSET Chains] /\ wired \in [Procs -> [Chains -> Nat]]
  BY Lanes DEF SetupInv, InStage, StateTyped
<1>3. /\ lane' \in [Threads -> [Chains -> Nat]]
      /\ \A d \in Chains : lane'[<<p, "awaited">>][d] = 1
      /\ \A u \in Threads : u # <<p, "awaited">> => lane'[u] = lane[u]
  BY <1>1, <1>2, AtStartLanes
<1>4. ChainsGrow
  BY <1>1, StandStill DEF chainVars
<1>5. \A u \in Threads : u[1] # p => lane'[u] = lane[u]
  BY <1>3
<1>6. p \in Testers => \A d \in Chains : lane'[<<p, "stray">>][d] = lane[<<p, "stray">>][d]
  BY <1>3 DEF Threads
<1>7. /\ progress' \in [Procs -> {"waiting", "running", "returned", "threw"}] /\ stage' \in [Procs -> Nat]
      /\ \A q \in Procs : q # p => progress'[q] = progress[q] /\ stage'[q] = stage[q]
      /\ \/ progress'[p] = "running" /\ stage'[p] = stage[p] + 1 /\ stage[p] < Len(Program[p])
         \/ progress'[p] = "returned" /\ stage'[p] = 1 /\ stage[p] = Len(Program[p])
  <2>1. CASE stage[p] < Len(Program[p]) /\ stage' = [stage EXCEPT ![p] = @ + 1] /\ progress' = progress
    BY <1>1, <1>2, <2>1
  <2>2. CASE ~ (stage[p] < Len(Program[p])) /\ Ends(p, "returned")
    <3>1. progress' = [progress EXCEPT ![p] = "returned"] /\ stage' = [stage EXCEPT ![p] = 1]
      BY <2>2 DEF Ends
    <3>2. stage[p] = Len(Program[p])
      BY <1>2, <2>2
    <3> QED  BY <1>2, <3>1, <3>2
  <2> QED  BY <1>1, <2>1, <2>2
<1>8. /\ stored' \in [Procs -> SUBSET Chains] /\ wired' \in [Procs -> [Chains -> Nat]]
      /\ \A q \in Procs : q # p => stored'[q] = stored[q] /\ wired'[q] = wired[q]
      /\ p \in Testers => stored'[p] = stored[p] /\ wired'[p] = wired[p]
  <2>1. CASE stored' = stored /\ wired' = wired
    BY <1>2, <2>1
  <2>2. CASE p \notin Testers /\ Ends(p, "returned")
    <3>1. stored' = [stored EXCEPT ![p] = {}] /\ wired' = [wired EXCEPT ![p] = [c \in Chains |-> 0]]
      BY <2>2 DEF Ends
    <3>2. [c \in Chains |-> 0] \in [Chains -> Nat]
      OBVIOUS
    <3>3. /\ stored' \in [Procs -> SUBSET Chains]
          /\ \A q \in Procs : q # p => stored'[q] = stored[q]
      BY <1>2, <3>1
    <3>4. /\ wired' \in [Procs -> [Chains -> Nat]]
          /\ \A q \in Procs : q # p => wired'[q] = wired[q]
      BY <1>2, <3>1, <3>2
    <3> QED  BY <2>2, <3>3, <3>4
  <2>3. Ends(p, "returned") /\ p \in Testers => stored' = stored /\ wired' = wired
    BY DEF Ends
  <2> QED  BY <1>1, <2>1, <2>2, <2>3
<1>9. StateTyped'
  BY <1>3, <1>4, <1>7, <1>8 DEF StateTyped, ChainsGrow, SetupInv
<1>10. Keeps(p)
  BY <1>8 DEF Keeps
<1>11. \A k \in 1 .. Len(Program[p]), d \in Chains : \A j \in 1 .. Len(Program[p][k][d]) :
         Passed(p, k, d, j)' => Passed(p, k, d, j)
  <2> SUFFICES ASSUME NEW k \in 1 .. Len(Program[p]), NEW d \in Chains, NEW j \in 1 .. Len(Program[p][k][d]),
                      Passed(p, k, d, j)'
               PROVE  Passed(p, k, d, j)
    OBVIOUS
  <2>1. lane'[<<p, "awaited">>][d] = 1 /\ j >= 1 /\ k \in Nat
    <3>1. lane'[<<p, "awaited">>][d] = 1
      BY <1>3
    <3>2. j >= 1 /\ k \in Nat
      OBVIOUS
    <3> QED  BY <3>1, <3>2
  <2>2. k <= stage[p]
    <3>1. CASE progress'[p] = "running" /\ stage'[p] = stage[p] + 1
      <4>1. k < stage[p] + 1
        BY <2>1, <3>1 DEF Passed
      <4> QED  BY <1>2, <2>1, <4>1
    <3>2. CASE stage[p] = Len(Program[p])
      BY <1>2, <3>2
    <3> QED  BY <1>7, <3>1, <3>2
  <2> QED  BY <1>1, <2>2, StagePassed
<1>12. Moves(p)
  <2>1. stage'[p] \in 1 .. Len(Program[p]) /\ (progress'[p] # "running" => stage'[p] = 1)
    BY <1>2, <1>7
  <2> QED  BY <1>3, <1>6, <1>8, <1>10, <1>11, <2>1 DEF Moves
<1>13. p \in Testers => progress["boot"] = "returned"
  BY <1>1 DEF SetupInv, Started
<1>14. p = "boot" => progress["boot"] # "returned"
  BY <1>1
<1>15. progress'[p] # "waiting"
  BY <1>7
<1>16. Sendable({}) /\ loose' \subseteq loose \cup {}
  BY <1>1, NothingSendable
<1> QED  BY <1>1, <1>4, <1>5, <1>7, <1>8, <1>9, <1>12, <1>13, <1>14, <1>15, <1>16, ProcMoves

\* Start() keeps the invariant.
LEMMA StartStep ==
  ASSUME SuiteInOrder, SetupInv, NEW p \in Procs, Start(p), configured' = configured, replica' = replica
  PROVE  SetupInv'
<1>1. /\ progress[p] = "waiting" /\ MayStart(p) /\ progress' = [progress EXCEPT ![p] = "running"]
      /\ stage' = stage /\ chainVars' = chainVars /\ refused' = refused
      /\ lane' = lane /\ stored' = stored /\ wired' = wired /\ loose' = loose
  BY DEF Start, Begin
<1>2. /\ progress \in [Procs -> {"waiting", "running", "returned", "threw"}]
      /\ "boot" \notin Testers /\ Testers \cap Scripts = {}
  BY ProgramOf DEF SetupInv, StateTyped, Scripts
<1>3. /\ progress' \in [Procs -> {"waiting", "running", "returned", "threw"}]
      /\ progress'[p] = "running" /\ \A q \in Procs : q # p => progress'[q] = progress[q]
  BY <1>1, <1>2
<1>4. ChainsGrow
  BY <1>1, StandStill DEF chainVars
<1>5. StateTyped'
  BY <1>1, <1>3, <1>4 DEF SetupInv, StateTyped, ChainsGrow
<1>6. /\ stage[p] = 1 /\ stage[p] \in 1 .. Len(Program[p])
      /\ \A d \in Chains : lane[<<p, "awaited">>][d] = 1
  BY <1>1 DEF SetupInv, InStage
<1>7. Keeps(p)
  BY <1>1 DEF Keeps
<1>8. \A k \in 1 .. Len(Program[p]), d \in Chains : \A j \in 1 .. Len(Program[p][k][d]) : ~ Passed(p, k, d, j)'
  <2> SUFFICES ASSUME NEW k \in 1 .. Len(Program[p]), NEW d \in Chains, NEW j \in 1 .. Len(Program[p][k][d])
               PROVE  ~ Passed(p, k, d, j)'
    OBVIOUS
  <2>1. ~ (k < 1) /\ ~ (j < 1)
    OBVIOUS
  <2> QED  BY <1>1, <1>3, <1>6, <2>1 DEF Passed
<1>9. Moves(p)
  BY <1>1, <1>6, <1>7, <1>8 DEF Moves
<1>10. p \in Testers => progress["boot"] = "returned"
  BY <1>1, <1>2 DEF MayStart, Scripts
<1>11. Sendable({}) /\ loose' \subseteq loose \cup {}
  BY <1>1, NothingSendable
<1>12. progress'[p] # "waiting"
  BY <1>3
<1>13. \A q \in Procs : q # p => progress'[q] = progress[q] /\ stage'[q] = stage[q]
  BY <1>1, <1>3
<1>14. p = "boot" => progress["boot"] # "returned"
  BY <1>1
<1>15. \A u \in Threads : u[1] # p => lane'[u] = lane[u]
  BY <1>1
<1>16. \A q \in Procs : q # p => stored'[q] = stored[q] /\ wired'[q] = wired[q]
  BY <1>1
<1> QED  BY <1>1, <1>4, <1>5, <1>9, <1>10, <1>11, <1>12, <1>13, <1>14, <1>15, <1>16, ProcMoves

\* StartAgain() keeps the invariant, in the same process or in a new one.
LEMMA StartAgainStep ==
  ASSUME SuiteInOrder, SetupInv, NEW p \in Procs, StartAgain(p), configured' = configured, replica' = replica
  PROVE  SetupInv'
<1>1. /\ progress[p] = "threw" \/ (progress[p] = "returned" /\ p \in Testers)
      /\ p \in {"boot"} \cup Testers
      /\ MayStart(p) /\ progress' = [progress EXCEPT ![p] = "running"]
      /\ stage' = stage /\ chainVars' = chainVars /\ refused' = refused
      /\ \/ stored' = stored /\ wired' = wired /\ lane' = lane /\ loose' = loose
         \/ /\ stored' = [stored EXCEPT ![p] = {}]
            /\ wired' = [wired EXCEPT ![p] = [c \in Chains |-> 0]]
            /\ IF p \in Testers
                 THEN /\ lane' = [lane EXCEPT ![<<p, "stray">>] = [c \in Chains |-> 0]]
                      /\ \E sent \in SUBSET InFlight(<<p, "stray">>, Hub) : loose' = loose \cup sent
                 ELSE lane' = lane /\ loose' = loose
  BY DEF StartAgain, Begin
<1>2. /\ progress \in [Procs -> {"waiting", "running", "returned", "threw"}]
      /\ lane \in [Threads -> [Chains -> Nat]]
      /\ stored \in [Procs -> SUBSET Chains] /\ wired \in [Procs -> [Chains -> Nat]]
      /\ "boot" \notin Testers /\ Testers \cap Scripts = {}
  BY ProgramOf DEF SetupInv, StateTyped, Scripts
<1>3. /\ progress' \in [Procs -> {"waiting", "running", "returned", "threw"}]
      /\ progress'[p] = "running" /\ \A q \in Procs : q # p => progress'[q] = progress[q]
  BY <1>1, <1>2
<1>4. ChainsGrow
  BY <1>1, StandStill DEF chainVars
<1>5. PICK f : f = [c \in Chains |-> 0]
  OBVIOUS
<1>6. f \in [Chains -> Nat] /\ \A d \in Chains : f[d] = 0
  BY <1>5
<1>7. PICK y : y = <<p, "stray">>
  OBVIOUS
<1>8. /\ p \in Testers => y \in Threads
      /\ <<p, "awaited">> # y /\ \A u : u[1] # p => u # y
  BY <1>7 DEF Threads
<1>9. /\ stored' \in [Procs -> SUBSET Chains]
      /\ \A q \in Procs : q # p => stored'[q] = stored[q]
      /\ stored' = stored \/ stored'[p] = {}
  <2>1. CASE stored' = stored
    BY <1>2, <2>1
  <2>2. CASE stored' = [stored EXCEPT ![p] = {}]
    BY <1>2, <2>2
  <2> QED  BY <1>1, <2>1, <2>2
<1>10. /\ wired' \in [Procs -> [Chains -> Nat]]
       /\ \A q \in Procs : q # p => wired'[q] = wired[q]
  <2>1. CASE wired' = wired
    BY <1>2, <2>1
  <2>2. CASE wired' = [wired EXCEPT ![p] = f]
    BY <1>2, <1>6, <2>2
  <2> QED  BY <1>1, <1>5, <2>1, <2>2
<1>11. /\ lane' \in [Threads -> [Chains -> Nat]]
       /\ \A u \in Threads : u # y => lane'[u] = lane[u]
       /\ \/ lane' = lane
          \/ p \in Testers /\ lane'[y] = f
  <2>1. CASE lane' = lane
    BY <1>2, <2>1
  <2>2. CASE p \in Testers /\ lane' = [lane EXCEPT ![y] = f]
    <3>1. y \in Threads
      BY <1>8, <2>2
    <3> QED  BY <1>2, <1>6, <2>2, <3>1
  <2> QED  BY <1>1, <1>5, <1>7, <2>1, <2>2
<1>12. StateTyped'
  BY <1>1, <1>3, <1>4, <1>9, <1>10, <1>11 DEF SetupInv, StateTyped, ChainsGrow
<1>13. /\ stage[p] = 1 /\ stage[p] \in 1 .. Len(Program[p])
       /\ \A d \in Chains : lane[<<p, "awaited">>][d] = 1
  BY <1>1 DEF SetupInv, InStage
<1>14. \A d \in Chains : lane'[<<p, "awaited">>][d] = 1
  <2>1. <<p, "awaited">> \in Threads
    BY DEF Threads
  <2> QED  BY <1>8, <1>11, <1>13, <2>1
<1>15. \A k \in 1 .. Len(Program[p]), d \in Chains : \A j \in 1 .. Len(Program[p][k][d]) : ~ Passed(p, k, d, j)'
  <2> SUFFICES ASSUME NEW k \in 1 .. Len(Program[p]), NEW d \in Chains, NEW j \in 1 .. Len(Program[p][k][d])
               PROVE  ~ Passed(p, k, d, j)'
    OBVIOUS
  <2>1. ~ (k < 1) /\ ~ (j < 1)
    OBVIOUS
  <2> QED  BY <1>1, <1>3, <1>13, <1>14, <2>1 DEF Passed
<1>16. (stored'[p] = stored[p] /\ wired'[p] = wired[p]) \/ stored'[p] = {}
  <2>1. CASE stored' = stored /\ wired' = wired
    BY <2>1
  <2>2. CASE stored' = [stored EXCEPT ![p] = {}]
    BY <1>2, <2>2
  <2> QED  BY <1>1, <2>1, <2>2
<1>17. p \in Testers => \A d \in Chains :
         \/ lane'[<<p, "stray">>][d] = 0
         \/ lane'[<<p, "stray">>][d] = lane[<<p, "stray">>][d] /\ Keeps(p)
  <2>1. CASE stored' = stored /\ lane' = lane
    BY <2>1 DEF Keeps
  <2>2. CASE p \in Testers /\ lane' = [lane EXCEPT ![y] = f]
    <3>1. lane'[y] = f
      BY <1>2, <1>8, <2>2
    <3> QED  BY <1>6, <1>7, <3>1
  <2> QED  BY <1>1, <1>5, <1>7, <2>1, <2>2
<1>18. Moves(p)
  <2>1. stage'[p] \in 1 .. Len(Program[p]) /\ (progress'[p] # "running" => stage'[p] = 1)
    BY <1>1, <1>13
  <2> QED  BY <1>14, <1>15, <1>16, <1>17, <2>1 DEF Moves
<1>19. p \in Testers => progress["boot"] = "returned"
  BY <1>1, <1>2 DEF MayStart, Scripts
<1>20. \E S : Sendable(S) /\ loose' \subseteq loose \cup S
  <2>1. CASE loose' = loose
    BY <2>1, NothingSendable
  <2>2. CASE p \in Testers /\ \E sent \in SUBSET InFlight(<<p, "stray">>, Hub) : loose' = loose \cup sent
    <3>1. <<p, "stray">> \in Threads
      BY <1>7, <1>8, <2>2
    <3>2. Sendable(InFlight(<<p, "stray">>, Hub))
      BY <3>1, HubIsAChain, InFlightSendable DEF SetupInv
    <3>3. loose' \subseteq loose \cup InFlight(<<p, "stray">>, Hub)
      BY <2>2
    <3> QED  BY <3>2, <3>3
  <2> QED  BY <1>1, <2>1, <2>2
<1>21. PICK S : Sendable(S) /\ loose' \subseteq loose \cup S
  BY <1>20
<1>22. progress'[p] # "waiting"
  BY <1>3
<1>23. \A q \in Procs : q # p => progress'[q] = progress[q] /\ stage'[q] = stage[q]
  BY <1>1, <1>3
<1>24. p = "boot" => progress["boot"] # "returned"
  BY <1>1, <1>2
<1>25. \A u \in Threads : u[1] # p => lane'[u] = lane[u]
  BY <1>8, <1>11
<1>26. \A q \in Procs : q # p => stored'[q] = stored[q] /\ wired'[q] = wired[q]
  BY <1>9, <1>10
<1> QED  BY <1>1, <1>4, <1>12, <1>18, <1>19, <1>21, <1>22, <1>23, <1>24, <1>25, <1>26, ProcMoves

\* Every step of a thread keeps the invariant.
LEMMA ThreadStepKeeps ==
  ASSUME SuiteInOrder, SetupInv, NEW t \in Threads, NEW c \in Chains, ThreadStep(t, c),
         configured' = configured, replica' = replica
  PROVE  SetupInv'
<1>1. CASE Look(t, c)
  BY <1>1, LookStep DEF ThreadStep
<1>2. CASE Read(t, c)
  BY <1>2, ReadStep DEF ThreadStep
<1>3. CASE ReadFails(t, c)
  BY <1>3, ReadFailsStep DEF ThreadStep
<1>4. CASE Mined(t, c)
  BY <1>4, MinedStep DEF ThreadStep
<1>5. CASE Refused(t, c)
  BY <1>5, RefusedStep DEF ThreadStep
<1>6. CASE SendFails(t, c)
  BY <1>6, SendFailsStep DEF ThreadStep
<1>7. CASE Poll(t, c)
  BY <1>7, PollStep DEF ThreadStep
<1> QED  BY <1>1, <1>2, <1>3, <1>4, <1>5, <1>6, <1>7 DEF ThreadStep

\* The processes stand still.
LEMMA MeshOn ==
  ASSUME SuiteInOrder, SetupInv, UNCHANGED <<progress, stage, lane, stored, wired, refused>>,
         StateTyped', Grows, loose' \subseteq loose
  PROVE  SetupInv'
<1>1. \A p \in Procs : Moves(p)
  BY StaysPut
<1>2. InStage' /\ Done' /\ Strays' /\ Singletons' /\ HalfWired'
  BY <1>1, MovesKeep DEF SetupInv
<1>3. Started'
  BY DEF SetupInv, Started
<1>4. Pending'
  <2>1. Sendable({}) /\ loose' \subseteq loose \cup {}
    BY NothingSendable
  <2> QED  BY <2>1, StaysPending DEF SetupInv
<1>5. Seeded'
  BY SeededStays DEF SetupInv, Grows
<1>6. ~ refused'
  BY DEF SetupInv
<1> QED  BY <1>2, <1>3, <1>4, <1>5, <1>6 DEF SetupInv

\* SettlesLate() keeps the invariant, whatever is mined or dropped late.
LEMMA SettlesLateStep ==
  ASSUME SuiteInOrder, SetupInv, SettlesLate
  PROVE  SetupInv'
<1>1. PICK s \in loose :
        /\ loose' = loose \ {s}
        /\ (Affords(s) /\ Effect(s)) \/ UNCHANGED chainVars
        /\ UNCHANGED <<procVars, meshVars, configured, refused, faults>>
  BY DEF SettlesLate
<1>2. UNCHANGED <<progress, stage, lane, stored, wired, refused, configured, replica>> /\ loose' \subseteq loose
  BY <1>1 DEF procVars, meshVars
<1>3. ChainsGrow
  <2>1. CASE UNCHANGED chainVars
    BY <1>2, <2>1, StandStill DEF chainVars
  <2>2. CASE Affords(s) /\ Effect(s)
    <3>1. /\ s.on \in Chains /\ (s.op = "fund" => s.to[1] \in Workers)
          /\ s.op = "pay" => s.by[1] \in Workers /\ \E w \in Testers : progress[w] # "waiting"
      BY DEF SetupInv, Pending
    <3>2. StateTyped
      BY DEF SetupInv
    <3>3. /\ members \subseteq members' /\ (mapped => mapped')
          /\ balance' \in [Chains -> [Workers -> Nat]]
          /\ \/ \E w \in Testers : progress[w] # "waiting"
             \/ \A d \in Chains, w \in Workers : balance'[d][w] >= balance[d][w]
      BY <2>2, <3>1, <3>2, EffectGrows
    <3> QED  BY <1>2, <3>3 DEF ChainsGrow
  <2> QED  BY <1>1, <2>1, <2>2
<1>4. Grows
  BY <1>2, <1>3 DEF Grows, ChainsGrow
<1>5. StateTyped'
  BY <1>2, <1>3 DEF SetupInv, StateTyped, ChainsGrow
<1> QED  BY <1>2, <1>4, <1>5, MeshOn

\* Mesh keeps the invariant: a replica that is active stays so.
LEMMA MeshStep ==
  ASSUME SuiteInOrder, SetupInv, Mesh
  PROVE  SetupInv'
<1>1. PICK n \in Nodes : Register(n) \/ Deliver(n)
  BY DEF Mesh
<1>2. /\ UNCHANGED <<progress, stage, lane, stored, wired, refused, configured>>
      /\ loose' \subseteq loose /\ members' = members /\ balance' = balance /\ mapped' = mapped
  BY DEF Mesh, procVars
<1>3. /\ replica \in [Nodes -> {"none", "stale", "active"}]
      /\ balance \in [Chains -> [Workers -> Nat]] /\ StateTyped
  BY DEF SetupInv, StateTyped
<1>4. /\ replica' \in [Nodes -> {"none", "stale", "active"}]
      /\ \A m \in Nodes : replica[m] = "active" => replica'[m] = "active"
  <2>1. CASE replica' = replica
    BY <1>3, <2>1
  <2>2. CASE replica[n] = "none" /\ \E r \in {"stale", "active"} : replica' = [replica EXCEPT ![n] = r]
    BY <1>3, <2>2
  <2>3. CASE replica' = [replica EXCEPT ![n] = "active"]
    BY <1>3, <2>3
  <2> QED  BY <1>1, <2>1, <2>2, <2>3 DEF Register, Deliver
<1>5. StateTyped'
  BY <1>2, <1>3, <1>4 DEF StateTyped
<1>6. Grows
  <2>1. \A c \in Chains, w \in Workers : balance'[c][w] >= balance[c][w]
    BY <1>2, <1>3
  <2> QED  BY <1>2, <1>4, <2>1 DEF Grows
<1> QED  BY <1>2, <1>5, <1>6, MeshOn

\* The initial states satisfy the invariant.
LEMMA SetupStarts ==
  ASSUME SuiteInOrder, SetupInit
  PROVE  SetupInv
<1>1. /\ progress = [p \in Procs |-> "waiting"] /\ stage = [p \in Procs |-> 1]
      /\ lane = [t \in Threads |-> [c \in Chains |-> IF t[2] = "stray" THEN 0 ELSE 1]]
      /\ stored = [p \in Procs |-> {}] /\ wired = [p \in Procs |-> [c \in Chains |-> 0]]
      /\ configured \in {Chains, Chains \ {Last(getActiveNodes)}}
      /\ members = Chains \X {"ADMIN"} \X {seed}
      /\ balance = [c \in Chains |-> [w \in Workers |-> 0]]
      /\ mapped = FALSE /\ loose = {} /\ replica = [n \in Nodes |-> "none"] /\ refused = FALSE
  BY DEF SetupInit
<1>2. /\ Testers \subseteq Procs
      /\ \A q \in Procs : <<q, "awaited">> \in Threads
      /\ \A q \in Testers : <<q, "stray">> \in Threads
  BY DEF Procs, Threads
<1>3. StateTyped
  <2>1. lane \in [Threads -> [Chains -> Nat]]
    BY <1>1
  <2>2. balance \in [Chains -> [Workers -> Nat]] /\ wired \in [Procs -> [Chains -> Nat]]
    BY <1>1
  <2> QED  BY <1>1, <2>1, <2>2 DEF StateTyped
<1>4. InStage
  <2> SUFFICES ASSUME NEW p \in Procs
               PROVE  /\ stage[p] \in 1 .. Len(Program[p])
                      /\ \A c \in Chains : lane[<<p, "awaited">>][c] \in 1 .. Len(Program[p][stage[p]][c]) + 1
                      /\ progress[p] # "running" => stage[p] = 1 /\ \A c \in Chains : lane[<<p, "awaited">>][c] = 1
    BY DEF InStage
  <2>1. stage[p] = 1 /\ \A c \in Chains : lane[<<p, "awaited">>][c] = 1
    BY <1>1, <1>2
  <2>2. 1 \in 1 .. Len(Program[p])
    BY Lanes
  <2>3. \A c \in Chains : 1 \in 1 .. Len(Program[p][1][c]) + 1
    BY <2>2, Lanes
  <2> QED  BY <2>1, <2>2, <2>3
<1>5. Done
  <2>1. \A p \in Tracked : p \in Procs /\ progress[p] = "waiting"
    BY <1>1, <1>2 DEF Tracked, Procs, Scripts
  <2> QED  BY <2>1 DEF Done, Passed
<1>6. Strays
  <2> SUFFICES ASSUME NEW p \in Testers, NEW c \in Chains
               PROVE  /\ lane[<<p, "stray">>][c] = 0 /\ 0 \in 0 .. Len(Program[p][GrantStage][c])
                      /\ \A j \in 1 .. 0 - 1 : FALSE
    BY DEF Strays
  <2>1. lane[<<p, "stray">>][c] = 0
    BY <1>1, <1>2
  <2>2. Len(Program[p][GrantStage][c]) \in Nat
    <3>1. p \in Procs /\ Len(Program[p]) = 4
      BY <1>2, TesterProgram
    <3>2. GrantStage \in 1 .. Len(Program[p])
      BY <3>1 DEF GrantStage
    <3> QED  BY <3>1, <3>2, Lanes
  <2> QED  BY <2>1, <2>2
<1>7. Started
  BY <1>1, <1>2 DEF Started
<1>8. Pending
  BY <1>1 DEF Pending
<1>9. Seeded
  <2>1. \A c \in Chains : <<c, "ADMIN", seed>> \in members
    BY <1>1
  <2>2. Hub \in configured /\ configured \subseteq Chains
    <3>1. Len(getActiveNodes) \in Nat /\ Len(getActiveNodes) >= 1 /\ getActiveNodes \in Seq(Nodes)
      BY ChainAssumption, LenProperties
    <3>2. Last(getActiveNodes) \in Nodes
      BY <3>1, ElementOfSeq DEF Last
    <3>3. Last(getActiveNodes) # Hub
      BY <3>2, ChainAssumption
    <3> QED  BY <1>1, <3>3, HubIsAChain
  <2> QED  BY <2>1, <2>2 DEF Seeded
<1>10. Singletons
  BY <1>1, <1>2 DEF Singletons
<1>11. HalfWired
  BY <1>1, <1>2 DEF HalfWired
<1> QED  BY <1>1, <1>3, <1>4, <1>5, <1>6, <1>7, <1>8, <1>9, <1>10, <1>11 DEF SetupInv

\* Every step keeps the invariant.
LEMMA SetupNextKeeps ==
  ASSUME SuiteInOrder, SetupInv, [SetupNext]_setupVars
  PROVE  SetupInv'
<1>1. CASE UNCHANGED setupVars
  BY <1>1, Unmoved DEF setupVars, procVars, chainVars, meshVars
<1>2. CASE SettlesLate
  BY <1>2, SettlesLateStep
<1>3. CASE Mesh
  BY <1>3, MeshStep
<1>4. ASSUME NEW p \in Procs, ProcStep(p)
      PROVE  SetupInv'
  <2>1. configured' = configured /\ replica' = replica
    BY <1>4 DEF ProcStep, meshVars
  <2>2. CASE StageEnds(p)
    BY <2>1, <2>2, StageEndsStep
  <2>3. CASE Start(p)
    BY <2>1, <2>3, StartStep
  <2>4. CASE StartAgain(p)
    BY <2>1, <2>4, StartAgainStep
  <2>5. CASE \E t \in Threads, c \in Chains : t[1] = p /\ ThreadStep(t, c)
    BY <2>1, <2>5, ThreadStepKeeps
  <2> QED  BY <1>4, <2>2, <2>3, <2>4, <2>5 DEF ProcStep
<1> QED  BY <1>1, <1>2, <1>3, <1>4 DEF SetupNext

\* The invariant holds in every reachable state.
LEMMA SetupAlways ==
  ASSUME SuiteInOrder
  PROVE  SetupSpec => []SetupInv
<1>1. SetupInit => SetupInv
  BY SetupStarts
<1>2. SetupInv /\ [SetupNext]_setupVars => SetupInv'
  BY SetupNextKeeps
<1> QED  BY <1>1, <1>2, PTL DEF SetupSpec

\* For every number of workers above one, every set of nodes and every test: a
\* bootstrap script that exits with 0 has left every worker's wallet the admin role wherever
\* there is a registry, and enough ETH on every chain for the tests to start.
THEOREM WorkersReady == SuiteInOrder => (SetupSpec => []BootstrapExitMeansReady)
<1> SUFFICES ASSUME SuiteInOrder
             PROVE  SetupSpec => []BootstrapExitMeansReady
  OBVIOUS
<1>1. SetupInv => BootstrapExitMeansReady
  BY AdminsReady DEF SetupInv, BootstrapExitMeansReady
<1> QED  BY <1>1, SetupAlways, PTL

\* And no access manager ever refuses a transaction of a setup or a test, though the
\* roles are granted along a chain of wallets, by calls that may fail half way and be
\* repeated, and by strays that nobody waits for.
THEOREM NoneRefused == SuiteInOrder => (SetupSpec => []NoGrantRefused)
<1> SUFFICES ASSUME SuiteInOrder
             PROVE  SetupSpec => []NoGrantRefused
  OBVIOUS
<1>1. SetupInv => NoGrantRefused
  BY DEF SetupInv, NoGrantRefused
<1> QED  BY <1>1, SetupAlways, PTL

\* And a test body that runs finds what initializePrivacyNodesAndPnh() is for: wired
\* singletons, the roles of its wallets, the freeze selectors and active replicas.
THEOREM HookDone == SuiteInOrder => (SetupSpec => []SetupReturnedMeansOperational)
<1> SUFFICES ASSUME SuiteInOrder
             PROVE  SetupSpec => []SetupReturnedMeansOperational
  OBVIOUS
<1>1. SetupInv => SetupReturnedMeansOperational
  <2> SUFFICES ASSUME SetupInv, NEW w \in Testers,
                      (progress[w] = "running" /\ stage[w] = TestStage) \/ progress[w] = "returned"
               PROVE  /\ \A c \in ToSet(Used) \cup {Hub} : c \in stored[w] /\ wired[w][c] = 2
                      /\ \A n \in ToSet(Used) :
                           /\ <<n, "PRIVACY_NODE_OPERATOR", operatorWallet(w)>> \in members
                           /\ <<n, "BANK_EMPLOYEE", bankEmployeeWallet(w)>> \in members
                           /\ replica[n] = "active"
                      /\ <<Hub, "PRIVATE_NETWORK_OPERATOR", operatorWallet(w)>> \in members
                      /\ <<Hub, "COMPLIANCE_OFFICER", complianceWallet(w)>> \in members
                      /\ mapped
    BY DEF SetupReturnedMeansOperational
  <2>1. StateTyped /\ Done /\ Singletons /\ Seeded
    BY DEF SetupInv
  <2>2. Beyond(w, 1) /\ Beyond(w, 2) /\ Beyond(w, 3)
    BY DEF Beyond, TestStage
  <2>3. ToSet(Used) \subseteq stored[w]
    BY <2>1, <2>2, UsedReady
  <2>4. /\ Hub \in stored[w] /\ mapped
        /\ <<Hub, "PRIVATE_NETWORK_OPERATOR", operatorWallet(w)>> \in members
        /\ <<Hub, "COMPLIANCE_OFFICER", complianceWallet(w)>> \in members
        /\ \A n \in ToSet(Used) : replica[n] = "active"
    BY <2>1, <2>2, HubReady
  <2>5. \A c \in ToSet(Used) \cup {Hub} : c \in stored[w] /\ wired[w][c] = 2
    BY <2>1, <2>3, <2>4 DEF Singletons
  <2>6. \A n \in ToSet(Used) :
          /\ <<n, "PRIVACY_NODE_OPERATOR", operatorWallet(w)>> \in members
          /\ <<n, "BANK_EMPLOYEE", bankEmployeeWallet(w)>> \in members
    BY <2>1, <2>2, NodesReady
  <2> QED  BY <2>4, <2>5, <2>6
<1> QED  BY <1>1, SetupAlways, PTL
=============================================================================
