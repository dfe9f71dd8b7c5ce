# TLA+ models of the Rayls sovereign test automation

This directory holds TLA+ modules that model the machinery of this repository:
the parallel test runner, the setup of workers and nodes, the helpers that submit
transactions, inject and observe crashes, freeze tokens and drive the ops-api. TLC checks small instances (`*.cfg`), TLAPS
proves theorems for every value of the constants (`*Proofs.tla`), and
`PROJECT.json` ties each definition to the lines it stands for.

Contents: [the system](#the-system) · [modules](#modules-and-what-they-stand-for) ·
[runs](#runs) · [fairness](#fairness) · [proofs](#proofs) ·
[disagreements](#where-the-code-and-its-text-disagree) ·
[limits](#what-is-left-out)

Paths such as `common.ts:224` are below the repository's `src/`, `test/` or `scripts/`.

## The system

The repository tests a private blockchain network from outside: privacy nodes, a
private hub, a public chain, relayers that carry messages between them, and one
ops-api per privacy node. Some 85 % of its TypeScript are test scenarios; the rest is
the machinery those scenarios trust, and it is that machinery that is modelled.
A wrong step there makes a correct product look broken, or hides a broken one.

### Components, their state and what they must guarantee

| Component | State | Operations | Must guarantee |
|---|---|---|---|
| **Parallel runner** `scripts/runners/base-parallel-runner.js` | phase, queue cursor, bail flag, one child per slot, report files on disk | bootstrap, serial child, recovery gate, slots, merge, exit | exit 0 only if all passed; serial files alone; each file once; no child or report left behind or lost |
| **Relayer recovery gate** same file, `:420-460` | none but the uptimes it reads | poll `docker ps`, sleep | opens only on relayers that have been up long enough; opens at last |
| **Transaction submission** `utils/common.ts` | attempts, nonce read, receipt awaited | `retry`, `sendTx`, `submitTx`, `waitForReceipt` | one effect per call; the receipt returned is the call's own; always settles |
| **Polling** `utils/common.ts` | attempt, last error | `poll`, `eventually`, `never` | ends; sees what happened in time |
| **Crash observation** `test-utils/resilience-helpers.ts` | `prevAlive`, `crashCount`, `restarts`, deadline | probe, confirm, restart, wait, check the side effect | no crash counted that did not happen, none hidden |
| **Fault client** `utils/fault-injector.ts` | a session per test; rules and a trigger log on the server | `newSession`, `arm`, `clear...`, `status`, `triggerCount`, `isAlive`, `waitForCrash`, `waitUntilAlive`, `assertLiveAfter` | a test that passes saw its own faults; none of its rules outlives it; every wait ends |
| **Docker control** `utils/docker-compose.ts` | none | `stop`, `start`, `restart`, `kill`, `ensureRunning`, `waitForCompose` | a failed restart is reported; what one test repairs no other one undoes |
| **Batch transfers** `test-utils/batch-transactions-helpers.ts` and its sender and builder | base nonce, chunk results | sign, send in chunks, start over on a nonce conflict | exactly `count` transfers; no hole in the nonces |
| **Hub freezes** `test-utils/freeze-helpers.ts` | hub and replica registries | freeze, unfreeze, poll the replicas, clean up | the status waited for lasts; the next test starts clean |
| **Backend flows** `flows/backend/*`, `api/*` | the flow's step and attempt; the node's tokens, pairs, custody | register, update, freeze, submit, onboard, teleport | a flow that returns has done its work; none moves tokens twice unnoticed |
| **Setup** `test/setup.ts`, `entities/PrivacyNode.ts`, `PrivateHub.ts`, `ContractStore.ts`, `utils/wallet-factory.ts` | instances per process, their contracts; roles on each chain | `getInstance`, `initialize`, the `grant...` methods, wait for the replicas | a test body finds wired instances, its roles and all replicas |
| **Wallet bootstrap** `scripts/runners/bootstrap-worker-wallets.ts` | none but the chains | grant ADMIN, fund, per chain side by side | exit 0 only if every worker can act everywhere |
| **Environment scripts** `wait-for-participants.ts`, `unfreeze-participants.ts` | none | poll the hub; ask stale nodes to synchronise | end |
| **Token wrappers** `entities/tokens/` | resource id, address per node | activate on node, hub and public chain, mint, teleport | remembers its own token only; a leg returns when the next one may start |
| **Deposit watch**, **logging**, **shell scripts**, **suites** | see `PROJECT.json` | | |

### How they interact

The runner starts mocha children. They share nothing but the chain, the nodes and
the report directory, yet a child's tests use the same node user and the same ops-api
as those of its siblings. Before any of them runs, the bootstrap has made every worker's
wallet an admin; each child's `before` hooks then take the roles their tests need. Inside a child
everything is asynchronous JavaScript: **code between two awaits is atomic, every
await is a point where the other calls, the chain, a relayer or a timer may step in.**
That is the granularity of every model here. Below the child is the world the code
does not control: pools that lose or replace transactions, relayers that crash and
restart, answers that come late or as errors although the work was done.

### What is hard

* Slots of the runner that wake in any order over one cursor and one bail flag.
* A receipt timeout that races the transaction it gives up on, and nested retries.
* Probes that answer late, and a restart that only half happens.
* Polls satisfied by a state that is about to be overwritten.
* Retries of writes that were done although their answer says otherwise.
* Chains that agree late: what one leg of a token's activation returns on must be what
  the next one requires, and two tests register tokens in one list.
* Tests that crash and repair one relayer side by side, with control calls whose fate is
  unknown.
* Roles that are granted by wallets which were granted theirs by another process, and
  setups that fail half way and are repeated in the same process.
* Rounding: docker words an uptime, and the gate reads the words.

`PROJECT.json` lists each hazard at its line with the properties that cover it, and
says so where none does yet.

## Modules and what they stand for

A component `X` is `X.tla` (state and actions), `XProps.tla` (properties),
`XProofs.tla` (theorems), `MCX.tla` (the constants' values for TLC). The theorems about
CrashObserver and RelayerRecovery, the suite's two ways to judge a relayer from outside,
share `RelayerHealthProofs`, as they share the run of `SerialPhase`; those about the runner and about what has to be in place before
its tests run share `SuiteProofs`.
Definitions named "Mutant" in a component module are plausible bugs of it: each
property is known to fail when the matching definition is replaced by its mutant.

**WorkQueue** and **AtomicCall** are abstract. The first says what a parallel run
promises its caller: a file is executed at most once, success means that all were
executed and passed, failure leaves nothing running. The second says what a
test expects of one write: it takes effect at most once, a call returns only after
it, and after a throw it never does.

**ParallelRunner** models `run()` as its phases (`bootstrap`, `serial`,
`recovery`, `parallel`, `exited`) and each `runSlot()` as `idle`, `waiting` (its
stagger), `running` (its child) or `done`. When a child closes, its slot books
the result and takes the next file in one step, because there is no await between.
Report files persist, so the program is run `MaxRuns` times over one directory and
may be killed at any point; a merge may fail. Mocha, the files and durations are
data. `Partition` is the work of the two subclasses.

**RelayerRecovery** keeps an uptime per relayer and passes it through
`HumanDuration` (the Go library docker uses) and the gate's regular expression.
The loop, its interval and the catch around `docker ps` are the actions; relayers
restart and stop in between.

**SerialPhase** composes CrashObserver and RelayerRecovery as `run()` does: the crash-loop
test (`@serial`) watches its relayer, fails if it counted a crash, and only after a serial
phase that passed does the gate look at the uptimes, whatever the serial files have made of
them.

**TxSubmit** has calls of `submitTx()` and `sendTx()` with one wallet. A call reads
the pending nonce, broadcasts and races its receipt against a timer; the node
keeps one pooled transaction per nonce, mines in order, replaces, reverts and, if
`Evicts`, loses transactions. `SlowChain` lets a receipt be later than the timer,
`FlakyRpc` garbles an answer although the transaction was taken. `retry()` and the
outer loop of `submitTx()` are two nested budgets.

**CrashObserver** is `observeRelayerCrashLoop()`: a program counter over its awaits
(`probe`, `restart`, `wait`, `check`), with ticks for its delays. The relayer is
`up`, `frozen` by a crash, `stopped` by a half-done restart, or `booting`, and
changes between any two awaits. A live relayer may answer late `MaxSlow` times in a row.

**BatchSend** has calls that share a signer. The node takes the
transactions of a chunk one at a time, so chunks interleave. A node may refuse a
transaction for its nonce (`conflict`, which starts the batch over) or for another
reason (`refused`, which nothing notices).

**FreezeSync** is a sequence of tests that freeze and unfreeze one token: the hub
write with its retry, the messages to every replica (`net`), the polls, and the
hook that cleans up and only logs what fails. A test freezes the chains of one of
`PairLists`, the lists of replica and chain that callers pass as `replicasToSync`, and polls
just these pairs; `unwatched` records the pairs that some test froze without polling them. A
receipt may time out while its transaction stays in the pool (`late`).

**BackendOps** states each flow as a sequence of steps, a write that `retry()`
repeats or a poll that `eventually()` repeats, exactly as the flow composes
them (`registerTokenAndUpdateStatus(s) == registerToken \o updateTokenStatus(s) \o ...`).
The ops-api is external: its answer to a write is a success, a refusal (4xx), an
error before or after the write (5xx), or nothing within axios' 60 s, in which case
the write may be mined later. Only `TransientBackendError` is worth a retry, unless
the flow passes no `retryIf`. All clients share the node's user, its pair list and
its custody, where one wallet is kept at a time. `unsure` records in order the writes whose
answer was lost, `late` which of them may still be mined. How far a list trails
behind the chain is not kept: a poll may miss at any moment.

**TokenLifecycle** takes tokens from a bare contract on the issuer to an active one with
a mirror on a receiver and a twin on the public chain. Like BackendOps it states each
wrapper method as its sequence of awaits: a `submitTx()`, a read that decides about the
next step, or an `eventually()` with its `tolerateErrors` and attempts. The test that
calls them is the constant `Script`; it ends at the first throw. `submitTx()` is one step
here: it returns or reverts as the contract's state demands, or throws with its write
done or not (`CallThrows`). What the relayers do comes in their order and at any pace
(`HubLists`, `ActivateToken`, `MirrorGrows`, `TwinGrows`): an address before its code, a
published twin before its right to send. `getTokenFromRegistry()` searches one list that
all tests fill and that starts with the tokens of earlier runs (`Earlier`), by a symbol of six
random hex digits. Nothing keeps two draws apart: `Draws` holds the symbols the wrappers may
have drawn, equal ones too. A wrapper may then find another's entry and approve that
(`EarlierRuns` carries such an approval to a token of the past).

**FaultSessions** has tests whose body and `after()` hook are scripts of awaits (the
constants `Body` and `Hook`): control calls, probes in a loop, docker calls, the
submission of a message. The body ends at its first throw, the hook swallows one. The
fault server is external. It lives in the relayer's process, keeps sessions, rules and
log across a crash, and serves a request that its client has given up on at once, later
or never (`limbo`, lost with the process). A message passes its `Route` of fault points;
`Check` fires the rules there as the comment `fault-injector.ts:41-57` says: crash before
panic before error, all rules of one class together, first armed first. A crash takes
the process down and every message that was not acknowledged starts anew. A panic may be
recovered or not. Sleep rules only delay and are left out.

**Setup** runs programs: `wait-for-participants.ts`, `unfreeze-participants.ts`, the bootstrap, and
`initializePrivacyNodesAndPnh()` followed by a test's body in a slot's process. A program
is a sequence of stages (what one `await Promise.all` joins), a stage has a lane per
chain, a lane is a sequence of steps: a `look` that may spare the steps behind it (early
returns), a `read`, a `send`, a `poll`. The first lane that throws ends the call for its
caller. In a script the process ends with it, and what other lanes have sent may be
mined still (`loose`); in a test process those lanes go on as *strays*, side by side with
the next `before` hook of the same process, which meets the instances that an
earlier hook has stored. A transaction is refused, mined, or throws unsent, mined or pending;
`Blocked` keeps the nonce order of a wallet. `AdminOf` is the role hierarchy the comments of
the grant methods give. One slot's test is enough: slots share no role and no
instance, only the idempotent mapping of the freeze selectors and the bootstrap, which
has both slots.

## Runs

Twelve runs, ten that pass and two that end in a violation, the
[disagreements](#where-the-code-and-its-text-disagree) below. Deadlock is not checked
anywhere because every one of these programs stops; that they stop only where
they should is a liveness property of its run instead. Type invariants that TLAPS proves
for every value of the constants are not run again.

| Run | States | What it shows | Bounds |
|---|---|---|---|
| `runner` | 583 000 | exit codes, bail and merged reports mean what they say; every run ends; the runner implements `WorkQueue` | 2 staggered slots, 1 serial and 3 parallel files or (smoke) none, 2 runs over one report directory |
| `serial` | 233 000 | no phantom crash; a count of zero hides at most a crash that still stands; with docker answering, the gate never opens on a relayer in seconds 1-59; the observation ends and the gate opens | observer: 2 confirmations, late answers never twice in a row, deadline of 16 ticks, 5 crashes; gate: 2 relayers, 10 s steps up to 150 s, 3 restarts or stops |
| `tx_reliable` | 43 000 | on a chain without faults each call is an atomic write and returns its own receipt | 2 `submitTx` and 1 `sendTx` from one wallet, 2 x 2 attempts |
| `tx_hostile` | 107 000 | on any chain the two nested budgets bound the broadcasts and the call settles | 1 `submitTx`, 2 x 3 attempts, slow, flaky, evicting node |
| `batch` | 372 000 | nonces have no hole; a returned call sent all; over-sending is bounded | 2 workers, 3 transfers each, chunks of 2, 3 attempts |
| `freeze` | 413 000 | a status that was waited for lasts; the hook leaves clean what the tests have polled, and it ends | the destination's chain, polled at the source's replica or its own, 2 attempts, 2 tests, messages in order |
| `freeze_callers` | – | violated: with the lists of the suites a hook that did not fail leaves a replica behind that shows the freeze | 2 chains, 2 replicas, every list that the suites pass, else as above |
| `backend` | 41 000 | moved tokens are accounted for; a refusal is the echo of the client's own write; a returned flow has done its work; every flow ends | 2 workers with seven and six flows, 2 attempts each, 2 answers that fail |
| `faults` | 276 000 | a passed test saw its own faults; no rule outlives its hook; the relayer is handed over alive; every test ends | 2 tests with different points and repairs, 2 probes per wait, 2 calls or probes that fail |
| `setup` | 171 000 | exit 0 of the bootstrap and a returned setup mean what they say; nobody is refused for want of a role; everything ends | 2 nodes and the hub, 2 slots, 1 test body, 2 tries per poll, 1 failure, 1 second bootstrap and setup |
| `setup_single` | – | violated: with one slot nobody is bootstrapped and the first grant is refused | as above with one slot |
| `token` | 94 000 | whoever shares its symbol, a wrapper that was let through remembers its own token; no call of a script reverts, but for the approval under a shared symbol; every script ends | 2 tests, one per kind of wrapper and route, 1 token of an earlier run, all ways in which the 3 symbols agree or differ, 2 attempts, 2 calls that fail |

Why these bounds are enough for the question each run asks:

* **runner.** A slot that finds the queue empty, one that takes a second file, and
  one that wakes from its stagger after a bail all need more parallel files than
  slots; two of them with equal duration make the sort's order free. The second run
  is what meets reports left by a killed one. An empty smoke selection
  is the only way `run()` meets no parallel file. More slots or files
  add symmetric cases only, and the theorems hold for any number.
* **serial.** A crash, its restart, a crash during the boot, a late answer and a failed
  docker call fit in 16 ticks several times; `MaxSlow` below `ConfirmProbes` is the
  assumption under which a confirmation means something, stated in the theorem too. For the
  gate, 150 s passes its 120 s, the 60 s where docker's wording changes unit, and 119 s where
  it changes back; 30 s between polls are three steps in which a relayer can restart. Hours and
  days are in `HumanDuration` but beyond the horizon: there the comparison cannot be recent.
* **tx.** Displacement takes two calls with one nonce, a third keeps the winner
  moving; a budget of 2 has a first, a last and no middle attempt, and the outer
  budget of 3 in `tx_hostile` has one. The code's 5 only repeats them.
* **batch.** Three transfers in chunks of two make a full chunk, a short one and a
  conflict in each; the third attempt is the one after an attempt that already
  over-sent.
* **freeze.** One operation late and one under way, for two replicas that are served
  in different orders; the second test inherits what the first left, with the same list
  or another. `freeze` looks at the destination's chain: for it the suites' lists are the
  source's replica or the chain's own, for the source's chain always one and the same.
  The chains of one write share all its messages, so the other chain only adds a hook visit.
* **backend.** Two attempts give a first and a last one, two failing answers let one
  write fail twice or two writes once. Every flow is called by some client. The two
  workers share the pair list and the custody.
* **token.** The two scripts call every leg, on issuer and receiver, and meet in the hub's
  list, which a third token has entered before them. Three draws suffice for a symbol shared
  with an earlier run, with the neighbour, with both or with nobody. With two attempts a poll
  is repeated, succeeds late and runs out; two faults end both tests or are tolerated by both
  polls of one leg.

* **faults.** One test drives two crash-and-restart cycles and counts its triggers, the
  other waits for an error of its own at the first point of the same route: each meets the
  other's rules, crashes and restarts. Every kind of control call, probe and wait, and
  the docker actions `start` and `restart`, is in one of the scripts.
* **setup.** A failure in any lane leaves a stray in the other ones; the second setup meets
  it, or runs in a new process. Two nodes have a first and a last one in the loops, one of
  them possibly without a registry. The body uses each role the setup has granted.

Each property of a passing run is violated when one definition is replaced by its
mutant (`PROJECT.json`, "mutants"), so none holds by the shape of the model alone.

Observations from runs that are not kept. With messages that overtake each other
**and** a freeze sent again after a receipt timeout, `SyncedStatusLasts` fails: the
poll is satisfied by the first message, and a message of an older operation undoes
it. Hence `InOrder` is assumed in `freeze.cfg`, which the relayers' per-chain queues
suggest; when no receipt is late the order does not matter. With zero slots the
parallel phase counts as passed without executing anything: only the bootstrap script
refuses such a setting, and it is skipped for one worker or fewer. The theorems about
exit codes and the refinement therefore assume at least one slot.

## Fairness

Only what the program itself drives is fair; no fault has to happen.

| Specification | Weakly fair | Because |
|---|---|---|
| ParallelRunner | each slot, the main path | timers fire; mocha bounds each test, so children close. Neither a kill nor a next run is forced |
| TxSubmit | the answer to each call, mining | the event loop goes on and the receipt timer fires; blocks are produced |
| SerialPhase | the observer, the end of the serial phase, the gate's poll and clock | probes and docker calls have timeouts (`execSync` 10 s), timers fire. The relayer may stay down for ever |
| FreezeSync | helpers, tests, delivery | retries and polls are bounded. A transaction given up need not be mined |
| TokenLifecycle | each script | awaits settle. The relayers owe nothing: every wait has its attempts |
| FaultSessions | each test | calls, probes and docker have timeouts. The relayer owes the tests nothing |
| Setup | each process, pending transactions | timeouts; a given-up transaction is mined or dropped in the end, and one that is pending blocks its wallet's next. Participants and replicas may never come |
| BackendOps | each client | axios gives up after 60 s, delays end. Late writes and deployments may never come |

## Proofs

Checked by TLAPS for every value of the constants. Assumptions on the constants are
the named `ASSUME`s of the component modules (finite sets, positive budgets), which
TLC evaluates in every run, and those stated in a theorem.

| Theorem | Statement | Argument |
|---|---|---|
| `SuiteProofs!TypeCorrect`, `CursorAgreesWithSlots`, `ExitLeavesNoChild`, `SerialIsolation` | the safety properties of the runner | `IInv` |
| `ExitCodeIsTrue` | exit 0 means all passed, exit 1 without a bail means all were executed; `WorkerCount > 0` | `IInv` and: when all slots are done without a bail the cursor is at the end, so the queue's bijection covers every parallel file |
| `MergeLosesNothing` | an emptied report directory is wholly in the merged report | `ReportsInv`: until the merge this run's reports stay, under names of a slot and an index it has gone past |
| `StaleReportsExplained` | a merge takes in an earlier run's report only if that run left it unmerged | `StaleInv`, as an action property |
| `BailIsFinal` | after a bail no file is dispatched | `IInv`, as an action property |
| `ImplementsWorkQueue` | the runner refines `WorkQueue`; `WorkerCount > 0` | initial states map to initial states, each step to a step or a stutter |
| `TxSubmitProofs!TypeCorrect`, `ReceiptIsOwn` | for any chain | `IInv`: who waits, waits for a transaction it broadcast |
| `BroadcastsWithinBudget` | on any chain, the number of broadcasts of a call | `BudgetInv`: the attempts used pay for the broadcasts, the one under way once it is sent |
| `TimeoutIsDisplacement`, `OneEffect`, `ImplementsAtomicCall` | on a chain that is not slow, flaky or evicting | `RInv` |
| `RelayerHealthProofs!TypeCorrect`, `CountIsTrue`, `ZeroIsHonest` | the three verdicts of the counter; `MaxSlow < ConfirmProbes` | `CountInv`, `ZeroInv`, `RestartInv` |
| `BatchSendProofs!NoncesStayContiguous` | no nonce gap, any workers, batches and chunks | `Contiguous /\ BelowTaken` until a refusal |
| `ReturnsWhatItSent` | a call that returns had its last attempt accepted as a whole, unless the node refused one | `RecordsInv`, with the types and `NoncesStayContiguous` |
| `OverSendsLittle` | what a call sends too much, on any node | `SpentInv`: an attempt that is started over lost at least one transaction |
| `TokenLifecycleProofs!ResourceIdIsOwn`, `AddressStaysLive` | what a wrapper that was let through remembers is its own and live; any tests, symbols, earlier tokens and delays; `LegsInOrder` | `IInv`: what is remembered and what is approved is the first of its symbol; `LegsInv`: the wait was for the wrapper's own token |
| `FaultSessionsProofs!NoRuleOutlivesItsHook` | any tests, scripts, requests under way | `IInv`: a rule belongs to a session the server knows, such a session to a test that still holds it, and a hook that did not throw has ended with an answered `clear()`; a late `arm()` then meets an unknown session |
| `NoVacuousPass` | a test that read trigger events and passed had its own rules fire | `ReadInv`: a logged event is of a rule that fired, and every await before the current one has seen its events; a body has no conditional restart (`BodyAssumption`) |
| `RelayerHandedOver` | any tests that crash and repair one relayer leave it up | `AliveInv`: for a relayer that is not up some test still answers; `ComposeAssumption` |
| `FreezeSyncProofs!SyncLasts` | a status that was waited for is what the polled replicas go on showing, on pairs no test froze unpolled; any lists; `InOrder` | `SyncInv`: each such pair is `Changing` while an operation is busy with it and `Settled` otherwise |
| `CleanWhereWatched` | a hook that did not fail leaves the hub unfrozen, and every pair that was polled by each test that froze its chain; any lists; `InOrder` | the same invariant; the hook visits every chain the hub holds frozen (`HubHolds`) |
| `TokenLifecycleProofs!LegsNeverRevert` | no call of a script reverts, but the approval under a shared symbol; any tests, symbols and relayers; `LegsInOrder` | `LegsInv`: each leg that has passed did its work (`PassedDid`), and what it did lasts |
| `BackendOpsProofs!NoTransferUnaccounted` | any clients, retries and late writes | `AccountInv`: returned <= moved <= returned + settled, where a lost answer settles when its write is no longer late |
| `RefusalsAreEchoes` | a client is refused only after a write of its own of unknown fate; `InOrder(Plan)` | `Expected`: while no answer is lost the token is what the plan says, the deployment aside |
| `ReturnedIsDone` | a flow that returns has done what it was asked, and a finished script keeps it; `InOrder(Plan)`, `Composed(Plan)` | `PlanInv`: pairs are own (`OwnPair`), a client that has one has it for good (`Given`), what is still to be mined for a client that did not throw is a pair or a transfer (`LateHarmless`), a token is frozen only by the plan (`Thawed`) |
| `SuiteProofs!WorkersReady` | a bootstrap that exits with 0 has made every worker's wallet an admin and funded it; `SuiteInOrder` | `SetupInv`: what a program has passed has been seen to (`Done`) |
| `NoneRefused` | no access manager turns a transaction of a setup or a test away; `SuiteInOrder` | the same: each grant comes after the step that has seen to the role of its wallet (`Accepted`) |
| `HookDone` | a running test body finds its singletons wired, its roles, the selectors and the replicas; `SuiteInOrder` | the same, with `Singletons` and `HalfWired` |
| `RelayerHealthProofs!FirstMinuteIsSafe` | for every gate of at least a minute | inductive as it stands, with the reading of `1..59` seconds |
| `TypeCorrect` of `BatchSendProofs`, `FreezeSyncProofs`, `TokenLifecycleProofs`, `FaultSessionsProofs`, `BackendOpsProofs`; `GateTypeCorrect` | types, and with them the bounds on attempts, polls and failures | inductive as they stand, in FaultSessions with `IInv` |

Why the strengthenings are needed:

* *Runner.* That the cursor's prefix is what was dispatched is not inductive: a slot
  that books a result must be known to hold a file of that prefix without a result yet
  (`QueueInv`), that no earlier phase has started one (`NotStarted`), and that
  a slot is done only at the end or on a bail with a failed file behind it (`StopInv`).
* *TxSubmit.* That a given-up transaction is displaced needs that while a call
  waits, its transaction can always be mined: no nonce before it is missing (`NoHole`),
  mined ones are below `next` (`MinedBelowNext`), and the only live transaction
  of a call is the one it awaits (`AliveByPlace`).
* *CrashObserver.* `prevAlive` is read as "the last counted crash is over" (`CountInv`).
* *BatchSend.* A worker's next nonce may have been taken by the other one, but all
  below it are taken (`BelowTaken`). That a call which returns was accepted as a whole
  needs more: its own transactions of earlier attempts lie below the base of the
  current one, as the nonces had no hole when it was read, so that it never meets
  one of them again ("already known", which is not noticed as a conflict).
* *TokenLifecycle.* With equal symbols a wrapper may well hold another's resource id; that the
  one which was let through holds its own is about who could have approved its token. The list
  only grows at its end, so the first entry with a symbol stays the first: every wrapper of the
  symbol holds that one (`FoundFirst`), and no other token of the symbol is ever approved
  (`ApprovedFirst`). A wrapper past the wait for its own activation (`PassedDid`) has therefore
  found its own. That a kept address stays live needs besides that no step takes a mirror's
  code away (`CodeStays`).

* *FaultSessions.* Who answers for a relayer that is not up changes hands: a test that
  still holds its session has its hook ahead, a hook that touched the container has its
  wait ahead, and one that threw is excused. A crash needs a rule, a rule a session the
  server knows, and such a session a test that is not done (`IInv`).
* *FreezeSync.* That a poll has seen the right status is not enough. `Changing` says that a
  replica which shows it has nothing older on its way, that messages of the operation come
  after older ones, and that it shows nothing before the hub does; `Settled`, that all
  messages under way agree with the hub.
* *TokenLifecycle, the legs.* That a call does not revert is about what other legs left
  behind; the invariant carries every leg's effect (`Did`) up to the script's position, that
  a leg not yet called has no effect (`Fresh`), and the hub's entry at `updateStatus` (`AtUpdate`).
* *BackendOps.* The count of teleports cannot be bounded by lost answers alone step by step:
  a write that is still late has not moved anything although its answer is counted. That a
  returned flow has done its work needs, of the flow, that its last step says so (`Shape`, proved
  of each flow); of the other clients, that they write to pairs of their own only; and of the
  writes mined late, that a write which `retry()` does not repeat on any error has, when
  it times out, made its client throw, so that only transfers and further pairs can still come. That an unfreeze thaws is
  about the status saved by the freeze before it, hence the plan.
* *Setup.* `Done` says of every step that a program is past that what it stands for holds
  (`SeenTo`): a grant that its role is a member's, a look that was lucky that the steps it
  spared need not be taken. For that, a lane may skip only what its look has looked for
  (`Skips`), which is proved of every program (`Lanes`), from the operators it is built of.
  Nothing undoes it but payments, hence only before the tests (`Started`, `Pending`).
  The strays of a setup that threw carry the same fact for their own position (`Strays`);
  they may outlive the setup, never the roles they rely on. An instance is in the map
  only when both its contracts are there (`Singletons`), which needs how often a
  hook that is half way has wired it (`HalfWired`).

Hypotheses beyond positive budgets, and where they come from:

* `ComposeAssumption`: a body touches the container only while it has a session, a hook that
  touches it waits for the relayer afterwards. All resilience suites do, except the clean-up of
  `Proofgen_NilProof_DestRelayerCrashLoop`, which ignores the wait and is left out. `BodyAssumption`
  and `HookAssumption` say what rules and points a script may name and that a hook arms nothing.
* `InOrder` of FreezeSync: the relayers' messages to one replica keep their order. Without it
  TLC refutes `SyncedStatusLasts` (the observation above). Nothing is assumed of the lists of
  pairs: the two theorems speak of the pairs that the lists cover.
* `LegsInOrder` of TokenLifecycle: every leg of a script comes after those it needs (`Needs`),
  as in the tests. TLC evaluates it for the scripts of its run (`ScriptsInOrder`).
* `ScriptAssumption` of BackendOps: a flow has at least one call, and only
  `teleportTokenAndSend()` teleports. `InOrder(Plan)` is a proof outline: the token each step
  finds when every write before it was mined once, and that the registry takes every
  write that `retry()` does not repeat on any error. TLC evaluates it for the scripts of its
  run, with the plan computed by folding `Passed` over them (`MCPlan`, `WritesInOrder`).
  `Composed(Plan)` is about scripts too: they are made of the flows of the two files, a pair gets
  a status after it was added or looked up, and no token that the plan has frozen on the node is
  frozen there again, as in every suite. TLC evaluates it beside the other (`FlowsComposed`).

* `SuiteInOrder` of Setup: more than one worker (with one the runner does not run the bootstrap,
  and `setup_single` shows `NoGrantRefused` violated), and `BodiesInOrder`: a test body works on the
  chains it asked for and signs with wallets whose role the hook or the body itself has granted
  before. TLC evaluates the latter for the body of its run (`BodiesChecked`).

Every safety invariant and action property of a passing run is a theorem. Only
model-checked: everything temporal beyond them. Liveness under fairness, ENABLED, and what a recursive definition computes for every input are out of the
prover's reach; the models contain no recursion.

## Where the code and its text disagree

**`setup_single`** `base-parallel-runner.js:150`. For `PARALLEL_WORKERS` of one the runner
prints "no bootstrap needed" and grants nobody. `runSlot()` still starts its only slot
with `MOCHA_WORKER_ID='0'` (`:338-340`), and `env-config.ts:45` reads that as "parallel
worker N → use deterministic per-worker wallets". The derived admin wallet holds no
role, so the first grant of its setup is refused.

**`freeze_callers`** `freeze-helpers.ts:85`. "Use in afterEach to guarantee clean state before
the next test" (`:96`). The hook's poll of a replica that has not heard of the freeze yet ends
at once, since it shows unfrozen; the freeze arrives after the hook, and its undoing after
that. No caller waits for the freeze on all replicas: each list names one per chain
(`FreezeTokens.ts:292-298`, `Enygma_Transfer_Freeze.ts:108-111`, `Dvp_Freeze.ts:100-102`).
What is left of the guarantee is `CleanWherePolled`. A later test that freezes the same chain
and polls a replica that an earlier one left out (`FreezeTokens.ts:323-326` after `:292-298`)
may have its poll satisfied by the earlier freeze, although `freezeAndSync()` "waits until all
replicas confirm the frozen status" (`:44`); hence `unwatched` in `SyncedStatusLasts`.

Met while modelling, without a run:

* `base-parallel-runner.js:443`: "The parallel phase must not start until all relayers
  have been running for MIN_RELAYER_UPTIME_MS" (`:423`). Docker prints `Up About a minute`
  from 60 to 119 s; the pattern wants digits, so such a relayer is skipped and a gate of two
  minutes opens after one. `NeverOpensInFirstMinute` is what is left of the promise.
* `batch-transactions-helpers.ts:63`: the test expects exactly `count` transfers (`:133`); a
  nonce conflict in the middle of a batch re-signs and sends all of them. `OverSendBound`
  says how many too many at most.
* `PrivateHub.ts:143` takes the first token with the wrapper's symbol, six random hex digits
  (`generators.ts:4-6`) in a list that only grows. Where two tokens share one, the wrapper of the later entry
  approves the other token, or finds it approved, and runs out of attempts waiting for its own
  activation; if both wrappers look before either approves, the second approval reverts.
  `OwnResourceId` and `NoCallReverts` say that nothing worse comes of it.
* `resilience-helpers.ts:72`: a relayer that is restarted and crashes again before it has
  answered is confirmed down a second time but not counted, although `:7` speaks of the
  "distinct times the service went down".
* `fault-injector.ts:394`: "Once this returns, the relayer is DOWN" - `waitForCrash()` is
  also satisfied by one late probe, and by a neighbour's crash, which one restart repairs
  before the other test's next probe. A neighbour's message can consume a one-shot rule
  at a shared point. So `PassedMeansFired` is stated for tests that read the trigger log.
  The hook of `Enygma_ReferenceId_Idempotency.ts:176` probes before it clears: a crash
  in between makes `clear()` throw, and the throw is swallowed.
* `unfreeze-participants.ts` ends in `main().catch(console.error)` and exits 0 when it failed;
  `wait-for-participants.ts` exits 0 at once when PARTICIPANTS is not set.
* `ERC20_Private_To_Public.ts:95` resolves the mirror's address without the `getCode()`
  that `resolveAddressOnPL()` has (the `KeptAddressIsLive` mutant is just that).
* `token-operations.ts:24-26` says a registration is attempted once without a retry loop,
  while `registerToken` retries ten times.

## What is left out

* Wording, logging and the layout of reports; amounts, addresses and signatures. Balances
  are whole units in Setup: what is below `FUND_MIN_WEI` counts as nothing.
* What the contracts, relayers, hub, fault server and ops-api do inside. They are external:
  modelled from how this code uses them, with every outcome the code handles.
* Delays are kept only where the code compares them (gate, observer). Elsewhere a
  timer may fire at any moment it is running.
* Mocha's hook timeouts and kills of a test process in Setup; the serial mode there, which
  is the same setup with the seed as admin. Roles are never revoked by this code.
* `resolveFiles()` and argument parsing are the runner's constants.
* **Local freezes** (`freeze-helpers.ts:122` on): single transactions without a poll. Their
  hazard is `submitTx()`'s possible second effect, which TxSubmit shows, meeting the
  status a contract saves; the two are not composed.
* **DvP deposit watch** (`db-utils.ts`): one process that only reads rows the relayer alone
  writes; a model would be one of the relayer.
* **Deployment and redeployment of contracts**, so the keys of the contract cache: nothing
  redeploys within a process that goes on using it. Two concurrent first calls of
  `getInstance()` have no caller in the present code either.
* **`never()`**, which only tests use, and the diagnostics of `poll()`.
* **Participant updates** and DvP, swap and batch methods of the token wrappers: one
  transaction each.
* The suites below `test/e2e` and `test/performance`: callers of the components. Logger and
  formatters: output only. Shell scripts: glue. Token flows and generators: straight-line
  composition without state.
