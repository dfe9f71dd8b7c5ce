--------------------------------- MODULE Setup ---------------------------------
(***************************************************************************)
(* What has to be in place before a test may run, and who puts it there:   *)
(* wait-for-participants.ts, unfreeze-participants.ts, the bootstrap of    *)
(* the workers' admin wallets, and initializePrivacyNodesAndPnh() in every *)
(* describe of every file a worker is given, with the singletons           *)
(* PrivacyNode and PrivateHub, their wallets, contracts and roles.         *)
(*                                                                         *)
(* Every process runs a program: stages, one after the other, of lanes,    *)
(* side by side (Promise.all), of steps, one after the other. The first    *)
(* lane that throws ends the call for its caller; the other lanes of a     *)
(* test process go on without anyone waiting for them (they are strays),   *)
(* while those of a script end with it.                                    *)
(*                                                                         *)
(* The chains, their access managers and the relayers are external.        *)
(* sendTx() and submitTx() are TxSubmit's: here a transaction is refused,  *)
(* returns mined, or throws unsent, mined, or still pending.               *)
(***************************************************************************)
EXTENDS Integers, Sequences, SequencesExt

CONSTANTS
  RaylsNodes, Participants,  \* the known nodes in order, those PARTICIPANTS names
  NodeCount, Hub,            \* how many nodes a test asks for; the private hub
  WorkerSlots,     \* the slots of the parallel phase, in order
  Body,            \* Body[w]: what the test does that slot w is given
  FundMin, FundTarget,       \* FUND_MIN_WEI and FUND_TARGET_WEI, in whole ETH
  Attempts,        \* bound: the tries of one poll
  MaxFaults,       \* bound: reads and transactions that fail for no reason
  MaxRestarts      \* bound: bootstraps after a failed one, setups of a slot

getActiveNodes == SelectSeq(RaylsNodes, LAMBDA n : n \in Participants)
Used    == SubSeq(getActiveNodes, 1, NodeCount)
Nodes   == ToSet(getActiveNodes)
Chains  == Nodes \cup {Hub}
Workers == ToSet(WorkerSlots)
Testers == DOMAIN Body
Scripts == {"wait", "unfreeze", "boot"}
Procs   == Scripts \cup Testers
Threads == (Procs \X {"awaited"}) \cup (Testers \X {"stray"})

ASSUME ChainAssumption ==
  /\ getActiveNodes \in Seq(Nodes) /\ Hub \notin Nodes
  /\ NodeCount \in 1 .. Len(getActiveNodes)
ASSUME SlotAssumption   == WorkerSlots \in Seq(Workers) /\ Testers \subseteq Workers
ASSUME ScriptAssumption == Scripts \cap Workers = {}
ASSUME AmountAssumption == FundMin \in Nat \ {0} /\ FundTarget \in Nat /\ FundTarget >= FundMin
ASSUME BoundAssumption  == Attempts \in Nat \ {0} /\ MaxFaults \in Nat /\ MaxRestarts \in Nat

VARIABLES
  progress, stage, tries,  \* of each process: state, stage, attempt of its poll
  lane,            \* lane[t][c]: the next step of a thread; 0 ends a stray one
  left,            \* how often each process may still start over
  stored, wired,   \* the singletons a process has, how far it has wired each
  configured,      \* the chains whose registry is in the environment
  members,         \* <<chain, role, wallet>>: what the access managers grant
  balance, mapped, \* ETH of the slots' admins; the freeze selectors have a role
  loose,           \* transactions given up while pending
  known, replica, synced,  \* participants on the hub, each node's copy of them
  refused,         \* an access manager has turned a transaction away
  faults

procVars  == <<progress, stage, tries, lane, left, stored, wired>>
chainVars == <<members, balance, mapped, synced>>
meshVars  == <<known, replica>>
setupVars == <<procVars, chainVars, meshVars, loose, configured, refused, faults>>

(***************************************************************************)
(* Wallets and roles                                                       *)
(***************************************************************************)
seed == <<"system", "admin">>
adminWallet(w)        == <<w, "admin">>
operatorWallet(w)     == <<w, "operator">>
bankEmployeeWallet(w) == <<w, "bankEmployee">>
complianceWallet(w)   == <<w, "compliance">>
createUserOperator(w) == <<w, "fresh">>

AdminOf == [ADMIN |-> "ADMIN", ENDPOINT_SENDER |-> "ADMIN", FACTORY_DEPLOYER |-> "ADMIN",
  PRIVACY_NODE_OPERATOR |-> "ADMIN", BANK_EMPLOYEE |-> "PRIVACY_NODE_OPERATOR",
  PRIVATE_NETWORK_OPERATOR |-> "ADMIN", COMPLIANCE_OFFICER |-> "PRIVATE_NETWORK_OPERATOR"]

(***************************************************************************)
(* Steps. A look that finds what it asks for skips the next steps.         *)
(***************************************************************************)
Step(kind, op, c, role, to, by, skip) ==
  [kind |-> kind, op |-> op, on |-> c, role |-> role, to |-> to, by |-> by, skip |-> skip]
look(op, c, role, to, skip) == Step("look", op, c, role, to, seed, skip)
send(op, c, role, to, by)   == Step("send", op, c, role, to, by, 0)
read(op, c)                 == Step("read", op, c, "", seed, seed, 0)
poll(op, tolerateErrors)    == Step("poll", op, Hub, "", seed, seed, IF tolerateErrors THEN 1 ELSE 0)

grantOnce(c, role, to, by) ==
  << look("hasRole", c, role, to, 1), send("grantRole", c, role, to, by) >>

\* Mutant: the instance is in the map while it is being initialised.
getInstanceStoredFirst(c) ==
  << look("instances.has", c, "", seed, 3), read("instances.set", c), read("resolve", c),
     read("resolve", c) >>

\* The first contract of an instance, the last one, then the static map: a node
\* resolves and connects two, the hub a table of them from one answer.
getInstance(c) ==
  << look("instances.has", c, "", seed, 3), read("resolve", c), read("resolve", c),
     read("instances.set", c) >>

\* The same n steps for each member of a sequence in turn.
InTurn(s, n, block(_)) ==
  [i \in 1 .. n * Len(s) |-> block(s[((i - 1) \div n) + 1])[((i - 1) % n) + 1]]

getInstances(cs) == InTurn(cs, 4, getInstance)

(***************************************************************************)
(* The programs: the scripts, and what a test's before hook and body call  *)
(***************************************************************************)
OneLane(steps) == [c \in Chains |-> IF c = Hub THEN steps ELSE << >>]

waitForParticipants == << OneLane(<< read("getContract", Hub), poll("verifyParticipant", TRUE) >>) >>

requestSync(n) == << look("allActive", n, "", seed, 1), send("sync", n, "", seed, seed) >>
unfreezeParticipants ==
  << OneLane(getInstance(Hub) \o getInstances(getActiveNodes)
               \o InTurn(getActiveNodes, 2, requestSync)) >>

\* Mutant: a chain is done when its first slot is.
bootstrapNodeOnce(c) ==
  << look("noProxy", c, "", seed, 2 * Len(WorkerSlots)) >>
    \o InTurn(WorkerSlots, 2, LAMBDA w :
         << look("hasRole", c, "ADMIN", adminWallet(Head(WorkerSlots)), 2 * Len(WorkerSlots) - 1),
            send("grantRole", c, "ADMIN", adminWallet(w), seed) >>)

bootstrapNode(c) ==
  << look("noProxy", c, "", seed, 2 * Len(WorkerSlots)) >>
    \o InTurn(WorkerSlots, 2, LAMBDA w : grantOnce(c, "ADMIN", adminWallet(w), seed))

fundNode(c) ==
  InTurn(WorkerSlots, 2, LAMBDA w :
    << look("balance", c, "", adminWallet(w), 1), send("fund", c, "", adminWallet(w), seed) >>)

\* The runner does not call the script for a single worker.
bootstrap ==
  IF Len(WorkerSlots) <= 1 THEN << >>
  ELSE << [c \in Chains |-> bootstrapNode(c)], [c \in Chains |-> fundNode(c)] >>

grantOperatorRole(n, w) ==
  grantOnce(n, "PRIVACY_NODE_OPERATOR", operatorWallet(w), adminWallet(w))

\* Mutant: by the admin, which may grant any other role of a node.
grantBankEmployeeRoleAsAdmin(n, w) ==
  grantOnce(n, "BANK_EMPLOYEE", bankEmployeeWallet(w), adminWallet(w))

grantBankEmployeeRole(n, w) ==
  grantOnce(n, "BANK_EMPLOYEE", bankEmployeeWallet(w), operatorWallet(w))

grantNetworkOperatorRole(w) ==
  grantOnce(Hub, "PRIVATE_NETWORK_OPERATOR", operatorWallet(w), adminWallet(w))

\* Mutant: it returns early like its neighbours.
grantComplianceRoleOnce(w) ==
  << look("hasRole", Hub, "COMPLIANCE_OFFICER", complianceWallet(w), 3),
     send("grantRole", Hub, "COMPLIANCE_OFFICER", complianceWallet(w), operatorWallet(w)),
     look("unwired", Hub, "", seed, 1), send("mapSelectors", Hub, "", seed, adminWallet(w)) >>

\* The look spares the grant, not the mapping.
grantComplianceRole(w) ==
  grantOnce(Hub, "COMPLIANCE_OFFICER", complianceWallet(w), operatorWallet(w))
    \o << look("unwired", Hub, "", seed, 1), send("mapSelectors", Hub, "", seed, adminWallet(w)) >>

initializePrivacyNodesAndPnh(w) ==
  << OneLane(getInstances(Used)),
     [c \in Chains |-> IF c \in ToSet(Used)
        THEN grantOperatorRole(c, w) \o grantBankEmployeeRole(c, w) ELSE << >>],
     OneLane(<< poll("replicas", FALSE) >> \o getInstance(Hub)
               \o grantNetworkOperatorRole(w) \o grantComplianceRole(w)) >>
GrantStage == 2
TestStage  == 4

\* What a test's body is made of: privileged calls and further grants.
grantEndpointSender(n, w) ==
  grantOnce(n, "ENDPOINT_SENDER", <<w, "contract">>, adminWallet(w))
makeRoleHolder(n, role, w) ==
  << send("pay", n, "", createUserOperator(w), adminWallet(w)),
     send("grantRole", n, role, createUserOperator(w), adminWallet(w)) >>
callAs(c, role, wallet) == << send("call", c, role, seed, wallet) >>

Program == [p \in Procs |->
  CASE p = "wait"     -> waitForParticipants
    [] p = "unfreeze" -> unfreezeParticipants
    [] p = "boot"     -> bootstrap
    [] OTHER          -> initializePrivacyNodesAndPnh(p) \o << OneLane(Body[p]) >>]

(***************************************************************************)
(* The chains                                                              *)
(***************************************************************************)
Accepts(s) ==
  \/ s.op = "grantRole" /\ <<s.on, AdminOf[s.role], s.by>> \in members
  \/ s.op = "mapSelectors" /\ <<s.on, "ADMIN", s.by>> \in members
  \/ s.op = "call" /\ <<s.on, s.role, s.by>> \in members
       /\ (s.role = "COMPLIANCE_OFFICER" => mapped)
  \/ s.op \in {"fund", "pay", "sync"}

Affords(s) == s.op = "pay" => balance[s.on][s.by[1]] >= 1

Effect(s) ==
  /\ members' = IF s.op = "grantRole" THEN members \cup {<<s.on, s.role, s.to>>} ELSE members
  /\ balance' = CASE s.op = "fund" -> [balance EXCEPT ![s.on][s.to[1]] = @ + FundTarget]
                  [] s.op = "pay"  -> [balance EXCEPT ![s.on][s.by[1]] = @ - 1]
                  [] OTHER -> balance
  /\ mapped' = (mapped \/ s.op = "mapSelectors")
  /\ synced' = IF s.op = "sync" THEN synced \cup {s.on} ELSE synced

Finds(p, s) ==
  \/ s.op = "hasRole" /\ <<s.on, s.role, s.to>> \in members
  \/ s.op = "balance" /\ balance[s.on][s.to[1]] >= FundMin
  \/ s.op = "instances.has" /\ s.on \in stored[p]
  \/ s.op = "noProxy" /\ s.on \notin configured
  \/ s.op = "unwired" /\ wired[p][Hub] = 0
  \/ s.op = "allActive" /\ replica[s.on] # "stale"
  \/ s.op = "verifyParticipant" /\ known = Nodes
  \/ s.op = "replicas" /\ \A n \in ToSet(Used) : replica[n] = "active"

(***************************************************************************)
(* Threads                                                                 *)
(***************************************************************************)
SetupInit ==
  /\ progress = [p \in Procs |-> "waiting"] /\ stage = [p \in Procs |-> 1]
  /\ tries = [p \in Procs |-> 1] /\ left = [p \in Procs |-> MaxRestarts]
  /\ lane = [t \in Threads |-> [c \in Chains |-> IF t[2] = "stray" THEN 0 ELSE 1]]
  /\ stored = [p \in Procs |-> {}] /\ wired = [p \in Procs |-> [c \in Chains |-> 0]]
  /\ configured \in {Chains, Chains \ {Last(getActiveNodes)}}
  /\ members = Chains \X {"ADMIN"} \X {seed}
  /\ balance = [c \in Chains |-> [w \in Workers |-> 0]]
  /\ mapped = FALSE /\ loose = {} /\ known = {} /\ synced = {}
  /\ replica = [n \in Nodes |-> "none"] /\ refused = FALSE /\ faults = 0

Lane(t, c) == LET p == t[1] IN
  IF t[2] = "stray" THEN Program[p][GrantStage][c]
  ELSE IF stage[p] \in DOMAIN Program[p] THEN Program[p][stage[p]][c] ELSE << >>
At(t, c) == Lane(t, c)[lane[t][c]]
Runs(t, c) ==
  /\ t[2] = "awaited" => progress[t[1]] = "running"
  /\ lane[t][c] \in DOMAIN Lane(t, c)

\* A stray's fault ends it and needs no bound.
Fault(t) == IF t[2] = "stray" THEN UNCHANGED faults
            ELSE faults < MaxFaults /\ faults' = faults + 1

Advance(t, c, n) ==
  /\ lane' = [lane EXCEPT ![t][c] =
                IF t[2] = "stray" /\ @ + n > Len(Lane(t, c)) THEN 0 ELSE @ + n]
  /\ tries' = IF t[2] = "stray" THEN tries ELSE [tries EXCEPT ![t[1]] = 1]
  /\ UNCHANGED <<progress, stage, left>>

AtStart(t) == [lane EXCEPT ![t] = [c \in Chains |-> 1]]

\* A call is over: a script's process ends with it, a test's keeps its memory.
Ends(p, how) ==
  /\ progress' = [progress EXCEPT ![p] = how]
  /\ stage' = [stage EXCEPT ![p] = 1] /\ tries' = [tries EXCEPT ![p] = 1]
  /\ stored' = IF p \in Testers THEN stored ELSE [stored EXCEPT ![p] = {}]
  /\ wired' = IF p \in Testers THEN wired ELSE [wired EXCEPT ![p] = [c \in Chains |-> 0]]
  /\ UNCHANGED left

\* What may be under way on the other chains when a process exits.
InFlight(t, c) ==
  {At(t, d) : d \in {e \in Chains \ {c} : Runs(t, e) /\ At(t, e).kind = "send"}}

\* A stray lane takes an older stray's place unless that one is further behind.
Stray(t, c, d) == LET old == lane[<<t[1], "stray">>][d] now == lane[t][d] IN
  IF d = c \/ now \notin DOMAIN Lane(t, d) \/ old \in 1 .. now THEN old ELSE now

Throw(t, c, pending) == LET p == t[1] IN
  CASE t[2] = "stray" ->
         /\ lane' = [lane EXCEPT ![t][c] = 0] /\ loose' = loose \cup pending
         /\ UNCHANGED <<progress, stage, tries, left, stored, wired>>
    [] t[2] # "stray" /\ p \in Testers ->
         /\ lane' = IF stage[p] = GrantStage
              THEN [AtStart(t) EXCEPT ![<<p, "stray">>] = [d \in Chains |-> Stray(t, c, d)]]
              ELSE AtStart(t)
         /\ loose' = loose \cup pending /\ Ends(p, "threw")
    [] OTHER ->
         /\ \E sent \in SUBSET InFlight(t, c) : loose' = loose \cup pending \cup sent
         /\ lane' = AtStart(t) /\ Ends(p, "threw")

Look(t, c) == LET s == At(t, c) p == t[1] IN
  /\ s.kind = "look"
  /\ Advance(t, c, IF Finds(p, s) THEN 1 + s.skip ELSE 1)
  /\ wired' = IF s.op = "instances.has" /\ ~Finds(p, s)
                THEN [wired EXCEPT ![p][s.on] = 0] ELSE wired
  /\ UNCHANGED <<stored, chainVars, loose, refused, faults>>

Read(t, c) == LET s == At(t, c) p == t[1] IN
  /\ s.kind = "read"
  /\ s.op = "resolve" => s.on \in configured
  /\ Advance(t, c, 1)
  /\ wired' = IF s.op = "resolve" THEN [wired EXCEPT ![p][s.on] = @ + 1] ELSE wired
  /\ stored' = IF s.op = "instances.set" THEN [stored EXCEPT ![p] = @ \cup {s.on}] ELSE stored
  /\ UNCHANGED <<chainVars, loose, refused, faults>>

ReadFails(t, c) == LET s == At(t, c) IN
  /\ s.kind \in {"look", "read"} /\ s.op \notin {"instances.has", "instances.set", "noProxy", "unwired"}
  /\ IF s.op = "resolve" /\ s.on \notin configured THEN UNCHANGED faults ELSE Fault(t)
  /\ Throw(t, c, {})
  /\ UNCHANGED <<chainVars, refused>>

\* A wallet's transactions are mined in the order of their nonces.
Blocked(s) == \E u \in loose : u.on = s.on /\ u.by = s.by

Mined(t, c) == LET s == At(t, c) IN
  /\ s.kind = "send" /\ Accepts(s) /\ Affords(s) /\ ~Blocked(s)
  /\ Effect(s) /\ Advance(t, c, 1)
  /\ UNCHANGED <<stored, wired, loose, refused, faults>>

Refused(t, c) == LET s == At(t, c) IN
  /\ s.kind = "send" /\ ~(Accepts(s) /\ Affords(s))
  /\ refused' = (refused \/ ~Accepts(s)) /\ Throw(t, c, {})
  /\ UNCHANGED <<chainVars, faults>>

\* retry() of makeRoleHolder() pays again after a payment that was mined.
SendFails(t, c) == LET s == At(t, c) IN
  /\ s.kind = "send" /\ Accepts(s) /\ Affords(s) /\ Fault(t)
  /\ \/ UNCHANGED chainVars /\ Throw(t, c, {})
     \/ /\ ~Blocked(s) /\ Effect(s)
        /\ IF s.op = "pay" THEN Advance(t, c, 0) /\ UNCHANGED <<stored, wired, loose>>
           ELSE Throw(t, c, {})
     \/ UNCHANGED chainVars /\ Throw(t, c, {s})
  /\ UNCHANGED refused

\* Mutant: a miss does not count.
AgainUncounted(t, c) == UNCHANGED <<procVars, loose>>

Again(t, c) == LET p == t[1] IN
  IF tries[p] = Attempts THEN Throw(t, c, {})
  ELSE /\ tries' = [tries EXCEPT ![p] = @ + 1]
       /\ UNCHANGED <<progress, stage, lane, left, stored, wired, loose>>

Poll(t, c) == LET s == At(t, c) IN
  /\ s.kind = "poll"
  /\ \/ Finds(t[1], s) /\ Advance(t, c, 1) /\ UNCHANGED <<stored, wired, loose, faults>>
     \/ ~Finds(t[1], s) /\ Again(t, c) /\ UNCHANGED faults
     \/ Fault(t) /\ IF s.skip = 1 THEN Again(t, c) ELSE Throw(t, c, {})
  /\ UNCHANGED <<chainVars, refused>>

ThreadStep(t, c) == Runs(t, c) /\
  (Look(t, c) \/ Read(t, c) \/ ReadFails(t, c) \/ Mined(t, c) \/ Refused(t, c)
   \/ SendFails(t, c) \/ Poll(t, c))

(***************************************************************************)
(* Processes                                                               *)
(***************************************************************************)
\* The barrier of Promise.all, and the end of a program.
StageEnds(p) == LET t == <<p, "awaited">> IN
  /\ progress[p] = "running" /\ \A c \in Chains : ~Runs(t, c)
  /\ IF stage[p] < Len(Program[p])
       THEN stage' = [stage EXCEPT ![p] = @ + 1] /\ UNCHANGED <<progress, tries, left, stored, wired>>
       ELSE Ends(p, "returned")
  /\ lane' = AtStart(t) /\ UNCHANGED <<chainVars, loose, refused, faults>>

\* The unfreeze script is run by hand, when no test is.
MayStart(p) ==
  CASE p = "wait"     -> TRUE
    [] p = "boot"     -> progress["wait"] = "returned"
    [] p = "unfreeze" -> progress["boot"] = "returned" /\ \A w \in Testers : progress[w] # "running"
    [] OTHER          -> progress["boot"] = "returned" /\ progress["unfreeze"] # "running"

Begin(p) ==
  /\ MayStart(p)
  /\ progress' = [progress EXCEPT ![p] = "running"]
  /\ UNCHANGED <<stage, tries, chainVars, refused, faults>>

Start(p) ==
  /\ progress[p] = "waiting" /\ Begin(p)
  /\ UNCHANGED <<lane, left, stored, wired, loose>>

\* The bootstrap is run again after a failure. A slot's next before hook is in
\* the same process, with its singletons and strays, or in a new one.
StartAgain(p) ==
  /\ progress[p] = "threw" \/ (progress[p] = "returned" /\ p \in Testers)
  /\ p \in {"boot"} \cup Testers
  /\ left[p] > 0 /\ left' = [left EXCEPT ![p] = @ - 1]
  /\ Begin(p)
  /\ \/ p \in Testers /\ UNCHANGED <<stored, wired, lane, loose>>
     \/ /\ stored' = [stored EXCEPT ![p] = {}]
        /\ wired' = [wired EXCEPT ![p] = [c \in Chains |-> 0]]
        /\ IF p \in Testers
             THEN /\ lane' = [lane EXCEPT ![<<p, "stray">>] = [c \in Chains |-> 0]]
                  /\ \E sent \in SUBSET InFlight(<<p, "stray">>, Hub) : loose' = loose \cup sent
             ELSE UNCHANGED <<lane, loose>>

ProcStep(p) ==
  /\ StageEnds(p) \/ Start(p) \/ StartAgain(p) \/ \E t \in Threads, c \in Chains : t[1] = p /\ ThreadStep(t, c)
  /\ UNCHANGED <<configured, meshVars>>

(***************************************************************************)
(* The mesh                                                                *)
(***************************************************************************)
\* A transaction that was given up is mined after all, or dropped.
SettlesLate ==
  \E s \in loose :
    /\ loose' = loose \ {s}
    /\ (Affords(s) /\ Effect(s)) \/ UNCHANGED chainVars
    /\ UNCHANGED <<procVars, meshVars, configured, refused, faults>>

Register(n) == known' = known \cup {n} /\ UNCHANGED <<replica, synced>>

\* The relayers deploy a node's replica, complete or with a participant missing.
\* Nothing reads it before the bootstrap is over, so it need not come earlier.
Deliver(n) ==
  /\ known = Nodes /\ progress["boot"] = "returned"
  /\ \/ replica[n] = "none" /\ \E r \in {"stale", "active"} : replica' = [replica EXCEPT ![n] = r]
     \/ n \in synced /\ replica' = [replica EXCEPT ![n] = "active"]
  /\ synced' = synced \ {n} /\ UNCHANGED known

Mesh ==
  /\ \E n \in Nodes : Register(n) \/ Deliver(n)
  /\ UNCHANGED <<procVars, members, balance, mapped, loose, configured, refused, faults>>

SetupNext == (\E p \in Procs : ProcStep(p)) \/ SettlesLate \/ Mesh

SetupSpec == SetupInit /\ [][SetupNext]_setupVars

FairSetupSpec == SetupSpec /\ WF_setupVars(SettlesLate) /\ \A p \in Procs : WF_setupVars(ProcStep(p))
=============================================================================
