------------------------------ MODULE BackendOps ------------------------------
(***************************************************************************)
(* The flows of src/flows/backend against the ops-api of one privacy node: *)
(* token-operations.ts and user-onboarding.ts, the controllers that carry  *)
(* them, retry() with TransientBackendError, and eventually().             *)
(*                                                                         *)
(* Every flow is a sequence of steps: a write that retry() repeats, or a   *)
(* poll that eventually() repeats. A client runs its script of flows, each *)
(* on its own token, and stops at the first one that throws, as a test     *)
(* does. All clients use the node's one user (the shared JWT), its         *)
(* list of address pairs and its custody of wallets.                       *)
(*                                                                         *)
(* The ops-api is external: a write it accepts is applied, but the answer  *)
(* may be an error all the same, before or after the write, or come so     *)
(* late that axios has given up; and what the lists show may trail behind. *)
(***************************************************************************)
EXTENDS Naturals, Sequences

CONSTANTS
  Clients,
  Script,      \* Script[c]: the flows the client calls, one after the other
  Attempts,    \* Attempts[f]: the attempts a flow allows its retry() or poll
  MaxFaults    \* bound: answers that fail although nothing was wrong

Budgets == {"register", "poll", "status", "teleport", "addPair", "discover",
            "approve", "visible", "deployed"}

ASSUME BudgetAssumption == Attempts \in [Budgets -> Nat \ {0}] /\ MaxFaults \in Nat

VARIABLES
  flow, step, tries,  \* where each client is: flow, step of the flow, attempt
  outcome,            \* "running", "returned", or how its last flow threw
  token,              \* the registry entry of each client's token
  pairs,              \* the user's address pairs, in the order they were added
  mine,               \* the pair the client was given; 0 for none
  custody,            \* the wallet written last: a pair, or 0 for the operator's
  unsure,             \* the writes of each client that failed but were, or may be, mined
  late,               \* those of them, by number, that are still to be mined
  faults

clientVars  == <<flow, step, tries, outcome>>
backendVars == <<token, pairs, mine, custody, late, unsure>>
vars == <<clientVars, backendVars, faults>>

(***************************************************************************)
(* The flows                                                               *)
(***************************************************************************)

\* retry(): `any` is a call without retryIf, else only transient errors count.
Write(op, budget, any) == [kind |-> "write", on |-> op, tries |-> Attempts[budget], lax |-> any]
\* eventually(): `tolerant` is tolerateErrors.
Poll(what, budget, tolerant) == [kind |-> "poll", on |-> what, tries |-> Attempts[budget], lax |-> tolerant]

pollUntilTokenStatusIsUpdated(status) == Poll(status, "poll", FALSE)
registerToken == << Write("register", "register", FALSE), pollUntilTokenStatusIsUpdated("WAITING_APPROVAL") >>
updateTokenStatus(status) == << Write(status, "status", FALSE) >>

registerTokenAndUpdateStatus(status) ==
  registerToken \o updateTokenStatus(status) \o << pollUntilTokenStatusIsUpdated(status) >>
FreezeOn   == [privacy_node |-> "freeze_privacy_node", public_chain |-> "freeze_public_chain"]
UnfreezeOn == [privacy_node |-> "unfreeze_privacy_node", public_chain |-> "unfreeze_public_chain"]
freezeToken(layer)   == << Write(FreezeOn[layer], "status", FALSE) >>
unfreezeToken(layer) == << Write(UnfreezeOn[layer], "status", FALSE) >>
submitTokenToPublicChain == << Write("submit", "status", FALSE) >>
teleportTokenAndSend     == << Write("teleport", "teleport", TRUE) >>
getPublicAddress         == << Poll("DEPLOYED", "deployed", TRUE) >>

onboardUser    == << Write("addPair", "addPair", TRUE) >>
discoverUserId == << Poll("discovered", "discover", TRUE) >>
\* `cached`: the caller passes the userId of an earlier transition.
updateOnboardingStatus(status, cached) ==
  (IF cached THEN << >> ELSE discoverUserId) \o << Write(status, "approve", FALSE) >>
onboardUserAndUpdateStatus(status) ==
  onboardUser \o updateOnboardingStatus(status, FALSE)
    \o (IF status = "APPROVED" THEN << Poll("approved", "visible", TRUE) >> ELSE << >>)

PairStatus  == {"PENDING", "APPROVED", "REJECTED"}
TokenStatus == {"UNDEFINED", "WAITING_APPROVAL", "AUTHORIZED", "UNAUTHORIZED", "FROZEN"}
PublicChainStatus == {"UNDEFINED", "PENDING_DEPLOYMENT", "DEPLOYED", "FROZEN"}
\* What the operator signs; each of them writes the operator's wallet to custody.
TokenOps == {"register", "AUTHORIZED", "UNAUTHORIZED", "submit", "freeze_privacy_node",
             "unfreeze_privacy_node", "freeze_public_chain", "unfreeze_public_chain"}
Ops == TokenOps \cup PairStatus \cup {"addPair", "teleport"}

\* A flow makes at least one call, and nothing else teleports.
Steps ==
  [kind : {"write"}, on : Ops, tries : Nat \ {0}, lax : BOOLEAN]
    \cup [kind : {"poll"}, on : TokenStatus \cup {"DEPLOYED", "discovered", "approved"},
          tries : Nat \ {0}, lax : BOOLEAN]

ASSUME ScriptAssumption ==
  \A c \in Clients :
    /\ Script[c] \in Seq(Seq(Steps)) /\ Len(Script[c]) > 0
    /\ \A i \in DOMAIN Script[c] :
         /\ Len(Script[c][i]) > 0
         /\ \A j \in DOMAIN Script[c][i] :
              Script[c][i][j].on = "teleport" => Script[c][i] = teleportTokenAndSend

Step(c) == Script[c][flow[c]][step[c]]
At(c, kind) == outcome[c] = "running" /\ Step(c).kind = kind

(***************************************************************************)
(* The ops-api                                                             *)
(***************************************************************************)
NewToken == [status |-> "UNDEFINED", saved |-> "UNDEFINED", public |-> "UNDEFINED", moved |-> 0]

Accepts(op, t) ==
  CASE op = "register"                     -> t.status = "UNDEFINED"
    [] op \in {"AUTHORIZED", "UNAUTHORIZED"} -> t.status \notin {"UNDEFINED", "FROZEN"}
    [] op = "submit"                       -> t.status = "AUTHORIZED"
    [] op = "freeze_privacy_node"          -> t.status # "UNDEFINED"
    [] op = "unfreeze_privacy_node"        -> t.status = "FROZEN"
    [] op = "freeze_public_chain"          -> t.public = "DEPLOYED"
    [] op = "unfreeze_public_chain"        -> t.public = "FROZEN"
    [] op = "teleport"                     -> t.status = "AUTHORIZED" /\ t.public = "DEPLOYED"
    [] OTHER                               -> TRUE

\* A teleport also needs the sender's wallet in custody and its pair approved.
CanSign(op, pair) == op = "teleport" => pair # 0 /\ custody = pair /\ pairs[pair] = "APPROVED"

\* Freezing a frozen token overwrites the status kept for the unfreeze.
After(op, t) ==
  CASE op = "register"                     -> [t EXCEPT !.status = "WAITING_APPROVAL"]
    [] op \in {"AUTHORIZED", "UNAUTHORIZED"} -> [t EXCEPT !.status = op]
    [] op = "submit" -> [t EXCEPT !.public = IF @ = "UNDEFINED" THEN "PENDING_DEPLOYMENT" ELSE @]
    [] op = "freeze_privacy_node"          -> [t EXCEPT !.status = "FROZEN", !.saved = t.status]
    [] op = "unfreeze_privacy_node"        -> [t EXCEPT !.status = t.saved]
    [] op = "freeze_public_chain"          -> [t EXCEPT !.public = "FROZEN"]
    [] op = "unfreeze_public_chain"        -> [t EXCEPT !.public = "DEPLOYED"]
    [] op = "teleport"                     -> [t EXCEPT !.moved = @ + 1]
    [] OTHER                               -> t

Apply(c, op, pair) ==
  /\ token' = [token EXCEPT ![c] = After(op, @)]
  /\ pairs' = CASE op = "addPair"     -> Append(pairs, "PENDING")
                [] op \in PairStatus  -> [pairs EXCEPT ![pair] = op]
                [] OTHER              -> pairs
  /\ custody' = CASE op = "addPair"   -> Len(pairs) + 1
                  [] op \in TokenOps  -> 0
                  [] OTHER            -> custody

Taken(c) == Accepts(Step(c).on, token[c]) /\ CanSign(Step(c).on, mine[c])

\* A status set twice, and whatever it cannot take, the ops-api may refuse.
Refused(c) == ~Taken(c) \/ (Step(c).on \in TokenStatus /\ token[c].status = Step(c).on)

(***************************************************************************)
(* retry() and eventually()                                                *)
(***************************************************************************)
Init ==
  /\ flow = [c \in Clients |-> 1] /\ step = [c \in Clients |-> 1] /\ tries = [c \in Clients |-> 1]
  /\ outcome = [c \in Clients |-> "running"]
  /\ token = [c \in Clients |-> NewToken]
  /\ pairs = << >> /\ mine = [c \in Clients |-> 0] /\ custody = 0
  /\ unsure = [c \in Clients |-> << >>] /\ late = [c \in Clients |-> {}]
  /\ faults = 0

\* The step's call resolves: the next step, the next flow, or the end.
Resolve(c) ==
  /\ tries' = [tries EXCEPT ![c] = 1]
  /\ IF step[c] < Len(Script[c][flow[c]])
       THEN step' = [step EXCEPT ![c] = @ + 1] /\ UNCHANGED <<flow, outcome>>
     ELSE IF flow[c] < Len(Script[c])
       THEN /\ flow' = [flow EXCEPT ![c] = @ + 1] /\ step' = [step EXCEPT ![c] = 1]
            /\ UNCHANGED outcome
     ELSE outcome' = [outcome EXCEPT ![c] = "returned"] /\ UNCHANGED <<flow, step>>

\* Mutant: one attempt more than allowed.
RetryOnceMore(c, worthIt, why) ==
  /\ UNCHANGED <<flow, step>>
  /\ IF worthIt /\ tries[c] <= Step(c).tries
       THEN tries' = [tries EXCEPT ![c] = @ + 1] /\ UNCHANGED outcome
       ELSE outcome' = [outcome EXCEPT ![c] = why] /\ UNCHANGED tries

\* Mutant: the attempts are not counted.
RetryUncounted(c, worthIt, why) ==
  /\ UNCHANGED <<flow, step, tries>>
  /\ IF worthIt THEN UNCHANGED outcome ELSE outcome' = [outcome EXCEPT ![c] = why]

\* Mutant: the last error is swallowed instead of thrown.
RetrySwallows(c, worthIt, why) ==
  IF worthIt /\ tries[c] < Step(c).tries
    THEN tries' = [tries EXCEPT ![c] = @ + 1] /\ UNCHANGED <<flow, step, outcome>>
    ELSE Resolve(c)

\* One attempt failed: the next one if the error is worth it and any is left.
Retry(c, worthIt, why) ==
  /\ UNCHANGED <<flow, step>>
  /\ IF worthIt /\ tries[c] < Step(c).tries
       THEN tries' = [tries EXCEPT ![c] = @ + 1] /\ UNCHANGED outcome
       ELSE outcome' = [outcome EXCEPT ![c] = why] /\ UNCHANGED tries

Fault == faults < MaxFaults /\ faults' = faults + 1

\* Mutant: the tx_hash of the answer is not found, so the success of a write that is
\* retried on any error ends the loop only on the last attempt.
WriteDoneGoesOn(c) ==
  /\ At(c, "write") /\ Taken(c)
  /\ Apply(c, Step(c).on, mine[c])
  /\ mine' = IF Step(c).on = "addPair" THEN [mine EXCEPT ![c] = Len(pairs) + 1] ELSE mine
  /\ IF Step(c).lax /\ tries[c] < Step(c).tries
       THEN tries' = [tries EXCEPT ![c] = @ + 1] /\ UNCHANGED <<flow, step, outcome>>
       ELSE Resolve(c)
  /\ UNCHANGED <<late, unsure, faults>>

\* 2xx: the write is mined. The client learns its pair from the answer.
WriteDone(c) ==
  /\ At(c, "write") /\ Taken(c)
  /\ Apply(c, Step(c).on, mine[c])
  /\ mine' = IF Step(c).on = "addPair" THEN [mine EXCEPT ![c] = Len(pairs) + 1] ELSE mine
  /\ Resolve(c)
  /\ UNCHANGED <<late, unsure, faults>>

Unsure(c) == unsure' = [unsure EXCEPT ![c] = Append(@, [op |-> Step(c).on, pair |-> mine[c]])]

\* 5xx after the write was mined (for a teleport also a 2xx without tx_hash).
FailsAfterWrite(c) ==
  /\ At(c, "write") /\ Taken(c) /\ Fault
  /\ Apply(c, Step(c).on, mine[c]) /\ Unsure(c)
  /\ Retry(c, TRUE, "exhausted")
  /\ UNCHANGED <<mine, late>>

\* 5xx, a nonce collision or a mapping that has not settled: nothing written.
FailsBeforeWrite(c) ==
  /\ At(c, "write") /\ Fault
  /\ Retry(c, TRUE, "exhausted")
  /\ UNCHANGED backendVars

\* axios gives up after 60 s: status 0, which no transient condition matches.
TimesOut(c) ==
  /\ At(c, "write") /\ Fault
  /\ Unsure(c) /\ late' = [late EXCEPT ![c] = @ \cup {Len(unsure[c]) + 1}]
  /\ Retry(c, Step(c).lax, "timedOut")
  /\ UNCHANGED <<token, pairs, mine, custody>>

\* 4xx: a revert on the chain.
IsRefused(c) ==
  /\ At(c, "write") /\ Refused(c)
  /\ Retry(c, Step(c).lax, IF Step(c).lax THEN "exhausted" ELSE "refused")
  /\ UNCHANGED <<backendVars, faults>>

Shows(c, what) ==
  CASE what = "discovered" -> mine[c] # 0 /\ pairs[mine[c]] = "PENDING"
    [] what = "approved"   -> mine[c] # 0 /\ pairs[mine[c]] = "APPROVED"
    [] what = "DEPLOYED"   -> token[c].public = "DEPLOYED"
    [] OTHER               -> token[c].status = what

PollSees(c) ==
  /\ At(c, "poll") /\ Shows(c, Step(c).on)
  /\ Resolve(c) /\ UNCHANGED <<backendVars, faults>>

\* Mutant: after its last attempt eventually() returns instead of throwing.
PollMissesInSilence(c) ==
  /\ At(c, "poll")
  /\ IF tries[c] < Step(c).tries THEN Retry(c, TRUE, "exhausted") ELSE Resolve(c)
  /\ UNCHANGED <<backendVars, faults>>

\* Not so yet, or the list still trails behind the chain.
PollMisses(c) ==
  /\ At(c, "poll")
  /\ Retry(c, TRUE, "exhausted") /\ UNCHANGED <<backendVars, faults>>

\* The GET throws: not ready yet under tolerateErrors, else the poll throws.
PollFails(c) ==
  /\ At(c, "poll") /\ Fault
  /\ Retry(c, Step(c).lax, IF Step(c).lax THEN "exhausted" ELSE "aborted")
  /\ UNCHANGED backendVars

ClientStep(c) ==
  \/ WriteDone(c) \/ FailsAfterWrite(c) \/ FailsBeforeWrite(c) \/ TimesOut(c) \/ IsRefused(c)
  \/ PollSees(c) \/ PollMisses(c) \/ PollFails(c)

(***************************************************************************)
(* The node                                                                *)
(***************************************************************************)

\* A write whose caller has gone is mined after all, or reverts.
LateWrite(c) ==
  /\ \E i \in late[c] :
       LET w == unsure[c][i] IN
       /\ late' = [late EXCEPT ![c] = @ \ {i}]
       /\ IF Accepts(w.op, token[c]) /\ CanSign(w.op, w.pair)
            THEN Apply(c, w.op, w.pair) ELSE UNCHANGED <<token, pairs, custody>>
  /\ UNCHANGED <<clientVars, mine, unsure, faults>>

\* The relayer deploys the public counterpart.
Deploy(c) ==
  /\ token[c].public = "PENDING_DEPLOYMENT"
  /\ token' = [token EXCEPT ![c].public = "DEPLOYED"]
  /\ UNCHANGED <<clientVars, pairs, mine, custody, late, unsure, faults>>

Next == \E c \in Clients : ClientStep(c) \/ LateWrite(c) \/ Deploy(c)

Spec     == Init /\ [][Next]_vars
\* Every request is answered or timed out by axios, every delay ends.
FairSpec == Spec /\ \A c \in Clients : WF_vars(ClientStep(c))

=============================================================================
