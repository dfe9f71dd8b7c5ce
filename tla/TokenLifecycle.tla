---------------------------- MODULE TokenLifecycle ----------------------------
(***************************************************************************)
(* The life of a token under test: BaseTokenWrapper and its subclasses     *)
(* take it from a bare contract on the issuer's node to one the hub knows, *)
(* that has a mirror on a receiver's node and a twin on the public chain.  *)
(*                                                                         *)
(* A test runs its script of wrapper methods on its own token, each a      *)
(* sequence of submitTx() calls, reads and eventually() polls, and ends at *)
(* the first that throws. What the script waits for is done by relayers,   *)
(* each at its own pace. Tests run side by side and meet in the hub's list *)
(* of tokens, which holds those of earlier runs too and is searched by a   *)
(* symbol of six random digits: two wrappers may have drawn the same.      *)
(*                                                                         *)
(* The contracts and the relayers are external. submitTx() is TxSubmit's:  *)
(* here it returns, reverts, or throws with its transaction mined or not,  *)
(* as sendTx() and wait() do, which some of the tests use in its place.     *)
(***************************************************************************)
EXTENDS Integers, Sequences

CONSTANTS
  Tokens,      \* one per test
  Script,      \* Script[t]: the steps of the test, one after the other
  Earlier,     \* the hub's list when the tests start: tokens of earlier runs
  Draws,       \* the symbols the wrappers may have drawn, as functions
  None,        \* no address, or the random resource id of a new wrapper
  Attempts,    \* bound: the tries of one eventually()
  MaxFaults    \* bound: calls that fail although nothing was wrong

Nodes == {"issuer", "receiver"}

Past == {Earlier[i] : i \in DOMAIN Earlier}
AllTokens == Tokens \cup Past

ASSUME TokensAssumption == Earlier \in Seq(Past) /\ Past \cap Tokens = {} /\ None \notin AllTokens
ASSUME BoundAssumption  == Attempts \in Nat \ {0} /\ MaxFaults \in Nat

VARIABLES
  symbol,                \* each token's, as generateRandomHex() has drawn it
  step, tries, outcome,  \* where each script is, its attempt, how it ended
  resourceId,            \* of the wrapper: the token it names on the hub
  address,               \* of the wrapper on the receiver: whose mirror it is
  pn, hub, mirror,       \* each token's stage on the issuer, the hub, the receiver
  public,                \* public[n][t]: the stage of node n's twin of t
  listed,                \* getAllTokens() of the hub, in the order of arrival
  faults

scriptVars == <<step, tries, outcome, resourceId, address>>
chainVars  == <<pn, hub, mirror, public, listed>>
vars == <<symbol, scriptVars, chainVars, faults>>

PnStages     == {"none", "waiting", "authorized"}
HubStages    == {"none", "submitted", "waiting", "approved", "active"}
MirrorStages == {"none", "sent", "bare", "live", "minted"}
PublicStages == {"none", "pending", "mapped", "deployed", "granted"}

(***************************************************************************)
(* The wrapper's methods                                                   *)
(***************************************************************************)
\* A call or a read throws unless the contract takes it; a look may skip the
\* next step.
submitTx(op, n) == [kind |-> "call", op |-> op, on |-> n, tolerateErrors |-> FALSE]
read(op, n)     == submitTx(op, n)
look(op, n)     == [kind |-> "look", op |-> op, on |-> n, tolerateErrors |-> FALSE]
eventually(op, n, tolerant) ==
  [kind |-> "poll", op |-> op, on |-> n, tolerateErrors |-> tolerant]

activateOnPn ==
  << submitTx("registerToken", "issuer"), submitTx("updatePrivacyNodeStatus", "issuer") >>

\* PrivateHub: the read decides whether the write is skipped.
updateTokenStatus == << look("hubStatus", "issuer"), submitTx("updateStatus", "issuer") >>
getTokenFromRegistry == << eventually("getTokenFromRegistry", "issuer", FALSE) >>

activateOnHub ==
  << submitTx("submitToHub", "issuer") >> \o getTokenFromRegistry \o updateTokenStatus
    \o << eventually("resourceId", "issuer", TRUE) >>

\* EnygmaWrapper binds the hub's contract as well, whatever address it is given,
\* and reads its resourceId(), which fails where there is no contract.
setContractByResourceId == << eventually("getAddressByResourceId", "issuer", FALSE) >>
activateOnHubAndBind ==
  activateOnHub \o setContractByResourceId \o << read("resourceId()", "issuer") >>

submitToPublicChain(n) == << look("publicChainStatus", n), submitTx("submitToPublicChain", n) >>
getPublicAddress(n) == << eventually("publicAddress", n, TRUE) >>
waitForPublicTokenAuthorized(n) == << eventually("canCall", n, TRUE) >>

activateOnPublicChain(n) ==
  submitToPublicChain(n) \o getPublicAddress(n) \o waitForPublicTokenAuthorized(n)

mint == << submitTx("mint", "issuer") >>
teleport == << submitTx("teleport", "issuer") >>
resolveAddressOnPL == << eventually("address", "receiver", TRUE) >>
waitForBalance == << eventually("balance", "receiver", FALSE) >>
teleportToPublicChain(n) == << submitTx("teleportToPublicChain", n) >>
teleportToPrivacyNode(n) == << submitTx("teleportToPrivacyNode", n) >>

Step(t) == Script[t][step[t]]
At(t, kind) == outcome[t] = "running" /\ Step(t).kind = kind

(***************************************************************************)
(* The contracts: what a transaction requires and what it does             *)
(***************************************************************************)
\* A mirror is authorized on the receiver by the delivery that deploys it.
HasCode(t) == mirror[t] \in {"live", "minted"}
Authorized(n, t) == IF n = "issuer" THEN pn[t] = "authorized" ELSE HasCode(t)
Deployed(n, t) == public[n][t] \in {"deployed", "granted"}
NamedOnHub(t, stages) == resourceId[t] # None /\ hub[resourceId[t]] \in stages

Accepts(t, op, n) ==
  \/ op = "registerToken" /\ pn[t] = "none"
  \/ op = "updatePrivacyNodeStatus" /\ pn[t] # "none"
  \/ op = "mint" /\ Authorized("issuer", t)
  \/ op = "submitToHub" /\ Authorized("issuer", t) /\ hub[t] = "none"
  \/ op = "updateStatus" /\ NamedOnHub(t, {"waiting"})
  \/ op = "resourceId()" /\ NamedOnHub(t, {"approved", "active"})
  \/ op = "teleport" /\ hub[t] = "active"
  \/ op = "submitToPublicChain" /\ Authorized(n, t)
  \/ op = "teleportToPublicChain" /\ Deployed(n, t)
  \/ op = "teleportToPrivacyNode" /\ public[n][t] = "granted"

Mined(t, op, n) ==
  /\ pn' = CASE op = "registerToken"           -> [pn EXCEPT ![t] = "waiting"]
             [] op = "updatePrivacyNodeStatus" -> [pn EXCEPT ![t] = "authorized"]
             [] OTHER                          -> pn
  /\ hub' = CASE op = "submitToHub"  -> [hub EXCEPT ![t] = "submitted"]
              [] op = "updateStatus" -> [hub EXCEPT ![resourceId[t]] = "approved"]
              [] OTHER               -> hub
  /\ mirror' = IF op = "teleport" /\ mirror[t] = "none"
                 THEN [mirror EXCEPT ![t] = "sent"] ELSE mirror
  /\ public' = IF op = "submitToPublicChain" /\ public[n][t] = "none"
                 THEN [public EXCEPT ![n][t] = "pending"] ELSE public
  /\ UNCHANGED listed

(***************************************************************************)
(* The script                                                              *)
(***************************************************************************)
\* An earlier run has left its tokens in the hub's list: active, with all their
\* life behind them, or waiting for an approval that never came.
Init ==
  /\ step = [t \in Tokens |-> 1] /\ tries = [t \in Tokens |-> 1]
  /\ outcome = [t \in Tokens |-> "running"]
  /\ resourceId = [t \in Tokens |-> None] /\ address = [t \in Tokens |-> None]
  /\ pn = [t \in Tokens |-> "none"]
  /\ hub \in [AllTokens -> {"none", "waiting", "active"}]
  /\ \A t \in AllTokens : hub[t] = "none" <=> t \in Tokens
  /\ mirror = [t \in AllTokens |-> IF hub[t] = "active" THEN "minted" ELSE "none"]
  /\ public = [n \in Nodes |-> [t \in Tokens |-> "none"]]
  /\ symbol \in Draws /\ listed = Earlier /\ faults = 0

\* The step's await resolves: k steps on, or the end of the script.
Advance(t, k) ==
  /\ tries' = [tries EXCEPT ![t] = 1]
  /\ IF step[t] + k <= Len(Script[t])
       THEN step' = [step EXCEPT ![t] = @ + k] /\ UNCHANGED outcome
       ELSE outcome' = [outcome EXCEPT ![t] = "returned"] /\ UNCHANGED step

Throw(t, how) == outcome' = [outcome EXCEPT ![t] = how] /\ UNCHANGED <<step, tries>>
Fault == faults < MaxFaults /\ faults' = faults + 1

\* submitTx() returns the receipt of a transaction the contract took, or throws
\* the revert of one it did not take.
Call(t) ==
  /\ At(t, "call")
  /\ IF Accepts(t, Step(t).op, Step(t).on)
       THEN Mined(t, Step(t).op, Step(t).on) /\ Advance(t, 1)
       ELSE Throw(t, "reverted") /\ UNCHANGED chainVars
  /\ UNCHANGED <<resourceId, address, faults>>

\* submitTx() gives up. Its transaction may have been mined, or be mined later,
\* which is the same here: nothing the script does comes after it.
CallThrows(t) ==
  /\ At(t, "call") /\ Fault
  /\ Throw(t, "threw")
  /\ \/ UNCHANGED chainVars
     \/ Accepts(t, Step(t).op, Step(t).on) /\ Mined(t, Step(t).op, Step(t).on)
  /\ UNCHANGED <<resourceId, address>>

AlreadyDone(t) ==
  CASE Step(t).op = "hubStatus"         -> NamedOnHub(t, {"approved", "active"})
    [] Step(t).op = "publicChainStatus" -> public[Step(t).on][t] # "none"

Look(t) ==
  /\ At(t, "look")
  /\ Advance(t, IF AlreadyDone(t) THEN 2 ELSE 1)
  /\ UNCHANGED <<resourceId, address, chainVars, faults>>

LookThrows(t) ==
  /\ At(t, "look") /\ Fault /\ Throw(t, "threw")
  /\ UNCHANGED <<resourceId, address, chainVars>>

(***************************************************************************)
(* eventually()                                                            *)
(***************************************************************************)
\* getAllTokens().find(): the first entry with the wrapper's symbol.
IsMatch(t, i) == symbol[listed[i]] = symbol[t]

\* Mutant: the newest entry with the symbol.
FindLast(t) ==
  {listed[i] : i \in {j \in DOMAIN listed :
     IsMatch(t, j) /\ \A k \in (j + 1) .. Len(listed) : ~IsMatch(t, k)}}

Find(t) ==
  {listed[i] : i \in {j \in DOMAIN listed : IsMatch(t, j) /\ \A k \in 1 .. (j - 1) : ~IsMatch(t, k)}}

\* Mutant: resolveAddressOnPL() without getCode().
AddressOnly(t) == resourceId[t] # None /\ mirror[resourceId[t]] \notin {"none", "sent"}

HasAddressAndCode(t) == resourceId[t] # None /\ HasCode(resourceId[t])

\* What the poll's check sees.
Sees(t) ==
  CASE Step(t).op = "getTokenFromRegistry"    -> Find(t) # {}
    [] Step(t).op = "getAddressByResourceId"  -> resourceId[t] # None
    [] Step(t).op = "resourceId"              -> hub[t] = "active"
    [] Step(t).op = "publicAddress"           -> Deployed(Step(t).on, t)
    [] Step(t).op = "canCall"                 -> public[Step(t).on][t] = "granted"
    [] Step(t).op = "address"                 -> address[t] # None \/ HasAddressAndCode(t)
    [] Step(t).op = "balance"                 -> mirror[t] = "minted"

PollSees(t) ==
  /\ At(t, "poll") /\ Sees(t)
  /\ IF Step(t).op = "getTokenFromRegistry"
       THEN \E u \in Find(t) : resourceId' = [resourceId EXCEPT ![t] = u]
       ELSE UNCHANGED resourceId
  /\ IF Step(t).op = "address" /\ address[t] = None
       THEN address' = [address EXCEPT ![t] = resourceId[t]]
       ELSE UNCHANGED address
  /\ Advance(t, 1)
  /\ UNCHANGED <<chainVars, faults>>

\* Mutant: the attempts are not counted.
AgainUncounted(t) == tries' = [tries EXCEPT ![t] = 3 - @] /\ UNCHANGED <<step, outcome>>

\* Mutant: after its last attempt eventually() returns instead of throwing.
AgainInSilence(t) ==
  IF tries[t] < Attempts
    THEN tries' = [tries EXCEPT ![t] = @ + 1] /\ UNCHANGED <<step, outcome>>
    ELSE Advance(t, 1)

\* The check is repeated, or was the last.
Again(t) ==
  IF tries[t] < Attempts
    THEN tries' = [tries EXCEPT ![t] = @ + 1] /\ UNCHANGED <<step, outcome>>
    ELSE Throw(t, "exhausted")

PollMisses(t) ==
  /\ At(t, "poll") /\ ~Sees(t) /\ Again(t)
  /\ UNCHANGED <<resourceId, address, chainVars, faults>>

\* The check throws: a miss when errors are tolerated, the end when not.
PollThrows(t) ==
  /\ At(t, "poll") /\ Fault
  /\ IF Step(t).tolerateErrors THEN Again(t) ELSE Throw(t, "threw")
  /\ UNCHANGED <<resourceId, address, chainVars>>

ScriptStep(t) ==
  /\ \/ Call(t) \/ CallThrows(t)
     \/ Look(t) \/ LookThrows(t)
     \/ PollSees(t) \/ PollMisses(t) \/ PollThrows(t)
  /\ UNCHANGED symbol

(***************************************************************************)
(* The relayers                                                            *)
(***************************************************************************)
\* submitToHub()'s message reaches the hub, which lists the token.
HubLists(t) ==
  /\ hub[t] = "submitted"
  /\ hub' = [hub EXCEPT ![t] = "waiting"]
  /\ listed' = Append(listed, t)
  /\ UNCHANGED <<scriptVars, pn, mirror, public, faults>>

\* The hub's callback gives the token on the issuer its resource id.
ActivateToken(t) ==
  /\ hub[t] = "approved"
  /\ hub' = [hub EXCEPT ![t] = "active"]
  /\ UNCHANGED <<scriptVars, pn, mirror, public, listed, faults>>

\* A teleport reaches the receiver: an address, its code, the balance.
MirrorGrows(t) ==
  /\ mirror' = [mirror EXCEPT ![t] =
       CASE @ = "sent" -> "bare" [] @ = "bare" -> "live" [] @ = "live" -> "minted"
         [] OTHER -> @]
  /\ mirror' # mirror
  /\ UNCHANGED <<scriptVars, pn, hub, public, listed, faults>>

\* The public relayer deploys the twin, publishes its address, then grants it
\* AUTHORIZED_SENDER.
TwinGrows(n, t) ==
  /\ public' = [public EXCEPT ![n][t] =
       CASE @ = "pending" -> "mapped" [] @ = "mapped" -> "deployed"
         [] @ = "deployed" -> "granted" [] OTHER -> @]
  /\ public' # public
  /\ UNCHANGED <<scriptVars, pn, hub, mirror, listed, faults>>

Relayers(t) ==
  /\ HubLists(t) \/ ActivateToken(t) \/ MirrorGrows(t) \/ \E n \in Nodes : TwinGrows(n, t)
  /\ UNCHANGED symbol

\* The token of an earlier run is approved by a wrapper that has its symbol.
EarlierRuns == (\E t \in Past : ActivateToken(t)) /\ UNCHANGED symbol

Next == (\E t \in Tokens : ScriptStep(t) \/ Relayers(t)) \/ EarlierRuns

Spec == Init /\ [][Next]_vars
\* An await is never left pending for ever; the relayers owe nothing.
FairSpec == Spec /\ \A t \in Tokens : WF_vars(ScriptStep(t))
=============================================================================
