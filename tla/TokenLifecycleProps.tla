-------------------------- MODULE TokenLifecycleProps --------------------------
(***************************************************************************)
(* Properties of the token's life.                                         *)
(***************************************************************************)
EXTENDS TokenLifecycle

Outcomes == {"running", "returned", "reverted", "threw", "exhausted"}

\* The awaits of the wrapper's methods; all but the public chain's and the
\* receiver's are the issuer's.
PublicCalls == {"submitToPublicChain", "teleportToPublicChain", "teleportToPrivacyNode"}
IssuerCalls == {"registerToken", "updatePrivacyNodeStatus", "submitToHub", "updateStatus",
                "resourceId()", "mint", "teleport"}
Steps ==
  {submitTx(op, "issuer") : op \in IssuerCalls}
    \cup {submitTx(op, n) : op \in PublicCalls, n \in Nodes}
    \cup {look("hubStatus", "issuer")} \cup {look("publicChainStatus", n) : n \in Nodes}
    \cup {eventually(op, "issuer", b) :
            op \in {"getTokenFromRegistry", "getAddressByResourceId", "resourceId"}, b \in BOOLEAN}
    \cup {eventually(op, n, b) : op \in {"publicAddress", "canCall"}, n \in Nodes, b \in BOOLEAN}
    \cup {eventually(op, "receiver", b) : op \in {"address", "balance"}, b \in BOOLEAN}

\* Every variable has its type.
TypeOK ==
  /\ step \in [Tokens -> Nat] /\ tries \in [Tokens -> 1 .. Attempts]
  /\ outcome \in [Tokens -> Outcomes]
  /\ resourceId \in [Tokens -> AllTokens \cup {None}]
  /\ address \in [Tokens -> AllTokens \cup {None}]
  /\ pn \in [Tokens -> PnStages] /\ hub \in [AllTokens -> HubStages]
  /\ mirror \in [AllTokens -> MirrorStages]
  /\ public \in [Nodes -> [Tokens -> PublicStages]]
  /\ listed \in Seq(AllTokens)
  /\ faults \in 0 .. MaxFaults

(***************************************************************************)
(* Safety                                                                  *)
(***************************************************************************)

Passed(t, op) == \E j \in 1 .. step[t] - 1 : Script[t][j].op = op

\* Whoever else has drawn its symbol, in this run or in an earlier one, a wrapper
\* that activateOnHub() has let through has the resource id of its own token: one
\* that found another's entry waits in vain, since nobody approves its own.
OwnResourceId == \A t \in Tokens : Passed(t, "resourceId") => resourceId[t] = t

\* An address the wrapper has kept for the receiver's node, which it never
\* reads again, is that of its own token's mirror, with its code in place.
KeptAddressIsLive ==
  \A t \in Tokens : address[t] # None => address[t] = t /\ HasCode(t)

\* The one await whose passing a call relies on: a leg's own, or the last of the
\* leg before.
Needs(op, n) ==
  CASE op = "updatePrivacyNodeStatus"   -> "registerToken"
    [] op \in {"mint", "submitToHub"}    -> "updatePrivacyNodeStatus"
    [] op = "updateStatus"              -> "getTokenFromRegistry"
    [] op = "resourceId()"              -> "updateStatus"
    [] op = "teleport"                  -> "resourceId"
    [] op = "submitToPublicChain" -> IF n = "issuer" THEN "updatePrivacyNodeStatus" ELSE "address"
    [] op = "teleportToPublicChain"     -> "publicAddress"
    [] op = "teleportToPrivacyNode"     -> "canCall"

Skipped == [hubStatus |-> "updateStatus", publicChainStatus |-> "submitToPublicChain"]

\* A script that takes the legs in their order, whatever it does in between: a
\* token is registered and submitted once, a call comes after what it needs, and
\* a look before the call it may skip,
\* and an address is resolved for a token that is active on the hub.
LegsInOrder ==
  \A t \in Tokens :
    /\ Script[t] \in Seq(Steps) /\ Len(Script[t]) > 0
    /\ \A i \in 1 .. Len(Script[t]) :
         LET s == Script[t][i]
             Before(op) == \E j \in 1 .. i - 1 : Script[t][j].op = op /\ Script[t][j].on = s.on
         IN  /\ s.kind = "look" =>
                  i < Len(Script[t]) /\ Script[t][i + 1] = submitTx(Skipped[s.op], s.on)
             /\ s.kind = "call" /\ s.op # "registerToken" => Before(Needs(s.op, s.on))
             /\ s.op \in {"registerToken", "submitToHub"} => ~Before(s.op)
             /\ s.op = "updateStatus" => i > 1 /\ Script[t][i - 1] = look("hubStatus", s.on)
             /\ s.op = "resourceId" => Before("getTokenFromRegistry")
             /\ s.op = "address" => \E j \in 1 .. i - 1 : Script[t][j].op = "resourceId"

\* The wrapper's symbol is nobody else's, in this run or in an earlier one.
HasOwnSymbol(t) == \A u \in AllTokens \ {t} : symbol[u] # symbol[t]

\* No call of a script reverts: what one leg waits for before it returns is
\* what the next leg's transactions require, however late the relayers are. The
\* one exception is the approval of a wrapper whose symbol another has drawn: the
\* other may approve the token both have found between its look and its call.
NoCallReverts ==
  \A t \in Tokens : outcome[t] = "reverted" => Step(t).op = "updateStatus" /\ ~HasOwnSymbol(t)

(***************************************************************************)
(* Liveness                                                                *)
(***************************************************************************)

\* Every script ends, though the relayers may never deliver: each wait has a
\* number of attempts and no step is taken twice.
ScriptEnds == \A t \in Tokens : <>(outcome[t] # "running")
=============================================================================
