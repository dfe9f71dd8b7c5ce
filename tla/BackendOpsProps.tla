--------------------------- MODULE BackendOpsProps ---------------------------
(***************************************************************************)
(* Properties of the ops-api flows.                                        *)
(***************************************************************************)
EXTENDS BackendOps, FiniteSets

Outcomes == {"running", "returned", "refused", "exhausted", "timedOut", "aborted"}

\* Every variable has its type.
TypeOK ==
  /\ flow \in [Clients -> Nat] /\ step \in [Clients -> Nat] /\ tries \in [Clients -> Nat]
  /\ \A c \in Clients :
       /\ flow[c] \in DOMAIN Script[c] /\ step[c] \in DOMAIN Script[c][flow[c]]
       /\ tries[c] \in 1 .. Step(c).tries
       /\ late[c] \subseteq DOMAIN unsure[c]
  /\ outcome \in [Clients -> Outcomes]
  /\ token \in [Clients -> [status : TokenStatus, saved : TokenStatus,
                            public : PublicChainStatus, moved : Nat]]
  /\ pairs \in Seq(PairStatus)
  /\ custody \in 0 .. Len(pairs)
  /\ mine \in [Clients -> 0 .. Len(pairs)]
  /\ unsure \in [Clients -> Seq([op : Ops, pair : 0 .. Len(pairs)])]
  /\ late \in [Clients -> SUBSET Nat]
  /\ faults \in 0 .. MaxFaults

\* The teleports that have returned a hash to their caller.
Teleports(c) ==
  Cardinality({i \in DOMAIN Script[c] :
    /\ Script[c][i] = teleportTokenAndSend
    /\ i < flow[c] \/ outcome[c] = "returned"})

TimesUnsure(c, op) == Cardinality({i \in DOMAIN unsure[c] : unsure[c][i].op = op})

(***************************************************************************)
(* Safety                                                                  *)
(***************************************************************************)

\* teleportTokenAndSend() repeats a write that is not idempotent on any error.
\* What it moved is what it returned, plus at most one transfer per attempt
\* whose answer failed although the write was, or will be, mined.
TeleportsAccounted ==
  \A c \in Clients :
    /\ Teleports(c) <= token[c].moved
    /\ token[c].moved <= Teleports(c) + TimesUnsure(c, "teleport")

\* What a step that passes makes of a token, transfers aside.
Passed(s, t) ==
  IF s.kind = "write" THEN [After(s.on, t) EXCEPT !.moved = 0]
  ELSE IF s.on = "DEPLOYED" THEN [t EXCEPT !.public = "DEPLOYED"] ELSE t

\* Plan[c][i][j] is client c's token as step j of flow i finds it when every
\* write before it has been mined once: in this order the registry takes every
\* write that retry() does not repeat on any error.
InOrder(Plan) ==
  \A c \in Clients :
    /\ Plan[c][1][1] = NewToken
    /\ \A i \in DOMAIN Script[c] : \A j \in DOMAIN Script[c][i] :
         LET s == Script[c][i][j]
             t == Plan[c][i][j]
         IN  /\ IF j < Len(Script[c][i])
                  THEN Plan[c][i][j + 1] = Passed(s, t)
                  ELSE i < Len(Script[c]) => Plan[c][i + 1][1] = Passed(s, t)
             /\ s.kind = "write" /\ ~s.lax =>
                  Accepts(s.on, t) /\ ~(s.on \in TokenStatus /\ t.status = s.on)

\* A call is refused for good (a 4xx that isTransient() does not match) only
\* by the echo of one of the client's own writes whose answer was lost: the
\* flows never ask for something in an order the registry would refuse.
RefusedOnlyAfterOwnWrite ==
  \A c \in Clients : outcome[c] = "refused" => unsure[c] # << >>

(***************************************************************************)
(* Scripts of the flows                                                    *)
(***************************************************************************)

\* The flows of token-operations.ts and user-onboarding.ts; set-status accepts
\* AUTHORIZED and UNAUTHORIZED only.
Flows ==
  {registerToken, submitTokenToPublicChain, getPublicAddress, teleportTokenAndSend,
   onboardUser, discoverUserId}
    \cup {registerTokenAndUpdateStatus(s) : s \in {"AUTHORIZED", "UNAUTHORIZED"}}
    \cup {updateTokenStatus(s) : s \in {"AUTHORIZED", "UNAUTHORIZED"}}
    \cup {freezeToken(layer) : layer \in DOMAIN FreezeOn}
    \cup {unfreezeToken(layer) : layer \in DOMAIN UnfreezeOn}
    \cup {onboardUserAndUpdateStatus(s) : s \in PairStatus}
    \cup {updateOnboardingStatus(s, cached) : s \in PairStatus, cached \in BOOLEAN}

Asked(f) == {f[i].on : i \in DOMAIN f}

\* A pair is given its status after it was added or looked up, and by the plan
\* a token is not frozen on the node a second time.
Composed(Plan) ==
  \A c \in Clients : \A i \in DOMAIN Script[c] :
    /\ Script[c][i] \in Flows
    /\ Asked(Script[c][i]) \cap PairStatus # {} =>
         \E k \in 1 .. i : Asked(Script[c][k]) \cap {"addPair", "discovered"} # {}
    /\ \A j \in DOMAIN Script[c][i] :
         Script[c][i][j].on = "freeze_privacy_node" => Plan[c][i][j].status # "FROZEN"

(***************************************************************************)
(* Action properties                                                       *)
(***************************************************************************)

\* What the writes of a flow leave behind.
Done(c, f) ==
  /\ \A s \in {"AUTHORIZED", "UNAUTHORIZED"} \cap Asked(f) : token[c].status = s
  /\ "register" \in Asked(f) => token[c].status # "UNDEFINED"
  /\ "submit" \in Asked(f) => token[c].public # "UNDEFINED"
  /\ "freeze_privacy_node" \in Asked(f) => token[c].status = "FROZEN"
  /\ "unfreeze_privacy_node" \in Asked(f) =>
       token[c].status # "FROZEN" \/ TimesUnsure(c, "freeze_privacy_node") > 0
  /\ "freeze_public_chain" \in Asked(f) => token[c].public = "FROZEN"
  /\ "unfreeze_public_chain" \in Asked(f) => token[c].public = "DEPLOYED"
  /\ "addPair" \in Asked(f) => \A d \in Clients \ {c} : mine[d] # mine[c]
  /\ \A s \in PairStatus \cap Asked(f) : pairs[mine[c]] = s

\* A flow that returns has done what it was asked, however many attempts and
\* stale lists it took, with one exception: an unfreeze that follows a freeze
\* whose retry froze a frozen token restores the frozen status.
ReturnedMeansDone ==
  [][\A c \in Clients : \A i \in DOMAIN Script[c] :
       flow[c] = i /\ (flow'[c] # i \/ outcome'[c] = "returned")
         => Done(c, Script[c][i])']_vars

(***************************************************************************)
(* Liveness                                                                *)
(***************************************************************************)

\* Every script ends, with its last flow returned or with a throw: polls that
\* can never succeed (a second transition without the userId) included.
FlowsSettle == \A c \in Clients : <>(outcome[c] # "running")

=============================================================================
