----------------------------- MODULE MCBackendOps -----------------------------
(***************************************************************************)
(* Two workers on one privacy node. The first sets a token up for a user,  *)
(* freezes and unfreezes its public side and teleports; the second         *)
(* freezes a token on the node and moves a pair twice, the second time     *)
(* without its userId.                                                     *)
(***************************************************************************)
EXTENDS BackendOpsProps, SequencesExt

CONSTANTS w1, w2
MCClients == {w1, w2}

Frozen(layer) == << freezeToken(layer), unfreezeToken(layer) >>
\* setup-token-context.ts: setupTokenForUser(), with its parts.
AuthorizedToken == << registerTokenAndUpdateStatus("AUTHORIZED") >>
PublicToken     == << submitTokenToPublicChain, getPublicAddress >>
Teleported      == << onboardUserAndUpdateStatus("APPROVED"), teleportTokenAndSend >>

\* user-onboarding.ts: a second transition that does not pass the userId, which
\* the comment on onboardUserAndUpdateStatus() warns of.
Transitions ==
  << onboardUserAndUpdateStatus("REJECTED"), updateOnboardingStatus("APPROVED", FALSE) >>

MCScript ==
  (w1 :> AuthorizedToken \o PublicToken \o Frozen("public_chain") \o Teleported)
    @@ (w2 :> << registerToken >> \o Frozen("privacy_node") \o Transitions)
MCAttempts == [b \in Budgets |-> 2]

\* Each token after the steps before step j of flow i.
MCPlan ==
  [c \in Clients |-> [i \in DOMAIN Script[c] |-> [j \in DOMAIN Script[c][i] |->
     FoldLeft(LAMBDA t, s : Passed(s, t), NewToken,
              FlattenSeq(SubSeq(Script[c], 1, i - 1)) \o SubSeq(Script[c][i], 1, j - 1))]]]
ASSUME WritesInOrder == InOrder(MCPlan)
ASSUME FlowsComposed == Composed(MCPlan)
=============================================================================
