--------------------------- MODULE MCTokenLifecycle ---------------------------
(***************************************************************************)
(* Two tests on the same hub: an ERC20 that goes from the issuer to the    *)
(* receiver and from there to the public chain, in the order of            *)
(* ERC20_Private_To_Public.ts with the wrapper's own resolveAddressOnPL(), *)
(* and an Enygma token that is activated on the hub and moved, with the    *)
(* public leg of ERC20_Public_Chain.ts on its issuer.                      *)
(***************************************************************************)
EXTENDS TokenLifecycleProps, TLC

CONSTANTS erc20, enygma, old
MCTokens == {erc20, enygma}

MCScript ==
  (erc20 :> activateOnPn \o activateOnHub \o mint \o teleport \o resolveAddressOnPL
              \o waitForBalance \o activateOnPublicChain("receiver")
              \o teleportToPublicChain("receiver"))
  @@ (enygma :> activateOnPn \o activateOnHubAndBind
              \o activateOnPublicChain("issuer") \o mint
              \o teleportToPublicChain("issuer") \o teleportToPrivacyNode("issuer"))
ASSUME ScriptsInOrder == LegsInOrder

\* The hub's list starts with one token of an earlier run.
MCEarlier == <<old>>

\* Every way in which three draws agree or differ.
MCDraws ==
  {(old :> "s1") @@ (erc20 :> s) @@ (enygma :> u) : s, u \in {"s1", "s2"}}
    \cup {(old :> "s1") @@ (erc20 :> "s2") @@ (enygma :> "s3")}
=============================================================================
