---------------------------- MODULE MCFreezeSync ----------------------------
(***************************************************************************)
(* Two privacy nodes with a replica each; a chain carries its node's name. *)
(***************************************************************************)
EXTENDS FreezeSyncProps

CONSTANTS A, B

Nodes == {A, B}

\* The lists that FreezeTokens.ts, Enygma_Transfer_Freeze.ts and Dvp_Freeze.ts pass:
\* the source's replica for both chains, each chain's own replica, or one of each.
SourceOnly == {A} \X Nodes
EachItsOwn == {<<n, n>> : n \in Nodes}

SuiteLists == {SourceOnly, EachItsOwn} \cup {{p} : p \in SourceOnly \cup EachItsOwn}

\* What they are for the destination's chain.
OneChain      == {B}
OneChainLists == {list \cap (Nodes \X OneChain) : list \in SuiteLists} \ {{}}
=============================================================================
