-------------------------------- MODULE MCSetup --------------------------------
(***************************************************************************)
(* Two privacy nodes and a hub. The bootstrap serves every slot, and the   *)
(* first slot is given a test that uses each of the roles it was granted.  *)
(***************************************************************************)
EXTENDS SetupProps
CONSTANTS A, B, C, w1, w2

MCRaylsNodes == << A, C, B >>
MCParticipants == {A, B}
TwoSlots == << w1, w2 >>
OneSlot  == << w1 >>
MCBody == [w \in {w1} |->
  grantEndpointSender(A, w) \o makeRoleHolder(A, "FACTORY_DEPLOYER", w)
    \o callAs(B, "BANK_EMPLOYEE", bankEmployeeWallet(w))
    \o callAs(Hub, "PRIVATE_NETWORK_OPERATOR", operatorWallet(w))
    \o callAs(Hub, "COMPLIANCE_OFFICER", complianceWallet(w))]
ASSUME BodiesChecked == BodiesInOrder
=============================================================================
