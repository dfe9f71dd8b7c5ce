------------------------------- MODULE SetupProps -------------------------------
(***************************************************************************)
(* Properties of what is in place before a test runs.                      *)
(***************************************************************************)
EXTENDS Setup

(***************************************************************************)
(* The bodies of the tests                                                 *)
(***************************************************************************)

\* The roles the before hook has seen to, with the wallets that hold them.
Held(c, w) ==
  {<<"ADMIN", adminWallet(w)>>}
    \cup IF c = Hub
           THEN {<<"PRIVATE_NETWORK_OPERATOR", operatorWallet(w)>>,
                 <<"COMPLIANCE_OFFICER", complianceWallet(w)>>}
           ELSE {<<"PRIVACY_NODE_OPERATOR", operatorWallet(w)>>,
                 <<"BANK_EMPLOYEE", bankEmployeeWallet(w)>>}

\* Step j of a body may rely on a role of the hook, or one the body has granted.
Relies(w, j, role, by) == LET body == Body[w] c == body[j].on IN
  \/ <<role, by>> \in Held(c, w)
  \/ \E i \in 1 .. j - 1 :
       /\ body[i].kind = "send" /\ body[i].op = "grantRole"
       /\ body[i].on = c /\ body[i].role = role /\ body[i].to = by

\* Bodies work on the chains they asked for, with the wallets they were given.
BodiesInOrder ==
  \A w \in Testers :
    /\ Body[w] \in Seq(ToSet(Body[w]))
    /\ \A j \in DOMAIN Body[w] : LET s == Body[w][j] IN
         /\ s.on \in ToSet(Used) \cup {Hub}
         /\ \/ /\ s.kind = "look" /\ s.op = "hasRole" /\ s.skip = 1 /\ j < Len(Body[w])
               /\ LET next == Body[w][j + 1] IN
                  /\ next.kind = "send" /\ next.op = "grantRole"
                  /\ next.on = s.on /\ next.role = s.role /\ next.to = s.to
            \/ s.kind = "send" /\ s.op = "grantRole" /\ Relies(w, j, AdminOf[s.role], s.by)
            \/ s.kind = "send" /\ s.op = "call" /\ Relies(w, j, s.role, s.by)
            \/ s.kind = "send" /\ s.op = "pay" /\ s.by = adminWallet(w)

(***************************************************************************)
(* Safety                                                                  *)
(***************************************************************************)

\* Whatever earlier, failed and late transactions there were: a bootstrap that
\* exits with 0 has made every slot's wallet an admin wherever there is a
\* registry, and has left it the least it needs on every chain.
BootstrapExitMeansReady ==
  progress["boot"] = "returned" =>
    \A w \in Workers, c \in Chains :
      /\ c \in configured => <<c, "ADMIN", adminWallet(w)>> \in members
      /\ (\A v \in Testers : progress[v] = "waiting") => balance[c][w] >= FundMin

\* No access manager turns a transaction of a setup or of a test away for want
\* of a role, though roles are granted by wallets that were granted theirs, in
\* other processes, by calls that failed half way.
NoGrantRefused == ~refused

\* A test body finds what its before hook is for: singletons that have all their
\* contracts, also where an earlier hook of the process failed half way through
\* initialize(); the roles of its wallets on every node it uses and on the hub;
\* the freeze selectors; all replicas.
SetupReturnedMeansOperational ==
  \A w \in Testers :
    (progress[w] = "running" /\ stage[w] = TestStage) \/ progress[w] = "returned" =>
      /\ \A c \in ToSet(Used) \cup {Hub} : c \in stored[w] /\ wired[w][c] = 2
      /\ \A n \in ToSet(Used) :
           /\ <<n, "PRIVACY_NODE_OPERATOR", operatorWallet(w)>> \in members
           /\ <<n, "BANK_EMPLOYEE", bankEmployeeWallet(w)>> \in members
           /\ replica[n] = "active"
      /\ <<Hub, "PRIVATE_NETWORK_OPERATOR", operatorWallet(w)>> \in members
      /\ <<Hub, "COMPLIANCE_OFFICER", complianceWallet(w)>> \in members
      /\ mapped

\* Whatever has started ends, though the relayers may never deliver.
SetupEnds == <>[](\A p \in Procs : progress[p] # "running")
=============================================================================
