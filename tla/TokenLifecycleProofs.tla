------------------------- MODULE TokenLifecycleProofs -------------------------
(***************************************************************************)
(* What a wrapper remembers of its token is right, and the legs of its     *)
(* activation never revert, for every number of tests, every script that   *)
(* takes the legs in their order, every draw of the symbols and every      *)
(* delay of the relayers.                                                  *)
(*                                                                         *)
(* The hub's list only grows, so the first entry with a symbol stays the   *)
(* first: every wrapper of that symbol finds it and approves it, and no    *)
(* other token of the symbol is ever approved. A wrapper whose own token   *)
(* became active has therefore found its own.                              *)
(*                                                                         *)
(* Each leg that passed did its work, and the work lasts.                  *)
(***************************************************************************)
EXTENDS TokenLifecycleProps, TLAPS

\* What the wrappers remember is what the list gives, and what has been approved
\* is what the list gives for its symbol.
FoundFirst == \A t \in Tokens : resourceId[t] # None => resourceId[t] \in Find(t)
ApprovedFirst == \A t \in Tokens : hub[t] \in {"approved", "active"} => t \in Find(t)

IInv ==
  /\ resourceId \in [Tokens -> AllTokens \cup {None}]
  /\ address \in [Tokens -> AllTokens \cup {None}]
  /\ mirror \in [AllTokens -> MirrorStages]
  /\ hub \in [AllTokens -> HubStages]
  /\ listed \in Seq(AllTokens)
  /\ FoundFirst /\ ApprovedFirst

\* One entry at most is found, and two tokens of one symbol find the same.
LEMMA FoundIsUnique ==
  ASSUME NEW t, NEW u, NEW x \in Find(t), NEW y \in Find(u), symbol[t] = symbol[u],
         listed \in Seq(AllTokens)
  PROVE  x = y
<1>1. PICK i \in DOMAIN listed :
        x = listed[i] /\ IsMatch(t, i) /\ \A k \in 1 .. (i - 1) : ~IsMatch(t, k)
  BY DEF Find
<1>2. PICK j \in DOMAIN listed :
        y = listed[j] /\ IsMatch(u, j) /\ \A k \in 1 .. (j - 1) : ~IsMatch(u, k)
  BY DEF Find
<1>3. i \in Nat \ {0} /\ j \in Nat \ {0}
  OBVIOUS
<1>4. IsMatch(t, j) /\ IsMatch(u, i)
  BY <1>1, <1>2 DEF IsMatch
<1>5. ~(j < i) /\ ~(i < j)
  BY <1>1, <1>2, <1>3, <1>4
<1> QED  BY <1>1, <1>2, <1>3, <1>5

\* What is found is in the list, and has the symbol.
LEMMA FoundHasSymbol ==
  ASSUME NEW t, NEW u \in Find(t), listed \in Seq(AllTokens)
  PROVE  u \in AllTokens /\ symbol[u] = symbol[t] /\ \E i \in DOMAIN listed : u = listed[i]
BY DEF Find, IsMatch

\* What is found stays found: the list only grows at its end.
LEMMA FoundStays ==
  ASSUME NEW t, NEW u \in Find(t), listed \in Seq(AllTokens), symbol' = symbol,
         listed' = listed \/ \E v : listed' = Append(listed, v) /\ v \in AllTokens
  PROVE  u \in Find(t)'
<1>1. PICK i \in DOMAIN listed :
        u = listed[i] /\ IsMatch(t, i) /\ \A k \in 1 .. (i - 1) : ~IsMatch(t, k)
  BY DEF Find
<1>2. i \in Nat \ {0} /\ i \in DOMAIN listed' /\ \A k \in 1 .. i : listed'[k] = listed[k]
  <2>1. CASE listed' = listed
    BY <2>1
  <2>2. ASSUME NEW v \in AllTokens, listed' = Append(listed, v)
        PROVE  i \in Nat \ {0} /\ i \in DOMAIN listed' /\ \A k \in 1 .. i : listed'[k] = listed[k]
    <3>1. Len(listed) \in Nat /\ DOMAIN listed = 1 .. Len(listed)
      OBVIOUS
    <3>2. DOMAIN listed' = 1 .. Len(listed) + 1 /\ \A k \in 1 .. Len(listed) : listed'[k] = listed[k]
      BY <2>2
    <3> QED  BY <3>1, <3>2
  <2> QED  BY <2>1, <2>2
<1>3. listed'[i] = u /\ symbol'[listed'[i]] = symbol'[t]
  BY <1>1, <1>2 DEF IsMatch
<1>4. \A k \in 1 .. (i - 1) : symbol'[listed'[k]] # symbol'[t]
  BY <1>1, <1>2 DEF IsMatch
<1> QED  BY <1>2, <1>3, <1>4 DEF Find, IsMatch

\* A step is a script's, a relayer's or an approval delivered to an earlier run.
LEMMA Actors ==
  ASSUME Next
  PROVE  /\ symbol' = symbol
         /\ \/ \E t \in Tokens : ScriptStep(t)
            \/ \E t \in Tokens : Relayers(t)
            \/ EarlierRuns
BY DEF Next, ScriptStep, Relayers, EarlierRuns

\* A transaction is mined where the contract takes it.
LEMMA ChainSteps ==
  ASSUME Next
  PROVE  \/ \E t \in Tokens : \E op, n : Accepts(t, op, n) /\ Mined(t, op, n)
         \/ \E t \in Tokens : Relayers(t)
         \/ EarlierRuns
         \/ UNCHANGED chainVars
BY DEF Next, ScriptStep, Call, CallThrows, Look, LookThrows, PollSees, PollMisses, PollThrows

LEMMA ListGrows ==
  ASSUME Next
  PROVE  listed' = listed \/ \E t \in Tokens : HubLists(t)
<1>1. ASSUME NEW t \in Tokens, Relayers(t)
      PROVE  listed' = listed \/ HubLists(t)
  BY <1>1 DEF Relayers, ActivateToken, MirrorGrows, TwinGrows
<1>2. ASSUME NEW t \in Tokens, NEW op, NEW n, Mined(t, op, n)
      PROVE  listed' = listed
  BY <1>2 DEF Mined
<1> QED  BY <1>1, <1>2, ChainSteps DEF chainVars, EarlierRuns, ActivateToken

\* No step takes the code of a mirror away.
LEMMA CodeStays ==
  ASSUME NEW t \in AllTokens, IInv, Next, HasCode(t)
  PROVE  HasCode(t)' /\ mirror' \in [AllTokens -> MirrorStages]
<1>1. CASE \E u \in Tokens : \E op, n : Mined(u, op, n)
  BY <1>1 DEF Mined, IInv, HasCode, MirrorStages, AllTokens
<1>2. CASE \E u \in Tokens : MirrorGrows(u)
  BY <1>2 DEF MirrorGrows, IInv, HasCode, MirrorStages, AllTokens
<1>3. CASE UNCHANGED mirror
  BY <1>3 DEF HasCode, IInv
<1>4. \/ \E u \in Tokens : \E op, n : Mined(u, op, n)
      \/ \E u \in Tokens : MirrorGrows(u)
      \/ UNCHANGED mirror
  BY ChainSteps DEF Relayers, HubLists, ActivateToken, TwinGrows, chainVars, EarlierRuns
<1> QED  BY <1>1, <1>2, <1>3, <1>4

\* A step leaves the resource ids alone, but for one entry that Find() gives.
LEMMA ResourceIdChanges ==
  ASSUME Next
  PROVE  \/ UNCHANGED resourceId
         \/ \E t \in Tokens : \E u \in Find(t) :
              resourceId' = [resourceId EXCEPT ![t] = u]
BY DEF Next, ScriptStep, Relayers, EarlierRuns, Call, CallThrows, Look, LookThrows, PollSees,
       PollMisses, PollThrows, HubLists, ActivateToken, MirrorGrows, TwinGrows, scriptVars

\* A step leaves the kept addresses alone, but for one entry, taken where
\* resolveAddressOnPL() has seen the code.
LEMMA AddressChanges ==
  ASSUME Next
  PROVE  \/ UNCHANGED address
         \/ \E t \in Tokens :
              /\ PollSees(t) /\ Step(t).op = "address" /\ HasAddressAndCode(t)
              /\ address' = [address EXCEPT ![t] = resourceId[t]]
<1>1. ASSUME NEW t \in Tokens, PollSees(t)
      PROVE  \/ UNCHANGED address
             \/ /\ Step(t).op = "address" /\ HasAddressAndCode(t)
                /\ address' = [address EXCEPT ![t] = resourceId[t]]
  <2>1. CASE Step(t).op = "address" /\ address[t] = None
    BY <1>1, <2>1 DEF PollSees, Sees
  <2>2. CASE ~(Step(t).op = "address" /\ address[t] = None)
    BY <1>1, <2>2 DEF PollSees
  <2> QED  BY <2>1, <2>2
<1>2. (\E t \in Tokens : PollSees(t)) \/ UNCHANGED address
  BY DEF Next, ScriptStep, Relayers, EarlierRuns, Call, CallThrows, Look, LookThrows, PollMisses,
         PollThrows, HubLists, ActivateToken, MirrorGrows, TwinGrows, scriptVars
<1> QED  BY <1>1, <1>2

\* The hub's entry of a token changes by its own submission, by the approval of
\* a wrapper that found it, or by the relayers.
LEMMA HubChanges ==
  ASSUME IInv, Next, NEW u \in AllTokens
  PROVE  /\ hub' \in [AllTokens -> HubStages]
         /\ \/ hub'[u] = hub[u]
            \/ /\ u \in Tokens /\ hub[u] = "none" /\ hub'[u] = "submitted"
            \/ /\ u \in Tokens /\ hub[u] = "submitted" /\ hub'[u] = "waiting"
            \/ /\ hub[u] = "waiting" /\ hub'[u] = "approved"
               /\ \E t \in Tokens : u \in Find(t)
            \/ /\ hub[u] = "approved" /\ hub'[u] = "active"
<1> DEFINE Goal ==
      /\ hub' \in [AllTokens -> HubStages]
      /\ \/ hub'[u] = hub[u]
         \/ /\ u \in Tokens /\ hub[u] = "none" /\ hub'[u] = "submitted"
         \/ /\ u \in Tokens /\ hub[u] = "submitted" /\ hub'[u] = "waiting"
         \/ /\ hub[u] = "waiting" /\ hub'[u] = "approved"
            /\ \E t \in Tokens : u \in Find(t)
         \/ /\ hub[u] = "approved" /\ hub'[u] = "active"
<1>0. hub \in [AllTokens -> HubStages] /\ Tokens \subseteq AllTokens
  BY DEF IInv, AllTokens
<1>1. ASSUME NEW t \in Tokens, NEW op, NEW n, Accepts(t, op, n), Mined(t, op, n)
      PROVE  Goal
  <2>1. CASE op = "submitToHub"
    <3>1. hub[t] = "none" /\ hub' = [hub EXCEPT ![t] = "submitted"]
      BY <1>1, <2>1 DEF Accepts, Mined
    <3> QED  BY <1>0, <3>1 DEF HubStages
  <2>2. CASE op = "updateStatus"
    <3>1. /\ resourceId[t] # None /\ hub[resourceId[t]] = "waiting"
          /\ hub' = [hub EXCEPT ![resourceId[t]] = "approved"]
      BY <1>1, <2>2 DEF Accepts, Mined, NamedOnHub
    <3>2. resourceId[t] \in Find(t)
      BY <3>1 DEF IInv, FoundFirst
    <3> QED  BY <1>0, <3>1, <3>2 DEF HubStages
  <2>3. CASE op \notin {"submitToHub", "updateStatus"}
    <3>1. hub' = hub
      BY <1>1, <2>3 DEF Mined
    <3> QED  BY <1>0, <3>1
  <2> QED  BY <2>1, <2>2, <2>3
<1>2. ASSUME NEW t \in AllTokens, ActivateToken(t)
      PROVE  Goal
  BY <1>0, <1>2 DEF ActivateToken, HubStages
<1>3. ASSUME NEW t \in Tokens, HubLists(t)
      PROVE  Goal
  BY <1>0, <1>3 DEF HubLists, HubStages
<1>4. ASSUME hub' = hub
      PROVE  Goal
  BY <1>0, <1>4
<1> HIDE DEF Goal
<1>5. ASSUME NEW t \in Tokens, Relayers(t)
      PROVE  hub' = hub \/ HubLists(t) \/ ActivateToken(t)
  BY <1>5 DEF Relayers, MirrorGrows, TwinGrows
<1>6. Goal
  <2>1. ASSUME NEW t \in Tokens, Relayers(t)
        PROVE  Goal
    BY <1>0, <1>2, <1>3, <1>4, <1>5, <2>1
  <2>2. CASE EarlierRuns
    BY <1>2, <2>2 DEF EarlierRuns, AllTokens
  <2>3. CASE UNCHANGED chainVars
    BY <1>4, <2>3 DEF chainVars
  <2> QED  BY <1>1, <2>1, <2>2, <2>3, ChainSteps
<1> QED  BY <1>6 DEF Goal

\* The types of what is remembered and read survive a step.
LEMMA TypesStay ==
  ASSUME IInv, Next
  PROVE  /\ resourceId' \in [Tokens -> AllTokens \cup {None}]
         /\ address' \in [Tokens -> AllTokens \cup {None}]
         /\ mirror' \in [AllTokens -> MirrorStages]
         /\ hub' \in [AllTokens -> HubStages]
         /\ listed' \in Seq(AllTokens)
<1>1. resourceId' \in [Tokens -> AllTokens \cup {None}]
  BY ResourceIdChanges, FoundHasSymbol DEF IInv
<1>2. address' \in [Tokens -> AllTokens \cup {None}]
  BY AddressChanges DEF IInv
<1>3. mirror' \in [AllTokens -> MirrorStages]
  <2>1. CASE \E u \in Tokens : \E op, n : Mined(u, op, n)
    BY <2>1 DEF Mined, IInv, MirrorStages
  <2>2. CASE \E u \in Tokens : MirrorGrows(u)
    BY <2>2 DEF MirrorGrows, IInv, MirrorStages
  <2>3. CASE UNCHANGED mirror
    BY <2>3 DEF IInv
  <2> QED
    BY <2>1, <2>2, <2>3, ChainSteps
    DEF Relayers, HubLists, ActivateToken, TwinGrows, chainVars, EarlierRuns
<1>4. hub' \in [AllTokens -> HubStages]
  <2>1. CASE AllTokens = {}
    <3>1. ~(\E t \in Tokens : TRUE) /\ ~(\E t \in Past : TRUE)
      BY <2>1 DEF AllTokens
    <3> QED  BY <3>1 DEF Next, EarlierRuns
  <2>2. CASE \E u : u \in AllTokens
    BY <2>2, HubChanges
  <2> QED  BY <2>1, <2>2
<1>5. listed' \in Seq(AllTokens)
  BY ListGrows DEF HubLists, IInv, AllTokens
<1> QED  BY <1>1, <1>2, <1>3, <1>4, <1>5

LEMMA InitIInv == Init => IInv
<1> SUFFICES ASSUME Init PROVE IInv
  OBVIOUS
<1>1. listed \in Seq(AllTokens)
  BY TokensAssumption DEF Init, AllTokens
<1>2. hub \in [AllTokens -> HubStages] /\ ApprovedFirst
  BY DEF Init, HubStages, ApprovedFirst, AllTokens
<1>3. mirror \in [AllTokens -> MirrorStages]
  BY DEF Init, MirrorStages
<1>4. FoundFirst
  BY DEF Init, FoundFirst
<1> QED  BY <1>1, <1>2, <1>3, <1>4 DEF Init, IInv

\* Every step preserves the invariant: what is remembered was found, what is
\* approved was found by the one who approves it, and both stay found.
LEMMA StepIInv == IInv /\ [Next]_vars => IInv'
<1> SUFFICES ASSUME IInv, [Next]_vars PROVE IInv'
  OBVIOUS
<1>1. CASE UNCHANGED vars
  BY <1>1 DEF vars, scriptVars, chainVars, IInv, FoundFirst, ApprovedFirst, Find, IsMatch
<1>2. CASE Next
  <2>0. listed \in Seq(AllTokens) /\ symbol' = symbol
    BY <1>2, Actors DEF IInv
  <2>1. ASSUME NEW t, NEW u \in Find(t)
        PROVE  u \in Find(t)'
    <3>1. listed' = listed \/ \E v : listed' = Append(listed, v) /\ v \in AllTokens
      BY <1>2, ListGrows DEF HubLists, AllTokens
    <3> QED  BY <2>0, <2>1, <3>1, FoundStays
  <2>2. FoundFirst'
    <3> SUFFICES ASSUME NEW t \in Tokens, resourceId'[t] # None
                 PROVE  resourceId'[t] \in Find(t)
      BY <2>1 DEF FoundFirst
    <3> QED  BY <1>2, ResourceIdChanges DEF IInv, FoundFirst
  <2>3. ApprovedFirst'
    <3> SUFFICES ASSUME NEW u \in Tokens, hub'[u] \in {"approved", "active"}
                 PROVE  u \in Find(u)
      BY <2>1 DEF ApprovedFirst
    <3>1. CASE hub[u] \in {"approved", "active"}
      BY <3>1 DEF IInv, ApprovedFirst
    <3>2. CASE \E t \in Tokens : u \in Find(t)
      <4>1. PICK t \in Tokens : u \in Find(t)
        BY <3>2
      <4>2. symbol[u] = symbol[t]
        BY <2>0, <4>1, FoundHasSymbol
      <4> QED  BY <4>1, <4>2 DEF Find, IsMatch
    <3> QED  BY <1>2, <3>1, <3>2, HubChanges DEF AllTokens
  <2> QED  BY <1>2, <2>2, <2>3, TypesStay DEF IInv
<1> QED  BY <1>1, <1>2

\* A wrapper whose token is active on the hub has found no other.
LEMMA ActiveIsOwn ==
  ASSUME IInv, NEW t \in Tokens, hub[t] \in {"approved", "active"}, resourceId[t] # None
  PROVE  resourceId[t] = t
<1>1. t \in Find(t) /\ resourceId[t] \in Find(t)
  BY DEF IInv, FoundFirst, ApprovedFirst
<1> QED  BY <1>1, FoundIsUnique DEF IInv

\* One whose symbol is nobody else's has found no other either, and nobody else
\* has found its token.
LEMMA OwnSymbolIsOwn ==
  ASSUME IInv, NEW t \in Tokens, HasOwnSymbol(t)
  PROVE  /\ resourceId[t] \in {None, t}
         /\ \A u \in Tokens : resourceId[u] = t => u = t
<1>1. ASSUME NEW u \in Tokens, resourceId[u] # None
      PROVE  resourceId[u] \in AllTokens /\ symbol[resourceId[u]] = symbol[u]
  BY <1>1, FoundHasSymbol DEF IInv, FoundFirst
<1>2. None \notin AllTokens /\ Tokens \subseteq AllTokens
  BY TokensAssumption DEF AllTokens
<1> QED  BY <1>1, <1>2 DEF HasOwnSymbol

\* A step of no script leaves the scripts where they are.
RelayStep == (\E t \in Tokens : Relayers(t)) \/ EarlierRuns

LEMMA RelayLeavesScripts ==
  ASSUME RelayStep
  PROVE  UNCHANGED scriptVars
BY DEF RelayStep, Relayers, EarlierRuns, HubLists, ActivateToken, MirrorGrows, TwinGrows

\* Where a script stands keeps its type: it advances by a step or two, throws,
\* or counts an attempt it has left.
LEMMA ScriptTypes ==
  ASSUME TypeOK, Next
  PROVE  /\ step' \in [Tokens -> Nat] /\ tries' \in [Tokens -> 1 .. Attempts]
         /\ outcome' \in [Tokens -> Outcomes]
<1> DEFINE Typed == /\ step' \in [Tokens -> Nat] /\ tries' \in [Tokens -> 1 .. Attempts]
                    /\ outcome' \in [Tokens -> Outcomes]
<1> SUFFICES Typed
  OBVIOUS
<1>1. ASSUME NEW t \in Tokens, NEW k \in {1, 2}, Advance(t, k)
      PROVE  Typed
  <2>1. tries' \in [Tokens -> 1 .. Attempts]
    BY <1>1, BoundAssumption DEF Advance, TypeOK
  <2>2. step' \in [Tokens -> Nat]
    <3>1. step' = step \/ step' = [step EXCEPT ![t] = step[t] + k]
      BY <1>1 DEF Advance
    <3>2. step \in [Tokens -> Nat] /\ k \in Nat
      BY DEF TypeOK
    <3>3. step[t] + k \in Nat
      BY <3>2
    <3> QED  BY <3>1, <3>2, <3>3
  <2>3. outcome' \in [Tokens -> Outcomes]
    BY <1>1 DEF Advance, TypeOK, Outcomes
  <2> QED  BY <2>1, <2>2, <2>3
<1>2. ASSUME NEW t \in Tokens, NEW how \in Outcomes, Throw(t, how)
      PROVE  Typed
  BY <1>2 DEF Throw, TypeOK
<1>3. ASSUME NEW t \in Tokens, Again(t)
      PROVE  Typed
  <2>1. CASE tries[t] < Attempts
    <3>1. tries' = [tries EXCEPT ![t] = tries[t] + 1] /\ UNCHANGED <<step, outcome>>
      BY <1>3, <2>1 DEF Again
    <3>2. tries[t] + 1 \in 1 .. Attempts
      BY <2>1, BoundAssumption DEF TypeOK
    <3> QED  BY <3>1, <3>2 DEF TypeOK
  <2>2. CASE ~(tries[t] < Attempts)
    BY <1>2, <1>3, <2>2 DEF Again, Outcomes
  <2> QED  BY <2>1, <2>2
<1>4. ASSUME UNCHANGED <<step, tries, outcome>>
      PROVE  Typed
  BY <1>4 DEF TypeOK
<1> HIDE DEF Typed
<1>5. ASSUME NEW t \in Tokens, ScriptStep(t)
      PROVE  Typed
  <2>1. CASE Call(t)
    BY <1>1, <1>2, <2>1 DEF Call, Outcomes
  <2>2. CASE CallThrows(t) \/ LookThrows(t)
    BY <1>2, <2>2 DEF CallThrows, LookThrows, Outcomes
  <2>3. CASE Look(t)
    <3>1. \E k \in {1, 2} : Advance(t, k)
      BY <2>3 DEF Look
    <3> QED  BY <1>1, <3>1
  <2>4. CASE PollSees(t)
    BY <1>1, <2>4 DEF PollSees
  <2>5. CASE PollMisses(t) \/ PollThrows(t)
    BY <1>2, <1>3, <2>5 DEF PollMisses, PollThrows, Outcomes
  <2> QED  BY <1>5, <2>1, <2>2, <2>3, <2>4, <2>5 DEF ScriptStep
<1>6. CASE \E t \in Tokens : ScriptStep(t)
  BY <1>5, <1>6
<1>7. CASE RelayStep
  <2>1. UNCHANGED <<step, tries, outcome>>
    BY <1>7, RelayLeavesScripts DEF scriptVars
  <2> QED  BY <1>4, <2>1
<1> QED  BY <1>6, <1>7, Actors DEF RelayStep

\* The stages the nodes and the public chain keep of each token keep their types.
LEMMA ChainTypes ==
  ASSUME TypeOK, Next
  PROVE  /\ pn' \in [Tokens -> PnStages]
         /\ public' \in [Nodes -> [Tokens -> PublicStages]]
<1> DEFINE Typed == pn' \in [Tokens -> PnStages] /\ public' \in [Nodes -> [Tokens -> PublicStages]]
<1> SUFFICES Typed
  OBVIOUS
<1>1. ASSUME NEW t \in Tokens, NEW op, NEW n, Mined(t, op, n)
      PROVE  Typed
  <2>1. pn' \in [Tokens -> PnStages]
    BY <1>1 DEF Mined, TypeOK, PnStages
  <2>2. public' \in [Nodes -> [Tokens -> PublicStages]]
    BY <1>1 DEF Mined, TypeOK, PublicStages
  <2> QED  BY <2>1, <2>2
<1>2. ASSUME NEW t \in Tokens, NEW n \in Nodes, TwinGrows(n, t)
      PROVE  Typed
  <2>1. public' \in [Nodes -> [Tokens -> PublicStages]]
    BY <1>2 DEF TwinGrows, TypeOK, PublicStages
  <2> QED  BY <1>2, <2>1 DEF TwinGrows, TypeOK
<1>3. ASSUME UNCHANGED <<pn, public>>
      PROVE  Typed
  BY <1>3 DEF TypeOK
<1> HIDE DEF Typed
<1>4. ASSUME NEW t \in Tokens, Relayers(t)
      PROVE  UNCHANGED <<pn, public>> \/ \E n \in Nodes : TwinGrows(n, t)
  BY <1>4 DEF Relayers, HubLists, ActivateToken, MirrorGrows
<1>5. EarlierRuns \/ UNCHANGED chainVars => UNCHANGED <<pn, public>>
  BY DEF EarlierRuns, ActivateToken, chainVars
<1> QED  BY <1>1, <1>2, <1>3, <1>4, <1>5, ChainSteps

\* Calls and looks that fail for no reason stay within their bound.
LEMMA FaultTypes ==
  ASSUME TypeOK, Next
  PROVE  faults' \in 0 .. MaxFaults
<1>1. Fault \/ UNCHANGED faults
  BY DEF Next, ScriptStep, Relayers, EarlierRuns, Call, CallThrows, Look, LookThrows, PollSees, PollMisses,
         PollThrows, HubLists, ActivateToken, MirrorGrows, TwinGrows
<1> QED  BY <1>1, BoundAssumption DEF Fault, TypeOK

LEMMA InitTypeOK == Init => TypeOK
<1> SUFFICES ASSUME Init PROVE TypeOK
  OBVIOUS
<1>1. /\ tries \in [Tokens -> 1 .. Attempts] /\ faults \in 0 .. MaxFaults
      /\ step \in [Tokens -> Nat]
  BY BoundAssumption DEF Init
<1>2. public \in [Nodes -> [Tokens -> PublicStages]]
  BY DEF Init, PublicStages
<1>3. /\ listed \in Seq(AllTokens) /\ hub \in [AllTokens -> HubStages]
      /\ mirror \in [AllTokens -> MirrorStages]
  BY InitIInv DEF IInv
<1> QED  BY <1>1, <1>2, <1>3 DEF Init, TypeOK, Outcomes, PnStages

LEMMA StepTypeOK == TypeOK /\ IInv /\ [Next]_vars => TypeOK'
<1>1. ASSUME TypeOK, UNCHANGED vars
      PROVE  TypeOK'
  BY <1>1 DEF vars, scriptVars, chainVars, TypeOK
<1>2. ASSUME TypeOK, IInv, Next
      PROVE  TypeOK'
  BY <1>2, ScriptTypes, ChainTypes, FaultTypes, TypesStay DEF TypeOK
<1> QED  BY <1>1, <1>2

\* Every variable has its type, for any tests, scripts and relayers.
THEOREM TypeCorrect == Spec => []TypeOK
BY InitIInv, StepIInv, InitTypeOK, StepTypeOK, PTL DEF Spec

(***************************************************************************)
(* Legs in their order never revert: what a step leaves behind (Did) no    *)
(* later step of any test or relayer takes back, and it is what the next   *)
(* call requires.                                                          *)
(***************************************************************************)
Entered == {"waiting", "approved", "active"}
ListedEntered == \A i \in DOMAIN listed : hub[listed[i]] \in Entered

Did(t, s) ==
  /\ s.op = "registerToken" => pn[t] # "none"
  /\ s.op = "updatePrivacyNodeStatus" => pn[t] = "authorized"
  /\ s.op = "getTokenFromRegistry" => resourceId[t] # None /\ hub[resourceId[t]] \in Entered
  /\ s.op = "updateStatus" => NamedOnHub(t, {"approved", "active"})
  /\ s.op = "resourceId" => hub[t] = "active"
  /\ s.op = "publicAddress" => Deployed(s.on, t)
  /\ s.op = "canCall" => public[s.on][t] = "granted"
  /\ s.op = "address" => HasCode(t)

PassedDid == \A t \in Tokens : \A j \in 1 .. step[t] - 1 : Did(t, Script[t][j])

\* A token is registered, and submitted, by its own script only.
NotYet(t, op) == outcome[t] = "running" /\ \A j \in 1 .. step[t] - 1 : Script[t][j].op # op
Fresh ==
  \A t \in Tokens : /\ NotYet(t, "registerToken") => pn[t] = "none"
                    /\ NotYet(t, "submitToHub") => hub[t] = "none"

\* The look before updateStatus() has found the token waiting, which nobody else
\* approves when its symbol is its own.
AtUpdate ==
  \A t \in Tokens :
    outcome[t] = "running" /\ Step(t).op = "updateStatus" /\ HasOwnSymbol(t) => hub[t] = "waiting"

LegsInv ==
  /\ TypeOK /\ IInv /\ ListedEntered /\ \A t \in Tokens : step[t] \in 1 .. Len(Script[t])
  /\ PassedDid /\ Fresh /\ AtUpdate /\ KeptAddressIsLive /\ NoCallReverts

LEMMA IsAStep ==
  ASSUME LegsInOrder, NEW t \in Tokens, NEW i \in 1 .. Len(Script[t])
  PROVE  Script[t][i] \in Steps
BY DEF LegsInOrder

\* No stage of a token is taken back.
LEMMA StagesStay ==
  ASSUME TypeOK, IInv, Next
  PROVE  /\ \A v \in Tokens : pn[v] # "none" => pn'[v] # "none"
         /\ \A v \in Tokens : pn[v] = "authorized" => pn'[v] = "authorized"
         /\ \A v \in AllTokens : hub[v] \in Entered => hub'[v] \in Entered
         /\ \A v \in AllTokens :
              hub[v] \in {"approved", "active"} => hub'[v] \in {"approved", "active"}
         /\ \A v \in AllTokens : hub[v] = "active" => hub'[v] = "active"
<1>1. ASSUME NEW v \in Tokens, NEW t \in Tokens, NEW op, NEW n, Accepts(t, op, n), Mined(t, op, n)
      PROVE  /\ pn[v] # "none" => pn'[v] # "none"
             /\ pn[v] = "authorized" => pn'[v] = "authorized"
  <2>1. CASE op = "registerToken"
    <3>1. pn[t] = "none" /\ pn' = [pn EXCEPT ![t] = "waiting"]
      BY <1>1, <2>1 DEF Accepts, Mined
    <3> QED BY <3>1 DEF TypeOK
  <2>2. CASE op = "updatePrivacyNodeStatus"
    <3>1. pn' = [pn EXCEPT ![t] = "authorized"] BY <1>1, <2>2 DEF Mined
    <3> QED BY <3>1 DEF TypeOK
  <2>3. CASE op \notin {"registerToken", "updatePrivacyNodeStatus"}
    BY <1>1, <2>3 DEF Mined
  <2> QED BY <2>1, <2>2, <2>3
<1>2. RelayStep \/ UNCHANGED chainVars => pn' = pn
  BY DEF RelayStep, EarlierRuns, Relayers, HubLists, ActivateToken, MirrorGrows, TwinGrows, chainVars
<1>3. /\ \A v \in Tokens : pn[v] # "none" => pn'[v] # "none"
      /\ \A v \in Tokens : pn[v] = "authorized" => pn'[v] = "authorized"
  BY <1>1, <1>2, ChainSteps DEF RelayStep
<1>4. ASSUME NEW v \in AllTokens
      PROVE  /\ hub[v] \in Entered => hub'[v] \in Entered
             /\ hub[v] \in {"approved", "active"} => hub'[v] \in {"approved", "active"}
             /\ hub[v] = "active" => hub'[v] = "active"
  BY HubChanges DEF Entered
<1> QED BY <1>3, <1>4

LEMMA TwinStays ==
  ASSUME TypeOK, Next, NEW v \in Tokens, NEW m \in Nodes
  PROVE  /\ Deployed(m, v) => Deployed(m, v)'
         /\ public[m][v] = "granted" => public'[m][v] = "granted"
<1>1. ASSUME NEW t \in Tokens, NEW op, NEW n, Mined(t, op, n)
      PROVE  public'[m][v] = public[m][v] \/ public[m][v] = "none"
  <2>1. public' = public \/ (public[n][t] = "none" /\ public' = [public EXCEPT ![n][t] = "pending"])
    BY <1>1 DEF Mined
  <2>2. public \in [Nodes -> [Tokens -> PublicStages]] BY DEF TypeOK
  <2>3. CASE n = m BY <2>1, <2>2, <2>3
  <2>4. CASE n # m BY <2>1, <2>2, <2>4
  <2> QED BY <2>3, <2>4
<1>2. ASSUME NEW t \in Tokens, Relayers(t)
      PROVE  /\ public'[m][v] = public[m][v] \/ public[m][v] \in {"pending", "mapped"}
                  \/ (public[m][v] = "deployed" /\ public'[m][v] = "granted")
  <2>1. CASE UNCHANGED public BY <2>1
  <2>2. ASSUME NEW n \in Nodes, TwinGrows(n, t)
        PROVE  /\ public'[m][v] = public[m][v] \/ public[m][v] \in {"pending", "mapped"}
                    \/ (public[m][v] = "deployed" /\ public'[m][v] = "granted")
    <3>1. CASE n = m /\ t = v
      <4>1. public'[m][v] = CASE public[m][v] = "pending" -> "mapped"
                              [] public[m][v] = "mapped" -> "deployed"
                              [] public[m][v] = "deployed" -> "granted" [] OTHER -> public[m][v]
        BY <2>2, <3>1 DEF TwinGrows, TypeOK
      <4> QED BY <4>1
    <3>2. CASE ~(n = m /\ t = v)
      BY <2>2, <3>2 DEF TwinGrows, TypeOK
    <3> QED BY <3>1, <3>2
  <2> QED BY <1>2, <2>1, <2>2 DEF Relayers, HubLists, ActivateToken, MirrorGrows
<1>3. \/ public'[m][v] = public[m][v] \/ public[m][v] \in {"none", "pending", "mapped"}
      \/ public[m][v] = "deployed" /\ public'[m][v] = "granted"
  <2>1. EarlierRuns \/ UNCHANGED chainVars => public' = public
    BY DEF EarlierRuns, ActivateToken, chainVars
  <2> QED  BY <1>1, <1>2, <2>1, ChainSteps
<1> QED BY <1>3 DEF Deployed

\* A resource id is kept: finding it again finds the same.
LEMMA IdStays ==
  ASSUME IInv, Next, NEW v \in Tokens, resourceId[v] # None
  PROVE  resourceId'[v] = resourceId[v]
<1>1. ASSUME NEW t \in Tokens, NEW u \in Find(t), resourceId' = [resourceId EXCEPT ![t] = u]
      PROVE  resourceId'[v] = resourceId[v]
  <2>1. CASE t = v
    <3>1. resourceId[v] \in Find(v)
      BY DEF IInv, FoundFirst
    <3>2. u = resourceId[v]
      BY <2>1, <3>1, FoundIsUnique DEF IInv
    <3> QED  BY <1>1, <2>1, <3>2 DEF IInv
  <2>2. CASE t # v
    BY <1>1, <2>2 DEF IInv
  <2> QED BY <2>1, <2>2
<1> QED BY <1>1, ResourceIdChanges

\* What a step of a script has left behind stays.
LEMMA DidStays ==
  ASSUME TypeOK, IInv, Next, NEW v \in Tokens, NEW s \in Steps, Did(v, s)
  PROVE  Did(v, s)'
<1>1. s.op \in {"publicAddress", "canCall"} => s.on \in Nodes
  BY DEF Steps, submitTx, look, eventually, PublicCalls, IssuerCalls
<1>2. HasCode(v) => HasCode(v)' BY CodeStays DEF AllTokens
<1>3. ASSUME resourceId[v] # None
      PROVE  resourceId'[v] = resourceId[v] /\ resourceId[v] \in AllTokens
  BY <1>3, IdStays DEF IInv
<1>4. /\ s.op = "publicAddress" => Deployed(s.on, v)'
      /\ s.op = "canCall" => public'[s.on][v] = "granted"
  BY <1>1, TwinStays DEF Did
<1>5. /\ s.op = "registerToken" => pn'[v] # "none"
      /\ s.op = "updatePrivacyNodeStatus" => pn'[v] = "authorized"
      /\ s.op = "resourceId" => hub'[v] = "active"
  BY StagesStay DEF Did, AllTokens
<1>6. s.op = "getTokenFromRegistry" => resourceId'[v] # None /\ hub'[resourceId'[v]] \in Entered
  BY <1>3, StagesStay DEF Did
<1>7. s.op = "updateStatus" => NamedOnHub(v, {"approved", "active"})'
  BY <1>3, StagesStay DEF Did, NamedOnHub
<1> QED BY <1>2, <1>4, <1>5, <1>6, <1>7 DEF Did

\* What is in the hub's list has arrived there.
LEMMA ListedStays ==
  ASSUME TypeOK, IInv, ListedEntered, Next
  PROVE  ListedEntered'
<1>1. \A v \in AllTokens : hub[v] \in Entered => hub'[v] \in Entered BY StagesStay
<1>2. \A i \in DOMAIN listed : listed[i] \in AllTokens BY DEF IInv
<1>3. CASE listed' = listed
  BY <1>1, <1>2, <1>3 DEF ListedEntered
<1>4. ASSUME NEW t \in Tokens, HubLists(t) PROVE ListedEntered'
  <2>1. hub'[t] \in Entered /\ listed' = Append(listed, t)
    BY <1>4 DEF HubLists, TypeOK, Entered, AllTokens
  <2>2. \A i \in DOMAIN listed' : listed'[i] = t \/ (i \in DOMAIN listed /\ listed'[i] = listed[i])
    BY <2>1 DEF IInv
  <2> QED BY <1>1, <1>2, <2>1, <2>2 DEF ListedEntered
<1> QED BY <1>3, <1>4, ListGrows

LookOps == {"hubStatus", "publicChainStatus"}
PollOps == {"getTokenFromRegistry", "getAddressByResourceId", "resourceId", "publicAddress",
            "canCall", "address", "balance"}

\* The kind of an await goes with its operation.
LEMMA Kinds ==
  ASSUME NEW s \in Steps
  PROVE  /\ s.kind \in {"call", "look", "poll"} /\ s.on \in Nodes
         /\ s.kind = "call" <=> s.op \in IssuerCalls \cup PublicCalls
         /\ s.kind = "look" <=> s.op \in LookOps
         /\ s.kind = "poll" <=> s.op \in PollOps
         /\ s.op \in IssuerCalls \cup {"hubStatus", "getTokenFromRegistry", "resourceId"} =>
              s.on = "issuer"
<1>1. CASE s \in {submitTx(op, "issuer") : op \in IssuerCalls}
            \cup {submitTx(op, n) : op \in PublicCalls, n \in Nodes}
  BY <1>1 DEF submitTx, IssuerCalls, PublicCalls, Nodes, LookOps, PollOps
<1>2. CASE s \in {look("hubStatus", "issuer")} \cup {look("publicChainStatus", n) : n \in Nodes}
  BY <1>2 DEF look, IssuerCalls, PublicCalls, Nodes, LookOps, PollOps
<1>3. CASE \/ s \in {eventually(op, "issuer", b) :
                      op \in {"getTokenFromRegistry", "getAddressByResourceId", "resourceId"}, b \in BOOLEAN}
           \/ s \in {eventually(op, n, b) : op \in {"publicAddress", "canCall"}, n \in Nodes, b \in BOOLEAN}
           \/ s \in {eventually(op, "receiver", b) : op \in {"address", "balance"}, b \in BOOLEAN}
  BY <1>3 DEF eventually, IssuerCalls, PublicCalls, Nodes, LookOps, PollOps
<1> QED BY <1>1, <1>2, <1>3 DEF Steps

\* What a script says of the step it is at.
LEMMA AtStep ==
  ASSUME LegsInOrder, LegsInv, NEW t \in Tokens
  PROVE  /\ step[t] \in 1 .. Len(Script[t]) /\ Len(Script[t]) \in Nat
         /\ Step(t) = Script[t][step[t]] /\ Step(t) \in Steps
         /\ \A j \in 1 .. step[t] - 1 : Script[t][j] \in Steps /\ Did(t, Script[t][j])
<1>1. step[t] \in 1 .. Len(Script[t]) /\ Len(Script[t]) \in Nat BY DEF LegsInOrder, LegsInv
<1>2. \A j \in 1 .. step[t] - 1 : j \in 1 .. Len(Script[t]) BY <1>1
<1>3. \A j \in 1 .. step[t] - 1 : Script[t][j] \in Steps BY <1>2, IsAStep
<1>4. \A j \in 1 .. step[t] - 1 : Did(t, Script[t][j]) BY DEF LegsInv, PassedDid
<1> QED BY <1>1, <1>3, <1>4, IsAStep DEF Step

\* The contract takes every call a script in order comes to, an approval if the
\* wrapper's symbol is its own.
LEMMA CallTaken ==
  ASSUME LegsInOrder, LegsInv, NEW t \in Tokens, At(t, "call"),
         Step(t).op = "updateStatus" => HasOwnSymbol(t)
  PROVE  Accepts(t, Step(t).op, Step(t).on)
<1> DEFINE s == Step(t)
           Before(op) == \E j \in 1 .. step[t] - 1 : Script[t][j].op = op /\ Script[t][j].on = s.on
<1>1. /\ s.kind = "call" /\ s \in Steps /\ s.on \in Nodes /\ outcome[t] = "running"
      /\ s.op \in IssuerCalls \cup PublicCalls /\ (s.op \in IssuerCalls => s.on = "issuer")
  BY AtStep, Kinds DEF At
<1>2. /\ s.op # "registerToken" => Before(Needs(s.op, s.on))
      /\ s.op \in {"registerToken", "submitToHub"} => ~Before(s.op)
  <2>0. step[t] \in 1 .. Len(Script[t]) /\ s = Script[t][step[t]]
    BY AtStep
  <2>1. /\ Script[t][step[t]].kind = "call" /\ Script[t][step[t]].op # "registerToken" =>
             \E j \in 1 .. step[t] - 1 :
               /\ Script[t][j].op = Needs(Script[t][step[t]].op, Script[t][step[t]].on)
               /\ Script[t][j].on = Script[t][step[t]].on
        /\ Script[t][step[t]].op \in {"registerToken", "submitToHub"} =>
             ~\E j \in 1 .. step[t] - 1 :
               /\ Script[t][j].op = Script[t][step[t]].op
               /\ Script[t][j].on = Script[t][step[t]].on
    BY <2>0 DEF LegsInOrder
  <2>2. s.kind = "call"
    BY <1>1
  <2> QED  BY <2>0, <2>1, <2>2
<1>3. ASSUME NEW op, Before(op)
      PROVE  \E r \in Steps : r.op = op /\ r.on = s.on /\ Did(t, r)
  BY <1>3, AtStep
<1>4. ASSUME s.op \in {"registerToken", "submitToHub"} PROVE NotYet(t, s.op)
  <2> SUFFICES ASSUME NEW j \in 1 .. step[t] - 1, Script[t][j].op = s.op PROVE FALSE
    BY <1>1 DEF NotYet
  <2>1. Script[t][j] \in Steps BY AtStep
  <2>2. Script[t][j].on = "issuer" /\ s.on = "issuer" BY <1>1, <1>4, <2>1, Kinds DEF IssuerCalls
  <2> QED BY <1>2, <1>4, <2>2
<1> HIDE DEF s, Before
<1>5. CASE s.op = "registerToken"
  <2>1. pn[t] = "none" BY <1>4, <1>5 DEF LegsInv, Fresh
  <2> QED BY <1>5, <2>1 DEF Accepts, s
<1>6. CASE s.op = "updatePrivacyNodeStatus"
  <2>1. PICK r \in Steps : r.op = "registerToken" /\ Did(t, r) BY <1>2, <1>3, <1>6 DEF Needs
  <2> QED BY <1>6, <2>1 DEF Did, Accepts, s
<1>7. CASE s.op \in {"mint", "submitToHub"}
  <2>1. PICK r \in Steps : r.op = "updatePrivacyNodeStatus" /\ Did(t, r)
    BY <1>2, <1>3, <1>7 DEF Needs
  <2>2. s.op = "submitToHub" => hub[t] = "none" BY <1>4, <1>7 DEF LegsInv, Fresh
  <2>3. Authorized("issuer", t) BY <2>1 DEF Did, Authorized
  <2> QED BY <1>7, <2>2, <2>3 DEF Accepts, s
<1>8. CASE s.op = "updateStatus"
  <2>1. PICK r \in Steps : r.op = "getTokenFromRegistry" /\ Did(t, r) BY <1>2, <1>3, <1>8 DEF Needs
  <2>2. hub[t] = "waiting" BY <1>1, <1>8 DEF LegsInv, AtUpdate, s
  <2>3. resourceId[t] = t BY <1>8, <2>1, OwnSymbolIsOwn DEF Did, LegsInv, s
  <2>4. t # None BY TokensAssumption DEF AllTokens
  <2>5. NamedOnHub(t, {"waiting"}) BY <2>2, <2>3, <2>4 DEF NamedOnHub
  <2> QED BY <1>8, <2>5 DEF Accepts, s
<1>9. CASE s.op = "resourceId()"
  <2>1. PICK r \in Steps : r.op = "updateStatus" /\ Did(t, r) BY <1>2, <1>3, <1>9 DEF Needs
  <2> QED BY <1>9, <2>1 DEF Did, Accepts, s
<1>10. CASE s.op = "teleport"
  <2>1. PICK r \in Steps : r.op = "resourceId" /\ Did(t, r) BY <1>2, <1>3, <1>10 DEF Needs
  <2> QED BY <1>10, <2>1 DEF Did, Accepts, s
<1>11. CASE s.op = "submitToPublicChain" /\ s.on = "issuer"
  <2>1. PICK r \in Steps : r.op = "updatePrivacyNodeStatus" /\ Did(t, r)
    BY <1>2, <1>3, <1>11 DEF Needs
  <2>2. Authorized(s.on, t) BY <1>11, <2>1 DEF Did, Authorized
  <2> QED BY <1>11, <2>2 DEF Accepts, s
<1>12. CASE s.op = "submitToPublicChain" /\ s.on # "issuer"
  <2>1. PICK r \in Steps : r.op = "address" /\ Did(t, r) BY <1>2, <1>3, <1>12 DEF Needs
  <2>2. Authorized(s.on, t) BY <1>12, <2>1 DEF Did, Authorized
  <2> QED BY <1>12, <2>2 DEF Accepts, s
<1>13. CASE s.op = "teleportToPublicChain"
  <2>1. PICK r \in Steps : r.op = "publicAddress" /\ r.on = s.on /\ Did(t, r)
    BY <1>2, <1>3, <1>13 DEF Needs
  <2>2. Deployed(s.on, t) BY <2>1 DEF Did
  <2> QED BY <1>13, <2>2 DEF Accepts, s
<1>14. CASE s.op = "teleportToPrivacyNode"
  <2>1. PICK r \in Steps : r.op = "canCall" /\ r.on = s.on /\ Did(t, r)
    BY <1>2, <1>3, <1>14 DEF Needs
  <2>2. public[s.on][t] = "granted" BY <2>1 DEF Did
  <2> QED BY <1>14, <2>2 DEF Accepts, s
<1> QED BY <1>1, <1>5, <1>6, <1>7, <1>8, <1>9, <1>10, <1>11, <1>12, <1>13, <1>14
    DEF IssuerCalls, PublicCalls

\* A call that returns has done what it asks.
LEMMA CallDid ==
  ASSUME LegsInOrder, LegsInv, NEW t \in Tokens, NEW s, s = Step(t), At(t, "call"),
         Accepts(t, s.op, s.on), Mined(t, s.op, s.on), resourceId' = resourceId
  PROVE  Did(t, s)'
<1>1. s.op \in IssuerCalls \cup PublicCalls
  BY AtStep, Kinds DEF At
<1>2. s.op = "registerToken" => pn'[t] # "none"
  BY DEF Mined, LegsInv, TypeOK
<1>3. s.op = "updatePrivacyNodeStatus" => pn'[t] = "authorized"
  BY DEF Mined, LegsInv, TypeOK
<1>4. ASSUME s.op = "updateStatus"
      PROVE  NamedOnHub(t, {"approved", "active"})'
  <2>1. resourceId[t] # None /\ resourceId[t] \in AllTokens
    BY <1>4 DEF Accepts, NamedOnHub, LegsInv, IInv
  <2>2. hub' = [hub EXCEPT ![resourceId[t]] = "approved"]
    BY <1>4 DEF Mined
  <2> QED  BY <2>1, <2>2 DEF LegsInv, TypeOK, NamedOnHub
<1> QED  BY <1>1, <1>2, <1>3, <1>4 DEF Did, IssuerCalls, PublicCalls

\* A script that resolves its token's address has found its own token.
LEMMA AddressIsOwn ==
  ASSUME LegsInOrder, LegsInv, NEW t \in Tokens, At(t, "poll"), Step(t).op = "address",
         resourceId[t] # None
  PROVE  resourceId[t] = t
<1>1. step[t] \in 1 .. Len(Script[t]) /\ Script[t][step[t]].op = "address"
  BY AtStep
<1>2. PICK j \in 1 .. step[t] - 1 : Script[t][j].op = "resourceId"
  BY <1>1 DEF LegsInOrder
<1>3. hub[t] = "active"
  BY <1>2, AtStep DEF Did
<1> QED  BY <1>3, ActiveIsOwn DEF LegsInv

\* A poll that returns has seen what it waits for.
LEMMA PollDid ==
  ASSUME LegsInOrder, LegsInv, NEW t \in Tokens, NEW s, s = Step(t), PollSees(t)
  PROVE  Did(t, s)'
<1>1. s.op \in PollOps /\ Sees(t) /\ UNCHANGED chainVars
  BY AtStep, Kinds DEF PollSees, At
<1>2. ASSUME s.op = "getTokenFromRegistry"
      PROVE  resourceId'[t] # None /\ hub'[resourceId'[t]] \in Entered
  <2>1. PICK u \in Find(t) : resourceId' = [resourceId EXCEPT ![t] = u]
    BY <1>2 DEF PollSees
  <2>2. u \in AllTokens /\ \E i \in DOMAIN listed : listed[i] = u
    BY FoundHasSymbol DEF LegsInv, IInv
  <2>3. hub[u] \in Entered
    BY <2>2 DEF LegsInv, ListedEntered
  <2>4. resourceId'[t] = u /\ u # None
    BY <2>1, <2>2, TokensAssumption DEF LegsInv, IInv
  <2> QED  BY <1>1, <2>3, <2>4 DEF chainVars
<1>3. s.op = "resourceId" => hub'[t] = "active"
  BY <1>1 DEF Sees, chainVars
<1>4. s.op = "publicAddress" => Deployed(s.on, t)'
  BY <1>1 DEF Sees, chainVars, Deployed
<1>5. s.op = "canCall" => public'[s.on][t] = "granted"
  BY <1>1 DEF Sees, chainVars
<1>6. ASSUME s.op = "address"
      PROVE  HasCode(t)'
  <2>1. address[t] # None \/ HasAddressAndCode(t)
    BY <1>1, <1>6 DEF Sees
  <2>2. resourceId[t] # None => resourceId[t] = t
    BY <1>1, <1>6, AddressIsOwn DEF PollSees
  <2>3. HasCode(t)
    BY <2>1, <2>2 DEF LegsInv, KeptAddressIsLive, HasAddressAndCode
  <2> QED  BY <1>1, <2>3 DEF chainVars, HasCode
<1> QED  BY <1>1, <1>2, <1>3, <1>4, <1>5, <1>6 DEF Did, PollOps

\* A look passes nothing but itself, or a call that has been done before.
LEMMA LookDid ==
  ASSUME LegsInOrder, LegsInv, NEW t \in Tokens, NEW s, s = Step(t), Look(t),
         NEW r, r = Script[t][step[t] + 1]
  PROVE  /\ s.op \in LookOps /\ Did(t, s)'
         /\ step[t] + 1 \in 1 .. Len(Script[t])
         /\ r = submitTx(Skipped[s.op], s.on)
         /\ AlreadyDone(t) => Did(t, r)'
<1>1. s.kind = "look" /\ s.op \in LookOps /\ UNCHANGED <<resourceId, chainVars>>
  BY AtStep, Kinds DEF Look, At
<1>2. /\ step[t] + 1 \in 1 .. Len(Script[t])
      /\ r = submitTx(Skipped[s.op], s.on)
  BY <1>1, AtStep DEF LegsInOrder
<1>3. Did(t, s)'
  BY <1>1 DEF LookOps, Did
<1>4. CASE s.op = "publicChainStatus"
  <2>1. r.op = "submitToPublicChain"
    BY <1>2, <1>4 DEF Skipped, submitTx
  <2> QED  BY <1>1, <1>2, <1>3, <2>1 DEF Did
<1>5. CASE s.op = "hubStatus"
  <2>1. r.op = "updateStatus"
    BY <1>2, <1>5 DEF Skipped, submitTx
  <2>2. ASSUME AlreadyDone(t)
        PROVE  NamedOnHub(t, {"approved", "active"})'
    <3>1. NamedOnHub(t, {"approved", "active"})
      BY <1>5, <2>2 DEF AlreadyDone
    <3> QED  BY <1>1, <3>1 DEF NamedOnHub, chainVars
  <2> QED  BY <1>1, <1>2, <1>3, <2>1, <2>2 DEF Did
<1> QED  BY <1>1, <1>2, <1>3, <1>4, <1>5 DEF LookOps

\* What a script's move does to where the script is: it ends or repeats a poll,
\* passes its step, or passes a look and the call the look has found done.
Stays(t, s) ==
  step'[t] = step[t] /\ (outcome'[t] # "running" \/ (s.kind = "poll" /\ UNCHANGED chainVars))
Passes(t, s) ==
  /\ step'[t] = step[t] + 1 /\ Did(t, s)'
  /\ \/ s.kind = "call" /\ Accepts(t, s.op, s.on) /\ Mined(t, s.op, s.on)
     \/ s.kind = "poll" /\ UNCHANGED chainVars
     \/ s.kind = "look" /\ UNCHANGED chainVars /\ ~AlreadyDone(t)
Skips(t, s, r) ==
  /\ step'[t] = step[t] + 2 /\ Did(t, s)' /\ Did(t, r)'
  /\ s.kind = "look" /\ r.kind = "call" /\ UNCHANGED chainVars

\* The one call that may revert is the approval of a wrapper with a shared symbol.
RevertsAtUpdate(t, s) == step'[t] = step[t] /\ s.op = "updateStatus" /\ ~HasOwnSymbol(t)

LEMMA Moves ==
  ASSUME LegsInOrder, LegsInv, NEW t \in Tokens, ScriptStep(t),
         NEW s, s = Step(t), NEW r, r = Script[t][step[t] + 1]
  PROVE  /\ outcome[t] = "running"
         /\ outcome'[t] = "reverted" => RevertsAtUpdate(t, s)
         /\ \A u \in Tokens \ {t} : step'[u] = step[u] /\ outcome'[u] = outcome[u]
         /\ step'[t] \in 1 .. Len(Script[t])
         /\ Stays(t, s) \/ Passes(t, s) \/ Skips(t, s, r)
<1> DEFINE Goal == /\ outcome'[t] = "reverted" => RevertsAtUpdate(t, s)
                   /\ \A u \in Tokens \ {t} : step'[u] = step[u] /\ outcome'[u] = outcome[u]
                   /\ step'[t] \in 1 .. Len(Script[t])
                   /\ Stays(t, s) \/ Passes(t, s) \/ Skips(t, s, r)
<1>1. /\ step \in [Tokens -> Nat] /\ outcome \in [Tokens -> Outcomes]
      /\ step[t] \in 1 .. Len(Script[t]) /\ Len(Script[t]) \in Nat
  BY AtStep DEF LegsInv, TypeOK
<1>2. outcome[t] = "running"
  BY DEF ScriptStep, Call, CallThrows, Look, LookThrows, PollSees, PollMisses, PollThrows, At
<1>3. ASSUME NEW how \in {"threw", "exhausted"}, Throw(t, how)
      PROVE  Goal
  BY <1>1, <1>3 DEF Throw, Stays
<1>4. ASSUME Again(t), s.kind = "poll", UNCHANGED chainVars
      PROVE  Goal
  <2>1. CASE tries[t] < Attempts
    BY <1>1, <1>2, <1>4, <2>1 DEF Again, Stays
  <2>2. CASE ~(tries[t] < Attempts)
    BY <1>3, <1>4, <2>2 DEF Again
  <2> QED  BY <2>1, <2>2
<1>5. ASSUME NEW k \in {1, 2}, Advance(t, k)
      PROVE  /\ \A u \in Tokens \ {t} : step'[u] = step[u] /\ outcome'[u] = outcome[u]
             /\ outcome'[t] # "reverted"
             /\ step'[t] \in 1 .. Len(Script[t])
             /\ \/ step'[t] = step[t] /\ outcome'[t] # "running"
                \/ step'[t] = step[t] + k
  <2>1. CASE step[t] + k <= Len(Script[t])
    <3>1. step' = [step EXCEPT ![t] = step[t] + k] /\ outcome' = outcome
      BY <1>5, <2>1 DEF Advance
    <3> QED  BY <1>1, <1>2, <2>1, <3>1
  <2>2. CASE ~(step[t] + k <= Len(Script[t]))
    BY <1>1, <1>5, <2>2 DEF Advance
  <2> QED  BY <2>1, <2>2
<1>6. ASSUME Call(t)
      PROVE  Goal
  <2>0. CASE ~Accepts(t, s.op, s.on)
    <3>1. At(t, "call") /\ Throw(t, "reverted")
      BY <1>6, <2>0 DEF Call
    <3>2. s.op = "updateStatus" /\ ~HasOwnSymbol(t)
      BY <2>0, <3>1, CallTaken
    <3> QED  BY <1>1, <3>1, <3>2 DEF Throw, Stays, RevertsAtUpdate
  <2> SUFFICES ASSUME Accepts(t, s.op, s.on) PROVE Goal
    BY <2>0
  <2>1. At(t, "call")
    BY <1>6 DEF Call
  <2>2. Mined(t, s.op, s.on) /\ Advance(t, 1) /\ resourceId' = resourceId
    BY <1>6, <2>1 DEF Call
  <2>3. Did(t, s)'
    BY <2>1, <2>2, CallDid
  <2>4. s.kind = "call"
    BY <2>1 DEF At
  <2> QED  BY <1>5, <2>1, <2>2, <2>3, <2>4 DEF Stays, Passes
<1>7. ASSUME Look(t)
      PROVE  Goal
  <2>1. At(t, "look") /\ UNCHANGED chainVars /\ s.kind = "look"
    BY <1>7 DEF Look, At
  <2>2. Did(t, s)' /\ r = submitTx(Skipped[s.op], s.on)
    BY <1>7, LookDid
  <2>3. r.kind = "call"
    BY <2>2 DEF submitTx
  <2>4. CASE AlreadyDone(t)
    <3>1. Advance(t, 2)
      BY <1>7, <2>4 DEF Look
    <3>2. Did(t, r)'
      BY <1>7, <2>4, LookDid
    <3> QED  BY <1>5, <2>1, <2>2, <2>3, <3>1, <3>2 DEF Stays, Skips
  <2>5. CASE ~AlreadyDone(t)
    <3>1. Advance(t, 1)
      BY <1>7, <2>5 DEF Look
    <3> QED  BY <1>5, <2>1, <2>2, <2>5, <3>1 DEF Stays, Passes
  <2> QED  BY <2>4, <2>5
<1>8. ASSUME PollSees(t)
      PROVE  Goal
  <2>1. s.kind = "poll" /\ UNCHANGED chainVars /\ Advance(t, 1)
    BY <1>8 DEF PollSees, At
  <2>2. Did(t, s)'
    BY <1>8, PollDid
  <2> QED  BY <1>5, <2>1, <2>2 DEF Stays, Passes
<1> HIDE DEF Goal
<1>9. ASSUME PollMisses(t) \/ PollThrows(t)
      PROVE  Goal
  <2>1. s.kind = "poll" /\ UNCHANGED chainVars /\ (Again(t) \/ Throw(t, "threw"))
    BY <1>9 DEF PollMisses, PollThrows, At
  <2> QED  BY <1>3, <1>4, <2>1
<1>10. ASSUME CallThrows(t) \/ LookThrows(t)
       PROVE  Goal
  <2>1. Throw(t, "threw")
    BY <1>10 DEF CallThrows, LookThrows
  <2> QED  BY <1>3, <2>1
<1>11. Goal
  BY <1>6, <1>7, <1>8, <1>9, <1>10 DEF ScriptStep
<1> QED  BY <1>2, <1>11 DEF Goal

\* A test's own script registers and submits its token, and nothing else does;
\* nor does another one approve it when its symbol is its own.
LEMMA OnlyOwn ==
  ASSUME LegsInv, Next, NEW u \in Tokens, RelayStep \/ \E t \in Tokens \ {u} : ScriptStep(t)
  PROVE  /\ pn'[u] = pn[u]
         /\ hub[u] = "none" => hub'[u] = "none"
         /\ HasOwnSymbol(u) /\ hub[u] = "waiting" => hub'[u] = "waiting"
<1>1. pn \in [Tokens -> PnStages] /\ hub \in [AllTokens -> HubStages] /\ u \in AllTokens
  BY DEF LegsInv, TypeOK, AllTokens
<1>2. ASSUME NEW t \in Tokens, NEW op, NEW n, Accepts(t, op, n), Mined(t, op, n), u # t
      PROVE  /\ pn'[u] = pn[u]
             /\ hub[u] = "none" => hub'[u] = "none"
             /\ HasOwnSymbol(u) /\ hub[u] = "waiting" => hub'[u] = "waiting"
  <2>1. pn'[u] = pn[u]
    BY <1>1, <1>2 DEF Mined
  <2>2. CASE op = "updateStatus"
    <3>1. hub[resourceId[t]] = "waiting" /\ hub' = [hub EXCEPT ![resourceId[t]] = "approved"]
      BY <1>2, <2>2 DEF Accepts, Mined, NamedOnHub
    <3>2. HasOwnSymbol(u) => resourceId[t] # u
      BY <1>2, OwnSymbolIsOwn DEF LegsInv
    <3> QED  BY <1>1, <2>1, <3>1, <3>2
  <2>3. CASE op # "updateStatus"
    BY <1>1, <1>2, <2>1, <2>3 DEF Mined
  <2> QED  BY <2>2, <2>3
<1>3. ASSUME NEW t \in Tokens, ScriptStep(t)
      PROVE  UNCHANGED <<pn, hub>> \/ \E op, n : Accepts(t, op, n) /\ Mined(t, op, n)
  BY <1>3 DEF ScriptStep, Call, CallThrows, Look, LookThrows, PollSees, PollMisses,
              PollThrows, chainVars
<1>4. ASSUME NEW t \in AllTokens, ActivateToken(t) \/ (t \in Tokens /\ HubLists(t))
      PROVE  pn' = pn /\ (hub[u] \in {"none", "waiting"} => hub'[u] = hub[u])
  BY <1>1, <1>4 DEF HubLists, ActivateToken
<1>5. CASE RelayStep
  <2>1. ASSUME NEW t \in Tokens, Relayers(t)
        PROVE  UNCHANGED <<pn, hub>> \/ ActivateToken(t) \/ HubLists(t)
    BY <2>1 DEF Relayers, MirrorGrows, TwinGrows
  <2> QED  BY <1>4, <1>5, <2>1 DEF RelayStep, EarlierRuns, AllTokens
<1> QED  BY <1>2, <1>3, <1>5

\* What the steps passed have left behind is there after the next step too.
LEMMA PassedStay ==
  ASSUME LegsInOrder, LegsInv, Next
  PROVE  PassedDid'
<1> SUFFICES ASSUME NEW u \in Tokens, NEW j \in 1 .. step'[u] - 1, NEW s, s = Script[u][j]
             PROVE  Did(u, s)'
  BY DEF PassedDid
<1>1. TypeOK /\ IInv
  BY DEF LegsInv
<1>2. step[u] \in 1 .. Len(Script[u]) /\ Len(Script[u]) \in Nat
  BY AtStep
<1>3. CASE j \in 1 .. step[u] - 1
  <2>1. s \in Steps /\ Did(u, s)
    BY <1>3, AtStep
  <2> QED  BY <1>1, <2>1, DidStays
<1>4. CASE j \notin 1 .. step[u] - 1
  <2>1. ScriptStep(u)
    <3>1. CASE RelayStep
      <4>1. step' = step
        BY <3>1, RelayLeavesScripts DEF scriptVars
      <4> QED  BY <1>4, <4>1
    <3>2. ASSUME NEW t \in Tokens \ {u}, ScriptStep(t)
          PROVE  FALSE
      <4>1. step'[u] = step[u]
        BY <3>2, Moves
      <4> QED  BY <1>4, <4>1
    <3> QED  BY <3>1, <3>2, Actors DEF RelayStep
  <2>2. PICK s0, r0 : s0 = Script[u][step[u]] /\ r0 = Script[u][step[u] + 1]
    OBVIOUS
  <2>3. Stays(u, s0) \/ Passes(u, s0) \/ Skips(u, s0, r0)
    BY <2>1, <2>2, Moves DEF Step
  <2> QED
    <3>1. CASE Stays(u, s0)
      BY <1>2, <1>4, <3>1 DEF Stays
    <3>2. CASE Passes(u, s0)
      <4>1. j = step[u]
        BY <1>2, <1>4, <3>2 DEF Passes
      <4>2. s = s0
        BY <2>2, <4>1
      <4> QED  BY <3>2, <4>2 DEF Passes
    <3>3. CASE Skips(u, s0, r0)
      <4>1. j = step[u] \/ j = step[u] + 1
        BY <1>2, <1>4, <3>3 DEF Skips
      <4>2. s = s0 \/ s = r0
        BY <2>2, <4>1
      <4> QED  BY <3>3, <4>2 DEF Skips
    <3> QED  BY <2>3, <3>1, <3>2, <3>3
<1> QED  BY <1>3, <1>4

\* Until its own script has come to it, a token is neither registered nor
\* submitted.
LEMMA FreshStays ==
  ASSUME LegsInOrder, LegsInv, Next
  PROVE  Fresh'
<1> SUFFICES ASSUME NEW u \in Tokens
             PROVE  /\ NotYet(u, "registerToken")' => pn'[u] = "none"
                    /\ NotYet(u, "submitToHub")' => hub'[u] = "none"
  BY DEF Fresh
<1>1. /\ NotYet(u, "registerToken") => pn[u] = "none"
      /\ NotYet(u, "submitToHub") => hub[u] = "none"
  BY DEF LegsInv, Fresh
<1>2. CASE RelayStep
  <2>1. step' = step /\ outcome' = outcome
    BY <1>2, RelayLeavesScripts DEF scriptVars
  <2> QED  BY <1>1, <1>2, <2>1, OnlyOwn DEF NotYet
<1>3. CASE \E t \in Tokens \ {u} : ScriptStep(t)
  <2>1. step'[u] = step[u] /\ outcome'[u] = outcome[u]
    BY <1>3, Moves
  <2> QED  BY <1>1, <1>3, <2>1, OnlyOwn DEF NotYet
<1>4. CASE ScriptStep(u)
  <2>1. PICK s, r : s = Script[u][step[u]] /\ r = Script[u][step[u] + 1]
    OBVIOUS
  <2>2. outcome[u] = "running" /\ (Stays(u, s) \/ Passes(u, s) \/ Skips(u, s, r))
    BY <1>4, <2>1, Moves DEF Step
  <2>3. /\ step[u] \in Nat \ {0} /\ pn \in [Tokens -> PnStages]
        /\ hub \in [AllTokens -> HubStages] /\ u \in AllTokens
    BY AtStep DEF LegsInv, TypeOK, AllTokens
  <2>4. step'[u] \in {step[u], step[u] + 1, step[u] + 2}
    BY <2>2 DEF Stays, Passes, Skips
  <2>5. ASSUME NEW op, NotYet(u, op)'
        PROVE  NotYet(u, op) /\ (step'[u] # step[u] => s.op # op)
    BY <2>1, <2>2, <2>3, <2>4, <2>5 DEF NotYet
  <2>6. CASE UNCHANGED chainVars
    BY <1>1, <1>4, <2>5, <2>6 DEF chainVars
  <2>7. CASE outcome'[u] # "running"
    BY <1>4, <2>7 DEF NotYet
  <2>8. CASE Passes(u, s) /\ Accepts(u, s.op, s.on) /\ Mined(u, s.op, s.on)
    <3>1. step'[u] # step[u]
      BY <2>3, <2>8 DEF Passes
    <3>2. ASSUME NotYet(u, "registerToken")'
          PROVE  pn'[u] = "none"
      <4>1. pn[u] = "none" /\ s.op # "registerToken"
        BY <1>1, <1>4, <2>5, <3>1, <3>2
      <4>2. s.op # "updatePrivacyNodeStatus"
        BY <2>8, <4>1 DEF Accepts
      <4> QED  BY <2>8, <4>1, <4>2 DEF Mined
    <3>3. ASSUME NotYet(u, "submitToHub")'
          PROVE  hub'[u] = "none"
      <4>1. hub[u] = "none" /\ s.op # "submitToHub"
        BY <1>1, <1>4, <2>5, <3>1, <3>3
      <4>2. CASE s.op = "updateStatus"
        <5>1. /\ hub[resourceId[u]] = "waiting"
              /\ hub' = [hub EXCEPT ![resourceId[u]] = "approved"]
          BY <2>8, <4>2 DEF Accepts, Mined, NamedOnHub
        <5> QED  BY <2>3, <4>1, <5>1
      <4> QED  BY <2>8, <4>1, <4>2 DEF Mined
    <3> QED  BY <1>4, <3>2, <3>3
  <2> QED  BY <2>2, <2>6, <2>7, <2>8 DEF Stays, Passes, Skips
<1> QED  BY <1>2, <1>3, <1>4, Actors DEF RelayStep

\* A script comes to updateStatus() from a look that has found its token
\* waiting, and nothing but that call changes it.
LEMMA UpdateStays ==
  ASSUME LegsInOrder, LegsInv, Next
  PROVE  AtUpdate'
<1> SUFFICES ASSUME NEW u \in Tokens, outcome'[u] = "running",
                    Script[u][step'[u]].op = "updateStatus", HasOwnSymbol(u)'
             PROVE  hub'[u] = "waiting"
  BY DEF AtUpdate, Step
<1>0. HasOwnSymbol(u)
  BY Actors DEF HasOwnSymbol
<1>1. outcome[u] = "running" /\ Script[u][step[u]].op = "updateStatus" => hub[u] = "waiting"
  BY <1>0 DEF LegsInv, AtUpdate, Step
<1>2. CASE RelayStep
  <2>1. step' = step /\ outcome' = outcome
    BY <1>2, RelayLeavesScripts DEF scriptVars
  <2> QED  BY <1>0, <1>1, <1>2, <2>1, OnlyOwn
<1>3. CASE \E t \in Tokens \ {u} : ScriptStep(t)
  <2>1. step'[u] = step[u] /\ outcome'[u] = outcome[u]
    BY <1>3, Moves
  <2> QED  BY <1>0, <1>1, <1>3, <2>1, OnlyOwn
<1>4. CASE ScriptStep(u)
  <2>1. PICK s, r : s = Script[u][step[u]] /\ r = Script[u][step[u] + 1]
    OBVIOUS
  <2>2. step'[u] \in 1 .. Len(Script[u]) /\ (Stays(u, s) \/ Passes(u, s) \/ Skips(u, s, r))
    BY <1>4, <2>1, Moves DEF Step
  <2>3. step[u] \in Nat /\ s = Step(u) /\ s \in Steps
    BY <2>1, AtStep
  <2>4. Script[u][step'[u]] \in Steps
    BY <2>2, IsAStep
  <2>5. Script[u][step'[u]].kind = "call" /\ Script[u][step'[u]].on = "issuer"
    BY <1>4, <2>4, Kinds DEF IssuerCalls
  <2>6. /\ step'[u] > 1 /\ Script[u][step'[u] - 1] = look("hubStatus", "issuer")
        /\ \E j \in 1 .. step'[u] - 1 : Script[u][j].op = "getTokenFromRegistry"
    BY <1>4, <2>2, <2>5 DEF LegsInOrder, Needs
  <2>7. CASE Stays(u, s)
    <3>1. s.kind = "poll" /\ s.op = "updateStatus"
      BY <1>4, <2>1, <2>7 DEF Stays
    <3> QED  BY <2>3, <3>1, Kinds DEF IssuerCalls
  <2>8. CASE Passes(u, s)
    <3>1. s = look("hubStatus", "issuer") /\ step'[u] - 1 = step[u]
      <4>1. step'[u] - 1 = step[u]
        BY <2>3, <2>8 DEF Passes
      <4> QED  BY <2>1, <2>6, <4>1
    <3>2. UNCHANGED chainVars /\ ~AlreadyDone(u) /\ Step(u).op = "hubStatus"
      BY <2>3, <2>8, <3>1 DEF Passes, look
    <3>3. ~NamedOnHub(u, {"approved", "active"})
      BY <3>2 DEF AlreadyDone
    <3>4. PICK j \in 1 .. step[u] : Script[u][j].op = "getTokenFromRegistry"
      BY <2>6, <3>1
    <3>5. j \in 1 .. step[u] - 1
      <4>1. Script[u][step[u]].op = "hubStatus"
        BY <2>1, <3>1 DEF look
      <4>2. j # step[u]
        BY <3>4, <4>1
      <4> QED  BY <2>3, <4>2
    <3>6. Did(u, Script[u][j])
      BY <3>5, AtStep
    <3>7. resourceId[u] # None /\ hub[resourceId[u]] \in Entered
      BY <3>4, <3>6 DEF Did
    <3>8. resourceId[u] = u
      BY <1>0, <3>7, OwnSymbolIsOwn DEF LegsInv
    <3>9. hub[u] = "waiting"
      BY <3>3, <3>7, <3>8 DEF NamedOnHub, Entered
    <3> QED  BY <1>4, <3>2, <3>9 DEF chainVars
  <2>9. CASE Skips(u, s, r)
    <3>1. r = look("hubStatus", "issuer")
      <4>1. step'[u] - 1 = step[u] + 1
        BY <2>3, <2>9 DEF Skips
      <4> QED  BY <2>1, <2>6, <4>1
    <3> QED  BY <2>9, <3>1 DEF Skips, look
  <2> QED  BY <2>2, <2>7, <2>8, <2>9
<1> QED  BY <1>2, <1>3, <1>4, Actors DEF RelayStep

\* An address is kept for a wrapper that has found its own token, and its code
\* stays.
LEMMA KeptStays ==
  ASSUME LegsInOrder, LegsInv, Next
  PROVE  KeptAddressIsLive'
<1> SUFFICES ASSUME NEW t \in Tokens, address'[t] # None
             PROVE  address'[t] = t /\ HasCode(t)'
  BY DEF KeptAddressIsLive
<1>1. IInv /\ t \in AllTokens
  BY DEF LegsInv, AllTokens
<1>2. CASE address'[t] = address[t]
  BY <1>1, <1>2, CodeStays DEF LegsInv, KeptAddressIsLive
<1>3. CASE /\ PollSees(t) /\ Step(t).op = "address" /\ HasAddressAndCode(t)
           /\ address'[t] = resourceId[t]
  <2>1. resourceId[t] = t
    BY <1>3, AddressIsOwn DEF PollSees, HasAddressAndCode
  <2> QED  BY <1>1, <1>3, <2>1, CodeStays DEF HasAddressAndCode
<1> QED  BY <1>1, <1>2, <1>3, AddressChanges DEF IInv

LEMMA InitLegsInv ==
  ASSUME LegsInOrder, Init
  PROVE  LegsInv
<1>1. TypeOK /\ IInv
  BY InitTypeOK, InitIInv
<1>2. ListedEntered
  <2>1. \A i \in DOMAIN Earlier : Earlier[i] \in AllTokens /\ Earlier[i] \notin Tokens
    BY TokensAssumption DEF Past, AllTokens
  <2> QED  BY <2>1 DEF Init, ListedEntered, Entered
<1>3. ASSUME NEW t \in Tokens
      PROVE  step[t] = 1 /\ Len(Script[t]) \in Nat \ {0}
  <2>1. Script[t] \in Seq(Steps) /\ Len(Script[t]) > 0
    BY DEF LegsInOrder
  <2>2. Len(Script[t]) \in Nat
    BY <2>1
  <2> QED  BY <2>1, <2>2 DEF Init
<1>4. PassedDid
  BY <1>3 DEF PassedDid
<1>5. Fresh
  BY DEF Init, Fresh, AllTokens
<1>6. AtUpdate
  <2> SUFFICES ASSUME NEW t \in Tokens, Script[t][1].op = "updateStatus"
               PROVE  FALSE
    BY <1>3 DEF AtUpdate, Step
  <2>1. 1 \in 1 .. Len(Script[t])
    BY <1>3
  <2> QED  BY <2>1 DEF LegsInOrder
<1>7. NoCallReverts /\ KeptAddressIsLive
  BY DEF Init, NoCallReverts, KeptAddressIsLive
<1> QED  BY <1>1, <1>2, <1>3, <1>4, <1>5, <1>6, <1>7 DEF LegsInv

LEMMA StepLegsInv ==
  ASSUME LegsInOrder, LegsInv, [Next]_vars
  PROVE  LegsInv'
<1>1. TypeOK /\ IInv
  BY DEF LegsInv
<1>2. CASE UNCHANGED vars
  <2>1. TypeOK' /\ IInv'
    BY <1>1, <1>2, StepTypeOK, StepIInv
  <2>2. ListedEntered'
    BY <1>2 DEF vars, chainVars, LegsInv, ListedEntered
  <2>3. PassedDid'
    BY <1>2 DEF vars, chainVars, scriptVars, LegsInv, PassedDid, Did, Deployed, HasCode, NamedOnHub
  <2>4. Fresh' /\ AtUpdate' /\ NoCallReverts' /\ KeptAddressIsLive'
    BY <1>2 DEF vars, chainVars, scriptVars, LegsInv, Fresh, NotYet, AtUpdate, NoCallReverts, Step,
                HasOwnSymbol, KeptAddressIsLive, HasCode
  <2>5. \A t \in Tokens : step'[t] \in 1 .. Len(Script[t])
    BY <1>2 DEF vars, scriptVars, LegsInv
  <2> QED  BY <2>1, <2>2, <2>3, <2>4, <2>5 DEF LegsInv
<1>3. CASE Next
  <2>1. TypeOK' /\ IInv' /\ ListedEntered'
    BY <1>1, <1>3, StepTypeOK, StepIInv, ListedStays DEF LegsInv
  <2>2. PassedDid' /\ Fresh' /\ AtUpdate' /\ KeptAddressIsLive'
    BY <1>3, PassedStay, FreshStays, UpdateStays, KeptStays
  <2>3. NoCallReverts' /\ \A u \in Tokens : step'[u] \in 1 .. Len(Script[u])
    <3>0. symbol' = symbol
      BY <1>3, Actors
    <3>1. CASE RelayStep
      <4>1. step' = step /\ outcome' = outcome
        BY <3>1, RelayLeavesScripts DEF scriptVars
      <4> QED  BY <3>0, <4>1 DEF LegsInv, NoCallReverts, HasOwnSymbol, Step
    <3>2. ASSUME NEW t \in Tokens, ScriptStep(t)
          PROVE  NoCallReverts' /\ \A u \in Tokens : step'[u] \in 1 .. Len(Script[u])
      <4>1. /\ outcome'[t] = "reverted" => RevertsAtUpdate(t, Step(t))
            /\ step'[t] \in 1 .. Len(Script[t])
            /\ \A u \in Tokens \ {t} : step'[u] = step[u] /\ outcome'[u] = outcome[u]
        BY <3>2, Moves
      <4> QED  BY <3>0, <4>1 DEF LegsInv, NoCallReverts, RevertsAtUpdate, HasOwnSymbol, Step
    <3> QED  BY <1>3, <3>1, <3>2, Actors DEF RelayStep
  <2> QED  BY <2>1, <2>2, <2>3 DEF LegsInv
<1> QED  BY <1>2, <1>3

\* However many tests run, and whatever symbols they and earlier runs have drawn,
\* activateOnHub() lets no wrapper through with another one's resource id.
THEOREM ResourceIdIsOwn == LegsInOrder /\ Spec => []OwnResourceId
<1>1. LegsInOrder /\ Init => LegsInv
  BY InitLegsInv
<1>2. LegsInOrder /\ LegsInv /\ [Next]_vars => LegsInv'
  BY StepLegsInv
<1>3. LegsInOrder /\ LegsInv => OwnResourceId
  <2> SUFFICES ASSUME LegsInOrder, LegsInv, NEW t \in Tokens,
                      NEW j \in 1 .. step[t] - 1, Script[t][j].op = "resourceId"
               PROVE  resourceId[t] = t
    BY DEF OwnResourceId, Passed
  <2>1. j \in 1 .. Len(Script[t]) /\ step[t] \in Nat
    BY AtStep
  <2>2. PICK k \in 1 .. j - 1 : Script[t][k].op = "getTokenFromRegistry"
    BY <2>1 DEF LegsInOrder
  <2>3. k \in 1 .. step[t] - 1
    BY <2>1
  <2>4. hub[t] = "active" /\ resourceId[t] # None
    BY <2>2, <2>3, AtStep DEF Did
  <2> QED  BY <2>4, ActiveIsOwn DEF LegsInv
<1>4. LegsInOrder => []LegsInOrder
  OBVIOUS
<1> QED  BY <1>1, <1>2, <1>3, <1>4, PTL DEF Spec

\* An address that resolveAddressOnPL() has kept stays that of the wrapper's
\* own mirror, with code.
THEOREM AddressStaysLive == LegsInOrder /\ Spec => []KeptAddressIsLive
<1>1. LegsInOrder /\ Init => LegsInv
  BY InitLegsInv
<1>2. LegsInOrder /\ LegsInv /\ [Next]_vars => LegsInv'
  BY StepLegsInv
<1>3. LegsInv => KeptAddressIsLive
  BY DEF LegsInv
<1>4. LegsInOrder => []LegsInOrder
  OBVIOUS
<1> QED  BY <1>1, <1>2, <1>3, <1>4, PTL DEF Spec

\* However many tests run legs in their order, and however late the relayers
\* are, what a leg waits for is what the next one's transactions require: no
\* submitTx() of a script reverts, but the approval of a wrapper whose symbol
\* somebody else has drawn.
THEOREM LegsNeverRevert == LegsInOrder /\ Spec => []NoCallReverts
<1>1. LegsInOrder /\ Init => LegsInv
  BY InitLegsInv
<1>2. LegsInOrder /\ LegsInv /\ [Next]_vars => LegsInv'
  BY StepLegsInv
<1>3. LegsInv => NoCallReverts
  BY DEF LegsInv
<1>4. LegsInOrder => []LegsInOrder
  OBVIOUS
<1> QED  BY <1>1, <1>2, <1>3, <1>4, PTL DEF Spec
=============================================================================
