-------------------------- MODULE BatchReleaseProof --------------------------
(***************************************************************************)
(* Proofs about the releases of BatchRelease.tla, for every set of runs and*)
(* of deployment names, whoever shares a name and whatever the releases    *)
(* verify.  The invariant comes in layers, each proved on those before it. *)
(***************************************************************************)
EXTENDS BatchRelease, Naturals, TLAPS

(***************************************************************************)
(* An operation belongs to the step its run waits in, unless the run is    *)
(* gone: this is what makes the provider's end of an operation reach the   *)
(* run that waits for it and no other.                                     *)
(***************************************************************************)
InOrder(r, kind, x) ==
  \/ kind = "create"  /\ x = Endpoint /\ pc[r] \in {"endpointWait", "failed"}
  \/ kind = "put"     /\ x = DeploymentOf[r] /\ pc[r] \in {"deploymentWait", "failed"}
  \/ kind = "default" /\ x = Endpoint /\ pc[r] \in {"defaultWait", "failed"}

OperationsInOrder ==
  \A x \in Resources : op[x] # Idle =>
    /\ InOrder(op[x].run, op[x].kind, x)
    /\ pc[op[x].run] # "failed" => ended[op[x].run] = "none"

(***************************************************************************)
(* A run that is past its verification has verified its deployment, and    *)
(* the same holds for an operation that sets the default.                  *)
(***************************************************************************)
PastVerification == {"putDefault", "defaultWait", "invoke", "job", "done"}

VerifiedInv ==
  /\ \A r \in Runs : pc[r] \in PastVerification => DeploymentOf[r] \in verified
  /\ op[Endpoint].kind = "default" => DeploymentOf[op[Endpoint].run] \in verified
  /\ DefaultWasVerified

(***************************************************************************)
(* A deployment whose name one run alone releases: once verified it is what*)
(* that run asked for, and no operation on it is left.                     *)
(***************************************************************************)
OnlyReleaser(q) == \A p \in Runs \ {q} : DeploymentOf[p] # DeploymentOf[q]
Settled(d) == op[d].kind # "put"

OnlyInv(q) ==
  LET d == DeploymentOf[q] IN
    /\ deployment[d] # Absent => deployment[d].run = q
    /\ pc[q] = "verify" => live[q] = deployment[d]
    /\ d \in verified =>
         /\ pc[q] \in PastVerification \union {"failed"}
         /\ Settled(d)
         /\ deployment[d] = [run |-> q, kept |-> TRUE]
    /\ \A r \in Runs : served[r] # NotServed /\ served[r].name = d =>
         served[r] = Released(q)

(***************************************************************************)
(* A run beside which no other was: its operations have ended by the time  *)
(* it goes on, and what they left is there until it ends.                  *)
(***************************************************************************)
OverlapInv ==
  \A r, p \in Runs : r # p /\ r \in UnderWay /\ p \in UnderWay => r \in overlapped

HasPut == {"readBack", "verify", "putDefault", "defaultWait", "invoke"}

AloneInv(r) ==
  LET d == DeploymentOf[r] IN
    /\ pc[r] \in HasPut \/ (pc[r] = "deploymentWait" /\ ended[r] = "ok") =>
         Settled(d) /\ deployment[d].run = r
    /\ pc[r] = "verify" => live[r] = deployment[d]
    /\ pc[r] \in {"putDefault", "defaultWait", "invoke"} => deployment[d].kept
    /\ pc[r] = "invoke" \/ (pc[r] = "defaultWait" /\ ended[r] = "ok") =>
         op[Endpoint].kind \notin {"create", "default"} /\ default = d
    /\ served[r] # NotServed => served[r] = Released(r)

IInv ==
  /\ TypeOK
  /\ OperationsInOrder
  /\ VerifiedInv
  /\ \A q \in Runs : OnlyReleaser(q) => OnlyInv(q)
  /\ OverlapInv
  /\ \A r \in Runs \ overlapped : AloneInv(r)

-----------------------------------------------------------------------------
(* What the actions of a run are made of.                                   *)
RunStep(r) == Step(r) \/ Fail(r)
ProviderStep(x) == OperationFails(x) \/ OperationSucceeds(x)

(* Every variable keeps its type.                                           *)
LEMMA TypeStep == TypeOK /\ [Next]_vars => TypeOK'
<1> SUFFICES ASSUME TypeOK, [Next]_vars PROVE TypeOK'
  OBVIOUS
<1> USE BatchAssumption DEF TypeOK
<1>1. ASSUME NEW r \in Runs, Start(r) \/ EndpointCreated(r) \/ DeploymentPut(r)
               \/ DefaultPut(r) \/ JobCompletes(r) \/ Fail(r)
      PROVE  TypeOK'
  BY <1>1 DEF Start, EndpointCreated, DeploymentPut, DefaultPut, JobCompletes, Fail,
     Await, Goto, UnderWay, providerVars, Finished
<1>2. ASSUME NEW r \in Runs, CreateEndpoint(r) \/ PutDeployment(r) \/ PutDefault(r)
      PROVE  TypeOK'
  BY <1>2 DEF CreateEndpoint, PutDeployment, PutDefault, Submit, Goto, Resources
<1>3. ASSUME NEW r \in Runs, ReadBack(r) \/ Verify(r)
      PROVE  TypeOK'
  BY <1>3 DEF ReadBack, Verify, Goto, providerVars, Finished
<1>4. ASSUME NEW r \in Runs, Invoke(r)
      PROVE  TypeOK'
  BY <1>4 DEF Invoke, Goto, providerVars, Finished
<1>5. ASSUME NEW x \in Resources, ProviderStep(x)
      PROVE  TypeOK'
  BY <1>5 DEF ProviderStep, OperationFails, OperationSucceeds, NewDefault, Idle,
     Persisted, Absent
<1>6. CASE UNCHANGED vars
  BY <1>6 DEF vars
<1>7. QED
  BY <1>1, <1>2, <1>3, <1>4, <1>5, <1>6 DEF Next, Step, ProviderStep

(* Operations stay with the step that waits for them.                       *)
LEMMA OperationsStep ==
  TypeOK /\ OperationsInOrder /\ [Next]_vars => OperationsInOrder'
<1> SUFFICES ASSUME TypeOK, OperationsInOrder, [Next]_vars
             PROVE  OperationsInOrder'
  OBVIOUS
<1> USE BatchAssumption DEF TypeOK, OperationsInOrder, InOrder
<1>1. ASSUME NEW r \in Runs, Start(r) \/ EndpointCreated(r) \/ DeploymentPut(r)
               \/ DefaultPut(r) \/ JobCompletes(r) \/ Fail(r)
      PROVE  OperationsInOrder'
  BY <1>1 DEF Start, EndpointCreated, DeploymentPut, DefaultPut, JobCompletes, Fail,
     Await, Goto, providerVars, Finished
<1>2. ASSUME NEW r \in Runs, CreateEndpoint(r) \/ PutDeployment(r) \/ PutDefault(r)
      PROVE  OperationsInOrder'
  BY <1>2 DEF CreateEndpoint, PutDeployment, PutDefault, Submit, Goto, Resources
<1>3. ASSUME NEW r \in Runs, ReadBack(r) \/ Verify(r) \/ Invoke(r)
      PROVE  OperationsInOrder'
  BY <1>3 DEF ReadBack, Verify, Invoke, Goto, providerVars, Finished
<1>4. ASSUME NEW x \in Resources, ProviderStep(x)
      PROVE  OperationsInOrder'
  BY <1>4 DEF ProviderStep, OperationFails, OperationSucceeds, Idle, Finished
<1>5. CASE UNCHANGED vars
  BY <1>5 DEF vars
<1>6. QED
  BY <1>1, <1>2, <1>3, <1>4, <1>5 DEF Next, Step, ProviderStep

(* The default is a verified deployment, and so is what an operation that   *)
(* is under way will make the default.                                      *)
LEMMA VerifiedStep ==
  TypeOK /\ OperationsInOrder /\ VerifiedInv /\ [Next]_vars => VerifiedInv'
<1> SUFFICES ASSUME TypeOK, OperationsInOrder, VerifiedInv, [Next]_vars
             PROVE  VerifiedInv'
  OBVIOUS
<1> USE BatchAssumption DEF TypeOK, VerifiedInv, DefaultWasVerified, PastVerification
<1>1. ASSUME NEW r \in Runs, Start(r) \/ EndpointCreated(r) \/ DeploymentPut(r)
               \/ DefaultPut(r) \/ JobCompletes(r) \/ Fail(r)
      PROVE  VerifiedInv'
  BY <1>1 DEF Start, EndpointCreated, DeploymentPut, DefaultPut, JobCompletes, Fail,
     Await, Goto, providerVars
<1>2. ASSUME NEW r \in Runs, CreateEndpoint(r) \/ PutDeployment(r) \/ PutDefault(r)
      PROVE  VerifiedInv'
  BY <1>2 DEF CreateEndpoint, PutDeployment, PutDefault, Submit, Goto, Resources
<1>3. ASSUME NEW r \in Runs, ReadBack(r) \/ Verify(r) \/ Invoke(r)
      PROVE  VerifiedInv'
  BY <1>3 DEF ReadBack, Verify, Invoke, Goto, providerVars
<1>4. ASSUME NEW x \in Resources, ProviderStep(x)
      PROVE  VerifiedInv'
  BY <1>4 DEF ProviderStep, OperationFails, OperationSucceeds, NewDefault, Idle,
     OperationsInOrder, InOrder, Resources
<1>5. CASE UNCHANGED vars
  BY <1>5 DEF vars
<1>6. QED
  BY <1>1, <1>2, <1>3, <1>4, <1>5 DEF Next, Step, ProviderStep

(* What the only releaser of a name has verified stays as it is.            *)
LEMMA OnlyStep ==
  ASSUME TypeOK, OperationsInOrder, VerifiedInv, [Next]_vars,
         NEW q \in Runs, OnlyReleaser(q), OnlyInv(q)
  PROVE  OnlyInv(q)'
<1> DEFINE d == DeploymentOf[q]
<1> USE BatchAssumption DEF TypeOK, OnlyInv, PastVerification, Settled, Released
<1>1. \A p \in Runs : DeploymentOf[p] = d => p = q
  BY DEF OnlyReleaser
<1>2. op[d].kind = "put" => op[d].run = q /\ pc[q] \in {"deploymentWait", "failed"}
  BY <1>1 DEF OperationsInOrder, InOrder, Resources, Idle
<1>3. ASSUME NEW r \in Runs, Start(r) \/ EndpointCreated(r) \/ DeploymentPut(r)
               \/ DefaultPut(r) \/ JobCompletes(r) \/ Fail(r)
      PROVE  OnlyInv(q)'
  <2>1. UNCHANGED <<op, deployment, live, served, verified>>
    BY <1>3 DEF Start, EndpointCreated, DeploymentPut, DefaultPut, JobCompletes, Fail,
       Await, providerVars
  <2>2. CASE Start(r) \/ EndpointCreated(r) \/ Fail(r)
    BY <2>1, <2>2 DEF Start, EndpointCreated, Fail, Await, Goto
  <2>3. CASE DeploymentPut(r) \/ DefaultPut(r) \/ JobCompletes(r)
    BY <2>1, <2>3 DEF DeploymentPut, DefaultPut, JobCompletes, Await, Goto
  <2>4. QED
    BY <1>3, <2>2, <2>3
<1>4. ASSUME NEW r \in Runs, CreateEndpoint(r) \/ PutDeployment(r) \/ PutDefault(r)
      PROVE  OnlyInv(q)'
  <2>1. UNCHANGED <<deployment, live, served, verified>>
    BY <1>4 DEF CreateEndpoint, PutDeployment, PutDefault, Submit
  <2>2. pc'[q] = pc[q] \/ pc[q] \in {"createEndpoint", "putDeployment"}
          \/ (pc[q] = "putDefault" /\ pc'[q] = "defaultWait")
    BY <1>4 DEF CreateEndpoint, PutDeployment, PutDefault, Submit, Goto
  <2>3. pc'[q] # "verify" \/ pc[q] = "verify"
    BY <1>4 DEF CreateEndpoint, PutDeployment, PutDefault, Submit, Goto
  <2>4. Settled(d)' \/ ~Settled(d) \/ pc[q] = "putDeployment"
    BY <1>1, <1>4 DEF CreateEndpoint, PutDeployment, PutDefault, Submit, Goto, Resources
  <2>5. QED
    BY <2>1, <2>2, <2>3, <2>4
<1>5. ASSUME NEW r \in Runs, ReadBack(r)
      PROVE  OnlyInv(q)'
  BY <1>5 DEF ReadBack, Goto, providerVars
<1>6. ASSUME NEW r \in Runs, Verify(r)
      PROVE  OnlyInv(q)'
  <2>1. CASE r # q
    <3>1. d \in verified' => d \in verified
      BY <1>1, <1>6, <2>1 DEF Verify
    <3>2. QED
      BY <1>6, <2>1, <3>1 DEF Verify, providerVars
  <2>2. CASE r = q /\ Matches(q)
    <3>1. deployment[d] = [run |-> q, kept |-> TRUE]
      <4>1. deployment[d] = live[q] /\ deployment[d].kept
        BY <1>6, <2>2 DEF Verify, Matches
      <4>2. deployment[d] # Absent
        BY <4>1 DEF Absent
      <4>3. deployment[d] \in Persisted /\ deployment[d].run = q
        BY <4>2
      <4>4. QED
        BY <4>1, <4>3 DEF Persisted
    <3>2. op[d].kind # "put"
      BY <1>2, <1>6, <2>2 DEF Verify
    <3>3. QED
      BY <1>6, <2>2, <3>1, <3>2 DEF Verify, providerVars
  <2>3. CASE r = q /\ ~Matches(q)
    BY <1>6, <2>3 DEF Verify, providerVars
  <2>4. QED
    BY <2>1, <2>2, <2>3
<1>7. ASSUME NEW r \in Runs, Invoke(r)
      PROVE  OnlyInv(q)'
  <2>1. UNCHANGED <<deployment, live, verified, op>>
    BY <1>7 DEF Invoke, providerVars
  <2>2. pc'[q] = pc[q] \/ (pc[q] = "invoke" /\ pc'[q] \in {"job", "failed"})
    BY <1>7 DEF Invoke, Goto
  <2>3. \/ served' = served
        \/ /\ default # NoDeployment
           /\ served' = [served EXCEPT
                           ![r] = [name |-> default, what |-> deployment[default]]]
    BY <1>7 DEF Invoke
  <2>4. ASSUME NEW p \in Runs, served'[p] # NotServed, served'[p].name = d
        PROVE  served'[p] = [name |-> d, what |-> [run |-> q, kept |-> TRUE]]
    <3>1. CASE served'[p] = served[p]
      BY <2>4, <3>1
    <3>2. CASE served'[p] # served[p]
      <4>1. default # NoDeployment
              /\ served'[p] = [name |-> default, what |-> deployment[default]]
        BY <2>3, <3>2
      <4>2. default = d
        BY <2>4, <4>1
      <4>3. deployment[d] = [run |-> q, kept |-> TRUE]
        BY <4>1, <4>2 DEF VerifiedInv, DefaultWasVerified
      <4>4. QED
        BY <4>1, <4>2, <4>3
    <3>3. QED
      BY <3>1, <3>2
  <2>5. QED
    BY <2>1, <2>2, <2>4
<1>8. ASSUME NEW x \in Resources, ProviderStep(x)
      PROVE  OnlyInv(q)'
  <2>1. UNCHANGED <<pc, live, served, verified>> /\ op[x] # Idle
          /\ op' = [op EXCEPT ![x] = Idle]
    BY <1>8 DEF ProviderStep, OperationFails, OperationSucceeds
  <2>2. Settled(d) => Settled(d)'
    BY <2>1 DEF Idle, Resources
  <2>3. CASE deployment' = deployment
    BY <2>1, <2>2, <2>3
  <2>4. CASE deployment' # deployment
    <3>1. PICK kept \in BOOLEAN :
            /\ op[x].kind = "put"
            /\ deployment' = [deployment EXCEPT ![x] = [run |-> op[x].run, kept |-> kept]]
      BY <1>8, <2>4 DEF ProviderStep, OperationFails, OperationSucceeds
    <3>2. op[x].run \in Runs /\ x = DeploymentOf[op[x].run]
      BY <2>1, <3>1 DEF OperationsInOrder, InOrder
    <3>3. CASE x = d
      <4>1. op[x].run = q /\ ~Settled(d)
        BY <1>1, <3>1, <3>2, <3>3
      <4>2. deployment'[d].run = q /\ d \notin verified /\ pc[q] # "verify"
        BY <1>2, <3>1, <3>3, <4>1
      <4>3. QED
        BY <2>1, <4>2
    <3>4. CASE x # d
      BY <2>1, <2>2, <3>1, <3>4
    <3>5. QED
      BY <3>3, <3>4
  <2>5. QED
    BY <2>3, <2>4
<1>9. CASE UNCHANGED vars
  BY <1>9 DEF vars
<1>10. QED
  BY <1>3, <1>4, <1>5, <1>6, <1>7, <1>8, <1>9 DEF Next, Step, ProviderStep

(* Two runs that are under way know of each other.                          *)
LEMMA OverlapStep == TypeOK /\ OverlapInv /\ [Next]_vars => OverlapInv'
<1> SUFFICES ASSUME TypeOK, OverlapInv, [Next]_vars PROVE OverlapInv'
  OBVIOUS
<1> USE DEF TypeOK, OverlapInv, UnderWay, Finished
<1>1. ASSUME NEW r \in Runs, Start(r)
      PROVE  OverlapInv'
  BY <1>1 DEF Start, Goto
<1>2. ASSUME NEW r \in Runs, Step(r) \/ Fail(r), ~Start(r)
      PROVE  OverlapInv'
  <2>1. overlapped' = overlapped /\ UnderWay' \subseteq UnderWay
    BY <1>2 DEF Step, Fail, CreateEndpoint, EndpointCreated, PutDeployment, DeploymentPut,
       ReadBack, Verify, PutDefault, DefaultPut, Invoke, JobCompletes, Submit, Await, Goto
  <2>2. QED
    BY <2>1
<1>3. ASSUME NEW x \in Resources, ProviderStep(x)
      PROVE  OverlapInv'
  BY <1>3 DEF ProviderStep, OperationFails, OperationSucceeds
<1>4. CASE UNCHANGED vars
  BY <1>4 DEF vars
<1>5. QED
  BY <1>1, <1>2, <1>3, <1>4 DEF Next, ProviderStep

(* What a run has put stays as it is while no other run is under way.       *)
LEMMA AloneStep ==
  ASSUME TypeOK, OperationsInOrder, VerifiedInv, OverlapInv, [Next]_vars,
         NEW q \in Runs, q \notin overlapped', q \notin overlapped => AloneInv(q)
  PROVE  AloneInv(q)'
<1> DEFINE d == DeploymentOf[q]
<1> USE BatchAssumption DEF TypeOK, AloneInv, HasPut, Settled, Released
<1>1. q \notin overlapped /\ AloneInv(q)
  BY DEF Next, Step, Fail, Start, CreateEndpoint, EndpointCreated, PutDeployment, DeploymentPut,
     ReadBack, Verify, PutDefault, DefaultPut, Invoke, JobCompletes, Submit, Await,
     OperationFails, OperationSucceeds, vars
<1>2. ASSUME NEW r \in Runs \ {q}, RunStep(r)
      PROVE  AloneInv(q)'
  <2>1. pc'[q] = pc[q] /\ served'[q] = served[q]
    BY <1>2 DEF RunStep, Step, Fail, Start, CreateEndpoint, EndpointCreated, PutDeployment,
       DeploymentPut, ReadBack, Verify, PutDefault, DefaultPut, Invoke, JobCompletes,
       Submit, Await, Goto
  <2>2. r \in UnderWay \/ (Start(r) /\ (UnderWay = {} \/ q \notin UnderWay))
    BY <1>2 DEF RunStep, Step, Fail, Start, CreateEndpoint, EndpointCreated, PutDeployment,
       DeploymentPut, ReadBack, Verify, PutDefault, DefaultPut, Invoke, JobCompletes,
       Submit, Await, Goto, UnderWay, Finished
  <2>3. q \notin UnderWay
    BY <1>1, <2>2 DEF OverlapInv
  <2>4. QED
    BY <1>1, <2>1, <2>3 DEF UnderWay, Finished
<1>3. CASE Start(q) \/ Fail(q) \/ JobCompletes(q)
  <2>1. /\ UNCHANGED <<op, default, deployment, live, served, ended>>
        /\ pc'[q] \in {"createEndpoint", "failed", "done"}
    BY <1>3 DEF Start, Fail, JobCompletes, Goto, providerVars
  <2>2. QED
    BY <1>1, <2>1
<1>4. CASE EndpointCreated(q) \/ DeploymentPut(q) \/ DefaultPut(q)
  BY <1>1, <1>4 DEF EndpointCreated, DeploymentPut, DefaultPut, Await, Goto
<1>5. CASE CreateEndpoint(q) \/ PutDeployment(q) \/ PutDefault(q)
  <2>1. UNCHANGED <<default, deployment, live, served>> /\ ended'[q] = "none"
    BY <1>5 DEF CreateEndpoint, PutDeployment, PutDefault, Submit
  <2>2. \/ pc[q] # "putDefault" /\ pc'[q] \in {"endpointWait", "deploymentWait"}
        \/ pc[q] = "putDefault" /\ pc'[q] = "defaultWait"
             /\ op' = [op EXCEPT ![Endpoint] = [run |-> q, kind |-> "default"]]
    BY <1>5 DEF CreateEndpoint, PutDeployment, PutDefault, Submit, Goto
  <2>3. pc[q] = "putDefault" => Settled(d)'
    BY <1>1, <2>2 DEF Resources
  <2>4. QED
    BY <1>1, <2>1, <2>2, <2>3
<1>6. CASE ReadBack(q)
  BY <1>1, <1>6 DEF ReadBack, Goto, providerVars
<1>7. CASE Verify(q)
  BY <1>1, <1>7 DEF Verify, Matches, providerVars
<1>8. CASE Invoke(q)
  <2>1. pc'[q] \in {"job", "failed"} /\ UNCHANGED <<op, default, deployment, live>>
    BY <1>8 DEF Invoke, Goto, providerVars
  <2>2. deployment[d] = [run |-> q, kept |-> TRUE] /\ default = d
    <3>1. deployment[d].run = q /\ deployment[d].kept /\ default = d
      BY <1>1, <1>8 DEF Invoke, Goto
    <3>2. deployment[d] # Absent
      BY <3>1 DEF Absent
    <3>3. QED
      BY <3>1, <3>2 DEF Persisted
  <2>3. served'[q] # NotServed => served'[q] = Released(q)
    <3>1. CASE served'[q] = served[q]
      BY <1>1, <3>1
    <3>2. CASE served'[q] # served[q]
      <4>1. served'[q] = [name |-> default, what |-> deployment[default]]
        BY <1>8, <3>2 DEF Invoke
      <4>2. QED
        BY <2>2, <4>1
    <3>3. QED
      BY <3>1, <3>2
  <2>4. QED
    BY <2>1, <2>3
<1>9. ASSUME NEW x \in Resources, ProviderStep(x)
      PROVE  AloneInv(q)'
  <2>1. UNCHANGED <<pc, live, served>> /\ op[x] # Idle
          /\ op' = [op EXCEPT ![x] = Idle]
    BY <1>9 DEF ProviderStep, OperationFails, OperationSucceeds
  <2>2. CASE op[x].run = q
    BY <1>1, <1>9, <2>1, <2>2 DEF ProviderStep, OperationFails, OperationSucceeds,
       NewDefault, Idle, Resources, OperationsInOrder, InOrder
  <2>3. CASE op[x].run # q
    BY <1>1, <1>9, <2>1, <2>3 DEF ProviderStep, OperationFails, OperationSucceeds,
       NewDefault, Idle, Resources, OperationsInOrder, InOrder
  <2>4. QED
    BY <2>2, <2>3
<1>10. CASE UNCHANGED vars
  BY <1>1, <1>10 DEF vars
<1> HIDE DEF TypeOK, AloneInv, HasPut, Settled, Released
<1>11. QED
  BY <1>2, <1>3, <1>4, <1>5, <1>6, <1>7, <1>8, <1>9, <1>10 DEF Next, Step, RunStep, ProviderStep

-----------------------------------------------------------------------------
(* The invariant holds of the initial states.                               *)
LEMMA InitInv == Init => IInv
<1> SUFFICES ASSUME Init PROVE IInv
  OBVIOUS
<1> USE BatchAssumption DEF Init
<1>1. TypeOK
  BY DEF TypeOK, Finished
<1>2. OperationsInOrder /\ VerifiedInv /\ OverlapInv
  BY DEF OperationsInOrder, VerifiedInv, OverlapInv, PastVerification, DefaultWasVerified,
     Resources, Idle, UnderWay
<1>3. \A q \in Runs : OnlyInv(q) /\ AloneInv(q)
  BY DEF OnlyInv, AloneInv, HasPut, Settled, Resources, Idle
<1>4. QED
  BY <1>1, <1>2, <1>3 DEF IInv

(* Every step keeps it.                                                     *)
LEMMA NextInv == IInv /\ [Next]_vars => IInv'
<1> SUFFICES ASSUME IInv, [Next]_vars PROVE IInv'
  OBVIOUS
<1>1. TypeOK' /\ OperationsInOrder' /\ VerifiedInv' /\ OverlapInv'
  BY TypeStep, OperationsStep, VerifiedStep, OverlapStep DEF IInv
<1>2. ASSUME NEW q \in Runs, OnlyReleaser(q)' PROVE OnlyInv(q)'
  BY <1>2, OnlyStep DEF IInv, OnlyReleaser
<1>3. ASSUME NEW r \in Runs \ overlapped' PROVE AloneInv(r)'
  BY <1>3, AloneStep DEF IInv
<1>4. QED
  BY <1>1, <1>2, <1>3 DEF IInv

(* The layers together hold in every state of a release.                    *)
THEOREM Inductive == Spec => []IInv
BY InitInv, NextInv, PTL DEF Spec

(* Every variable of a release keeps its type.                              *)
THEOREM TypeCorrect == Spec => []TypeOK
<1>1. IInv => TypeOK
  BY DEF IInv
<1>2. QED
  BY Inductive, <1>1, PTL

(* The default is never a deployment that no run has verified, whatever     *)
(* operations take effect after their run is gone.                          *)
THEOREM DefaultCorrect == Spec => []DefaultWasVerified
<1>1. IInv => DefaultWasVerified
  BY DEF IInv, VerifiedInv
<1>2. QED
  BY Inductive, <1>1, PTL

(* A run without another beside it invokes what it released and verified,   *)
(* although the verification does not tell all releases of a name apart.    *)
THEOREM AloneCorrect == Spec => []AloneInvokesWhatItVerified
<1>1. IInv => AloneInvokesWhatItVerified
  BY DEF IInv, AloneInv, AloneInvokesWhatItVerified
<1>2. QED
  BY Inductive, <1>1, PTL

(* A deployment that one run alone releases serves, whoever invokes it, as  *)
(* that run verified it, however the runs overlap.                          *)
THEOREM NeverUnverifiedCorrect == Spec => []NeverServesUnverified
<1>1. IInv => NeverServesUnverified
  BY DEF IInv, OnlyInv, OnlyReleaser, NeverServesUnverified
<1>2. QED
  BY Inductive, <1>1, PTL
-----------------------------------------------------------------------------
(* The safe part of EveryReleaseEnds: no step is repeated, and no run waits *)
(* for an operation that will not end.                                      *)
Stage(r) ==
  CASE pc[r] = "start" -> 0
    [] pc[r] = "createEndpoint" -> 1
    [] pc[r] = "endpointWait" -> 2
    [] pc[r] = "putDeployment" -> 3
    [] pc[r] = "deploymentWait" -> 4
    [] pc[r] = "readBack" -> 5
    [] pc[r] = "verify" -> 6
    [] pc[r] = "putDefault" -> 7
    [] pc[r] = "defaultWait" -> 8
    [] pc[r] = "invoke" -> 9
    [] pc[r] = "job" -> 10
    [] OTHER -> 11

Advance ==
  \/ \E r \in Runs :
       /\ Stage(r)' > Stage(r)
       /\ \A q \in Runs \ {r} : pc'[q] = pc[q]
  \/ \E x \in Resources :
       /\ op[x] # Idle /\ op'[x] = Idle
       /\ \A y \in Resources \ {x} : op'[y] = op[y]
       /\ pc' = pc

(* Every step takes a run to a later step of its release, or ends an        *)
(* operation that a run has submitted: a failed verification is not tried   *)
(* again and no update is submitted twice                                   *)
(* (create_batch_deployment.py:1047-1072).                                  *)
AlwaysFurther == [][Advance]_vars

Awaited(r, at, x, kind) ==
  pc[r] = at => op[x] = [run |-> r, kind |-> kind] \/ ended[r] # "none"

(* The operation a run waits for is under way or has ended: those of other  *)
(* runs, present or gone, never take its place.                             *)
NeverStuck ==
  \A r \in Runs :
    /\ Awaited(r, "endpointWait", Endpoint, "create")
    /\ Awaited(r, "deploymentWait", DeploymentOf[r], "put")
    /\ Awaited(r, "defaultWait", Endpoint, "default")

(* The steps of one run leave the others where they are and take it to a    *)
(* later step.                                                              *)
LEMMA RunGoesFurther ==
  ASSUME TypeOK, NEW r \in Runs, RunStep(r)
  PROVE  Stage(r)' > Stage(r) /\ \A q \in Runs \ {r} : pc'[q] = pc[q]
<1> USE DEF TypeOK, Stage, Finished
<1>1. CASE Start(r) \/ EndpointCreated(r) \/ DeploymentPut(r) \/ DefaultPut(r)
             \/ JobCompletes(r)
  BY <1>1 DEF Start, EndpointCreated, DeploymentPut, DefaultPut, JobCompletes, Await, Goto
<1>2. CASE CreateEndpoint(r) \/ PutDeployment(r) \/ PutDefault(r)
  BY <1>2 DEF CreateEndpoint, PutDeployment, PutDefault, Submit, Goto
<1>3. CASE ReadBack(r) \/ Verify(r)
  BY <1>3 DEF ReadBack, Verify, Goto
<1>4. CASE Invoke(r)
  BY <1>4 DEF Invoke, Goto
<1>5. CASE Fail(r)
  BY <1>5 DEF Fail
<1>6. QED
  BY <1>1, <1>2, <1>3, <1>4, <1>5 DEF RunStep, Step

(* Every step of the releases is progress, for any number of runs.          *)
THEOREM AlwaysFurtherCorrect == Spec => AlwaysFurther
<1>1. TypeOK /\ [Next]_vars => [Advance]_vars
  <2> SUFFICES ASSUME TypeOK, Next PROVE Advance
    OBVIOUS
  <2>1. ASSUME NEW r \in Runs, RunStep(r) PROVE Advance
    BY <2>1, RunGoesFurther DEF Advance
  <2>2. ASSUME NEW x \in Resources, ProviderStep(x) PROVE Advance
    BY <2>2 DEF ProviderStep, OperationFails, OperationSucceeds, TypeOK, Advance
  <2>3. QED
    BY <2>1, <2>2 DEF Next, RunStep, ProviderStep
<1>2. QED
  BY TypeCorrect, <1>1, PTL DEF Spec, AlwaysFurther

(* A submission starts what its run waits for, and takes the place of       *)
(* nothing another run waits for, as nothing ran there.                     *)
LEMMA AwaitedSubmit ==
  ASSUME TypeOK, NEW q \in Runs, NEW y \in Resources, NEW new, NEW from, NEW to,
         Submit(q, y, new, from, to),
         NEW r \in Runs, NEW at, NEW x \in Resources, NEW kind, Awaited(r, at, x, kind),
         at = to /\ r = q => x = y /\ kind = new
  PROVE  Awaited(r, at, x, kind)'
<1> USE DEF Submit, Goto, Awaited
<1>1. CASE r = q
  BY <1>1 DEF TypeOK
<1>2. CASE r # q
  <2>1. pc'[r] = pc[r] /\ ended'[r] = ended[r]
    BY <1>2 DEF TypeOK
  <2>2. CASE x = y
    <3>1. op[x] # [run |-> r, kind |-> kind]
      BY <2>2, BatchAssumption DEF Idle
    <3>2. QED
      BY <2>1, <3>1
  <2>3. CASE x # y
    BY <2>1, <2>3 DEF TypeOK
  <2>4. QED
    BY <2>2, <2>3
<1>3. QED
  BY <1>1, <1>2

(* The end of an operation is noted at the run that waits for it.           *)
LEMMA AwaitedEnd ==
  ASSUME TypeOK, NEW y \in Resources, ProviderStep(y),
         NEW r \in Runs, NEW at, NEW x \in Resources, NEW kind, Awaited(r, at, x, kind)
  PROVE  Awaited(r, at, x, kind)'
<1>1. /\ pc' = pc /\ op' = [op EXCEPT ![y] = Idle]
      /\ \E how \in {"ok", "bad"} : ended' = [ended EXCEPT ![op[y].run] = how]
  BY DEF ProviderStep, OperationFails, OperationSucceeds
<1>2. ended[r] # "none" => ended'[r] # "none"
  BY <1>1 DEF TypeOK
<1>3. CASE x = y /\ op[x] = [run |-> r, kind |-> kind]
  <2>1. op[y].run = r
    BY <1>3
  <2>2. ended'[r] # "none"
    BY <1>1, <2>1 DEF TypeOK
  <2>3. QED
    BY <2>2 DEF Awaited
<1>4. CASE x # y
  BY <1>1, <1>2, <1>4 DEF TypeOK, Awaited
<1>5. QED
  BY <1>1, <1>2, <1>3, <1>4 DEF Awaited

(* A wait is not disturbed by any step.                                     *)
LEMMA NeverStuckStep == TypeOK /\ NeverStuck /\ [Next]_vars => NeverStuck'
<1> SUFFICES ASSUME TypeOK, NeverStuck, [Next]_vars PROVE NeverStuck'
  OBVIOUS
<1> USE DEF NeverStuck
<1>1. Endpoint \in Resources /\ \A r \in Runs : DeploymentOf[r] \in Resources
  BY BatchAssumption DEF Resources
<1>2. ASSUME NEW r \in Runs, Start(r) \/ EndpointCreated(r) \/ DeploymentPut(r)
               \/ DefaultPut(r) \/ JobCompletes(r) \/ Fail(r)
      PROVE  NeverStuck'
  BY <1>2 DEF Start, EndpointCreated, DeploymentPut, DefaultPut, JobCompletes, Fail,
     Await, Goto, providerVars, TypeOK, Awaited
<1>3. ASSUME NEW q \in Runs, CreateEndpoint(q) \/ PutDeployment(q) \/ PutDefault(q)
      PROVE  NeverStuck'
  <2> SUFFICES ASSUME NEW r \in Runs
               PROVE  /\ Awaited(r, "endpointWait", Endpoint, "create")'
                      /\ Awaited(r, "deploymentWait", DeploymentOf[r], "put")'
                      /\ Awaited(r, "defaultWait", Endpoint, "default")'
    OBVIOUS
  <2>1. CASE CreateEndpoint(q)
    BY <1>1, <2>1, AwaitedSubmit DEF CreateEndpoint
  <2>2. CASE PutDeployment(q)
    BY <1>1, <2>2, AwaitedSubmit DEF PutDeployment
  <2>3. CASE PutDefault(q)
    BY <1>1, <2>3, AwaitedSubmit DEF PutDefault
  <2>4. QED
    BY <1>3, <2>1, <2>2, <2>3
<1>4. ASSUME NEW r \in Runs, ReadBack(r) \/ Verify(r) \/ Invoke(r)
      PROVE  NeverStuck'
  BY <1>4 DEF ReadBack, Verify, Invoke, Goto, providerVars, TypeOK, Awaited
<1>5. ASSUME NEW x \in Resources, ProviderStep(x)
      PROVE  NeverStuck'
  BY <1>1, <1>5, AwaitedEnd
<1>6. CASE UNCHANGED vars
  BY <1>6 DEF vars, Awaited
<1>7. QED
  BY <1>2, <1>3, <1>4, <1>5, <1>6 DEF Next, Step, ProviderStep

(* No run waits for what will not come, however the runs overlap.           *)
THEOREM NeverStuckCorrect == Spec => []NeverStuck
<1>1. Init => NeverStuck
  BY DEF Init, NeverStuck, Awaited
<1>2. QED
  BY TypeCorrect, <1>1, NeverStuckStep, PTL DEF Spec
=============================================================================
