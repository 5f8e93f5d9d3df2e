------------------------- MODULE OnlineReleaseProof -------------------------
(***************************************************************************)
(* Proofs about the releases of OnlineRelease.tla, for every set of runs   *)
(* and of deployment names, whoever shares a name and wherever a run ends. *)
(* The invariant comes in layers, each proved on those before it.          *)
(***************************************************************************)
EXTENDS OnlineRelease, Naturals, TLAPS

(***************************************************************************)
(* What TypeOK leaves open: the operations and the answers.                *)
(***************************************************************************)
Operations ==
  [run : Runs \union {NoRun}, kind : {"none", "create", "put", "traffic"},
   payload : Configurations]

Answers ==
  [name : Deployments \union {NoDeployment}, by : Runs \union {NoRun},
   identity : Runs \union {NoRun}]

TypeInv ==
  /\ TypeOK
  /\ op \in [Resources -> Operations]
  /\ served \in [Runs -> Answers]

(***************************************************************************)
(* An operation belongs to the step its run waits in, unless the run is    *)
(* gone, and carries what that step has put into it.                       *)
(***************************************************************************)
Gone == {"cleanupFailed", "failed", "dead"}

InOrder(r, kind, x, payload) ==
  \/ /\ kind = "create" /\ x = Endpoint
     /\ pc[r] \in {"endpointWait"} \union Gone
     /\ payload = [identity |-> r, traffic |-> NoDeployment]
  \/ /\ kind = "put" /\ x = DeploymentOf[r]
     /\ pc[r] \in {"deploymentWait"} \union Gone
  \/ /\ kind = "traffic" /\ x = Endpoint
     /\ pc[r] \in {"trafficWait"} \union Gone
     /\ payload = [read[r] EXCEPT !.traffic = DeploymentOf[r]]

OperationsInOrder ==
  \A x \in Resources : op[x] # Idle =>
    /\ op[x].run \in Runs
    /\ InOrder(op[x].run, op[x].kind, x, op[x].payload)
    /\ pc[op[x].run] \notin Gone => ended[op[x].run] = "none"

(***************************************************************************)
(* A run that is past the wait for its deployment has one to move traffic  *)
(* to, and so has an operation that moves it.                              *)
(***************************************************************************)
MovesTraffic == {"readEndpoint", "putTraffic", "trafficWait", "invoke"}

HasPut(r) == pc[r] \in MovesTraffic \/ (pc[r] = "deploymentWait" /\ ended[r] = "ok")

TrafficInv ==
  /\ \A r \in Runs : HasPut(r) => deployment[DeploymentOf[r]] # NoRun
  /\ op[Endpoint].kind = "traffic" => deployment[DeploymentOf[op[Endpoint].run]] # NoRun
  /\ TrafficHasDeployment

(***************************************************************************)
(* The file of a run is deleted by the trap or, once it is announced, by   *)
(* the last step.                                                          *)
(***************************************************************************)
BundleInv(r) ==
  /\ pc[r] \in {"start", "trap", "fetch"} => bundle[r] # "secret"
  /\ pc[r] = "cleanupFailed" => announced[r] \/ bundle[r] # "secret"
  /\ pc[r] \in {"createEndpoint", "endpointWait", "putDeployment", "deploymentWait", "cleanup"}
                  \union MovesTraffic => announced[r]
  /\ pc[r] \in {"done", "failed"} => bundle[r] # "secret"

(***************************************************************************)
(* A run beside which no other was: once it has created the endpoint, no   *)
(* operation of a run that is gone is left there, and what it put stays.   *)
(***************************************************************************)
OverlapInv ==
  \A r, p \in Runs : r # p /\ r \in UnderWay /\ p \in UnderWay => r \in overlapped

HasEndpoint(r) ==
  \/ pc[r] \in {"putDeployment", "deploymentWait"} \union MovesTraffic
  \/ pc[r] = "endpointWait" /\ ended[r] = "ok"

HasTraffic(r) == pc[r] = "invoke" \/ (pc[r] = "trafficWait" /\ ended[r] = "ok")

AloneInv(r) ==
  /\ HasEndpoint(r) =>
       /\ endpoint.identity = r
       /\ op[Endpoint].kind # "create"
       /\ op[Endpoint].kind = "traffic" => op[Endpoint].run = r
  /\ HasPut(r) => deployment[DeploymentOf[r]] = r /\ op[DeploymentOf[r]].kind # "put"
  /\ pc[r] = "putTraffic" => read[r].identity = r
  /\ HasTraffic(r) => endpoint.traffic = DeploymentOf[r] /\ op[Endpoint].kind # "traffic"
  /\ served[r] # NotServed =>
       served[r] = [name |-> DeploymentOf[r], by |-> r, identity |-> r]

(* What such a run has read is still so when its update takes effect, even  *)
(* after the run is gone.                                                   *)
IdentityInv ==
  op[Endpoint].kind = "traffic" /\ op[Endpoint].run \notin overlapped =>
    read[op[Endpoint].run].identity = endpoint.identity

IInv ==
  /\ TypeInv
  /\ OperationsInOrder
  /\ TrafficInv
  /\ \A r \in Runs : BundleInv(r)
  /\ OverlapInv
  /\ \A r \in Runs \ overlapped : AloneInv(r)
  /\ IdentityInv

-----------------------------------------------------------------------------
ProviderStep(x) == OperationFails(x) \/ OperationSucceeds(x)

(* The steps of a run by what they touch.                                   *)
FileStep(r) == MakeFile(r) \/ SetTrap(r) \/ FetchBundle(r) \/ AnnounceBundle(r) \/ CleanUp(r)
WaitStep(r) == EndpointCreated(r) \/ DeploymentPut(r) \/ TrafficPut(r)
SubmitStep(r) == CreateEndpoint(r) \/ PutDeployment(r) \/ PutTraffic(r)
EndStep(r) == Fail(r) \/ RunnerDies(r)

(* Every step is one of these.                                              *)
LEMMA Steps ==
  [Next]_vars =>
    \/ \E r \in Runs : \/ FileStep(r) \/ WaitStep(r) \/ SubmitStep(r)
                       \/ ReadEndpoint(r) \/ Invoke(r) \/ EndStep(r)
    \/ \E x \in Resources : ProviderStep(x)
    \/ UNCHANGED vars
BY DEF Next, Step, FileStep, WaitStep, SubmitStep, EndStep, ProviderStep

(* A submission, its parts spelled out.                                     *)
LEMMA Submission ==
  ASSUME TypeInv, NEW r \in Runs, SubmitStep(r)
  PROVE  /\ UNCHANGED <<read, endpoint, deployment, served, bundle, announced, overlapped>>
         /\ ended' = [ended EXCEPT ![r] = "none"]
         /\ \/ /\ pc[r] = "createEndpoint" /\ pc' = [pc EXCEPT ![r] = "endpointWait"]
               /\ op[Endpoint] = Idle
               /\ op' = [op EXCEPT ![Endpoint] =
                           [run |-> r, kind |-> "create",
                            payload |-> [identity |-> r, traffic |-> NoDeployment]]]
            \/ /\ pc[r] = "putDeployment" /\ pc' = [pc EXCEPT ![r] = "deploymentWait"]
               /\ op[DeploymentOf[r]] = Idle
               /\ op' = [op EXCEPT ![DeploymentOf[r]] =
                           [run |-> r, kind |-> "put", payload |-> NoEndpoint]]
            \/ /\ pc[r] = "putTraffic" /\ pc' = [pc EXCEPT ![r] = "trafficWait"]
               /\ op[Endpoint] = Idle
               /\ op' = [op EXCEPT ![Endpoint] =
                           [run |-> r, kind |-> "traffic",
                            payload |-> [read[r] EXCEPT !.traffic = DeploymentOf[r]]]]
BY DEF SubmitStep, CreateEndpoint, PutDeployment, PutTraffic, Submit, Goto, NewTraffic, runner

(* What the provider's end of an operation changes.                         *)
LEMMA Completion ==
  ASSUME TypeInv, OperationsInOrder, NEW x \in Resources, ProviderStep(x)
  PROVE  /\ UNCHANGED <<pc, read, served, bundle, announced, overlapped>>
         /\ op[x].run \in Runs /\ op[x].kind # "none"
         /\ op' = [op EXCEPT ![x] = Idle]
         /\ \E e \in {"ok", "bad"} : ended' = [ended EXCEPT ![op[x].run] = e]
         /\ \/ UNCHANGED <<endpoint, deployment>> /\ ended'[op[x].run] = "bad"
            \/ /\ op[x].kind = "create" /\ x = Endpoint /\ UNCHANGED deployment
               /\ endpoint'.identity = op[x].run
               /\ endpoint'.traffic \in {NoDeployment, endpoint.traffic}
               /\ endpoint' \in Configurations
            \/ /\ op[x].kind = "traffic" /\ x = Endpoint /\ UNCHANGED deployment
               /\ endpoint' = [read[op[x].run] EXCEPT !.traffic = DeploymentOf[op[x].run]]
            \/ /\ op[x].kind = "put" /\ x = DeploymentOf[op[x].run] /\ UNCHANGED endpoint
               /\ deployment' = [deployment EXCEPT ![x] = op[x].run]
<1> USE OnlineAssumption DEF TypeInv, TypeOK, ProviderStep, OperationFails, OperationSucceeds,
      runner
<1>1. op[x] # Idle /\ op[x].run \in Runs /\ InOrder(op[x].run, op[x].kind, x, op[x].payload)
  BY DEF OperationsInOrder
<1>2. /\ UNCHANGED <<pc, read, served, bundle, announced, overlapped>>
      /\ op' = [op EXCEPT ![x] = Idle]
      /\ \E e \in {"ok", "bad"} : ended' = [ended EXCEPT ![op[x].run] = e]
  OBVIOUS
<1>3. op[x].kind # "none"
  BY <1>1 DEF InOrder
<1>4. CASE OperationFails(x)
  BY <1>1, <1>2, <1>3, <1>4
<1>5. CASE OperationSucceeds(x)
  <2>1. CASE op[x].kind = "create"
    BY <1>1, <1>2, <1>3, <1>5, <2>1 DEF InOrder, Configurations
  <2>2. CASE op[x].kind = "traffic"
    BY <1>1, <1>2, <1>3, <1>5, <2>2 DEF InOrder
  <2>3. CASE op[x].kind = "put"
    BY <1>1, <1>2, <1>3, <1>5, <2>3 DEF InOrder
  <2>4. QED
    BY <1>5, <2>1, <2>2, <2>3
<1>6. QED
  BY <1>4, <1>5

(* Every variable keeps its type.                                           *)
LEMMA TypeStep == TypeInv /\ OperationsInOrder /\ [Next]_vars => TypeInv'
<1> SUFFICES ASSUME TypeInv, OperationsInOrder, [Next]_vars PROVE TypeInv'
  OBVIOUS
<1> USE OnlineAssumption DEF TypeInv, TypeOK, CleaningUp, Finished, runner, provider
<1>1. ASSUME NEW r \in Runs, FileStep(r)
      PROVE  TypeInv'
  <2>1. CASE MakeFile(r) \/ SetTrap(r)
    BY <2>1 DEF MakeFile, SetTrap, Goto, UnderWay
  <2>2. CASE FetchBundle(r) \/ AnnounceBundle(r)
    BY <2>2 DEF FetchBundle, AnnounceBundle, Goto
  <2>3. CASE CleanUp(r)
    BY <2>3 DEF CleanUp, Goto
  <2>4. QED
    BY <1>1, <2>1, <2>2, <2>3 DEF FileStep
<1>2. ASSUME NEW r \in Runs, WaitStep(r) \/ EndStep(r)
      PROVE  TypeInv'
  BY <1>2 DEF WaitStep, EndpointCreated, DeploymentPut, TrafficPut, EndStep, Fail, RunnerDies,
     Await, Goto
<1>3. ASSUME NEW r \in Runs, SubmitStep(r)
      PROVE  TypeInv'
  <2>1. [read[r] EXCEPT !.traffic = DeploymentOf[r]] \in Configurations
    BY DEF Configurations
  <2>2. [identity |-> r, traffic |-> NoDeployment] \in Configurations
    BY DEF Configurations
  <2>3. NoEndpoint \in Configurations
    BY DEF Configurations, NoEndpoint
  <2>4. Endpoint \in Resources /\ DeploymentOf[r] \in Resources
    BY DEF Resources
  <2>5. op' \in [Resources -> Operations]
    <3>1. \A payload \in Configurations, kind \in {"create", "put", "traffic"} :
            [run |-> r, kind |-> kind, payload |-> payload] \in Operations
      BY DEF Operations
    <3>2. \E x \in Resources, o \in Operations : op' = [op EXCEPT ![x] = o]
      <4> DEFINE moved == [read[r] EXCEPT !.traffic = DeploymentOf[r]]
                 created == [identity |-> r, traffic |-> NoDeployment]
      <4>1. \E x \in {Endpoint, DeploymentOf[r]}, kind \in {"create", "put", "traffic"},
              payload \in {moved, created, NoEndpoint} :
              op' = [op EXCEPT ![x] = [run |-> r, kind |-> kind, payload |-> payload]]
        BY <1>3, Submission
      <4> HIDE DEF moved, created
      <4>2. QED
        BY <2>1, <2>2, <2>3, <2>4, <3>1, <4>1 DEF moved, created
    <3>3. QED
      BY <3>2
  <2>6. \A x \in Resources : op'[x].payload \in Configurations
    BY <2>5 DEF Operations
  <2>7. ended' \in [Runs -> {"none", "ok", "bad"}]
    BY <1>3, Submission
  <2>8. pc' \in [Runs -> {"start", "trap", "fetch", "validate", "createEndpoint", "endpointWait",
                      "putDeployment", "deploymentWait", "readEndpoint", "putTraffic",
                      "trafficWait", "invoke"} \union CleaningUp \union Finished]
    BY <1>3, Submission
  <2>9. QED
    BY <1>3, <2>5, <2>6, <2>7, <2>8, Submission
<1>4. ASSUME NEW r \in Runs, ReadEndpoint(r)
      PROVE  TypeInv'
  BY <1>4 DEF ReadEndpoint, Goto, TakeEndpoint
<1>5. ASSUME NEW r \in Runs, Invoke(r)
      PROVE  TypeInv'
  <2>1. endpoint.traffic # NoDeployment =>
          [name |-> endpoint.traffic, by |-> deployment[endpoint.traffic],
           identity |-> endpoint.identity] \in Answers
    BY DEF Configurations, Answers
  <2>2. served' \in [Runs -> Answers]
    BY <1>5, <2>1 DEF Invoke
  <2>3. QED
    BY <1>5, <2>2 DEF Invoke, Goto
<1>6. ASSUME NEW x \in Resources, ProviderStep(x)
      PROVE  TypeInv'
  <2>1. Idle \in Operations
    BY DEF Idle, Operations, Configurations, NoEndpoint
  <2>2. op' \in [Resources -> Operations]
    BY <1>6, <2>1, Completion
  <2>3. \A y \in Resources : op'[y].payload \in Configurations
    BY <2>2 DEF Operations
  <2>4. endpoint' \in Configurations
    <3>1. \A r \in Runs : [read[r] EXCEPT !.traffic = DeploymentOf[r]] \in Configurations
      BY DEF Configurations
    <3>2. QED
      BY <1>6, <3>1, Completion
  <2>5. deployment' \in [Deployments -> Runs \union {NoRun}]
    BY <1>6, Completion
  <2>6. ended' \in [Runs -> {"none", "ok", "bad"}]
    BY <1>6, Completion
  <2>7. QED
    BY <1>6, <2>2, <2>3, <2>4, <2>5, <2>6, Completion
<1>7. CASE UNCHANGED vars
  BY <1>7 DEF vars
<1>8. QED
  BY <1>1, <1>2, <1>3, <1>4, <1>5, <1>6, <1>7, Steps

(* Operations stay with the step that waits for them.                       *)
LEMMA OperationsStep ==
  TypeInv /\ OperationsInOrder /\ [Next]_vars => OperationsInOrder'
<1> SUFFICES ASSUME TypeInv, OperationsInOrder, [Next]_vars,
                    NEW y \in Resources, op'[y] # Idle
             PROVE  /\ op'[y].run \in Runs
                    /\ InOrder(op[y].run, op[y].kind, y, op[y].payload)'
                    /\ pc'[op'[y].run] \notin Gone => ended'[op'[y].run] = "none"
  BY DEF OperationsInOrder
<1> DEFINE p == op[y].run
<1> USE OnlineAssumption DEF TypeInv, TypeOK, Gone
<1>1. op[y] # Idle =>
        /\ p \in Runs
        /\ InOrder(p, op[y].kind, y, op[y].payload)
        /\ pc[p] \notin Gone => ended[p] = "none"
  BY DEF OperationsInOrder
<1>2. ASSUME op'[y] = op[y], p \in Runs => read'[p] = read[p],
             p \in Runs => pc'[p] = pc[p] \/ pc'[p] \in Gone,
             p \in Runs => ended'[p] = ended[p] \/ pc'[p] \in Gone
      PROVE  /\ op'[y].run \in Runs
             /\ InOrder(op[y].run, op[y].kind, y, op[y].payload)'
             /\ pc'[op'[y].run] \notin Gone => ended'[op'[y].run] = "none"
  BY <1>1, <1>2 DEF InOrder
<1>3. ASSUME NEW r \in Runs, FileStep(r)
      PROVE  /\ op' = op /\ ended' = ended /\ read' = read
             /\ p \in Runs /\ op[y] # Idle => pc'[p] = pc[p] \/ pc'[p] \in Gone
  BY <1>1, <1>3 DEF FileStep, MakeFile, SetTrap, FetchBundle, AnnounceBundle, CleanUp, Goto,
     provider, InOrder
<1>4. ASSUME NEW r \in Runs, WaitStep(r) \/ EndStep(r)
      PROVE  /\ op' = op /\ ended' = ended /\ read' = read
             /\ p \in Runs /\ op[y] # Idle => pc'[p] = pc[p] \/ pc'[p] \in Gone
  BY <1>1, <1>4 DEF WaitStep, EndpointCreated, DeploymentPut, TrafficPut, EndStep, Fail,
     RunnerDies, Await, Goto, provider, InOrder
<1>5. ASSUME NEW r \in Runs, ReadEndpoint(r) \/ Invoke(r)
      PROVE  /\ op' = op /\ ended' = ended
             /\ p \in Runs /\ op[y] # Idle =>
                  /\ pc'[p] = pc[p] \/ pc'[p] \in Gone
                  /\ read'[p] = read[p]
  BY <1>1, <1>5 DEF ReadEndpoint, Invoke, Goto, provider, InOrder
<1>6. ASSUME NEW r \in Runs, SubmitStep(r)
      PROVE  /\ op'[y].run \in Runs
             /\ InOrder(op[y].run, op[y].kind, y, op[y].payload)'
             /\ pc'[op'[y].run] \notin Gone => ended'[op'[y].run] = "none"
  <2>1. CASE op'[y] = op[y]
    <3>1. op[y] # Idle /\ p # r
      BY <1>1, <1>6, <2>1, Submission DEF InOrder
    <3>2. QED
      BY <1>1, <1>2, <1>6, <2>1, <3>1, Submission
  <2>2. CASE op'[y] # op[y]
    <3>1. op'[y].run = r /\ ended'[r] = "none" /\ read' = read
      BY <1>6, <2>2, Submission DEF Resources
    <3>2. InOrder(r, op[y].kind, y, op[y].payload)'
      BY <1>6, <2>2, Submission DEF Resources, InOrder
    <3>3. QED
      BY <3>1, <3>2
  <2>3. QED
    BY <2>1, <2>2
<1>7. ASSUME NEW x \in Resources, ProviderStep(x)
      PROVE  op'[y] = op[y] /\ UNCHANGED <<pc, read>> /\
             (p \in Runs => ended'[p] = ended[p] \/ pc'[p] \in Gone)
  <2>1. op' = [op EXCEPT ![x] = Idle] /\ UNCHANGED <<pc, read>> /\ op[x].run \in Runs
    BY <1>7, Completion
  <2>2. y # x /\ op'[y] = op[y]
    BY <2>1
  <2>3. CASE op[x].run # p
    BY <1>7, <2>1, <2>2, <2>3, Completion
  <2>4. CASE op[x].run = p
    <3>1. op[x] # Idle
      BY <1>7 DEF ProviderStep, OperationFails, OperationSucceeds
    <3>2. InOrder(p, op[x].kind, x, op[x].payload) /\ InOrder(p, op[y].kind, y, op[y].payload)
      BY <1>1, <2>2, <2>4, <3>1 DEF OperationsInOrder
    <3>3. pc[p] \in Gone
      BY <2>2, <3>2 DEF InOrder
    <3>4. QED
      BY <2>1, <2>2, <3>3
  <2>5. QED
    BY <2>3, <2>4
<1>8. CASE UNCHANGED vars
  BY <1>1, <1>2, <1>8 DEF vars
<1>9. QED
  BY <1>1, <1>2, <1>3, <1>4, <1>5, <1>6, <1>7, <1>8, Steps

(* Traffic goes, and is asked to go, to deployments that are there only.    *)
LEMMA TrafficStep ==
  TypeInv /\ OperationsInOrder /\ TrafficInv /\ [Next]_vars => TrafficInv'
<1> SUFFICES ASSUME TypeInv, OperationsInOrder, TrafficInv, [Next]_vars
             PROVE  TrafficInv'
  OBVIOUS
<1> USE OnlineAssumption DEF TypeInv, TypeOK, TrafficInv, TrafficHasDeployment, HasPut,
      MovesTraffic
<1>1. ASSUME NEW r \in Runs, FileStep(r) \/ EndStep(r)
      PROVE  TrafficInv'
  BY <1>1 DEF FileStep, MakeFile, SetTrap, FetchBundle, AnnounceBundle, CleanUp, EndStep,
     Fail, RunnerDies, Goto, provider
<1>2. ASSUME NEW r \in Runs, WaitStep(r)
      PROVE  TrafficInv'
  BY <1>2 DEF WaitStep, EndpointCreated, DeploymentPut, TrafficPut, Await, Goto, provider
<1>3. ASSUME NEW r \in Runs, ReadEndpoint(r) \/ Invoke(r)
      PROVE  TrafficInv'
  BY <1>3 DEF ReadEndpoint, Invoke, Goto, provider
<1>4. ASSUME NEW r \in Runs, SubmitStep(r)
      PROVE  TrafficInv'
  <2>1. UNCHANGED <<endpoint, deployment>>
    BY <1>4, Submission
  <2>2. ASSUME NEW q \in Runs, HasPut(q)' PROVE HasPut(q)
    BY <1>4, <2>2, Submission
  <2>3. op'[Endpoint].kind = "traffic" =>
          \/ op'[Endpoint] = op[Endpoint]
          \/ op'[Endpoint].run = r /\ HasPut(r)
    BY <1>4, Submission DEF Resources
  <2>4. QED
    BY <2>1, <2>2, <2>3
<1>5. ASSUME NEW x \in Resources, ProviderStep(x)
      PROVE  TrafficInv'
  <2>1. \A q \in Runs : DeploymentOf[q] \in Deployments /\ q # NoRun
    OBVIOUS
  <2>2. \A d \in Deployments : deployment[d] # NoRun => deployment'[d] # NoRun
    BY <1>5, <2>1, Completion
  <2>3. ASSUME NEW q \in Runs, HasPut(q)' PROVE deployment'[DeploymentOf[q]] # NoRun
    <3>1. CASE HasPut(q)
      BY <2>1, <2>2, <3>1
    <3>2. CASE ~HasPut(q)
      <4>1. pc[q] = "deploymentWait" /\ ended[q] # "ok" /\ ended'[q] = "ok"
        BY <1>5, <2>3, <3>2, Completion
      <4>2. op[x].run = q /\ op[x] # Idle
        BY <1>5, <4>1, Completion DEF Idle
      <4>3. op[x].kind = "put" /\ x = DeploymentOf[q]
        BY <4>1, <4>2 DEF OperationsInOrder, InOrder, Gone
      <4>4. deployment' = [deployment EXCEPT ![x] = q]
        BY <1>5, <4>1, <4>2, <4>3, Completion
      <4>5. QED
        BY <2>1, <4>3, <4>4
    <3>3. QED
      BY <3>1, <3>2
  <2>4. op'[Endpoint].kind = "traffic" =>
          deployment'[DeploymentOf[op'[Endpoint].run]] # NoRun
    <3> SUFFICES ASSUME op'[Endpoint].kind = "traffic"
                 PROVE  deployment'[DeploymentOf[op'[Endpoint].run]] # NoRun
      OBVIOUS
    <3>1. op'[Endpoint] = op[Endpoint] /\ op[Endpoint] # Idle
      BY <1>5, Completion DEF Idle, Resources
    <3>2. op[Endpoint].run \in Runs
      BY <3>1 DEF OperationsInOrder, Resources
    <3>3. QED
      BY <2>1, <2>2, <3>1, <3>2
  <2>5. endpoint'.traffic # NoDeployment => deployment'[endpoint'.traffic] # NoRun
    <3>1. endpoint.traffic \in Deployments \union {NoDeployment}
      BY DEF Configurations
    <3>2. CASE endpoint'.traffic \in {NoDeployment, endpoint.traffic}
      BY <2>2, <3>1, <3>2
    <3>3. CASE endpoint'.traffic \notin {NoDeployment, endpoint.traffic}
      <4>1. /\ op[x].kind = "traffic" /\ x = Endpoint /\ op[x].run \in Runs
            /\ deployment' = deployment
            /\ endpoint' = [read[op[x].run] EXCEPT !.traffic = DeploymentOf[op[x].run]]
        BY <1>5, <3>3, Completion
      <4>2. endpoint'.traffic = DeploymentOf[op[x].run]
        BY <4>1 DEF Configurations
      <4>3. QED
        BY <4>1, <4>2
    <3>4. QED
      BY <3>2, <3>3
  <2>6. QED
    BY <2>3, <2>4, <2>5
<1>6. CASE UNCHANGED vars
  BY <1>6 DEF vars
<1>7. QED
  BY <1>1, <1>2, <1>3, <1>4, <1>5, <1>6, Steps

(* The file of a run is deleted on every way the run may take to its end.   *)
LEMMA BundleStep ==
  ASSUME TypeInv, OperationsInOrder, [Next]_vars, NEW q \in Runs, BundleInv(q)
  PROVE  BundleInv(q)'
<1> USE DEF TypeInv, TypeOK, BundleInv, MovesTraffic
<1>1. ASSUME NEW r \in Runs, FileStep(r)
      PROVE  BundleInv(q)'
  BY <1>1 DEF FileStep, MakeFile, SetTrap, FetchBundle, AnnounceBundle, CleanUp, Goto, runner
<1>2. ASSUME NEW r \in Runs, WaitStep(r) \/ SubmitStep(r)
      PROVE  BundleInv(q)'
  <2>1. CASE WaitStep(r)
    BY <2>1 DEF WaitStep, EndpointCreated, DeploymentPut, TrafficPut, Await, Goto, runner
  <2>2. CASE SubmitStep(r)
    <3>1. PICK to \in {"endpointWait", "deploymentWait", "trafficWait"} :
            /\ pc[r] \in {"createEndpoint", "putDeployment", "putTraffic"}
            /\ pc' = [pc EXCEPT ![r] = to]
            /\ UNCHANGED <<bundle, announced>>
      BY <2>2, Submission
    <3>2. QED
      BY <3>1
  <2>3. QED
    BY <1>2, <2>1, <2>2
<1>3. ASSUME NEW r \in Runs, ReadEndpoint(r) \/ Invoke(r)
      PROVE  BundleInv(q)'
  BY <1>3 DEF ReadEndpoint, Invoke, Goto, runner
<1>4. ASSUME NEW r \in Runs, EndStep(r)
      PROVE  BundleInv(q)'
  BY <1>4 DEF EndStep, Fail, RunnerDies, CleaningUp, Finished, runner
<1>5. ASSUME NEW x \in Resources, ProviderStep(x)
      PROVE  BundleInv(q)'
  BY <1>5, Completion
<1>6. CASE UNCHANGED vars
  BY <1>6 DEF vars
<1>7. QED
  BY <1>1, <1>2, <1>3, <1>4, <1>5, <1>6, Steps

(* Two runs that are under way know of each other.                          *)
LEMMA OverlapStep ==
  TypeInv /\ OperationsInOrder /\ OverlapInv /\ [Next]_vars
    => OverlapInv' /\ overlapped \subseteq overlapped'
<1> SUFFICES ASSUME TypeInv, OperationsInOrder, OverlapInv, [Next]_vars
             PROVE  OverlapInv' /\ overlapped \subseteq overlapped'
  OBVIOUS
<1> USE DEF TypeInv, TypeOK, OverlapInv, UnderWay, Finished
<1>1. ASSUME NEW r \in Runs, MakeFile(r)
      PROVE  OverlapInv' /\ overlapped \subseteq overlapped'
  BY <1>1 DEF MakeFile, Goto
<1>2. ASSUME NEW r \in Runs, FileStep(r) \/ WaitStep(r) \/ SubmitStep(r) \/ ReadEndpoint(r)
               \/ Invoke(r) \/ EndStep(r), ~MakeFile(r)
      PROVE  OverlapInv' /\ overlapped \subseteq overlapped'
  <2>1. overlapped' = overlapped /\ UnderWay' \subseteq UnderWay
    <3>1. CASE SubmitStep(r)
      <4>1. PICK to \in {"endpointWait", "deploymentWait", "trafficWait"} :
              /\ pc[r] \in {"createEndpoint", "putDeployment", "putTraffic"}
              /\ pc' = [pc EXCEPT ![r] = to]
              /\ UNCHANGED overlapped
        BY <3>1, Submission
      <4>2. QED
        BY <4>1
    <3>2. CASE FileStep(r) \/ WaitStep(r)
      BY <1>2, <3>2 DEF FileStep, SetTrap, FetchBundle, AnnounceBundle, CleanUp, WaitStep,
         EndpointCreated, DeploymentPut, TrafficPut, Await, Goto
    <3>3. CASE ReadEndpoint(r) \/ Invoke(r) \/ EndStep(r)
      BY <3>3 DEF ReadEndpoint, Invoke, EndStep, Fail, RunnerDies, Goto
    <3>4. QED
      BY <1>2, <3>1, <3>2, <3>3
  <2>2. QED
    BY <2>1
<1>3. ASSUME NEW x \in Resources, ProviderStep(x)
      PROVE  OverlapInv' /\ overlapped \subseteq overlapped'
  BY <1>3, Completion
<1>4. CASE UNCHANGED vars
  BY <1>4 DEF vars
<1>5. QED
  BY <1>1, <1>2, <1>3, <1>4, Steps DEF FileStep

(* What a run has put stays as it is while no other run is under way.       *)
LEMMA AloneStep ==
  ASSUME TypeInv, OperationsInOrder, OverlapInv, IdentityInv, [Next]_vars,
         NEW q \in Runs \ overlapped', q \notin overlapped => AloneInv(q)
  PROVE  AloneInv(q)'
<1> DEFINE d == DeploymentOf[q]
<1> USE OnlineAssumption DEF TypeInv, TypeOK
<1>1. q \notin overlapped /\ AloneInv(q)
  BY OverlapStep
<1>2. ASSUME NEW r \in Runs \ {q},
             \/ FileStep(r) \/ WaitStep(r) \/ SubmitStep(r)
             \/ ReadEndpoint(r) \/ Invoke(r) \/ EndStep(r)
      PROVE  AloneInv(q)'
  <2>1. pc'[q] = pc[q] /\ served'[q] = served[q]
    <3>1. CASE SubmitStep(r)
      BY <1>2, <3>1, Submission
    <3>2. CASE ~SubmitStep(r)
      BY <1>2, <3>2 DEF FileStep, MakeFile, SetTrap, FetchBundle, AnnounceBundle, CleanUp,
         WaitStep, EndpointCreated, DeploymentPut, TrafficPut, Await, ReadEndpoint, Invoke,
         EndStep, Fail, RunnerDies, Goto
    <3>3. QED
      BY <3>1, <3>2
  <2>2. r \in UnderWay \/ (MakeFile(r) /\ (UnderWay = {} \/ q \notin UnderWay))
    <3>1. CASE SubmitStep(r)
      BY <1>2, <3>1, Submission DEF UnderWay, Finished
    <3>2. CASE FileStep(r)
      BY <1>2, <3>2 DEF FileStep, MakeFile, SetTrap, FetchBundle, AnnounceBundle, CleanUp, Goto,
         UnderWay, Finished
    <3>3. CASE WaitStep(r) \/ ReadEndpoint(r) \/ Invoke(r) \/ EndStep(r)
      BY <3>3 DEF WaitStep, EndpointCreated, DeploymentPut, TrafficPut, Await, ReadEndpoint,
         Invoke, EndStep, Fail, RunnerDies, Goto, UnderWay, Finished
    <3>4. QED
      BY <1>2, <3>1, <3>2, <3>3
  <2>3. q \notin UnderWay
    BY <1>1, <2>2 DEF OverlapInv
  <2>4. pc[q] \in {"start"} \union Finished
    BY <2>3 DEF UnderWay
  <2>5. QED
    BY <1>1, <2>1, <2>4 DEF AloneInv, HasEndpoint, HasPut, HasTraffic, MovesTraffic, Finished
<1>3. CASE FileStep(q) \/ EndStep(q)
  <2>1. UNCHANGED <<endpoint, deployment, op, read, served>>
    BY <1>3 DEF FileStep, MakeFile, SetTrap, FetchBundle, AnnounceBundle, CleanUp,
       EndStep, Fail, RunnerDies, provider
  <2>2. pc'[q] \in {"trap", "fetch", "validate", "createEndpoint"} \union Gone \union Finished
    BY <1>3 DEF FileStep, MakeFile, SetTrap, FetchBundle, AnnounceBundle, CleanUp,
       EndStep, Fail, RunnerDies, Goto, Gone, Finished
  <2>3. QED
    BY <1>1, <2>1, <2>2 DEF AloneInv, HasEndpoint, HasPut, HasTraffic, MovesTraffic, Gone,
       Finished
<1>4. CASE WaitStep(q)
  <2>1. UNCHANGED <<endpoint, deployment, op, read, served, ended>>
    BY <1>4 DEF WaitStep, EndpointCreated, DeploymentPut, TrafficPut, Await, provider
  <2>2. /\ ended[q] = "ok"
        /\ \/ pc[q] = "endpointWait" /\ pc'[q] = "putDeployment"
           \/ pc[q] = "deploymentWait" /\ pc'[q] = "readEndpoint"
           \/ pc[q] = "trafficWait" /\ pc'[q] = "invoke"
    BY <1>4 DEF WaitStep, EndpointCreated, DeploymentPut, TrafficPut, Await, Goto
  <2>3. QED
    BY <1>1, <2>1, <2>2 DEF AloneInv, HasEndpoint, HasPut, HasTraffic, MovesTraffic
<1>5. CASE SubmitStep(q)
  <2>1. UNCHANGED <<endpoint, deployment, read, served>> /\ ended'[q] = "none"
    BY <1>5, Submission
  <2>2. CASE pc[q] = "createEndpoint"
    <3>1. pc'[q] = "endpointWait"
      BY <1>5, <2>2, Submission
    <3>2. QED
      BY <1>1, <2>1, <3>1 DEF AloneInv, HasEndpoint, HasPut, HasTraffic, MovesTraffic
  <2>3. CASE pc[q] = "putDeployment"
    <3>1. pc'[q] = "deploymentWait"
            /\ op' = [op EXCEPT ![d] = [run |-> q, kind |-> "put", payload |-> NoEndpoint]]
      BY <1>5, <2>3, Submission
    <3>2. op'[Endpoint] = op[Endpoint] \/ op'[Endpoint].kind = "put"
      BY <3>1 DEF Resources
    <3>3. QED
      BY <1>1, <2>1, <2>3, <3>1, <3>2 DEF AloneInv, HasEndpoint, HasPut, HasTraffic,
         MovesTraffic
  <2>4. CASE pc[q] = "putTraffic"
    <3>1. pc'[q] = "trafficWait"
            /\ op' = [op EXCEPT ![Endpoint] =
                        [run |-> q, kind |-> "traffic",
                         payload |-> [read[q] EXCEPT !.traffic = d]]]
      BY <1>5, <2>4, Submission
    <3>2. op'[Endpoint].kind = "traffic" /\ op'[Endpoint].run = q
      BY <3>1 DEF Resources
    <3>3. op'[d] = op[d] \/ op'[d].kind = "traffic"
      BY <3>1, <3>2 DEF Resources
    <3>4. QED
      BY <1>1, <2>1, <2>4, <3>1, <3>2, <3>3 DEF AloneInv, HasEndpoint, HasPut, HasTraffic,
         MovesTraffic
  <2>5. QED
    BY <1>5, <2>2, <2>3, <2>4, Submission
<1>6. CASE ReadEndpoint(q)
  BY <1>1, <1>6 DEF ReadEndpoint, TakeEndpoint, Goto, provider, AloneInv, HasEndpoint, HasPut,
     HasTraffic, MovesTraffic
<1>7. CASE Invoke(q)
  <2>1. UNCHANGED <<endpoint, deployment, op, read>> /\ pc'[q] \in {"cleanup", "cleanupFailed"}
    BY <1>7 DEF Invoke, Goto, provider
  <2>2. endpoint.identity = q /\ endpoint.traffic = d /\ deployment[d] = q
    BY <1>1, <1>7 DEF Invoke, Goto, AloneInv, HasEndpoint, HasPut, HasTraffic, MovesTraffic
  <2>3. served'[q] = served[q] \/ served'[q] = [name |-> d, by |-> q, identity |-> q]
    BY <1>7, <2>2 DEF Invoke
  <2>4. QED
    BY <1>1, <2>1, <2>3 DEF AloneInv, HasEndpoint, HasPut, HasTraffic, MovesTraffic
<1>8. ASSUME NEW x \in Resources, ProviderStep(x)
      PROVE  AloneInv(q)'
  <2>1. /\ UNCHANGED <<pc, read, served>> /\ op[x] # Idle
        /\ op' = [op EXCEPT ![x] = Idle]
    BY <1>8, Completion DEF Idle
  <2>2. /\ op'[Endpoint].kind \in {"none", op[Endpoint].kind}
        /\ op'[Endpoint].kind # "none" => op'[Endpoint] = op[Endpoint]
        /\ op'[d].kind \in {"none", op[d].kind}
        /\ op'[x].kind = "none"
    BY <2>1 DEF Idle, Resources
  <2>3. ended'[q] = ended[q] \/ op[x].run = q
    BY <1>8, Completion
  <2>4. op[x].run = q => InOrder(q, op[x].kind, x, op[x].payload)
    BY <2>1 DEF OperationsInOrder
  <2>5. HasEndpoint(q)' =>
          /\ endpoint'.identity = q
          /\ op'[Endpoint].kind # "create"
          /\ op'[Endpoint].kind = "traffic" => op'[Endpoint].run = q
    <3>1. CASE HasEndpoint(q)
      <4>1. endpoint.identity = q /\ op[Endpoint].kind # "create"
              /\ (op[Endpoint].kind = "traffic" => op[Endpoint].run = q)
        BY <1>1, <3>1 DEF AloneInv
      <4>2. endpoint'.identity = q
        <5>1. CASE endpoint' = endpoint
          BY <4>1, <5>1
        <5>2. CASE endpoint' # endpoint
          <6>1. op[x].kind = "traffic" /\ x = Endpoint /\ op[x].run = q
                  /\ endpoint' = [read[q] EXCEPT !.traffic = DeploymentOf[q]]
            BY <1>8, <4>1, <5>2, Completion
          <6>2. read[q].identity = endpoint.identity
            BY <1>1, <6>1 DEF IdentityInv
          <6>3. QED
            BY <4>1, <6>1, <6>2 DEF Configurations
        <5>3. QED
          BY <5>1, <5>2
      <4>3. QED
        BY <2>2, <4>1, <4>2
    <3>2. CASE ~HasEndpoint(q) /\ HasEndpoint(q)'
      <4>1. pc[q] = "endpointWait" /\ ended'[q] = "ok" /\ op[x].run = q
        BY <2>1, <2>3, <3>2 DEF HasEndpoint
      <4>2. op[x].kind = "create" /\ x = Endpoint
        BY <2>4, <4>1 DEF InOrder, Gone
      <4>3. QED
        BY <1>8, <2>2, <4>1, <4>2, Completion
    <3>3. QED
      BY <3>1, <3>2
  <2>6. HasPut(q)' => deployment'[d] = q /\ op'[d].kind # "put"
    <3>1. CASE HasPut(q)
      BY <1>1, <1>8, <2>2, <3>1, Completion DEF AloneInv
    <3>2. CASE ~HasPut(q) /\ HasPut(q)'
      <4>1. pc[q] = "deploymentWait" /\ ended'[q] = "ok" /\ op[x].run = q
        BY <2>1, <2>3, <3>2 DEF HasPut
      <4>2. op[x].kind = "put" /\ x = d
        BY <2>4, <4>1 DEF InOrder, Gone
      <4>3. deployment' = [deployment EXCEPT ![d] = q]
        BY <1>8, <4>1, <4>2, Completion
      <4>4. QED
        BY <2>2, <4>2, <4>3
    <3>3. QED
      BY <3>1, <3>2
  <2>7. HasTraffic(q)' => endpoint'.traffic = d /\ op'[Endpoint].kind # "traffic"
    <3>1. CASE HasTraffic(q)
      <4>1. endpoint.traffic = d /\ op[Endpoint].kind # "traffic" /\ op[Endpoint].kind # "create"
        BY <1>1, <3>1 DEF AloneInv, HasTraffic, HasEndpoint, MovesTraffic
      <4>2. endpoint' = endpoint
        BY <1>8, <4>1, Completion
      <4>3. QED
        BY <2>2, <4>1, <4>2
    <3>2. CASE ~HasTraffic(q) /\ HasTraffic(q)'
      <4>1. pc[q] = "trafficWait" /\ ended'[q] = "ok" /\ op[x].run = q
        BY <2>1, <2>3, <3>2 DEF HasTraffic
      <4>2. op[x].kind = "traffic" /\ x = Endpoint
        BY <2>4, <4>1 DEF InOrder, Gone
      <4>3. endpoint' = [read[q] EXCEPT !.traffic = d]
        BY <1>8, <4>1, <4>2, Completion
      <4>4. QED
        BY <2>2, <4>2, <4>3 DEF Configurations
    <3>3. QED
      BY <3>1, <3>2
  <2>8. QED
    BY <1>1, <2>1, <2>5, <2>6, <2>7 DEF AloneInv
<1>9. CASE UNCHANGED vars
  BY <1>1, <1>9 DEF vars, AloneInv, HasEndpoint, HasPut, HasTraffic
<1>10. QED
  BY <1>2, <1>3, <1>4, <1>5, <1>6, <1>7, <1>8, <1>9, Steps

(* What such a run read of the identity holds until its update takes effect.*)
LEMMA IdentityStep ==
  TypeInv /\ OperationsInOrder /\ OverlapInv /\ IdentityInv
    /\ (\A r \in Runs \ overlapped : AloneInv(r)) /\ [Next]_vars => IdentityInv'
<1> SUFFICES ASSUME TypeInv, OperationsInOrder, OverlapInv, IdentityInv, [Next]_vars,
                    \A r \in Runs \ overlapped : AloneInv(r),
                    op'[Endpoint].kind = "traffic", op'[Endpoint].run \notin overlapped'
             PROVE  read'[op'[Endpoint].run].identity = endpoint'.identity
  BY DEF IdentityInv
<1> DEFINE p == op[Endpoint].run
<1> USE OnlineAssumption DEF TypeInv, TypeOK
<1>1. overlapped \subseteq overlapped'
  BY OverlapStep
<1>2. op[Endpoint].kind = "traffic" => p \in Runs /\ pc[p] \in {"trafficWait"} \union Gone
  <2>1. Endpoint \in Resources
    BY DEF Resources
  <2>2. op[Endpoint].kind = "traffic" => op[Endpoint] # Idle
    BY DEF Idle
  <2>3. QED
    BY <2>1, <2>2 DEF OperationsInOrder, InOrder
<1>3. ASSUME op'[Endpoint] = op[Endpoint], read'[p] = read[p], endpoint' = endpoint
      PROVE  read'[op'[Endpoint].run].identity = endpoint'.identity
  BY <1>1, <1>3 DEF IdentityInv
<1>4. ASSUME NEW r \in Runs,
             FileStep(r) \/ WaitStep(r) \/ Invoke(r) \/ EndStep(r)
      PROVE  UNCHANGED <<op, read, endpoint>>
  BY <1>4 DEF FileStep, MakeFile, SetTrap, FetchBundle, AnnounceBundle, CleanUp, WaitStep,
     EndpointCreated, DeploymentPut, TrafficPut, Await, Invoke, EndStep, Fail, RunnerDies, provider
<1>5. ASSUME NEW r \in Runs, ReadEndpoint(r)
      PROVE  op'[Endpoint] = op[Endpoint] /\ read'[p] = read[p] /\ endpoint' = endpoint
  BY <1>2, <1>5 DEF ReadEndpoint, Goto, provider, Gone
<1>6. ASSUME NEW r \in Runs, SubmitStep(r)
      PROVE  read'[op'[Endpoint].run].identity = endpoint'.identity
  <2>1. read' = read /\ endpoint' = endpoint /\ overlapped' = overlapped
    BY <1>6, Submission
  <2>2. CASE op'[Endpoint] = op[Endpoint]
    BY <1>3, <2>1, <2>2
  <2>3. CASE op'[Endpoint] # op[Endpoint]
    <3>1. pc[r] = "putTraffic" /\ op'[Endpoint].run = r
      BY <1>6, <2>3, Submission DEF Resources
    <3>2. AloneInv(r)
      BY <2>1, <3>1
    <3>3. read[r].identity = r /\ endpoint.identity = r
      BY <3>1, <3>2 DEF AloneInv, HasEndpoint, MovesTraffic
    <3>4. QED
      BY <2>1, <3>1, <3>3
  <2>4. QED
    BY <2>2, <2>3
<1>7. ASSUME NEW x \in Resources, ProviderStep(x)
      PROVE  op'[Endpoint] = op[Endpoint] /\ read' = read /\ endpoint' = endpoint
  <2>1. op' = [op EXCEPT ![x] = Idle] /\ read' = read
    BY <1>7, Completion
  <2>2. x # Endpoint
    BY <2>1 DEF Idle, Resources
  <2>3. QED
    BY <1>7, <2>1, <2>2, Completion
<1>8. CASE UNCHANGED vars
  BY <1>3, <1>8 DEF vars
<1>9. QED
  BY <1>3, <1>4, <1>5, <1>6, <1>7, <1>8, Steps

-----------------------------------------------------------------------------
(* The invariant holds when no run has begun.                               *)
LEMMA InitInv == Init => IInv
<1> SUFFICES ASSUME Init PROVE IInv
  OBVIOUS
<1> USE OnlineAssumption DEF Init
<1>1. TypeInv
  BY DEF TypeInv, TypeOK, Operations, Answers, Idle, NotServed, NoEndpoint, Configurations
<1>2. OperationsInOrder /\ TrafficInv /\ OverlapInv /\ IdentityInv
  BY DEF OperationsInOrder, TrafficInv, HasPut, MovesTraffic, TrafficHasDeployment, NoEndpoint,
     Idle, Resources, OverlapInv, UnderWay, IdentityInv
<1>3. \A r \in Runs : BundleInv(r)
  BY DEF BundleInv, MovesTraffic
<1>4. \A r \in Runs : AloneInv(r)
  BY DEF AloneInv, HasEndpoint, HasPut, HasTraffic, MovesTraffic
<1>5. QED
  BY <1>1, <1>2, <1>3, <1>4 DEF IInv

(* Every step keeps the invariant.                                          *)
LEMMA NextInv == IInv /\ [Next]_vars => IInv'
<1> SUFFICES ASSUME IInv, [Next]_vars PROVE IInv'
  OBVIOUS
<1>1. TypeInv' /\ OperationsInOrder' /\ TrafficInv' /\ OverlapInv' /\ IdentityInv'
  BY TypeStep, OperationsStep, TrafficStep, OverlapStep, IdentityStep DEF IInv
<1>2. \A r \in Runs : BundleInv(r)'
  BY BundleStep DEF IInv
<1>3. ASSUME NEW r \in Runs \ overlapped' PROVE AloneInv(r)'
  BY <1>3, AloneStep DEF IInv
<1>4. QED
  BY <1>1, <1>2, <1>3 DEF IInv

(* The layers together hold in every state of a release.                    *)
THEOREM Inductive == Spec => []IInv
BY InitInv, NextInv, PTL DEF Spec

(* Every variable of a release keeps its type.                              *)
THEOREM TypeCorrect == Spec => []TypeOK
<1>1. IInv => TypeOK
  BY DEF IInv, TypeInv
<1>2. QED
  BY Inductive, <1>1, PTL

(* The traffic goes to deployments whose operation has succeeded only,      *)
(* although updates take effect after their run is gone.                    *)
THEOREM TrafficCorrect == Spec => []TrafficHasDeployment
<1>1. IInv => TrafficHasDeployment
  BY DEF IInv, TrafficInv
<1>2. QED
  BY Inductive, <1>1, PTL

(* A run beside which no other was under way is answered by the deployment  *)
(* it put, under the identity it gave the endpoint.                         *)
THEOREM InvokesOwnCorrect == Spec => []InvokesOwnRelease
<1>1. IInv => InvokesOwnRelease
  BY DEF IInv, AloneInv, InvokesOwnRelease
<1>2. QED
  BY Inductive, <1>1, PTL

(* However a run ends, its runner alive, the secret bundle is deleted.      *)
THEOREM NoBundleCorrect == Spec => []NoBundleLeft
<1>1. IInv => NoBundleLeft
  BY DEF IInv, BundleInv, NoBundleLeft, Finished
<1>2. QED
  BY Inductive, <1>1, PTL

(* Moving the traffic leaves the identity of the endpoint as it is, for a   *)
(* run beside which no other was, even when it is gone by then.             *)
THEOREM TrafficKeepsIdentityCorrect == Spec => TrafficKeepsIdentity
<1>1. ASSUME IInv, [Next]_vars,
             op[Endpoint].kind = "traffic", op[Endpoint].run \notin overlapped
      PROVE  endpoint'.identity = endpoint.identity
  <2> USE OnlineAssumption DEF IInv
  <2>1. read[op[Endpoint].run].identity = endpoint.identity
    BY <1>1 DEF IdentityInv
  <2>2. ASSUME NEW r \in Runs, FileStep(r) \/ WaitStep(r) \/ ReadEndpoint(r) \/ Invoke(r)
                 \/ EndStep(r)
        PROVE  endpoint' = endpoint
    BY <2>2 DEF FileStep, MakeFile, SetTrap, FetchBundle, AnnounceBundle, CleanUp, WaitStep,
       EndpointCreated, DeploymentPut, TrafficPut, Await, ReadEndpoint, Invoke, EndStep, Fail,
       RunnerDies, provider
  <2>3. ASSUME NEW r \in Runs, SubmitStep(r)
        PROVE  endpoint' = endpoint
    BY <1>1, <2>3, Submission
  <2>4. ASSUME NEW x \in Resources, ProviderStep(x)
        PROVE  endpoint'.identity = endpoint.identity
    <3>1. \/ endpoint' = endpoint
          \/ /\ op[Endpoint].run \in Runs
             /\ endpoint' = [read[op[Endpoint].run] EXCEPT
                               !.traffic = DeploymentOf[op[Endpoint].run]]
      BY <1>1, <2>4, Completion
    <3>2. \A r \in Runs : read[r] \in Configurations
      BY <1>1 DEF TypeInv, TypeOK
    <3>3. QED
      BY <2>1, <3>1, <3>2 DEF Configurations
  <2>5. CASE UNCHANGED vars
    BY <2>5 DEF vars
  <2>6. QED
    BY <1>1, <2>2, <2>3, <2>4, <2>5, Steps
<1>2. IInv /\ [Next]_vars =>
        [op[Endpoint].kind = "traffic" /\ op[Endpoint].run \notin overlapped
           => endpoint'.identity = endpoint.identity]_endpoint
  BY <1>1
<1>3. QED
  BY Inductive, <1>2, PTL DEF Spec, TrafficKeepsIdentity
-----------------------------------------------------------------------------
(* Releases come to an end: no step is repeated, and no run waits for an    *)
(* operation that will not end.                                             *)
Stage(r) ==
  CASE pc[r] = "start" -> 0
    [] pc[r] = "trap" -> 1
    [] pc[r] = "fetch" -> 2
    [] pc[r] = "validate" -> 3
    [] pc[r] = "createEndpoint" -> 4
    [] pc[r] = "endpointWait" -> 5
    [] pc[r] = "putDeployment" -> 6
    [] pc[r] = "deploymentWait" -> 7
    [] pc[r] = "readEndpoint" -> 8
    [] pc[r] = "putTraffic" -> 9
    [] pc[r] = "trafficWait" -> 10
    [] pc[r] = "invoke" -> 11
    [] pc[r] \in CleaningUp -> 12
    [] OTHER -> 13

Advance ==
  \/ \E r \in Runs :
       /\ Stage(r)' > Stage(r)
       /\ \A q \in Runs \ {r} : pc'[q] = pc[q]
  \/ \E x \in Resources :
       /\ op[x] # Idle /\ op'[x] = Idle
       /\ \A y \in Resources \ {x} : op'[y] = op[y]
       /\ pc' = pc

(* Every step takes a run to a later step of its release, its cleanup       *)
(* included, or ends an operation that a run has submitted: no update is    *)
(* submitted twice, and nothing follows the cleanup                         *)
(* (python-sdk-v2-online.yml:143-258).                                      *)
AlwaysFurther == [][Advance]_vars

Awaited(r, at, x, kind) ==
  pc[r] = at => (op[x].run = r /\ op[x].kind = kind) \/ ended[r] # "none"

(* The operation a run waits for is under way or has ended: those of other  *)
(* runs, present or gone, never take its place.                             *)
NeverStuck ==
  \A r \in Runs :
    /\ Awaited(r, "endpointWait", Endpoint, "create")
    /\ Awaited(r, "deploymentWait", DeploymentOf[r], "put")
    /\ Awaited(r, "trafficWait", Endpoint, "traffic")

(* A step of one run leaves the others where they are.                      *)
LEMMA OnlyOne ==
  ASSUME NEW r \in Runs, Step(r) \/ EndStep(r)
  PROVE  \E to : pc' = [pc EXCEPT ![r] = to]
<1> USE DEF Goto
<1>1. CASE FileStep(r) \/ EndStep(r)
  BY <1>1 DEF FileStep, MakeFile, SetTrap, FetchBundle, AnnounceBundle, CleanUp, EndStep, Fail,
     RunnerDies
<1>2. CASE WaitStep(r) \/ ReadEndpoint(r) \/ Invoke(r)
  BY <1>2 DEF WaitStep, EndpointCreated, DeploymentPut, TrafficPut, Await, ReadEndpoint, Invoke
<1>3. CASE SubmitStep(r)
  BY <1>3 DEF SubmitStep, CreateEndpoint, PutDeployment, PutTraffic, Submit
<1>4. QED
  BY <1>1, <1>2, <1>3 DEF Step, FileStep, WaitStep, SubmitStep

(* It takes the run to a later step.                                        *)
LEMMA RunGoesFurther ==
  ASSUME TypeOK, NEW r \in Runs, Step(r) \/ EndStep(r)
  PROVE  Stage(r)' > Stage(r)
<1> USE DEF TypeOK, Stage, Goto, CleaningUp, Finished
<1>1. CASE MakeFile(r) \/ SetTrap(r) \/ FetchBundle(r) \/ AnnounceBundle(r)
  BY <1>1 DEF MakeFile, SetTrap, FetchBundle, AnnounceBundle
<1>2. CASE CleanUp(r)
  BY <1>2 DEF CleanUp
<1>3. CASE WaitStep(r) \/ ReadEndpoint(r)
  BY <1>3 DEF WaitStep, EndpointCreated, DeploymentPut, TrafficPut, Await, ReadEndpoint
<1>4. CASE Invoke(r)
  BY <1>4 DEF Invoke
<1>5. CASE CreateEndpoint(r) \/ PutDeployment(r) \/ PutTraffic(r)
  BY <1>5 DEF CreateEndpoint, PutDeployment, PutTraffic, Submit
<1>6. CASE Fail(r) \/ RunnerDies(r)
  BY <1>6 DEF Fail, RunnerDies
<1>7. QED
  BY <1>1, <1>2, <1>3, <1>4, <1>5, <1>6 DEF Step, WaitStep, EndStep

(* Every step of the releases is progress, for any number of runs.          *)
THEOREM AlwaysFurtherCorrect == Spec => AlwaysFurther
<1>1. IInv /\ [Next]_vars => [Advance]_vars
  <2> SUFFICES ASSUME IInv, Next PROVE Advance
    OBVIOUS
  <2>1. ASSUME NEW r \in Runs, Step(r) \/ EndStep(r) PROVE Advance
    <3>1. \A q \in Runs \ {r} : pc'[q] = pc[q]
      BY <2>1, OnlyOne DEF IInv, TypeInv, TypeOK
    <3>2. QED
      BY <2>1, <3>1, RunGoesFurther DEF IInv, TypeInv, Advance
  <2>2. ASSUME NEW x \in Resources, ProviderStep(x) PROVE Advance
    BY <2>2 DEF ProviderStep, OperationFails, OperationSucceeds, IInv, TypeInv, Advance
  <2>3. QED
    BY <2>1, <2>2 DEF Next, EndStep, ProviderStep
<1>2. QED
  BY Inductive, <1>1, PTL DEF Spec, AlwaysFurther

(* A submission starts what its run waits for, and takes the place of       *)
(* nothing another run waits for, as nothing ran there.                     *)
LEMMA AwaitedSubmit ==
  ASSUME TypeInv, NEW q \in Runs, NEW y \in Resources, NEW new, NEW payload, NEW from, NEW to,
         Submit(q, y, new, payload, from, to),
         NEW r \in Runs, NEW at, NEW x \in Resources, NEW kind, Awaited(r, at, x, kind),
         at = to /\ r = q => x = y /\ kind = new
  PROVE  Awaited(r, at, x, kind)'
<1> USE DEF TypeInv, TypeOK, Submit, Goto, Awaited
<1>1. CASE r = q
  BY <1>1
<1>2. CASE r # q
  <2>1. pc'[r] = pc[r] /\ ended'[r] = ended[r]
    BY <1>2
  <2>2. op[y].run # r
    BY OnlineAssumption DEF Idle
  <2>3. x # y => op'[x] = op[x]
    OBVIOUS
  <2>4. QED
    BY <2>1, <2>2, <2>3
<1>3. QED
  BY <1>1, <1>2

(* The end of an operation is noted at the run that waits for it.           *)
LEMMA AwaitedEnd ==
  ASSUME TypeInv, NEW y \in Resources, ProviderStep(y),
         NEW r \in Runs, NEW at, NEW x \in Resources, NEW kind, Awaited(r, at, x, kind)
  PROVE  Awaited(r, at, x, kind)'
<1> USE DEF TypeInv, TypeOK
<1>1. /\ pc' = pc /\ op' = [op EXCEPT ![y] = Idle]
      /\ \E how \in {"ok", "bad"} : ended' = [ended EXCEPT ![op[y].run] = how]
  BY DEF ProviderStep, OperationFails, OperationSucceeds
<1>2. ended[r] # "none" \/ op[y].run = r => ended'[r] # "none"
  BY <1>1
<1>3. x # y => op'[x] = op[x]
  BY <1>1
<1>4. QED
  BY <1>1, <1>2, <1>3 DEF Awaited

(* A wait is not disturbed by any step.                                     *)
LEMMA NeverStuckStep == TypeInv /\ NeverStuck /\ [Next]_vars => NeverStuck'
<1> SUFFICES ASSUME TypeInv, NeverStuck, [Next]_vars PROVE NeverStuck'
  OBVIOUS
<1> USE DEF NeverStuck
<1>1. Endpoint \in Resources /\ \A r \in Runs : DeploymentOf[r] \in Resources
  BY OnlineAssumption DEF Resources
<1>2. ASSUME NEW r \in Runs, FileStep(r) \/ WaitStep(r) \/ ReadEndpoint(r) \/ Invoke(r)
               \/ EndStep(r)
      PROVE  NeverStuck'
  <2>1. op' = op /\ ended' = ended
    BY <1>2 DEF FileStep, MakeFile, SetTrap, FetchBundle, AnnounceBundle, CleanUp, WaitStep,
       EndpointCreated, DeploymentPut, TrafficPut, Await, ReadEndpoint, Invoke, EndStep, Fail,
       RunnerDies, provider
  <2>2. /\ \A q \in Runs \ {r} : pc'[q] = pc[q]
        /\ pc'[r] \notin {"endpointWait", "deploymentWait", "trafficWait"}
    BY <1>2 DEF FileStep, MakeFile, SetTrap, FetchBundle, AnnounceBundle, CleanUp, WaitStep,
       EndpointCreated, DeploymentPut, TrafficPut, Await, ReadEndpoint, Invoke, EndStep, Fail,
       RunnerDies, Goto, TypeInv, TypeOK
  <2>3. QED
    BY <2>1, <2>2 DEF Awaited
<1>3. ASSUME NEW q \in Runs, SubmitStep(q)
      PROVE  NeverStuck'
  <2> SUFFICES ASSUME NEW r \in Runs
               PROVE  /\ Awaited(r, "endpointWait", Endpoint, "create")'
                      /\ Awaited(r, "deploymentWait", DeploymentOf[r], "put")'
                      /\ Awaited(r, "trafficWait", Endpoint, "traffic")'
    OBVIOUS
  <2>1. CASE CreateEndpoint(q)
    BY <1>1, <2>1, AwaitedSubmit DEF CreateEndpoint
  <2>2. CASE PutDeployment(q)
    BY <1>1, <2>2, AwaitedSubmit DEF PutDeployment
  <2>3. CASE PutTraffic(q)
    BY <1>1, <2>3, AwaitedSubmit DEF PutTraffic
  <2>4. QED
    BY <1>3, <2>1, <2>2, <2>3 DEF SubmitStep
<1>4. ASSUME NEW x \in Resources, ProviderStep(x)
      PROVE  NeverStuck'
  BY <1>1, <1>4, AwaitedEnd
<1>5. CASE UNCHANGED vars
  BY <1>5 DEF vars, Awaited
<1>6. QED
  BY <1>2, <1>3, <1>4, <1>5, Steps

(* No run waits for what will not come, however the runs overlap.           *)
THEOREM NeverStuckCorrect == Spec => []NeverStuck
<1>1. Init => NeverStuck
  BY DEF Init, NeverStuck, Awaited
<1>2. IInv => TypeInv
  BY DEF IInv
<1>3. QED
  BY Inductive, <1>1, <1>2, NeverStuckStep, PTL DEF Spec
=============================================================================
