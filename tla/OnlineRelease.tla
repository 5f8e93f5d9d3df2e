---------------------------- MODULE OnlineRelease ----------------------------
(***************************************************************************)
(* A release of a private online endpoint, .github/workflows/python-sdk-v2-*)
(* online.yml and the scripts it runs: create_online_endpoint.py,          *)
(* create_online_deployment.py and test_online_endpoint.py, by several     *)
(* workflow runs on one endpoint.                                          *)
(*                                                                         *)
(* The endpoint is written whole by two scripts: one gives it an identity, *)
(* the other reads it, replaces its traffic and writes it back.  Updates   *)
(* are taken by their contract, as in BatchRelease.  A run also keeps a CA *)
(* bundle in a file of its runner, which outlives the run unless a step of *)
(* the run deletes it.                                                     *)
(***************************************************************************)
CONSTANTS Runs,           \* workflow runs
          NoRun,
          Deployments,    \* deployment names
          NoDeployment,
          DeploymentOf    \* the deployment_name of each run

ASSUME OnlineAssumption ==
  /\ NoRun \notin Runs /\ NoDeployment \notin Deployments
  /\ DeploymentOf \in [Runs -> Deployments]

Endpoint == "endpoint"
Resources == {Endpoint} \union Deployments

VARIABLES
  pc,           \* the step each run is at
  ended,        \* how the operation a run waits for ended
  read,         \* the endpoint as the run read it
  op,           \* provider: the operation running on each resource
  endpoint,     \* provider: the endpoint
  deployment,   \* provider: the run whose request each deployment holds
  served,       \* what answered the run's invocation
  bundle,       \* runner: the CA bundle file of each run
  announced,    \* runner: its path is an output of the step that made it
  overlapped    \* history: the runs that were under way beside another one

vars == <<pc, ended, read, op, endpoint, deployment, served, bundle, announced,
          overlapped>>
provider == <<op, endpoint, deployment>>
runner == <<bundle, announced>>

\* An endpoint: the run whose identity it has, and where its traffic goes.
Configurations ==
  [identity : Runs \union {NoRun}, traffic : Deployments \union {NoDeployment}]
NoEndpoint == [identity |-> NoRun, traffic |-> NoDeployment]
Idle == [run |-> NoRun, kind |-> "none", payload |-> NoEndpoint]
NotServed == [name |-> NoDeployment, by |-> NoRun, identity |-> NoRun]

\* cleanup: the always() step; dead: the runner is gone, no step runs.
Finished == {"done", "failed", "dead"}
CleaningUp == {"cleanup", "cleanupFailed"}

Init ==
  /\ pc = [r \in Runs |-> "start"]
  /\ ended = [r \in Runs |-> "none"]
  /\ read = [r \in Runs |-> NoEndpoint]
  /\ op = [x \in Resources |-> Idle]
  /\ endpoint = NoEndpoint
  /\ deployment = [d \in Deployments |-> NoRun]
  /\ served = [r \in Runs |-> NotServed]
  /\ bundle = [r \in Runs |-> "none"]
  /\ announced = [r \in Runs |-> FALSE]
  /\ overlapped = {}

-----------------------------------------------------------------------------
Goto(r, from, to) ==
  /\ pc[r] = from
  /\ pc' = [pc EXCEPT ![r] = to]

(* begin_create_or_update is accepted; the run waits for the poller.        *)
Submit(r, x, kind, payload, from, to) ==
  /\ Goto(r, from, to)
  /\ op[x] = Idle
  /\ op' = [op EXCEPT ![x] = [run |-> r, kind |-> kind, payload |-> payload]]
  /\ ended' = [ended EXCEPT ![r] = "none"]
  /\ UNCHANGED <<read, endpoint, deployment, served, runner, overlapped>>

(* The wait for the run's own operation is over.                            *)
Await(r, from, to) ==
  /\ Goto(r, from, to)
  /\ ended[r] = "ok"
  /\ UNCHANGED <<ended, read, provider, served, runner, overlapped>>

UnderWay == {q \in Runs : pc[q] \notin {"start"} \union Finished}

(* The step "Prepare private endpoint CA bundle": mktemp, then the trap that*)
(* deletes the file, the secret is fetched and validated, the path is       *)
(* announced and the trap lifted.                                           *)
MakeFile(r) ==
  /\ Goto(r, "start", "trap")
  /\ bundle' = [bundle EXCEPT ![r] = "empty"]
  /\ overlapped' = overlapped \union
       (IF UnderWay = {} THEN {} ELSE UnderWay \union {r})
  /\ UNCHANGED <<ended, read, provider, served, announced>>

SetTrap(r) ==
  /\ Goto(r, "trap", "fetch")
  /\ UNCHANGED <<ended, read, provider, served, runner, overlapped>>

FetchBundle(r) ==
  /\ Goto(r, "fetch", "validate")
  /\ bundle' = [bundle EXCEPT ![r] = "secret"]
  /\ UNCHANGED <<ended, read, provider, served, announced, overlapped>>

AnnounceBundle(r) ==
  /\ Goto(r, "validate", "createEndpoint")
  /\ announced' = [announced EXCEPT ![r] = TRUE]
  /\ UNCHANGED <<ended, read, provider, served, bundle, overlapped>>

(* create_online_endpoint.run.  Its request has an identity and no traffic. *)
CreateEndpoint(r) ==
  Submit(r, Endpoint, "create", [identity |-> r, traffic |-> NoDeployment],
         "createEndpoint", "endpointWait")
EndpointCreated(r) == Await(r, "endpointWait", "putDeployment")

(* create_online_deployment.run: the deployment...                          *)
PutDeployment(r) ==
  Submit(r, DeploymentOf[r], "put", NoEndpoint, "putDeployment", "deploymentWait")
\* Slip: the traffic is moved while the deployment is still being made.
MovesTrafficAtOnce(r) ==
  /\ Goto(r, "deploymentWait", "readEndpoint")
  /\ UNCHANGED <<ended, read, provider, served, runner, overlapped>>
DeploymentPut(r) == Await(r, "deploymentWait", "readEndpoint")

\* Slip: the endpoint is not read but made anew, without its identity.
MakesEndpointAnew(r) == NoEndpoint
TakeEndpoint(r) == endpoint

(* ...then the endpoint is read, as it is at that moment...                 *)
ReadEndpoint(r) ==
  /\ Goto(r, "readEndpoint", "putTraffic")
  /\ read' = [read EXCEPT ![r] = TakeEndpoint(r)]
  /\ UNCHANGED <<ended, provider, served, runner, overlapped>>

\* Slip: the argument next to it, endpoint_name, is taken.
EndpointAsTraffic(r) == Endpoint
NewTraffic(r) == DeploymentOf[r]

(* ...and written back, with all its traffic on the deployment.             *)
PutTraffic(r) ==
  Submit(r, Endpoint, "traffic", [read[r] EXCEPT !.traffic = NewTraffic(r)],
         "putTraffic", "trafficWait")
TrafficPut(r) == Await(r, "trafficWait", "invoke")

(* test_online_endpoint.run: the bundle is used, and the request goes where *)
(* the traffic goes; without traffic it fails.                              *)
Invoke(r) ==
  /\ bundle[r] = "secret"
  /\ IF endpoint.traffic = NoDeployment
     THEN Goto(r, "invoke", "cleanupFailed") /\ UNCHANGED served
     ELSE /\ Goto(r, "invoke", "cleanup")
          /\ served' = [served EXCEPT ![r] =
               [name |-> endpoint.traffic, by |-> deployment[endpoint.traffic],
                identity |-> endpoint.identity]]
  /\ UNCHANGED <<ended, read, provider, runner, overlapped>>

\* Slip: the cleanup step runs after success only.
CleansUpOnSuccess(r) ==
  /\ \/ Goto(r, "cleanup", "done") /\ bundle' = [bundle EXCEPT ![r] = "none"]
     \/ Goto(r, "cleanupFailed", "failed") /\ UNCHANGED bundle
  /\ UNCHANGED <<ended, read, provider, served, announced, overlapped>>

(* "Remove private endpoint CA bundle", whatever happened before.  It knows *)
(* the path only if it was announced.                                       *)
CleanUp(r) ==
  /\ Goto(r, "cleanup", "done") \/ Goto(r, "cleanupFailed", "failed")
  /\ bundle' = IF announced[r] THEN [bundle EXCEPT ![r] = "none"] ELSE bundle
  /\ UNCHANGED <<ended, read, provider, served, announced, overlapped>>

(* A step fails or the run is cancelled.  Once it is set, the trap deletes  *)
(* the file.                                                                *)
Fail(r) ==
  /\ pc[r] \notin {"start"} \union CleaningUp \union Finished
  /\ pc' = [pc EXCEPT ![r] = "cleanupFailed"]
  /\ bundle' = IF pc[r] \in {"fetch", "validate"}
               THEN [bundle EXCEPT ![r] = "none"] ELSE bundle
  /\ UNCHANGED <<ended, read, provider, served, announced, overlapped>>

(* The runner dies; no further step of the run is executed.                 *)
RunnerDies(r) ==
  /\ pc[r] \notin {"start"} \union Finished
  /\ pc' = [pc EXCEPT ![r] = "dead"]
  /\ UNCHANGED <<ended, read, provider, served, runner, overlapped>>

(* Provider: an operation fails and leaves the resource as it was.          *)
OperationFails(x) ==
  /\ op[x] # Idle
  /\ ended' = [ended EXCEPT ![op[x].run] = "bad"]
  /\ op' = [op EXCEPT ![x] = Idle]
  /\ UNCHANGED <<pc, read, endpoint, deployment, served, runner, overlapped>>

(* Provider: it succeeds.  The endpoint becomes what the request says; one  *)
(* that is put without traffic keeps what it has or loses it.               *)
OperationSucceeds(x) ==
  /\ op[x] # Idle
  /\ \/ /\ op[x].kind = "create"
        /\ endpoint' \in {op[x].payload, [op[x].payload EXCEPT !.traffic = endpoint.traffic]}
        /\ UNCHANGED deployment
     \/ /\ op[x].kind = "traffic"
        /\ endpoint' = op[x].payload
        /\ UNCHANGED deployment
     \/ /\ op[x].kind = "put"
        /\ deployment' = [deployment EXCEPT ![x] = op[x].run]
        /\ UNCHANGED endpoint
  /\ ended' = [ended EXCEPT ![op[x].run] = "ok"]
  /\ op' = [op EXCEPT ![x] = Idle]
  /\ UNCHANGED <<pc, read, served, runner, overlapped>>

Step(r) ==
  \/ MakeFile(r) \/ SetTrap(r) \/ FetchBundle(r) \/ AnnounceBundle(r)
  \/ CreateEndpoint(r) \/ EndpointCreated(r)
  \/ PutDeployment(r) \/ DeploymentPut(r)
  \/ ReadEndpoint(r) \/ PutTraffic(r) \/ TrafficPut(r)
  \/ Invoke(r) \/ CleanUp(r)

Next ==
  \/ \E r \in Runs : Step(r) \/ Fail(r) \/ RunnerDies(r)
  \/ \E x \in Resources : OperationFails(x) \/ OperationSucceeds(x)

Spec == Init /\ [][Next]_vars

-----------------------------------------------------------------------------
(* Properties                                                               *)

(* Every variable has its type.                                             *)
TypeOK ==
  /\ pc \in [Runs -> {"start", "trap", "fetch", "validate", "createEndpoint", "endpointWait",
                      "putDeployment", "deploymentWait", "readEndpoint", "putTraffic",
                      "trafficWait", "invoke"} \union CleaningUp \union Finished]
  /\ ended \in [Runs -> {"none", "ok", "bad"}]
  /\ read \in [Runs -> Configurations]
  /\ endpoint \in Configurations
  /\ \A x \in Resources : op[x].payload \in Configurations
  /\ deployment \in [Deployments -> Runs \union {NoRun}]
  /\ bundle \in [Runs -> {"none", "empty", "secret"}]
  /\ announced \in [Runs -> BOOLEAN]
  /\ overlapped \subseteq Runs

(* Traffic only ever goes to a deployment whose operation has succeeded,    *)
(* although the update of the traffic may take effect after its run is gone *)
(* (create_online_deployment.py:73-88).                                     *)
TrafficHasDeployment ==
  endpoint.traffic # NoDeployment => deployment[endpoint.traffic] # NoRun

(* An invocation is answered by what the run released, on an endpoint with  *)
(* the identity the run gave it, if no other run was under way beside it.   *)
InvokesOwnRelease ==
  \A r \in Runs \ overlapped : served[r] # NotServed =>
    served[r] = [name |-> DeploymentOf[r], by |-> r, identity |-> r]

(* Moving the traffic does not change the identity, although the endpoint   *)
(* is written back whole (create_online_deployment.py:82-84), the run may be*)
(* gone when its update takes effect, and each run gives the endpoint an    *)
(* identity of its own; unless another run was under way beside it.         *)
TrafficKeepsIdentity ==
  [][op[Endpoint].kind = "traffic" /\ op[Endpoint].run \notin overlapped
       => endpoint'.identity = endpoint.identity]_endpoint

(* A run that has ended has left no CA bundle behind, wherever it failed or *)
(* was cancelled, unless its runner died (python-sdk-v2-online.yml:143-172, *)
(* 249-258).  An empty file may stay, when the run was cancelled before the *)
(* trap was set.                                                            *)
NoBundleLeft ==
  \A r \in Runs : pc[r] \in Finished \ {"dead"} => bundle[r] # "secret"
=============================================================================
