---------------------------- MODULE BatchRelease ----------------------------
(***************************************************************************)
(* A release of a batch endpoint, .github/workflows/python-sdk-v2-batch.yml*)
(* and the scripts it runs one after the other: create_batch_endpoint.py,  *)
(* create_batch_deployment.py and test_batch_endpoint.py, by several       *)
(* workflow runs on one endpoint.  The workflow names no concurrency       *)
(* group, so runs may overlap.                                             *)
(*                                                                         *)
(* Each update is a call of the protocol of Provisioning.tla, taken here   *)
(* by what it promises (UpdateContract): an operation is accepted while no *)
(* other runs on the same resource, ends by itself even when its run is    *)
(* gone, and its run goes on after it only when it succeeded.  What a run  *)
(* reads back is the resource as it is then, whoever wrote it last.        *)
(***************************************************************************)
CONSTANTS Runs,           \* workflow runs
          NoRun,
          Deployments,    \* deployment names
          NoDeployment,
          DeploymentOf,   \* the deployment_name of each run
          Checked         \* the environment and scoring script of each run

ASSUME BatchAssumption ==
  /\ NoRun \notin Runs /\ NoDeployment \notin Deployments
  /\ DeploymentOf \in [Runs -> Deployments]
  /\ DOMAIN Checked = Runs

Endpoint == "endpoint"
Resources == {Endpoint} \union Deployments

VARIABLES
  pc,           \* the step each run is at
  ended,        \* how the operation a run waits for ended
  op,           \* provider: the operation running on each resource
  default,      \* provider: defaults.deployment_name of the endpoint
  deployment,   \* provider: what each deployment persists
  live,         \* what the run read back of its deployment
  served,       \* the deployment the run's invocation was routed to
  verified,     \* history: the deployments some run has verified
  overlapped    \* history: the runs that were under way beside another one

vars == <<pc, ended, op, default, deployment, live, served, verified, overlapped>>
providerVars == <<op, default, deployment>>

Idle == [run |-> NoRun, kind |-> "none"]
\* A persisted deployment: the run whose request it holds, and whether the
\* environment and the code configuration of that request were kept.
Persisted == [run : Runs, kept : BOOLEAN]
Absent == [run |-> NoRun, kept |-> FALSE]
NotServed == [name |-> NoDeployment, what |-> Absent]

Finished == {"done", "failed"}

Init ==
  /\ pc = [r \in Runs |-> "start"]
  /\ ended = [r \in Runs |-> "none"]
  /\ op = [x \in Resources |-> Idle]
  /\ default = NoDeployment
  /\ deployment = [d \in Deployments |-> Absent]
  /\ live = [r \in Runs |-> Absent]
  /\ served = [r \in Runs |-> NotServed]
  /\ verified = {}
  /\ overlapped = {}

-----------------------------------------------------------------------------
Goto(r, from, to) ==
  /\ pc[r] = from
  /\ pc' = [pc EXCEPT ![r] = to]

(* begin_create_or_update is accepted; the run waits for the poller.        *)
Submit(r, x, kind, from, to) ==
  /\ Goto(r, from, to)
  /\ op[x] = Idle
  /\ op' = [op EXCEPT ![x] = [run |-> r, kind |-> kind]]
  /\ ended' = [ended EXCEPT ![r] = "none"]
  /\ UNCHANGED <<default, deployment, live, served, verified, overlapped>>

(* The wait for the run's own operation is over.                            *)
Await(r, from, to) ==
  /\ Goto(r, from, to)
  /\ ended[r] = "ok"
  /\ UNCHANGED <<ended, op, default, deployment, live, served, verified, overlapped>>

UnderWay == {q \in Runs : pc[q] \notin {"start"} \union Finished}

(* The workflow run begins: checkout, sign-in and installation.             *)
Start(r) ==
  /\ Goto(r, "start", "createEndpoint")
  /\ overlapped' = overlapped \union
       (IF UnderWay = {} THEN {} ELSE UnderWay \union {r})
  /\ UNCHANGED <<ended, providerVars, live, served, verified>>

(* create_batch_endpoint.run.                                               *)
CreateEndpoint(r) ==
  Submit(r, Endpoint, "create", "createEndpoint", "endpointWait")
EndpointCreated(r) == Await(r, "endpointWait", "putDeployment")

(* create_batch_deployment.run up to the update of the deployment.          *)
PutDeployment(r) ==
  Submit(r, DeploymentOf[r], "put", "putDeployment", "deploymentWait")
\* Slip: the readback and its verification are skipped.
SkipsVerification(r) == Await(r, "deploymentWait", "putDefault")
DeploymentPut(r) == Await(r, "deploymentWait", "readBack")

(* Slip: any deployment that was read back will do.                         *)
AcceptsAnything(r) == live[r] # Absent

(* verify_live_deployment, on what the run has read: the environment, a     *)
(* code configuration and the scoring script, not the model.                *)
Matches(r) ==
  /\ live[r].kept
  /\ Checked[live[r].run] = Checked[r]

(* The final read of the update: the deployment, once nothing runs on it.   *)
ReadBack(r) ==
  /\ Goto(r, "readBack", "verify")
  /\ op[DeploymentOf[r]] = Idle
  /\ live' = [live EXCEPT ![r] = deployment[DeploymentOf[r]]]
  /\ UNCHANGED <<ended, providerVars, served, verified, overlapped>>

(* Slip: a mismatch is reported and the release goes on.                     *)
VerifyOnlyWarns(r) ==
  /\ Goto(r, "verify", "putDefault")
  /\ verified' = IF Matches(r) THEN verified \union {DeploymentOf[r]} ELSE verified
  /\ UNCHANGED <<ended, providerVars, live, served, overlapped>>

(* Slip: a mismatch is taken for a delay, and the deployment is read again.  *)
ReadsUntilMatch(r) ==
  /\ pc[r] = "verify"
  /\ pc' = [pc EXCEPT ![r] = IF Matches(r) THEN "putDefault" ELSE "readBack"]
  /\ verified' = IF Matches(r) THEN verified \union {DeploymentOf[r]} ELSE verified
  /\ UNCHANGED <<ended, providerVars, live, served, overlapped>>

(* A mismatch raises, and the endpoint is left as it is.                    *)
Verify(r) ==
  /\ pc[r] = "verify"
  /\ \/ /\ Matches(r)
        /\ pc' = [pc EXCEPT ![r] = "putDefault"]
        /\ verified' = verified \union {DeploymentOf[r]}
     \/ /\ ~Matches(r)
        /\ pc' = [pc EXCEPT ![r] = "failed"]
        /\ UNCHANGED verified
  /\ UNCHANGED <<ended, providerVars, live, served, overlapped>>

\* Slip: the argument next to it, endpoint_name, is taken.
EndpointAsDefault(r) == Endpoint
NewDefault(r) == DeploymentOf[r]

(* The rest of create_batch_deployment.run: the endpoint is read, given the *)
(* default deployment and written back; the default is all that is changed. *)
PutDefault(r) == Submit(r, Endpoint, "default", "putDefault", "defaultWait")
DefaultPut(r) == Await(r, "defaultWait", "invoke")

(* test_batch_endpoint.run: invoke names no deployment, so the provider     *)
(* routes it to the default one; without one it refuses.                    *)
Invoke(r) ==
  /\ IF default = NoDeployment
     THEN Goto(r, "invoke", "failed") /\ UNCHANGED served
     ELSE /\ Goto(r, "invoke", "job")
          /\ served' = [served EXCEPT
                          ![r] = [name |-> default, what |-> deployment[default]]]
  /\ UNCHANGED <<ended, providerVars, live, verified, overlapped>>

(* wait_for_job: the workflow succeeds with the scoring job; any other end  *)
(* of the job is a failure.                                                 *)
JobCompletes(r) ==
  /\ Goto(r, "job", "done")
  /\ UNCHANGED <<ended, providerVars, live, served, verified, overlapped>>

(* Any step fails or the run is cancelled; what was accepted goes on.       *)
Fail(r) ==
  /\ pc[r] \notin {"start"} \union Finished
  /\ pc' = [pc EXCEPT ![r] = "failed"]
  /\ UNCHANGED <<ended, providerVars, live, served, verified, overlapped>>

(* Provider: an operation fails and leaves the resource as it was.          *)
OperationFails(x) ==
  /\ op[x] # Idle
  /\ ended' = [ended EXCEPT ![op[x].run] = "bad"]
  /\ op' = [op EXCEPT ![x] = Idle]
  /\ UNCHANGED <<pc, default, deployment, live, served, verified, overlapped>>

(* Provider: an operation succeeds.  An endpoint that is put without        *)
(* defaults keeps the one it has or loses it; a deployment may be persisted *)
(* without the environment or the code configuration that was asked for.    *)
OperationSucceeds(x) ==
  /\ op[x] # Idle
  /\ \/ /\ op[x].kind = "create"
        /\ default' \in {default, NoDeployment}
        /\ UNCHANGED deployment
     \/ /\ op[x].kind = "default"
        /\ default' = NewDefault(op[x].run)
        /\ UNCHANGED deployment
     \/ /\ op[x].kind = "put"
        /\ \E kept \in BOOLEAN :
             deployment' = [deployment EXCEPT ![x] = [run |-> op[x].run, kept |-> kept]]
        /\ UNCHANGED default
  /\ ended' = [ended EXCEPT ![op[x].run] = "ok"]
  /\ op' = [op EXCEPT ![x] = Idle]
  /\ UNCHANGED <<pc, live, served, verified, overlapped>>

Step(r) ==
  \/ Start(r) \/ CreateEndpoint(r) \/ EndpointCreated(r)
  \/ PutDeployment(r) \/ DeploymentPut(r) \/ ReadBack(r) \/ Verify(r)
  \/ PutDefault(r) \/ DefaultPut(r) \/ Invoke(r) \/ JobCompletes(r)

Next ==
  \/ \E r \in Runs : Step(r) \/ Fail(r)
  \/ \E x \in Resources : OperationFails(x) \/ OperationSucceeds(x)

Spec == Init /\ [][Next]_vars

(* The scripts run and the provider finishes what it accepted; for the run  *)
(* whose operation fails, the exception is certain.                         *)
Fairness ==
  /\ \A r \in Runs : WF_vars(Step(r)) /\ WF_vars(ended[r] = "bad" /\ Fail(r))
  /\ \A x \in Resources : WF_vars(OperationFails(x) \/ OperationSucceeds(x))

FairSpec == Spec /\ Fairness

-----------------------------------------------------------------------------
(* Properties                                                               *)

(* Every variable has its type.                                             *)
TypeOK ==
  /\ pc \in [Runs -> {"start", "createEndpoint", "endpointWait", "putDeployment",
                      "deploymentWait", "readBack", "verify", "putDefault",
                      "defaultWait", "invoke", "job"} \union Finished]
  /\ ended \in [Runs -> {"none", "ok", "bad"}]
  /\ op \in [Resources -> {Idle} \union [run : Runs, kind : {"create", "put", "default"}]]
  /\ default \in Deployments \union {NoDeployment}
  /\ deployment \in [Deployments -> {Absent} \union Persisted]
  /\ live \in [Runs -> {Absent} \union Persisted]
  /\ served \in [Runs -> {NotServed}
                       \union [name : Deployments, what : {Absent} \union Persisted]]
  /\ verified \subseteq Deployments
  /\ overlapped \subseteq Runs

(* The endpoint's default is only ever a deployment that a run has read     *)
(* back and verified, although the update that sets it may take effect      *)
(* after its run is gone (create_batch_deployment.py:1051-1072).            *)
DefaultWasVerified == default # NoDeployment => default \in verified

Released(r) == [name |-> DeploymentOf[r], what |-> [run |-> r, kept |-> TRUE]]

(* An invocation is scored by the deployment the run released, with the     *)
(* configuration it asked for and verified.  The code does not give this:   *)
(* the default can change between the two scripts.                          *)
InvokesWhatItVerified ==
  \A r \in Runs : served[r] # NotServed => served[r] = Released(r)

(* A run beside which no other was under way does invoke what it verified,  *)
(* although operations of runs that are gone may still take effect, and     *)
(* although the verification does not tell all configurations apart.        *)
AloneInvokesWhatItVerified ==
  \A r \in Runs \ overlapped : served[r] # NotServed => served[r] = Released(r)

(* Overlapping runs may be routed to each other's deployment, but one whose *)
(* name a single run releases never serves unless it was verified.          *)
NeverServesUnverified ==
  \A r, q \in Runs :
    /\ served[r] # NotServed /\ served[r].name = DeploymentOf[q]
    /\ \A p \in Runs \ {q} : DeploymentOf[p] # DeploymentOf[q]
    => served[r] = Released(q)

(* Every release that starts ends.                                          *)
EveryReleaseEnds == \A r \in Runs : (pc[r] # "start") ~> (pc[r] \in Finished)
=============================================================================
