---------------------------- MODULE TerraformState ----------------------------
(***************************************************************************)
(* Infrastructure by Terraform on one state: the Azure Pipelines templates *)
(* terraform-state-bootstrap.yml and terraform-deploy.yml (templates/infra)*)
(* and the two actions, apply and destroy, of the GitHub workflow          *)
(* tf-gha-install-terraform.yml.  Runs are interleaved; each can fail or be*)
(* cancelled between two commands, and die while Terraform is at work.     *)
(*                                                                         *)
(* External: Azure refuses writes to a group that is being deleted, and a  *)
(* role takes effect some time after its assignment; Terraform locks the   *)
(* state, refuses a saved plan made of another version of it, and cannot   *)
(* create what exists or delete a workspace that has endpoints.            *)
(***************************************************************************)
EXTENDS Integers, Sequences, FiniteSets

CONSTANTS
  Deploys,     \* runs of the two templates
  Applies,     \* runs of the workflow with TFAction apply
  Destroys,    \* runs of the workflow with TFAction destroy
  NoRun,
  Endpoints,   \* endpoints other workflows create in the workspace
  NOutputs,    \* outputs a deployment reads; 4 in the code
  MaxAtOnce    \* bound on the runs under way at one time

Runs == Deploys \union Applies \union Destroys

ASSUME TerraformAssumption ==
  /\ NoRun \notin Runs
  /\ Deploys \intersect (Applies \union Destroys) = {}
  /\ Applies \intersect Destroys = {}
  /\ NOutputs \in Nat \ {0} /\ MaxAtOnce \in Nat \ {0}

VARIABLES
  pc,         \* the command each run is at
  granting,   \* the deployments that are given a cicdPrincipalObjectId
  storage,    \* Azure: the group, account and container of the state
  access,     \* Azure: the role of the runs' principal on the account
  state,      \* the state: its version, lock, and the run it records
  infra,      \* Azure: the run whose configuration the resources have
  endpoints,  \* Azure: the endpoints of the workspace
  seen,       \* the version of the state a run's last plan was made of, and its record
  listed,     \* the endpoints a destroy has still to delete
  out,        \* the outputs a deployment has read
  denied,     \* history: the runs whose init had no access to the state
  cut,        \* history: whether a run has ended in the wait for its role
  overlapped  \* history: the runs that were under way beside another one

azure == <<storage, access, infra, endpoints>>
local == <<granting, seen, listed, out>>
history == <<denied, cut, overlapped>>
vars == <<pc, azure, state, local, history>>

NoStorage == [group |-> "absent", account |-> FALSE, container |-> FALSE]

\* dead: the runner is gone while Terraform was at work.
Finished == {"done", "failed", "dead"}
UnderWay == {r \in Runs : pc[r] \notin {"start"} \union Finished}

Init ==
  /\ pc = [r \in Runs |-> "start"]
  /\ granting \in SUBSET Deploys
  /\ storage = NoStorage
  /\ access = "none"
  /\ state = [version |-> 0, lock |-> NoRun, records |-> NoRun]
  /\ infra = NoRun
  /\ endpoints = [e \in Endpoints |-> "none"]
  /\ seen = [r \in Runs |-> [version |-> 0, records |-> NoRun]]
  /\ listed = [r \in Runs |-> {}]
  /\ out = [r \in Runs |-> <<>>]
  /\ denied = {} /\ cut = FALSE /\ overlapped = {}

-----------------------------------------------------------------------------
Goto(r, from, to) ==
  /\ pc[r] = from
  /\ pc' = [pc EXCEPT ![r] = to]

Writable == storage.group = "present"
Readable == storage.container /\ access = "effective"

(* The run begins.  The template looks whether the group exists; the        *)
(* workflow creates it in any case.                                         *)
Start(r) ==
  /\ Cardinality(UnderWay) < MaxAtOnce
  /\ Goto(r, "start",
          IF r \in Deploys /\ storage.group # "absent" THEN "showAccount" ELSE "createGroup")
  /\ overlapped' = overlapped \union
       (IF UnderWay = {} THEN {} ELSE UnderWay \union {r})
  /\ UNCHANGED <<azure, state, local, denied, cut>>

CreateGroup(r) ==
  /\ storage.group # "deleting"
  /\ Goto(r, "createGroup", IF r \in Deploys THEN "showAccount" ELSE "createAccount")
  /\ storage' = [storage EXCEPT !.group = "present"]
  /\ UNCHANGED <<access, state, infra, endpoints, local, history>>

ShowAccount(r) ==
  /\ Goto(r, "showAccount", IF storage.account THEN "updateAccount" ELSE "createAccount")
  /\ UNCHANGED <<azure, state, local, history>>

CreateAccount(r) ==
  /\ Writable
  /\ Goto(r, "createAccount", IF r \in Deploys THEN "listRole" ELSE "createContainer")
  /\ storage' = [storage EXCEPT !.account = TRUE]
  /\ UNCHANGED <<access, state, infra, endpoints, local, history>>

UpdateAccount(r) ==
  /\ Writable /\ storage.account
  /\ Goto(r, "updateAccount", "listRole")
  /\ UNCHANGED <<azure, state, local, history>>

(* The template does nothing about the role without a principal to give it  *)
(* to; else it assigns the role if it is not assigned, and waits only then. *)
ListRole(r) ==
  /\ Goto(r, "listRole",
          IF r \in granting /\ access = "none" THEN "createRole" ELSE "createContainer")
  /\ UNCHANGED <<azure, state, local, history>>

\* Slip: the wait is left out.
AssignsWithoutWait(r) ==
  /\ storage.account
  /\ Goto(r, "createRole", IF r \in Deploys THEN "createContainer" ELSE "init")
  /\ access' = IF access = "none" THEN "assigned" ELSE access
  /\ UNCHANGED <<storage, state, infra, endpoints, local, history>>

(* The workflow assigns it after it has made the container, and goes on when*)
(* the assignment fails.                                                    *)
CreateRole(r) ==
  /\ Goto(r, "createRole", "wait")
  /\ \/ /\ storage.account
        /\ access' = IF access = "none" THEN "assigned" ELSE access
     \/ r \notin Deploys /\ UNCHANGED access
  /\ UNCHANGED <<storage, state, infra, endpoints, local, history>>

(* The delay is taken to be as long as the propagation of a role that was   *)
(* assigned before it.                                                      *)
Wait(r) ==
  /\ access # "assigned"
  /\ Goto(r, "wait", IF r \in Deploys THEN "createContainer" ELSE "init")
  /\ UNCHANGED <<azure, state, local, history>>

(* The template puts the container through the management API, the workflow *)
(* with its access to the data, before it has assigned the role.            *)
CreateContainer(r) ==
  /\ storage.account
  /\ IF r \in Deploys THEN Writable ELSE access = "effective"
  /\ Goto(r, "createContainer", IF r \in Deploys THEN "init" ELSE "createRole")
  /\ storage' = [storage EXCEPT !.container = TRUE]
  /\ UNCHANGED <<access, state, infra, endpoints, local, history>>

-----------------------------------------------------------------------------
(* terraform init and validate.                                             *)
TerraformInit(r) ==
  /\ Readable
  /\ Goto(r, "init", "plan")
  /\ UNCHANGED <<azure, state, local, history>>

InitDenied(r) ==
  /\ access # "effective"
  /\ Goto(r, "init", "failed")
  /\ denied' = denied \union {r}
  /\ UNCHANGED <<azure, state, local, cut, overlapped>>

\* What a plan is made of.
Refreshed == [version |-> state.version, records |-> state.records]

(* terraform plan -out takes the lock and returns it; destroying, the plan  *)
(* is made and not used.  With apply: false a deployment ends here.         *)
Plan(r) ==
  /\ Readable /\ state.lock = NoRun
  /\ \/ r \in Deploys /\ Goto(r, "plan", "done")
     \/ Goto(r, "plan", IF r \in Destroys THEN "listEndpoints" ELSE "apply")
  /\ seen' = [seen EXCEPT ![r] = Refreshed]
  /\ UNCHANGED <<azure, state, granting, listed, out, history>>

\* Slip: apply is not given the plan that was saved.
AppliesWithoutPlan(r) ==
  /\ Readable /\ state.lock = NoRun
  /\ Goto(r, "apply", "applying")
  /\ state' = [state EXCEPT !.lock = r]
  /\ UNCHANGED <<azure, local, history>>

(* terraform apply of the saved plan.                                       *)
StartApply(r) ==
  /\ Readable /\ state.lock = NoRun
  /\ state.version = seen[r].version
  /\ Goto(r, "apply", "applying")
  /\ state' = [state EXCEPT !.lock = r]
  /\ UNCHANGED <<azure, local, history>>

\* Slip: a backup of the state is put back.
RestoresBackup(records) ==
  [version |-> state.version - 1, lock |-> NoRun, records |-> records]
Saved(records) ==
  [version |-> state.version + 1, lock |-> NoRun, records |-> records]

\* A command that ends saves the state and returns the lock, if it still has it.
Left(r, records) == IF state.lock = r THEN Saved(records) ELSE state

(* The plan creates what its state does not record, and updates the rest.   *)
Applicable(r) == (seen[r].records = NoRun) = (infra = NoRun)

(* Apply ends well, unless the state's storage is gone by then.             *)
ApplyEnds(r) ==
  /\ Applicable(r)
  /\ Goto(r, "applying", IF state.lock # r THEN "failed"
                         ELSE IF r \in Deploys THEN "outputs" ELSE "configure")
  /\ infra' = r
  /\ state' = Left(r, r)
  /\ UNCHANGED <<storage, access, endpoints, local, history>>

(* It fails: nothing is done, or the resources are the run's in part, and so*)
(* the state says.                                                          *)
ApplyFails(r) ==
  /\ Goto(r, "applying", "failed")
  /\ \/ UNCHANGED infra /\ state' = Left(r, state.records)
     \/ Applicable(r) /\ infra' = r /\ state' = Left(r, r)
  /\ UNCHANGED <<storage, access, endpoints, local, history>>

\* Slip: the outputs are taken from the plan.
PublishesPlanned(r) == [version |-> seen[r].version, run |-> seen[r].records]
Output(r) == [version |-> state.version, run |-> state.records]

(* terraform output, one call per output and none of them with the lock.    *)
ReadOutput(r) ==
  /\ storage.container /\ access = "effective" /\ state.records # NoRun
  /\ pc[r] = "outputs"
  /\ out' = [out EXCEPT ![r] = Append(@, Output(r))]
  /\ pc' = [pc EXCEPT ![r] = IF Len(out'[r]) = NOutputs THEN "done" ELSE "outputs"]
  /\ UNCHANGED <<azure, state, granting, seen, listed, history>>

(* "Configure Workspace Auth" and the grant on the workspace's storage, by  *)
(* names made of the inputs; a grant that fails is passed over.             *)
Configure(r) ==
  /\ infra # NoRun
  /\ Goto(r, "configure", "done")
  /\ UNCHANGED <<azure, state, local, history>>

-----------------------------------------------------------------------------
(* "Delete Azure ML Endpoints", if the workspace is found.  A list that     *)
(* fails is empty.                                                          *)
ListEndpoints(r) ==
  /\ pc[r] = "listEndpoints"
  /\ \/ /\ infra # NoRun
        /\ pc' = [pc EXCEPT ![r] = "deleteEndpoints"]
        /\ \E found \in SUBSET {e \in Endpoints : endpoints[e] # "none"} :
             listed' = [listed EXCEPT ![r] = found]
     \/ /\ pc' = [pc EXCEPT ![r] = "destroy"]
        /\ UNCHANGED listed
  /\ UNCHANGED <<azure, state, granting, seen, out, history>>

(* --no-wait, and a failure is passed over.                                 *)
DeleteEndpoint(r) ==
  /\ pc[r] = "deleteEndpoints"
  /\ \E e \in listed[r] :
       /\ listed' = [listed EXCEPT ![r] = @ \ {e}]
       /\ endpoints' \in {endpoints} \union
            {[endpoints EXCEPT ![e] = "deleting"] : x \in {e} \intersect
               {d \in Endpoints : endpoints[d] # "none"}}
  /\ UNCHANGED <<pc, storage, access, infra, state, granting, seen, out, history>>

(* The wait of 120 seconds, whatever the deletions have come to.            *)
EndpointsDeleted(r) ==
  /\ listed[r] = {}
  /\ Goto(r, "deleteEndpoints", "destroy")
  /\ UNCHANGED <<azure, state, local, history>>

(* terraform destroy, of a plan of its own.                                 *)
StartDestroy(r) ==
  /\ Readable /\ state.lock = NoRun
  /\ Goto(r, "destroy", "destroying")
  /\ state' = [state EXCEPT !.lock = r]
  /\ seen' = [seen EXCEPT ![r] = Refreshed]
  /\ UNCHANGED <<azure, granting, listed, out, history>>

\* What the plan of a destroy removes, if the workspace has no endpoints.
Removes(r) == seen[r].records # NoRun
Removable(r) == Removes(r) => \A e \in Endpoints : endpoints[e] = "none"

(* It ends well, unless the state's storage is gone by then.                *)
DestroyEnds(r) ==
  /\ Removable(r)
  /\ Goto(r, "destroying", IF state.lock = r THEN "deleteState" ELSE "failed")
  /\ infra' = IF Removes(r) THEN NoRun ELSE infra
  /\ state' = Left(r, NoRun)
  /\ UNCHANGED <<storage, access, endpoints, local, history>>

\* Slip: the state's storage is deleted also when the destroy has failed.
DeletesStateAlways(r) ==
  /\ Goto(r, "destroying", "deleteState")
  /\ state' = Left(r, state.records)
  /\ UNCHANGED <<azure, local, history>>

(* It fails half-way; what is left is still recorded.                       *)
DestroyFails(r) ==
  /\ Goto(r, "destroying", "failed")
  /\ state' = Left(r, state.records)
  /\ UNCHANGED <<azure, local, history>>

(* "Delete Terraform State Storage", after every other step has succeeded.  *)
(* The name of the group, made of the inputs, is taken to be the configured *)
(* one; the deletion is not awaited.                                        *)
DeleteState(r) ==
  /\ Goto(r, "deleteState", "done")
  /\ storage' = IF storage.group = "absent" THEN storage
                ELSE [storage EXCEPT !.group = "deleting"]
  /\ UNCHANGED <<access, state, infra, endpoints, local, history>>

-----------------------------------------------------------------------------
AtWork(r) == pc[r] \in {"applying", "destroying"}

(* A command fails or the run is cancelled; Terraform at work has actions   *)
(* of its own for that.                                                     *)
Fail(r) ==
  /\ r \in UnderWay /\ ~AtWork(r)
  /\ pc' = [pc EXCEPT ![r] = "failed"]
  /\ cut' = (cut \/ pc[r] = "wait")
  /\ UNCHANGED <<azure, state, local, denied, overlapped>>

(* The runner dies while Terraform is at work: the lock stays, and the      *)
(* state says nothing of what was done.                                     *)
RunnerDies(r) ==
  /\ AtWork(r)
  /\ infra' \in {infra} \union
       (IF pc[r] = "destroying"
        THEN {x \in {NoRun} : Removes(r) /\ Removable(r)}
        ELSE {x \in {r} : Applicable(r)})
  /\ pc' = [pc EXCEPT ![r] = "dead"]
  /\ UNCHANGED <<storage, access, endpoints, state, local, history>>

(* Azure.                                                                   *)
RolePropagates ==
  /\ access = "assigned"
  /\ access' = "effective"
  /\ UNCHANGED <<pc, storage, infra, endpoints, state, local, history>>

GroupGone ==
  /\ storage.group = "deleting"
  /\ storage' = NoStorage
  /\ access' = "none"
  /\ state' = Saved(NoRun)
  /\ UNCHANGED <<pc, infra, endpoints, local, history>>

(* An endpoint is created by another workflow, or gone.                     *)
EndpointChanges(e) ==
  /\ \/ infra # NoRun /\ endpoints[e] = "none" /\ endpoints' = [endpoints EXCEPT ![e] = "live"]
     \/ endpoints[e] = "deleting" /\ endpoints' = [endpoints EXCEPT ![e] = "none"]
  /\ UNCHANGED <<pc, storage, access, infra, state, local, history>>

Step(r) ==
  \/ Start(r) \/ CreateGroup(r) \/ ShowAccount(r) \/ CreateAccount(r) \/ UpdateAccount(r)
  \/ ListRole(r) \/ CreateRole(r) \/ Wait(r) \/ CreateContainer(r)
  \/ TerraformInit(r) \/ InitDenied(r) \/ Plan(r)
  \/ StartApply(r) \/ ApplyEnds(r) \/ ApplyFails(r) \/ ReadOutput(r) \/ Configure(r)
  \/ ListEndpoints(r) \/ DeleteEndpoint(r) \/ EndpointsDeleted(r)
  \/ StartDestroy(r) \/ DestroyEnds(r) \/ DestroyFails(r) \/ DeleteState(r)

Next ==
  \/ \E r \in Runs : Step(r) \/ Fail(r) \/ RunnerDies(r)
  \/ RolePropagates \/ GroupGone
  \/ \E e \in Endpoints : EndpointChanges(e)

Spec == Init /\ [][Next]_vars

-----------------------------------------------------------------------------
(* Properties                                                               *)

(* Every variable has its type.                                             *)
TypeOK ==
  /\ pc \in [Runs -> {"start", "createGroup", "showAccount", "createAccount", "updateAccount",
                      "listRole", "createRole", "wait", "createContainer", "init", "plan",
                      "apply", "applying", "outputs", "configure", "listEndpoints",
                      "deleteEndpoints", "destroy", "destroying", "deleteState"} \union Finished]
  /\ storage \in [group : {"absent", "present", "deleting"},
                  account : BOOLEAN, container : BOOLEAN]
  /\ access \in {"none", "assigned", "effective"}
  /\ state \in [version : Nat, lock : Runs \union {NoRun}, records : Runs \union {NoRun}]
  /\ infra \in Runs \union {NoRun}
  /\ endpoints \in [Endpoints -> {"none", "live", "deleting"}]
  /\ seen \in [Runs -> [version : Nat, records : Runs \union {NoRun}]]
  /\ listed \in [Runs -> SUBSET Endpoints]
  /\ out \in [Runs -> Seq([version : Nat, run : Runs \union {NoRun}])]
  /\ granting \subseteq Deploys
  /\ denied \subseteq Runs /\ cut \in BOOLEAN /\ overlapped \subseteq Runs

(* The storage of the state is not given up while resources exist that a    *)
(* run without others beside it has made, whatever failed or died before:   *)
(* a failed destroy can be repeated (tf-gha-install-terraform.yml:302-328), *)
(* and a run that meets the group in deletion gets nowhere.                 *)
StateOutlivesResources ==
  infra # NoRun /\ infra \notin overlapped => storage.group = "present"

(* What an apply changes is what its plan was made of, although anything may*)
(* be applied, destroyed or lost between the two commands, and a runner may *)
(* die in either (terraform-deploy.yml:148-213).                            *)
AppliesWhatItPlanned ==
  [][\A r \in Runs : infra' = r => infra = seen[r].records]_infra

(* Init is denied only to deployments that were given no principal for the  *)
(* role, to runs beside others, and to those that come after a run whose    *)
(* wait for the role was cut short (terraform-state-bootstrap.yml:87-102).  *)
DeniedAfterCutWait == denied \subseteq overlapped \union (Deploys \ granting) \/ cut

(* The outputs of a deployment are never older than its own apply, and are  *)
(* its own unless another run is beside it: they are read one by one,       *)
(* without a lock (terraform-deploy.yml:213-218).                           *)
OutputsNotOlder ==
  \A r \in Deploys : \A i \in DOMAIN out[r] :
    /\ out[r][i].version > seen[r].version
    /\ r \notin overlapped => out[r][i].run = r
=============================================================================
