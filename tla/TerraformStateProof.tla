------------------------ MODULE TerraformStateProof ------------------------
(***************************************************************************)
(* Proofs about the Terraform runs of TerraformState.tla, for every set of *)
(* runs and any number of them at a time, wherever one fails or dies.  The *)
(* invariant comes in layers, each proved on those before it.              *)
(***************************************************************************)
EXTENDS TerraformState, SequenceTheorems, TLAPS

(***************************************************************************)
(* The version of the state only grows, and a run at work that has the     *)
(* lock is the only one to write it: its plan was made of the state as it  *)
(* still is.                                                               *)
(***************************************************************************)
Planned == {"apply", "applying", "destroying"}

VersionInv ==
  \A r \in Runs :
    /\ seen[r].version <= state.version
    /\ pc[r] \in Planned /\ seen[r].version = state.version => seen[r].records = state.records
    /\ AtWork(r) /\ state.lock = r => seen[r].version = state.version

(***************************************************************************)
(* What the state records is what exists, unless a dead runner has the     *)
(* lock.  A run at work that has lost the lock, because the storage of the *)
(* state was deleted under it, is the only one that can still change what  *)
(* exists: no other plan knows of it.                                      *)
(***************************************************************************)
DeadLock == state.lock # NoRun /\ pc[state.lock] = "dead"

RecordedInv == state.records # NoRun /\ ~DeadLock => infra = state.records

Lost(r) == AtWork(r) /\ state.lock # r /\ seen[r].records # NoRun

LostInv ==
  \A r \in Runs : Lost(r) =>
    /\ infra = seen[r].records
    /\ state.records = NoRun
    /\ \A p \in Runs : p # r /\ AtWork(p) => seen[p].records = NoRun

(***************************************************************************)
(* The steps of the template that the workflow does not have.              *)
(***************************************************************************)
TemplateInv ==
  \A r \in Runs : pc[r] \in {"showAccount", "updateAccount", "listRole"} => r \in Deploys

(***************************************************************************)
(* A run beside which no other was: the storage it has found or made stays *)
(* present, it keeps the lock while it is at work, and it has waited for   *)
(* its role or found it effective, unless it was given no principal.       *)
(***************************************************************************)
OverlapInv ==
  \A r, p \in Runs : r # p /\ r \in UnderWay /\ p \in UnderWay => r \in overlapped

Provided ==
  {"listRole", "createRole", "wait", "createContainer", "init", "plan", "apply", "applying",
   "outputs", "configure", "listEndpoints", "deleteEndpoints", "destroy", "destroying",
   "deleteState"}

AloneInv(r) ==
  /\ pc[r] \in Provided => storage.group = "present"
  /\ AtWork(r) => state.lock = r
  /\ pc[r] = "outputs" => state.records = r
  /\ pc[r] = "wait" => access # "none"
  /\ pc[r] = "createRole" /\ r \notin Deploys => access # "none"
  /\ pc[r] = "createContainer" /\ r \in granting => access = "effective" \/ cut
  /\ pc[r] = "init" /\ r \notin Deploys \ granting => access = "effective" \/ cut

(* A role that is assigned and not yet effective has a run waiting for it.  *)
RoleInv ==
  /\ access = "assigned" => cut \/ \E p \in Runs : pc[p] = "wait"
  /\ DeniedAfterCutWait

(***************************************************************************)
(* The resources of such a run have their storage, and are recorded, or    *)
(* locked by the dead runner that made them: no destroy passes them over.  *)
(***************************************************************************)
KeptInv ==
  infra # NoRun /\ infra \notin overlapped =>
    /\ storage.group = "present"
    /\ state.records # NoRun \/ (state.lock = infra /\ pc[infra] = "dead")
    /\ \A p \in Runs : pc[p] # "deleteState"

(***************************************************************************)
(* A deployment reads its outputs when its apply has been saved.           *)
(***************************************************************************)
OutputsInv(r) ==
  /\ out[r] # <<>> => pc[r] \in {"outputs"} \union Finished
  /\ pc[r] = "outputs" => seen[r].version < state.version
  /\ \A i \in DOMAIN out[r] :
       /\ out[r][i].version > seen[r].version
       /\ r \notin overlapped => out[r][i].run = r

IInv ==
  /\ TypeOK
  /\ VersionInv
  /\ RecordedInv
  /\ LostInv
  /\ TemplateInv
  /\ OverlapInv
  /\ \A r \in Runs \ overlapped : AloneInv(r)
  /\ RoleInv
  /\ KeptInv
  /\ \A r \in Deploys : OutputsInv(r)

-----------------------------------------------------------------------------
(* The steps of a run by what they touch: only those at work, and the plan, *)
(* touch the state, the resources or what the run has seen of them.         *)
Bootstrap(r) ==
  \/ Start(r) \/ CreateGroup(r) \/ ShowAccount(r) \/ CreateAccount(r) \/ UpdateAccount(r)
  \/ ListRole(r) \/ CreateRole(r) \/ Wait(r) \/ CreateContainer(r)
Beside(r) ==
  \/ TerraformInit(r) \/ InitDenied(r) \/ ReadOutput(r) \/ Configure(r) \/ ListEndpoints(r)
  \/ DeleteEndpoint(r) \/ EndpointsDeleted(r) \/ DeleteState(r) \/ Fail(r)
StartWork(r) == StartApply(r) \/ StartDestroy(r)
EndWork(r) == ApplyEnds(r) \/ ApplyFails(r) \/ DestroyEnds(r) \/ DestroyFails(r) \/ RunnerDies(r)
Elsewhere == RolePropagates \/ (\E e \in Endpoints : EndpointChanges(e)) \/ UNCHANGED vars

(* Every step is one of these.                                              *)
LEMMA Steps ==
  [Next]_vars =>
    \/ \E r \in Runs : Bootstrap(r) \/ Beside(r) \/ Plan(r) \/ StartWork(r) \/ EndWork(r)
    \/ GroupGone
    \/ Elsewhere
BY DEF Next, Step, Bootstrap, Beside, StartWork, EndWork, Elsewhere

(* Nothing changes what a deployment was given.                             *)
LEMMA GrantingStays == [Next]_vars => granting' = granting
<1> USE DEF local
<1>1. ASSUME NEW r \in Runs, Bootstrap(r) PROVE granting' = granting
  BY <1>1 DEF Bootstrap, Start, CreateGroup, ShowAccount, CreateAccount, UpdateAccount,
     ListRole, CreateRole, Wait, CreateContainer
<1>2. ASSUME NEW r \in Runs, Beside(r) PROVE granting' = granting
  BY <1>2 DEF Beside, TerraformInit, InitDenied, ReadOutput, Configure, ListEndpoints,
     DeleteEndpoint, EndpointsDeleted, DeleteState, Fail
<1>3. ASSUME NEW r \in Runs, Plan(r) \/ StartWork(r) \/ EndWork(r) PROVE granting' = granting
  BY <1>3 DEF Plan, StartWork, StartApply, StartDestroy, EndWork, ApplyEnds, ApplyFails,
     DestroyEnds, DestroyFails, RunnerDies
<1>4. CASE GroupGone \/ Elsewhere
  BY <1>4 DEF GroupGone, Elsewhere, RolePropagates, EndpointChanges, vars
<1>5. QED
  BY <1>1, <1>2, <1>3, <1>4, Steps

(* What TypeOK says of the variables without sequences, and of the outputs. *)
StageType ==
  pc \in [Runs -> {"start", "createGroup", "showAccount", "createAccount", "updateAccount",
                   "listRole", "createRole", "wait", "createContainer", "init", "plan",
                   "apply", "applying", "outputs", "configure", "listEndpoints",
                   "deleteEndpoints", "destroy", "destroying", "deleteState"} \union Finished]
StateType ==
  /\ state \in [version : Nat, lock : Runs \union {NoRun}, records : Runs \union {NoRun}]
  /\ infra \in Runs \union {NoRun}
  /\ seen \in [Runs -> [version : Nat, records : Runs \union {NoRun}]]
AzureType ==
  /\ storage \in [group : {"absent", "present", "deleting"},
                  account : BOOLEAN, container : BOOLEAN]
  /\ access \in {"none", "assigned", "effective"}
  /\ endpoints \in [Endpoints -> {"none", "live", "deleting"}]
  /\ listed \in [Runs -> SUBSET Endpoints]
  /\ denied \subseteq Runs /\ cut \in BOOLEAN /\ overlapped \subseteq Runs
OutType == out \in [Runs -> Seq([version : Nat, run : Runs \union {NoRun}])]

(* Together they are TypeOK.                                                *)
LEMMA TypeParts ==
  TypeOK <=> StageType /\ StateType /\ AzureType /\ OutType /\ granting \subseteq Deploys
BY DEF TypeOK, StageType, StateType, AzureType, OutType

(* Every variable keeps its type.                                           *)
LEMMA TypeStep ==
  ASSUME TypeOK, [Next]_vars
  PROVE  TypeOK'
<1> SUFFICES StageType' /\ StateType' /\ AzureType' /\ OutType'
  BY GrantingStays DEF TypeOK, StageType, StateType, AzureType, OutType
<1>a. StageType /\ StateType /\ AzureType /\ OutType
  BY TypeParts
<1>1. ASSUME NEW r \in Runs, Bootstrap(r)
      PROVE  StageType' /\ StateType' /\ AzureType' /\ OutType'
  <2> USE <1>a, <1>1 DEF Finished, azure, local, history, Bootstrap, Start, CreateGroup,
           ShowAccount, CreateAccount, UpdateAccount, ListRole, CreateRole, Wait,
           CreateContainer, Goto
  <2>1. StageType'
    BY DEF StageType
  <2>2. StateType' /\ OutType'
    BY DEF StateType, OutType
  <2>3. /\ UnderWay \subseteq Runs
        /\ UNCHANGED <<endpoints, listed, denied, cut>>
    BY DEF UnderWay
  <2>4. /\ storage' \in [group : {"absent", "present", "deleting"},
                         account : BOOLEAN, container : BOOLEAN]
        /\ access' \in {"none", "assigned", "effective"}
    <3> HIDE DEF Start
    <3>1. CASE Start(r)
      BY <3>1 DEF AzureType, Start
    <3>2. CASE ~Start(r)
      BY <3>2 DEF AzureType
    <3>3. QED
      BY <3>1, <3>2
  <2>5. overlapped' \subseteq Runs
    BY <2>3 DEF AzureType
  <2>6. QED
    BY <2>1, <2>2, <2>3, <2>4, <2>5 DEF AzureType
<1>2. ASSUME NEW r \in Runs, Beside(r)
      PROVE  StageType' /\ StateType' /\ AzureType' /\ OutType'
  <2> USE <1>a, <1>2 DEF Finished, azure, local, history, Beside, TerraformInit, InitDenied,
           ReadOutput, Configure, ListEndpoints, DeleteEndpoint, EndpointsDeleted, DeleteState,
           Fail, Goto
  <2>1. StageType'
    BY DEF StageType
  <2>2. StateType'
    BY DEF StateType
  <2>3. AzureType'
    <3> HIDE DEF ListEndpoints, DeleteEndpoint, InitDenied, Fail, DeleteState
    <3>1. CASE ListEndpoints(r)
      BY <3>1 DEF AzureType, ListEndpoints
    <3>2. CASE DeleteEndpoint(r)
      BY <3>2 DEF AzureType, DeleteEndpoint
    <3>3. CASE InitDenied(r)
      BY <3>3 DEF AzureType, InitDenied
    <3>4. CASE Fail(r)
      BY <3>4 DEF AzureType, Fail
    <3>5. CASE DeleteState(r)
      BY <3>5 DEF AzureType, DeleteState
    <3>6. CASE TerraformInit(r) \/ ReadOutput(r) \/ Configure(r) \/ EndpointsDeleted(r)
      BY <3>6 DEF AzureType
    <3>7. QED
      BY <3>1, <3>2, <3>3, <3>4, <3>5, <3>6
  <2>4. OutType'
    <3>1. CASE ReadOutput(r)
      <4>1. Output(r) \in [version : Nat, run : Runs \union {NoRun}]
        BY DEF Output, StateType
      <4>2. QED
        BY <3>1, <4>1, AppendProperties DEF OutType
    <3>2. CASE ~ReadOutput(r)
      BY <3>2 DEF OutType
    <3>3. QED
      BY <3>1, <3>2
  <2>5. QED
    BY <2>1, <2>2, <2>3, <2>4
<1>3. ASSUME NEW r \in Runs, Plan(r) \/ StartWork(r)
      PROVE  StageType' /\ StateType' /\ AzureType' /\ OutType'
  <2> USE <1>a, <1>3 DEF Finished, azure, local, history, Plan, StartWork, StartApply,
           StartDestroy, Goto
  <2>1. StageType'
    BY DEF StageType
  <2>2. StateType'
    BY DEF StateType, Refreshed
  <2>3. AzureType' /\ OutType'
    BY DEF AzureType, OutType
  <2>4. QED
    BY <2>1, <2>2, <2>3
<1>4. ASSUME NEW r \in Runs, EndWork(r)
      PROVE  StageType' /\ StateType' /\ AzureType' /\ OutType'
  <2> USE <1>a, <1>4 DEF Finished, azure, local, history, EndWork, ApplyEnds, ApplyFails,
           DestroyEnds, DestroyFails, RunnerDies, Goto
  <2>1. StageType'
    BY DEF StageType
  <2>2. StateType'
    BY DEF StateType, Left, Saved
  <2>3. AzureType' /\ OutType'
    BY DEF AzureType, OutType
  <2>4. QED
    BY <2>1, <2>2, <2>3
<1>5. CASE GroupGone
  <2> USE <1>a, <1>5 DEF Finished, azure, local, history, GroupGone
  <2>1. StageType' /\ OutType'
    BY DEF StageType, OutType
  <2>2. StateType'
    BY TerraformAssumption DEF StateType, Saved
  <2>3. AzureType'
    BY DEF AzureType, NoStorage
  <2>4. QED
    BY <2>1, <2>2, <2>3
<1>6. CASE Elsewhere
  <2> USE <1>a, <1>6 DEF Finished, azure, local, history, vars, Elsewhere, RolePropagates,
          EndpointChanges
  <2>1. StageType' /\ OutType'
    BY DEF StageType, OutType
  <2>2. StateType'
    BY DEF StateType
  <2>3. AzureType'
    BY DEF AzureType
  <2>4. QED
    BY <2>1, <2>2, <2>3
<1>7. QED
  BY <1>1, <1>2, <1>3, <1>4, <1>5, <1>6, Steps

-----------------------------------------------------------------------------
(* Where the steps go that leave the state and the resources alone.         *)
LEMMA QuietMeans ==
  ASSUME TypeOK, NEW r \in Runs, Bootstrap(r) \/ Beside(r)
  PROVE  /\ UNCHANGED <<state, infra, seen>>
         /\ pc[r] \notin {"applying", "destroying"} \union Finished
         /\ \E to : /\ to \notin {"apply", "applying", "destroying", "dead", "deleteState"}
                    /\ pc' = [pc EXCEPT ![r] = to]
<1>1. pc = [pc EXCEPT ![r] = pc[r]]
  BY TypeParts DEF StageType
<1> USE DEF azure, local, history, Goto, Finished
<1>2. CASE Bootstrap(r)
  BY <1>2 DEF Bootstrap, Start, CreateGroup, ShowAccount, CreateAccount, UpdateAccount,
     ListRole, CreateRole, Wait, CreateContainer
<1>3. CASE Beside(r)
  <2>1. CASE DeleteEndpoint(r)
    BY <1>1, <2>1 DEF DeleteEndpoint
  <2>2. CASE Fail(r)
    BY <2>2 DEF Fail, UnderWay, AtWork
  <2>3. CASE ReadOutput(r)
    BY <2>3 DEF ReadOutput
  <2>4. CASE ~(DeleteEndpoint(r) \/ Fail(r) \/ ReadOutput(r))
    BY <1>3, <2>4 DEF Beside, TerraformInit, InitDenied, Configure, ListEndpoints,
       EndpointsDeleted, DeleteState
  <2>5. QED
    BY <2>1, <2>2, <2>3, <2>4
<1>4. QED
  BY <1>2, <1>3

(* What a plan is made of.                                                  *)
LEMMA PlanMeans ==
  ASSUME NEW r \in Runs, Plan(r)
  PROVE  /\ UNCHANGED <<state, infra, azure, out, history>>
         /\ pc[r] = "plan"
         /\ \E to \in {"done", "listEndpoints", "apply"} : pc' = [pc EXCEPT ![r] = to]
         /\ seen' = [seen EXCEPT ![r] = [version |-> state.version, records |-> state.records]]
BY DEF Plan, Goto, azure, history, Refreshed

(* A run gets to work with the lock, and with a plan of the state as it is. *)
LEMMA StartWorkMeans ==
  ASSUME TypeOK, NEW r \in Runs, StartWork(r)
  PROVE  /\ UNCHANGED <<infra, azure, out, history>>
         /\ state.lock = NoRun /\ state' = [state EXCEPT !.lock = r]
         /\ \/ /\ pc[r] = "apply" /\ pc' = [pc EXCEPT ![r] = "applying"]
               /\ state.version = seen[r].version /\ UNCHANGED seen
            \/ /\ pc[r] = "destroy" /\ pc' = [pc EXCEPT ![r] = "destroying"]
               /\ seen' = [seen EXCEPT ![r] =
                             [version |-> state.version, records |-> state.records]]
BY DEF StartWork, StartApply, StartDestroy, Goto, azure, local, history, Refreshed

(* How it ends it: with the resources as they were, as its own or gone, and *)
(* the state saying so if it still has the lock and is alive.               *)
LEMMA EndWorkMeans ==
  ASSUME TypeOK, NEW r \in Runs, EndWork(r)
  PROVE  /\ AtWork(r)
         /\ UNCHANGED <<storage, access, endpoints, seen, out, denied, cut, overlapped>>
         /\ \/ /\ UNCHANGED infra /\ state' = Left(r, state.records)
               /\ pc' = [pc EXCEPT ![r] = "failed"]
            \/ /\ pc[r] = "applying" /\ Applicable(r)
               /\ infra' = r /\ state' = Left(r, r)
               /\ \/ pc' = [pc EXCEPT ![r] = "failed"]
                  \/ /\ state.lock = r
                     /\ \E to \in {"outputs", "configure"} : pc' = [pc EXCEPT ![r] = to]
            \/ /\ pc[r] = "destroying"
               /\ infra' = IF Removes(r) THEN NoRun ELSE infra
               /\ state' = Left(r, NoRun)
               /\ \/ pc' = [pc EXCEPT ![r] = "failed"] /\ state.lock # r
                  \/ pc' = [pc EXCEPT ![r] = "deleteState"] /\ state.lock = r
            \/ /\ UNCHANGED state
               /\ pc' = [pc EXCEPT ![r] = "dead"]
               /\ \/ UNCHANGED infra
                  \/ pc[r] = "applying" /\ Applicable(r) /\ infra' = r
                  \/ pc[r] = "destroying" /\ Removes(r) /\ infra' = NoRun
<1> USE DEF EndWork, AtWork, local, history, Goto
<1>1. CASE ApplyEnds(r)
  BY <1>1 DEF ApplyEnds
<1>2. CASE ApplyFails(r)
  BY <1>2 DEF ApplyFails
<1>3. CASE DestroyEnds(r)
  BY <1>3 DEF DestroyEnds
<1>4. CASE DestroyFails(r)
  BY <1>4 DEF DestroyFails, azure
<1>5. CASE RunnerDies(r)
  BY <1>5 DEF RunnerDies
<1>6. QED
  BY <1>1, <1>2, <1>3, <1>4, <1>5

(* What happens elsewhere touches none of this.                             *)
LEMMA ElsewhereMeans ==
  ASSUME TypeOK, Elsewhere
  PROVE  /\ UNCHANGED <<pc, state, storage, infra, seen, out, denied, cut, overlapped>>
         /\ access' = access \/ (access = "assigned" /\ access' = "effective")
BY DEF Elsewhere, RolePropagates, EndpointChanges, vars, azure, local, history

-----------------------------------------------------------------------------
(* What was planned of the present version is what the state records: a new *)
(* version is newer than every plan.                                        *)
LEMMA VersionStep ==
  ASSUME TypeOK, VersionInv, [Next]_vars
  PROVE  VersionInv'
<1>a. /\ \A q \in Runs : seen[q].version \in Nat /\ seen[q].version <= state.version
      /\ state.version \in Nat /\ DOMAIN seen = Runs /\ DOMAIN pc = Runs
  BY DEF TypeOK, VersionInv
<1>1. ASSUME NEW r \in Runs, Bootstrap(r) \/ Beside(r)
      PROVE  VersionInv'
  BY <1>a, <1>1, QuietMeans DEF VersionInv, Planned, AtWork
<1>2. ASSUME NEW r \in Runs, Plan(r)
      PROVE  VersionInv'
  BY <1>a, <1>2, PlanMeans DEF VersionInv, Planned, AtWork
<1>3. ASSUME NEW r \in Runs, StartWork(r)
      PROVE  VersionInv'
  <2>1. /\ state'.version = state.version /\ state'.records = state.records
        /\ state'.lock = r
    BY <1>3, StartWorkMeans, TypeParts DEF StateType
  <2>2. \A q \in Runs : q # r => pc'[q] = pc[q] /\ seen'[q] = seen[q]
    BY <1>a, <1>3, StartWorkMeans
  <2>3. seen'[r].version = state.version
    BY <1>a, <1>3, StartWorkMeans
  <2>4. seen'[r].records = state.records
    BY <1>a, <1>3, StartWorkMeans DEF VersionInv, Planned
  <2>5. \A q \in Runs : AtWork(q)' /\ state'.lock = q => q = r
    BY <2>1
  <2>6. ASSUME NEW q \in Runs
        PROVE  /\ seen'[q].version <= state'.version
               /\ pc'[q] \in Planned /\ seen'[q].version = state'.version =>
                    seen'[q].records = state'.records
    <3>1. CASE q = r
      BY <1>a, <2>1, <2>3, <2>4, <3>1
    <3>2. CASE q # r
      BY <1>a, <2>1, <2>2, <3>2 DEF VersionInv
    <3>3. QED
      BY <3>1, <3>2
  <2>7. QED
    BY <2>1, <2>3, <2>5, <2>6 DEF VersionInv, Planned
<1>4. ASSUME NEW r \in Runs, EndWork(r)
      PROVE  VersionInv'
  <2>1. /\ UNCHANGED seen
        /\ state' = state \/ (state.lock = r /\ \E x : state' = Saved(x))
        /\ \A q \in Runs : AtWork(q)' => AtWork(q) /\ pc'[q] = pc[q] /\ q # r
        /\ \A q \in Runs : pc'[q] \in Planned => pc'[q] = pc[q]
    BY <1>a, <1>4, EndWorkMeans DEF Left, AtWork, Planned
  <2>2. CASE state' = state
    BY <2>1, <2>2 DEF VersionInv
  <2>3. CASE \E x : state' = Saved(x)
    <3>1. state'.version = state.version + 1 /\ state'.lock \notin Runs
      BY <2>3, TerraformAssumption DEF Saved
    <3>2. \A q \in Runs : seen'[q].version <= state'.version /\ seen'[q].version # state'.version
      BY <1>a, <2>1, <3>1
    <3>3. QED
      BY <3>1, <3>2 DEF VersionInv
  <2>4. QED
    BY <2>1, <2>2, <2>3
<1>5. CASE GroupGone
  BY <1>a, <1>5, TerraformAssumption DEF VersionInv, GroupGone, Saved, local, Planned, AtWork
<1>6. CASE Elsewhere
  BY <1>6, ElsewhereMeans DEF VersionInv, AtWork
<1>7. QED
  BY <1>1, <1>2, <1>3, <1>4, <1>5, <1>6, Steps

(* A run that is not the one that steps stays where it is, and a run only   *)
(* gets to work by StartWork.                                               *)
LEMMA WorkMeans ==
  ASSUME TypeOK, NEW r \in Runs,
         Bootstrap(r) \/ Beside(r) \/ Plan(r) \/ EndWork(r)
  PROVE  /\ \A q \in Runs : q # r => pc'[q] = pc[q]
         /\ \A q \in Runs : AtWork(q)' => AtWork(q)
         /\ EndWork(r) => ~AtWork(r)'
<1>1. DOMAIN pc = Runs
  BY TypeParts DEF StageType
<1>2. CASE Bootstrap(r) \/ Beside(r)
  BY <1>1, <1>2, QuietMeans, EndWorkMeans DEF AtWork
<1>3. CASE Plan(r)
  BY <1>1, <1>3, PlanMeans, EndWorkMeans DEF AtWork
<1>4. CASE EndWork(r)
  BY <1>1, <1>4, EndWorkMeans DEF AtWork
<1>5. QED
  BY <1>2, <1>3, <1>4

(* A dead runner does nothing more.                                         *)
LEMMA DeadStays ==
  ASSUME TypeOK, [Next]_vars, NEW q \in Runs, pc[q] = "dead"
  PROVE  pc'[q] = "dead"
<1>1. DOMAIN pc = Runs
  BY TypeParts DEF StageType
<1>2. ASSUME NEW r \in Runs, Bootstrap(r) \/ Beside(r) \/ Plan(r) \/ StartWork(r) \/ EndWork(r)
      PROVE  pc'[q] = "dead"
  <2>1. pc[r] # "dead"
    BY <1>2, QuietMeans, PlanMeans, StartWorkMeans, EndWorkMeans DEF AtWork, Finished
  <2>2. q # r => pc'[q] = pc[q]
    BY <1>1, <1>2, WorkMeans, StartWorkMeans
  <2>3. QED
    BY <2>1, <2>2
<1>3. QED
  BY <1>2, ElsewhereMeans, Steps DEF GroupGone

(* The lock of a dead runner stays one.                                     *)
LEMMA DeadLockStays ==
  ASSUME TypeOK, [Next]_vars, DeadLock, state'.lock = state.lock
  PROVE  DeadLock'
<1>1. state.lock \in Runs
  BY TypeParts DEF StateType, DeadLock
<1>2. QED
  BY <1>1, DeadStays DEF DeadLock

(* What the state records remains what exists.                              *)
LEMMA RecordedStep ==
  ASSUME TypeOK, RecordedInv, LostInv, [Next]_vars
  PROVE  RecordedInv'
<1>1. ASSUME UNCHANGED <<infra, state>>
      PROVE  RecordedInv'
  BY <1>1, DeadLockStays DEF RecordedInv
<1>2. ASSUME NEW r \in Runs, StartWork(r)
      PROVE  RecordedInv'
  <2>1. /\ infra' = infra /\ state.lock = NoRun
        /\ state'.records = state.records
    BY <1>2, StartWorkMeans, TypeParts DEF StateType
  <2>2. QED
    BY <2>1 DEF RecordedInv, DeadLock
<1>3. ASSUME NEW r \in Runs, EndWork(r), state.lock = r
      PROVE  RecordedInv'
  <2>1. ~DeadLock
    BY <1>3, EndWorkMeans DEF DeadLock, AtWork
  <2>2. CASE UNCHANGED state
    <3>1. pc' = [pc EXCEPT ![r] = "dead"]
      <4>1. Saved(state.records) # state /\ Saved(r) # state /\ Saved(NoRun) # state
        BY <1>3, TerraformAssumption DEF Saved
      <4>2. QED
        BY <1>3, <2>2, <4>1, EndWorkMeans DEF Left
    <3>2. DeadLock'
      BY <1>3, <2>2, <3>1, TerraformAssumption, TypeParts DEF DeadLock, StageType
    <3>3. QED
      BY <3>2 DEF RecordedInv
  <2>3. CASE ~UNCHANGED state
    <3>1. \/ infra' = infra /\ state' = Saved(state.records)
          \/ infra' = r /\ state' = Saved(r)
          \/ state' = Saved(NoRun)
      BY <1>3, <2>3, EndWorkMeans DEF Left
    <3>2. QED
      BY <2>1, <3>1 DEF RecordedInv, Saved
  <2>4. QED
    BY <2>2, <2>3
<1>4. ASSUME NEW r \in Runs, EndWork(r), state.lock # r
      PROVE  RecordedInv'
  <2>1. state' = state
    BY <1>4, EndWorkMeans DEF Left
  <2>2. CASE Lost(r)
    BY <1>4, <2>1, <2>2 DEF LostInv, RecordedInv
  <2>3. CASE ~Lost(r)
    <3>1. seen[r].records = NoRun
      BY <1>4, <2>3, EndWorkMeans DEF Lost
    <3>2. infra' = infra \/ infra = NoRun
      BY <1>4, <3>1, EndWorkMeans DEF Applicable, Removes
    <3>3. DeadLock => DeadLock'
      BY <2>1, DeadLockStays
    <3>4. QED
      BY <2>1, <3>2, <3>3 DEF RecordedInv
  <2>4. QED
    BY <2>2, <2>3
<1>5. CASE GroupGone
  BY <1>5 DEF GroupGone, Saved, RecordedInv
<1>6. QED
  BY <1>1, <1>2, <1>3, <1>4, <1>5, Steps, QuietMeans, PlanMeans, ElsewhereMeans

(* A run that has lost the lock remains the only one that can change what   *)
(* exists.                                                                  *)
LEMMA LostStep ==
  ASSUME TypeOK, VersionInv, VersionInv', RecordedInv, LostInv, [Next]_vars
  PROVE  LostInv'
<1>a. DOMAIN pc = Runs /\ DOMAIN seen = Runs
  BY TypeParts DEF StageType, StateType
<1>1. ASSUME NEW r \in Runs, Bootstrap(r) \/ Beside(r) \/ Plan(r)
      PROVE  LostInv'
  <2>1. UNCHANGED <<state, infra>>
    BY <1>1, QuietMeans, PlanMeans
  <2>2. \A q \in Runs : AtWork(q)' => AtWork(q) /\ seen'[q] = seen[q]
    <3>1. Plan(r) => ~AtWork(r)
      BY PlanMeans DEF AtWork
    <3>2. \A q \in Runs : q # r \/ ~Plan(r) => seen'[q] = seen[q]
      BY <1>a, <1>1, QuietMeans, PlanMeans
    <3>3. QED
      BY <1>1, <3>1, <3>2, WorkMeans
  <2>3. QED
    BY <2>1, <2>2 DEF LostInv, Lost
<1>2. ASSUME NEW r \in Runs, StartWork(r)
      PROVE  LostInv'
  <2>1. /\ infra' = infra /\ state.lock = NoRun
        /\ state'.lock = r /\ state'.records = state.records
    BY <1>2, StartWorkMeans, TypeParts DEF StateType
  <2>2. \A q \in Runs : q # r => pc'[q] = pc[q] /\ seen'[q] = seen[q]
    BY <1>a, <1>2, StartWorkMeans
  <2>3. AtWork(r)'
    BY <1>a, <1>2, StartWorkMeans DEF AtWork
  <2>4. seen'[r].records = state.records
    BY <2>1, <2>3 DEF VersionInv, Planned, AtWork
  <2>5. ASSUME NEW q \in Runs, Lost(q)'
        PROVE  q # r /\ Lost(q)
    BY <2>1, <2>2, <2>5, TerraformAssumption DEF Lost, AtWork
  <2>6. ASSUME NEW q \in Runs, Lost(q)'
        PROVE  /\ infra' = seen'[q].records /\ state'.records = NoRun
               /\ \A p \in Runs : p # q /\ AtWork(p)' => seen'[p].records = NoRun
    <3>1. q # r /\ Lost(q)
      BY <2>5, <2>6
    <3>2. /\ infra = seen[q].records /\ state.records = NoRun
          /\ \A p \in Runs : p # q /\ AtWork(p) => seen[p].records = NoRun
      BY <3>1 DEF LostInv
    <3>3. \A p \in Runs : p # r /\ AtWork(p)' => AtWork(p)
      BY <2>2 DEF AtWork
    <3>4. QED
      BY <2>1, <2>2, <2>4, <3>1, <3>2, <3>3
  <2>7. QED
    BY <2>6 DEF LostInv
<1>3. ASSUME NEW r \in Runs, EndWork(r)
      PROVE  LostInv'
  <2>1. /\ UNCHANGED seen
        /\ \A q \in Runs : AtWork(q)' => AtWork(q) /\ q # r
    BY <1>3, EndWorkMeans, WorkMeans
  <2>2. state.lock # r => state' = state
    BY <1>3, EndWorkMeans DEF Left
  <2>3. ASSUME NEW q \in Runs, Lost(q)'
        PROVE  /\ infra' = seen'[q].records /\ state'.records = NoRun
               /\ \A p \in Runs : p # q /\ AtWork(p)' => seen'[p].records = NoRun
    <3>1. AtWork(q) /\ q # r /\ seen[q].records # NoRun
      BY <2>1, <2>3 DEF Lost
    <3>2. state.lock # q
      BY <2>2, <2>3, <3>1 DEF Lost
    <3>3. /\ infra = seen[q].records /\ state.records = NoRun
          /\ \A p \in Runs : p # q /\ AtWork(p) => seen[p].records = NoRun
      BY <3>1, <3>2 DEF LostInv, Lost
    <3>4. ~Applicable(r) /\ ~Removes(r)
      BY <1>3, <3>1, <3>3, EndWorkMeans DEF Applicable, Removes
    <3>5. infra' = infra /\ state'.records = NoRun
      BY <1>3, <3>3, <3>4, EndWorkMeans DEF Left, Saved
    <3>6. QED
      BY <2>1, <3>3, <3>5
  <2>4. QED
    BY <2>3 DEF LostInv
<1>4. CASE GroupGone
  <2>1. UNCHANGED <<pc, infra, seen>> /\ state'.records = NoRun
    BY <1>4 DEF GroupGone, Saved, local
  <2>2. ASSUME NEW q \in Runs, AtWork(q), seen[q].records # NoRun
        PROVE  /\ infra = seen[q].records
               /\ \A p \in Runs : p # q /\ AtWork(p) => seen[p].records = NoRun
    <3>1. CASE state.lock # q
      BY <2>2, <3>1 DEF LostInv, Lost
    <3>2. CASE state.lock = q
      <4>1. seen[q].records = state.records
        BY <2>2, <3>2 DEF VersionInv, AtWork, Planned
      <4>2. infra = seen[q].records
        BY <2>2, <3>2, <4>1 DEF RecordedInv, DeadLock, AtWork
      <4>3. \A p \in Runs : p # q => ~Lost(p)
        BY <2>2, <4>1 DEF LostInv
      <4>4. QED
        BY <3>2, <4>2, <4>3 DEF Lost
    <3>3. QED
      BY <3>1, <3>2
  <2>3. QED
    BY <2>1, <2>2 DEF LostInv, Lost, AtWork
<1>5. CASE Elsewhere
  BY <1>5, ElsewhereMeans DEF LostInv, Lost, AtWork
<1>6. QED
  BY <1>1, <1>2, <1>3, <1>4, <1>5, Steps

-----------------------------------------------------------------------------
(* A step of a run.                                                         *)
RunStep(r) == Bootstrap(r) \/ Beside(r) \/ Plan(r) \/ StartWork(r) \/ EndWork(r)

(* Only Start brings a run under way, and it marks all that are.            *)
LEMMA RunStepMeans ==
  ASSUME TypeOK, NEW r \in Runs, RunStep(r)
  PROVE  /\ \A q \in Runs : q # r => pc'[q] = pc[q]
         /\ overlapped \subseteq overlapped'
         /\ Start(r) => /\ r \notin UnderWay
                        /\ UnderWay # {} => UnderWay \union {r} \subseteq overlapped'
         /\ ~Start(r) => r \in UnderWay
<1>1. DOMAIN pc = Runs
  BY TypeParts DEF StageType
<1>2. \A q \in Runs : q # r => pc'[q] = pc[q]
  BY <1>1, WorkMeans, StartWorkMeans DEF RunStep
<1>3. CASE Start(r)
  BY <1>2, <1>3 DEF Start, Goto, UnderWay
<1>4. CASE ~Start(r)
  <2>1. CASE Bootstrap(r)
    BY <1>2, <1>4, <2>1 DEF Bootstrap, CreateGroup, ShowAccount, CreateAccount, UpdateAccount,
       ListRole, CreateRole, Wait, CreateContainer, Goto, UnderWay, Finished, history
  <2>2. CASE Beside(r)
    BY <1>2, <1>4, <2>2 DEF Beside, TerraformInit, InitDenied, ReadOutput, Configure,
       ListEndpoints, DeleteEndpoint, EndpointsDeleted, DeleteState, Fail, Goto, UnderWay,
       Finished, history
  <2>3. CASE Plan(r)
    BY <1>2, <1>4, <2>3, PlanMeans DEF UnderWay, Finished, history
  <2>4. CASE StartWork(r)
    BY <1>2, <1>4, <2>4, StartWorkMeans DEF UnderWay, Finished, history
  <2>5. CASE EndWork(r)
    BY <1>2, <1>4, <2>5, EndWorkMeans DEF UnderWay, Finished, AtWork
  <2>6. QED
    BY <2>1, <2>2, <2>3, <2>4, <2>5 DEF RunStep
<1>5. QED
  BY <1>3, <1>4

(* Runs under way together are marked.                                      *)
LEMMA OverlapStep ==
  ASSUME TypeOK, OverlapInv, [Next]_vars
  PROVE  OverlapInv'
<1>1. ASSUME NEW r \in Runs, RunStep(r)
      PROVE  OverlapInv'
  <2>1. ASSUME NEW q \in Runs, q \in UnderWay'
        PROVE  q \in UnderWay \/ (q = r /\ Start(r))
    BY <1>1, <2>1, RunStepMeans DEF UnderWay
  <2>2. ASSUME NEW q \in Runs, NEW p \in Runs, q # p, q \in UnderWay', p \in UnderWay'
        PROVE  q \in overlapped'
    <3>1. CASE q \in UnderWay /\ p \in UnderWay
      BY <1>1, <2>2, <3>1, RunStepMeans DEF OverlapInv
    <3>2. CASE ~(q \in UnderWay /\ p \in UnderWay)
      <4>1. Start(r) /\ UnderWay # {} /\ q \in UnderWay \union {r}
        BY <2>1, <2>2, <3>2
      <4>2. QED
        BY <1>1, <4>1, RunStepMeans
    <3>3. QED
      BY <3>1, <3>2
  <2>3. QED
    BY <2>2 DEF OverlapInv
<1>2. UNCHANGED <<pc, overlapped>> => OverlapInv'
  BY DEF OverlapInv, UnderWay
<1>3. QED
  BY <1>1, <1>2, Steps, ElsewhereMeans DEF RunStep, GroupGone, history

(* While a run is unmarked, no other one does anything.                     *)
LEMMA AloneMeans ==
  ASSUME TypeOK, OverlapInv, NEW r \in Runs, RunStep(r),
         NEW q \in Runs, q # r, q \notin overlapped'
  PROVE  q \notin UnderWay /\ q \notin UnderWay'
<1>1. q \notin overlapped
  BY RunStepMeans
<1>2. q \notin UnderWay
  BY <1>1, RunStepMeans DEF OverlapInv
<1>3. QED
  BY <1>2, RunStepMeans DEF UnderWay

(* The steps of the template are those of deployments.                      *)
LEMMA TemplateStep ==
  ASSUME TypeOK, TemplateInv, [Next]_vars
  PROVE  TemplateInv'
<1>1. DOMAIN pc = Runs
  BY TypeParts DEF StageType
<1>2. ASSUME NEW r \in Runs, Bootstrap(r)
      PROVE  TemplateInv'
  BY <1>1, <1>2 DEF TemplateInv, Bootstrap, Start, CreateGroup, ShowAccount, CreateAccount,
     UpdateAccount, ListRole, CreateRole, Wait, CreateContainer, Goto
<1>3. ASSUME NEW r \in Runs, Beside(r)
      PROVE  TemplateInv'
  BY <1>1, <1>3 DEF TemplateInv, Beside, TerraformInit, InitDenied, ReadOutput, Configure,
     ListEndpoints, DeleteEndpoint, EndpointsDeleted, DeleteState, Fail, Goto
<1>4. ASSUME NEW r \in Runs, Plan(r) \/ StartWork(r) \/ EndWork(r)
      PROVE  TemplateInv'
  BY <1>1, <1>4, PlanMeans, StartWorkMeans, EndWorkMeans DEF TemplateInv
<1>5. QED
  BY <1>2, <1>3, <1>4, Steps, ElsewhereMeans DEF TemplateInv, GroupGone

(* An unmarked run keeps the storage it has found, the lock and its role:   *)
(* nothing else is under way to take them.                                  *)
LEMMA AloneStep ==
  ASSUME TypeOK, TemplateInv, OverlapInv, RoleInv, \A r \in Runs \ overlapped : AloneInv(r),
         [Next]_vars, NEW q \in Runs \ overlapped'
  PROVE  AloneInv(q)'
<1>1. /\ q \in Runs /\ DOMAIN pc = Runs
      /\ granting' = granting /\ granting \subseteq Deploys
  BY TypeParts, GrantingStays DEF StageType
<1>2. ASSUME q \notin UnderWay'
      PROVE  AloneInv(q)'
  BY <1>2 DEF AloneInv, UnderWay, Provided, AtWork, Finished
<1>3. ASSUME NEW r \in Runs, RunStep(r), r # q
      PROVE  AloneInv(q)'
  BY <1>1, <1>2, <1>3, AloneMeans
<1>4. ASSUME RunStep(q)
      PROVE  q \notin overlapped /\ AloneInv(q)
  BY <1>1, <1>4, RunStepMeans
<1>5. CASE Bootstrap(q)
  <2>1. CASE Start(q) \/ CreateGroup(q) \/ ShowAccount(q)
    BY <1>1, <2>1 DEF Start, CreateGroup, ShowAccount, Goto, AloneInv, AtWork, Provided
  <2>2. CASE CreateAccount(q) \/ UpdateAccount(q)
    <3>1. storage'.group = "present"
      BY <2>2, TypeParts DEF CreateAccount, UpdateAccount, Writable, azure, AzureType
    <3>2. pc'[q] \in {"listRole", "createContainer"} /\ (q \in Deploys => pc'[q] = "listRole")
      BY <1>1, <2>2 DEF CreateAccount, UpdateAccount, Goto
    <3>3. QED
      BY <1>1, <3>1, <3>2 DEF AloneInv, AtWork
  <2>3. CASE ListRole(q)
    <3>1. q \in UnderWay /\ q \notin overlapped /\ pc[q] = "listRole"
      BY <1>4, <1>5, <2>3 DEF RunStep, ListRole, Goto, UnderWay, Finished
    <3>2. access = "assigned" => cut
      BY <3>1 DEF RoleInv, OverlapInv, UnderWay, Finished
    <3>3. storage.group = "present" /\ q \in Deploys
      BY <1>1, <1>4, <1>5, <3>1 DEF RunStep, AloneInv, Provided, TemplateInv
    <3>4. access \in {"none", "assigned", "effective"}
      BY TypeParts DEF AzureType
    <3>5. /\ UNCHANGED <<storage, access, cut>>
          /\ pc'[q] = IF q \in granting /\ access = "none"
                      THEN "createRole" ELSE "createContainer"
      BY <1>1, <2>3 DEF ListRole, Goto, azure, history
    <3>6. QED
      BY <1>1, <3>2, <3>3, <3>4, <3>5 DEF AloneInv, AtWork
  <2>4. CASE CreateRole(q)
    BY <1>1, <1>4, <1>5, <2>4 DEF RunStep, CreateRole, Goto, AloneInv, AtWork, Provided
  <2>5. CASE Wait(q) \/ CreateContainer(q)
    <3>1. access \in {"none", "assigned", "effective"}
      BY TypeParts DEF AzureType
    <3>2. storage'.group = storage.group /\ UNCHANGED <<access, cut>>
      BY <2>5, TypeParts DEF Wait, CreateContainer, azure, history, AzureType
    <3>3. QED
      BY <1>1, <1>4, <1>5, <2>5, <3>1, <3>2 DEF RunStep, Wait, CreateContainer, Goto,
         AloneInv, AtWork, Provided
  <2>6. QED
    BY <1>5, <2>1, <2>2, <2>3, <2>4, <2>5 DEF Bootstrap
<1>6. CASE Beside(q)
  <2>1. AloneInv(q)
    BY <1>4, <1>6 DEF RunStep
  <2>2. CASE DeleteState(q) \/ Fail(q) \/ InitDenied(q)
    BY <1>1, <1>2, <2>2 DEF DeleteState, Fail, InitDenied, Goto, UnderWay, Finished
  <2>3. CASE DeleteEndpoint(q) \/ ReadOutput(q)
    BY <1>1, <2>1, <2>3 DEF DeleteEndpoint, ReadOutput, AloneInv, AtWork, Provided, azure,
       history
  <2>4. CASE TerraformInit(q) \/ Configure(q) \/ ListEndpoints(q) \/ EndpointsDeleted(q)
    BY <1>1, <2>1, <2>4 DEF TerraformInit, Configure, ListEndpoints, EndpointsDeleted, Goto,
       AloneInv, AtWork, Provided, azure, history
  <2>5. QED
    BY <1>6, <2>2, <2>3, <2>4 DEF Beside
<1>7. CASE Plan(q) \/ StartWork(q)
  <2>1. state \in [version : Nat, lock : Runs \union {NoRun}, records : Runs \union {NoRun}]
    BY TypeParts DEF StateType
  <2>2. QED
    BY <1>1, <1>4, <1>7, <2>1, PlanMeans, StartWorkMeans DEF RunStep, AloneInv, AtWork,
       Provided, azure, history
<1>8. CASE EndWork(q)
  BY <1>1, <1>4, <1>8, EndWorkMeans DEF RunStep, AloneInv, AtWork, Provided, Left, Saved
<1>9. CASE GroupGone
  <2>1. q \in Runs \ overlapped /\ UNCHANGED pc /\ storage.group = "deleting"
    BY <1>9 DEF GroupGone, history
  <2>2. pc[q] \notin Provided
    BY <2>1 DEF AloneInv
  <2>3. QED
    BY <1>1, <2>1, <2>2 DEF AloneInv, Provided, AtWork
<1>10. CASE Elsewhere
  BY <1>1, <1>10, ElsewhereMeans DEF AloneInv, AtWork
<1>11. QED
  BY <1>3, <1>5, <1>6, <1>7, <1>8, <1>9, <1>10, Steps DEF RunStep

(* A role that is not effective yet is waited for until a wait is cut, and  *)
(* so an unmarked run is not denied before if it was given a principal.     *)
LEMMA RoleStep ==
  ASSUME TypeOK, RoleInv, \A r \in Runs \ overlapped : AloneInv(r), [Next]_vars
  PROVE  RoleInv'
<1>1. DOMAIN pc = Runs /\ cut \in BOOLEAN /\ granting' = granting
  BY TypeParts, GrantingStays DEF StageType, AzureType
<1>2. ASSUME NEW r \in Runs, RunStep(r), ~CreateRole(r), ~Wait(r), ~Fail(r), ~InitDenied(r)
      PROVE  RoleInv'
  <2>1. /\ UNCHANGED <<access, denied, cut>> /\ overlapped \subseteq overlapped'
        /\ pc[r] # "wait"
    <3>1. CASE Bootstrap(r)
      BY <1>2, <3>1, RunStepMeans DEF Bootstrap, Start, CreateGroup, ShowAccount, CreateAccount,
         UpdateAccount, ListRole, CreateContainer, Goto, azure, history
    <3>2. CASE Beside(r)
      BY <1>2, <3>2, RunStepMeans DEF Beside, TerraformInit, ReadOutput, Configure,
         ListEndpoints, DeleteEndpoint, EndpointsDeleted, DeleteState, Goto, azure, history
    <3>3. CASE Plan(r) \/ StartWork(r) \/ EndWork(r)
      BY <1>2, <3>3, RunStepMeans, PlanMeans, StartWorkMeans, EndWorkMeans
         DEF AtWork, azure, history
    <3>4. QED
      BY <1>2, <3>1, <3>2, <3>3 DEF RunStep
  <2>2. \A p \in Runs : pc[p] = "wait" => pc'[p] = "wait"
    BY <1>2, <2>1, RunStepMeans
  <2>3. QED
    BY <1>1, <2>1, <2>2 DEF RoleInv, DeniedAfterCutWait
<1>3. ASSUME NEW r \in Runs, CreateRole(r)
      PROVE  RoleInv'
  BY <1>1, <1>3 DEF CreateRole, Goto, history, RoleInv, DeniedAfterCutWait
<1>4. ASSUME NEW r \in Runs, Wait(r)
      PROVE  RoleInv'
  BY <1>1, <1>4 DEF Wait, azure, history, RoleInv, DeniedAfterCutWait
<1>5. ASSUME NEW r \in Runs, Fail(r)
      PROVE  RoleInv'
  <2>1. /\ UNCHANGED <<access, denied, overlapped>>
        /\ cut' = (cut \/ pc[r] = "wait")
        /\ \A p \in Runs : p # r => pc'[p] = pc[p]
    BY <1>1, <1>5 DEF Fail, azure
  <2>2. QED
    BY <1>1, <2>1 DEF RoleInv, DeniedAfterCutWait
<1>6. ASSUME NEW r \in Runs, InitDenied(r)
      PROVE  RoleInv'
  <2>1. /\ UNCHANGED <<access, cut, overlapped>> /\ denied' = denied \union {r}
        /\ pc[r] = "init" /\ access # "effective"
        /\ \A p \in Runs : p # r => pc'[p] = pc[p]
    BY <1>1, <1>6 DEF InitDenied, Goto, azure
  <2>2. r \in overlapped \union (Deploys \ granting) \/ cut
    BY <2>1 DEF AloneInv
  <2>3. QED
    BY <1>1, <2>1, <2>2 DEF RoleInv, DeniedAfterCutWait
<1>7. CASE GroupGone
  BY <1>1, <1>7 DEF GroupGone, history, RoleInv, DeniedAfterCutWait
<1>8. CASE Elsewhere
  BY <1>1, <1>8, ElsewhereMeans DEF RoleInv, DeniedAfterCutWait
<1>9. QED
  BY <1>2, <1>3, <1>4, <1>5, <1>6, <1>7, <1>8, Steps DEF RunStep

(* The resources of an unmarked run keep their storage: a destroy that is   *)
(* let at the state removes them, and only then deletes the state.          *)
LEMMA KeptStep ==
  ASSUME TypeOK, VersionInv, OverlapInv, \A r \in Runs \ overlapped : AloneInv(r), KeptInv,
         [Next]_vars
  PROVE  KeptInv'
<1>a. /\ DOMAIN pc = Runs /\ NoRun \notin Runs /\ infra \in Runs \union {NoRun}
      /\ state.lock \in Runs \union {NoRun}
  BY TypeParts, TerraformAssumption DEF StageType, StateType
<1> DEFINE Kept == infra # NoRun /\ infra \notin overlapped
<1>b. Kept => /\ storage.group = "present" /\ infra \in Runs
              /\ state.records # NoRun \/ (state.lock = infra /\ pc[infra] = "dead")
              /\ \A p \in Runs : pc[p] # "deleteState"
  BY <1>a DEF KeptInv
<1>1. ASSUME NEW r \in Runs, Bootstrap(r) \/ Beside(r) \/ Plan(r)
      PROVE  KeptInv'
  <2>1. /\ UNCHANGED <<infra, state>>
        /\ overlapped \subseteq overlapped'
        /\ pc'[r] # "deleteState" /\ \A p \in Runs : p # r => pc'[p] = pc[p]
    BY <1>a, <1>1, QuietMeans, PlanMeans, RunStepMeans DEF RunStep
  <2>2. pc[r] # "deleteState" /\ storage.group = "present" => storage'.group = "present"
    <3>1. CASE Bootstrap(r)
      BY <3>1, TypeParts DEF Bootstrap, Start, CreateGroup, ShowAccount, CreateAccount,
         UpdateAccount, ListRole, CreateRole, Wait, CreateContainer, azure, AzureType
    <3>2. CASE Beside(r) /\ ~DeleteState(r)
      BY <3>2 DEF Beside, TerraformInit, InitDenied, ReadOutput, Configure, ListEndpoints,
         DeleteEndpoint, EndpointsDeleted, Fail, azure
    <3>3. CASE DeleteState(r)
      BY <3>3 DEF DeleteState, Goto
    <3>4. CASE Plan(r)
      BY <3>4, PlanMeans DEF azure
    <3>5. QED
      BY <1>1, <3>1, <3>2, <3>3, <3>4
  <2>3. \A p \in Runs : pc[p] = "dead" => pc'[p] = "dead"
    BY DeadStays
  <2>4. QED
    BY <1>b, <2>1, <2>2, <2>3 DEF KeptInv
<1>2. ASSUME NEW r \in Runs, StartWork(r)
      PROVE  KeptInv'
  <2>1. /\ UNCHANGED <<infra, storage, overlapped>> /\ state.lock = NoRun
        /\ state'.records = state.records
        /\ pc'[r] # "deleteState" /\ \A p \in Runs : p # r => pc'[p] = pc[p]
    BY <1>a, <1>2, StartWorkMeans, TypeParts DEF StateType, azure, history
  <2>2. QED
    BY <1>a, <1>b, <2>1 DEF KeptInv
<1>3. ASSUME NEW r \in Runs, EndWork(r)
      PROVE  KeptInv'
  <2>1. /\ UNCHANGED <<storage, seen, overlapped>> /\ AtWork(r)
        /\ \A p \in Runs : p # r => pc'[p] = pc[p]
    BY <1>a, <1>3, EndWorkMeans
  <2>2. pc'[r] = "deleteState" => state.lock = r /\ pc[r] = "destroying"
    BY <1>a, <1>3, EndWorkMeans
  <2>3. CASE infra' = infra /\ Kept /\ state.lock = r
    <3>1. state.records # NoRun /\ ~(pc[r] = "destroying" /\ ~Removes(r))
      BY <1>b, <2>1, <2>3 DEF VersionInv, AtWork, Planned, Removes
    <3>2. \/ state' = state /\ pc'[r] = "dead"
          \/ state' = Saved(state.records) /\ pc'[r] = "failed"
          \/ infra' = r /\ state' = Saved(r) /\ pc'[r] \in {"failed", "outputs", "configure"}
      BY <1>a, <1>3, <2>3, <3>1, EndWorkMeans DEF Left
    <3>3. state'.records # NoRun /\ pc'[r] # "deleteState"
      BY <1>a, <3>1, <3>2 DEF Saved
    <3>4. QED
      BY <1>b, <2>1, <2>3, <3>3 DEF KeptInv
  <2>4. CASE infra' = infra /\ Kept /\ state.lock # r
    <3>1. state' = state
      BY <1>3, <2>4, EndWorkMeans DEF Left
    <3>2. infra = state.lock /\ pc[infra] = "dead" => pc'[infra] = "dead"
      BY <1>b, <2>4, DeadStays
    <3>3. QED
      BY <1>b, <2>1, <2>2, <2>4, <3>1, <3>2 DEF KeptInv
  <2>5. CASE infra' = r /\ infra' # infra /\ r \notin overlapped
    <3>1. storage.group = "present" /\ state.lock = r
      BY <2>1, <2>5 DEF AloneInv, AtWork, Provided
    <3>2. \A p \in Runs : p # r => pc[p] # "deleteState"
      BY <2>1, <2>5 DEF OverlapInv, UnderWay, AtWork, Finished
    <3>3. \/ state' = state /\ pc'[r] = "dead"
          \/ state' = Saved(r) /\ pc'[r] \in {"failed", "outputs", "configure"}
      BY <1>a, <1>3, <2>5, <3>1, EndWorkMeans DEF Left
    <3>4. state'.records # NoRun \/ (state'.lock = r /\ pc'[r] = "dead")
      BY <1>a, <3>1, <3>3 DEF Saved
    <3>5. QED
      BY <2>1, <2>5, <3>1, <3>2, <3>3, <3>4 DEF KeptInv
  <2>6. infra' \in {infra, r, NoRun}
    BY <1>3, EndWorkMeans
  <2>7. QED
    BY <2>1, <2>3, <2>4, <2>5, <2>6 DEF KeptInv
<1>4. CASE GroupGone
  BY <1>4, <1>b DEF GroupGone, KeptInv, history
<1>5. CASE Elsewhere
  BY <1>5, ElsewhereMeans DEF KeptInv
<1>6. QED
  BY <1>1, <1>2, <1>3, <1>4, <1>5, Steps

(* The version of the state does not go back.                               *)
LEMMA VersionGrows ==
  ASSUME TypeOK, [Next]_vars
  PROVE  state.version \in Nat /\ state'.version \in Nat /\ state.version <= state'.version
<1>1. state.version \in Nat
  BY TypeParts DEF StateType
<1>2. \A x : Saved(x).version = state.version + 1
  BY DEF Saved
<1>3. ASSUME NEW r \in Runs, RunStep(r)
      PROVE  state'.version \in {state.version, state.version + 1}
  <2>1. CASE Bootstrap(r) \/ Beside(r) \/ Plan(r)
    BY <2>1, QuietMeans, PlanMeans
  <2>2. CASE StartWork(r)
    BY <2>2, StartWorkMeans, TypeParts DEF StateType
  <2>3. CASE EndWork(r)
    BY <1>2, <2>3, EndWorkMeans DEF Left
  <2>4. QED
    BY <1>3, <2>1, <2>2, <2>3 DEF RunStep
<1>4. state'.version \in {state.version, state.version + 1}
  BY <1>2, <1>3, ElsewhereMeans, Steps DEF RunStep, GroupGone
<1>5. QED
  BY <1>1, <1>4

(* The outputs of a deployment remain newer than its plan, and its own if it*)
(* is unmarked: the state it reads was saved by its own apply, or later.    *)
LEMMA OutputsStep ==
  ASSUME TypeOK, VersionInv, \A r \in Runs \ overlapped : AloneInv(r), [Next]_vars,
         NEW q \in Deploys, OutputsInv(q)
  PROVE  OutputsInv(q)'
<1>a. /\ q \in Runs /\ DOMAIN pc = Runs /\ DOMAIN seen = Runs /\ DOMAIN out = Runs
      /\ seen[q].version \in Nat
      /\ state.version \in Nat /\ state'.version \in Nat /\ state.version <= state'.version
  BY TypeParts, VersionGrows DEF StageType, StateType, OutType, Runs
<1>b. ASSUME out'[q] = out[q], seen'[q] = seen[q], overlapped \subseteq overlapped',
             pc'[q] = pc[q] \/ (pc'[q] # "outputs" /\ (out[q] # <<>> => pc'[q] \in Finished))
      PROVE  OutputsInv(q)'
  BY <1>a, <1>b DEF OutputsInv
<1>1. ASSUME NEW r \in Runs, RunStep(r), r # q
      PROVE  OutputsInv(q)'
  <2>1. seen'[q] = seen[q]
    BY <1>a, <1>1, QuietMeans, PlanMeans, StartWorkMeans, EndWorkMeans DEF RunStep
  <2>2. out'[q] = out[q]
    <3>1. CASE Bootstrap(r)
      BY <3>1 DEF Bootstrap, Start, CreateGroup, ShowAccount, CreateAccount, UpdateAccount,
         ListRole, CreateRole, Wait, CreateContainer, local
    <3>2. CASE Beside(r)
      BY <1>a, <1>1, <3>2 DEF Beside, TerraformInit, InitDenied, ReadOutput, Configure,
         ListEndpoints, DeleteEndpoint, EndpointsDeleted, DeleteState, Fail, local
    <3>3. CASE Plan(r) \/ StartWork(r) \/ EndWork(r)
      BY <3>3, PlanMeans, StartWorkMeans, EndWorkMeans
    <3>4. QED
      BY <1>1, <3>1, <3>2, <3>3 DEF RunStep
  <2>3. QED
    BY <1>a, <1>1, <1>b, <2>1, <2>2, RunStepMeans
<1>2. CASE ReadOutput(q)
  <2>1. /\ pc[q] = "outputs" /\ UNCHANGED <<seen, state, overlapped>>
        /\ out'[q] = Append(out[q], Output(q)) /\ pc'[q] \in {"outputs", "done"}
    BY <1>2, <1>a DEF ReadOutput, history
  <2>2. out[q] \in Seq([version : Nat, run : Runs \union {NoRun}])
    BY <1>a, TypeParts DEF OutType
  <2>3. Output(q) \in [version : Nat, run : Runs \union {NoRun}]
    BY TypeParts DEF StateType, Output
  <2>4. DOMAIN out'[q] = DOMAIN out[q] \union {Len(out[q]) + 1}
        /\ out'[q][Len(out[q]) + 1] = Output(q)
        /\ \A i \in DOMAIN out[q] : i # Len(out[q]) + 1 /\ out'[q][i] = out[q][i]
    BY <2>1, <2>2, <2>3, AppendProperties, LenProperties
  <2>5. /\ Output(q).version > seen[q].version
        /\ q \notin overlapped => Output(q).run = q
    BY <1>a, <2>1 DEF OutputsInv, Output, AloneInv
  <2> HIDE DEF Output
  <2>6. \A i \in DOMAIN out'[q] :
           /\ out'[q][i].version > seen'[q].version
           /\ q \notin overlapped' => out'[q][i].run = q
    BY <2>1, <2>4, <2>5 DEF OutputsInv
  <2>7. QED
    BY <2>1, <2>6 DEF OutputsInv, Finished
<1>3. CASE Bootstrap(q) \/ (Beside(q) /\ ~ReadOutput(q))
  <2>1. seen' = seen /\ pc[q] \notin {"applying", "destroying"} \union Finished
    BY <1>a, <1>3, QuietMeans
  <2>2. /\ out' = out
        /\ pc'[q] = pc[q] \/ (pc'[q] # "outputs" /\ pc[q] # "outputs") \/ pc'[q] \in Finished
    <3>1. CASE Bootstrap(q)
      BY <1>a, <3>1 DEF Bootstrap, Start, CreateGroup, ShowAccount, CreateAccount,
         UpdateAccount, ListRole, CreateRole, Wait, CreateContainer, Goto, local
    <3>2. CASE Beside(q) /\ ~ReadOutput(q)
      BY <1>a, <3>2 DEF Beside, TerraformInit, InitDenied, Configure, ListEndpoints,
         DeleteEndpoint, EndpointsDeleted, DeleteState, Fail, Goto, local, Finished
    <3>3. QED
      BY <1>3, <3>1, <3>2
  <2>3. overlapped \subseteq overlapped'
    BY <1>a, <1>3, RunStepMeans DEF RunStep
  <2>4. out[q] # <<>> => pc[q] = "outputs"
    BY <2>1 DEF OutputsInv
  <2>5. QED
    BY <1>b, <2>1, <2>2, <2>3, <2>4 DEF Finished
<1>4. CASE Plan(q) \/ StartWork(q)
  <2>1. /\ out' = out /\ pc[q] \in {"plan", "apply", "destroy"}
        /\ pc'[q] \in {"done", "listEndpoints", "apply", "applying", "destroying"}
    BY <1>a, <1>4, PlanMeans, StartWorkMeans
  <2>2. out[q] = <<>>
    BY <2>1 DEF OutputsInv, Finished
  <2>3. QED
    BY <2>1, <2>2 DEF OutputsInv
<1>5. CASE EndWork(q)
  <2>1. /\ UNCHANGED <<out, seen>> /\ AtWork(q)
        /\ pc'[q] = "outputs" => state.lock = q /\ state' = Saved(q)
    BY <1>a, <1>5, EndWorkMeans DEF Left
  <2>2. out[q] = <<>>
    BY <2>1 DEF OutputsInv, AtWork, Finished
  <2>3. pc'[q] = "outputs" => seen[q].version < state'.version
    BY <1>a, <2>1 DEF VersionInv, Saved
  <2>4. QED
    BY <2>1, <2>2, <2>3 DEF OutputsInv
<1>6. CASE GroupGone
  BY <1>6, <1>b DEF GroupGone, local, history
<1>7. CASE Elsewhere
  BY <1>7, <1>b, ElsewhereMeans
<1>8. QED
  BY <1>1, <1>2, <1>3, <1>4, <1>5, <1>6, <1>7, Steps DEF RunStep

-----------------------------------------------------------------------------
(* The invariant holds of the initial state.                                *)
LEMMA InitInv == Init => IInv
<1> SUFFICES ASSUME Init PROVE IInv
  OBVIOUS
<1>1. TypeOK
  <2>1. <<>> \in Seq([version : Nat, run : Runs \union {NoRun}])
    BY EmptySeq
  <2>2. StageType /\ StateType /\ AzureType /\ OutType
    BY <2>1 DEF Init, StageType, StateType, AzureType, OutType, NoStorage
  <2>3. granting \subseteq Deploys
    BY DEF Init
  <2>4. QED
    BY <2>2, <2>3, TypeParts
<1>2. VersionInv /\ RecordedInv /\ LostInv /\ TemplateInv
  BY DEF Init, VersionInv, RecordedInv, LostInv, Lost, TemplateInv, AtWork, Planned
<1>3. OverlapInv /\ RoleInv /\ KeptInv /\ \A r \in Runs : AloneInv(r)
  BY DEF Init, OverlapInv, UnderWay, RoleInv, DeniedAfterCutWait, KeptInv, AloneInv, Provided,
     AtWork
<1>4. \A r \in Deploys : OutputsInv(r)
  BY DEF Init, OutputsInv, Runs
<1>5. QED
  BY <1>1, <1>2, <1>3, <1>4 DEF IInv

(* Every step keeps it.                                                     *)
LEMMA NextInv == IInv /\ [Next]_vars => IInv'
<1> SUFFICES ASSUME IInv, [Next]_vars PROVE IInv'
  OBVIOUS
<1> USE DEF IInv
<1>1. TypeOK' /\ VersionInv'
  BY TypeStep, VersionStep
<1>2. RecordedInv' /\ LostInv'
  BY <1>1, RecordedStep, LostStep
<1>3. TemplateInv' /\ OverlapInv' /\ RoleInv' /\ KeptInv'
  BY TemplateStep, OverlapStep, RoleStep, KeptStep
<1>4. \A r \in Runs \ overlapped' : AloneInv(r)'
  BY AloneStep
<1>5. \A r \in Deploys : OutputsInv(r)'
  BY OutputsStep
<1>6. QED
  BY <1>1, <1>2, <1>3, <1>4, <1>5

(* The layers together hold in every state of the runs.                     *)
THEOREM Inductive == Spec => []IInv
BY InitInv, NextInv, PTL DEF Spec

(* Every variable keeps its type.                                           *)
THEOREM TypeCorrect == Spec => []TypeOK
<1>1. IInv => TypeOK
  BY DEF IInv
<1>2. QED
  BY Inductive, <1>1, PTL

(* The storage of the state is not given up while resources exist that an   *)
(* unmarked run has made, whatever failed or died before.                   *)
THEOREM StateOutlivesCorrect == Spec => []StateOutlivesResources
<1>1. IInv => StateOutlivesResources
  BY DEF IInv, KeptInv, StateOutlivesResources
<1>2. QED
  BY Inductive, <1>1, PTL

(* Init is denied only to deployments that were given no principal, to runs *)
(* beside others, and after a wait was cut.                                 *)
THEOREM DeniedCorrect == Spec => []DeniedAfterCutWait
<1>1. IInv => DeniedAfterCutWait
  BY DEF IInv, RoleInv
<1>2. QED
  BY Inductive, <1>1, PTL

(* The outputs of a deployment are never older than its own apply, and its  *)
(* own unless another run was beside it.                                    *)
THEOREM OutputsCorrect == Spec => []OutputsNotOlder
<1>1. IInv => OutputsNotOlder
  BY DEF IInv, OutputsInv, OutputsNotOlder
<1>2. QED
  BY Inductive, <1>1, PTL

(* What an apply changes is what its plan was made of, even when it has     *)
(* lost the lock and the storage of its state was made again since.         *)
THEOREM AppliesPlannedCorrect == Spec => AppliesWhatItPlanned
<1>1. ASSUME IInv, [Next]_vars, NEW r \in Runs, infra' = r, infra' # infra
      PROVE  infra = seen[r].records
  <2>1. r # NoRun
    BY TerraformAssumption
  <2>2. PICK p \in Runs : EndWork(p)
    BY <1>1, Steps, QuietMeans, PlanMeans, StartWorkMeans, ElsewhereMeans DEF GroupGone, IInv
  <2>3. p = r /\ AtWork(r) /\ pc[r] = "applying" /\ Applicable(r)
    BY <1>1, <2>1, <2>2, EndWorkMeans DEF IInv
  <2>4. CASE seen[r].records = NoRun
    BY <2>3, <2>4 DEF Applicable
  <2>5. CASE seen[r].records # NoRun /\ state.lock # r
    BY <1>1, <2>3, <2>5 DEF IInv, LostInv, Lost
  <2>6. CASE seen[r].records # NoRun /\ state.lock = r
    <3>1. seen[r].records = state.records
      BY <1>1, <2>3, <2>6 DEF IInv, VersionInv, Planned, AtWork
    <3>2. ~DeadLock
      BY <2>3, <2>6 DEF DeadLock
    <3>3. QED
      BY <1>1, <2>6, <3>1, <3>2 DEF IInv, RecordedInv
  <2>7. QED
    BY <2>4, <2>5, <2>6
<1>2. IInv /\ [Next]_vars => [\A r \in Runs : infra' = r => infra = seen[r].records]_infra
  BY <1>1
<1>3. QED
  BY Inductive, <1>2, PTL DEF Spec, AppliesWhatItPlanned
=============================================================================
