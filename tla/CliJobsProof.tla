---------------------------- MODULE CliJobsProof ----------------------------
(***************************************************************************)
(* Proofs about the tasks of CliJobs.tla, for any number of tasks, any     *)
(* child jobs and any bound on the tasks that have a job.                  *)
(***************************************************************************)
EXTENDS CliJobs, TLAPS

(***************************************************************************)
(* A registration that saw what there was, and was under way alone, would  *)
(* create what it saw: the container of the datastore, or one of its own   *)
(* where there is no datastore.  Two that are under way are overlapped.    *)
(***************************************************************************)
Sees(t) ==
  pc[t] = "create" /\ t \notin overlapped \union blind =>
    container[t] = IF datastore = NoContainer THEN t ELSE datastore

RegistrationInv ==
  /\ \A t \in Tasks : pc[t] = "create" => kind[t] = "datastore"
  /\ \A t, u \in Tasks : t # u /\ pc[t] = "create" /\ pc[u] = "create" => t \in overlapped
  /\ \A t \in Tasks : Sees(t)

IInv == TypeOK /\ PassesOnlyCompleted /\ RegistrationInv

-----------------------------------------------------------------------------
(***************************************************************************)
(* The operators of the model.                                             *)
(***************************************************************************)

(* Every status has a verdict, and only "Completed" passes.                 *)
LEMMA VerdictMeans ==
  \A answer : /\ Verdict(answer) \in Ended
              /\ Verdict(answer) = "passed" => answer = "Completed"
BY DEF Verdict, Ended

(* The commands a task can be at.                                           *)
Places == {"start", "firstStatus", "poll", "stream", "show", "list", "download", "create"}
            \union Ended

(* The commands that wait for a job or look at how it went: none of them    *)
(* touches a registration or the status, and none of them passes unless the *)
(* job has completed.                                                       *)
Watching(t) ==
  FirstStatus(t) \/ PollEnds(t) \/ Stream(t) \/ Show(t) \/ ListChildren(t) \/ Download(t)
    \/ TestFails(t) \/ Fail(t)

LEMMA WatchingMeans ==
  ASSUME TypeOK, NEW t \in Tasks, Watching(t)
  PROVE  /\ UNCHANGED <<kind, status, registration>>
         /\ \E next \in Places \ {"start", "create"} :
              /\ pc' = [pc EXCEPT ![t] = next]
              /\ next = "passed" => status[t] = "Completed"
         /\ streamFailed' \in [Tasks -> BOOLEAN]
         /\ undiagnosed' \in [Tasks -> SUBSET (Children \union {Parent})]
<1>1. pc = [pc EXCEPT ![t] = pc[t]]
  BY DEF TypeOK
<1>2. streamFailed \in [Tasks -> BOOLEAN]
      /\ undiagnosed \in [Tasks -> SUBSET (Children \union {Parent})]
  BY DEF TypeOK
<1>3. CASE FirstStatus(t)
  <2>1. PICK answer \in {status[t], Empty} :
          LET next == CASE answer = Empty /\ kind[t] = "workflow" -> "failed"
                        [] KeepsPolling(answer) -> "poll"
                        [] OTHER -> Verdict(answer)
          IN pc' = [pc EXCEPT ![t] = next]
    BY <1>3 DEF FirstStatus, Goto
  <2> DEFINE next == CASE answer = Empty /\ kind[t] = "workflow" -> "failed"
                       [] KeepsPolling(answer) -> "poll"
                       [] OTHER -> Verdict(answer)
  <2>2. next \in {"failed", "poll", Verdict(answer)}
    OBVIOUS
  <2>3. next \in Places \ {"start", "create"}
    BY <2>2, VerdictMeans DEF Places, Ended
  <2>4. next = "passed" => status[t] = "Completed"
    BY <2>1, <2>2, VerdictMeans DEF Empty
  <2>5. pc' = [pc EXCEPT ![t] = next]
    BY <2>1
  <2> HIDE DEF next
  <2>6. QED
    BY <1>2, <1>3, <2>3, <2>4, <2>5 DEF FirstStatus, job, registration
<1>4. CASE PollEnds(t)
  <2>1. Verdict(status[t]) \in Places \ {"start", "create"}
    BY VerdictMeans DEF Places, Ended
  <2>2. QED
    BY <1>2, <1>4, <2>1, VerdictMeans DEF PollEnds, Goto, job, registration
<1>5. CASE Stream(t)
  <2>1. streamFailed' \in [Tasks -> BOOLEAN]
    BY <1>2, <1>5 DEF Stream
  <2>2. pc' = [pc EXCEPT ![t] = "show"] /\ "show" \in Places \ {"start", "create"}
    BY <1>5 DEF Stream, Goto, Places
  <2>3. QED
    BY <1>2, <1>5, <2>1, <2>2 DEF Stream
<1>6. CASE Show(t)
  <2>1. PICK answer \in {status[t], Empty} :
          LET next == CASE kind[t] = "evaluation" -> Verdict(answer)
                        [] streamFailed[t] \/ Verdict(answer) = "failed" -> "list"
                        [] OTHER -> "passed"
          IN pc' = [pc EXCEPT ![t] = next]
    BY <1>6 DEF Show, Goto
  <2> DEFINE next == CASE kind[t] = "evaluation" -> Verdict(answer)
                       [] streamFailed[t] \/ Verdict(answer) = "failed" -> "list"
                       [] OTHER -> "passed"
  <2>2. next \in {Verdict(answer), "list", "passed"}
    OBVIOUS
  <2>3. next = "passed" => Verdict(answer) = "passed"
    BY VerdictMeans DEF Ended
  <2>4. next \in Places \ {"start", "create"}
    BY <2>2, VerdictMeans DEF Places, Ended
  <2>5. next = "passed" => status[t] = "Completed"
    BY <2>1, <2>3, VerdictMeans DEF Empty
  <2>6. pc' = [pc EXCEPT ![t] = next]
    BY <2>1
  <2> HIDE DEF next
  <2>7. QED
    BY <1>2, <1>6, <2>4, <2>5, <2>6 DEF Show, job, registration
<1>7. CASE ListChildren(t)
  <2>1. undiagnosed' \in [Tasks -> SUBSET (Children \union {Parent})]
    BY <1>2, <1>7 DEF ListChildren
  <2>2. pc' = [pc EXCEPT ![t] = "download"] /\ "download" \in Places \ {"start", "create"}
    BY <1>7 DEF ListChildren, Goto, Places
  <2>3. QED
    BY <1>2, <1>7, <2>1, <2>2 DEF ListChildren
<1>8. CASE Download(t)
  <2>1. undiagnosed' \in [Tasks -> SUBSET (Children \union {Parent})]
    BY <1>2, <1>8 DEF Download
  <2>2. pc[t] = "download" /\ pc' = pc
    BY <1>8 DEF Download
  <2>3. QED
    BY <1>1, <1>2, <1>8, <2>1, <2>2 DEF Download, Places
<1>9. CASE TestFails(t)
  <2>1. pc' = [pc EXCEPT ![t] = "failed"] /\ "failed" \in Places \ {"start", "create"}
    BY <1>9 DEF TestFails, Goto, Places, Ended
  <2>2. QED
    BY <1>2, <1>9, <2>1 DEF TestFails, job
<1>10. CASE Fail(t)
  <2>1. pc' = [pc EXCEPT ![t] = "failed"] /\ "failed" \in Places \ {"start", "create"}
    BY <1>10 DEF Fail, Places, Ended
  <2>2. QED
    BY <1>2, <1>10, <2>1 DEF Fail, job
<1>11. QED
  BY <1>3, <1>4, <1>5, <1>6, <1>7, <1>8, <1>9, <1>10 DEF Watching

(* Every step is one of these.                                              *)
LEMMA Steps ==
  ASSUME Next
  PROVE  \E t \in Tasks : \/ Submit(t) \/ Watching(t)
                          \/ LookUp(t) \/ CreateDatastore(t) \/ JobChanges(t)
BY DEF Next, Step, Watching

-----------------------------------------------------------------------------
(***************************************************************************)
(* The invariant: its start, and one lemma per part that a step may        *)
(* disturb.                                                                *)
(***************************************************************************)

(* Before the first step, nothing is under way.                             *)
LEMMA InitInv == Init => IInv
<1> SUFFICES ASSUME Init PROVE IInv
  OBVIOUS
<1>1. TypeOK
  BY DEF Init, TypeOK, Passing
<1>2. PassesOnlyCompleted /\ RegistrationInv
  BY DEF Init, PassesOnlyCompleted, RegistrationInv, Sees
<1>3. QED
  BY <1>1, <1>2 DEF IInv

(* Every step keeps the types.                                              *)
LEMMA TypeStep == TypeOK /\ [Next]_vars => TypeOK'
<1> SUFFICES ASSUME TypeOK, [Next]_vars PROVE TypeOK'
  OBVIOUS
<1>1. CASE UNCHANGED vars
  BY <1>1 DEF TypeOK, vars, job, registration
<1>2. ASSUME NEW t \in Tasks, Submit(t) PROVE TypeOK'
  <2>1. PICK next \in {"stream", "firstStatus", "failed"} : pc' = [pc EXCEPT ![t] = next]
    BY <1>2 DEF Submit, Goto
  <2>2. status' \in [Tasks -> {"none"} \union Passing \union Final]
    BY <1>2 DEF Submit, TypeOK, Passing
  <2>3. QED
    BY <1>2, <2>1, <2>2 DEF Submit, TypeOK, Ended, registration
<1>3. ASSUME NEW t \in Tasks, Watching(t) PROVE TypeOK'
  <2>1. PICK next \in Places \ {"start", "create"} : pc' = [pc EXCEPT ![t] = next]
    BY <1>3, WatchingMeans
  <2>2. /\ UNCHANGED <<kind, status, registration>>
        /\ streamFailed' \in [Tasks -> BOOLEAN]
        /\ undiagnosed' \in [Tasks -> SUBSET (Children \union {Parent})]
    BY <1>3, WatchingMeans
  <2>3. QED
    BY <2>1, <2>2 DEF TypeOK, Places, registration
<1>4. ASSUME NEW t \in Tasks, LookUp(t) PROVE TypeOK'
  <2>1. PICK fails \in BOOLEAN :
          /\ container' = [container EXCEPT
                             ![t] = ChooseContainer(t, IF fails THEN NoContainer ELSE datastore)]
          /\ blind' = IF fails THEN blind \union {t} ELSE blind
    BY <1>4 DEF LookUp
  <2>2. ChooseContainer(t, IF fails THEN NoContainer ELSE datastore) \in Tasks
    BY DEF ChooseContainer, TypeOK
  <2>3. container' \in [Tasks -> Tasks \union {NoContainer}]
        /\ \A u \in Tasks : pc'[u] = "create" => container'[u] \in Tasks
    BY <1>4, <2>1, <2>2 DEF LookUp, Goto, TypeOK
  <2>4. blind' \subseteq Tasks /\ overlapped' \subseteq Tasks
    BY <1>4, <2>1 DEF LookUp, Registering, TypeOK
  <2>5. pc' = [pc EXCEPT ![t] = "create"] /\ UNCHANGED <<kind, job, datastore>>
    BY <1>4 DEF LookUp, Goto
  <2>6. QED
    BY <2>3, <2>4, <2>5 DEF TypeOK, job
<1>5. ASSUME NEW t \in Tasks, CreateDatastore(t) PROVE TypeOK'
  <2>1. datastore' \in Tasks \union {NoContainer}
    BY <1>5 DEF CreateDatastore, TypeOK
  <2>2. PICK next \in Ended : pc' = [pc EXCEPT ![t] = next]
    BY <1>5 DEF CreateDatastore, Ended
  <2>3. QED
    BY <1>5, <2>1, <2>2 DEF CreateDatastore, TypeOK, Ended, job
<1>6. ASSUME NEW t \in Tasks, JobChanges(t) PROVE TypeOK'
  <2>1. status' \in [Tasks -> {"none"} \union Passing \union Final]
    BY <1>6 DEF JobChanges, TypeOK
  <2>2. QED
    BY <1>6, <2>1 DEF JobChanges, TypeOK, registration
<1>7. QED
  BY <1>1, <1>2, <1>3, <1>4, <1>5, <1>6, Steps

(* Every step keeps what a task that passed says of its job: a job that has *)
(* completed stays so, and a task passes by looking at it.                  *)
LEMMA PassesStep == IInv /\ [Next]_vars => PassesOnlyCompleted'
<1> SUFFICES ASSUME IInv, [Next]_vars PROVE PassesOnlyCompleted'
  OBVIOUS
<1>1. TypeOK /\ PassesOnlyCompleted /\ RegistrationInv
  BY DEF IInv
<1>2. CASE UNCHANGED vars
  BY <1>1, <1>2 DEF PassesOnlyCompleted, vars, job
<1>3. ASSUME NEW t \in Tasks, Submit(t) PROVE PassesOnlyCompleted'
  BY <1>1, <1>3 DEF Submit, Goto, TypeOK, PassesOnlyCompleted
<1>4. ASSUME NEW t \in Tasks, Watching(t) PROVE PassesOnlyCompleted'
  <2>1. UNCHANGED <<kind, status>>
    BY <1>1, <1>4, WatchingMeans
  <2>2. PICK next \in Places :
          /\ pc' = [pc EXCEPT ![t] = next]
          /\ next = "passed" => status[t] = "Completed"
    BY <1>1, <1>4, WatchingMeans
  <2>3. QED
    BY <1>1, <2>1, <2>2 DEF TypeOK, PassesOnlyCompleted
<1>5. ASSUME NEW t \in Tasks, LookUp(t) PROVE PassesOnlyCompleted'
  BY <1>1, <1>5 DEF LookUp, Goto, job, TypeOK, PassesOnlyCompleted
<1>6. ASSUME NEW t \in Tasks, CreateDatastore(t) PROVE PassesOnlyCompleted'
  <2>1. kind[t] = "datastore"
    BY <1>1, <1>6 DEF CreateDatastore, RegistrationInv
  <2>2. QED
    BY <1>1, <1>6, <2>1 DEF CreateDatastore, job, TypeOK, PassesOnlyCompleted
<1>7. ASSUME NEW t \in Tasks, JobChanges(t) PROVE PassesOnlyCompleted'
  BY <1>1, <1>7 DEF JobChanges, Passing, TypeOK, PassesOnlyCompleted
<1>8. QED
  BY <1>2, <1>3, <1>4, <1>5, <1>6, <1>7, Steps

(* A step that leaves the registrations and brings none to its create keeps *)
(* what is known of them.                                                   *)
LEMMA SameRegistrations ==
  ASSUME RegistrationInv, UNCHANGED <<kind, registration>>,
         \A t \in Tasks : pc'[t] = "create" => pc[t] = "create"
  PROVE  RegistrationInv'
BY DEF RegistrationInv, Sees, registration

(* Every step keeps what is known of the registrations under way.           *)
LEMMA RegistrationStep == IInv /\ [Next]_vars => RegistrationInv'
<1> SUFFICES ASSUME IInv, [Next]_vars PROVE RegistrationInv'
  OBVIOUS
<1>1. TypeOK /\ RegistrationInv
  BY DEF IInv
<1>2. CASE UNCHANGED vars
  BY <1>1, <1>2, SameRegistrations DEF vars
<1>3. ASSUME NEW t \in Tasks, Submit(t) PROVE RegistrationInv'
  BY <1>1, <1>3, SameRegistrations DEF Submit, Goto, TypeOK
<1>4. ASSUME NEW t \in Tasks, Watching(t) PROVE RegistrationInv'
  <2>1. UNCHANGED <<kind, registration>>
    BY <1>1, <1>4, WatchingMeans
  <2>2. PICK next \in Places \ {"start", "create"} : pc' = [pc EXCEPT ![t] = next]
    BY <1>1, <1>4, WatchingMeans
  <2>3. \A u \in Tasks : pc'[u] = "create" => pc[u] = "create"
    BY <1>1, <2>2 DEF TypeOK
  <2>4. QED
    BY <1>1, <2>1, <2>3, SameRegistrations
<1>5. ASSUME NEW t \in Tasks, LookUp(t) PROVE RegistrationInv'
  <2>1. /\ kind[t] = "datastore" /\ pc[t] = "start"
        /\ pc' = [pc EXCEPT ![t] = "create"]
        /\ UNCHANGED <<kind, datastore>>
        /\ overlapped' = overlapped \union
             (IF Registering = {} THEN {} ELSE Registering \union {t})
    BY <1>5 DEF LookUp, Goto
  <2>2. PICK fails \in BOOLEAN :
          /\ container' = [container EXCEPT
                             ![t] = ChooseContainer(t, IF fails THEN NoContainer ELSE datastore)]
          /\ blind' = IF fails THEN blind \union {t} ELSE blind
    BY <1>5 DEF LookUp
  <2>3. \A u \in Tasks : u # t /\ pc[u] = "create" => u \in overlapped' /\ t \in overlapped'
    BY <1>1, <2>1 DEF Registering, RegistrationInv
  <2>4. ASSUME NEW u \in Tasks PROVE pc'[u] = "create" => kind'[u] = "datastore"
    BY <1>1, <2>1 DEF RegistrationInv, TypeOK
  <2>5. ASSUME NEW u \in Tasks, NEW v \in Tasks
        PROVE  u # v /\ pc'[u] = "create" /\ pc'[v] = "create" => u \in overlapped'
    BY <1>1, <2>1, <2>3 DEF TypeOK
  <2>6. ASSUME NEW u \in Tasks PROVE Sees(u)'
    <3>1. CASE u = t
      <4>1. CASE fails
        BY <2>2, <3>1, <4>1 DEF Sees
      <4>2. CASE ~fails
        <5>1. container'[t] = ChooseContainer(t, datastore)
          BY <1>1, <2>2, <4>2 DEF TypeOK
        <5>2. QED
          BY <2>1, <3>1, <5>1 DEF Sees, ChooseContainer
      <4>3. QED
        BY <4>1, <4>2
    <3>2. CASE u # t
      BY <1>1, <2>1, <2>3, <3>2 DEF Sees, TypeOK
    <3>3. QED
      BY <3>1, <3>2
  <2>7. QED
    BY <2>4, <2>5, <2>6 DEF RegistrationInv
<1>6. ASSUME NEW t \in Tasks, CreateDatastore(t) PROVE RegistrationInv'
  <2>1. pc[t] = "create" /\ UNCHANGED <<kind, container, blind, overlapped>>
    BY <1>6 DEF CreateDatastore
  <2>2. \A u \in Tasks : pc'[u] = "create" => u # t /\ pc[u] = "create" /\ u \in overlapped
    BY <1>1, <1>6 DEF CreateDatastore, RegistrationInv, TypeOK
  <2>3. \A u \in Tasks : Sees(u)'
    BY <2>1, <2>2 DEF Sees
  <2>4. QED
    BY <1>1, <2>1, <2>2, <2>3 DEF RegistrationInv
<1>7. ASSUME NEW t \in Tasks, JobChanges(t) PROVE RegistrationInv'
  BY <1>1, <1>7, SameRegistrations DEF JobChanges
<1>8. QED
  BY <1>2, <1>3, <1>4, <1>5, <1>6, <1>7, Steps

(* Every step keeps the invariant.                                          *)
LEMMA NextInv == IInv /\ [Next]_vars => IInv'
BY TypeStep, PassesStep, RegistrationStep DEF IInv

-----------------------------------------------------------------------------
(***************************************************************************)
(* The theorems.                                                           *)
(***************************************************************************)

(* The invariant holds in every state of every behaviour of the tasks.      *)
THEOREM Inductive == Spec => []IInv
<1>1. QED
  BY InitInv, NextInv, PTL DEF Spec

(* Every variable keeps its type: a registration that comes to its create   *)
(* (register-datastore.yml:64-83) has a container name to create it with.   *)
THEOREM TypeCorrect == Spec => []TypeOK
<1>1. IInv => TypeOK
  BY DEF IInv
<1>2. QED
  BY <1>1, Inductive, PTL

(* No task that waits for a job passes unless the job has completed, with   *)
(* any answers on the way, empty ones included (run-pipeline.yml:50-73,     *)
(* test-deployment.yml:103-147).                                            *)
THEOREM PassesCorrect == Spec => []PassesOnlyCompleted
<1>1. IInv => PassesOnlyCompleted
  BY DEF IInv
<1>2. QED
  BY <1>1, Inductive, PTL

(* A datastore that exists changes its container only at the create of a    *)
(* registration that overlapped another or whose look up failed             *)
(* (register-datastore.yml:53-83).                                          *)
THEOREM ContainerCorrect == Spec => KeepsContainer
<1> DEFINE Kept == datastore # NoContainer =>
                     \E t \in overlapped \union blind : datastore' = container[t]
<1>1. IInv /\ [Next]_vars => [Kept]_datastore
  <2> SUFFICES ASSUME IInv, [Next]_vars, datastore' # datastore, datastore # NoContainer
               PROVE  \E t \in overlapped \union blind : datastore' = container[t]
    OBVIOUS
  <2>1. TypeOK /\ RegistrationInv
    BY DEF IInv
  <2>2. PICK t \in Tasks : CreateDatastore(t)
    <3>1. Next
      BY DEF vars, registration
    <3>2. \A t \in Tasks : Submit(t) \/ Watching(t) \/ LookUp(t) \/ JobChanges(t)
                             => datastore' = datastore
      BY <2>1, WatchingMeans DEF Submit, LookUp, JobChanges, registration
    <3>3. QED
      BY <3>1, <3>2, Steps
  <2>3. pc[t] = "create" /\ datastore' = container[t]
    BY <2>2 DEF CreateDatastore
  <2>4. t \in overlapped \union blind
    BY <2>1, <2>3 DEF RegistrationInv, Sees
  <2>5. QED
    BY <2>3, <2>4
<1>2. QED
  BY <1>1, Inductive, PTL DEF Spec, KeepsContainer

-----------------------------------------------------------------------------
(* The safe part of EveryTaskEnds.                                          *)
Stage(t) ==
  CASE pc[t] = "start" -> 0
    [] pc[t] \in {"firstStatus", "stream", "create"} -> 1
    [] pc[t] \in {"poll", "show"} -> 2
    [] pc[t] = "list" -> 3
    [] pc[t] = "download" -> 4
    [] OTHER -> 5

Further(t) ==
  \/ Stage(t)' > Stage(t)
  \/ /\ pc' = pc
     /\ \E j \in undiagnosed[t] : undiagnosed'[t] = undiagnosed[t] \ {j}

Advance ==
  \E t \in Tasks :
    /\ Further(t)
    /\ \A u \in Tasks \ {t} : pc'[u] = pc[u] /\ undiagnosed'[u] = undiagnosed[u]

(* Every step of a task, which leaves the others where they are, takes it   *)
(* to a later command or to one job less whose logs it has to download: no  *)
(* answer, however often it is empty, and no broken stream takes it back    *)
(* (run-pipeline.yml:50-73, test-deployment.yml:103-147).                   *)
AlwaysFurther == [][Advance]_<<pc, undiagnosed>>

(* The commands but for the list and the downloads.                         *)
LEMMA TaskGoesFurther ==
  ASSUME TypeOK, NEW t \in Tasks,
         Submit(t) \/ FirstStatus(t) \/ PollEnds(t) \/ Stream(t) \/ Show(t) \/ TestFails(t)
           \/ LookUp(t) \/ CreateDatastore(t) \/ Fail(t)
  PROVE  Advance
<1>1. undiagnosed' = undiagnosed
  BY DEF Submit, FirstStatus, PollEnds, Stream, Show, TestFails, LookUp, CreateDatastore, Fail,
     job
<1>2. ASSUME NEW to, pc' = [pc EXCEPT ![t] = to],
             \/ pc[t] = "start" /\ to # "start" /\ to \in Places
             \/ pc[t] = "firstStatus" /\ to \in {"poll"} \union Ended
             \/ pc[t] = "stream" /\ to = "show"
             \/ pc[t] = "show" /\ to \in {"list"} \union Ended
             \/ pc[t] \notin Ended /\ to \in Ended
      PROVE  Advance
  <2>1. Stage(t)' > Stage(t)
    BY <1>2 DEF TypeOK, Stage, Places, Ended
  <2>2. \A u \in Tasks \ {t} : pc'[u] = pc[u]
    BY <1>2 DEF TypeOK
  <2>3. QED
    BY <1>1, <2>1, <2>2 DEF Further, Advance
<1>3. CASE Submit(t) \/ LookUp(t)
  <2>1. \E to \in {"stream", "firstStatus", "failed", "create"} :
          pc[t] = "start" /\ pc' = [pc EXCEPT ![t] = to]
    BY <1>3 DEF Submit, LookUp, Goto
  <2>2. QED
    BY <1>2, <2>1 DEF Places, Ended
<1>4. CASE FirstStatus(t)
  <2>1. pc[t] = "firstStatus"
        /\ \E to \in {"poll", "failed"} \union {Verdict(answer) : answer \in {status[t], Empty}} :
             pc' = [pc EXCEPT ![t] = to]
    BY <1>4 DEF FirstStatus, Goto
  <2>2. QED
    BY <1>2, <2>1, VerdictMeans DEF Ended
<1>5. CASE Show(t)
  <2>1. pc[t] = "show"
        /\ \E to \in {"list", "passed"} \union {Verdict(answer) : answer \in {status[t], Empty}} :
             pc' = [pc EXCEPT ![t] = to]
    BY <1>5 DEF Show, Goto
  <2>2. QED
    BY <1>2, <2>1, VerdictMeans DEF Ended
<1>6. CASE Stream(t)
  BY <1>2, <1>6 DEF Stream, Goto
<1>7. CASE PollEnds(t) \/ TestFails(t) \/ CreateDatastore(t) \/ Fail(t)
  <2>1. pc[t] \notin Ended /\ \E to \in Ended : pc' = [pc EXCEPT ![t] = to]
    BY <1>7, VerdictMeans DEF PollEnds, TestFails, CreateDatastore, Fail, Goto, Ended
  <2>2. QED
    BY <1>2, <2>1
<1>8. QED
  BY <1>3, <1>4, <1>5, <1>6, <1>7

(* Every step of a task is progress, for any number of tasks, jobs and      *)
(* registrations.                                                           *)
THEOREM AlwaysFurtherCorrect == Spec => AlwaysFurther
<1>1. TypeOK /\ [Next]_vars => [Advance]_<<pc, undiagnosed>>
  <2> SUFFICES ASSUME TypeOK, [Next]_vars, <<pc, undiagnosed>>' # <<pc, undiagnosed>>
               PROVE  Advance
    OBVIOUS
  <2>1. ASSUME NEW t \in Tasks, ListChildren(t) PROVE Advance
    <3>1. \E x : undiagnosed' = [undiagnosed EXCEPT ![t] = x]
      BY <2>1 DEF ListChildren
    <3>2. Stage(t)' > Stage(t) /\ \A u \in Tasks \ {t} : pc'[u] = pc[u]
      BY <2>1 DEF ListChildren, Goto, TypeOK, Stage
    <3>3. QED
      BY <3>1, <3>2 DEF TypeOK, Further, Advance
  <2>2. ASSUME NEW t \in Tasks, Download(t) PROVE Advance
    BY <2>2 DEF Download, TypeOK, Further, Advance
  <2>3. ASSUME NEW t \in Tasks, JobChanges(t) PROVE FALSE
    BY <2>3 DEF JobChanges
  <2>4. ~ UNCHANGED vars
    BY DEF vars, job
  <2>5. QED
    BY <2>1, <2>2, <2>3, <2>4, TaskGoesFurther DEF Next, Step
<1>2. QED
  BY TypeCorrect, <1>1, PTL DEF Spec, AlwaysFurther
=============================================================================
