------------------------------- MODULE CliJobs -------------------------------
(***************************************************************************)
(* Tasks of the Azure ML CLI v2 templates (templates/aml-cli-v2) that keep *)
(* something going between their az commands: run-pipeline.yml and its     *)
(* GitHub twin, which poll a job; test-deployment.yml and                  *)
(* run-genai-evaluation.yml, which stream one; and register-datastore.yml, *)
(* which looks a datastore up and then creates it.  Every job is its own   *)
(* task's; the datastore is everyone's.                                    *)
(*                                                                         *)
(* External: jobs, the answers about them, which may be empty or fail, and *)
(* the datastore, which a second create replaces or refuses.               *)
(***************************************************************************)
EXTENDS Naturals, FiniteSets

CONSTANTS Tasks,
          Children,    \* child jobs a tested job may have
          Parent,      \* stands for the job itself where it is diagnosed
          NoContainer,
          MaxJobs      \* bound on the tasks that have a job

ASSUME CliAssumption ==
  /\ Parent \notin Children /\ NoContainer \notin Tasks
  /\ MaxJobs \in Nat

VARIABLES
  kind,         \* the template each task runs
  pc,           \* the command each task is at
  status,       \* jobs: the status of each task's job
  streamFailed, \* what the task keeps of the end of its stream
  undiagnosed,  \* the jobs whose logs it has still to download
  container,    \* the container name a registration has settled on
  datastore,    \* workspace: the container of the datastore
  blind,        \* history: registrations whose look up failed
  overlapped    \* history: registrations that were under way beside another

job == <<status, streamFailed, undiagnosed>>
registration == <<container, datastore, blind, overlapped>>
vars == <<kind, pc, job, registration>>

Polling == {"pipeline", "workflow"}
Streaming == {"test", "evaluation"}
Kinds == Polling \union Streaming \union {"datastore"}

\* Running stands for the seven statuses the loop lists, Other for those it
\* does not list and that are no end: Provisioning, Paused, NotResponding.
Final == {"Completed", "Failed", "Canceled"}
Passing == {"Running", "Other"}
Empty == ""

Ended == {"passed", "failed"}

Init ==
  /\ kind \in [Tasks -> Kinds]
  /\ Cardinality({t \in Tasks : kind[t] # "datastore"}) <= MaxJobs
  /\ pc = [t \in Tasks |-> "start"]
  /\ status = [t \in Tasks |-> "none"]
  /\ streamFailed = [t \in Tasks |-> FALSE]
  /\ undiagnosed = [t \in Tasks |-> {}]
  /\ container = [t \in Tasks |-> NoContainer]
  /\ datastore = NoContainer
  /\ blind = {} /\ overlapped = {}

-----------------------------------------------------------------------------
Goto(t, from, to) ==
  /\ pc[t] = from
  /\ pc' = [pc EXCEPT ![t] = to]

(* az ml job create, or the invocation of a batch endpoint.  The job may be *)
(* there although the command fails or answers nothing.                     *)
Submit(t) ==
  /\ kind[t] # "datastore"
  /\ \E next \in {IF kind[t] \in Streaming THEN "stream" ELSE "firstStatus", "failed"} :
       Goto(t, "start", next)
  /\ status' = [status EXCEPT ![t] = "Running"]
  /\ UNCHANGED <<kind, streamFailed, undiagnosed, registration>>

\* Slip: only success ends the loop.
UnlessCompleted(answer) == answer # "Completed"
(* [[ ${running[*]} =~ $status ]]: an empty status matches, as a pattern.   *)
KeepsPolling(answer) == answer \in {"Running", Empty}

\* Slip: a job that has ended without failing will do.
UnlessFailed(answer) == IF answer \in {"Failed", "Canceled"} THEN "failed" ELSE "passed"
Verdict(answer) == IF answer = "Completed" THEN "passed" ELSE "failed"

(* The status is asked for and the loop entered; the GitHub workflow does   *)
(* not accept an empty first answer.                                        *)
FirstStatus(t) ==
  /\ \E answer \in {status[t], Empty} :
       Goto(t, "firstStatus",
            CASE answer = Empty /\ kind[t] = "workflow" -> "failed"
              [] KeepsPolling(answer) -> "poll"
              [] OTHER -> Verdict(answer))
  /\ UNCHANGED <<kind, job, registration>>

(* A round of the loop that ends it; the others, on a status that is listed *)
(* or empty, change nothing.                                                *)
PollEnds(t) ==
  /\ ~KeepsPolling(status[t])
  /\ Goto(t, "poll", Verdict(status[t]))
  /\ UNCHANGED <<kind, job, registration>>

(* az ml job stream lasts until the job ends, or breaks off.                *)
Stream(t) ==
  /\ Goto(t, "stream", "show")
  /\ streamFailed' \in {[streamFailed EXCEPT ![t] = x] :
                          x \in {TRUE} \union {y \in {FALSE} : status[t] = "Completed"}}
  /\ UNCHANGED <<kind, status, undiagnosed, registration>>

(* The status is asked for once.  A failed query leaves it empty.  The      *)
(* evaluation does not mind the end of the stream, and compares no metric.  *)
Show(t) ==
  /\ \E answer \in {status[t], Empty} :
       Goto(t, "show",
            CASE kind[t] = "evaluation" -> Verdict(answer)
              [] streamFailed[t] \/ Verdict(answer) = "failed" -> "list"
              [] OTHER -> "passed")
  /\ UNCHANGED <<kind, job, registration>>

(* The children that have not completed; none, or a failed list, stands for *)
(* the job itself.                                                          *)
ListChildren(t) ==
  /\ Goto(t, "list", "download")
  /\ \E found \in SUBSET Children :
       undiagnosed' = [undiagnosed EXCEPT ![t] = IF found = {} THEN {Parent} ELSE found]
  /\ UNCHANGED <<kind, status, streamFailed, registration>>

(* Their logs, one job after the other; a failed download is a warning.     *)
Download(t) ==
  /\ pc[t] = "download"
  /\ \E j \in undiagnosed[t] : undiagnosed' = [undiagnosed EXCEPT ![t] = @ \ {j}]
  /\ UNCHANGED <<kind, pc, status, streamFailed, registration>>

TestFails(t) ==
  /\ undiagnosed[t] = {}
  /\ Goto(t, "download", "failed")
  /\ UNCHANGED <<kind, job, registration>>

-----------------------------------------------------------------------------
Registering == {t \in Tasks : kind[t] = "datastore" /\ pc[t] = "create"}

\* Slip: every registration makes up a container.
AlwaysFresh(t, found) == t
\* Slip: nothing stands in for a name that was not found.
TakesWhatItFound(t, found) == found
(* A container name of the task's own, if none was found.                   *)
ChooseContainer(t, found) == IF found = NoContainer THEN t ELSE found

(* az ml datastore show || true: a look up that fails finds nothing.  A     *)
(* container_name that is given would be taken without a look (line 53).    *)
LookUp(t) ==
  /\ kind[t] = "datastore"
  /\ Goto(t, "start", "create")
  /\ \E fails \in BOOLEAN :
       /\ container' = [container EXCEPT
                          ![t] = ChooseContainer(t, IF fails THEN NoContainer ELSE datastore)]
       /\ blind' = IF fails THEN blind \union {t} ELSE blind
  /\ overlapped' = overlapped \union
       (IF Registering = {} THEN {} ELSE Registering \union {t})
  /\ UNCHANGED <<kind, job, datastore>>

(* az ml datastore create.                                                  *)
CreateDatastore(t) ==
  /\ pc[t] = "create"
  /\ \/ pc' = [pc EXCEPT ![t] = "passed"] /\ datastore' = container[t]
     \/ pc' = [pc EXCEPT ![t] = "failed"] /\ datastore' \in {datastore, container[t]}
  /\ UNCHANGED <<kind, job, container, blind, overlapped>>

-----------------------------------------------------------------------------
(* Any other command fails, under the set -e of most templates, or the task *)
(* is cancelled.  run-genai-evaluation.yml sets no -e: there only the empty *)
(* or wrong answer that a failed command leaves ends the task.              *)
Fail(t) ==
  /\ pc[t] \notin Ended
  /\ pc' = [pc EXCEPT ![t] = "failed"]
  /\ UNCHANGED <<kind, job, registration>>

JobChanges(t) ==
  /\ status[t] \in Passing
  /\ \E s \in (Passing \union Final) \ {status[t]} : status' = [status EXCEPT ![t] = s]
  /\ UNCHANGED <<kind, pc, streamFailed, undiagnosed, registration>>

Step(t) ==
  \/ Submit(t) \/ FirstStatus(t) \/ PollEnds(t)
  \/ Stream(t) \/ Show(t) \/ ListChildren(t) \/ Download(t) \/ TestFails(t)
  \/ LookUp(t) \/ CreateDatastore(t)

Next == \E t \in Tasks : Step(t) \/ Fail(t) \/ JobChanges(t)

Spec == Init /\ [][Next]_vars

(* Tasks go on, jobs end, and a status is not answered with nothing for     *)
(* ever.                                                                    *)
Fairness ==
  \A t \in Tasks : WF_vars(Step(t)) /\ WF_vars(JobChanges(t) /\ status'[t] \in Final)

FairSpec == Spec /\ Fairness

-----------------------------------------------------------------------------
(* Properties                                                               *)

(* Every variable has its type.                                             *)
TypeOK ==
  /\ kind \in [Tasks -> Kinds]
  /\ pc \in [Tasks -> {"start", "firstStatus", "poll", "stream", "show", "list", "download",
                       "create"} \union Ended]
  /\ status \in [Tasks -> {"none"} \union Passing \union Final]
  /\ streamFailed \in [Tasks -> BOOLEAN]
  /\ undiagnosed \in [Tasks -> SUBSET (Children \union {Parent})]
  /\ container \in [Tasks -> Tasks \union {NoContainer}]
  /\ \A t \in Tasks : pc[t] = "create" => container[t] \in Tasks
  /\ datastore \in Tasks \union {NoContainer}
  /\ blind \subseteq Tasks /\ overlapped \subseteq Tasks

(* A task that waits for a job passes only when the job has completed,      *)
(* whatever it was answered on the way, and whatever statuses the job went  *)
(* through that the loop does not list (run-pipeline.yml:50-73,             *)
(* test-deployment.yml:103-147).                                            *)
PassesOnlyCompleted ==
  \A t \in Tasks : kind[t] # "datastore" /\ pc[t] = "passed" => status[t] = "Completed"

(* A datastore keeps its container when it is registered again, unless the  *)
(* look up failed or another registration was under way                     *)
(* (register-datastore.yml:53-83): two first ones make up two containers.   *)
(* Registrations that are given a container_name (line 53) replace it       *)
(* without a look up and are left out.                                      *)
KeepsContainer ==
  [][datastore # NoContainer =>
       \E t \in overlapped \union blind : datastore' = container[t]]_datastore

(* Every task ends, on every status a job can end in; that not every answer *)
(* is empty is assumed (run-pipeline.yml:50-73, test-deployment.yml:94-147).*)
EveryTaskEnds == \A t \in Tasks : <>(pc[t] \in Ended)
=============================================================================
