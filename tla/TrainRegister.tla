---------------------------- MODULE TrainRegister ----------------------------
(***************************************************************************)
(* Training and registration of a model: train_and_register_model.run with *)
(* wait_for_job and its diagnostics (aml_client.py), by several workflow   *)
(* runs, or attempts of one, that register under one model name.           *)
(*                                                                         *)
(* External: the jobs, the model registry and the file GITHUB_OUTPUT.  A   *)
(* job may pause, or stop answering, and go on later; it ends once.  The   *)
(* registry gives every model put without a version the next version.      *)
(***************************************************************************)
EXTENDS Diagnostics, FiniteSets

CONSTANTS Runs,      \* runs of train_and_register_model.py, one job each
          Children,  \* child jobs a job may have
          Parent     \* stands for the job itself where it is diagnosed

ASSUME TrainAssumption == Parent \notin Children

VARIABLES
  pc,          \* where each run is
  status,      \* jobs: the status of each run's job
  models,      \* registry: the run whose output each version is, in order
  reply,       \* the version a registration was answered with
  output,      \* GITHUB_OUTPUT of each run
  undiagnosed, \* the jobs print_job_diagnostics has still to visit
  diagnosed,   \* history: those it has visited
  failing,     \* history: the failed children it listed
  reports      \* history: what it printed about the jobs it visited

vars == <<pc, status, models, reply, output, undiagnosed, diagnosed, failing, reports>>
external == <<status, models>>
diagnostics == <<undiagnosed, diagnosed, failing, reports>>

FailedStatuses == {"Failed", "Canceled", "NotResponding"}
TerminalStatuses == {"Completed", "Paused"} \union FailedStatuses
\* The statuses no job leaves, and those it may.
Final == {"Completed", "Failed", "Canceled"}
Passing == {"Running", "Paused", "NotResponding"}

\* raised: the job's status was bad; aborted: anything else, or cancelled.
Stopped == {"done", "raised", "aborted"}
NoOutput == [job |-> FALSE, version |-> 0]

Init ==
  /\ pc = [r \in Runs |-> "submit"]
  /\ status = [r \in Runs |-> "none"]
  /\ models = <<>>
  /\ reply = [r \in Runs |-> 0]
  /\ output = [r \in Runs |-> NoOutput]
  /\ undiagnosed = [r \in Runs |-> {}]
  /\ diagnosed = [r \in Runs |-> {}]
  /\ failing = [r \in Runs |-> {}]
  /\ reports = [r \in Runs |-> {}]

-----------------------------------------------------------------------------
Goto(r, from, to) ==
  /\ pc[r] = from
  /\ pc' = [pc EXCEPT ![r] = to]

(* jobs.create_or_update, then the first write to GITHUB_OUTPUT.            *)
Submit(r) ==
  /\ Goto(r, "submit", "announce")
  /\ status' = [status EXCEPT ![r] = "Running"]
  /\ UNCHANGED <<models, reply, output, diagnostics>>

Announce(r) ==
  /\ Goto(r, "announce", "wait")
  /\ output' = [output EXCEPT ![r].job = TRUE]
  /\ UNCHANGED <<external, reply, diagnostics>>

\* Slip: only the failed statuses raise.
PassesUnfinished(r) ==
  /\ status[r] \in TerminalStatuses
  /\ Goto(r, "wait", IF status[r] \in FailedStatuses THEN "list" ELSE "register")
  /\ UNCHANGED <<external, reply, output, diagnostics>>

\* Slip: nothing but success ends the loop.
WaitsForSuccess(r) ==
  /\ status[r] = "Completed"
  /\ Goto(r, "wait", "register")
  /\ UNCHANGED <<external, reply, output, diagnostics>>

(* wait_for_job: a status it takes for terminal ends the loop; all but      *)
(* Completed lead to the diagnostics and an exception.                      *)
JobEnded(r) ==
  /\ status[r] \in TerminalStatuses
  /\ Goto(r, "wait", IF status[r] = "Completed" THEN "register" ELSE "list")
  /\ UNCHANGED <<external, reply, output, diagnostics>>

(* print_job_diagnostics: the children that failed, or, when there are none *)
(* or they cannot be listed, the job itself.                                *)
ListChildren(r) ==
  /\ Goto(r, "list", "diagnose")
  /\ \E failed \in SUBSET Children :
       /\ failing' = [failing EXCEPT ![r] = failed]
       /\ undiagnosed' = [undiagnosed EXCEPT
                            ![r] = IF failed = {} THEN {Parent} ELSE failed]
  /\ UNCHANGED <<external, reply, output, diagnosed, reports>>

\* Slip: a job whose diagnostics cannot be downloaded ends them all.
StopsAtFailedDownload(r) ==
  /\ pc[r] = "diagnose"
  /\ \E j \in undiagnosed[r] :
       /\ undiagnosed' \in {[undiagnosed EXCEPT ![r] = @ \ {j}],
                           [undiagnosed EXCEPT ![r] = {}]}
       /\ diagnosed' = [diagnosed EXCEPT ![r] = @ \union {j}]
  /\ UNCHANGED <<external, pc, reply, output, failing, reports>>

(* _download_and_print_job_diagnostics, with whatever the downloads bring   *)
(* (Diagnostics.tla).  A failure is printed and the next job is visited.    *)
Diagnose(r) ==
  /\ pc[r] = "diagnose"
  /\ \E j \in undiagnosed[r], report \in Reports :
       /\ undiagnosed' = [undiagnosed EXCEPT ![r] = @ \ {j}]
       /\ diagnosed' = [diagnosed EXCEPT ![r] = @ \union {j}]
       /\ reports' = [reports EXCEPT ![r] = @ \union {report}]
  /\ UNCHANGED <<external, pc, reply, output, failing>>

Raise(r) ==
  /\ undiagnosed[r] = {}
  /\ Goto(r, "diagnose", "raised")
  /\ UNCHANGED <<external, reply, output, diagnostics>>

\* Slip: a registration without an answer is sent again.
RegistersAgain(r) ==
  /\ pc[r] \in {"register", "registering"} /\ reply[r] = 0
  /\ pc' = [pc EXCEPT ![r] = "registering"]
  /\ Cardinality({v \in DOMAIN models : models[v] = r}) < 2
  /\ models' = Append(models, r)
  /\ \/ reply' = [reply EXCEPT ![r] = Len(models')]
     \/ UNCHANGED reply
  /\ UNCHANGED <<status, output, diagnostics>>

(* models.create_or_update reaches the registry; its answer may be lost.    *)
Register(r) ==
  /\ Goto(r, "register", "registering")
  /\ models' = Append(models, r)
  /\ \/ reply' = [reply EXCEPT ![r] = Len(models')]
     \/ UNCHANGED reply
  /\ UNCHANGED <<status, output, diagnostics>>

\* Slip: the latest version is looked up instead.
PublishesLatest(r) ==
  /\ reply[r] # 0
  /\ Goto(r, "registering", "done")
  /\ output' = [output EXCEPT ![r].version = Len(models)]
  /\ UNCHANGED <<external, reply, diagnostics>>

\* Slip: the version is counted up, not taken from the answer.
PublishesNext(r) ==
  /\ reply[r] # 0
  /\ Goto(r, "registering", "done")
  /\ output' = [output EXCEPT ![r].version = reply[r] + 1]
  /\ UNCHANGED <<external, reply, diagnostics>>

(* The version in the answer is written to GITHUB_OUTPUT.                   *)
Publish(r) ==
  /\ reply[r] # 0
  /\ Goto(r, "registering", "done")
  /\ output' = [output EXCEPT ![r].version = reply[r]]
  /\ UNCHANGED <<external, reply, diagnostics>>

(* Any other exception, the answer that was lost, or a cancelled run.       *)
Abort(r) ==
  /\ pc[r] \notin Stopped
  /\ pc' = [pc EXCEPT ![r] = "aborted"]
  /\ UNCHANGED <<external, reply, output, diagnostics>>

(* External: a job that has not ended changes its status.                   *)
JobChanges(r) ==
  /\ status[r] \in Passing
  /\ \E s \in (Passing \union Final) \ {status[r]} : status' = [status EXCEPT ![r] = s]
  /\ UNCHANGED <<pc, models, reply, output, diagnostics>>

Step(r) ==
  \/ Submit(r) \/ Announce(r) \/ JobEnded(r) \/ ListChildren(r)
  \/ Diagnose(r) \/ Raise(r) \/ Register(r) \/ Publish(r)

Next == \E r \in Runs : Step(r) \/ Abort(r) \/ JobChanges(r)

Spec == Init /\ [][Next]_vars

(* The script runs, a lost answer is noticed, and every job ends.           *)
Fairness ==
  \A r \in Runs :
    /\ WF_vars(Step(r))
    /\ WF_vars(pc[r] = "registering" /\ reply[r] = 0 /\ Abort(r))
    /\ WF_vars(JobChanges(r) /\ status'[r] \in Final)

FairSpec == Spec /\ Fairness

-----------------------------------------------------------------------------
(* Properties                                                               *)

(* Every variable has its type.                                             *)
TypeOK ==
  /\ pc \in [Runs -> {"submit", "announce", "wait", "list", "diagnose",
                      "register", "registering"} \union Stopped]
  /\ status \in [Runs -> {"none", "Running"} \union TerminalStatuses]
  /\ models \in Seq(Runs)
  /\ reply \in [Runs -> 0 .. Len(models)]
  /\ output \in [Runs -> [job : BOOLEAN, version : 0 .. Len(models)]]
  /\ undiagnosed \in [Runs -> SUBSET (Children \union {Parent})]
  /\ diagnosed \in [Runs -> SUBSET (Children \union {Parent})]
  /\ failing \in [Runs -> SUBSET Children]
  /\ reports \in [Runs -> SUBSET [over : Nat, silent : SUBSET {"read", "unread"}]]

(* The outputs of a run name the model its own job produced, whatever other *)
(* runs register meanwhile (train_and_register_model.py:32-54).             *)
OutputsNameOwnModel ==
  \A r \in Runs : output[r].version # 0 =>
    /\ models[output[r].version] = r
    /\ output[r].job

(* No version is the output of a job that has not completed, although a job *)
(* may be found in a status it leaves again.                                *)
OnlyCompletedRegistered == \A v \in DOMAIN models : status[models[v]] = "Completed"

(* A run registers its model once at most, its answer lost or not.          *)
RegistersOnce ==
  \A v, w \in DOMAIN models : models[v] = models[w] => v = w

(* A run that raises for its job has visited every child it found failed,   *)
(* or the job itself, whatever failed on the way; about each it printed no  *)
(* more than the limit and the note of one cut, and of what it read of the  *)
(* files it left no excerpt and no error out without a word.  Of what is    *)
(* past MAX_DIAGNOSTIC_FILE_BYTES in a file the code never says a word      *)
(* (aml_client.py:338-362, 418-455, 492-502).                               *)
EveryFailureDiagnosed ==
  \A r \in Runs : pc[r] = "raised" =>
    /\ diagnosed[r] = (IF failing[r] = {} THEN {Parent} ELSE failing[r])
    /\ \A report \in reports[r] : report.over <= MarkerChars /\ "read" \notin report.silent

(* The runs together keep the promise of TrainingContract, answers lost or  *)
(* not: one version of each completed job at most, never taken back, and    *)
(* outputs that name it (train_and_register_model.py:30-56).                *)
Contract == INSTANCE TrainingContract WITH
  completed <- {r \in Runs : status[r] = "Completed"}
KeepsContract == Contract!Spec

(* Every run ends: each status wait_for_job stops at is one jobs reach.     *)
EveryRunEnds == \A r \in Runs : <>(pc[r] \in Stopped)

(* templates/python-sdk-v2/README.md:128-129: the wait is for a "terminal   *)
(* job state"; the job of a run that raised would not complete afterwards.  *)
WaitsForTerminalState ==
  \A r \in Runs : pc[r] = "raised" => status[r] # "Completed"
=============================================================================
