-------------------------- MODULE TrainingContract --------------------------
(***************************************************************************)
(* What may be relied on when several runs train and register under one    *)
(* model name: the versions are the outputs of completed jobs, one at most *)
(* of each run, and stay as they are; a run names its job before its model *)
(* is registered, and, if it names a version, its own, once and for all.   *)
(* TrainRegister.tla implements this.                                      *)
(***************************************************************************)
EXTENDS Naturals, Sequences

CONSTANT Runs   \* the training runs, one job each

VARIABLES completed,  \* the runs whose job has completed
          models,     \* the run whose output each version is, in order
          output      \* what each run has told the steps after it

vars == <<completed, models, output>>

Init ==
  /\ completed = {}
  /\ models = <<>>
  /\ output = [r \in Runs |-> [job |-> FALSE, version |-> 0]]

Complete(r) ==
  /\ completed' = completed \union {r}
  /\ UNCHANGED <<models, output>>

NameJob(r) ==
  /\ output[r].version = 0
  /\ output' = [output EXCEPT ![r].job = TRUE]
  /\ UNCHANGED <<completed, models>>

Register(r) ==
  /\ r \in completed /\ output[r].job
  /\ \A v \in DOMAIN models : models[v] # r
  /\ models' = Append(models, r)
  /\ UNCHANGED <<completed, output>>

NameVersion(r) ==
  /\ output[r].version = 0
  /\ \E v \in DOMAIN models :
       /\ models[v] = r
       /\ output' = [output EXCEPT ![r].version = v]
  /\ UNCHANGED <<completed, models>>

Next == \E r \in Runs : Complete(r) \/ NameJob(r) \/ Register(r) \/ NameVersion(r)

Spec == Init /\ [][Next]_vars
=============================================================================
