----------------------------- MODULE PipelineV1 -----------------------------
(***************************************************************************)
(* The SDK v1 scripts (src/python-sdk-v1) as a pipeline that consumes the  *)
(* templates calls them: get_compute.py, deploy_training_pipeline.py or    *)
(* deploy_batch_scoring_pipeline.py, and with the pipeline_id these export *)
(* add_pipeline_to_endpoint.py and run_pipeline.py, in either order.  The  *)
(* published pipeline runs as a job, whose steps pass their results on     *)
(* through the default datastore; register_model.py is the last of them.   *)
(*                                                                         *)
(* External: the workspace (computes, pipeline endpoints, datasets, models)*)
(* and prep.py, train.py, evaluate.py and score.py of the consumer, of     *)
(* which evaluate.py decides about the deploy flag.                        *)
(***************************************************************************)
EXTENDS Naturals, Sequences, FiniteSets

CONSTANTS Runs,   \* runs of the consuming pipeline
          NoRun

ASSUME PipelineAssumption == NoRun \notin Runs

VARIABLES
  kind,      \* the pipeline a run publishes: training or batch
  pc,        \* the call each run is at
  todo,      \* the scripts with pipeline_id that it has still to start
  compute,   \* workspace: the compute target of each kind
  endpoint,  \* workspace: the pipeline endpoint of each kind
  job,       \* workspace: the job of each run
  finished,  \* workspace: the steps of that job that have finished
  stored,    \* datastore: what each directory holds
  flag,      \* the deploy flag of each job
  dataset,   \* workspace: the run of each version of the batch results
  models,    \* workspace: run and content of each model version
  evaluated  \* history: the model each evaluation was about

script == <<pc, todo>>
jobVars == <<job, finished, stored, flag, dataset, models, evaluated>>
vars == <<kind, script, compute, endpoint, jobVars>>

Kinds == {"training", "batch"}
Scripts == {"endpoint", "run"}
Ended == {"passed", "failed"}
JobEnds == {"completed", "failed", "canceled"}

NoContent == [run |-> NoRun, on |-> NoRun, explainer |-> NoRun]
NoEndpoint == [listed |-> {}, default |-> NoRun]
Artifacts == {"prepared_data", "trained_model", "explainer", "evaluation_results",
              "batch_results"}

(* The explainer has the destination of the trained model.                  *)
Directory(artifact) == IF artifact = "explainer" THEN "trained_model" ELSE artifact

\* Slip: the destination is the same for every run.
SharedPath(artifact, r) == <<Directory(artifact), NoRun>>

(* Where a run's steps put an artifact: the training destinations contain   *)
(* {run-id}, the one of the batch results is configured.                    *)
Path(artifact, r) ==
  <<Directory(artifact), IF artifact = "batch_results" THEN NoRun ELSE r>>

\* Slip: the training gets the prepared data by its path, not as an input.
PreparedByPath == [training |-> [prepare |-> {}, train |-> {},
                                 evaluate |-> {"prepare", "train"},
                                 register |-> {"train", "evaluate"}],
                   batch |-> [score |-> {}]]

(* The steps of a pipeline, each with those it takes its inputs from.       *)
After == [training |-> [prepare |-> {}, train |-> {"prepare"},
                        evaluate |-> {"prepare", "train"},
                        register |-> {"train", "evaluate"}],
          batch |-> [score |-> {}]]

Init ==
  /\ kind \in [Runs -> Kinds]
  /\ pc = [r \in Runs |-> "compute"]
  /\ todo = [r \in Runs |-> Scripts]
  /\ compute = [k \in Kinds |-> "none"]
  /\ endpoint = [k \in Kinds |-> NoEndpoint]
  /\ job = [r \in Runs |-> "none"]
  /\ finished = [r \in Runs |-> {}]
  /\ stored = [p \in Artifacts \X (Runs \union {NoRun}) |-> NoContent]
  /\ flag = [r \in Runs |-> 0]
  /\ dataset = <<>>
  /\ models = <<>>
  /\ evaluated = [r \in Runs |-> NoContent]

-----------------------------------------------------------------------------
Goto(r, from, to) ==
  /\ pc[r] = from
  /\ pc' = [pc EXCEPT ![r] = to]

(* get_compute.py: a compute target of that name is used whatever its state.*)
LookUpCompute(r) ==
  /\ Goto(r, "compute", IF compute[kind[r]] = "none" THEN "create" ELSE "publish")
  /\ UNCHANGED <<kind, todo, compute, endpoint, jobVars>>

(* ComputeTarget.create; a target another run has created since is kept.    *)
CreateCompute(r) ==
  /\ Goto(r, "create", "created")
  /\ compute' = [compute EXCEPT ![kind[r]] = IF @ = "none" THEN "creating" ELSE @]
  /\ UNCHANGED <<kind, todo, endpoint, jobVars>>

(* wait_for_completion returns after its timeout too.                       *)
ComputeWaited(r) ==
  /\ Goto(r, "created", "publish")
  /\ UNCHANGED <<kind, todo, compute, endpoint, jobVars>>

(* The pipeline is built, validated and published, its id exported.         *)
PublishPipeline(r) ==
  /\ Goto(r, "publish", "scripts")
  /\ UNCHANGED <<kind, todo, compute, endpoint, jobVars>>

StartScript(r) ==
  /\ \E s \in todo[r] :
       /\ Goto(r, "scripts", IF s = "endpoint" THEN "getEndpoint" ELSE "submit")
       /\ todo' = [todo EXCEPT ![r] = @ \ {s}]
  /\ UNCHANGED <<kind, compute, endpoint, jobVars>>

Pass(r) ==
  /\ todo[r] = {}
  /\ Goto(r, "scripts", "passed")
  /\ UNCHANGED <<kind, todo, compute, endpoint, jobVars>>

-----------------------------------------------------------------------------
(* add_pipeline_to_endpoint.py                                              *)

Made(k) == endpoint[k].default # NoRun

Listing(r) ==
  [endpoint EXCEPT ![kind[r]] = [listed |-> @.listed \union {r}, default |-> r]]

(* PipelineEndpoint.get: any exception is taken for absence.                *)
GetEndpoint(r) ==
  /\ \/ Made(kind[r]) /\ Goto(r, "getEndpoint", "addDefault")
     \/ Goto(r, "getEndpoint", "makeEndpoint")
  /\ UNCHANGED <<kind, todo, compute, endpoint, jobVars>>

(* add_default: its failure is taken for absence too, even when only the    *)
(* answer was lost.                                                         *)
AddDefault(r) ==
  /\ \/ Goto(r, "addDefault", "scripts") /\ endpoint' = Listing(r)
     \/ Goto(r, "addDefault", "makeEndpoint") /\ endpoint' \in {endpoint, Listing(r)}
  /\ UNCHANGED <<kind, todo, compute, jobVars>>

\* Slip: an endpoint that exists by now is taken for this run's.
TakesEndpointThatExists(r) ==
  /\ Goto(r, "makeEndpoint", "scripts")
  /\ endpoint' = IF Made(kind[r]) THEN endpoint ELSE Listing(r)
  /\ UNCHANGED <<kind, todo, compute, jobVars>>

(* PipelineEndpoint.publish, which an endpoint that exists by now refuses.  *)
MakeEndpoint(r) ==
  /\ \/ /\ ~Made(kind[r])
        /\ Goto(r, "makeEndpoint", "scripts")
        /\ endpoint' = Listing(r)
     \/ /\ Made(kind[r])
        /\ Goto(r, "makeEndpoint", "failed")
        /\ UNCHANGED endpoint
  /\ UNCHANGED <<kind, todo, compute, jobVars>>

-----------------------------------------------------------------------------
(* run_pipeline.py                                                          *)

Submit(r) ==
  /\ Goto(r, "submit", "wait")
  /\ job' = [job EXCEPT ![r] = "running"]
  /\ UNCHANGED <<kind, todo, compute, endpoint, finished, stored, flag, dataset,
                 models, evaluated>>

\* Slip: the script ends with the submission.
DoesNotWait(r) ==
  /\ Goto(r, "wait", "scripts")
  /\ UNCHANGED <<kind, todo, compute, endpoint, jobVars>>

(* wait_for_completion, which raises for a job that has failed; the status  *)
(* it returns for any other is not looked at.                               *)
JobEnded(r) ==
  /\ job[r] \in JobEnds
  /\ Goto(r, "wait", IF job[r] = "failed" THEN "failed" ELSE "scripts")
  /\ UNCHANGED <<kind, todo, compute, endpoint, jobVars>>

(* Any other exception, or a cancelled run; its job goes on.  After a call  *)
(* it is also the call that took effect and whose answer was lost.          *)
Abort(r) ==
  /\ pc[r] \notin Ended
  /\ pc' = [pc EXCEPT ![r] = "failed"]
  /\ UNCHANGED <<kind, todo, compute, endpoint, jobVars>>

-----------------------------------------------------------------------------
(* The job: a step runs once the steps it takes inputs from have finished.  *)

Ready(r, step) ==
  /\ job[r] = "running" /\ compute[kind[r]] = "ready"
  /\ step \in DOMAIN After[kind[r]] \ finished[r]
  /\ After[kind[r]][step] \subseteq finished[r]

Finishes(r, step) == finished' = [finished EXCEPT ![r] = @ \union {step}]

Put(artifact, r, content) == stored' = [stored EXCEPT ![Path(artifact, r)] = content]
Take(artifact, r) == stored[Path(artifact, r)]
Result(r, on) == [run |-> r, on |-> on, explainer |-> NoRun]

Prepare(r) ==
  /\ Ready(r, "prepare") /\ Finishes(r, "prepare")
  /\ Put("prepared_data", r, Result(r, r))
  /\ UNCHANGED <<kind, script, compute, endpoint, job, flag, dataset, models, evaluated>>

Train(r) ==
  /\ Ready(r, "train") /\ Finishes(r, "train")
  /\ Put("trained_model", r, Result(r, Take("prepared_data", r).run))
  /\ UNCHANGED <<kind, script, compute, endpoint, job, flag, dataset, models, evaluated>>

(* evaluate.py may leave an explainer; its upload then puts files beside or *)
(* over those of the model.                                                 *)
Evaluate(r) ==
  /\ Ready(r, "evaluate") /\ Finishes(r, "evaluate")
  /\ LET model == Take("trained_model", r) IN
       /\ evaluated' = [evaluated EXCEPT ![r] = model]
       /\ \E e \in {model.explainer, r} :
            stored' = [stored EXCEPT
                         ![Path("explainer", r)] = [@ EXCEPT !.explainer = e],
                         ![Path("evaluation_results", r)] = Result(r, model.run)]
  /\ flag' \in {flag, [flag EXCEPT ![r] = 1]}
  /\ UNCHANGED <<kind, script, compute, endpoint, job, dataset, models>>

(* register_model.py, after which the job is complete; the registration may *)
(* take effect and its step fail or be cancelled.                           *)
Register(r) ==
  /\ Ready(r, "register") /\ Finishes(r, "register")
  /\ models' = IF flag[r] = 1
               THEN Append(models, [by |-> r, what |-> Take("trained_model", r)])
               ELSE models
  /\ job' \in {[job EXCEPT ![r] = s] : s \in JobEnds}
  /\ UNCHANGED <<kind, script, compute, endpoint, stored, flag, dataset, evaluated>>

(* The parallel step; its results are registered on completion, as a new    *)
(* version that names the path.                                             *)
Score(r) ==
  /\ Ready(r, "score") /\ Finishes(r, "score")
  /\ Put("batch_results", r, Result(r, r))
  /\ \/ /\ job' = [job EXCEPT ![r] = "completed"]
        /\ dataset' = Append(dataset, r)
     \/ /\ job' \in {[job EXCEPT ![r] = s] : s \in {"failed", "canceled"}}
        /\ UNCHANGED dataset
  /\ UNCHANGED <<kind, script, compute, endpoint, flag, models, evaluated>>

(* A step fails, the job was sent to a compute target that is none, or      *)
(* somebody cancels the job.                                                *)
JobStops(r) ==
  /\ job[r] = "running"
  /\ job' \in {[job EXCEPT ![r] = s] : s \in {"failed", "canceled"}}
  /\ UNCHANGED <<kind, script, compute, endpoint, finished, stored, flag, dataset,
                 models, evaluated>>

(* External: the creation of a compute target ends.                         *)
ComputeSettles(k) ==
  /\ compute[k] = "creating"
  /\ compute' \in {[compute EXCEPT ![k] = s] : s \in {"ready", "failed"}}
  /\ UNCHANGED <<kind, script, endpoint, jobVars>>

Step(r) ==
  \/ LookUpCompute(r) \/ CreateCompute(r) \/ ComputeWaited(r) \/ PublishPipeline(r)
  \/ StartScript(r) \/ Pass(r)
  \/ GetEndpoint(r) \/ AddDefault(r) \/ MakeEndpoint(r)
  \/ Submit(r) \/ JobEnded(r)

JobStep(r) ==
  \/ Prepare(r) \/ Train(r) \/ Evaluate(r) \/ Register(r) \/ Score(r) \/ JobStops(r)

Next ==
  \/ \E r \in Runs : Step(r) \/ JobStep(r) \/ Abort(r)
  \/ \E k \in Kinds : ComputeSettles(k)

Spec == Init /\ [][Next]_vars

-----------------------------------------------------------------------------
(* Properties                                                               *)

Content == [{"run", "on", "explainer"} -> Runs \union {NoRun}]

\* A trained model, with or without an explainer.
Trained == [run : Runs, on : Runs, explainer : Runs \union {NoRun}]

(* Every variable has its type.                                             *)
TypeOK ==
  /\ kind \in [Runs -> Kinds]
  /\ pc \in [Runs -> {"compute", "create", "created", "publish", "scripts",
                      "getEndpoint", "addDefault", "makeEndpoint", "submit",
                      "wait"} \union Ended]
  /\ todo \in [Runs -> SUBSET Scripts]
  /\ compute \in [Kinds -> {"none", "creating", "ready", "failed"}]
  /\ endpoint \in [Kinds -> [listed : SUBSET Runs, default : Runs \union {NoRun}]]
  /\ job \in [Runs -> {"none", "running"} \union JobEnds]
  /\ \A r \in Runs : finished[r] \subseteq DOMAIN After[kind[r]]
  /\ stored \in [Artifacts \X (Runs \union {NoRun}) -> Content]
  /\ flag \in [Runs -> {0, 1}]
  /\ dataset \in Seq(Runs)
  /\ models \in Seq([by : Runs, what : Trained])
  /\ evaluated \in [Runs -> Content]

(* A registered model is made by its own job only: trained by it, on data   *)
(* it prepared itself, and by no other run's evaluation added to; and it is *)
(* that training which its job evaluated with the flag set, whatever other  *)
(* jobs store meanwhile.  What the own evaluation uploads as an explainer   *)
(* after it has read the model is registered with it                        *)
(* (deploy_training_pipeline.py:79-82, register_model.py:21-29).            *)
RegistersWhatItApproved ==
  \A v \in DOMAIN models :
    LET r == models[v].by
        model == models[v].what
    IN /\ model.run = r /\ model.on = r /\ model.explainer \in {NoRun, r}
       /\ evaluated[r] = [model EXCEPT !.explainer = NoRun]
       /\ flag[r] = 1

(* A run that passed has its own pipeline in the endpoint, although other   *)
(* runs make and move the endpoint and an exception is taken for absence;   *)
(* its job is over and has not failed, and unless it was cancelled it left  *)
(* behind what it is for: the model it approved, or a version of the        *)
(* results (add_pipeline_to_endpoint.py:20-30, run_pipeline.py:19-21).      *)
PassedIsReleased ==
  \A r \in Runs : pc[r] = "passed" =>
    /\ r \in endpoint[kind[r]].listed
    /\ job[r] \in {"completed", "canceled"}
    /\ job[r] = "completed" =>
         IF kind[r] = "batch"
         THEN \E v \in DOMAIN dataset : dataset[v] = r
         ELSE flag[r] = 1 => \E v \in DOMAIN models : models[v].by = r
=============================================================================
