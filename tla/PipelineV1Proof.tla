--------------------------- MODULE PipelineV1Proof ---------------------------
(***************************************************************************)
(* Proofs about the SDK v1 pipelines of PipelineV1.tla, for every set of   *)
(* runs and whichever pipelines they publish.                              *)
(***************************************************************************)
EXTENDS PipelineV1, SequenceTheorems, TLAPS

JobSteps == {"prepare", "train", "evaluate", "register", "score"}

TypeInv ==
  /\ TypeOK
  /\ finished \in [Runs -> SUBSET JobSteps]

(***************************************************************************)
(* What the finished steps of a job have left at the paths of its run, on  *)
(* which the steps after them rely: only the job itself writes there, and  *)
(* to the model only its evaluation, an explainer, once it has read it.    *)
(***************************************************************************)
Own(r) == Result(r, r)
OwnModels(r) == {Own(r), [Own(r) EXCEPT !.explainer = r]}

JobInv(r) ==
  /\ "prepare" \in finished[r] => Take("prepared_data", r) = Own(r)
  /\ "train" \in finished[r] => Take("trained_model", r) \in OwnModels(r)
  /\ "train" \in finished[r] /\ "evaluate" \notin finished[r] =>
       Take("trained_model", r) = Own(r)
  /\ "evaluate" \in finished[r] => "train" \in finished[r] /\ evaluated[r] = Own(r)
  /\ "register" \in finished[r] => "evaluate" \in finished[r]
  /\ flag[r] = 1 => "evaluate" \in finished[r]
  /\ job[r] = "completed" =>
       IF kind[r] = "batch"
       THEN \E v \in DOMAIN dataset : dataset[v] = r
       ELSE /\ "register" \in finished[r]
            /\ flag[r] = 1 => \E v \in DOMAIN models : models[v].by = r

(***************************************************************************)
(* Models come from the last step of a job, which is after its evaluation. *)
(***************************************************************************)
ModelsInv ==
  \A v \in DOMAIN models :
    LET r == models[v].by IN
      /\ models[v].what \in OwnModels(r)
      /\ flag[r] = 1

(***************************************************************************)
(* A script that a run has started and left, other than by failing, has    *)
(* done its work.                                                          *)
(***************************************************************************)
ScriptsInv(r) ==
  /\ "endpoint" \notin todo[r]
       /\ pc[r] \notin {"getEndpoint", "addDefault", "makeEndpoint", "failed"} =>
       r \in endpoint[kind[r]].listed
  /\ "run" \notin todo[r] /\ pc[r] \notin {"submit", "wait", "failed"} =>
       job[r] \in {"completed", "canceled"}
  /\ pc[r] = "passed" => todo[r] = {}

IInv ==
  /\ TypeInv
  /\ \A r \in Runs : JobInv(r) /\ ScriptsInv(r)
  /\ ModelsInv

-----------------------------------------------------------------------------
(* The steps of the two pipelines and their inputs, as a table.             *)
LEMMA AfterTable ==
  /\ DOMAIN After["training"] = {"prepare", "train", "evaluate", "register"}
  /\ After["training"]["prepare"] = {}
  /\ After["training"]["train"] = {"prepare"}
  /\ After["training"]["evaluate"] = {"prepare", "train"}
  /\ After["training"]["register"] = {"train", "evaluate"}
  /\ DOMAIN After["batch"] = {"score"}
BY DEF After

(* When a step is ready, those it takes its inputs from have finished.      *)
LEMMA ReadyMeans ==
  ASSUME TypeInv, NEW r \in Runs, NEW step \in JobSteps, Ready(r, step)
  PROVE  /\ job[r] = "running" /\ step \notin finished[r]
         /\ kind[r] = "batch" <=> step = "score"
         /\ step \in DOMAIN After[kind[r]]
         /\ step = "train" => "prepare" \in finished[r]
         /\ step = "evaluate" => {"prepare", "train"} \subseteq finished[r]
         /\ step = "register" => {"train", "evaluate"} \subseteq finished[r]
<1> USE AfterTable DEF TypeInv, TypeOK, Ready, Kinds, JobSteps
<1>1. CASE kind[r] = "training"
  BY <1>1
<1>2. CASE kind[r] = "batch"
  BY <1>2
<1>3. QED
  BY <1>1, <1>2

(* A step marks itself, and nothing else, as finished.                      *)
LEMMA FinishesMeans ==
  ASSUME TypeInv, NEW r \in Runs, NEW step \in JobSteps, Finishes(r, step)
  PROVE  /\ finished' \in [Runs -> SUBSET JobSteps]
         /\ finished'[r] = finished[r] \union {step}
         /\ \A q \in Runs \ {r} : finished'[q] = finished[q]
BY DEF TypeInv, Finishes

(* The results and models of a run are contents.                            *)
LEMMA OwnContents ==
  ASSUME NEW r \in Runs, NEW m \in OwnModels(r)
  PROVE  /\ m \in Content /\ m \in Trained /\ Own(r) \in Content
         /\ m.run = r /\ m.on = r /\ m.explainer \in {NoRun, r}
         /\ [m EXCEPT !.explainer = NoRun] = Own(r)
BY DEF OwnModels, Own, Result, Content, Trained

(* A result is stored in one directory, and the directories of the training *)
(* results of two runs differ.                                              *)
LEMMA PutMeans ==
  ASSUME TypeInv, NEW r \in Runs, NEW artifact \in Artifacts \ {"explainer"},
         NEW content \in Content, Put(artifact, r, content)
  PROVE  /\ stored' \in [Artifacts \X (Runs \union {NoRun}) -> Content]
         /\ Take(artifact, r)' = content
         /\ \A q \in Runs, b \in {"prepared_data", "trained_model"} :
              b # artifact \/ q # r => Take(b, q)' = Take(b, q)
<1> DEFINE Paths == Artifacts \X (Runs \union {NoRun})
<1>1. \A q \in Runs, b \in Artifacts : Path(b, q) \in Paths
  BY DEF Path, Directory, Artifacts
<1>2. stored \in [Paths -> Content] /\ stored' = [stored EXCEPT ![Path(artifact, r)] = content]
  BY DEF TypeInv, TypeOK, Put
<1>3. \A q \in Runs, b \in {"prepared_data", "trained_model"} :
        b # artifact \/ q # r => Path(b, q) # Path(artifact, r)
  BY DEF Path, Directory, Artifacts
<1>4. {"prepared_data", "trained_model"} \subseteq Artifacts
  BY DEF Artifacts
<1> HIDE DEF Paths
<1>5. stored' \in [Paths -> Content] /\ stored'[Path(artifact, r)] = content
  BY <1>1, <1>2
<1>6. \A p \in Paths : p # Path(artifact, r) => stored'[p] = stored[p]
  BY <1>2
<1>7. QED
  BY <1>1, <1>3, <1>4, <1>5, <1>6 DEF Take, Paths

(* An evaluation leaves the run's model, explained or not, and results in a *)
(* directory of their own.                                                  *)
EvaluationPuts(r, m) ==
  stored' = [stored EXCEPT ![Path("explainer", r)] = m,
                           ![Path("evaluation_results", r)] = Own(r)]

(* Only the model of its own run can be changed by an evaluation.           *)
LEMMA EvaluationMeans ==
  ASSUME TypeInv, NEW r \in Runs, NEW m \in OwnModels(r), EvaluationPuts(r, m)
  PROVE  /\ stored' \in [Artifacts \X (Runs \union {NoRun}) -> Content]
         /\ Take("trained_model", r)' = m
         /\ \A q \in Runs : /\ Take("prepared_data", q)' = Take("prepared_data", q)
                            /\ q # r => Take("trained_model", q)' = Take("trained_model", q)
<1>0. PICK M, R : M = Path("trained_model", r) /\ R = Path("evaluation_results", r)
  OBVIOUS
<1> DEFINE Paths == Artifacts \X (Runs \union {NoRun})
<1>1. /\ \A q \in Runs, b \in Artifacts : Path(b, q) \in Paths
      /\ {"prepared_data", "trained_model", "evaluation_results"} \subseteq Artifacts
  BY DEF Path, Directory, Artifacts
<1>2. M = Path("explainer", r) /\ M # R
  BY <1>0 DEF Path, Directory
<1>3. /\ stored \in [Paths -> Content]
      /\ stored' = [stored EXCEPT ![M] = m, ![R] = Own(r)]
  BY <1>0, <1>2 DEF TypeInv, TypeOK, EvaluationPuts
<1>4. \A q \in Runs : /\ Path("prepared_data", q) \notin {M, R}
                      /\ q # r => Path("trained_model", q) \notin {M, R}
  BY <1>0 DEF Path, Directory
<1>5. M \in Paths /\ R \in Paths
  BY <1>0, <1>1
<1>6. m \in Content /\ Own(r) \in Content
  BY OwnContents
<1>7. \A q \in Runs : Path("prepared_data", q) \in Paths /\ Path("trained_model", q) \in Paths
  BY <1>1
<1> HIDE DEF Paths
<1>8. stored' \in [Paths -> Content] /\ stored'[M] = m
  BY <1>2, <1>3, <1>5, <1>6
<1>9. \A p \in Paths : p \notin {M, R} => stored'[p] = stored[p]
  BY <1>3, <1>5
<1>10. Take("trained_model", r)' = m
  BY <1>0, <1>8 DEF Take, Path, Directory
<1>11. ASSUME NEW q \in Runs
       PROVE  /\ Take("prepared_data", q)' = Take("prepared_data", q)
              /\ q # r => Take("trained_model", q)' = Take("trained_model", q)
  <2>1. stored'[Path("prepared_data", q)] = stored[Path("prepared_data", q)]
    BY <1>4, <1>7, <1>9
  <2>2. q # r => stored'[Path("trained_model", q)] = stored[Path("trained_model", q)]
    BY <1>4, <1>7, <1>9
  <2>3. QED
    BY <2>1, <2>2 DEF Take, Path
<1>12. QED
  BY <1>8, <1>10, <1>11 DEF Paths

(* One more element at the end of a sequence.                               *)
LEMMA OneMore ==
  ASSUME NEW S, NEW s \in Seq(S), NEW e \in S
  PROVE  /\ Append(s, e) \in Seq(S)
         /\ DOMAIN s = 1 .. Len(s) /\ Len(s) \in Nat
         /\ DOMAIN Append(s, e) = 1 .. Len(s) + 1
         /\ \A v \in DOMAIN s : v \in DOMAIN Append(s, e) /\ Append(s, e)[v] = s[v]
         /\ Append(s, e)[Len(s) + 1] = e
         /\ \A v \in DOMAIN Append(s, e) : v \in DOMAIN s \/ v = Len(s) + 1
<1>1. Append(s, e) \in Seq(S) /\ Len(s) \in Nat /\ Len(Append(s, e)) = Len(s) + 1
  BY AppendProperties, LenProperties
<1>2. DOMAIN s = 1 .. Len(s) /\ DOMAIN Append(s, e) = 1 .. Len(s) + 1
  BY <1>1, LenProperties
<1>3. \A v \in 1 .. Len(s) : Append(s, e)[v] = s[v]
  BY AppendProperties
<1>4. Append(s, e)[Len(s) + 1] = e
  BY AppendProperties
<1>5. QED
  BY <1>1, <1>2, <1>3, <1>4

(* The elements of a sequence over S are of S.                              *)
LEMMA EachElement ==
  ASSUME NEW S, NEW s \in Seq(S)
  PROVE  \A i \in DOMAIN s : s[i] \in S
<1>1. DOMAIN s = 1 .. Len(s)
  BY LenProperties
<1>2. QED
  BY <1>1, ElementOfSeq

-----------------------------------------------------------------------------
(* A script leaves the jobs alone, but for the one that submits one.        *)
JobsAlone(r) ==
  \/ LookUpCompute(r) \/ CreateCompute(r) \/ ComputeWaited(r) \/ PublishPipeline(r)
  \/ StartScript(r) \/ Pass(r) \/ GetEndpoint(r) \/ AddDefault(r) \/ MakeEndpoint(r)
  \/ JobEnded(r) \/ Abort(r)

(* Every step is one of these.                                              *)
LEMMA Steps ==
  [Next]_vars =>
    \/ \E r \in Runs : JobsAlone(r) \/ Submit(r) \/ JobStep(r)
    \/ \E k \in Kinds : ComputeSettles(k)
    \/ UNCHANGED vars
BY DEF Next, Step, JobsAlone

(* Steps of the scripts keep the types.                                     *)
LEMMA ScriptTypes ==
  ASSUME TypeInv, NEW r \in Runs, JobsAlone(r) \/ Submit(r)
  PROVE  TypeInv'
<1> USE DEF TypeInv, TypeOK, Ended, jobVars, Goto
<1>1. CASE LookUpCompute(r) \/ ComputeWaited(r) \/ PublishPipeline(r) \/ Pass(r) \/ JobEnded(r)
             \/ Abort(r)
  BY <1>1 DEF LookUpCompute, ComputeWaited, PublishPipeline, Pass, JobEnded, Abort
<1>2. CASE CreateCompute(r)
  BY <1>2 DEF CreateCompute
<1>3. CASE StartScript(r)
  BY <1>3 DEF StartScript, Scripts
<1>4. Listing(r) \in [Kinds -> [listed : SUBSET Runs, default : Runs \union {NoRun}]]
  BY DEF Listing
<1>5. CASE GetEndpoint(r) \/ AddDefault(r) \/ MakeEndpoint(r)
  BY <1>4, <1>5 DEF GetEndpoint, AddDefault, MakeEndpoint
<1>6. CASE Submit(r)
  BY <1>6 DEF Submit
<1>7. QED
  BY <1>1, <1>2, <1>3, <1>5, <1>6 DEF JobsAlone

(* What the steps of a job do, with their inputs resolved.                  *)
PrepareDone(r) ==
  /\ Ready(r, "prepare") /\ Finishes(r, "prepare")
  /\ Put("prepared_data", r, Own(r))
  /\ UNCHANGED <<job, flag, dataset, models, evaluated>>

TrainDone(r) ==
  /\ Ready(r, "train") /\ Finishes(r, "train")
  /\ Put("trained_model", r, Own(r))
  /\ UNCHANGED <<job, flag, dataset, models, evaluated>>

EvaluateDone(r) ==
  /\ Ready(r, "evaluate") /\ Finishes(r, "evaluate")
  /\ evaluated' = [evaluated EXCEPT ![r] = Own(r)]
  /\ \E m \in OwnModels(r) : EvaluationPuts(r, m)
  /\ flag' \in {flag, [flag EXCEPT ![r] = 1]}
  /\ UNCHANGED <<job, dataset, models>>

RegisterDone(r) ==
  /\ Ready(r, "register") /\ Finishes(r, "register")
  /\ IF flag[r] = 1
     THEN \E m \in OwnModels(r) : models' = Append(models, [by |-> r, what |-> m])
     ELSE models' = models
  /\ job' \in {[job EXCEPT ![r] = s] : s \in JobEnds}
  /\ UNCHANGED <<stored, flag, dataset, evaluated>>

ScoreDone(r) ==
  /\ Ready(r, "score") /\ Finishes(r, "score")
  /\ Put("batch_results", r, Own(r))
  /\ \/ job' = [job EXCEPT ![r] = "completed"] /\ dataset' = Append(dataset, r)
     \/ /\ job' \in {[job EXCEPT ![r] = s] : s \in {"failed", "canceled"}}
        /\ UNCHANGED dataset
  /\ UNCHANGED <<flag, models, evaluated>>

JobStopped(r) ==
  /\ job[r] = "running"
  /\ job' \in {[job EXCEPT ![r] = s] : s \in {"failed", "canceled"}}
  /\ UNCHANGED <<finished, stored, flag, dataset, models, evaluated>>

JobDone(r) ==
  \/ PrepareDone(r) \/ TrainDone(r) \/ EvaluateDone(r) \/ RegisterDone(r) \/ ScoreDone(r)
  \/ JobStopped(r)

(* Every step of a job is one of these.                                     *)
LEMMA JobStepMeans ==
  ASSUME TypeInv, NEW r \in Runs, JobInv(r), JobStep(r)
  PROVE  JobDone(r) /\ UNCHANGED <<kind, pc, todo, compute, endpoint>>
<1> USE DEF JobSteps, script
<1>1. CASE Prepare(r)
  BY <1>1 DEF Prepare, Own, PrepareDone, JobDone
<1>2. CASE Train(r)
  <2>1. Take("prepared_data", r) = Own(r)
    BY <1>2, ReadyMeans DEF Train, JobInv
  <2>2. QED
    BY <1>2, <2>1 DEF Train, Own, Result, TrainDone, JobDone
<1>3. CASE Evaluate(r)
  <2>1. Take("trained_model", r) = Own(r)
    BY <1>3, ReadyMeans DEF Evaluate, JobInv
  <2>2. stored[Path("explainer", r)] = Own(r)
    BY <2>1 DEF Take, Path, Directory
  <2>3. \E m \in OwnModels(r) : EvaluationPuts(r, m)
    <3>1. Own(r).run = r /\ Own(r).explainer = NoRun
      BY DEF Own, Result
    <3>2. PICK e \in {NoRun, r} :
            stored' = [stored EXCEPT
                         ![Path("explainer", r)] = [@ EXCEPT !.explainer = e],
                         ![Path("evaluation_results", r)] = Own(r)]
      BY <1>3, <2>1, <3>1 DEF Evaluate, Own
    <3>3. EvaluationPuts(r, [Own(r) EXCEPT !.explainer = e])
      BY <2>2, <3>2 DEF EvaluationPuts
    <3>4. [Own(r) EXCEPT !.explainer = e] \in OwnModels(r)
      BY DEF OwnModels, Own, Result
    <3>5. QED
      BY <3>3, <3>4
  <2>4. QED
    BY <1>3, <2>1, <2>3 DEF Evaluate, EvaluateDone, JobDone
<1>4. CASE Register(r)
  <2>1. Take("trained_model", r) \in OwnModels(r)
    BY <1>4, ReadyMeans DEF Register, JobInv
  <2>2. QED
    BY <1>4, <2>1 DEF Register, RegisterDone, JobDone
<1>5. CASE Score(r)
  BY <1>5 DEF Score, Own, ScoreDone, JobDone
<1>6. CASE JobStops(r)
  BY <1>6 DEF JobStops, JobStopped, JobDone
<1>7. QED
  BY <1>1, <1>2, <1>3, <1>4, <1>5, <1>6 DEF JobStep

(* Steps of a job keep the types.                                           *)
LEMMA JobTypes ==
  ASSUME TypeInv, NEW r \in Runs, JobInv(r), JobStep(r)
  PROVE  TypeInv'
<1> USE DEF JobDone, PrepareDone, TrainDone, EvaluateDone, RegisterDone, ScoreDone, JobStopped
<1>1. Own(r) \in Content
  BY OwnContents DEF OwnModels
<1>2. \A m \in OwnModels(r) : [by |-> r, what |-> m] \in [by : Runs, what : Trained]
  BY OwnContents
<1>3. UNCHANGED <<kind, pc, todo, compute, endpoint>>
  BY JobStepMeans
<1>4. finished' \in [Runs -> SUBSET JobSteps]
  <2>1. finished' = finished \/ \E step \in JobSteps : Finishes(r, step)
    BY JobStepMeans DEF JobSteps
  <2>2. QED
    BY <2>1, FinishesMeans DEF TypeInv
<1>5. \A q \in Runs : finished'[q] \subseteq DOMAIN After[kind'[q]]
  <2>1. \/ finished' = finished
        \/ \E step \in JobSteps : Ready(r, step) /\ Finishes(r, step)
    BY JobStepMeans DEF JobSteps
  <2>2. \A q \in Runs : finished[q] \subseteq DOMAIN After[kind[q]]
    BY DEF TypeInv, TypeOK
  <2>3. CASE finished' = finished
    BY <1>3, <2>2, <2>3
  <2>4. CASE \E step \in JobSteps : Ready(r, step) /\ Finishes(r, step)
    <3>1. PICK step \in JobSteps : Ready(r, step) /\ Finishes(r, step)
      BY <2>4
    <3>2. step \in DOMAIN After[kind[r]]
      BY <3>1, ReadyMeans
    <3>3. /\ finished'[r] = finished[r] \union {step}
          /\ \A q \in Runs \ {r} : finished'[q] = finished[q]
      BY <3>1, FinishesMeans
    <3>4. QED
      BY <1>3, <2>2, <3>2, <3>3
  <2>5. QED
    BY <2>1, <2>3, <2>4
<1>6. stored' \in [Artifacts \X (Runs \union {NoRun}) -> Content]
  <2>1. \/ stored' = stored
        \/ \E artifact \in Artifacts \ {"explainer"} : Put(artifact, r, Own(r))
        \/ \E m \in OwnModels(r) : EvaluationPuts(r, m)
    BY JobStepMeans DEF Artifacts
  <2>2. QED
    BY <1>1, <2>1, PutMeans, EvaluationMeans DEF TypeInv, TypeOK
<1>7. dataset' \in Seq(Runs)
  <2>1. dataset' = dataset \/ dataset' = Append(dataset, r)
    BY JobStepMeans
  <2>2. dataset \in Seq(Runs)
    BY DEF TypeInv, TypeOK
  <2>3. Append(dataset, r) \in Seq(Runs)
    BY <2>2, OneMore
  <2>4. QED
    BY <2>1, <2>2, <2>3
<1>8. models' \in Seq([by : Runs, what : Trained])
  <2>1. \/ models' = models
        \/ \E m \in OwnModels(r) : models' = Append(models, [by |-> r, what |-> m])
    BY JobStepMeans
  <2>2. models \in Seq([by : Runs, what : Trained])
    BY DEF TypeInv, TypeOK
  <2>3. \A m \in OwnModels(r) :
          Append(models, [by |-> r, what |-> m]) \in Seq([by : Runs, what : Trained])
    BY <1>2, <2>2, OneMore
  <2>4. QED
    BY <2>1, <2>2, <2>3
<1>9. job' \in [Runs -> {"none", "running"} \union JobEnds]
  <2>1. job' = job \/ \E s \in JobEnds : job' = [job EXCEPT ![r] = s]
    BY JobStepMeans DEF JobEnds
  <2>2. QED
    BY <2>1 DEF TypeInv, TypeOK
<1>10. flag' \in [Runs -> {0, 1}] /\ evaluated' \in [Runs -> Content]
  <2>1. /\ flag' = flag \/ flag' = [flag EXCEPT ![r] = 1]
        /\ evaluated' = evaluated \/ evaluated' = [evaluated EXCEPT ![r] = Own(r)]
    BY JobStepMeans
  <2>2. flag \in [Runs -> {0, 1}] /\ evaluated \in [Runs -> Content]
    BY DEF TypeInv, TypeOK
  <2>3. QED
    BY <1>1, <2>1, <2>2
<1>11. QED
  BY <1>3, <1>4, <1>5, <1>6, <1>7, <1>8, <1>9, <1>10 DEF TypeInv, TypeOK

(* Every variable keeps its type.                                           *)
LEMMA TypeStep ==
  TypeInv /\ (\A r \in Runs : JobInv(r)) /\ [Next]_vars => TypeInv'
<1> SUFFICES ASSUME TypeInv, \A r \in Runs : JobInv(r), [Next]_vars PROVE TypeInv'
  OBVIOUS
<1>1. ASSUME NEW k \in Kinds, ComputeSettles(k)
      PROVE  TypeInv'
  BY <1>1 DEF ComputeSettles, TypeInv, TypeOK, script, jobVars
<1>2. CASE UNCHANGED vars
  BY <1>2 DEF vars, script, jobVars, TypeInv, TypeOK
<1>3. QED
  BY <1>1, <1>2, ScriptTypes, JobTypes, Steps

-----------------------------------------------------------------------------
(* What a job step leaves to the other runs.                                *)
LEMMA OthersKeep ==
  ASSUME TypeInv, NEW r \in Runs, JobInv(r), JobStep(r), NEW q \in Runs \ {r}
  PROVE  /\ finished'[q] = finished[q]
         /\ Take("prepared_data", q)' = Take("prepared_data", q)
         /\ Take("trained_model", q)' = Take("trained_model", q)
         /\ UNCHANGED <<evaluated[q], flag[q], job[q], kind[q]>>
<1> USE DEF JobDone, PrepareDone, TrainDone, EvaluateDone, RegisterDone, ScoreDone, JobStopped
<1>1. Own(r) \in Content
  BY OwnContents DEF OwnModels
<1>2. finished'[q] = finished[q]
  <2>1. finished' = finished \/ \E step \in JobSteps : Finishes(r, step)
    BY JobStepMeans DEF JobSteps
  <2>2. QED
    BY <2>1, FinishesMeans
<1>3. /\ Take("prepared_data", q)' = Take("prepared_data", q)
      /\ Take("trained_model", q)' = Take("trained_model", q)
  <2>1. \/ stored' = stored
        \/ \E artifact \in Artifacts \ {"explainer"} : Put(artifact, r, Own(r))
        \/ \E m \in OwnModels(r) : EvaluationPuts(r, m)
    BY JobStepMeans DEF Artifacts
  <2>2. CASE stored' = stored
    BY <2>2 DEF Take, Path
  <2>3. CASE \E artifact \in Artifacts \ {"explainer"} : Put(artifact, r, Own(r))
    BY <1>1, <2>3, PutMeans
  <2>4. CASE \E m \in OwnModels(r) : EvaluationPuts(r, m)
    BY <2>4, EvaluationMeans
  <2>5. QED
    BY <2>1, <2>2, <2>3, <2>4
<1>4. UNCHANGED <<evaluated[q], flag[q], job[q], kind[q]>>
  <2> USE DEF TypeInv, TypeOK
  <2>1. /\ evaluated' = evaluated \/ evaluated' = [evaluated EXCEPT ![r] = Own(r)]
        /\ flag' = flag \/ flag' = [flag EXCEPT ![r] = 1]
        /\ job' = job \/ \E s \in JobEnds : job' = [job EXCEPT ![r] = s]
        /\ kind' = kind
    BY JobStepMeans DEF JobEnds
  <2>2. QED
    BY <2>1
<1>5. QED
  BY <1>2, <1>3, <1>4

(* The registered models and results stay where they are.                   *)
LEMMA RegistriesGrow ==
  ASSUME TypeInv, NEW r \in Runs, JobInv(r), JobStep(r)
  PROVE  /\ \A v \in DOMAIN models : v \in DOMAIN models' /\ models'[v] = models[v]
         /\ \A v \in DOMAIN dataset : v \in DOMAIN dataset' /\ dataset'[v] = dataset[v]
         /\ \A v \in DOMAIN models' \ DOMAIN models :
              /\ models'[v].by = r /\ models'[v].what \in OwnModels(r)
              /\ flag'[r] = 1
<1> USE DEF JobDone, PrepareDone, TrainDone, EvaluateDone, RegisterDone, ScoreDone, JobStopped
<1> USE DEF TypeInv, TypeOK
<1>1. \A m \in OwnModels(r) : [by |-> r, what |-> m] \in [by : Runs, what : Trained]
  BY OwnContents
<1>2. \/ models' = models
      \/ /\ \E m \in OwnModels(r) : models' = Append(models, [by |-> r, what |-> m])
         /\ flag[r] = 1 /\ flag' = flag
  BY JobStepMeans
<1>3. dataset' = dataset \/ dataset' = Append(dataset, r)
  BY JobStepMeans
<1>4. \A v \in DOMAIN dataset : v \in DOMAIN dataset' /\ dataset'[v] = dataset[v]
  <2>1. dataset \in Seq(Runs)
    OBVIOUS
  <2>2. \A v \in DOMAIN dataset :
          v \in DOMAIN Append(dataset, r) /\ Append(dataset, r)[v] = dataset[v]
    BY <2>1, OneMore
  <2> HIDE DEF TypeInv, TypeOK
  <2>3. QED
    BY <1>3, <2>2, Zenon
<1>5. CASE models' = models
  BY <1>4, <1>5
<1>6. CASE /\ \E m \in OwnModels(r) : models' = Append(models, [by |-> r, what |-> m])
           /\ flag[r] = 1 /\ flag' = flag
  <2>1. PICK m \in OwnModels(r) : models' = Append(models, [by |-> r, what |-> m])
    BY <1>6
  <2>2. models \in Seq([by : Runs, what : Trained])
    OBVIOUS
  <2>3. /\ \A v \in DOMAIN models : v \in DOMAIN models' /\ models'[v] = models[v]
        /\ \A v \in DOMAIN models' \ DOMAIN models : models'[v] = [by |-> r, what |-> m]
    BY <1>1, <2>1, <2>2, OneMore
  <2>4. QED
    BY <1>4, <1>6, <2>3
<1>7. QED
  BY <1>2, <1>5, <1>6

(* The job of the run: what its steps have left is its own.                 *)
LEMMA OwnJobStep ==
  ASSUME TypeInv, NEW r \in Runs, JobInv(r), JobStep(r)
  PROVE  JobInv(r)'
<1> DEFINE Data == Take("prepared_data", r)
           Model == Take("trained_model", r)
<1> USE DEF TypeInv, TypeOK
<1>1. Own(r) \in Content
  BY OwnContents DEF OwnModels
<1>2. kind' = kind
  BY JobStepMeans
<1>3. JobInv(r)
  OBVIOUS
<1>4. job[r] = "running"
  BY JobStepMeans, ReadyMeans DEF JobSteps, JobDone, PrepareDone, TrainDone, EvaluateDone,
     RegisterDone, ScoreDone, JobStopped
<1>5. CASE PrepareDone(r)
  <2>1. finished'[r] = finished[r] \union {"prepare"}
    BY <1>5, FinishesMeans DEF JobSteps, PrepareDone
  <2>2. Data' = Own(r) /\ Model' = Model
    BY <1>1, <1>5, PutMeans DEF Artifacts, PrepareDone
  <2>3. QED
    BY <1>2, <1>3, <1>4, <1>5, <2>1, <2>2 DEF JobInv, PrepareDone
<1>6. CASE TrainDone(r)
  <2>1. finished'[r] = finished[r] \union {"train"}
    BY <1>6, FinishesMeans DEF JobSteps, TrainDone
  <2>2. Model' = Own(r) /\ Data' = Data
    BY <1>1, <1>6, PutMeans DEF Artifacts, TrainDone
  <2>3. Own(r) \in OwnModels(r)
    BY DEF OwnModels
  <2>4. QED
    BY <1>2, <1>3, <1>4, <1>6, <2>1, <2>2, <2>3 DEF JobInv, TrainDone
<1>7. CASE EvaluateDone(r)
  <2>1. finished'[r] = finished[r] \union {"evaluate"}
    BY <1>7, FinishesMeans DEF JobSteps, EvaluateDone
  <2>2. Model' \in OwnModels(r) /\ Data' = Data /\ evaluated'[r] = Own(r)
    BY <1>7, EvaluationMeans DEF EvaluateDone
  <2>3. "train" \in finished[r]
    BY <1>7, ReadyMeans DEF JobSteps, EvaluateDone
  <2>4. QED
    BY <1>2, <1>3, <1>4, <1>7, <2>1, <2>2, <2>3 DEF JobInv, EvaluateDone
<1>8. CASE RegisterDone(r)
  <2>1. finished'[r] = finished[r] \union {"register"}
    BY <1>8, FinishesMeans DEF JobSteps, RegisterDone
  <2>2. Model' = Model /\ Data' = Data
    BY <1>8 DEF Take, Path, RegisterDone
  <2>3. "evaluate" \in finished[r] /\ kind[r] # "batch"
    BY <1>8, ReadyMeans DEF JobSteps, RegisterDone
  <2>4. flag'[r] = 1 => \E v \in DOMAIN models' : models'[v].by = r
    <3> SUFFICES ASSUME flag[r] = 1 PROVE \E v \in DOMAIN models' : models'[v].by = r
      BY <1>8 DEF RegisterDone
    <3>1. PICK m \in OwnModels(r) : models' = Append(models, [by |-> r, what |-> m])
      BY <1>8 DEF RegisterDone
    <3>2. [by |-> r, what |-> m] \in [by : Runs, what : Trained]
      BY OwnContents
    <3>3. models \in Seq([by : Runs, what : Trained])
      OBVIOUS
    <3>4. /\ Len(models) + 1 \in DOMAIN models'
          /\ models'[Len(models) + 1] = [by |-> r, what |-> m]
      BY <3>1, <3>2, <3>3, OneMore
    <3>5. QED
      BY <3>4
  <2>5. QED
    BY <1>2, <1>3, <1>8, <2>1, <2>2, <2>3, <2>4 DEF JobInv, RegisterDone
<1>9. CASE ScoreDone(r)
  <2>1. finished'[r] = finished[r] \union {"score"}
    BY <1>9, FinishesMeans DEF JobSteps, ScoreDone
  <2>2. Model' = Model /\ Data' = Data
    BY <1>1, <1>9, PutMeans DEF Artifacts, ScoreDone
  <2>3. kind[r] = "batch"
    BY <1>9, ReadyMeans DEF JobSteps, ScoreDone
  <2>4. job'[r] = "completed" => \E v \in DOMAIN dataset' : dataset'[v] = r
    <3> SUFFICES ASSUME job'[r] = "completed" PROVE \E v \in DOMAIN dataset' : dataset'[v] = r
      OBVIOUS
    <3>1. dataset' = Append(dataset, r)
      BY <1>9 DEF ScoreDone
    <3>2. dataset \in Seq(Runs)
      OBVIOUS
    <3>3. Len(dataset) + 1 \in DOMAIN dataset' /\ dataset'[Len(dataset) + 1] = r
      BY <3>1, <3>2, OneMore
    <3>4. QED
      BY <3>3
  <2>5. QED
    BY <1>2, <1>3, <1>9, <2>1, <2>2, <2>3, <2>4 DEF JobInv, ScoreDone
<1>10. CASE JobStopped(r)
  <2>1. Model' = Model /\ Data' = Data
    BY <1>10 DEF Take, Path, JobStopped
  <2>2. QED
    BY <1>2, <1>3, <1>10, <2>1 DEF JobInv, JobStopped
<1> HIDE DEF TypeInv, TypeOK
<1>11. QED
  BY <1>5, <1>6, <1>7, <1>8, <1>9, <1>10, JobStepMeans DEF JobDone

(* The jobs of the other runs, and steps that are no job's.                 *)
LEMMA JobInvStep ==
  ASSUME TypeInv, \A r \in Runs : JobInv(r), [Next]_vars, NEW q \in Runs
  PROVE  JobInv(q)'
<1>1. ASSUME NEW r \in Runs \ {q}, JobStep(r)
      PROVE  JobInv(q)'
  <2>1. /\ finished'[q] = finished[q]
        /\ Take("prepared_data", q)' = Take("prepared_data", q)
        /\ Take("trained_model", q)' = Take("trained_model", q)
        /\ evaluated'[q] = evaluated[q] /\ flag'[q] = flag[q]
        /\ job'[q] = job[q] /\ kind'[q] = kind[q]
    BY <1>1, OthersKeep
  <2>2. /\ (\E v \in DOMAIN models : models[v].by = q) =>
             \E v \in DOMAIN models' : models'[v].by = q
        /\ (\E v \in DOMAIN dataset : dataset[v] = q) =>
             \E v \in DOMAIN dataset' : dataset'[v] = q
    BY <1>1, RegistriesGrow
  <2>3. QED
    BY <2>1, <2>2 DEF JobInv
<1>2. ASSUME \/ \E r \in Runs : JobsAlone(r)
             \/ \E k \in Kinds : ComputeSettles(k)
             \/ UNCHANGED vars
      PROVE  UNCHANGED <<kind, job, finished, stored, flag, dataset, models, evaluated>>
  BY <1>2 DEF JobsAlone, LookUpCompute, CreateCompute, ComputeWaited, PublishPipeline,
     StartScript, Pass, GetEndpoint, AddDefault, MakeEndpoint, JobEnded, Abort, ComputeSettles,
     jobVars, vars
<1>3. ASSUME UNCHANGED <<kind, job, finished, stored, flag, dataset, models, evaluated>>
      PROVE  JobInv(q)'
  BY <1>3 DEF JobInv, Take, Path, OwnModels, Own, Result
<1>4. ASSUME NEW r \in Runs, Submit(r)
      PROVE  JobInv(q)'
  <2>1. job'[q] = job[q] \/ job'[q] = "running"
    BY <1>4 DEF Submit, TypeInv, TypeOK
  <2>2. UNCHANGED <<kind, finished, stored, flag, dataset, models, evaluated>>
    BY <1>4 DEF Submit
  <2>3. QED
    BY <2>1, <2>2 DEF JobInv, Take, Path, OwnModels, Own, Result
<1>5. QED
  BY <1>1, <1>2, <1>3, <1>4, OwnJobStep, Steps

(* Every model that is registered is of its own job and was approved.       *)
LEMMA ModelsStep ==
  TypeInv /\ (\A r \in Runs : JobInv(r)) /\ ModelsInv /\ [Next]_vars => ModelsInv'
<1> SUFFICES ASSUME TypeInv, \A r \in Runs : JobInv(r), ModelsInv, [Next]_vars
             PROVE  ModelsInv'
  OBVIOUS
<1>1. ASSUME NEW r \in Runs, JobStep(r)
      PROVE  ModelsInv'
  <2>1. \A q \in Runs : flag[q] = 1 => flag'[q] = 1
    <3>1. flag' = flag \/ flag' = [flag EXCEPT ![r] = 1]
      BY <1>1, JobStepMeans DEF JobDone, PrepareDone, TrainDone, EvaluateDone, RegisterDone,
         ScoreDone, JobStopped
    <3>2. QED
      BY <3>1 DEF TypeInv, TypeOK
  <2>2. \A v \in DOMAIN models : models[v].by \in Runs
    <3>1. models \in Seq([by : Runs, what : Trained])
      BY DEF TypeInv, TypeOK
    <3>2. \A v \in DOMAIN models : models[v] \in [by : Runs, what : Trained]
      BY <3>1, EachElement
    <3>3. QED
      BY <3>2
  <2>3. ASSUME NEW v \in DOMAIN models'
        PROVE  models'[v].what \in OwnModels(models'[v].by) /\ flag'[models'[v].by] = 1
    <3>1. CASE v \in DOMAIN models
      BY <1>1, <2>1, <2>2, <3>1, RegistriesGrow DEF ModelsInv
    <3>2. CASE v \notin DOMAIN models
      BY <1>1, <3>2, RegistriesGrow
    <3>3. QED
      BY <3>1, <3>2
  <2>4. QED
    BY <2>3 DEF ModelsInv, OwnModels, Own, Result
<1>2. ASSUME \/ \E r \in Runs : JobsAlone(r) \/ Submit(r)
             \/ \E k \in Kinds : ComputeSettles(k)
             \/ UNCHANGED vars
      PROVE  UNCHANGED <<models, flag>>
  BY <1>2 DEF JobsAlone, LookUpCompute, CreateCompute, ComputeWaited, PublishPipeline,
     StartScript, Pass, GetEndpoint, AddDefault, MakeEndpoint, JobEnded, Abort, Submit,
     ComputeSettles, jobVars, vars
<1>3. ASSUME UNCHANGED <<models, flag>> PROVE ModelsInv'
  BY <1>3 DEF ModelsInv, OwnModels, Own, Result
<1>4. QED
  BY <1>1, <1>2, <1>3, Steps

(* A script that was started and left has done its work.                    *)
LEMMA ScriptsStep ==
  ASSUME TypeInv, \A r \in Runs : JobInv(r), [Next]_vars, NEW q \in Runs, ScriptsInv(q)
  PROVE  ScriptsInv(q)'
<1> USE DEF TypeInv, TypeOK, ScriptsInv, Goto
<1>1. ASSUME NEW r \in Runs, LookUpCompute(r) \/ CreateCompute(r) \/ ComputeWaited(r)
               \/ PublishPipeline(r) \/ Pass(r) \/ JobEnded(r) \/ Abort(r)
      PROVE  ScriptsInv(q)'
  BY <1>1 DEF LookUpCompute, CreateCompute, ComputeWaited, PublishPipeline, Pass, JobEnded,
     Abort, JobEnds, jobVars
<1>2. ASSUME NEW r \in Runs, StartScript(r)
      PROVE  ScriptsInv(q)'
  BY <1>2 DEF StartScript, Scripts, jobVars
<1>3. ASSUME NEW r \in Runs, GetEndpoint(r) \/ AddDefault(r) \/ MakeEndpoint(r)
      PROVE  ScriptsInv(q)'
  <2>1. /\ UNCHANGED <<kind, todo, job>>
        /\ \A p \in Runs \ {r} : pc'[p] = pc[p]
        /\ pc[r] \in {"getEndpoint", "addDefault", "makeEndpoint"}
        /\ pc'[r] \in {"addDefault", "makeEndpoint", "failed", "scripts"}
    BY <1>3 DEF GetEndpoint, AddDefault, MakeEndpoint, jobVars
  <2>2. endpoint' = endpoint \/ endpoint' = Listing(r)
    BY <1>3 DEF GetEndpoint, AddDefault, MakeEndpoint
  <2>3. \A k \in Kinds : endpoint[k].listed \subseteq endpoint'[k].listed
    <3>1. endpoint' = [endpoint EXCEPT ![kind[r]] =
                         [listed |-> endpoint[kind[r]].listed \union {r}, default |-> r]]
            \/ endpoint' = endpoint
      BY <2>2 DEF Listing
    <3>2. ASSUME NEW k \in Kinds PROVE endpoint[k].listed \subseteq endpoint'[k].listed
      <4>1. CASE k = kind[r]
        BY <3>1, <4>1
      <4>2. CASE k # kind[r]
        BY <3>1, <4>2
      <4>3. QED
        BY <4>1, <4>2
    <3>3. QED
      BY <3>2
  <2>4. pc'[r] = "scripts" => r \in endpoint'[kind[r]].listed
    <3>1. pc'[r] = "scripts" => endpoint' = Listing(r)
      BY <1>3 DEF GetEndpoint, AddDefault, MakeEndpoint
    <3>2. QED
      BY <3>1 DEF Listing
  <2>5. QED
    BY <2>1, <2>3, <2>4
<1>4. ASSUME NEW r \in Runs, Submit(r)
      PROVE  ScriptsInv(q)'
  BY <1>4 DEF Submit
<1>5. ASSUME NEW r \in Runs, JobStep(r)
      PROVE  ScriptsInv(q)'
  <2>1. UNCHANGED <<kind, pc, todo, endpoint>>
    BY <1>5, JobStepMeans
  <2>2. job[q] \in {"completed", "canceled"} => job'[q] = job[q]
    <3>1. CASE q = r
      BY <1>5, <3>1, JobStepMeans, ReadyMeans DEF JobSteps, JobDone, PrepareDone, TrainDone,
         EvaluateDone, RegisterDone, ScoreDone, JobStopped
    <3>2. CASE q # r
      BY <1>5, <3>2, OthersKeep
    <3>3. QED
      BY <3>1, <3>2
  <2>3. QED
    BY <2>1, <2>2
<1>6. ASSUME NEW k \in Kinds, ComputeSettles(k)
      PROVE  ScriptsInv(q)'
  BY <1>6 DEF ComputeSettles, script, jobVars
<1>7. CASE UNCHANGED vars
  BY <1>7 DEF vars, script, jobVars
<1>8. QED
  BY <1>1, <1>2, <1>3, <1>4, <1>5, <1>6, <1>7, Steps DEF JobsAlone

-----------------------------------------------------------------------------
(* The invariant holds before any run has begun.                            *)
LEMMA InitInv == Init => IInv
<1> SUFFICES ASSUME Init PROVE IInv
  OBVIOUS
<1> USE PipelineAssumption DEF Init
<1>1. TypeInv
  BY DEF TypeInv, TypeOK, NoEndpoint, NoContent, Content
<1>2. \A r \in Runs : JobInv(r) /\ ScriptsInv(r)
  BY DEF JobInv, ScriptsInv, Scripts
<1>3. ModelsInv
  BY DEF ModelsInv
<1>4. QED
  BY <1>1, <1>2, <1>3 DEF IInv

(* Every step keeps the invariant.                                          *)
LEMMA NextInv == IInv /\ [Next]_vars => IInv'
<1> SUFFICES ASSUME IInv, [Next]_vars PROVE IInv'
  OBVIOUS
<1>1. TypeInv' /\ ModelsInv'
  BY TypeStep, ModelsStep DEF IInv
<1>2. \A r \in Runs : JobInv(r)' /\ ScriptsInv(r)'
  BY JobInvStep, ScriptsStep DEF IInv
<1>3. QED
  BY <1>1, <1>2 DEF IInv

(* What the jobs have stored, what the scripts have done and what models    *)
(* there are agree in every state.                                          *)
THEOREM Inductive == Spec => []IInv
BY InitInv, NextInv, PTL DEF Spec

(* Every variable keeps its type; that every registered model has a run it  *)
(* was trained by rests on the paths of the runs being different.           *)
THEOREM TypeCorrect == Spec => []TypeOK
<1>1. IInv => TypeOK
  BY DEF IInv, TypeInv
<1>2. QED
  BY Inductive, <1>1, PTL

(* A registered model is made by its own job only, of the training which it *)
(* evaluated with the flag set, whatever the other jobs store meanwhile.    *)
THEOREM RegistersApprovedCorrect == Spec => []RegistersWhatItApproved
<1>1. IInv => RegistersWhatItApproved
  <2> SUFFICES ASSUME IInv, NEW v \in DOMAIN models
               PROVE  LET r == models[v].by
                          model == models[v].what
                      IN /\ model.run = r /\ model.on = r /\ model.explainer \in {NoRun, r}
                         /\ evaluated[r] = [model EXCEPT !.explainer = NoRun]
                         /\ flag[r] = 1
    BY DEF RegistersWhatItApproved
  <2>1. models \in Seq([by : Runs, what : Trained])
    BY DEF IInv, TypeInv, TypeOK
  <2>2. models[v].by \in Runs
    <3>1. \A w \in DOMAIN models : models[w] \in [by : Runs, what : Trained]
      BY <2>1, EachElement
    <3>2. QED
      BY <3>1
  <2>3. models[v].what \in OwnModels(models[v].by) /\ flag[models[v].by] = 1
    BY DEF IInv, ModelsInv
  <2>4. evaluated[models[v].by] = Own(models[v].by)
    BY <2>2, <2>3 DEF IInv, JobInv
  <2>5. QED
    BY <2>2, <2>3, <2>4, OwnContents
<1>2. QED
  BY Inductive, <1>1, PTL

(* A run that passed has its pipeline in the endpoint and its job is over,  *)
(* was cancelled or has left behind what it is for, whatever calls were     *)
(* lost or refused on the way.                                              *)
THEOREM PassedReleasedCorrect == Spec => []PassedIsReleased
<1>1. IInv => PassedIsReleased
  BY DEF IInv, ScriptsInv, JobInv, PassedIsReleased
<1>2. QED
  BY Inductive, <1>1, PTL
=============================================================================
