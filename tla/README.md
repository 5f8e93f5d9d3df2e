# Verification of mlops-templates

TLA+ models of the parts of this repository that act on shared services: the
Python scripts under `src/python-sdk-v2` and `src/python-sdk-v1`, and the
workflows and templates that create infrastructure, run jobs and release
endpoints. TLC checks the models on small instances; TLAPS proves their safety
properties for every instance. Line numbers below are those of the repository's
files.

## Inventory

The repository is a library of workflow templates. Its programs keep next to no
state of their own: the state is in Azure ML, in a registry's storage, in a
Terraform backend and in the outputs of a workflow run. The hard part is that
several runs of one template act on the same endpoint, workspace or state file,
each by a sequence of calls, and any run can be cancelled between two of them.

| component | state | operations | interacts through | hard behaviour |
|---|---|---|---|---|
| resource update (`aml_client.py` 214-299) | attempt and poll counters; the resource's provisioning state | begin, wait for the poller, wait out a rival, wait for the final state | the resource, which runs one operation at a time | conflicts and retries, states left by others, limits, cancelled runs |
| batch release (`python-sdk-v2-batch.yml`, `create_batch_*.py`, `test_batch_endpoint.py`) | endpoint default, deployment, what was read back | create endpoint, put deployment, verify, set default, invoke | one endpoint for all runs | verify, then update, then use: three calls of which each can see another run |
| registry environment import (`create_batch_deployment.py` 97-834) | listing, downloaded files, workspace environments | list, download, look up, create, validate | registry storage, workspace | storage that changes under a download, look up and create by two runs, names that coincide |
| training, job wait, diagnostics (`train_and_register_model.py`, `aml_client.py` 302-455) | job status, model versions, `GITHUB_OUTPUT` | submit, announce, wait, diagnose, register, publish | jobs, model registry | statuses that are left again, lost answers, one of several downloads failing |
| online release (`python-sdk-v2-online.yml`, `create_online_*.py`, `test_online_endpoint.py`) | traffic, identity, CA bundle file | create, deploy, set traffic, invoke, clean up | one endpoint, the runner's disk | read-modify-write of the endpoint, cleanup after a crash |
| diagnostic excerpts (`aml_client.py` 365-502) | character budget | download, select, cut, announce | the visit of a failed job | limits reached exactly or passed, files that cannot be read |
| Terraform (`tf-gha-install-terraform.yml`, `terraform-state-bootstrap.yml`, `terraform-deploy.yml`) | state file and its lock, saved plan, role assignment, resources | bootstrap, plan, apply, read outputs, delete endpoints, destroy, delete the state | state storage, Azure | stale plan, deletions that are not awaited, reruns after a crash, dead runners |
| CLI job templates (`templates/aml-cli-v2`) | job status, datastore | run, poll, stream, diagnose, register | workspace | loop over a status text, broken streams, look up then create |
| SDK v1 pipeline scripts (`src/python-sdk-v1`) | compute, pipeline endpoint, artifacts in a datastore, model versions | get compute, publish, add to endpoint, submit, the steps of the job | workspace, one datastore for all jobs | look up then create with every exception taken for absence, jobs side by side |
| read YAML action | outputs | read, convert | next jobs | conversion of text to Booleans, asynchronous errors |
| SDK v2 resource scripts, SDK v1 registration scripts, wrappers | none | one call each | - | - |

What makes each component correct:

- resource update: success is reported only for the call's own update, and for a
  resource that has settled; an accepted update is never repeated, a call gives up only where it has to, and
  always ends;
- batch release: nothing becomes the default unverified, and an invocation
  reaches what its run verified;
- import: what is deployed is what was listed, from the run's own source, within
  the size limits;
- training: outputs name the run's own model, only completed jobs are
  registered, once, and every failed child is diagnosed, within the limits and
  with a word about whatever is left out of what was read;
- online release: no other run's identity or traffic is undone, and the CA file
  does not outlive the run;
- Terraform: what is applied is what was planned against the present state, the
  outputs are not older than the apply, and the state outlives the resources;
- CLI jobs: a task passes only for a completed job, every loop ends, and a
  datastore keeps its container;
- SDK v1: the model that is registered is the training its own job evaluated,
  touched by no other job, and a run that passed is released unless its job was
  cancelled.

`PROJECT.json` lists the hazards at their lines, with the properties that cover
them, or the reason why none does.

## Modules

| module | models | kind |
|---|---|---|
| `UpdateContract` | what an update promises its caller | abstract specification |
| `Provisioning` | `wait_for_resource_create_or_update`, `wait_for_poller`, `wait_for_resource_terminal_state` | implements `UpdateContract` |
| `ImportContract` | what an import promises the deployment that uses it | abstract specification |
| `TrainingContract` | what training runs promise about versions and outputs | abstract specification |
| `BatchRelease` | a whole run of the batch workflow | composes updates by their contract |
| `EnvironmentImport` | `resolve_batch_environment` and all it calls | implements `ImportContract` |
| `OnlineRelease` | a whole run of the online workflow, with its CA bundle file | composes updates by their contract |
| `TrainRegister` | `train_and_register_model.run`, `wait_for_job`, `print_job_diagnostics` | uses `Diagnostics`, implements `TrainingContract` |
| `Diagnostics` | `_download_and_print_job_diagnostics`, `_diagnostic_excerpt`, `_bounded_redacted_text` | functions |
| `TerraformState` | the Terraform workflow and the two templates, on one state | |
| `CliJobs` | the job and datastore tasks of the CLI templates | |
| `PipelineV1` | the SDK v1 scripts and the job they publish | |
| `ProvisioningProof`, `BatchReleaseProof`, `OnlineReleaseProof`, `EnvironmentImportProof`, `TrainRegisterProof`, `CliJobsProof`, `PipelineV1Proof`, `TerraformStateProof` | theorems about the module of that name | proofs |
| `MC...` | constants of the runs | |

Definitions marked *Slip* are mistakes one could make in the code, next to the
definition they would replace. They are not part of any specification; each
property is known to be violated by one of them (`PROJECT.json`, mutants).

### Provisioning

One process per call, on one resource. `pc` is the place in the code: `begin`
(line 234, the request), `poller` (`poller.result()`), `conflictWait` and
`finalWait` (the two calls of `wait_for_resource_terminal_state`), and the ends
`done` and `failed`. `attempt` is the loop variable, `polls` the number of state
checks of the present wait. `BeginRefused` is the `ResourceExistsError` branch,
`Read...` one round of the polling loop with its three outcomes, `Abort` any
exception the code does not catch and a cancelled runner. `rivals` is a history
variable.

About the provider the model assumes what the code relies on: one operation on a
resource at a time; a conflict is refused when the request arrives (the SDK
reports failures of an accepted operation by another exception than
`ResourceExistsError`); an accepted operation ends whether or not anyone waits.
The success of an operation sets the configuration and the client's result in one
step. The state of the resource follows by itself (`Settle`): until then it reads
`Updating`, and what it settles on need not agree with the result, so a call whose
poller returned may find `Failed` with no rival about, as in
`tests/test_python_sdk_v2.py:953-966`, or run out of checks.

### BatchRelease

One process per workflow run; each of the three updates is a request
(`Submit`), an operation that ends by itself (`OperationSucceeds`,
`OperationFails`) and a wait (`Await`), which is `UpdateContract` as a client
sees it: the run goes on only after its own operation succeeded. Requests wait
while another operation runs; giving up is covered by `Fail`, which can happen
at every step and leaves accepted operations behind. The workflow has no
concurrency group; the history variable `overlapped` holds the runs that were
under way beside another one, and some properties speak of the others only. What
`verify_live_deployment` compares is `Checked`, the environment and the script;
two runs that differ by their model alone look alike to it.

### EnvironmentImport

A run lists (`List`), downloads path by path in listing order (`Download`),
requires the Dockerfile (`Downloaded`), looks the workspace environment up
(`LookUp`) and creates it (`Create`, or `CreateLate` when somebody else was
faster). A content is its own MD5 and SHA-256, so a manifest is the function
from paths to contents; a blob's claimed MD5 may differ from its body. Of the
workspace the model assumes that an existing version is never replaced: a
second create is refused or answered with what is there. Unsafe names, URLs and
transport errors all raise, and are `Abort`.

`ImportContract` is what the deployment that follows relies on: the import is as
if the whole source had been copied at one moment, and ends with a workspace
version made of that copy and of that source, or is refused; no version is ever
replaced. In the mapping, what a source claims to hold is what a listing of it
would say now (`Offered`); the copy happens at the listing, although the downloads
come after it (`Progress`); and a version counts as what it was really made of,
whatever provenance it carries (`MadeOf`).

### OnlineRelease

As `BatchRelease`, with the endpoint as a record of identity and traffic.
`create_online_endpoint.py` writes an identity and no traffic;
`create_online_deployment.py` reads the endpoint (`ReadEndpoint`, `TakeEndpoint`)
and writes back what it read with the traffic replaced (`PutTraffic`), so a
request carries a payload that may be stale. The CA bundle is a file that is
empty after `mktemp` and secret after the fetch; a failure while it is prepared
runs the shell's EXIT trap once that is set (an empty file can be left before),
any later failure leads to the `always()` step, and a runner that dies executes
neither.

### TrainRegister

One job per run. A job moves between `Running`, `Paused` and `NotResponding`
and ends once, `Completed`, `Failed` or `Canceled`. A registration reaches the
registry, and its answer may be lost. Diagnostics visit a set of jobs; their
failures are printed and change nothing.

`TrainingContract` knows the completed jobs, the versions and the outputs only:
a version is added for a completed job that its run has named, once, and is never
taken back; a run names a version once, and its own. Submission, wait, diagnosis
and every end of a run are stutters of it.

### Diagnostics

What is printed about one job is computed by functions, since nothing else acts
on it: which files there are after the standard and the full download
(`Downloaded`), the lines chosen of each (`Selected`) and their length with the
lines that stand for gaps (`Joined`), what is left of the limit
after each file (`Left`), and what is said at the end (`LimitReached`). Of a file's
lines the first `read` ones are read (`Content`), which stands for the limit of
bytes; lines have the length they have after the redaction, which comes before
the cut. `Report` keeps what the property needs: by how much the limit was
passed, and whether something is missing without a word, of what was read or of
what was not. The second happens: nothing tells of the rest of a long file. TLC
evaluates all downloads once (`Reports`); `TrainRegister`'s `Diagnose` takes any.

### TerraformState

One process per run, on one state and one workspace. `Deploys` are runs of
`terraform-state-bootstrap.yml` and `terraform-deploy.yml`, `Applies` and
`Destroys` those of the GitHub workflow. A state has a version, a lock and what
it records; `infra` says whose configuration the resources really have, which
differs from the record after a failure. A plan remembers the version it was
made of and what that recorded (`seen`); `terraform destroy` makes a plan of its
own (`StartDestroy`) and removes what that one knows of (`Removes`). `ApplyFails`
and `DestroyFails` save what was done and leave the record alone where nothing
was; `RunnerDies` saves nothing and keeps the lock. A command whose lock went
with the storage of the state changes what it has to change, cannot save it and
fails (`Left`). The group of the state is deleted
without waiting (`DeleteState`, `GroupGone`), and takes the state with it. The
name of that group, which the destroy makes of the inputs, is taken to be the
configured one, as it is in the configuration that `read_yaml_action` derives.
The delay after a role assignment is taken to be long enough for that
assignment. A deployment that is given no `cicdPrincipalObjectId`, which is the
default, grants no role and waits for none (`granting` has those that do); whether
its init is allowed depends on who has granted the role before, since runs share
the principal and nothing outside them is modelled that grants it.

### CliJobs

One process per task; `kind` says of which template. A status may be answered
empty, a stream may break off, a look up may fail. `Running` stands for the
statuses the loop lists, `Other` for those it does not and that are no end.

### PipelineV1

One process per run of the consuming pipeline and one per job. The scripts that
take the pipeline id run in either order: the repository calls them nowhere. The
job's steps follow `After`, which is their inputs; artifacts lie at `Path`, with
the run id for training and without it for batch results. The explainer has the
destination of the trained model (`Directory`), so the upload of the evaluation
may add to the model, or write over it, after the evaluation has read it; the id is
taken to be the job's, with which the two coincide, and an evaluation that leaves
no explainer stands for the other reading. What `evaluate.py` decides and leaves
is open. A job ends completed, failed or cancelled, by anyone at any time;
`run_pipeline.py` raises for a failed one only (`JobEnded`).

## Runs

| run | instance | shows |
|---|---|---|
| `provisioning` | 3 calls, 2 attempts, 2 polls | an accepted update is not repeated, a blocked call met distinct rivals, a call returns only with its own success and a resource seen settled, every call ends, and `UpdateContract` is implemented: success is reported only for an update of one's own |
| `batch` | 3 runs, 2 of them of one name, in turn or overlapping | a run that was alone invokes what it verified; an invocation never reaches an unverified deployment of a name that one run releases; the default was verified; every release ends |
| `batch_overlap` | 2 overlapping runs of one name | violated: the invocation reaches what its run did not verify |
| `import` | 2 imports of a build context and 1 of an image of the same name, 2 paths, 2 contents, 1 change of the storage | no mixed contents, no foreign source, sizes bounded, `ImportContract` implemented, every import ends |
| `import_spelling` | 2 imports of one environment by two references | violated: the second is refused as a collision with another source |
| `import_full_id` | an import by full resource ID | violated: the ID is not used as it is |
| `online` | 3 runs, 2 of them of one name, in turn or overlapping | traffic goes to finished deployments only; a run that was alone keeps the identity and invokes its own release; no CA bundle is left |
| `train` | 2 runs, 2 children, all downloads of up to 3 files of 5 shapes, one with its only error past what is read | outputs, registration and diagnostics agree with the run's own job; `TrainingContract` is implemented; the diagnostics keep their limits |
| `train_paused` | 1 run | violated: the wait ends at a status that is not terminal |
| `terraform` | 2 deployments, 1 apply, 1 destroy, 2 at a time, 1 endpoint, 2 outputs | an apply changes what its plan was made of; outputs are not older; the state outlives the resources; init is denied only without a principal for the role, after a wait that was cut short, or beside another run |
| `cli` | 3 tasks of any templates, one of them with a job | a task passes only for a completed job; a datastore keeps its container; every task ends |
| `pipeline_v1` | 2 runs of any of the two pipelines | a registered model is made by its own job only, of the training it approved; a run that passed is in the endpoint, and released unless its job was cancelled |

Bounds. Three calls with two attempts are the least with which a call can run
out of attempts, and two polls tell the last check from the others. Three
releases allow two of one name with a third in between. One change of the
storage suffices for contents that change after the listing or between two
downloads, because it can happen at any step; two paths make mixed contexts
possible; with lengths 1 and 2 and a total of 3, two large files pass every
limit but the total. Two training runs are enough for a version to be taken in
between, two children for a visit that stops half-way. The shapes of files
make excerpts of 13, 5, 2 and no characters under a limit of 15: it is reached
exactly by two of them and passed by others, and more files can be offered than
are printed. Two Terraform runs at a time are enough for one to act between two
commands of another; with four in all, two can have gone before, and a lock left
behind is met by both. Two outputs have an apply between them. Of the CLI tasks
at most one has a job, since jobs are each task's own; two further ones can meet
at the datastore. Two SDK v1 runs meet at an endpoint that is there or that one of
them makes, and two jobs in the datastore; what is proved holds for any number. Bounds that are not in the code: `MaxWrites`, `MaxAtOnce`, `MaxJobs`,
`FilesOffered`. Runs that differ in nothing are exchanged for each other
(`SYMMETRY`) in `terraform`, `online` and `pipeline_v1`, which check safety only.

Fairness. The provider finishes what it accepted, and jobs end: without that the
code's waits on `poller.result()` and `wait_for_job` have no bound of their own.
Scripts keep running (weak fairness of each process); cancelling is never
forced, except that a script whose operation failed does raise. A job's status
is not answered with nothing for ever, which the loop of `run-pipeline.yml`
needs. Under this, all calls, batch releases, imports, training runs and CLI
tasks end. Online releases wait in the same way as batch releases and are
checked for safety only. So are Terraform runs, where a lock that a dead runner
left stays until somebody removes it, and SDK v1 runs, whose waits are the
SDK's.

## Findings

1. `batch_overlap`: `docs/python-sdk-v2-batch.md` 77-80 promises a verified
   deployment before an invocation; between `verify_live_deployment` and the
   invocation another run of the same name can replace it.
2. `import_spelling`: the provenance that is compared holds the spelling of the
   reference, so the same environment with the same manifest is reported as a
   collision when it is first named by URI and then by resource ID.
3. `import_full_id`: `docs/python-sdk-v2-batch.md` 31-32 says full registry IDs
   are supported without rewriting; they are imported into the workspace.
4. `train_paused`: `templates/python-sdk-v2/README.md` 128-129 speaks of a
   terminal state; `TERMINAL_JOB_STATUSES` has `Paused` and `NotResponding`.

## Proofs

All theorems hold for every set of runs, names, paths and files, and for every
limit, within the assumptions the modules state. Hardly any of the properties is
inductive. Each proof module begins with its `IInv`, a conjunction of named
parts, has one lemma per part that every step of the specification keeps, with a
step of the proof for each action that could disturb it, and derives the
properties from `Inductive`. TLC checks each `IInv` on the run's instance as
well. `Provisioning` apart, processes need not be finitely many.

| module | proved | assumed of the constants |
|---|---|---|
| `ProvisioningProof` | every safety property of `provisioning`; a call that returns has had its own update applied (`SuccessIsApplied`); calls no more numerous than `max_update_attempts` never give up as blocked; `UpdateContract` is implemented | `RunsAssumption`: finitely many calls. `LimitsAssumption`: the two checks at the head of the function |
| `BatchReleaseProof` | every safety property of `batch` | `BatchAssumption`: each run has a deployment name and a configuration |
| `OnlineReleaseProof` | every property of `online`; a run always has its operation to wait for | `OnlineAssumption`: each run has a deployment name |
| `EnvironmentImportProof` | every safety property of `import`; `ImportContract` is implemented | `ImportAssumption`: finitely many paths, in a listing order; sizes and limits are naturals |
| `TrainRegisterProof` | every safety property of `train`; no run registers twice; `TrainingContract` is implemented | `TrainAssumption`: the job is none of its children. `DiagnosticsAssumption`: lengths and limits are naturals |
| `CliJobsProof` | every safety property of `cli` | `CliAssumption`: the job is none of its children, a value that is no container |
| `PipelineV1Proof` | every property of `pipeline_v1` | `PipelineAssumption`: a value that is no run |
| `TerraformStateProof` | every property of `terraform` | `TerraformAssumption`: a run deploys, applies or destroys; at least one output |

### What the invariants say

- `Provisioning`. That a returning call has its own update applied needs the
  fact that a call reaches `finalWait` only through its own poller (`CallInv`);
  that a blocked call was refused by distinct rivals needs the fact that by the
  time a call tries again, all rivals so far have ended, so that one more refusal
  is one more rival and the number of rivals is `attempt - 1` (`RivalInv`); that
  a call returns only a settled resource needs the fact that a resource with an
  operation on it reads Updating (`ServiceInv`). The refinement maps the end of an
  operation to `Apply`, the end of a call to one of the reports, and everything
  else, the settling of the state included, to a stutter.
- `BatchRelease`. An operation outlives its run, so the invariant speaks of
  operations: each is of the kind its run waits for unless that run is gone
  (`OperationsInOrder`), and one that sets the default names a verified
  deployment (`VerifiedInv`). For a name that one run alone releases, verification
  is the end of all change: no operation on it is left (`OnlyInv`). For a run that
  was alone, whatever a run that is gone had left on the deployment has ended by
  the time its own put ended, and whatever was left on the endpoint by the time
  its own update of the default did (`AloneInv`).
- `OnlineRelease`. As `BatchRelease`; here an operation carries a payload, and the
  invariant says where it comes from. A run that was alone creates the endpoint
  first, so any earlier update of the traffic has taken effect before it reads the
  endpoint (`AloneInv`), and what it has read stays true until its own update
  takes effect, also after it is gone (`IdentityInv`). A CA bundle that is secret
  has the EXIT trap or the last step still before it (`BundleInv`).
- `EnvironmentImport`. Files are what the listing says of the paths that are done,
  each of the length listed (`FilesInv`); the total that `Download` never looks at
  is bounded because the lengths listed are. What a workspace environment says of
  its origin is true, if it says anything (`WorkspaceInv`): this is why an import
  that finds or is handed an environment may rely on its provenance. The same
  facts carry the refinement, whose hard step is the last: an import is handed a
  version that it has made or found, and that version was made of the contents
  that were listed before any of the files came (`DeliverMaps`). A run that is
  refused may have made a version all the same (`RefuseMaps`).
- `TrainRegister`. A run that has yet to send its registration has no version of
  its own (`RegistrationInv`), which together with the versions being a sequence
  gives that it registers once and names its own. Since the job has been named by
  then and no version has, each step that touches the jobs, the registry or the
  outputs is a step of `TrainingContract`. The visited and the unvisited
  jobs are those to be diagnosed (`DiagnosisInv`); what is printed about a job is
  the result of the functions of `Diagnostics`, which `ReportsBounded` bounds for
  all files: once the limit is used up it stays so, at most one excerpt passes it,
  and that one is cut.
- `CliJobs`. A registration that saw the datastore, and was alone since, holds the
  container it saw, or one of its own if there was none (`Sees`), because any other
  registration that could change the datastore meanwhile makes both overlapped
  (`RegistrationInv`); so a change of the container blames one whose look up failed
  or that overlapped another. That a task passes only for a completed job needs no
  more than that no job leaves that status.
- `PipelineV1`. What a finished step left at a path with the run id is still there
  when the steps after it run, since no other job writes that path, and up to the
  evaluation the model is as it was trained; what registration finds is that model
  with the own explainer or without (`JobInv`). This would fail for a path without
  the id. A script that is past has done its work although it may have taken an
  exception for absence, but for a job that was cancelled (`ScriptsInv`).
- `TerraformState`. The versions of the state only grow, and who works with the
  lock works on the version of its plan (`VersionInv`). The state records what
  exists, unless a dead runner holds its lock, which keeps everyone else out
  (`RecordedInv`). The lock can be lost without being returned, when the group of
  the state is deleted under a run at work: that run is then the only one that can
  still change the resources, because every plan made since starts from an empty
  state, which applies to nothing that exists (`LostInv`). For runs that were
  alone, `AloneInv` follows the storage, the role and the lock from step to step,
  and `KeptInv` says that their resources are recorded or locked by the runner
  that died making them, so that no destroy passes them over and gives up the
  state.

This last invariant could not be proved of an earlier form of the model, in which
a failed apply on an empty state recorded resources it had not made, and a destroy
removed resources its state did not know of. Neither is what Terraform does; the
actions were corrected (`Applicable`, `Removes`, `Left`).

### Progress

That something is reached at last is beyond the prover, but what makes it so is
not. For the six modules whose processes wait or loop, `AlwaysFurther` is proved:
every step takes one process to a later place of its program, to its next attempt
or check, or to one path or job less, leaves the others where they are, or else is
the end of an operation that runs or the settling of the state after it. So no step can be repeated for ever but the
changes of jobs, which `TrainRegister` and `CliJobs` let go to and fro, and (up to
its bound) of the registry's storage; a round of a status loop that finds nothing
new is no step. `NeverStuck` says of the three modules with
operations that whoever waits for one has it still running, or already ended:
operations of other runs, present or gone, never take its place. In
`BatchRelease` and `OnlineRelease` it is an invariant of its own beside `IInv`.
What the fairness adds is that a process that can step does so.

### Sums and recursive functions

The lengths of a listing are added by a fold over a set; `Diagnostics` computes the
length of an excerpt and what is left of its limit by recursive functions over the
lines and the files. The induction theorems of the library take an operator as
their parameter and cannot be used; claims about all sets or all positions are
proved instead by the least one for which they fail (`LeastNatural`,
`MinimalSubset`, from the library's facts on well-founded relations). That a
recursive definition has a value at all is proved in the same way: a function that
satisfies the equations is constructed (`AddsExists` in `EnvironmentImportProof`,
`RecursionExists` in `TrainRegisterProof`), so that the one chosen satisfies them.

### Only model-checked

- Liveness: `EveryCallEnds`, `EveryReleaseEnds`, `EveryImportEnds`, `EveryRunEnds`,
  `EveryTaskEnds`. Fairness is an assumption about ENABLED actions, which the
  prover does not handle.
- The properties that are violated, by their counterexamples.

## Observations

Read while modelling; nothing in the runs depends on them.

- `run-genai-evaluation.yml` prints the thresholds and compares no metric with
  them, whatever `fail_on_threshold_breach` says (lines 4-6 and 84-95).
- `tf-gha-install-terraform.yml` creates the container with the principal's own
  access (line 125) before it grants the role (line 136): on a new account the
  step gets through only when the principal has access from elsewhere.
- A diagnostic file is read up to `MAX_DIAGNOSTIC_FILE_BYTES`
  (`aml_client.py:424`). Nothing says that a longer one was not read to its end,
  where the error of a long log usually is; the other limits are all announced.
- Where `cicdPrincipalObjectId` is empty, its default, `terraform-state-bootstrap.yml`
  grants nothing (line 87): the init works only if the principal has access to the
  state's account from elsewhere.
- The explainer and the trained model have the same destination
  (`deploy_training_pipeline.py:80-81`). Where `{run-id}` is the job's id,
  `register_model.py` registers what the evaluation left in that directory, which
  is not what the evaluation has read.
- `run_pipeline.py:21` does not look at the status that `wait_for_completion`
  returns: with a cancelled job the script succeeds, and nothing was registered.
- `read_yaml_action/index.js` makes a Boolean of a text by whether it is empty
  (lines 21 and 23), so `false` becomes true.
- `register_environnment.py:46` compares the method `args.b.lower` with a
  string; `deploy_drift_detection.py:41` reads `ws.subsription_id`.
- `FAILED_JOB_STATUSES` lists `Cancelled` beside `Canceled`; the models have one
  of the two.

## Not modelled, and the plan

All safety properties of the runs are proved. What could be added, in this order:

1. An abstract state backend, which serves one holder of its lock at a time and
   whose versions only grow, implemented by `TerraformState`.
2. A bound on the steps of a call of `Provisioning` as a formula of its limits,
   from `AlwaysFurther`.
3. Online releases under fairness, and overlapping ones with shares of traffic.

Not modelled: templates and scripts of a single call without state
(`create_compute.py`, `register_data_asset.py` and their like), the conversion
in `read_yaml_action`, which is sequential and keeps nothing, argument parsing,
URL, path and redaction patterns, the wording of messages, and the vendored
modules of the action.
