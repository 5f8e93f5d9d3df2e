--------------------------- MODULE UpdateContract ---------------------------
(***************************************************************************)
(* What a caller may rely on when it updates one Azure ML resource (an     *)
(* endpoint or a deployment) with wait_for_resource_create_or_update: its  *)
(* update takes effect at most once, success is reported only after it     *)
(* took effect, and a reported failure promises nothing: the update may    *)
(* have taken effect before the report, or may still do so after it.       *)
(* Provisioning.tla, the protocol of aml_client.py, implements this.       *)
(***************************************************************************)
CONSTANTS Runs,    \* the calls, one per process that updates the resource
          NoRun    \* nobody: the configuration the resource had at first

VARIABLES applied,   \* the runs whose update has taken effect
          config,    \* the run whose configuration the resource has
          report     \* what the call has reported to its caller

vars == <<applied, config, report>>

Init ==
  /\ applied = {}
  /\ config = NoRun
  /\ report = [r \in Runs |-> "pending"]

(* The update of r takes effect: once, and never behind a reported success. *)
Apply(r) ==
  /\ r \notin applied
  /\ report[r] # "success"
  /\ applied' = applied \union {r}
  /\ config' = r
  /\ UNCHANGED report

ReportSuccess(r) ==
  /\ report[r] = "pending"
  /\ r \in applied
  /\ report' = [report EXCEPT ![r] = "success"]
  /\ UNCHANGED <<applied, config>>

ReportFailure(r) ==
  /\ report[r] = "pending"
  /\ report' = [report EXCEPT ![r] = "failure"]
  /\ UNCHANGED <<applied, config>>

Next == \E r \in Runs : Apply(r) \/ ReportSuccess(r) \/ ReportFailure(r)

Spec == Init /\ [][Next]_vars
=============================================================================
