---------------------------- MODULE Provisioning ----------------------------
(***************************************************************************)
(* The update protocol of src/python-sdk-v2/aml_client.py:                 *)
(* wait_for_resource_create_or_update, wait_for_poller and                 *)
(* wait_for_resource_terminal_state, run by several processes (workflow    *)
(* runs, or two jobs of one) against one Azure ML resource.                *)
(*                                                                         *)
(* The resource provider is external.  It runs one operation on a resource *)
(* at a time: an update that arrives while another runs is refused with    *)
(* the conflict the code catches as ResourceExistsError.  An accepted      *)
(* operation ends by itself, whether or not its client still waits.  The   *)
(* state it shows of the resource is "Updating" while an operation runs;   *)
(* once that has ended it may lag behind the poller's result, and disagree *)
(* with it, which is what the wait after the poller is for.                *)
(***************************************************************************)
EXTENDS Naturals, FiniteSets

CONSTANTS Runs,          \* calls of wait_for_resource_create_or_update
          NoRun,         \* no call: the provider is idle
          MaxAttempts,   \* max_update_attempts
          MaxPolls       \* max_state_polls

ASSUME RunsAssumption == IsFiniteSet(Runs) /\ NoRun \notin Runs
\* Both are checked on entry (aml_client.py:227-230).
ASSUME LimitsAssumption == MaxAttempts \in Nat \ {0} /\ MaxPolls \in Nat \ {0}

VARIABLES
  pc,         \* where each call is
  attempt,    \* the loop variable of the update loop
  polls,      \* state checks made in the current wait
  outcome,    \* how the call ended
  inFlight,   \* provider: the call whose operation is running
  state,      \* provider: provisioning_state it shows of the resource
  config,     \* provider: the call whose configuration the resource has
  result,     \* provider: how the operation of each call ended
  rivals      \* history: the calls whose operations refused this call

clientVars == <<pc, attempt, polls, outcome, rivals>>
serviceVars == <<inFlight, state, config, result>>
vars == <<pc, attempt, polls, outcome, inFlight, state, config, result, rivals>>

FailedStates == {"Failed", "Canceled", "Cancelled"}
TerminalStates == {"Succeeded"} \union FailedStates
\* The spellings the provider uses of those the code accepts.
OperationResults == {"Succeeded", "Failed", "Canceled"}
Ended == {"done", "failed"}
Waits == {"conflictWait", "finalWait"}

Init ==
  /\ pc = [r \in Runs |-> "begin"]
  /\ attempt = [r \in Runs |-> 1]
  /\ polls = [r \in Runs |-> 0]
  /\ outcome = [r \in Runs |-> "none"]
  /\ rivals = [r \in Runs |-> {}]
  /\ inFlight = NoRun
  /\ state \in {"Absent", "Succeeded", "Failed"}
  /\ config = NoRun
  /\ result = [r \in Runs |-> "none"]

-----------------------------------------------------------------------------
(* The call raises: every exception that ends it, whatever its reason.      *)
Raise(r, reason) ==
  /\ pc' = [pc EXCEPT ![r] = "failed"]
  /\ outcome' = [outcome EXCEPT ![r] = reason]

(* begin_create_or_update() is accepted: wait_for_poller waits for it.      *)
BeginAccepted(r) ==
  /\ pc[r] = "begin"
  /\ inFlight = NoRun
  /\ inFlight' = r
  /\ state' = "Updating"
  /\ pc' = [pc EXCEPT ![r] = "poller"]
  /\ UNCHANGED <<attempt, polls, outcome, rivals, config, result>>

(* Slip: an immediate retry, without waiting for the rival's operation.     *)
RetriesAtOnce(r) ==
  /\ pc[r] = "begin"
  /\ inFlight # NoRun
  /\ rivals' = [rivals EXCEPT ![r] = @ \union {inFlight}]
  /\ \/ /\ attempt[r] = MaxAttempts
        /\ Raise(r, "blocked")
        /\ UNCHANGED attempt
     \/ /\ attempt[r] # MaxAttempts
        /\ attempt' = [attempt EXCEPT ![r] = @ + 1]
        /\ UNCHANGED <<pc, outcome>>
  /\ UNCHANGED <<polls, inFlight, state, config, result>>

(* It is refused: the last attempt gives up, any other waits for the rival. *)
BeginRefused(r) ==
  /\ pc[r] = "begin"
  /\ inFlight # NoRun
  /\ rivals' = [rivals EXCEPT ![r] = @ \union {inFlight}]
  /\ \/ /\ attempt[r] = MaxAttempts
        /\ Raise(r, "blocked")
        /\ UNCHANGED polls
     \/ /\ attempt[r] # MaxAttempts
        /\ pc' = [pc EXCEPT ![r] = "conflictWait"]
        /\ polls' = [polls EXCEPT ![r] = 0]
        /\ UNCHANGED outcome
  /\ UNCHANGED <<attempt, inFlight, state, config, result>>

(* Slip: poller.result() is trusted, and the state is not waited for.       *)
TrustsPoller(r) ==
  /\ pc[r] = "poller"
  /\ result[r] = "Succeeded"
  /\ pc' = [pc EXCEPT ![r] = "done"]
  /\ outcome' = [outcome EXCEPT ![r] = "success"]
  /\ UNCHANGED <<attempt, polls, rivals, serviceVars>>

(* Slip: a failed operation is started again while attempts are left.       *)
RetriesFailedOperation(r) ==
  /\ pc[r] = "poller"
  /\ result[r] \in OperationResults \ {"Succeeded"}
  /\ attempt[r] < MaxAttempts
  /\ attempt' = [attempt EXCEPT ![r] = @ + 1]
  /\ pc' = [pc EXCEPT ![r] = "begin"]
  /\ UNCHANGED <<polls, outcome, rivals, serviceVars>>

(* poller.result() returns, or raises when the operation failed.            *)
PollerReturns(r) ==
  /\ pc[r] = "poller"
  /\ result[r] = "Succeeded"
  /\ pc' = [pc EXCEPT ![r] = "finalWait"]
  /\ polls' = [polls EXCEPT ![r] = 0]
  /\ UNCHANGED <<attempt, outcome, rivals, serviceVars>>

PollerRaises(r) ==
  /\ pc[r] = "poller"
  /\ result[r] \in OperationResults \ {"Succeeded"}
  /\ Raise(r, "operationFailed")
  /\ UNCHANGED <<attempt, polls, rivals, serviceVars>>

(* Slip: the `continue` after the wait for a rival is lost.                 *)
ReturnsAfterRival(r) ==
  /\ pc[r] \in Waits
  /\ state = "Succeeded"
  /\ pc' = [pc EXCEPT ![r] = "done"]
  /\ outcome' = [outcome EXCEPT ![r] = "success"]
  /\ polls' = [polls EXCEPT ![r] = @ + 1]
  /\ UNCHANGED <<attempt, rivals, serviceVars>>

(* wait_for_resource_terminal_state reads Succeeded: the final wait returns *)
(* the resource, the wait for a rival goes round the update loop again.     *)
ReadSucceeded(r) ==
  /\ pc[r] \in Waits
  /\ state = "Succeeded"
  /\ \/ /\ pc[r] = "conflictWait"
        /\ pc' = [pc EXCEPT ![r] = "begin"]
        /\ attempt' = [attempt EXCEPT ![r] = @ + 1]
        /\ UNCHANGED outcome
     \/ /\ pc[r] = "finalWait"
        /\ pc' = [pc EXCEPT ![r] = "done"]
        /\ outcome' = [outcome EXCEPT ![r] = "success"]
        /\ UNCHANGED attempt
  /\ polls' = [polls EXCEPT ![r] = @ + 1]
  /\ UNCHANGED <<rivals, serviceVars>>

(* Slip: a failed state is looked at again and again.                       *)
PollsFailedForever(r) ==
  /\ pc[r] \in Waits
  /\ state \in FailedStates
  /\ UNCHANGED vars

(* It reads a failed state, whoever's operation left it.                    *)
ReadFailed(r) ==
  /\ pc[r] \in Waits
  /\ state \in FailedStates
  /\ Raise(r, "stateFailed")
  /\ polls' = [polls EXCEPT ![r] = @ + 1]
  /\ UNCHANGED <<attempt, rivals, serviceVars>>

(* Slip: the limit is noticed one check late.                               *)
ChecksOnceMore(r) ==
  /\ pc[r] \in Waits
  /\ state \notin TerminalStates
  /\ polls' = [polls EXCEPT ![r] = @ + 1]
  /\ \/ /\ polls[r] = MaxPolls
        /\ Raise(r, "timeout")
     \/ /\ polls[r] < MaxPolls
        /\ UNCHANGED <<pc, outcome>>
  /\ UNCHANGED <<attempt, rivals, serviceVars>>

(* It reads a state that is not terminal: sleep and look again, or time out *)
(* after the last check, which has been made by then.                       *)
ReadUnfinished(r) ==
  /\ pc[r] \in Waits
  /\ state \notin TerminalStates
  /\ polls' = [polls EXCEPT ![r] = @ + 1]
  /\ \/ /\ polls[r] + 1 = MaxPolls
        /\ Raise(r, "timeout")
     \/ /\ polls[r] + 1 < MaxPolls
        /\ UNCHANGED <<pc, outcome>>
  /\ UNCHANGED <<attempt, rivals, serviceVars>>

(* An exception nothing here catches (a refused credential, a lost          *)
(* connection, a rejected request), or the runner is cancelled.             *)
Abort(r) ==
  /\ pc[r] \notin Ended
  /\ Raise(r, "aborted")
  /\ UNCHANGED <<attempt, polls, rivals, serviceVars>>

(* Provider: the running operation ends, and its poller can say how.  The   *)
(* state it shows is not that of the resource yet.                          *)
EndOperation ==
  /\ inFlight # NoRun
  /\ \E res \in OperationResults :
       /\ result' = [result EXCEPT ![inFlight] = res]
       /\ config' = IF res = "Succeeded" THEN inFlight ELSE config
  /\ inFlight' = NoRun
  /\ UNCHANGED <<state, clientVars>>

(* Provider: the state of the resource settles after its operation, on      *)
(* whatever result: a poller that returned does not exclude "Failed"        *)
(* (tests/test_python_sdk_v2.py:953-966).                                   *)
Settle ==
  /\ inFlight = NoRun
  /\ state = "Updating"
  /\ state' \in OperationResults
  /\ UNCHANGED <<inFlight, config, result, clientVars>>

Step(r) ==
  \/ BeginAccepted(r) \/ BeginRefused(r)
  \/ PollerReturns(r) \/ PollerRaises(r)
  \/ ReadSucceeded(r) \/ ReadFailed(r) \/ ReadUnfinished(r)

Next == EndOperation \/ Settle \/ \E r \in Runs : Step(r) \/ Abort(r)

(* The process runs and the provider finishes what it accepted.  Nobody is  *)
(* obliged to abort, and no state to settle.                                *)
Fairness == WF_vars(EndOperation) /\ \A r \in Runs : WF_vars(Step(r))

Spec == Init /\ [][Next]_vars
FairSpec == Spec /\ Fairness

-----------------------------------------------------------------------------
(* Properties                                                               *)

(* Every variable has its type; the loops stay within their limits.         *)
TypeOK ==
  /\ pc \in [Runs -> {"begin", "poller"} \union Waits \union Ended]
  /\ attempt \in [Runs -> 1 .. MaxAttempts]
  /\ polls \in [Runs -> 0 .. MaxPolls]
  /\ outcome \in [Runs -> {"none", "success", "blocked", "operationFailed",
                           "stateFailed", "timeout", "aborted"}]
  /\ rivals \in [Runs -> SUBSET Runs]
  /\ inFlight \in Runs \union {NoRun}
  /\ state \in {"Absent", "Updating"} \union OperationResults
  /\ config \in Runs \union {NoRun}
  /\ result \in [Runs -> {"none"} \union OperationResults]

(* A call that returns the resource has had its own update applied, although *)
(* the Succeeded it read last may be that of a rival's operation            *)
(* (aml_client.py:253-260: only the path through wait_for_poller returns).  *)
SuccessIsApplied ==
  \A r \in Runs : outcome[r] = "success" => result[r] = "Succeeded"

(* An operation the provider runs is the only one of its call: the retry    *)
(* loop never starts an update again once one was accepted.                 *)
AcceptedOnce == inFlight # NoRun => result[inFlight] = "none"

(* A call that gives up as blocked was refused by MaxAttempts different     *)
(* calls: it waits out each rival before it tries again, so two attempts    *)
(* are never spent on the same operation (aml_client.py:236-253).           *)
BlockedByDistinctRivals ==
  \A r \in Runs : outcome[r] = "blocked" =>
    /\ Cardinality(rivals[r]) = MaxAttempts
    /\ r \notin rivals[r]

(* With no more concurrent calls than attempts, none gives up as blocked.   *)
FewRunsNeverBlocked ==
  Cardinality(Runs) <= MaxAttempts => \A r \in Runs : outcome[r] # "blocked"

(* A call returns only when its own operation has succeeded and, after it,  *)
(* the resource was seen in Succeeded with nobody's operation running: the  *)
(* caller goes on with a resource that has settled, although the poller may *)
(* be ahead of the state or at odds with it, and a rival's update may have  *)
(* begun in between (aml_client.py:254-260, 276-294).                       *)
ReturnsOnlySettled ==
  [][\A r \in Runs :
       pc[r] # "done" /\ pc'[r] = "done" =>
         result[r] = "Succeeded" /\ state = "Succeeded" /\ inFlight = NoRun]_vars

(* Every call ends: each wait is bounded, and so is the number of waits.    *)
EveryCallEnds == \A r \in Runs : <>(pc[r] \in Ended)

(* The protocol keeps the promise of UpdateContract.                        *)
Contract == INSTANCE UpdateContract WITH
  applied <- {r \in Runs : result[r] = "Succeeded"},
  report <- [r \in Runs |-> CASE pc[r] = "done" -> "success"
                              [] pc[r] = "failed" -> "failure"
                              [] OTHER -> "pending"]

KeepsContract == Contract!Spec
=============================================================================
