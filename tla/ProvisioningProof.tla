-------------------------- MODULE ProvisioningProof --------------------------
(***************************************************************************)
(* Proofs about the update protocol of Provisioning.tla, for every set of  *)
(* calls and every pair of limits.                                         *)
(***************************************************************************)
EXTENDS Provisioning, FiniteSetTheorems, TLAPS

(***************************************************************************)
(* The inductive invariant.  While an operation runs the resource shows    *)
(* "Updating", whatever it shows later, and a call has at most one; a call *)
(* that is still trying has none, and every rival it was refused by has    *)
(* ended by the time it tries again, so a further refusal comes from a     *)
(* further rival.                                                          *)
(***************************************************************************)
Accepted(o) == inFlight = o \/ result[o] # "none"

ServiceInv ==
  inFlight # NoRun => state = "Updating" /\ result[inFlight] = "none"

CallInv(r) ==
  /\ pc[r] \in {"begin", "conflictWait"} => ~Accepted(r)
  /\ pc[r] \in {"finalWait", "done"} => result[r] = "Succeeded"
  /\ outcome[r] = "success" <=> pc[r] = "done"
  /\ outcome[r] = "none" <=> pc[r] \notin Ended
  /\ pc[r] = "poller" => Accepted(r)
  /\ pc[r] \in Waits => polls[r] < MaxPolls

RivalInv(r) ==
  /\ r \notin rivals[r]
  /\ pc[r] = "begin" =>
       /\ \A o \in rivals[r] : result[o] # "none"
       /\ Cardinality(rivals[r]) = attempt[r] - 1
  /\ pc[r] = "conflictWait" =>
       /\ \A o \in rivals[r] : Accepted(o)
       /\ Cardinality(rivals[r]) = attempt[r]
       /\ attempt[r] < MaxAttempts
  /\ outcome[r] = "blocked" => Cardinality(rivals[r]) = MaxAttempts

IInv ==
  /\ TypeOK
  /\ ServiceInv
  /\ \A r \in Runs : CallInv(r) /\ RivalInv(r)

(* The initial states satisfy the invariant.                                *)
LEMMA InitInv == Init => IInv
<1> SUFFICES ASSUME Init PROVE IInv
  OBVIOUS
<1> USE RunsAssumption, LimitsAssumption
<1>1. TypeOK
  BY DEF Init, TypeOK, OperationResults, Waits, Ended
<1>2. ServiceInv
  BY DEF Init, ServiceInv
<1>3. \A r \in Runs : CallInv(r)
  BY DEF Init, CallInv, Accepted, Waits, Ended
<1>4. \A r \in Runs : RivalInv(r)
  BY FS_EmptySet DEF Init, RivalInv
<1>5. QED
  BY <1>1, <1>2, <1>3, <1>4 DEF IInv

(* A state that settles makes no call's operation running again.            *)
LEMMA SettleInv == IInv /\ Settle => IInv'
<1> SUFFICES ASSUME IInv, Settle PROVE IInv'
  OBVIOUS
<1>1. TypeOK'
  BY DEF IInv, TypeOK, Settle, clientVars, OperationResults
<1>2. ServiceInv'
  BY DEF ServiceInv, Settle
<1>3. ASSUME NEW r \in Runs PROVE CallInv(r)' /\ RivalInv(r)'
  BY DEF IInv, CallInv, RivalInv, Accepted, Settle, clientVars
<1>4. QED
  BY <1>1, <1>2, <1>3 DEF IInv

(* The provider ends an operation: its call, if it still waits, is told.    *)
LEMMA EndOperationInv == IInv /\ EndOperation => IInv'
<1> SUFFICES ASSUME IInv, EndOperation PROVE IInv'
  OBVIOUS
<1> USE RunsAssumption, LimitsAssumption
<1>1. TypeOK'
  BY DEF IInv, TypeOK, EndOperation, clientVars, OperationResults
<1>2. \A o \in Runs : Accepted(o) => Accepted(o)'
  BY DEF IInv, TypeOK, ServiceInv, EndOperation, Accepted, OperationResults
<1>3. \A o \in Runs : Accepted(o)' => Accepted(o)
  BY DEF IInv, TypeOK, ServiceInv, EndOperation, Accepted, OperationResults
<1>4. ServiceInv'
  BY <1>2 DEF IInv, TypeOK, ServiceInv, EndOperation, Accepted, OperationResults
<1>5. ASSUME NEW r \in Runs PROVE CallInv(r)' /\ RivalInv(r)'
  <2>1. CallInv(r)'
    BY <1>2, <1>3 DEF IInv, TypeOK, ServiceInv, CallInv, EndOperation, clientVars,
       Waits, Ended, Accepted
  <2>2. RivalInv(r)'
    BY <1>2 DEF IInv, TypeOK, RivalInv, EndOperation, clientVars, OperationResults
  <2>3. QED
    BY <2>1, <2>2
<1>6. QED
  BY <1>1, <1>4, <1>5 DEF IInv

(* An accepted update is the first operation of its call.                   *)
LEMMA BeginAcceptedInv ==
  ASSUME IInv, NEW r \in Runs, BeginAccepted(r) PROVE IInv'
<1> USE RunsAssumption, LimitsAssumption
<1>1. TypeOK'
  BY DEF IInv, TypeOK, BeginAccepted
<1>2. \A o \in Runs : Accepted(o)' <=> Accepted(o) \/ o = r
  BY DEF IInv, TypeOK, ServiceInv, BeginAccepted, Accepted
<1>3. ServiceInv'
  BY <1>2 DEF IInv, TypeOK, ServiceInv, CallInv, BeginAccepted, Accepted
<1>4. ASSUME NEW q \in Runs PROVE CallInv(q)' /\ RivalInv(q)'
  <2>1. CallInv(q)'
    BY <1>2 DEF IInv, TypeOK, CallInv, BeginAccepted, Waits, Ended
  <2>2. RivalInv(q)'
    BY <1>2 DEF IInv, TypeOK, RivalInv, BeginAccepted
  <2>3. QED
    BY <2>1, <2>2
<1>5. QED
  BY <1>1, <1>3, <1>4 DEF IInv

(* The call that refuses is none of those that refused before.              *)
LEMMA BeginRefusedInv ==
  ASSUME IInv, NEW r \in Runs, BeginRefused(r) PROVE IInv'
<1> USE RunsAssumption, LimitsAssumption
<1>1. TypeOK'
  BY DEF IInv, TypeOK, BeginRefused, Raise, Waits, Ended
<1>2. \A o \in Runs : Accepted(o)' <=> Accepted(o)
  BY DEF BeginRefused, Accepted
<1>3. ServiceInv'
  BY <1>2 DEF IInv, ServiceInv, BeginRefused
<1>4. ASSUME NEW q \in Runs PROVE CallInv(q)'
  BY <1>2 DEF IInv, TypeOK, CallInv, BeginRefused, Raise, Waits, Ended
<1>5. inFlight \in Runs /\ inFlight \notin rivals[r] /\ inFlight # r
  BY DEF IInv, TypeOK, ServiceInv, RivalInv, CallInv, Accepted, BeginRefused
<1>6. Cardinality(rivals[r] \union {inFlight}) = attempt[r]
  <2>1. IsFiniteSet(rivals[r])
    BY FS_Subset DEF IInv, TypeOK
  <2>2. Cardinality(rivals[r]) = attempt[r] - 1 /\ attempt[r] \in Nat
    BY DEF IInv, TypeOK, RivalInv, BeginRefused
  <2>3. Cardinality(rivals[r] \union {inFlight}) = Cardinality(rivals[r]) + 1
    BY <1>5, <2>1, FS_AddElement
  <2>4. QED
    BY <2>2, <2>3
<1>7. ASSUME NEW q \in Runs PROVE RivalInv(q)'
  <2>1. CASE q # r
    BY <2>1, <1>2 DEF IInv, TypeOK, RivalInv, BeginRefused, Raise, Waits, Ended
  <2>2. CASE q = r
    <3>1. rivals'[r] = rivals[r] \union {inFlight} /\ attempt' = attempt
      BY DEF IInv, TypeOK, BeginRefused
    <3>2. \A o \in rivals'[r] : Accepted(o)'
      BY <1>2, <1>5, <3>1 DEF IInv, TypeOK, RivalInv, BeginRefused, Accepted
    <3>3. r \notin rivals'[r]
      BY <1>5, <3>1 DEF IInv, RivalInv
    <3>4. Cardinality(rivals'[r]) = attempt[r]
      BY <1>6, <3>1
    <3>5. outcome[r] = "none"
      BY DEF IInv, CallInv, BeginRefused, Ended
    <3>6. pc'[r] # "begin"
      BY DEF IInv, TypeOK, BeginRefused, Raise
    <3>7. pc'[r] = "conflictWait" => attempt[r] < MaxAttempts
      BY DEF IInv, TypeOK, BeginRefused, Raise
    <3>8. outcome'[r] = "blocked" => attempt[r] = MaxAttempts
      BY <3>5 DEF IInv, TypeOK, BeginRefused, Raise
    <3>9. QED
      BY <2>2, <3>1, <3>2, <3>3, <3>4, <3>6, <3>7, <3>8 DEF RivalInv
  <2>3. QED
    BY <2>1, <2>2
<1>8. QED
  BY <1>1, <1>3, <1>4, <1>7 DEF IInv

(* The steps of a call that leave the provider and the rivals alone.        *)
LEMMA ClientInv ==
  ASSUME IInv, NEW r \in Runs,
         \/ PollerReturns(r) \/ PollerRaises(r) \/ ReadSucceeded(r)
         \/ ReadFailed(r) \/ ReadUnfinished(r) \/ Abort(r)
  PROVE  IInv'
<1> USE RunsAssumption, LimitsAssumption
<1> DEFINE Quiet == UNCHANGED <<rivals, serviceVars>>
<1>1. Quiet
  BY DEF PollerReturns, PollerRaises, ReadSucceeded, ReadFailed, ReadUnfinished, Abort
<1>2. \A o \in Runs : Accepted(o)' <=> Accepted(o)
  BY <1>1 DEF Accepted, serviceVars
<1>3. ServiceInv'
  BY <1>1, <1>2 DEF IInv, ServiceInv, serviceVars
<1>4. CASE PollerReturns(r)
  <2>1. TypeOK'
    BY <1>1, <1>4 DEF IInv, TypeOK, PollerReturns, Waits, serviceVars
  <2>2. ASSUME NEW q \in Runs PROVE CallInv(q)' /\ RivalInv(q)'
    BY <1>1, <1>2, <1>4 DEF IInv, TypeOK, CallInv, RivalInv, PollerReturns, Waits,
       Ended, serviceVars
  <2>3. QED
    BY <1>3, <2>1, <2>2 DEF IInv
<1>5. CASE PollerRaises(r)
  <2>1. TypeOK'
    BY <1>1, <1>5 DEF IInv, TypeOK, PollerRaises, Raise, Ended, serviceVars
  <2>2. ASSUME NEW q \in Runs PROVE CallInv(q)' /\ RivalInv(q)'
    BY <1>1, <1>2, <1>5 DEF IInv, TypeOK, CallInv, RivalInv, PollerRaises, Raise, Waits,
       Ended, serviceVars
  <2>3. QED
    BY <1>3, <2>1, <2>2 DEF IInv
<1>6. CASE ReadSucceeded(r)
  <2>1. TypeOK'
    BY <1>1, <1>6 DEF IInv, TypeOK, CallInv, RivalInv, ReadSucceeded, Waits, Ended,
       serviceVars
  <2>2. ASSUME NEW q \in Runs PROVE CallInv(q)'
    BY <1>1, <1>2, <1>6 DEF IInv, TypeOK, CallInv, ReadSucceeded, Waits, Ended,
       serviceVars
  <2>3. inFlight = NoRun
    BY <1>6 DEF IInv, ServiceInv, ReadSucceeded
  <2>4. ASSUME NEW q \in Runs PROVE RivalInv(q)'
    <3>1. CASE q # r
      BY <1>1, <1>2, <1>6, <3>1 DEF IInv, TypeOK, RivalInv, ReadSucceeded, serviceVars
    <3>2. CASE q = r /\ pc[r] = "conflictWait"
      <4>1. \A o \in rivals[r] : o \in Runs /\ result[o] # "none"
        BY <2>3, <3>2 DEF IInv, TypeOK, RivalInv, Accepted
      <4>2. QED
        BY <1>1, <1>6, <3>2, <4>1 DEF IInv, TypeOK, RivalInv, CallInv, ReadSucceeded,
           Waits, Ended, serviceVars
    <3>3. CASE q = r /\ pc[r] = "finalWait"
      BY <1>1, <1>6, <3>3 DEF IInv, TypeOK, RivalInv, ReadSucceeded, serviceVars
    <3>4. QED
      BY <1>6, <3>1, <3>2, <3>3 DEF ReadSucceeded, Waits
  <2>5. QED
    BY <1>3, <2>1, <2>2, <2>4 DEF IInv
<1>7. CASE ReadFailed(r)
  <2>1. TypeOK'
    BY <1>1, <1>7 DEF IInv, TypeOK, CallInv, ReadFailed, Raise, Ended, serviceVars
  <2>2. ASSUME NEW q \in Runs PROVE CallInv(q)' /\ RivalInv(q)'
    BY <1>1, <1>2, <1>7 DEF IInv, TypeOK, CallInv, RivalInv, ReadFailed, Raise, Waits,
       Ended, serviceVars
  <2>3. QED
    BY <1>3, <2>1, <2>2 DEF IInv
<1>8. CASE ReadUnfinished(r)
  <2>1. TypeOK'
    BY <1>1, <1>8 DEF IInv, TypeOK, CallInv, ReadUnfinished, Raise, Ended, serviceVars
  <2>2. ASSUME NEW q \in Runs PROVE CallInv(q)' /\ RivalInv(q)'
    BY <1>1, <1>2, <1>8 DEF IInv, TypeOK, CallInv, RivalInv, ReadUnfinished, Raise,
       Waits, Ended, serviceVars
  <2>3. QED
    BY <1>3, <2>1, <2>2 DEF IInv
<1>9. CASE Abort(r)
  <2>1. TypeOK'
    BY <1>1, <1>9 DEF IInv, TypeOK, Abort, Raise, Ended, serviceVars
  <2>2. ASSUME NEW q \in Runs PROVE CallInv(q)' /\ RivalInv(q)'
    BY <1>1, <1>2, <1>9 DEF IInv, TypeOK, CallInv, RivalInv, Abort, Raise, Waits,
       Ended, serviceVars
  <2>3. QED
    BY <1>3, <2>1, <2>2 DEF IInv
<1>10. QED
  BY <1>4, <1>5, <1>6, <1>7, <1>8, <1>9

(* A step that changes nothing keeps the invariant.                         *)
LEMMA StutterInv == IInv /\ UNCHANGED vars => IInv'
BY DEF IInv, TypeOK, ServiceInv, CallInv, RivalInv, Accepted, vars

(* The invariant is inductive, hence holds throughout.                      *)
THEOREM Inductive == Spec => []IInv
<1>1. IInv /\ [Next]_vars => IInv'
  BY EndOperationInv, SettleInv, BeginAcceptedInv, BeginRefusedInv, ClientInv, StutterInv
     DEF Next, Step
<1>2. QED
  BY InitInv, <1>1, PTL DEF Spec

(* Every variable keeps its type, whatever the limits.                      *)
THEOREM TypeCorrect == Spec => []TypeOK
<1>1. IInv => TypeOK
  BY DEF IInv
<1>2. QED
  BY Inductive, <1>1, PTL

(* A call that returns has had its own update applied.                      *)
THEOREM SuccessCorrect == Spec => []SuccessIsApplied
<1>1. IInv => SuccessIsApplied
  BY DEF IInv, CallInv, SuccessIsApplied
<1>2. QED
  BY Inductive, <1>1, PTL

(* No call's update is ever started a second time.                          *)
THEOREM AcceptedOnceCorrect == Spec => []AcceptedOnce
<1>1. IInv => AcceptedOnce
  BY DEF IInv, ServiceInv, AcceptedOnce
<1>2. QED
  BY Inductive, <1>1, PTL

(* A call returns a resource that was seen to have settled after its own    *)
(* operation succeeded, whatever the state showed in between.               *)
THEOREM ReturnsSettledCorrect == Spec => ReturnsOnlySettled
<1>1. ASSUME IInv, Next, NEW r \in Runs, pc[r] # "done", pc'[r] = "done"
      PROVE  result[r] = "Succeeded" /\ state = "Succeeded" /\ inFlight = NoRun
  <2>1. pc[r] = "finalWait" /\ state = "Succeeded"
    BY <1>1 DEF IInv, TypeOK, Next, Step, EndOperation, Settle, BeginAccepted,
       BeginRefused, PollerReturns, PollerRaises, ReadSucceeded, ReadFailed,
       ReadUnfinished, Abort, Raise, clientVars
  <2>2. QED
    BY <1>1, <2>1 DEF IInv, ServiceInv, CallInv
<1>2. IInv /\ [Next]_vars =>
        [\A r \in Runs : pc[r] # "done" /\ pc'[r] = "done" =>
           result[r] = "Succeeded" /\ state = "Succeeded" /\ inFlight = NoRun]_vars
  BY <1>1
<1>3. QED
  BY Inductive, <1>2, PTL DEF Spec, ReturnsOnlySettled

(* A call that gives up was refused by max_update_attempts different calls. *)
THEOREM BlockedCorrect == Spec => []BlockedByDistinctRivals
<1>1. IInv => BlockedByDistinctRivals
  BY DEF IInv, RivalInv, BlockedByDistinctRivals
<1>2. QED
  BY Inductive, <1>1, PTL

(* max_update_attempts concurrent calls can all be served without one of    *)
(* them giving up: the default of 3 suffices for three concurrent updates.  *)
THEOREM FewRunsCorrect == Spec => []FewRunsNeverBlocked
<1>1. TypeOK /\ BlockedByDistinctRivals => FewRunsNeverBlocked
  <2> SUFFICES ASSUME TypeOK, BlockedByDistinctRivals,
                      Cardinality(Runs) <= MaxAttempts,
                      NEW r \in Runs, outcome[r] = "blocked"
               PROVE  FALSE
    BY DEF FewRunsNeverBlocked
  <2>1. rivals[r] \subseteq Runs /\ rivals[r] # Runs
    BY DEF TypeOK, BlockedByDistinctRivals
  <2>2. /\ Cardinality(rivals[r]) <= Cardinality(Runs)
        /\ Cardinality(rivals[r]) # Cardinality(Runs)
    <3>1. rivals[r] \in SUBSET Runs
      BY <2>1
    <3>2. QED
      BY <2>1, <3>1, RunsAssumption, FS_Subset
  <2>3. Cardinality(rivals[r]) = MaxAttempts
    BY DEF BlockedByDistinctRivals
  <2>4. Cardinality(Runs) \in Nat
    BY RunsAssumption, FS_CardinalityType
  <2>5. QED
    BY <2>2, <2>3, <2>4, LimitsAssumption
<1>2. QED
  BY TypeCorrect, BlockedCorrect, <1>1, PTL

(***************************************************************************)
(* The protocol implements UpdateContract: the provider's successful end   *)
(* of an operation is Apply, the last step of a call is its report, and    *)
(* every other step stutters.                                              *)
(***************************************************************************)
Applied == {r \in Runs : result[r] = "Succeeded"}
Reported(r) == CASE pc[r] = "done" -> "success"
                 [] pc[r] = "failed" -> "failure"
                 [] OTHER -> "pending"
Report == [r \in Runs |-> Reported(r)]

(* The initial states are initial states of the contract: nothing is applied*)
(* yet, and every report is pending.                                        *)
LEMMA InitMaps == Init => Contract!Init
BY DEF Init, Contract!Init

(* What a call that ends reports, and that no other report changes.         *)
LEMMA ReportChanges ==
  ASSUME TypeOK, NEW r \in Runs, pc[r] \notin Ended,
         NEW e \in Ended, pc' = [pc EXCEPT ![r] = e]
  PROVE  /\ Report[r] = "pending"
         /\ Report' = [Report EXCEPT ![r] = IF e = "done" THEN "success" ELSE "failure"]
<1>1. pc \in [Runs -> {"begin", "poller"} \union Waits \union Ended]
  BY DEF TypeOK
<1>2. Report[r] = "pending"
  BY DEF Report, Reported, Ended
<1>3. \A q \in Runs : Reported(q)' =
        IF q = r THEN IF e = "done" THEN "success" ELSE "failure" ELSE Reported(q)
  BY <1>1 DEF Reported, Ended
<1>4. QED
  BY <1>2, <1>3 DEF Report

(* A call that raises, for whatever reason, is a ReportFailure of the       *)
(* contract.                                                                *)
LEMMA FailureMaps ==
  ASSUME TypeOK, NEW r \in Runs, pc[r] \notin Ended,
         pc' = [pc EXCEPT ![r] = "failed"], UNCHANGED serviceVars
  PROVE  Contract!ReportFailure(r)
<1>1. /\ Report[r] = "pending"
      /\ Report' = [Report EXCEPT ![r] = "failure"]
  BY ReportChanges DEF Ended
<1>2. Applied' = Applied /\ config' = config
  BY DEF Applied, serviceVars
<1>3. QED
  BY <1>1, <1>2 DEF Contract!ReportFailure, Applied, Report, Reported

(* A call that returns the resource is a ReportSuccess of the contract: its *)
(* own operation has succeeded by then.                                     *)
LEMMA SuccessMaps ==
  ASSUME TypeOK, NEW r \in Runs, pc[r] = "finalWait", result[r] = "Succeeded",
         pc' = [pc EXCEPT ![r] = "done"], UNCHANGED serviceVars
  PROVE  Contract!ReportSuccess(r)
<1>1. /\ Report[r] = "pending"
      /\ Report' = [Report EXCEPT ![r] = "success"]
  BY ReportChanges DEF Ended
<1>2. Applied' = Applied /\ config' = config /\ r \in Applied
  BY DEF Applied, serviceVars
<1>3. QED
  BY <1>1, <1>2 DEF Contract!ReportSuccess, Applied, Report, Reported

(* A step that reports nothing and ends no operation is a stutter.          *)
LEMMA QuietMaps ==
  ASSUME TypeOK, NEW r \in Runs, NEW p, pc[r] \notin Ended, p \notin Ended,
         pc' = [pc EXCEPT ![r] = p], UNCHANGED <<result, config>>
  PROVE  UNCHANGED Contract!vars
<1>1. \A q \in Runs : Reported(q)' = Reported(q)
  BY DEF TypeOK, Reported, Ended
<1>2. Report' = Report
  BY <1>1 DEF Report
<1>3. QED
  BY <1>2 DEF Contract!vars, Report, Reported

(* The end of an operation is an Apply of the contract when it succeeded, and*)
(* a stutter when it failed.                                                *)
LEMMA EndOperationMaps ==
  ASSUME IInv, EndOperation PROVE [Contract!Next]_(Contract!vars)
<1>1. PICK r \in Runs : r = inFlight /\ result[r] = "none"
  BY DEF EndOperation, IInv, TypeOK, ServiceInv
<1>2. PICK res \in OperationResults :
        /\ result' = [result EXCEPT ![r] = res]
        /\ config' = IF res = "Succeeded" THEN r ELSE config
  BY <1>1 DEF EndOperation
<1>3. Report' = Report
  BY DEF EndOperation, clientVars, Report, Reported
<1>4. CASE res = "Succeeded"
  <2>1. Applied' = Applied \union {r} /\ r \notin Applied /\ config' = r
    BY <1>1, <1>2, <1>4 DEF IInv, TypeOK, Applied
  <2>2. Report[r] # "success"
    BY <1>1 DEF IInv, CallInv, Report, Reported
  <2>3. Contract!Apply(r)
    BY <1>3, <2>1, <2>2 DEF Contract!Apply, Applied, Report, Reported
  <2>4. QED
    BY <1>1, <2>3 DEF Contract!Next
<1>5. CASE res # "Succeeded"
  <2>1. Applied' = Applied /\ config' = config
    BY <1>1, <1>2, <1>5 DEF IInv, TypeOK, Applied
  <2>2. QED
    BY <1>3, <2>1 DEF Contract!vars, Applied, Report, Reported
<1>6. QED
  BY <1>4, <1>5

(* What the state shows is no part of the promise.                          *)
LEMMA SettleMaps == Settle => UNCHANGED Contract!vars
BY DEF Settle, clientVars, Contract!vars

(* Every step of a call is its report or a stutter.                         *)
LEMMA CallMaps ==
  ASSUME IInv, NEW r \in Runs, Step(r) \/ Abort(r)
  PROVE  [Contract!Next]_(Contract!vars)
<1>1. TypeOK
  BY DEF IInv
<1>2. ASSUME NEW p, p \notin Ended, pc[r] \notin Ended,
             pc' = [pc EXCEPT ![r] = p], UNCHANGED <<result, config>>
      PROVE  [Contract!Next]_(Contract!vars)
  BY <1>1, <1>2, QuietMaps
<1>3. ASSUME pc[r] \notin Ended, pc' = [pc EXCEPT ![r] = "failed"],
             UNCHANGED serviceVars
      PROVE  [Contract!Next]_(Contract!vars)
  BY <1>1, <1>3, FailureMaps DEF Contract!Next
<1>4. CASE BeginAccepted(r)
  BY <1>2, <1>4 DEF BeginAccepted, Ended
<1>5. CASE BeginRefused(r)
  BY <1>2, <1>3, <1>5 DEF BeginRefused, Raise, Ended, serviceVars
<1>6. CASE PollerReturns(r)
  BY <1>2, <1>6 DEF PollerReturns, Ended, serviceVars
<1>7. CASE PollerRaises(r)
  BY <1>3, <1>7 DEF PollerRaises, Raise, Ended
<1>8. CASE ReadSucceeded(r)
  <2>1. CASE pc[r] = "conflictWait"
    BY <1>2, <1>8, <2>1 DEF ReadSucceeded, Ended, serviceVars
  <2>2. CASE pc[r] = "finalWait"
    BY <1>1, <1>8, <2>2, SuccessMaps DEF ReadSucceeded, Contract!Next, IInv, CallInv
  <2>3. QED
    BY <1>8, <2>1, <2>2 DEF ReadSucceeded
<1>9. CASE ReadFailed(r)
  BY <1>3, <1>9 DEF ReadFailed, Raise, Waits, Ended
<1>10. CASE ReadUnfinished(r)
  <2>1. CASE UNCHANGED pc
    <3>1. UNCHANGED Contract!vars
      BY <1>10, <2>1 DEF ReadUnfinished, Contract!vars, serviceVars
    <3>2. QED
      BY <3>1
  <2>2. CASE pc' = [pc EXCEPT ![r] = "failed"]
    BY <1>3, <1>10, <2>2 DEF ReadUnfinished, Waits, Ended
  <2>3. QED
    BY <1>10, <2>1, <2>2 DEF ReadUnfinished, Raise
<1>11. CASE Abort(r)
  BY <1>3, <1>11 DEF Abort, Raise
<1>12. QED
  BY <1>4, <1>5, <1>6, <1>7, <1>8, <1>9, <1>10, <1>11 DEF Step

(* aml_client.py's update keeps the promise that its callers build on.      *)
THEOREM ContractKept == Spec => KeepsContract
<1>1. IInv /\ [Next]_vars => [Contract!Next]_(Contract!vars)
  <2>1. ASSUME UNCHANGED vars PROVE UNCHANGED Contract!vars
    BY <2>1 DEF vars, Contract!vars
  <2>2. QED
    BY <2>1, EndOperationMaps, SettleMaps, CallMaps DEF Next
<1>2. QED
  BY InitMaps, Inductive, <1>1, PTL DEF Spec, KeepsContract, Contract!Spec

-----------------------------------------------------------------------------
(***************************************************************************)
(* Why the calls end.  Whatever is done in whatever order, only so many    *)
(* steps can be done: each one takes one call further, by a variant of the *)
(* attempt, the place in it and the checks of the state, all bounded by    *)
(* TypeOK, or ends the one operation of a call, or settles the state that  *)
(* an operation left, at most once after it.  And a call that waits waits  *)
(* for something that is on its way or counts its checks.                  *)
(***************************************************************************)
Stage(r) ==
  CASE pc[r] = "begin" -> 0
    [] pc[r] = "conflictWait" -> 1
    [] pc[r] = "poller" -> 2
    [] pc[r] = "finalWait" -> 3
    [] OTHER -> 4

Further(r) ==
  \/ attempt'[r] > attempt[r]
  \/ attempt'[r] = attempt[r] /\ Stage(r)' > Stage(r)
  \/ attempt'[r] = attempt[r] /\ Stage(r)' = Stage(r) /\ polls'[r] > polls[r]

Place(r) == <<pc[r], attempt[r], polls[r], outcome[r], rivals[r]>>

Advance ==
  \/ \E r \in Runs :
       /\ Further(r)
       /\ result' = result /\ \A q \in Runs \ {r} : UNCHANGED Place(q)
  \/ \E r \in Runs :
       /\ result[r] = "none" /\ result'[r] # "none"
       /\ \A q \in Runs \ {r} : result'[q] = result[q]
       /\ \A q \in Runs : UNCHANGED Place(q)
  \/ /\ inFlight = NoRun /\ state = "Updating" /\ state' # "Updating"
     /\ result' = result /\ \A q \in Runs : UNCHANGED Place(q)

(* No step of the protocol is repeated for ever: a step takes one call      *)
(* further, or ends an operation for which its call waits, or did, and that *)
(* never ends again, or settles the state, which only a further operation   *)
(* unsettles (aml_client.py:234-260).                                       *)
AlwaysFurther == [][Advance]_vars

(* A call that waits for its poller has an operation that is running or has *)
(* ended; one that waits for a state has a check left to make.              *)
NeverStuck ==
  \A r \in Runs :
    /\ pc[r] = "poller" => inFlight = r \/ result[r] # "none"
    /\ pc[r] \in Waits => polls[r] < MaxPolls
    /\ inFlight # NoRun => result[inFlight] = "none"

(* The steps of one call leave the other calls where they are.              *)
LEMMA OthersStay ==
  ASSUME TypeOK, NEW r \in Runs, Step(r) \/ Abort(r)
  PROVE  result' = result /\ \A q \in Runs \ {r} : UNCHANGED Place(q)
<1> USE DEF TypeOK, Place, serviceVars, Raise
<1>1. CASE BeginAccepted(r) \/ BeginRefused(r)
  BY <1>1 DEF BeginAccepted, BeginRefused
<1>2. CASE PollerReturns(r) \/ PollerRaises(r)
  BY <1>2 DEF PollerReturns, PollerRaises
<1>3. CASE ReadSucceeded(r) \/ ReadFailed(r) \/ ReadUnfinished(r) \/ Abort(r)
  BY <1>3 DEF ReadSucceeded, ReadFailed, ReadUnfinished, Abort
<1>4. QED
  BY <1>1, <1>2, <1>3 DEF Step

(* They take it further: to a later place of its attempt, to its next       *)
(* attempt, or to its next check.                                           *)
LEMMA CallGoesFurther ==
  ASSUME TypeOK, NEW r \in Runs, Step(r) \/ Abort(r)
  PROVE  Further(r)
<1> USE DEF TypeOK, Further, Stage, Ended, Waits
<1>1. attempt[r] \in Nat /\ polls[r] \in Nat
  BY LimitsAssumption
<1>2. CASE BeginAccepted(r) \/ PollerReturns(r)
  BY <1>1, <1>2 DEF BeginAccepted, PollerReturns
<1>3. CASE BeginRefused(r)
  BY <1>1, <1>3 DEF BeginRefused, Raise
<1>4. CASE PollerRaises(r) \/ Abort(r)
  BY <1>1, <1>4 DEF PollerRaises, Abort, Raise
<1>5. CASE ReadSucceeded(r)
  BY <1>1, <1>5 DEF ReadSucceeded
<1>6. CASE ReadFailed(r) \/ ReadUnfinished(r)
  BY <1>1, <1>6 DEF ReadFailed, ReadUnfinished, Raise
<1>7. QED
  BY <1>2, <1>3, <1>4, <1>5, <1>6 DEF Step

(* Every step is progress of a call or of the provider, for any number of   *)
(* calls and any limits.                                                    *)
THEOREM AlwaysFurtherCorrect == Spec => AlwaysFurther
<1>1. IInv /\ [Next]_vars => [Advance]_vars
  <2> SUFFICES ASSUME IInv, Next PROVE Advance
    OBVIOUS
  <2>1. ASSUME EndOperation PROVE Advance
    <3>1. inFlight \in Runs /\ result[inFlight] = "none"
      BY <2>1 DEF EndOperation, IInv, TypeOK, ServiceInv
    <3>2. /\ result'[inFlight] # "none"
          /\ \A q \in Runs \ {inFlight} : result'[q] = result[q]
      BY <2>1, <3>1 DEF EndOperation, IInv, TypeOK, OperationResults
    <3>3. \A q \in Runs : UNCHANGED Place(q)
      BY <2>1 DEF EndOperation, clientVars, Place
    <3>4. QED
      BY <3>1, <3>2, <3>3 DEF Advance
  <2>2. ASSUME Settle PROVE Advance
    BY <2>2 DEF Settle, clientVars, OperationResults, Place, Advance
  <2>3. ASSUME NEW r \in Runs, Step(r) \/ Abort(r) PROVE Advance
    BY <2>3, OthersStay, CallGoesFurther DEF IInv, Advance
  <2>4. QED
    BY <2>1, <2>2, <2>3 DEF Next
<1>2. QED
  BY Inductive, <1>1, PTL DEF Spec, AlwaysFurther

(* No call waits for what will not come (aml_client.py:234-260, 276-299).   *)
THEOREM NeverStuckCorrect == Spec => []NeverStuck
<1>1. IInv => NeverStuck
  BY DEF IInv, ServiceInv, CallInv, Accepted, NeverStuck
<1>2. QED
  BY Inductive, <1>1, PTL
=============================================================================
