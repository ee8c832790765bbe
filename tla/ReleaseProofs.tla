-------------------------- MODULE ReleaseProofs ---------------------------
(***************************************************************************)
(* Theorems about the three release protocols: promotion, for any number   *)
(* of runs and intents; the scheduler cutover, for any number of operators *)
(* and receipt files; and the activation of strict enforcement, for any    *)
(* number of revisions, operators and receipt files and any timeouts.      *)
(* PromotionAssumption, CutoverAssumption and EnforcementAssumption are    *)
(* all they need, for every bound.                                         *)
(***************************************************************************)
EXTENDS ReleaseProtocols, FiniteSetTheorems, TLAPS

----------------------------------------------------------------------------
(* Promotion.  A document that is active belongs to an intent that is not  *)
(* final exactly until that intent is final or retired, so whoever works   *)
(* under it is alone, and an update that nobody waits for any more still   *)
(* keeps every other intent out.                                           *)

Recorded ==
  \A i \in Intent : file[i] # "none" => before[i] \in Revision /\ before[i] # Target[i]

RunFits(p) ==
  /\ pc[p] # "idle" => work[p] \in Intent
  /\ pc[p] = "read" => seen[p] \in Revision
  /\ pc[p] \notin {"idle", "read"} =>
       file[work[p]] # "none" /\ mode[p] \in {"pre", "post", "final"}
  /\ pc[p] \in {"update", "updating", "verify", "finalize"} => file[work[p]] = "intent"
  /\ pc[p] = "release" => file[work[p]] = "final"

UpdateFits(i) == lock = Active(i) /\ file[i] = "intent" /\ traffic = before[i]

StepFits(p) ==
  /\ pc[p] \in {"locked", "update"} => pending = {}
  /\ pc[p] = "update" => traffic = before[work[p]]
  /\ pc[p] = "finalize" => traffic = Target[work[p]] /\ pending = {}

Sole == \A p, q \in Run : Working(p) /\ Working(q) => p = q

PromotionInv ==
  /\ TypeOK
  /\ Recorded
  /\ \A p \in Run : RunFits(p)
  /\ \A p \in Run : Working(p) => lock = Active(work[p]) /\ StepFits(p)
  /\ \A i \in pending : UpdateFits(i)
  /\ Sole

----------------------------------------------------------------------------
LEMMA LockStates ==
  ASSUME NEW i \in Intent, NEW j \in Intent, NEW d
  PROVE  /\ Active(i) = Active(j) <=> i = j
         /\ Active(i) # Free /\ Active(i) # Retired(j, d)
         /\ Active(i).state = "active" /\ Active(i).owner = i
         /\ Active(i).disposition = None
BY DEF Active, Free, Retired

LEMMA BeginKeeps ==
  ASSUME PromotionInv, NEW p \in Run, NEW i \in Intent, Begin(p, i) PROVE PromotionInv'
<1>1. TypeOK' /\ Recorded' /\ \A q \in Run : RunFits(q)'
  BY PromotionAssumption
     DEF PromotionInv, TypeOK, RunFits, Recorded, Sole, Working,
         Begin, Goto, cloud, runs
<1>2. /\ \A q \in Run : Working(q)' => lock' = Active(work'[q]) /\ StepFits(q)'
      /\ \A j \in pending' : UpdateFits(j)'
      /\ Sole'
  BY LockStates
     DEF PromotionInv, TypeOK, RunFits, Recorded, Sole, Working, StepFits, UpdateFits,
         Begin, Goto, cloud, runs
<1> QED  BY <1>1, <1>2 DEF PromotionInv, Active, Working

LEMMA PrepareKeeps ==
  ASSUME PromotionInv, NEW p \in Run, Prepare(p) PROVE PromotionInv'
<1>1. TypeOK' /\ Recorded' /\ \A q \in Run : RunFits(q)'
  BY PromotionAssumption
     DEF PromotionInv, TypeOK, RunFits, Recorded, Sole, Working,
         Prepare, Goto, cloud, runs, Classify
<1>2. /\ \A q \in Run : Working(q)' => lock' = Active(work'[q]) /\ StepFits(q)'
      /\ \A j \in pending' : UpdateFits(j)'
      /\ Sole'
  BY LockStates
     DEF PromotionInv, TypeOK, RunFits, Recorded, Sole, Working, StepFits, UpdateFits,
         Prepare, Goto, cloud, runs, Classify
<1> QED  BY <1>1, <1>2 DEF PromotionInv, Active, Working

LEMMA AcquireKeeps ==
  ASSUME PromotionInv, NEW p \in Run, Acquire(p) PROVE PromotionInv'
<1> DEFINE i == work[p]
<1>1. /\ i \in Intent /\ pc[p] = "ready"
      /\ lock' = Active(i) /\ UNCHANGED <<file, before, traffic, pending, work, mode, seen>>
      /\ pc' = [pc EXCEPT ![p] = "locked"]
  BY DEF PromotionInv, RunFits, Acquire, Continue, Goto
<1>2. file[i] = "final" \/ \A j \in Intent : lock # Active(j)
  BY <1>1, LockStates DEF Acquire, Acquirable, Active, Free, Retired
<1>3. file[i] = "final" \/ (pending = {} /\ \A q \in Run : ~ Working(q))
  BY <1>2 DEF PromotionInv, TypeOK, RunFits, Working, UpdateFits
<1>4. TypeOK'
  BY <1>1, PromotionAssumption DEF PromotionInv, TypeOK, Acquire
<1>5. Recorded' /\ \A q \in Run : RunFits(q)'
  BY <1>1 DEF PromotionInv, TypeOK, RunFits, Recorded
<1>6. CASE file[i] = "final"
  <2>1. \A q \in Run : Working(q)' => Working(q) /\ q # p
    BY <1>1, <1>6 DEF PromotionInv, TypeOK, Working
  <2>2. \A j \in Intent : file[j] = "intent" /\ lock = Active(j) => lock' = Active(j)
    BY <1>1, <1>6, LockStates DEF Acquire, Acquirable, Active, Free, Retired
  <2> QED  BY <1>1, <1>4, <1>5, <2>1, <2>2
             DEF PromotionInv, TypeOK, RunFits, Working, StepFits, UpdateFits, Sole
<1>7. CASE pending = {} /\ \A q \in Run : ~ Working(q)
  <2>1. \A q \in Run : Working(q)' => q = p
    BY <1>1, <1>7 DEF PromotionInv, TypeOK, Working
  <2> QED  BY <1>1, <1>4, <1>5, <1>7, <2>1
             DEF PromotionInv, TypeOK, RunFits, Working, StepFits, UpdateFits, Sole
<1> QED  BY <1>3, <1>6, <1>7

LEMMA RecheckKeeps ==
  ASSUME PromotionInv, NEW p \in Run, Recheck(p) PROVE PromotionInv'
<1> DEFINE i == work[p]
<1>1. /\ i \in Intent /\ pc[p] = "locked" /\ file[i] \in {"intent", "final"}
      /\ Classify(i, traffic) = mode[p] /\ mode[p] \in {"pre", "post", "final"}
      /\ UNCHANGED <<file, before, lock, traffic, pending, work, mode, seen, stale, aborted>>
  BY DEF PromotionInv, TypeOK, RunFits, Recheck, Confirmed, Continue, cloud
<1>2. \/ pc' = [pc EXCEPT ![p] = "release"] /\ file[i] = "final"
      \/ pc' = [pc EXCEPT ![p] = "update"] /\ file[i] = "intent" /\ traffic = before[i]
      \/ pc' = [pc EXCEPT ![p] = "verify"] /\ file[i] = "intent"
  BY <1>1 DEF Recheck, Continue, Goto, Classify
<1>3. TypeOK'
  BY <1>1, <1>2 DEF PromotionInv, TypeOK
<1>4. Recorded' /\ \A q \in Run : RunFits(q)'
  BY <1>1, <1>2 DEF PromotionInv, TypeOK, RunFits, Recorded
<1>5. \A q \in Run : Working(q)' => Working(q) /\ lock' = Active(work'[q]) /\ StepFits(q)'
  BY <1>1, <1>2 DEF PromotionInv, TypeOK, RunFits, Working, StepFits
<1>6. (\A j \in pending' : UpdateFits(j)') /\ Sole'
  BY <1>1, <1>5 DEF PromotionInv, UpdateFits, Sole, Active
<1> QED  BY <1>3, <1>4, <1>5, <1>6 DEF PromotionInv

LEMMA UpdateTrafficKeeps ==
  ASSUME PromotionInv, NEW p \in Run, UpdateTraffic(p) PROVE PromotionInv'
<1>1. TypeOK' /\ Recorded' /\ \A q \in Run : RunFits(q)'
  BY PromotionAssumption
     DEF PromotionInv, TypeOK, RunFits, Recorded, Sole, Working,
         UpdateTraffic, Goto, cloud, runs, Continue
<1>2. /\ \A q \in Run : Working(q)' => lock' = Active(work'[q]) /\ StepFits(q)'
      /\ \A j \in pending' : UpdateFits(j)'
      /\ Sole'
  BY LockStates
     DEF PromotionInv, TypeOK, RunFits, Recorded, Sole, Working, StepFits, UpdateFits,
         UpdateTraffic, Goto, cloud, runs, Continue
<1> QED  BY <1>1, <1>2 DEF PromotionInv, Active, Working

LEMMA UpdateReturnsKeeps ==
  ASSUME PromotionInv, NEW p \in Run, UpdateReturns(p) PROVE PromotionInv'
<1>1. TypeOK' /\ Recorded' /\ \A q \in Run : RunFits(q)'
  BY PromotionAssumption
     DEF PromotionInv, TypeOK, RunFits, Recorded, Sole, Working,
         UpdateReturns, Goto, cloud, runs, Continue
<1>2. /\ \A q \in Run : Working(q)' => lock' = Active(work'[q]) /\ StepFits(q)'
      /\ \A j \in pending' : UpdateFits(j)'
      /\ Sole'
  BY LockStates
     DEF PromotionInv, TypeOK, RunFits, Recorded, Sole, Working, StepFits, UpdateFits,
         UpdateReturns, Goto, cloud, runs, Continue
<1> QED  BY <1>1, <1>2 DEF PromotionInv, Active, Working

LEMMA VerifyKeeps ==
  ASSUME PromotionInv, NEW p \in Run, Verify(p) PROVE PromotionInv'
<1>1. TypeOK' /\ Recorded' /\ \A q \in Run : RunFits(q)'
  BY PromotionAssumption
     DEF PromotionInv, TypeOK, RunFits, Recorded, Sole, Working,
         Verify, Goto, cloud, runs, Reached, Classify, Continue
<1>2. /\ \A q \in Run : Working(q)' => lock' = Active(work'[q]) /\ StepFits(q)'
      /\ \A j \in pending' : UpdateFits(j)'
      /\ Sole'
  BY LockStates
     DEF PromotionInv, TypeOK, RunFits, Recorded, Sole, Working, StepFits, UpdateFits,
         Verify, Goto, cloud, runs, Reached, Classify, Continue
<1> QED  BY <1>1, <1>2 DEF PromotionInv, Active, Working

LEMMA FinalizeKeeps ==
  ASSUME PromotionInv, NEW p \in Run, Finalize(p) PROVE PromotionInv'
<1>1. TypeOK' /\ Recorded' /\ \A q \in Run : RunFits(q)'
  BY PromotionAssumption
     DEF PromotionInv, TypeOK, RunFits, Recorded, Sole, Working,
         Finalize, Goto, cloud, runs, Continue
<1>2. /\ \A q \in Run : Working(q)' => lock' = Active(work'[q]) /\ StepFits(q)'
      /\ \A j \in pending' : UpdateFits(j)'
      /\ Sole'
  BY LockStates
     DEF PromotionInv, TypeOK, RunFits, Recorded, Sole, Working, StepFits, UpdateFits,
         Finalize, Goto, cloud, runs, Continue
<1> QED  BY <1>1, <1>2 DEF PromotionInv, Active, Working

LEMMA ReleaseKeeps ==
  ASSUME PromotionInv, NEW p \in Run, Release(p) PROVE PromotionInv'
<1>1. TypeOK' /\ Recorded' /\ \A q \in Run : RunFits(q)'
  BY PromotionAssumption
     DEF PromotionInv, TypeOK, RunFits, Recorded, Sole, Working,
         Release, Goto, cloud, runs, Releasable, Exit
<1>2. /\ \A q \in Run : Working(q)' => lock' = Active(work'[q]) /\ StepFits(q)'
      /\ \A j \in pending' : UpdateFits(j)'
      /\ Sole'
  BY LockStates
     DEF PromotionInv, TypeOK, RunFits, Recorded, Sole, Working, StepFits, UpdateFits,
         Release, Goto, cloud, runs, Releasable, Exit
<1> QED  BY <1>1, <1>2 DEF PromotionInv, Active, Working

LEMMA StopKeeps == ASSUME PromotionInv, NEW p \in Run, Stop(p) PROVE PromotionInv'
<1>1. TypeOK' /\ Recorded' /\ \A q \in Run : RunFits(q)'
  BY PromotionAssumption
     DEF PromotionInv, TypeOK, RunFits, Recorded, Sole, Working,
         Stop, Goto, cloud, runs, Exit
<1>2. /\ \A q \in Run : Working(q)' => lock' = Active(work'[q]) /\ StepFits(q)'
      /\ \A j \in pending' : UpdateFits(j)'
      /\ Sole'
  BY LockStates
     DEF PromotionInv, TypeOK, RunFits, Recorded, Sole, Working, StepFits, UpdateFits,
         Stop, Goto, cloud, runs, Exit
<1> QED  BY <1>1, <1>2 DEF PromotionInv, Active, Working

LEMMA UpdateAppliesKeeps ==
  ASSUME PromotionInv, NEW i \in Intent, UpdateApplies(i) PROVE PromotionInv'
<1>1. TypeOK' /\ Recorded' /\ \A q \in Run : RunFits(q)'
  BY PromotionAssumption
     DEF PromotionInv, TypeOK, RunFits, Recorded, Sole, Working,
         UpdateApplies, Goto, cloud, runs
<1>2. /\ \A q \in Run : Working(q)' => lock' = Active(work'[q]) /\ StepFits(q)'
      /\ \A j \in pending' : UpdateFits(j)'
      /\ Sole'
  BY LockStates
     DEF PromotionInv, TypeOK, RunFits, Recorded, Sole, Working, StepFits, UpdateFits,
         UpdateApplies, Goto, cloud, runs
<1> QED  BY <1>1, <1>2 DEF PromotionInv, Active, Working

LEMMA UpdateDroppedKeeps ==
  ASSUME PromotionInv, NEW i \in Intent, UpdateDropped(i) PROVE PromotionInv'
<1>1. TypeOK' /\ Recorded' /\ \A q \in Run : RunFits(q)'
  BY PromotionAssumption
     DEF PromotionInv, TypeOK, RunFits, Recorded, Sole, Working,
         UpdateDropped, Goto, cloud, runs
<1>2. /\ \A q \in Run : Working(q)' => lock' = Active(work'[q]) /\ StepFits(q)'
      /\ \A j \in pending' : UpdateFits(j)'
      /\ Sole'
  BY LockStates
     DEF PromotionInv, TypeOK, RunFits, Recorded, Sole, Working, StepFits, UpdateFits,
         UpdateDropped, Goto, cloud, runs
<1> QED  BY <1>1, <1>2 DEF PromotionInv, Active, Working

LEMMA ReceiptsGoStaleKeeps ==
  ASSUME PromotionInv, NEW i \in Intent, ReceiptsGoStale(i) PROVE PromotionInv'
<1>1. TypeOK' /\ Recorded' /\ \A q \in Run : RunFits(q)'
  BY PromotionAssumption
     DEF PromotionInv, TypeOK, RunFits, Recorded, Sole, Working,
         ReceiptsGoStale, Goto, cloud, runs
<1>2. /\ \A q \in Run : Working(q)' => lock' = Active(work'[q]) /\ StepFits(q)'
      /\ \A j \in pending' : UpdateFits(j)'
      /\ Sole'
  BY LockStates
     DEF PromotionInv, TypeOK, RunFits, Recorded, Sole, Working, StepFits, UpdateFits,
         ReceiptsGoStale, Goto, cloud, runs
<1> QED  BY <1>1, <1>2 DEF PromotionInv, Active, Working

LEMMA RetireKeeps ==
  ASSUME PromotionInv, NEW i \in Intent, NEW d \in Dispositions, Retire(i, d) PROVE PromotionInv'
<1>1. TypeOK' /\ Recorded' /\ \A q \in Run : RunFits(q)'
  BY PromotionAssumption
     DEF PromotionInv, TypeOK, RunFits, Recorded, Sole, Working,
         Retire, Goto, cloud, runs, Retired, Dispositions
<1>2. /\ \A q \in Run : Working(q)' => lock' = Active(work'[q]) /\ StepFits(q)'
      /\ \A j \in pending' : UpdateFits(j)'
      /\ Sole'
  BY LockStates
     DEF PromotionInv, TypeOK, RunFits, Recorded, Sole, Working, StepFits, UpdateFits,
         Retire, Goto, cloud, runs, Retired, Dispositions
<1> QED  BY <1>1, <1>2 DEF PromotionInv, Active, Working

----------------------------------------------------------------------------
LEMMA InitInv == Init => PromotionInv
BY PromotionAssumption
   DEF Init, PromotionInv, TypeOK, Recorded, RunFits, Working, Sole, Free

LEMMA StepInv == PromotionInv /\ [Next]_vars => PromotionInv'
<1> SUFFICES ASSUME PromotionInv, [Next]_vars PROVE PromotionInv'
  OBVIOUS
<1>1. CASE UNCHANGED vars
  BY <1>1 DEF vars, cloud, runs, PromotionInv, TypeOK, Recorded, RunFits, Working, StepFits,
              UpdateFits, Sole
<1>2. ASSUME NEW p \in Run, NEW i \in Intent, Begin(p, i) PROVE PromotionInv'
  BY <1>2, BeginKeeps
<1>3. ASSUME NEW p \in Run, Prepare(p) PROVE PromotionInv'
  BY <1>3, PrepareKeeps
<1>4. ASSUME NEW p \in Run, Acquire(p) PROVE PromotionInv'
  BY <1>4, AcquireKeeps
<1>5. ASSUME NEW p \in Run, Recheck(p) PROVE PromotionInv'
  BY <1>5, RecheckKeeps
<1>6. ASSUME NEW p \in Run, UpdateTraffic(p) PROVE PromotionInv'
  BY <1>6, UpdateTrafficKeeps
<1>7. ASSUME NEW p \in Run, UpdateReturns(p) PROVE PromotionInv'
  BY <1>7, UpdateReturnsKeeps
<1>8. ASSUME NEW p \in Run, Verify(p) PROVE PromotionInv'
  BY <1>8, VerifyKeeps
<1>9. ASSUME NEW p \in Run, Finalize(p) PROVE PromotionInv'
  BY <1>9, FinalizeKeeps
<1>10. ASSUME NEW p \in Run, Release(p) PROVE PromotionInv'
  BY <1>10, ReleaseKeeps
<1>11. ASSUME NEW p \in Run, Stop(p) PROVE PromotionInv'
  BY <1>11, StopKeeps
<1>12. ASSUME NEW i \in Intent, UpdateApplies(i) PROVE PromotionInv'
  BY <1>12, UpdateAppliesKeeps
<1>13. ASSUME NEW i \in Intent, UpdateDropped(i) PROVE PromotionInv'
  BY <1>13, UpdateDroppedKeeps
<1>14. ASSUME NEW i \in Intent, ReceiptsGoStale(i) PROVE PromotionInv'
  BY <1>14, ReceiptsGoStaleKeeps
<1>15. ASSUME NEW i \in Intent, NEW d \in Dispositions, Retire(i, d) PROVE PromotionInv'
  BY <1>15, RetireKeeps
<1> QED
  BY <1>1, <1>2, <1>3, <1>4, <1>5, <1>6, <1>7, <1>8, <1>9, <1>10, <1>11, <1>12, <1>13,
     <1>14, <1>15 DEF Next

(* The inductive invariant, for any set of runs and intents.               *)
THEOREM PromotionInvariant == Spec => []PromotionInv
BY InitInv, StepInv, PTL DEF Spec

(* Every value has its type.                                               *)
THEOREM PromotionTypeCorrect == Spec => []TypeOK
<1>1. PromotionInv => TypeOK
  BY DEF PromotionInv
<1> QED  BY <1>1, PromotionInvariant, PTL

(* At most one run works under the service's lock document, whatever was   *)
(* killed, retired or overtaken before (promotion_release_lock.py acquire).*)
THEOREM PromotionOneWorker == Spec => []OneWorker
<1>1. PromotionInv => OneWorker
  <2> SUFFICES ASSUME PromotionInv, NEW p \in Run, Working(p)
               PROVE  /\ lock = Active(work[p]) /\ pending \subseteq {work[p]}
                      /\ \A q \in Run : Working(q) => p = q
    BY DEF OneWorker
  <2>1. lock = Active(work[p]) /\ work[p] \in Intent
    BY DEF PromotionInv, RunFits, Working
  <2>2. pending \subseteq Intent
    BY DEF PromotionInv, TypeOK
  <2>3. \A i \in pending : lock = Active(i)
    BY DEF PromotionInv, UpdateFits
  <2> QED  BY <2>1, <2>2, <2>3, LockStates DEF PromotionInv, Sole
<1> QED  BY <1>1, PromotionInvariant, PTL

(* update-traffic is only issued for an intent that is not final, while    *)
(* the service serves what that intent recorded.                           *)
THEOREM PromotionMovesRecordedTraffic == Spec => MovesRecordedTraffic
<1>1. PromotionInv /\ [Next]_vars =>
        [\A i \in pending' \ pending : traffic = before[i] /\ file[i] = "intent"]_vars
  BY DEF PromotionInv, RunFits, StepFits, Working, Next, vars, cloud, runs,
         Begin, Prepare, Acquire, Recheck, UpdateTraffic, UpdateReturns, UpdateApplies,
         UpdateDropped, Verify, Finalize, Release, Stop, ReceiptsGoStale, Retire
<1> QED  BY <1>1, PromotionInvariant, PTL DEF Spec, MovesRecordedTraffic

(* promotion=complete is only written for a candidate that serves, under   *)
(* its own lock, with no traffic update outstanding.                       *)
THEOREM PromotionFinalIsTruthful == Spec => FinalIsTruthful
<1>1. PromotionInv /\ [Next]_vars =>
        [\A i \in Intent : file[i] # "final" /\ file'[i] = "final" =>
           traffic = Target[i] /\ pending = {} /\ lock = Active(i)]_vars
  BY DEF PromotionInv, TypeOK, RunFits, StepFits, Working, Next, vars, cloud, runs,
         Begin, Prepare, Acquire, Recheck, UpdateTraffic, UpdateReturns, UpdateApplies,
         UpdateDropped, Verify, Finalize, Release, Stop, ReceiptsGoStale, Retire
<1> QED  BY <1>1, PromotionInvariant, PTL DEF Spec, FinalIsTruthful

(* A lock document is deleted only for an intent that is final.            *)
THEOREM PromotionOnlyFinalUnlocks == Spec => OnlyFinalUnlocks
<1>1. PromotionInv /\ [Next]_vars =>
        [lock.state # "free" /\ lock'.state = "free" =>
           lock.state = "active" /\ file[lock.owner] = "final"]_vars
  BY LockStates
     DEF PromotionInv, RunFits, Next, vars, cloud, runs, Free, Active, Retired, Releasable,
         Begin, Prepare, Acquire, Recheck, UpdateTraffic, UpdateReturns, UpdateApplies,
         UpdateDropped, Verify, Finalize, Release, Stop, ReceiptsGoStale, Retire
<1> QED  BY <1>1, PromotionInvariant, PTL DEF Spec, OnlyFinalUnlocks

----------------------------------------------------------------------------
(* The scheduler cutover.                                                  *)

(* An unfinished run has an intent of its own on disk.                     *)
Busy(p) == task[p] \in Operation /\ receiptOf[task[p]] # "none"

TypeInv ==
  /\ CutoverAssumption /\ CutoverTypeOK
  /\ \A p \in Operator : IF stage[p] = "idle" THEN task[p] = NoIntent ELSE Busy(p)

FreezeStep(p) ==
  \/ FreezeBegin(p) \/ FreezePauseNew(p) \/ FreezePauseOld(p) \/ InvalidateFreeze(p)
  \/ FreezeQuiet(p) \/ FreezeReadBack(p) \/ RecordFreeze(p) \/ FreezeStop(p)

(* Of what the other protocol uses, a freeze changes the schedulers only.  *)
LEMMA FreezeStepKeeps ==
  ASSUME NEW p \in Operator, FreezeStep(p)
  PROVE  UNCHANGED <<executions, receipts, stage, task, transfer>>
BY DEF FreezeStep, FreezeBegin, FreezePauseNew, FreezePauseOld, InvalidateFreeze, FreezeQuiet,
       FreezeReadBack, RecordFreeze, FreezeStop, FreezeGoto

LEMMA InitTypeInv == CutoverAssumption /\ CutoverInit => TypeInv
<1> SUFFICES ASSUME CutoverAssumption, CutoverInit PROVE TypeInv
  OBVIOUS
<1>1. /\ proven \in [Watched -> 0..MinRuns] /\ foreign \subseteq Watched
      /\ flights \subseteq [by : Invoker, counts : SUBSET Watched]
  BY DEF CutoverInit, CutoverAssumption
<1>2. /\ receiptOf \in [Operation -> {"none", "intent", "final"}]
      /\ stage \in [Operator -> {"idle", "ready", "locked", "change", "verify",
                              "finalize", "release"}]
      /\ task \in [Operator -> Operation \cup {NoIntent}]
      /\ \A p \in Operator : stage[p] = "idle" /\ task[p] = NoIntent
  BY DEF CutoverInit
<1> QED BY <1>1, <1>2 DEF CutoverInit, TypeInv, CutoverTypeOK

(* Executions, freezes and the outcome of commands.                        *)
LEMMA WorldTypeInv ==
  ASSUME TypeInv,
         \/ \E by \in Invoker : Launch(by)
         \/ \E f \in flights : Succeeds(f) \/ Fails(f)
         \/ \E i \in Operation : ChangeApplies(i) \/ ChangeDropped(i)
         \/ \E p \in Operator : FreezeStep(p)
  PROVE  TypeInv'
<1>0. CutoverAssumption' BY DEF TypeInv, CutoverAssumption
<1>1. UNCHANGED <<receiptOf, stage, task>>
  BY FreezeStepKeeps
  DEF Launch, Succeeds, Fails, ChangeApplies, ChangeDropped, receipts, live
<1>2. CutoverTypeOK'
  <2> USE DEF CutoverTypeOK, TypeInv, live, executions, receipts, frozen, FreezeGoto
  <2>1. ASSUME NEW by \in Invoker, Launch(by) PROVE CutoverTypeOK'
    BY <2>1 DEF Launch
  <2>2. ASSUME NEW f \in flights, Succeeds(f) PROVE CutoverTypeOK'
    <3>1. proven' \in [Watched -> 0..MinRuns]
      BY <2>2 DEF Succeeds, CutoverAssumption
    <3> QED BY <2>2, <3>1 DEF Succeeds
  <2>3. ASSUME NEW f \in flights, Fails(f) PROVE CutoverTypeOK'
    BY <2>3 DEF Fails
  <2>4. ASSUME NEW i \in Operation, ChangeApplies(i) \/ ChangeDropped(i) PROVE CutoverTypeOK'
    BY <2>4 DEF ChangeApplies, ChangeDropped
  <2>5. ASSUME NEW p \in Operator, FreezeStep(p) PROVE CutoverTypeOK'
    <3>1. CASE FreezePauseNew(p) \/ FreezePauseOld(p)
      <4>1. PICK name \in {"new", "old"} : PauseScheduler(p, name)
        BY <3>1 DEF FreezePauseNew, FreezePauseOld
      <4>2. enabled' \subseteq {"old", "new"} /\ disturbed' \subseteq Operator
        BY <4>1 DEF PauseScheduler
      <4>3. saw' \in [Operator -> SUBSET {"old", "new"}]
        BY <4>1 DEF PauseScheduler
      <4>4. UNCHANGED <<verified, resumed>>
        BY <4>1 DEF PauseScheduler
      <4>5. freeze' \in [Operator -> {"idle", "new", "old", "invalidate", "quiet", "read", "record"}]
        BY <3>1 DEF FreezePauseNew, FreezePauseOld
      <4> QED BY <3>1, <4>2, <4>3, <4>4, <4>5 DEF FreezePauseNew, FreezePauseOld
    <3>2. CASE FreezeBegin(p) \/ InvalidateFreeze(p) \/ FreezeQuiet(p) \/ FreezeReadBack(p)
      BY <3>2 DEF FreezeBegin, InvalidateFreeze, FreezeQuiet, FreezeReadBack
    <3>3. CASE RecordFreeze(p)
      <4>1. resumed' \in BOOLEAN
        <5>1. resumed' = (p \in disturbed) BY <3>3 DEF RecordFreeze
        <5>2. (p \in disturbed) = TRUE \/ (p \in disturbed) = FALSE OBVIOUS
        <5> QED BY <5>1, <5>2
      <4> QED BY <3>3, <4>1 DEF RecordFreeze
    <3>4. CASE FreezeStop(p)
      BY <3>4 DEF FreezeStop
    <3> QED BY <2>5, <3>1, <3>2, <3>3, <3>4 DEF FreezeStep
  <2> QED BY <2>1, <2>2, <2>3, <2>4, <2>5
<1> QED BY <1>0, <1>1, <1>2 DEF TypeInv, Busy

LEMMA PrepareTypeInv ==
  ASSUME TypeInv, NEW p \in Operator, NEW i \in Operation, PrepareReceipt(p, i)
  PROVE  TypeInv'
<1>0. CutoverAssumption' BY DEF TypeInv, CutoverAssumption
<1>1. CutoverTypeOK'
  BY DEF TypeInv, CutoverTypeOK, PrepareReceipt, live, executions, frozen
<1>2. /\ stage'[p] # "idle" /\ task'[p] = i /\ receiptOf'[i] # "none"
      /\ \A q \in Operator \ {p} : stage'[q] = stage[q] /\ task'[q] = task[q]
      /\ \A k \in Operation : receiptOf[k] # "none" => receiptOf'[k] # "none"
  BY DEF TypeInv, CutoverTypeOK, PrepareReceipt
<1> QED BY <1>0, <1>1, <1>2 DEF TypeInv, Busy

LEMMA OperatorTypeInv ==
  ASSUME TypeInv, NEW p \in Operator,
         \/ LockChain(p) \/ RecheckUnderLock(p) \/ Change(p) \/ VerifyChange(p)
         \/ FinalizeReceipt(p) \/ UnlockChain(p) \/ StopOperation(p)
  PROVE  TypeInv'
<1> USE DEF Proceed, Leave
<1>0. CutoverAssumption' BY DEF TypeInv, CutoverAssumption
<1>1. stage[p] # "idle" /\ task[p] \in Operation
  BY DEF TypeInv, Busy, LockChain, RecheckUnderLock, Change, VerifyChange,
         FinalizeReceipt, UnlockChain, StopOperation
<1>2. CutoverTypeOK'
  <2> USE <1>1 DEF TypeInv, CutoverTypeOK, live, executions, receipts, frozen
  <2>1. CASE LockChain(p) BY <2>1 DEF LockChain
  <2>2. CASE RecheckUnderLock(p)
    <3>1. \E s \in {"release", "change", "verify"} : stage' = [stage EXCEPT ![p] = s]
      BY <2>2 DEF RecheckUnderLock, Rechecked, ClassifyReceipt
    <3> QED BY <2>2, <3>1 DEF RecheckUnderLock
  <2>3. CASE Change(p) BY <2>3 DEF Change
  <2>4. CASE VerifyChange(p) BY <2>4 DEF VerifyChange
  <2>5. CASE FinalizeReceipt(p) BY <2>5 DEF FinalizeReceipt
  <2>6. CASE UnlockChain(p) \/ StopOperation(p) BY <2>6 DEF UnlockChain, StopOperation
  <2> QED BY <2>1, <2>2, <2>3, <2>4, <2>5, <2>6
<1>3. /\ \A k \in Operation : receiptOf[k] # "none" => receiptOf'[k] # "none"
      /\ \A q \in Operator \ {p} : stage'[q] = stage[q] /\ task'[q] = task[q]
  BY DEF TypeInv, CutoverTypeOK, LockChain, RecheckUnderLock, Change, VerifyChange,
         FinalizeReceipt, UnlockChain, StopOperation,
         receipts
<1>4. IF stage'[p] = "idle" THEN task'[p] = NoIntent ELSE task'[p] = task[p]
  <2>1. CASE UnlockChain(p) \/ StopOperation(p)
    BY <2>1 DEF TypeInv, CutoverTypeOK, UnlockChain, StopOperation
  <2>2. CASE RecheckUnderLock(p)
    <3>1. \E s \in {"release", "change", "verify"} : stage' = [stage EXCEPT ![p] = s]
      BY <2>2 DEF RecheckUnderLock, Rechecked, ClassifyReceipt
    <3> QED BY <2>2, <3>1 DEF TypeInv, CutoverTypeOK, RecheckUnderLock
  <2>3. CASE LockChain(p) \/ Change(p) \/ VerifyChange(p) \/ FinalizeReceipt(p)
    BY <2>3 DEF TypeInv, CutoverTypeOK, LockChain, Change, VerifyChange, FinalizeReceipt
  <2> QED BY <2>1, <2>2, <2>3
<1>5. ASSUME NEW q \in Operator
      PROVE  IF stage'[q] = "idle" THEN task'[q] = NoIntent
             ELSE task'[q] \in Operation /\ receiptOf'[task'[q]] # "none"
  BY <1>1, <1>3, <1>4 DEF TypeInv, Busy
<1> QED BY <1>0, <1>2, <1>5 DEF TypeInv, Busy

LEMMA NextTypeInv == TypeInv /\ [CutoverNext]_cvars => TypeInv'
<1>1. TypeInv /\ UNCHANGED cvars => TypeInv'
  BY DEF TypeInv, CutoverAssumption, CutoverTypeOK, Busy, cvars, live, executions,
         receipts, frozen
<1>2. TypeInv /\ CutoverNext => TypeInv'
  BY WorldTypeInv, PrepareTypeInv, OperatorTypeInv DEF CutoverNext, FreezeStep
<1> QED BY <1>1, <1>2

(* Every variable of the cutover keeps its type.                           *)
THEOREM CutoverTypeCorrect == CutoverAssumption /\ CutoverSpec => []CutoverTypeOK
<1>1. TypeInv => CutoverTypeOK BY DEF TypeInv
<1> QED BY <1>1, InitTypeInv, NextTypeInv, PTL DEF CutoverSpec

----------------------------------------------------------------------------
(* One operation at a time: whoever is past the lock with an intent that   *)
(* is not final, and every command of such an intent, is named by it.      *)

LockInv ==
  /\ \A p \in Operator : Operating(p) => chainLock = task[p]
  /\ \A p \in Operator : stage[p] = "release" => receiptOf[task[p]] = "final"
  /\ \A i \in commands : receiptOf[i] = "final" \/ chainLock = i

LEMMA LockInvIsEnough == TypeInv /\ LockInv => OneOperation
  BY DEF LockInv, OneOperation

LEMMA InitLockInv == CutoverInit => LockInv
  BY DEF CutoverInit, LockInv, Operating

LEMMA WorldLockInv ==
  ASSUME TypeInv, LockInv, UNCHANGED <<receiptOf, stage, task, chainLock>>,
         commands' \subseteq commands
  PROVE  LockInv'
  BY DEF LockInv, Operating

LEMMA OperatorLockInv ==
  ASSUME TypeInv, LockInv, NEW p \in Operator,
         \/ \E i \in Operation : PrepareReceipt(p, i)
         \/ LockChain(p) \/ RecheckUnderLock(p) \/ Change(p)
         \/ VerifyChange(p) \/ FinalizeReceipt(p)
         \/ UnlockChain(p) \/ StopOperation(p)
  PROVE  LockInv'
<1> USE DEF Proceed, Leave, TypeInv, CutoverTypeOK
<1>0. \A q \in Operator :
        stage[q] # "idle" => task[q] \in Operation /\ receiptOf[task[q]] # "none"
  BY DEF Busy
<1>1. ASSUME NEW i \in Operation, PrepareReceipt(p, i) PROVE LockInv'
  <2>1. /\ UNCHANGED <<chainLock, commands>> /\ stage'[p] = "ready"
        /\ \A q \in Operator \ {p} : stage'[q] = stage[q] /\ task'[q] = task[q]
        /\ \A k \in Operation : \/ receiptOf'[k] = receiptOf[k]
                                \/ receiptOf[k] = "none" /\ receiptOf'[k] = "intent"
    BY <1>1 DEF PrepareReceipt
  <2> QED BY <1>0, <2>1 DEF LockInv, Operating
<1>2. CASE LockChain(p)
  <2>1. /\ UNCHANGED <<receiptOf, commands, task>> /\ stage[p] = "ready" /\ stage'[p] = "locked"
        /\ \A q \in Operator \ {p} : stage'[q] = stage[q]
        /\ chainLock' = task[p] /\ chainLock \in {NoIntent, task[p]}
    BY <1>2 DEF LockChain, Lockable
  <2>2. \A q \in Operator : Operating(q) => chainLock = task[q] /\ chainLock # NoIntent
    BY <1>0 DEF LockInv, Operating, CutoverAssumption, Operation
  <2>3. \A i \in commands : receiptOf[i] = "final" \/ (chainLock = i /\ chainLock # NoIntent)
    BY DEF LockInv, CutoverAssumption, Operation
  <2> QED BY <2>1, <2>2, <2>3 DEF LockInv, Operating
<1>3. CASE RecheckUnderLock(p)
  <2>1. /\ UNCHANGED <<receiptOf, commands, task, chainLock>> /\ stage[p] = "locked"
        /\ \A q \in Operator \ {p} : stage'[q] = stage[q]
        /\ stage'[p] \in {"release", "change", "verify"}
        /\ stage'[p] = "release" => receiptOf[task[p]] = "final"
    BY <1>3 DEF RecheckUnderLock, Rechecked, ClassifyReceipt, receipts
  <2> QED BY <2>1 DEF LockInv, Operating
<1>4. CASE Change(p)
  <2>1. /\ UNCHANGED <<receiptOf, task, chainLock>> /\ commands' = commands \cup {task[p]}
        /\ stage[p] = "change" /\ stage'[p] = "verify"
        /\ \A q \in Operator \ {p} : stage'[q] = stage[q]
    BY <1>4 DEF Change
  <2>2. receiptOf[task[p]] = "final" \/ chainLock = task[p]
    BY <1>0, <2>1 DEF LockInv, Operating
  <2> QED BY <2>1, <2>2 DEF LockInv, Operating
<1>5. CASE VerifyChange(p)
  <2>1. /\ UNCHANGED <<receiptOf, commands, task, chainLock>>
        /\ stage[p] = "verify" /\ stage'[p] = "finalize"
        /\ \A q \in Operator \ {p} : stage'[q] = stage[q]
    BY <1>5 DEF VerifyChange, receipts
  <2> QED BY <2>1 DEF LockInv, Operating
<1>6. CASE FinalizeReceipt(p)
  <2>1. /\ UNCHANGED <<commands, task, chainLock>> /\ stage'[p] = "release"
        /\ \A q \in Operator \ {p} : stage'[q] = stage[q]
        /\ receiptOf'[task[p]] = "final"
        /\ \A k \in Operation : receiptOf'[k] = receiptOf[k] \/ receiptOf'[k] = "final"
    BY <1>0, <1>6 DEF FinalizeReceipt
  <2>2. \A q \in Operator : stage[q] = "release" => task[q] \in Operation
    BY <1>0
  <2>3. \A q \in Operator \ {p} : Operating(q)' => Operating(q)
    BY <1>0, <2>1 DEF Operating
  <2> QED BY <1>0, <2>1, <2>2, <2>3 DEF LockInv, Operating
<1>7. CASE UnlockChain(p)
  <2>1. /\ UNCHANGED <<receiptOf, commands>> /\ stage[p] = "release" /\ stage'[p] = "idle"
        /\ \A q \in Operator \ {p} : stage'[q] = stage[q] /\ task'[q] = task[q]
        /\ chainLock' = NoIntent /\ chainLock \in {NoIntent, task[p]}
    BY <1>7 DEF UnlockChain, Unlockable
  <2>2. receiptOf[task[p]] = "final"
    BY <2>1 DEF LockInv
  <2>3. \A q \in Operator : Operating(q) => chainLock # NoIntent
    BY <1>0 DEF LockInv, Operating, CutoverAssumption, Operation
  <2>4. \A q \in Operator \ {p} : ~Operating(q)
    BY <2>1, <2>2, <2>3 DEF LockInv, Operating
  <2>5. \A i \in commands : receiptOf[i] = "final"
    BY <2>1, <2>2 DEF LockInv, CutoverAssumption, Operation
  <2> QED BY <2>1, <2>4, <2>5 DEF LockInv, Operating
<1>8. CASE StopOperation(p)
  <2>1. /\ UNCHANGED <<receiptOf, commands, chainLock>> /\ stage'[p] = "idle"
        /\ \A q \in Operator \ {p} : stage'[q] = stage[q] /\ task'[q] = task[q]
    BY <1>8 DEF StopOperation, receipts
  <2> QED BY <2>1 DEF LockInv, Operating
<1> QED BY <1>1, <1>2, <1>3, <1>4, <1>5, <1>6, <1>7, <1>8

LEMMA NextLockInv == TypeInv /\ LockInv /\ [CutoverNext]_cvars => LockInv'
<1> SUFFICES ASSUME TypeInv, LockInv, [CutoverNext]_cvars PROVE LockInv'
  OBVIOUS
<1>1. CASE \E p \in Operator :
             \/ \E i \in Operation : PrepareReceipt(p, i)
             \/ LockChain(p) \/ RecheckUnderLock(p) \/ Change(p)
             \/ VerifyChange(p) \/ FinalizeReceipt(p) \/ UnlockChain(p) \/ StopOperation(p)
  BY <1>1, OperatorLockInv
<1>2. CASE \/ \E by \in Invoker : Launch(by)
           \/ \E f \in flights : Succeeds(f) \/ Fails(f)
           \/ \E i \in Operation : ChangeApplies(i) \/ ChangeDropped(i)
           \/ \E p \in Operator : FreezeStep(p)
           \/ UNCHANGED cvars
  <2>1. UNCHANGED <<receiptOf, stage, task, chainLock>> /\ commands' \subseteq commands
    BY <1>2, FreezeStepKeeps
    DEF Launch, Succeeds, Fails, ChangeApplies, ChangeDropped, receipts, live, cvars
  <2> QED BY <2>1, WorldLockInv
<1> QED BY <1>1, <1>2 DEF CutoverNext, FreezeStep

----------------------------------------------------------------------------
(* The legacy transfer last: a pause is at work, or its command under way, *)
(* only after the proof, and nothing takes the proof back.                 *)

ProofMade == \E a \in Watched : receiptOf[a] = "final" /\ proven[a] >= MinRuns

PauseInv ==
  /\ transfer \/ ProofMade
  /\ \A p \in Operator : task[p] \in Pause => ProofMade
  /\ \A i \in commands : i \in Pause => ProofMade

LEMMA InitPauseInv == CutoverAssumption /\ CutoverInit => PauseInv
  BY DEF CutoverInit, PauseInv, CutoverAssumption

LEMMA ProofKept == TypeInv /\ [CutoverNext]_cvars => (ProofMade => ProofMade')
<1> SUFFICES ASSUME TypeInv, [CutoverNext]_cvars, NEW a \in Watched,
                    receiptOf[a] = "final", proven[a] >= MinRuns
             PROVE  receiptOf'[a] = "final" /\ proven'[a] >= MinRuns
  BY DEF ProofMade
<1> USE DEF TypeInv, CutoverTypeOK
<1>1. a \in Operation /\ proven[a] \in Nat /\ MinRuns \in Nat
  BY DEF CutoverAssumption, Watched, Operation
<1>2. ASSUME NEW f \in flights, Succeeds(f) PROVE proven'[a] >= MinRuns /\ UNCHANGED receiptOf
  BY <1>1, <1>2 DEF Succeeds, receipts
<1>3. ASSUME NEW p \in Operator, NEW i \in Operation, PrepareReceipt(p, i)
      PROVE  receiptOf'[a] = "final" /\ UNCHANGED proven
  BY <1>1, <1>3 DEF PrepareReceipt, executions
<1>4. ASSUME NEW p \in Operator, FinalizeReceipt(p)
      PROVE  receiptOf'[a] = "final" /\ UNCHANGED proven
  BY <1>1, <1>4 DEF FinalizeReceipt, executions
<1>5. CASE \/ \E by \in Invoker : Launch(by)
           \/ \E f \in flights : Fails(f)
           \/ \E i \in Operation : ChangeApplies(i) \/ ChangeDropped(i)
           \/ \E p \in Operator :
                \/ LockChain(p) \/ RecheckUnderLock(p) \/ Change(p)
                \/ VerifyChange(p) \/ UnlockChain(p) \/ StopOperation(p)
           \/ \E p \in Operator : FreezeStep(p)
           \/ UNCHANGED cvars
  <2>1. UNCHANGED <<receiptOf, proven>>
    BY <1>5, FreezeStepKeeps
    DEF Launch, Fails, ChangeApplies, ChangeDropped, LockChain, RecheckUnderLock, Change,
        VerifyChange, UnlockChain, StopOperation, receipts, executions, cvars
  <2> QED BY <2>1
<1> QED BY <1>2, <1>3, <1>4, <1>5 DEF CutoverNext, FreezeStep

LEMMA NextPauseInv == TypeInv /\ PauseInv /\ [CutoverNext]_cvars => PauseInv'
<1> SUFFICES ASSUME TypeInv, PauseInv, [CutoverNext]_cvars PROVE PauseInv'
  OBVIOUS
<1>0. ProofMade => ProofMade' BY ProofKept
<1>1. ASSUME NEW p \in Operator, NEW i \in Operation, PrepareReceipt(p, i) PROVE PauseInv'
  <2>1. i \in Pause => ProofMade
    BY <1>1 DEF PrepareReceipt, Depends, Proven, ProofMade, Watched, TypeInv, CutoverAssumption
  <2> QED BY <1>0, <1>1, <2>1 DEF PrepareReceipt, PauseInv, live, TypeInv, CutoverTypeOK
<1>2. ASSUME NEW p \in Operator, Change(p) PROVE PauseInv'
  BY <1>0, <1>2 DEF Change, Proceed, PauseInv, live
<1>3. ASSUME NEW p \in Operator, UnlockChain(p) \/ StopOperation(p) PROVE PauseInv'
  <2>1. \A q \in Operator : task'[q] = task[q] \/ task'[q] = NoIntent
    BY <1>3 DEF UnlockChain, StopOperation, Leave, TypeInv, CutoverTypeOK
  <2> QED BY <1>0, <1>3, <2>1
      DEF UnlockChain, StopOperation, PauseInv, live, receipts, TypeInv, CutoverAssumption
<1>4. ASSUME NEW i \in Operation, ChangeApplies(i) PROVE PauseInv'
  BY <1>0, <1>4 DEF ChangeApplies, PauseInv
<1>5. CASE \/ \E by \in Invoker : Launch(by)
           \/ \E f \in flights : Succeeds(f) \/ Fails(f)
           \/ \E i \in Operation : ChangeDropped(i)
           \/ \E p \in Operator : \/ LockChain(p) \/ RecheckUnderLock(p)
                                 \/ VerifyChange(p) \/ FinalizeReceipt(p)
           \/ \E p \in Operator : FreezeStep(p)
           \/ UNCHANGED cvars
  <2>1. UNCHANGED <<transfer, task>> /\ commands' \subseteq commands
    BY <1>5, FreezeStepKeeps
    DEF Launch, Succeeds, Fails, ChangeDropped, LockChain, RecheckUnderLock, VerifyChange,
        FinalizeReceipt, Proceed, receipts, live, cvars
  <2> QED BY <1>0, <2>1 DEF PauseInv
<1> QED BY <1>1, <1>2, <1>3, <1>4, <1>5 DEF CutoverNext, FreezeStep

----------------------------------------------------------------------------
(* A quiet freeze: whoever finds the schedulers paused once the writers    *)
(* were idle, and was not disturbed, has missed no execution; and nothing  *)
(* has been started since, while nothing was resumed.                      *)

Scheduled == {f \in flights : f.by \in {"old", "new"}}
Frozen    == Scheduled = {} /\ enabled = {}

FreezeInv ==
  /\ \A p \in Operator : freeze[p] = "read" /\ p \notin disturbed /\ enabled = {} => Frozen
  /\ \A p \in Operator : freeze[p] = "record" /\ p \notin disturbed => Frozen
  /\ verified /\ ~resumed => Frozen

LEMMA InitFreezeInv == CutoverInit => FreezeInv
  BY DEF CutoverInit, FreezeInv, Frozen, Scheduled

(* Freezes launch nothing and enable no scheduler.                         *)
LEMMA FreezeStepFreezeInv ==
  ASSUME TypeInv, FreezeInv, NEW p \in Operator, FreezeStep(p)
  PROVE  FreezeInv'
<1> USE DEF TypeInv, CutoverTypeOK
<1>1. flights' = flights /\ enabled' \subseteq enabled
  BY FreezeStepKeeps
  DEF FreezeStep, FreezeBegin, FreezePauseNew, FreezePauseOld, PauseScheduler, InvalidateFreeze,
      FreezeQuiet, FreezeReadBack, RecordFreeze, FreezeStop, executions
<1>2. Frozen => Frozen'
  BY <1>1 DEF Frozen, Scheduled
<1>3. CASE FreezePauseNew(p) \/ FreezePauseOld(p)
  <2>1. /\ freeze'[p] \in {"old", "invalidate"} /\ UNCHANGED <<verified, resumed>>
        /\ \A q \in Operator \ {p} : freeze'[q] = freeze[q]
        /\ \A q \in Operator : q \in disturbed => q \in disturbed'
        /\ \A q \in Operator \ {p} :
             enabled' # enabled /\ freeze[q] = "read" => q \in disturbed'
    BY <1>3 DEF FreezePauseNew, FreezePauseOld, PauseScheduler, FreezeGoto
  <2> QED BY <1>2, <2>1 DEF FreezeInv
<1>4. CASE FreezeBegin(p) \/ InvalidateFreeze(p)
  <2>1. /\ freeze'[p] \in {"new", "quiet"} /\ UNCHANGED <<enabled, disturbed>>
        /\ \A q \in Operator \ {p} : freeze'[q] = freeze[q]
        /\ UNCHANGED <<verified, resumed>> \/ ~verified'
    BY <1>4 DEF FreezeBegin, InvalidateFreeze, FreezeGoto
  <2> QED BY <1>2, <2>1 DEF FreezeInv
<1>5. CASE FreezeQuiet(p)
  <2>1. /\ freeze'[p] = "read" /\ UNCHANGED <<enabled, verified, disturbed, resumed>>
        /\ \A q \in Operator \ {p} : freeze'[q] = freeze[q]
    BY <1>5 DEF FreezeQuiet, FreezeGoto
  <2>2. enabled' = {} => Frozen'
    BY <1>1, <1>5 DEF FreezeQuiet, WritersIdle, Frozen, Scheduled
  <2> QED BY <1>2, <2>1, <2>2 DEF FreezeInv
<1>6. CASE FreezeReadBack(p)
  <2>1. /\ freeze[p] = "read" /\ enabled = {}
        /\ freeze'[p] = "record" /\ UNCHANGED <<enabled, verified, disturbed, resumed>>
        /\ \A q \in Operator \ {p} : freeze'[q] = freeze[q]
    BY <1>6 DEF FreezeReadBack, AllPaused, FreezeGoto
  <2> QED BY <1>2, <2>1 DEF FreezeInv
<1>7. CASE RecordFreeze(p) \/ FreezeStop(p)
  <2>1. /\ freeze'[p] = "idle" /\ UNCHANGED enabled
        /\ \A q \in Operator \ {p} :
             freeze'[q] = freeze[q] /\ (q \in disturbed' <=> q \in disturbed)
        /\ \/ UNCHANGED <<verified, resumed>>
           \/ freeze[p] = "record" /\ (resumed' <=> p \in disturbed)
    BY <1>7 DEF RecordFreeze, FreezeStop, FreezeGoto
  <2> QED BY <1>2, <2>1 DEF FreezeInv
<1> QED BY <1>3, <1>4, <1>5, <1>6, <1>7 DEF FreezeStep

LEMMA NextFreezeInv == TypeInv /\ FreezeInv /\ [CutoverNext]_cvars => FreezeInv'
<1> SUFFICES ASSUME TypeInv, FreezeInv, [CutoverNext]_cvars PROVE FreezeInv'
  OBVIOUS
<1>1. ASSUME NEW by \in Invoker, Launch(by) PROVE FreezeInv'
  <2>1. UNCHANGED <<enabled, freeze, disturbed, verified, resumed>>
    BY <1>1 DEF Launch, live, frozen
  <2>2. enabled = {} => Scheduled' = Scheduled
    BY <1>1 DEF Launch, Fires, Scheduled
  <2> QED BY <2>1, <2>2 DEF FreezeInv, Frozen
<1>2. ASSUME NEW f \in flights, Succeeds(f) \/ Fails(f) PROVE FreezeInv'
  <2>1. UNCHANGED <<enabled, freeze, disturbed, verified, resumed>>
    BY <1>2 DEF Succeeds, Fails, live, frozen
  <2>2. Scheduled' \subseteq Scheduled
    BY <1>2 DEF Succeeds, Fails, Scheduled
  <2> QED BY <2>1, <2>2 DEF FreezeInv, Frozen
<1>3. ASSUME NEW i \in Operation, ChangeApplies(i) PROVE FreezeInv'
  <2>1. UNCHANGED <<flights, freeze, verified>>
    BY <1>3 DEF ChangeApplies, executions
  <2>2. \/ UNCHANGED <<enabled, disturbed, resumed>>
        \/ /\ enabled' # {} /\ resumed'
           /\ \A p \in Operator : freeze[p] = "record" => p \in disturbed'
    BY <1>3 DEF ChangeApplies
  <2> QED BY <2>1, <2>2 DEF FreezeInv, Frozen, Scheduled
<1>4. ASSUME NEW p \in Operator, FreezeStep(p) PROVE FreezeInv'
  BY <1>4, FreezeStepFreezeInv
<1>5. CASE \/ \E i \in Operation : ChangeDropped(i)
           \/ \E p \in Operator :
                \/ \E i \in Operation : PrepareReceipt(p, i)
                \/ LockChain(p) \/ RecheckUnderLock(p) \/ Change(p)
                \/ VerifyChange(p) \/ FinalizeReceipt(p) \/ UnlockChain(p) \/ StopOperation(p)
           \/ UNCHANGED cvars
  <2>1. UNCHANGED <<flights, enabled, freeze, disturbed, verified, resumed>>
    BY <1>5 DEF ChangeDropped, PrepareReceipt, LockChain, RecheckUnderLock, Change,
                VerifyChange, FinalizeReceipt, UnlockChain,
         StopOperation, live, executions, frozen, cvars
  <2> QED BY <2>1 DEF FreezeInv, Frozen, Scheduled
<1> QED BY <1>1, <1>2, <1>3, <1>4, <1>5 DEF CutoverNext, FreezeStep

(* The cutover goes in order: operators of different intents never work at *)
(* once, the legacy transfer is switched off last and only after enough    *)
(* runs of the new scheduler, and a verified freeze is quiet but for a     *)
(* resume nothing locks out.                                               *)
THEOREM CutoverIsOrdered == CutoverAssumption /\ CutoverSpec => []CutoverInOrder
<1> DEFINE Inv == TypeInv /\ LockInv /\ PauseInv /\ FreezeInv
<1>1. CutoverAssumption /\ CutoverInit => Inv
  BY InitTypeInv, InitLockInv, InitPauseInv, InitFreezeInv
<1>2. Inv /\ [CutoverNext]_cvars => Inv'
  BY NextTypeInv, NextLockInv, NextPauseInv, NextFreezeInv
<1>3. Inv => CutoverInOrder
  <2>1. Inv => OneOperation BY LockInvIsEnough
  <2>2. Inv => LegacyPausedAfterProof
    BY DEF PauseInv, ProofMade, LegacyPausedAfterProof
  <2>3. Inv => FreezeIsQuiet BY DEF FreezeInv, Frozen, Scheduled, FreezeIsQuiet
  <2> QED BY <2>1, <2>2, <2>3 DEF CutoverInOrder
<1> QED BY <1>1, <1>2, <1>3, PTL DEF CutoverSpec

----------------------------------------------------------------------------
(***************************************************************************)
(* Enforcement.  No request outlives its timeout (RequestInv); a row that  *)
(* is activated carries the receipt of its own revision's promotion,       *)
(* drained by now (DrainInv); and what a run read back, or a receipt file  *)
(* says, is a row of the ledger that is activated, which no step changes   *)
(* (RowInv).                                                               *)
(***************************************************************************)

(* A finite set of naturals that is not empty has a greatest element.      *)
LEMMA MaxOf ==
  ASSUME NEW S \in SUBSET Nat, IsFiniteSet(S), S # {}
  PROVE  Max(S) \in S /\ \A y \in S : Max(S) >= y
<1> DEFINE Above(x) == {y \in S : y > x}
           C == {Above(x) : x \in S}
<1>1. IsWellFoundedOn(StrictSubsetOrdering(S), SUBSET S)
  BY FS_StrictSubsetOrderingWellFounded, FS_FiniteSubsetsOfFinite
<1>2. C \subseteq SUBSET S /\ C # {}
  OBVIOUS
<1>3. PICK T \in C : \A U \in C : ~(<<U, T>> \in StrictSubsetOrdering(S))
  <2> HIDE DEF C
  <2> QED BY <1>1, <1>2, WFMin
<1>4. PICK x \in S : T = Above(x)
  OBVIOUS
<1>5. ASSUME NEW y \in S PROVE x >= y
  <2>1. SUFFICES ASSUME y > x PROVE FALSE
    OBVIOUS
  <2>2. Above(y) \subseteq Above(x) /\ y \in Above(x) /\ y \notin Above(y)
    <3>1. x \in Nat /\ y \in Nat /\ \A z \in S : z \in Nat
      OBVIOUS
    <3>2. ~(y > y) /\ \A z \in S : z > y => z > x
      BY <2>1, <3>1
    <3> QED BY <2>1, <3>2
  <2>3. <<Above(y), T>> \in StrictSubsetOrdering(S)
    BY <1>4, <2>2 DEF StrictSubsetOrdering
  <2> QED BY <1>3, <2>3
<1> QED BY <1>5 DEF Max

Drainable(r) == r \in Promotion /\ r.old # {}

(* A promotion is drained once the longest old request has run out.        *)
LEMMA Drains ==
  ASSUME EnforcementAssumption, NEW r, Drainable(r)
  PROVE  DrainUntil(r) \in Nat /\ \A v \in r.old : DrainUntil(r) >= r.at + Timeout[v]
<1> DEFINE S == {Timeout[v] : v \in r.old}
<1>1. r.old \in SUBSET Version /\ r.old # {} /\ r.at \in Nat
  BY DEF Drainable, Promotion, EnforcementAssumption
<1>2. S \in SUBSET Nat /\ S # {}
  BY <1>1 DEF EnforcementAssumption
<1>3. IsFiniteSet(S)
  <2> DEFINE f == [v \in r.old |-> Timeout[v]]
  <2>1. IsFiniteSet(r.old) BY <1>1, FS_Subset DEF EnforcementAssumption
  <2>2. S = {f[v] : v \in r.old} OBVIOUS
  <2>3. f \in [r.old -> S] OBVIOUS
  <2>4. f \in Surjection(r.old, S)
    BY <2>2, <2>3 DEF Surjection
  <2> HIDE DEF f, S
  <2> QED BY <2>1, <2>4, FS_Surjection
<1>4. Max(S) \in S /\ \A y \in S : Max(S) >= y
  <2> HIDE DEF S
  <2> QED BY <1>2, <1>3, MaxOf
<1>5. \A v \in r.old : Timeout[v] \in Nat /\ Max(S) >= Timeout[v]
  BY <1>1, <1>4 DEF EnforcementAssumption
<1>6. Max(S) \in Nat /\ DrainUntil(r) = r.at + Max(S)
  BY <1>2, <1>4 DEF DrainUntil
<1> HIDE DEF S
<1> QED BY <1>1, <1>5, <1>6

----------------------------------------------------------------------------
(* The inductive invariant.                                                *)

(* An operator past its validation holds a receipt; one that has committed *)
(* holds the row it read back.                                             *)
ActivatorTypeInv ==
  /\ EnforcementTypeOK
  /\ \A p \in Activator : at[p] # "idle" => proof[p] # Nothing
  /\ \A r \in promotions : Drainable(r)

RequestInv == \A q \in requests : now < q.since + Timeout[q.by]

Activates(x, v) == x.start # Nothing /\ x.proof # Nothing /\ x.proof.target = v

DrainInv ==
  \A v \in Version : ledger[v].start # Nothing =>
    /\ Activates(ledger[v], v) /\ Drainable(ledger[v].proof)
    /\ now >= DrainUntil(ledger[v].proof)

(* x is the row of an activation, as the ledger has it.                    *)
InLedger(x) == \E v \in Version : x = ledger[v] /\ Activates(x, v)

RowInv ==
  /\ \A p \in Activator : at[p] = "committed" => InLedger(row[p])
  /\ \A f \in Path : output[f] # Nothing => InLedger(output[f])

EnforcementInv == EnforcementAssumption /\ ActivatorTypeInv /\ RequestInv /\ DrainInv /\ RowInv

LEMMA InitEnforcementInv == EnforcementAssumption /\ EnforcementInit => EnforcementInv
<1> SUFFICES ASSUME EnforcementAssumption, EnforcementInit PROVE EnforcementInv
  OBVIOUS
<1>1. Unregistered \in Row
  BY DEF Unregistered, Row
<1>2. EnforcementTypeOK
  <2>1. First \in Version /\ 0 \in 0..MaxTime /\ 0 \in 0..MaxMoves
    BY DEF EnforcementAssumption
  <2>2. serving \in (SUBSET Version) \ {{}}
    BY <2>1 DEF EnforcementInit
  <2> QED BY <1>1, <2>1, <2>2 DEF EnforcementInit, EnforcementTypeOK
<1>3. ActivatorTypeInv /\ RequestInv
  BY <1>2 DEF EnforcementInit, ActivatorTypeInv, RequestInv
<1>4. DrainInv /\ RowInv
  BY DEF EnforcementInit, DrainInv, RowInv, Unregistered
<1> QED BY <1>3, <1>4 DEF EnforcementInv

(* What the transaction writes: the row it found, or an activation.        *)
LEMMA ActivatedRow ==
  ASSUME EnforcementInv, NEW p \in Activator, at[p] = "live", Activatable(p)
  PROVE  /\ proof[p] \in promotions /\ proof[p].target \in Version
         /\ Activated(p) \in Row /\ Activates(Activated(p), proof[p].target)
         /\ Drainable(Activated(p).proof) /\ now >= DrainUntil(Activated(p).proof)
         /\ \/ ledger[proof[p].target].start = Nothing
            \/ Activated(p) = ledger[proof[p].target]
<1> DEFINE v == proof[p].target
<1>1. proof[p] \in promotions /\ Drainable(proof[p]) /\ proof[p] \in Promotion
  BY DEF EnforcementInv, ActivatorTypeInv, EnforcementTypeOK, Drainable
<1>2. v \in Version /\ proof[p] # Nothing
  BY <1>1 DEF Promotion, EnforcementInv, EnforcementAssumption
<1>3. ledger[v] \in Row /\ now \in 0..MaxTime /\ now # Nothing
      /\ readback[p] \in 0..MaxMoves \cup {Nothing}
  BY <1>2 DEF EnforcementInv, ActivatorTypeInv, EnforcementTypeOK, EnforcementAssumption
<1>4. CASE ledger[v].start = Nothing
  <2>1. Activated(p) = [ledger[v] EXCEPT !.proof = proof[p], !.start = now,
                                         !.readback = readback[p]]
    BY <1>4 DEF Activated
  <2>2. Activated(p) \in Row
    BY <1>1, <1>3, <2>1 DEF Row
  <2>3. Activated(p).proof = proof[p] /\ Activated(p).start = now
    BY <1>3, <2>1 DEF Row
  <2>4. now >= DrainUntil(proof[p])
    BY DEF Activatable
  <2> QED BY <1>1, <1>2, <1>3, <1>4, <2>2, <2>3, <2>4 DEF Activates
<1>5. CASE ledger[v].start # Nothing
  <2>1. Activated(p) = ledger[v]
    BY <1>5 DEF Activated
  <2>2. Activates(ledger[v], v) /\ Drainable(ledger[v].proof)
        /\ now >= DrainUntil(ledger[v].proof)
    BY <1>2, <1>5 DEF EnforcementInv, DrainInv
  <2> QED BY <1>1, <1>2, <1>3, <2>1, <2>2
<1> QED BY <1>4, <1>5

(* Steps of the service and its clock.                                     *)
LEMMA ServiceInv ==
  ASSUME EnforcementInv,
         \/ Pass \/ \E v \in Version : Arrive(v) \/ PromoteVersion(v)
         \/ \E q \in requests : Respond(q)
         \/ \E s \in (SUBSET Version) \ {{}} : Shift(s)
  PROVE  EnforcementInv'
<1>1. EnforcementAssumption' /\ UNCHANGED <<ledger, output, operators>>
  BY DEF EnforcementInv, EnforcementAssumption, Pass, Arrive, PromoteVersion, Respond, Shift
<1>2. RowInv' /\ \A p \in Activator : at'[p] # "idle" => proof'[p] # Nothing
  BY <1>1 DEF EnforcementInv, RowInv, InLedger, ActivatorTypeInv, operators
<1>3. now \in Nat /\ MaxTime \in Nat /\ MaxMoves \in Nat
  BY DEF EnforcementInv, EnforcementAssumption, ActivatorTypeInv, EnforcementTypeOK
<1>4. ASSUME UNCHANGED now PROVE DrainInv'
  BY <1>1, <1>4 DEF EnforcementInv, DrainInv, Drainable, DrainUntil
<1>5. EnforcementTypeOK /\ RequestInv /\ \A r \in promotions : Drainable(r)
  BY DEF EnforcementInv, ActivatorTypeInv
<1>6. CASE Pass
  <2>1. now' = now + 1 /\ now' \in 0..MaxTime /\ UNCHANGED <<service, requests, promotions>>
    BY <1>3, <1>6 DEF Pass
  <2>2. RequestInv' BY <1>6 DEF Pass, RequestInv
  <2>3. ASSUME NEW v \in Version, ledger[v].start # Nothing
        PROVE  now + 1 >= DrainUntil(ledger[v].proof)
    <3>1. Drainable(ledger[v].proof) /\ now >= DrainUntil(ledger[v].proof)
      BY <2>3 DEF EnforcementInv, DrainInv
    <3>2. DrainUntil(ledger[v].proof) \in Nat
      BY <3>1, Drains DEF EnforcementInv
    <3> QED BY <1>3, <3>1, <3>2
  <2>4. DrainInv'
    <3>1. \A r : DrainUntil(r)' = DrainUntil(r) /\ (Drainable(r)' <=> Drainable(r))
      BY DEF DrainUntil, Drainable
    <3> QED BY <1>1, <2>1, <2>3, <3>1 DEF EnforcementInv, DrainInv
  <2>5. EnforcementTypeOK'
    BY <1>1, <1>5, <2>1 DEF EnforcementTypeOK, operators, service
  <2>6. \A r \in promotions' : Drainable(r)' BY <1>5, <2>1 DEF Drainable
  <2> QED BY <1>1, <1>2, <2>2, <2>4, <2>5, <2>6 DEF EnforcementInv, ActivatorTypeInv
<1>7. ASSUME NEW v \in Version, Arrive(v) PROVE EnforcementInv'
  <2>1. /\ UNCHANGED <<now, service, promotions>>
        /\ requests' = requests \cup {[by |-> v, since |-> now]}
    BY <1>7 DEF Arrive
  <2>2. Timeout[v] \in Nat /\ Timeout[v] > 0
    BY DEF EnforcementInv, EnforcementAssumption
  <2>3. now < now + Timeout[v] BY <1>3, <2>2
  <2>4. RequestInv' BY <1>5, <2>1, <2>3 DEF RequestInv
  <2>5. EnforcementTypeOK'
    BY <1>1, <1>5, <2>1 DEF EnforcementTypeOK, operators, service
  <2>6. \A r \in promotions' : Drainable(r)' BY <1>5, <2>1 DEF Drainable
  <2> QED BY <1>1, <1>2, <1>4, <2>1, <2>4, <2>5, <2>6 DEF EnforcementInv, ActivatorTypeInv
<1>8. ASSUME NEW v \in Version, PromoteVersion(v) PROVE EnforcementInv'
  <2> DEFINE r == [target |-> v, old |-> serving, at |-> now]
  <2>1. /\ UNCHANGED <<now, requests>> /\ promotions' = promotions \cup {r}
        /\ serving' = {v} /\ moves' = moves + 1 /\ moves < MaxMoves
    BY <1>8 DEF PromoteVersion
  <2>2. Drainable(r)
    BY <1>5 DEF Drainable, Promotion, EnforcementTypeOK
  <2>3. moves' \in 0..MaxMoves /\ serving' \in (SUBSET Version) \ {{}}
    BY <1>3, <1>5, <2>1 DEF EnforcementTypeOK
  <2>4. \A x \in promotions' : Drainable(x)' BY <1>5, <2>1, <2>2 DEF Drainable
  <2>5. promotions' \subseteq Promotion /\ promotions \subseteq promotions'
    BY <1>5, <2>1, <2>2 DEF EnforcementTypeOK, Drainable
  <2>6. EnforcementTypeOK'
    BY <1>1, <1>5, <2>1, <2>3, <2>5 DEF EnforcementTypeOK, operators
  <2>7. RequestInv' BY <1>5, <2>1 DEF RequestInv
  <2> QED BY <1>1, <1>2, <1>4, <2>1, <2>4, <2>6, <2>7 DEF EnforcementInv, ActivatorTypeInv
<1>9. ASSUME NEW q \in requests, Respond(q) PROVE EnforcementInv'
  <2>1. UNCHANGED <<now, service, promotions>> /\ requests' \subseteq requests
    BY <1>9 DEF Respond
  <2>2. EnforcementTypeOK' /\ RequestInv' /\ \A r \in promotions' : Drainable(r)'
    BY <1>1, <1>5, <2>1 DEF EnforcementTypeOK, RequestInv, Drainable, operators, service
  <2> QED BY <1>1, <1>2, <1>4, <2>1, <2>2 DEF EnforcementInv, ActivatorTypeInv
<1>10. ASSUME NEW s \in (SUBSET Version) \ {{}}, Shift(s) PROVE EnforcementInv'
  <2>1. /\ UNCHANGED <<now, requests, promotions>>
        /\ serving' = s /\ moves' = moves + 1 /\ moves < MaxMoves
    BY <1>10 DEF Shift
  <2>2. moves' \in 0..MaxMoves BY <1>3, <1>5, <2>1 DEF EnforcementTypeOK
  <2>3. EnforcementTypeOK' /\ RequestInv' /\ \A r \in promotions' : Drainable(r)'
    BY <1>1, <1>5, <2>1, <2>2 DEF EnforcementTypeOK, RequestInv, Drainable, operators
  <2> QED BY <1>1, <1>2, <1>4, <2>1, <2>3 DEF EnforcementInv, ActivatorTypeInv
<1> QED BY <1>6, <1>7, <1>8, <1>9, <1>10

(* An activated row is in the ledger for good.                             *)
LEMMA RowsStay ==
  ASSUME RowInv, UNCHANGED <<at, row, output>>,
         \A v \in Version : ledger[v].start # Nothing => ledger'[v] = ledger[v]
  PROVE  RowInv'
<1>1. ASSUME NEW x, InLedger(x) PROVE InLedger(x)'
  <2>1. PICK v \in Version : x = ledger[v] /\ Activates(x, v) BY <1>1 DEF InLedger
  <2>2. ledger'[v] = x BY <2>1 DEF Activates
  <2> QED BY <2>1, <2>2 DEF InLedger, Activates
<1> QED BY <1>1 DEF RowInv

(* What no registration and no operator touches.                           *)
LEMMA OthersStay ==
  ASSUME EnforcementInv, UNCHANGED <<now, service, requests, promotions>>
  PROVE  /\ EnforcementAssumption' /\ RequestInv'
         /\ \A r \in promotions' : Drainable(r)'
         /\ \A r : DrainUntil(r)' = DrainUntil(r)
BY DEF EnforcementInv, ActivatorTypeInv, EnforcementAssumption, RequestInv, Drainable, DrainUntil

LEMMA RegisterInv ==
  ASSUME EnforcementInv, NEW v \in Version, NEW s \in Sample, Register(v, s)
  PROVE  EnforcementInv'
<1>1. /\ UNCHANGED <<now, service, requests, promotions, output, operators>>
      /\ ledger[v] = Unregistered /\ ledger' = [ledger EXCEPT ![v].sample = s]
  BY DEF Register
<1>2. EnforcementTypeOK /\ DrainInv /\ RowInv
  BY DEF EnforcementInv, ActivatorTypeInv
<1>3. [Unregistered EXCEPT !.sample = s] \in Row
      /\ [Unregistered EXCEPT !.sample = s].start = Nothing
  BY DEF Unregistered, Row
<1>4. /\ ledger' \in [Version -> Row] /\ ledger'[v].start = Nothing
      /\ \A u \in Version \ {v} : ledger'[u] = ledger[u]
  BY <1>1, <1>2, <1>3 DEF EnforcementTypeOK
<1>5. ledger[v].start = Nothing
  BY <1>1 DEF Unregistered
<1>6. RowInv'
  BY <1>1, <1>2, <1>4, <1>5, RowsStay DEF operators
<1>7. DrainInv'
  BY <1>1, <1>2, <1>4, OthersStay DEF DrainInv, Activates, Drainable
<1>8. ActivatorTypeInv'
  <2>1. EnforcementTypeOK'
    BY <1>1, <1>2, <1>4 DEF EnforcementTypeOK, operators, service
  <2>2. \A p \in Activator : at'[p] # "idle" => proof'[p] # Nothing
    BY <1>1 DEF EnforcementInv, ActivatorTypeInv, operators
  <2> QED BY <1>1, <2>1, <2>2, OthersStay DEF ActivatorTypeInv
<1> QED BY <1>1, <1>6, <1>7, <1>8, OthersStay DEF EnforcementInv

LEMMA ActivateInv ==
  ASSUME EnforcementInv, NEW p \in Activator, Activate(p)
  PROVE  EnforcementInv'
<1>0. PICK v, x : v = proof[p].target /\ x = Activated(p)
  OBVIOUS
<1>1. /\ UNCHANGED <<now, service, requests, promotions, output, proof, readback>>
      /\ ledger' = [ledger EXCEPT ![v] = x] /\ row' = [row EXCEPT ![p] = x]
      /\ at' = [at EXCEPT ![p] = "committed"] /\ at[p] = "live"
  BY <1>0 DEF Activate, To
<1>2. EnforcementTypeOK /\ DrainInv /\ RowInv
  BY DEF EnforcementInv, ActivatorTypeInv
<1>3. /\ v \in Version /\ x \in Row /\ Activates(x, v)
      /\ Drainable(x.proof) /\ now >= DrainUntil(x.proof)
      /\ ledger[v].start = Nothing \/ x = ledger[v]
  BY <1>0, <1>1, ActivatedRow DEF Activate
<1>4. /\ ledger' \in [Version -> Row] /\ ledger'[v] = x
      /\ \A u \in Version \ {v} : ledger'[u] = ledger[u]
      /\ row' \in [Activator -> Row \cup {Nothing}] /\ row'[p] = x
      /\ \A o \in Activator \ {p} : row'[o] = row[o] /\ at'[o] = at[o]
      /\ at' \in [Activator -> {"idle", "validated", "live", "committed"}]
  BY <1>1, <1>2, <1>3 DEF EnforcementTypeOK
<1>5. \A y : InLedger(y) => InLedger(y)'
  <2> SUFFICES ASSUME NEW y, InLedger(y) PROVE InLedger(y)'
    OBVIOUS
  <2>1. PICK u \in Version : y = ledger[u] /\ Activates(y, u) BY DEF InLedger
  <2>2. ledger'[u] = y
    <3>1. CASE u = v BY <1>3, <1>4, <2>1, <3>1 DEF Activates
    <3>2. CASE u # v BY <1>4, <2>1, <3>2
    <3> QED BY <3>1, <3>2
  <2> QED BY <2>1, <2>2 DEF InLedger, Activates
<1>6. InLedger(x)'
  BY <1>3, <1>4 DEF InLedger, Activates
<1>7. RowInv'
  BY <1>1, <1>2, <1>4, <1>5, <1>6 DEF RowInv
<1>8. DrainInv'
  <2>1. \A r : DrainUntil(r)' = DrainUntil(r) BY <1>1, OthersStay
  <2> QED BY <1>1, <1>2, <1>3, <1>4, <2>1 DEF DrainInv, Activates, Drainable
<1>9. ActivatorTypeInv'
  <2>1. EnforcementTypeOK'
    BY <1>1, <1>2, <1>4 DEF EnforcementTypeOK, service
  <2>2. \A o \in Activator : at'[o] # "idle" => proof'[o] # Nothing
    BY <1>1, <1>4 DEF EnforcementInv, ActivatorTypeInv
  <2> QED BY <1>1, <2>1, <2>2, OthersStay DEF ActivatorTypeInv
<1> QED BY <1>1, <1>7, <1>8, <1>9, OthersStay DEF EnforcementInv

(* A run that ends, with its receipt or without one.                       *)
LEMMA DoneInv ==
  ASSUME EnforcementInv, NEW p \in Activator, Done(p),
         UNCHANGED <<now, service, requests, promotions, ledger>>,
         output' \in [Path -> Row \cup {Nothing}],
         \A f \in Path : output'[f] # Nothing => InLedger(output'[f])
  PROVE  EnforcementInv'
<1>1. EnforcementTypeOK /\ DrainInv /\ RowInv
  BY DEF EnforcementInv, ActivatorTypeInv
<1>2. /\ at' \in [Activator -> {"idle", "validated", "live", "committed"}]
      /\ proof' \in [Activator -> promotions' \cup {Nothing}]
      /\ readback' \in [Activator -> 0..MaxMoves \cup {Nothing}]
      /\ row' \in [Activator -> Row \cup {Nothing}] /\ at'[p] = "idle"
      /\ \A o \in Activator \ {p} : at'[o] = at[o] /\ row'[o] = row[o] /\ proof'[o] = proof[o]
  BY <1>1 DEF Done, To, EnforcementTypeOK
<1>3. \A y : InLedger(y)' <=> InLedger(y)
  BY DEF InLedger, Activates
<1>4. RowInv'
  BY <1>1, <1>2, <1>3 DEF RowInv
<1>5. DrainInv'
  BY <1>1, OthersStay DEF DrainInv, Activates, Drainable
<1>6. ActivatorTypeInv'
  <2>1. EnforcementTypeOK'
    BY <1>1, <1>2 DEF EnforcementTypeOK, service
  <2>2. \A o \in Activator : at'[o] # "idle" => proof'[o] # Nothing
    BY <1>2 DEF EnforcementInv, ActivatorTypeInv
  <2> QED BY <2>1, <2>2, OthersStay DEF ActivatorTypeInv
<1> QED BY <1>4, <1>5, <1>6, OthersStay DEF EnforcementInv

(* Steps of an activation before it commits.                               *)
LEMMA CheckInv ==
  ASSUME EnforcementInv, NEW p \in Activator,
         ReadLive(p) \/ \E r \in promotions : Validate(p, r)
  PROVE  EnforcementInv'
<1>1. EnforcementTypeOK /\ DrainInv /\ RowInv
  BY DEF EnforcementInv, ActivatorTypeInv
<1>2. Nothing \notin promotions
  BY DEF EnforcementInv, EnforcementAssumption, ActivatorTypeInv, EnforcementTypeOK
<1>3. /\ UNCHANGED <<now, service, requests, promotions, ledger, output, row>>
      /\ at' \in [Activator -> {"idle", "validated", "live", "committed"}]
      /\ proof' \in [Activator -> promotions \cup {Nothing}]
      /\ readback' \in [Activator -> 0..MaxMoves \cup {Nothing}]
      /\ at'[p] # "committed" /\ \A o \in Activator \ {p} : at'[o] = at[o]
      /\ \A o \in Activator : at'[o] # "idle" => proof'[o] # Nothing
  <2>1. CASE ReadLive(p)
    BY <1>1, <2>1 DEF ReadLive, To, EnforcementTypeOK, EnforcementInv, ActivatorTypeInv
  <2>2. ASSUME NEW r \in promotions, Validate(p, r)
        PROVE  /\ UNCHANGED <<now, service, requests, promotions, ledger, output, row, readback>>
               /\ at' = [at EXCEPT ![p] = "validated"] /\ proof' = [proof EXCEPT ![p] = r]
    BY <2>2 DEF Validate, To
  <2>3. CASE \E r \in promotions : Validate(p, r)
    BY <1>1, <1>2, <2>2, <2>3 DEF EnforcementTypeOK, EnforcementInv, ActivatorTypeInv
  <2> QED BY <2>1, <2>3
<1>4. RowInv'
  <2>1. \A y : InLedger(y)' <=> InLedger(y) BY <1>3 DEF InLedger, Activates
  <2> QED BY <1>1, <1>3, <2>1 DEF RowInv
<1>5. DrainInv'
  BY <1>1, <1>3, OthersStay DEF DrainInv, Activates, Drainable
<1>6. ActivatorTypeInv'
  BY <1>1, <1>3, OthersStay DEF ActivatorTypeInv, EnforcementTypeOK, service
<1> QED BY <1>3, <1>4, <1>5, <1>6, OthersStay DEF EnforcementInv

LEMMA NextEnforcementInv == EnforcementInv /\ [EnforcementNext]_evars => EnforcementInv'
<1> SUFFICES ASSUME EnforcementInv, [EnforcementNext]_evars PROVE EnforcementInv'
  OBVIOUS
<1>1. CASE \/ Pass \/ \E v \in Version : Arrive(v) \/ PromoteVersion(v)
           \/ \E q \in requests : Respond(q)
           \/ \E s \in (SUBSET Version) \ {{}} : Shift(s)
  BY <1>1, ServiceInv
<1>2. CASE \E v \in Version, s \in Sample : Register(v, s)
  BY <1>2, RegisterInv
<1>3. ASSUME NEW p \in Activator,
             ReadLive(p) \/ \E r \in promotions : Validate(p, r)
      PROVE  EnforcementInv'
  BY <1>3, CheckInv
<1>4. ASSUME NEW p \in Activator, Activate(p) PROVE EnforcementInv'
  BY <1>4, ActivateInv
<1>5. ASSUME NEW p \in Activator, NEW f \in Path, WriteReceipt(p, f) PROVE EnforcementInv'
  <2>1. /\ at[p] = "committed" /\ output' = [output EXCEPT ![f] = row[p]]
        /\ Done(p) /\ UNCHANGED <<now, service, requests, promotions, ledger>>
    BY <1>5 DEF WriteReceipt
  <2>2. output \in [Path -> Row \cup {Nothing}] /\ row[p] \in Row \cup {Nothing}
    BY DEF EnforcementInv, ActivatorTypeInv, EnforcementTypeOK
  <2>3. InLedger(row[p]) /\ \A g \in Path : output[g] # Nothing => InLedger(output[g])
    BY <2>1 DEF EnforcementInv, RowInv
  <2>4. /\ output' \in [Path -> Row \cup {Nothing}]
        /\ \A g \in Path : output'[g] # Nothing => InLedger(output'[g])
    BY <2>1, <2>2, <2>3
  <2> QED BY <2>1, <2>4, DoneInv
<1>6. ASSUME NEW p \in Activator, Abort(p) PROVE EnforcementInv'
  <2>1. Done(p) /\ UNCHANGED <<now, service, requests, promotions, ledger, output>>
    BY <1>6 DEF Abort
  <2>2. /\ output' \in [Path -> Row \cup {Nothing}]
        /\ \A g \in Path : output'[g] # Nothing => InLedger(output'[g])
    BY <2>1 DEF EnforcementInv, ActivatorTypeInv, EnforcementTypeOK, RowInv
  <2> QED BY <2>1, <2>2, DoneInv
<1>7. CASE UNCHANGED evars
  BY <1>7 DEF evars, service, operators, EnforcementInv, EnforcementAssumption, ActivatorTypeInv,
       EnforcementTypeOK, RequestInv, DrainInv, RowInv, InLedger, Activates, Drainable,
       DrainUntil
<1> QED BY <1>1, <1>2, <1>3, <1>4, <1>5, <1>6, <1>7 DEF EnforcementNext

(* A request that an old revision had accepted when traffic was read back  *)
(* has run out by the time the activation waits for.                       *)
LEMMA InvDrained == EnforcementInv => OldRequestsDrained
<1> SUFFICES ASSUME EnforcementInv, NEW v \in Version, ledger[v].start # Nothing,
                    NEW q \in requests, q.by \in ledger[v].proof.old,
                    q.since <= ledger[v].proof.at
             PROVE  FALSE
  BY DEF OldRequestsDrained
<1> DEFINE r == ledger[v].proof
<1>1. Drainable(r) /\ now >= DrainUntil(r)
  BY DEF EnforcementInv, DrainInv
<1>2. DrainUntil(r) \in Nat /\ DrainUntil(r) >= r.at + Timeout[q.by]
  BY <1>1, Drains DEF EnforcementInv
<1>3. q.by \in Version /\ q.since \in Nat /\ now \in Nat /\ r.at \in Nat
  BY <1>1 DEF EnforcementInv, ActivatorTypeInv, EnforcementTypeOK, EnforcementAssumption,
       Drainable, Promotion
<1>4. Timeout[q.by] \in Nat
  BY <1>3 DEF EnforcementInv, EnforcementAssumption
<1>5. now < q.since + Timeout[q.by] /\ q.since <= r.at
  BY DEF EnforcementInv, RequestInv
<1> QED BY <1>1, <1>2, <1>3, <1>4, <1>5

(* Every value of the activation has its type.                             *)
THEOREM EnforcementTypeCorrect ==
  EnforcementAssumption /\ EnforcementSpec => []EnforcementTypeOK
<1>1. EnforcementInv => EnforcementTypeOK
  BY DEF EnforcementInv, ActivatorTypeInv
<1> QED BY <1>1, InitEnforcementInv, NextEnforcementInv, PTL DEF EnforcementSpec

(* Strict enforcement starts after the old revisions' requests, and an     *)
(* activation receipt says what the ledger says, whoever wrote it.         *)
THEOREM EnforcementHolds ==
  EnforcementAssumption /\ EnforcementSpec => []EnforcementIsTrue
<1>1. EnforcementInv => ReceiptsMatchLedger
  BY DEF EnforcementInv, RowInv, InLedger, Activates, ReceiptsMatchLedger
<1>2. EnforcementInv => EnforcementIsTrue
  BY <1>1, InvDrained DEF EnforcementIsTrue
<1> QED BY <1>2, InitEnforcementInv, NextEnforcementInv, PTL DEF EnforcementSpec

----------------------------------------------------------------------------
(* The composition: a behaviour of it is one of each of the protocols.     *)

LEMMA ProtocolsAreRun == ReleaseSpec => Spec /\ CutoverSpec /\ EnforcementSpec
<1>1. ReleaseInit => Init /\ CutoverInit /\ EnforcementInit
  BY DEF ReleaseInit
<1>2. [ReleaseNext]_<<active, vars, cvars, evars>> =>
        [Next]_vars /\ [CutoverNext]_cvars /\ [EnforcementNext]_evars
  BY DEF ReleaseNext
<1> QED BY <1>1, <1>2, PTL DEF ReleaseSpec, Spec, CutoverSpec, EnforcementSpec

(* The variables of all three keep their types, whichever is run.          *)
THEOREM ReleaseTypeCorrect ==
  CutoverAssumption /\ EnforcementAssumption /\ ReleaseSpec => []ReleaseTypeOK
<1>1. TypeOK /\ CutoverTypeOK /\ EnforcementTypeOK => ReleaseTypeOK
  BY DEF ReleaseTypeOK
<1> QED BY <1>1, ProtocolsAreRun, PromotionTypeCorrect, CutoverTypeCorrect,
           EnforcementTypeCorrect, PTL

(* Whichever is run, what is checked of each protocol holds.               *)
THEOREM ReleaseHolds ==
  CutoverAssumption /\ EnforcementAssumption /\ ReleaseSpec =>
    /\ [](OneWorker /\ CutoverInOrder /\ EnforcementIsTrue)
    /\ MovesRecordedTraffic /\ FinalIsTruthful /\ OnlyFinalUnlocks
BY ProtocolsAreRun, PromotionOneWorker, CutoverIsOrdered, EnforcementHolds,
   PromotionMovesRecordedTraffic, PromotionFinalIsTruthful, PromotionOnlyFinalUnlocks, PTL
=============================================================================
