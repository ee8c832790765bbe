----------------------- MODULE RefreshPipelineProofs -----------------------
(***************************************************************************)
(* Theorems about the incremental publisher, for every set of executions,  *)
(* every policy that satisfies TimingAssumption and every bound.           *)
(***************************************************************************)
EXTENDS RefreshPipeline, TLAPS

(* A transaction the server still holds carries the run it publishes.      *)
TxTyped == \A a \in Attempt : tx[a].phase \in {"sent", "open"} => tx[a].run \in RunId

TypeInv == TypeOK /\ TxTyped

(* Aborting the open transactions keeps every transaction well formed.     *)
LEMMA ConflictingTyped ==
  ASSUME tx \in [Attempt -> TxState], TxTyped
  PROVE  /\ Conflicting(tx) \in [Attempt -> TxState]
         /\ \A a \in Attempt : Conflicting(tx)[a].phase \in {"sent", "open"} =>
              Conflicting(tx)[a].run \in RunId
  BY DEF Conflicting, TxTyped, TxState, Over, TxPhase

LEMMA FinishTyped ==
  ASSUME tx \in [Attempt -> TxState], TxTyped, NEW a \in Attempt,
         NEW phase \in {"committed", "gated"}
  PROVE  /\ Finish(a, phase) \in [Attempt -> TxState]
         /\ \A b \in Attempt : Finish(a, phase)[b].phase \in {"sent", "open"} =>
              Finish(a, phase)[b].run \in RunId
<1>1. Over(phase) \in TxState /\ Over(phase).phase = phase
  BY DEF Over, TxState, TxPhase
<1> QED BY <1>1, ConflictingTyped DEF Finish

LEMMA WithRunTyped ==
  ASSUME TypeOK, NEW r \in RunId, NEW status \in {"running", "failed", "succeeded"}
  PROVE  /\ DOMAIN WithRun(r, status) \subseteq RunId
         /\ \A x \in DOMAIN WithRun(r, status) :
              WithRun(r, status)[x] \in {"running", "failed", "succeeded"}
  BY DEF WithRun, TypeOK

LEMMA RunOfTyped ==
  ASSUME TypeOK, NEW e \in Execution
  PROVE  RunOf(e) \in RunId
  BY DEF RunOf, RunId, TypeOK

LEMMA CurrentTyped ==
  ASSUME TypeOK, NEW e \in Execution
  PROVE  Current(e) \in Attempt
  BY DEF Current, Attempt, TypeOK

LEMMA InitTypeInv == Init => TypeInv
  BY TimingAssumption, ExecutionAssumption
  DEF Init, TypeInv, TypeOK, TxTyped, TxState, Over, NoPlan, TxPhase, Phase, Outcome,
      Watermark

(* The steps of Cloud Run.                                                 *)
LEMMA EnvironmentTypeInv ==
  ASSUME TypeInv, NEW e \in Execution, Launch(e) \/ Retry(e) \/ Crash(e)
  PROVE  TypeInv'
<1> USE TimingAssumption, ExecutionAssumption DEF TypeInv, TypeOK, TxTyped, row, client,
        history, Phase, Outcome, Goto, End, Fault, NoFault
<1>2. CASE Launch(e) BY <1>2 DEF Launch
<1>3. CASE Retry(e)
  <2>1. NoPlan \in [from : Watermark, start : Nat, to : Nat] BY DEF NoPlan, Watermark
  <2> QED BY <1>3, <2>1 DEF Retry
<1>4. CASE Crash(e) BY <1>4 DEF Crash
<1> QED BY <1>2, <1>3, <1>4

(* Client calls that change no transaction, row or run.                    *)
LEMMA LocalTypeInv ==
  ASSUME TypeInv, NEW e \in Execution,
         \/ AcquireLocked(e) \/ ReleaseNoopFails(e) \/ Project(e) \/ ProjectFails(e)
         \/ SubmitPublishFails(e) \/ PublishReply(e) \/ TransportError(e)
         \/ ReadReceipt(e) \/ ReceiptUnreadable(e) \/ MarkFailedFails(e)
         \/ ReleaseLeaseFails(e)
  PROVE  TypeInv'
<1> USE TimingAssumption, ExecutionAssumption DEF TypeInv, TypeOK, TxTyped, row, client,
        history, Phase, Outcome, Goto, End, Fault, NoFault
<1>1. CASE AcquireLocked(e) BY <1>1 DEF AcquireLocked
<1>2. CASE ReleaseNoopFails(e) BY <1>2 DEF ReleaseNoopFails
<1>3. CASE Project(e) BY <1>3 DEF Project
<1>4. CASE ProjectFails(e) BY <1>4 DEF ProjectFails
<1>5. CASE SubmitPublishFails(e) BY <1>5 DEF SubmitPublishFails
<1>6. CASE PublishReply(e)
  <2>1. CASE Published(e) BY <1>6, <2>1 DEF PublishReply, Published
  <2>2. CASE UNCHANGED <<outcome, seq>> /\ \E p \in {"mark", "receipt"} : Goto(e, p)
    BY <1>6, <2>2 DEF PublishReply
  <2> QED BY <1>6, <2>1, <2>2 DEF PublishReply
<1>7. CASE TransportError(e) BY <1>7 DEF TransportError
<1>8. CASE ReadReceipt(e) BY <1>8 DEF ReadReceipt, Published
<1>9. CASE ReceiptUnreadable(e) BY <1>9 DEF ReceiptUnreadable
<1>10. CASE MarkFailedFails(e) BY <1>10 DEF MarkFailedFails
<1>11. CASE ReleaseLeaseFails(e) BY <1>11 DEF ReleaseLeaseFails
<1> QED BY <1>1, <1>2, <1>3, <1>4, <1>5, <1>6, <1>7, <1>8, <1>9, <1>10, <1>11

(* The window planned by _acquire_lease's caller is made of natural numbers.*)
LEMMA WindowTyped ==
  ASSUME TypeOK, NEW e \in Execution, ~EmptyWindow(e)
  PROVE  /\ WindowStart(through) \in Nat
         /\ WindowEnd(through, TargetEnd(e)) \in Nat
  BY TimingAssumption, ExecutionAssumption
  DEF TypeOK, EmptyWindow, WindowStart, WindowEnd, TargetEnd, Larger, Smaller, Base,
      Watermark

(* Calls that write the lease row.                                         *)
LEMMA LeaseCallTypeInv ==
  ASSUME TypeInv, NEW e \in Execution,
         \/ Acquire(e) \/ AcquireFails(e) \/ ReleaseNoop(e) \/ RenewLease(e)
         \/ RenewLeaseFails(e) \/ ReleaseLease(e)
  PROVE  TypeInv'
<1> USE TimingAssumption, ExecutionAssumption, ConflictingTyped
    DEF TypeInv, TypeOK, TxTyped, row, client, history, Phase, Outcome, Goto, End, Fault,
        NoFault, TakeLease, ExtendLease
<1>1. CASE Acquire(e)
  <2>1. CASE UNCHANGED plan BY <1>1, <2>1 DEF Acquire
  <2>2. CASE /\ ~EmptyWindow(e)
             /\ Goto(e, "begin")
             /\ plan' = [plan EXCEPT ![e] =
                  [from |-> through, start |-> WindowStart(through),
                   to |-> WindowEnd(through, TargetEnd(e))]]
    BY <1>1, <2>2, WindowTyped DEF Acquire
  <2> QED BY <1>1, <2>1, <2>2 DEF Acquire
<1>2. CASE AcquireFails(e) BY <1>2 DEF AcquireFails
<1>3. CASE ReleaseNoop(e) BY <1>3 DEF ReleaseNoop
<1>4. CASE RenewLease(e) BY <1>4 DEF RenewLease
<1>5. CASE RenewLeaseFails(e) BY <1>5 DEF RenewLeaseFails
<1>6. CASE ReleaseLease(e) BY <1>6 DEF ReleaseLease
<1> QED BY <1>1, <1>2, <1>3, <1>4, <1>5, <1>6

(* Calls that write the run row, and the submission of the publish script. *)
LEMMA RunCallTypeInv ==
  ASSUME TypeInv, NEW e \in Execution,
         BeginRun(e) \/ BeginRunFails(e) \/ MarkFailed(e) \/ SubmitPublish(e)
  PROVE  TypeInv'
<1> USE TimingAssumption, ExecutionAssumption, ConflictingTyped, RunOfTyped
    DEF TypeInv, TxTyped, row, client, history, Phase, Outcome, Goto, End, Fault, NoFault
<1>1. CASE BeginRun(e)
  BY <1>1, WithRunTyped DEF BeginRun, InsertRun, TypeOK
<1>2. CASE BeginRunFails(e)
  BY <1>2, WithRunTyped DEF BeginRunFails, InsertRun, TypeOK
<1>3. CASE MarkFailed(e)
  BY <1>3, WithRunTyped DEF MarkFailed, TypeOK
<1>4. CASE SubmitPublish(e)
  <2>1. [phase |-> "sent", run |-> RunOf(e), start |-> plan[e].start, opened |-> 0]
          \in TxState
    BY DEF TxState, TxPhase, TypeOK
  <2> QED BY <1>4, <2>1, CurrentTyped DEF SubmitPublish, TypeOK
<1> QED BY <1>1, <1>2, <1>3, <1>4

(* The steps of the server.                                                *)
LEMMA ServerTypeInv ==
  ASSUME TypeInv, NEW a \in Attempt,
         TxBegin(a) \/ TxCommit(a) \/ TxGate(a) \/ TxFails(a)
  PROVE  TypeInv'
<1> USE TimingAssumption, ExecutionAssumption
    DEF TypeInv, TxTyped, row, client, history, Fault, NoFault
<1>0. Over("rejected") \in TxState /\ Over("rejected").phase = "rejected"
  BY DEF Over, TxState, TxPhase
<1>1. CASE TxBegin(a)
  <2>1. Opened(a).run = tx[a].run /\ tx[a].run \in RunId
    BY <1>1 DEF TxBegin, Opened
  <2>2. Opened(a) \in TxState
    BY <2>1 DEF TxState, TxPhase, TypeOK, Opened
  <2> QED BY <1>0, <1>1, <2>1, <2>2 DEF TxBegin, TypeOK
<1>2. CASE TxCommit(a)
  <2>1. tx[a].run \in RunId BY <1>2 DEF TxCommit
  <2>2. tx[a].run.to \in Nat BY <2>1 DEF RunId
  <2>3. EventsRead(a) \subseteq Nat
    BY <2>2 DEF EventsRead, TypeOK
  <2> QED BY <1>2, <2>1, <2>2, <2>3, FinishTyped, WithRunTyped DEF TxCommit, TypeOK,
       Watermark
<1>3. CASE TxGate(a)
  <2>1. tx[a].run \in RunId BY <1>3 DEF TxGate
  <2> QED BY <1>3, <2>1, FinishTyped, WithRunTyped DEF TxGate, TypeOK
<1>4. CASE TxFails(a)
  BY <1>0, <1>4 DEF TxFails, TypeOK
<1> QED BY <1>1, <1>2, <1>3, <1>4

LEMMA NextTypeInv ==
  ASSUME TypeInv, [Next]_vars
  PROVE  TypeInv'
<1>1. CASE UNCHANGED vars
  BY <1>1 DEF vars, row, client, history, TypeInv, TypeOK, TxTyped
<1>2. CASE Tick
  BY <1>2, TimingAssumption DEF Tick, TypeInv, TypeOK, TxTyped, row, client, history
<1>3. ASSUME NEW e \in Execution, Launch(e) \/ Retry(e) \/ Crash(e)
      PROVE  TypeInv'
  BY <1>3, EnvironmentTypeInv
<1>4. ASSUME NEW e \in Execution, ClientStep(e) \/ ClientFault(e), ~Crash(e)
      PROVE  TypeInv'
  BY <1>4, LocalTypeInv, LeaseCallTypeInv, RunCallTypeInv DEF ClientStep, ClientFault
<1>5. ASSUME NEW a \in Attempt, ServerStep(a) \/ TxGate(a) \/ TxFails(a)
      PROVE  TypeInv'
  BY <1>5, ServerTypeInv DEF ServerStep
<1> QED BY <1>1, <1>2, <1>3, <1>4, <1>5 DEF Next

(* Every reachable state is well typed.                                    *)
THEOREM TypeCorrect == Spec => []TypeOK
<1>1. Spec => []TypeInv
  BY InitTypeInv, NextTypeInv, PTL DEF Spec
<1>2. TypeInv => TypeOK
  BY DEF TypeInv
<1> QED BY <1>1, <1>2, PTL

----------------------------------------------------------------------------
(***************************************************************************)
(* The feed: no event is lost to a late arrival.  NoLateEventLost alone is *)
(* not inductive: it needs to know that every window still being prepared, *)
(* submitted or open starts at the overlap of the watermark it expects,    *)
(* ends at least Delay before the clock, and, once open, expects the       *)
(* watermark that is still there.                                          *)
(***************************************************************************)

Preparing == {"begin", "project", "renew", "publish"}

(* A planned window is the one window() computes, and lies in the past.    *)
PlanInv ==
  \A e \in Execution :
    /\ frozen[e] <= now
    /\ pc[e] \in Preparing =>
         /\ plan[e].start = WindowStart(plan[e].from)
         /\ plan[e].to + Delay <= now

TxInv ==
  \A a \in Attempt :
    /\ tx[a].phase \in {"sent", "open"} =>
         /\ tx[a].start = WindowStart(tx[a].run.from)
         /\ tx[a].run.to + Delay <= now
    /\ tx[a].phase = "open" =>
         /\ tx[a].run.from = through
         /\ through # None => through < tx[a].run.to
         /\ tx[a].run.to + Delay <= tx[a].opened

WatermarkInPast == through # None => through + Delay <= now

FeedInv == TypeInv /\ PlanInv /\ TxInv /\ WatermarkInPast /\ NoLateEventLost

LEMMA InitFeedInv == Init => FeedInv
<1> SUFFICES ASSUME Init PROVE FeedInv
  OBVIOUS
<1>1. TypeInv BY InitTypeInv
<1>2. PlanInv
  <2>1. /\ now = 0
        /\ frozen = [e \in Execution |-> 0]
        /\ pc = [e \in Execution |-> "idle"]
    BY DEF Init
  <2>2. ASSUME NEW e \in Execution PROVE frozen[e] <= now
    <3>1. frozen[e] = 0
      BY <2>1
    <3> QED BY <2>1, <3>1
  <2>3. \A e \in Execution : pc[e] \notin Preparing
    BY <2>1 DEF Preparing
  <2> QED BY <2>2, <2>3 DEF PlanInv
<1>3. TxInv BY DEF Init, TxInv, Over
<1>4. WatermarkInPast /\ NoLateEventLost BY DEF Init, WatermarkInPast, NoLateEventLost
<1> QED BY <1>1, <1>2, <1>3, <1>4 DEF FeedInv

(* Aborting open transactions, and finishing one, keeps what is known of   *)
(* the others.                                                             *)
LEMMA ConflictingFeed ==
  ASSUME FeedInv, tx' = Conflicting(tx), now' = now
  PROVE  TxInv'
  BY DEF FeedInv, TxInv, Conflicting, Over, TypeInv, TypeOK, WindowStart, Base, Larger

LEMMA FinishFeed ==
  ASSUME FeedInv, NEW a \in Attempt, NEW phase \in {"committed", "gated"},
         tx' = Finish(a, phase), now' = now
  PROVE  TxInv'
<1>1. \A b \in Attempt : tx'[b].phase \in {"sent", "open"} =>
        tx'[b] = tx[b] /\ tx[b].phase = "sent"
  BY DEF Finish, Conflicting, Over
<1> QED BY <1>1 DEF FeedInv, TxInv, WindowStart, Base, Larger

(* Steps that leave the clock, the watermark and the events alone.         *)
LEMMA QuietFeed ==
  ASSUME FeedInv, UNCHANGED <<now, through, ingested>>
  PROVE  WatermarkInPast' /\ NoLateEventLost'
  BY DEF FeedInv, WatermarkInPast, NoLateEventLost

(* A window planned now ends Delay before the frozen time at the latest.   *)
LEMMA PlannedWindow ==
  ASSUME FeedInv, NEW e \in Execution
  PROVE  WindowEnd(through, TargetEnd(e)) + Delay <= now
<1>1. WindowEnd(through, TargetEnd(e)) <= TargetEnd(e)
  BY TimingAssumption, ExecutionAssumption
  DEF WindowEnd, Smaller, WindowStart, Larger, Base, TargetEnd, FeedInv, TypeInv, TypeOK,
      Watermark
<1>2. WindowEnd(through, TargetEnd(e)) \in Int
  BY TimingAssumption, ExecutionAssumption
  DEF WindowEnd, Smaller, WindowStart, Larger, Base, TargetEnd, FeedInv, TypeInv, TypeOK,
      Watermark
<1> QED BY <1>1, <1>2, TimingAssumption DEF TargetEnd, FeedInv, PlanInv, TypeInv, TypeOK

LEMMA LocalFeed ==
  ASSUME FeedInv, NEW e \in Execution,
         \/ AcquireLocked(e) \/ ReleaseNoopFails(e) \/ Project(e) \/ ProjectFails(e)
         \/ SubmitPublishFails(e) \/ PublishReply(e) \/ TransportError(e)
         \/ ReadReceipt(e) \/ ReceiptUnreadable(e) \/ MarkFailedFails(e)
         \/ ReleaseLeaseFails(e) \/ Launch(e) \/ Retry(e) \/ Crash(e)
  PROVE  PlanInv' /\ TxInv'
<1>1. UNCHANGED <<now, row, tx>>
  BY DEF AcquireLocked, ReleaseNoopFails, Project, ProjectFails, SubmitPublishFails,
      PublishReply, TransportError, ReadReceipt, ReceiptUnreadable, MarkFailedFails,
      ReleaseLeaseFails, Launch, Retry, Crash
<1>2. TxInv'
  BY <1>1 DEF FeedInv, TxInv, row, WindowStart, Base, Larger
<1>3. /\ \A f \in Execution : frozen'[f] <= now
      /\ \A f \in Execution : pc'[f] \in Preparing =>
           pc[f] \in Preparing /\ plan'[f] = plan[f]
  <2>1. pc \in [Execution -> Phase] /\ frozen \in [Execution -> Nat] /\ now \in Nat
    BY TimingAssumption DEF FeedInv, TypeInv, TypeOK
  <2>2. \A f \in Execution : frozen[f] <= now
    BY DEF FeedInv, PlanInv
  <2>3. CASE Launch(e) BY <2>1, <2>2, <2>3 DEF Launch, Goto, Preparing
  <2>4. CASE Retry(e)
    <3>1. \A f \in Execution : frozen'[f] <= now
      BY <2>1, <2>2, <2>4 DEF Retry, FeedInv, TypeInv, TypeOK
    <3>2. \A f \in Execution : pc'[f] \in Preparing =>
            pc[f] \in Preparing /\ plan'[f] = plan[f]
      BY <2>1, <2>4 DEF Retry, Goto, Preparing, FeedInv, TypeInv, TypeOK
    <3> QED BY <3>1, <3>2
  <2>5. CASE UNCHANGED <<frozen, plan>> /\ \E p \in Phase : Goto(e, p) /\
             (p \in Preparing => pc[e] \in Preparing)
    BY <2>1, <2>2, <2>5 DEF Goto, Preparing
  <2>6. CASE AcquireLocked(e) BY <2>5, <2>6 DEF AcquireLocked, End, Phase, Preparing
  <2>7. CASE ReleaseNoopFails(e) BY <2>5, <2>7 DEF ReleaseNoopFails, Phase, Preparing
  <2>8. CASE Project(e) \/ ProjectFails(e)
    BY <2>5, <2>8 DEF Project, ProjectFails, Phase, Preparing
  <2>9. CASE SubmitPublishFails(e) BY <2>5, <2>9 DEF SubmitPublishFails, Phase, Preparing
  <2>10. CASE PublishReply(e)
    BY <2>5, <2>10 DEF PublishReply, Published, End, Phase, Preparing
  <2>11. CASE TransportError(e) BY <2>5, <2>11 DEF TransportError, Phase, Preparing
  <2>12. CASE ReadReceipt(e)
    BY <2>5, <2>12 DEF ReadReceipt, Published, End, Phase, Preparing
  <2>13. CASE ReceiptUnreadable(e)
    BY <2>5, <2>13 DEF ReceiptUnreadable, End, Phase, Preparing
  <2>14. CASE MarkFailedFails(e) BY <2>5, <2>14 DEF MarkFailedFails, Phase, Preparing
  <2>15. CASE ReleaseLeaseFails(e)
    BY <2>5, <2>15 DEF ReleaseLeaseFails, End, Phase, Preparing
  <2>16. CASE Crash(e) BY <2>5, <2>16 DEF Crash, End, Phase, Preparing
  <2> QED BY <2>3, <2>4, <2>6, <2>7, <2>8, <2>9, <2>10, <2>11, <2>12, <2>13, <2>14, <2>15, <2>16
<1> QED BY <1>1, <1>2, <1>3 DEF PlanInv, FeedInv, WindowStart, Base, Larger

LEMMA LeaseCallFeed ==
  ASSUME FeedInv, NEW e \in Execution,
         \/ Acquire(e) \/ AcquireFails(e) \/ ReleaseNoop(e) \/ RenewLease(e)
         \/ RenewLeaseFails(e) \/ ReleaseLease(e)
  PROVE  PlanInv' /\ TxInv'
<1>1. UNCHANGED <<now, through, frozen>>
  BY DEF Acquire, AcquireFails, ReleaseNoop, RenewLease, RenewLeaseFails, ReleaseLease,
      TakeLease, ExtendLease, row
<1>2. tx' = tx \/ tx' = Conflicting(tx)
  BY DEF Acquire, AcquireFails, ReleaseNoop, RenewLease, RenewLeaseFails, ReleaseLease,
      TakeLease, ExtendLease
<1>3. TxInv'
  BY <1>1, <1>2, ConflictingFeed DEF FeedInv, TxInv, WindowStart, Base, Larger
<1>4. \A f \in Execution : pc'[f] \in Preparing =>
        /\ plan'[f].start = WindowStart(plan'[f].from)
        /\ plan'[f].to + Delay <= now
  <2>0. pc \in [Execution -> Phase]
    BY DEF FeedInv, TypeInv, TypeOK
  <2>1. CASE UNCHANGED plan /\ \E p \in Phase : Goto(e, p) /\
             (p \in Preparing => pc[e] \in Preparing)
    <3>1. \A f \in Execution : pc'[f] \in Preparing => pc[f] \in Preparing
      BY <2>0, <2>1 DEF Goto, Preparing
    <3> QED BY <2>1, <3>1 DEF FeedInv, PlanInv
  <2>2. CASE Acquire(e)
    <3>1. CASE UNCHANGED plan /\ \E p \in {"noop", "release"} : Goto(e, p)
      BY <2>1, <3>1 DEF Preparing, Phase
    <3>2. CASE plan' = [plan EXCEPT ![e] =
                 [from |-> through, start |-> WindowStart(through),
                  to |-> WindowEnd(through, TargetEnd(e))]]
      <4>1. \A f \in Execution : f # e => pc'[f] = pc[f] /\ plan'[f] = plan[f]
        BY <2>0, <2>2, <3>2 DEF Acquire, Goto, FeedInv, TypeInv, TypeOK
      <4>2. plan'[e] = [from |-> through, start |-> WindowStart(through),
                        to |-> WindowEnd(through, TargetEnd(e))]
        BY <3>2 DEF FeedInv, TypeInv, TypeOK
      <4>3. \A f \in Execution : f # e /\ pc[f] \in Preparing =>
              /\ plan[f].start = WindowStart(plan[f].from)
              /\ plan[f].to + Delay <= now
        BY DEF FeedInv, PlanInv
      <4>4. /\ plan'[e].start = WindowStart(plan'[e].from)
            /\ plan'[e].to + Delay <= now
        BY <4>2, PlannedWindow
      <4>5. ASSUME NEW f \in Execution, pc'[f] \in Preparing
            PROVE  /\ plan'[f].start = WindowStart(plan'[f].from)
                   /\ plan'[f].to + Delay <= now
        <5>1. CASE f = e BY <4>4, <5>1
        <5>2. CASE f # e
          <6>1. plan'[f] = plan[f] /\ pc[f] \in Preparing
            BY <4>1, <4>5, <5>2
          <6> QED BY <4>3, <5>2, <6>1
        <5> QED BY <5>1, <5>2
      <4> QED BY <4>5
    <3> QED BY <2>2, <3>1, <3>2 DEF Acquire
  <2>3. CASE AcquireFails(e) BY <2>1, <2>3 DEF AcquireFails, End, Phase, Preparing
  <2>4. CASE ReleaseNoop(e) BY <2>1, <2>4 DEF ReleaseNoop, End, Phase, Preparing
  <2>5. CASE RenewLease(e) BY <2>1, <2>5 DEF RenewLease, Phase, Preparing
  <2>6. CASE RenewLeaseFails(e) BY <2>1, <2>6 DEF RenewLeaseFails, Phase, Preparing
  <2>7. CASE ReleaseLease(e) BY <2>1, <2>7 DEF ReleaseLease, End, Phase, Preparing
  <2> QED BY <2>2, <2>3, <2>4, <2>5, <2>6, <2>7
<1> QED BY <1>1, <1>3, <1>4 DEF PlanInv, FeedInv, WindowStart, Base, Larger

LEMMA RunCallFeed ==
  ASSUME FeedInv, NEW e \in Execution,
         BeginRun(e) \/ BeginRunFails(e) \/ MarkFailed(e) \/ SubmitPublish(e)
  PROVE  PlanInv' /\ TxInv'
<1>1. UNCHANGED <<now, through, frozen, plan>>
  BY DEF BeginRun, BeginRunFails, MarkFailed, SubmitPublish, row
<1>2. \A f \in Execution : pc'[f] \in Preparing => pc[f] \in Preparing
  <2>1. \E p \in Phase : Goto(e, p) /\ (p \in Preparing => pc[e] \in Preparing)
    BY DEF BeginRun, BeginRunFails, MarkFailed, SubmitPublish, Phase, Preparing
  <2> QED BY <2>1 DEF Goto, Preparing, FeedInv, TypeInv, TypeOK
<1>3. PlanInv'
  <2>1. \A f \in Execution : pc'[f] \in Preparing =>
          /\ plan[f].start = WindowStart(plan[f].from)
          /\ plan[f].to + Delay <= now
    BY <1>2 DEF FeedInv, PlanInv
  <2>2. \A f \in Execution : frozen[f] <= now
    BY DEF FeedInv, PlanInv
  <2> QED BY <1>1, <2>1, <2>2 DEF PlanInv, WindowStart, Base, Larger
<1>4. CASE tx' = tx \/ tx' = Conflicting(tx)
  BY <1>1, <1>3, <1>4, ConflictingFeed DEF FeedInv, TxInv, WindowStart, Base, Larger
<1>5. CASE SubmitPublish(e)
  <2>1. /\ plan[e].start = WindowStart(plan[e].from)
        /\ plan[e].to + Delay <= now
    BY <1>5 DEF SubmitPublish, FeedInv, PlanInv, Preparing
  <2>2. \A a \in Attempt : tx'[a] = tx[a] \/
          /\ tx'[a].phase = "sent"
          /\ tx'[a].start = plan[e].start
          /\ tx'[a].run = RunOf(e)
    BY <1>5 DEF SubmitPublish, FeedInv, TypeInv, TypeOK
  <2>3. RunOf(e).from = plan[e].from /\ RunOf(e).to = plan[e].to
    BY DEF RunOf
  <2>4. ASSUME NEW a \in Attempt, tx'[a].phase = "sent", tx'[a].run = RunOf(e),
               tx'[a].start = plan[e].start
        PROVE  /\ tx'[a].start = WindowStart(tx'[a].run.from)
               /\ tx'[a].run.to + Delay <= now
    BY <2>1, <2>3, <2>4
  <2>5. TxInv'
    BY <1>1, <2>2, <2>4 DEF FeedInv, TxInv, WindowStart, Base, Larger
  <2> QED BY <1>3, <2>5
<1> QED BY <1>4, <1>5 DEF BeginRun, BeginRunFails, MarkFailed, InsertRun

(* A transaction opens on the watermark it expects, after its window ended.*)
LEMMA BeginFeed ==
  ASSUME FeedInv, NEW a \in Attempt, TxBegin(a) \/ TxGate(a) \/ TxFails(a)
  PROVE  PlanInv' /\ TxInv'
<1>1. UNCHANGED <<now, through, frozen, plan, pc>>
  BY DEF TxBegin, TxGate, TxFails, row, client
<1>2. PlanInv'
  BY <1>1 DEF FeedInv, PlanInv, WindowStart, Base, Larger
<1>3. CASE TxBegin(a)
  <2>1. \A b \in Attempt : b # a => tx'[b] = tx[b]
    BY <1>3 DEF TxBegin, FeedInv, TypeInv, TypeOK
  <2>2. CASE ~PublishAsserts(a)
    <3>1. tx'[a].phase = "rejected"
      BY <1>3, <2>2 DEF TxBegin, Over, FeedInv, TypeInv, TypeOK
    <3> QED BY <1>1, <1>2, <2>1, <3>1 DEF FeedInv, TxInv, WindowStart, Base, Larger
  <2>3. CASE PublishAsserts(a)
    <3>1. /\ tx'[a].phase = "open" /\ tx'[a].run = tx[a].run
          /\ tx'[a].start = tx[a].start /\ tx'[a].opened = now
      BY <1>3, <2>3 DEF TxBegin, Opened, FeedInv, TypeInv, TypeOK
    <3>2. /\ tx[a].start = WindowStart(tx[a].run.from)
          /\ tx[a].run.to + Delay <= now
      BY <1>3 DEF TxBegin, FeedInv, TxInv
    <3>3. tx[a].run.from = through /\ (through # None => through < tx[a].run.to)
      BY <2>3 DEF PublishAsserts
    <3> QED BY <1>1, <1>2, <2>1, <3>1, <3>2, <3>3
            DEF FeedInv, TxInv, WindowStart, Base, Larger
  <2> QED BY <2>2, <2>3
<1>4. CASE TxGate(a)
  BY <1>1, <1>2, <1>4, FinishFeed DEF TxGate
<1>5. CASE TxFails(a)
  <2>1. /\ \A b \in Attempt : b # a => tx'[b] = tx[b]
        /\ tx'[a].phase = "rejected"
    BY <1>5 DEF TxFails, Over, FeedInv, TypeInv, TypeOK
  <2> QED BY <1>1, <1>2, <2>1 DEF FeedInv, TxInv, WindowStart, Base, Larger
<1> QED BY <1>3, <1>4, <1>5

(* The heart of the argument.  An event behind the new watermark minus the *)
(* overlap is either before the published window, and then it was behind   *)
(* the old watermark minus the overlap already, or inside it, and then it  *)
(* cannot have reached the warehouse after the snapshot: it would be later *)
(* than Overlap + Delay.                                                   *)
LEMMA CommitFeed ==
  ASSUME FeedInv, NEW a \in Attempt, TxCommit(a)
  PROVE  PlanInv' /\ TxInv' /\ WatermarkInPast' /\ NoLateEventLost'
<1>0. /\ tx[a].run \in RunId /\ tx[a].run.to \in Nat
      /\ tx[a].opened \in Nat /\ tx[a].start \in Nat /\ now \in Nat
      /\ through \in Nat \cup {None}
  <2>1. tx[a].run \in RunId
    BY DEF TxCommit, FeedInv, TypeInv, TxTyped
  <2>2. tx[a] \in TxState
    BY DEF FeedInv, TypeInv, TypeOK
  <2> QED BY <2>1, <2>2, TimingAssumption DEF FeedInv, TypeInv, TypeOK, RunId, TxState,
       Watermark
<1>1. /\ now' = now /\ through' = tx[a].run.to /\ tx' = Finish(a, "committed")
      /\ ingested' = ingested \cup EventsRead(a)
      /\ UNCHANGED <<frozen, plan, pc>>
  BY DEF TxCommit, client
<1>2. PlanInv'
  BY <1>1 DEF FeedInv, PlanInv, WindowStart, Base, Larger
<1>3. TxInv'
  BY <1>1, FinishFeed
<1>4. /\ tx[a].start = WindowStart(through)
      /\ tx[a].run.to + Delay <= tx[a].opened
      /\ tx[a].run.to + Delay <= now
      /\ through # None => through < tx[a].run.to
  BY DEF TxCommit, FeedInv, TxInv
<1>5. WatermarkInPast'
  BY <1>1, <1>4 DEF WatermarkInPast
<1>6. ASSUME NEW t \in Start..MaxTime,
             t + Lateness[t] <= now, t < tx[a].run.to - Overlap
      PROVE  t \in ingested'
  <2>0. t \in Nat /\ Lateness[t] \in 0..(Overlap + Delay) /\ Start <= t /\ t \in 0..MaxTime
    BY TimingAssumption, LatenessAssumption
  <2>1. CASE t < tx[a].start
    <3>1. through # None /\ t < through - Overlap
      BY <1>0, <1>4, <2>0, <2>1, TimingAssumption, ExecutionAssumption
      DEF WindowStart, Base, Larger
    <3> QED BY <1>1, <1>6, <3>1 DEF FeedInv, NoLateEventLost
  <2>2. CASE tx[a].start <= t
    <3>1. t \in tx[a].start..(tx[a].run.to - 1)
      BY <1>0, <1>6, <2>0, <2>2, TimingAssumption
    <3>2. t + Lateness[t] <= tx[a].opened
      BY <1>0, <1>4, <1>6, <2>0, TimingAssumption
    <3> QED BY <1>1, <2>0, <3>1, <3>2 DEF EventsRead
  <2> QED BY <1>0, <2>0, <2>1, <2>2
<1>7. NoLateEventLost'
  BY <1>1, <1>6 DEF NoLateEventLost
<1> QED BY <1>2, <1>3, <1>5, <1>7

(* When the clock advances, no event behind the watermark minus the overlap*)
(* can reach the warehouse for the first time.                             *)
LEMMA TickFeed ==
  ASSUME FeedInv, Tick
  PROVE  PlanInv' /\ TxInv' /\ WatermarkInPast' /\ NoLateEventLost'
<1>0. /\ now \in Nat /\ now' = now + 1 /\ through \in Nat \cup {None}
      /\ UNCHANGED <<through, frozen, plan, pc, tx, ingested>>
      /\ \A e \in Execution : frozen[e] \in Nat /\ plan[e].to \in Nat
  BY TimingAssumption
  DEF Tick, row, client, history, FeedInv, TypeInv, TypeOK, Watermark
<1>1. PlanInv'
  <2>1. \A e \in Execution : frozen[e] <= now + 1
    BY <1>0 DEF FeedInv, PlanInv
  <2>2. \A e \in Execution : pc[e] \in Preparing =>
          /\ plan[e].start = WindowStart(plan[e].from)
          /\ plan[e].to + Delay <= now + 1
    BY <1>0, TimingAssumption DEF FeedInv, PlanInv
  <2> QED BY <1>0, <2>1, <2>2 DEF PlanInv, WindowStart, Base, Larger
<1>2. TxInv'
  <2>1. \A a \in Attempt : tx[a].phase \in {"sent", "open"} => tx[a].run.to \in Nat
    BY DEF FeedInv, TypeInv, TxTyped, RunId
  <2>2. \A a \in Attempt : tx[a].phase \in {"sent", "open"} =>
          /\ tx[a].start = WindowStart(tx[a].run.from)
          /\ tx[a].run.to + Delay <= now + 1
    BY <1>0, <2>1, TimingAssumption DEF FeedInv, TxInv
  <2> QED BY <1>0, <2>2 DEF FeedInv, TxInv, WindowStart, Base, Larger
<1>3. WatermarkInPast'
  BY <1>0, TimingAssumption, ExecutionAssumption DEF FeedInv, WatermarkInPast
<1>4. ASSUME NEW t \in Start..MaxTime, t + Lateness[t] <= now + 1,
             through # None, t < through - Overlap
      PROVE  t \in ingested
  <2>1. t \in Nat /\ Lateness[t] \in 0..(Overlap + Delay)
    BY TimingAssumption, LatenessAssumption
  <2>2. through + Delay <= now
    BY <1>4 DEF FeedInv, WatermarkInPast
  <2>3. t + Lateness[t] <= now
    BY <1>0, <1>4, <2>1, <2>2, TimingAssumption
  <2> QED BY <1>4, <2>3 DEF FeedInv, NoLateEventLost
<1>5. NoLateEventLost'
  BY <1>0, <1>4 DEF NoLateEventLost
<1> QED BY <1>1, <1>2, <1>3, <1>5

LEMMA NextFeedInv ==
  ASSUME FeedInv, [Next]_vars
  PROVE  FeedInv'
<1>0. TypeInv'
  BY NextTypeInv DEF FeedInv
<1>1. CASE UNCHANGED vars
  BY <1>0, <1>1, QuietFeed
  DEF FeedInv, PlanInv, TxInv, vars, row, client, history, WindowStart, Base, Larger
<1>2. CASE Tick
  BY <1>0, <1>2, TickFeed DEF FeedInv
<1>3. ASSUME NEW e \in Execution,
             Launch(e) \/ Retry(e) \/ ClientStep(e) \/ ClientFault(e)
      PROVE  FeedInv'
  <2>1. UNCHANGED <<now, through, ingested>>
    BY <1>3 DEF Launch, Retry, ClientStep, ClientFault, Acquire, AcquireLocked, ReleaseNoop,
        BeginRun, Project, RenewLease, SubmitPublish, PublishReply, ReadReceipt, MarkFailed,
        ReleaseLease, Crash, AcquireFails, ReleaseNoopFails, BeginRunFails, ProjectFails,
        RenewLeaseFails, SubmitPublishFails, TransportError, ReceiptUnreadable,
        MarkFailedFails, ReleaseLeaseFails, TakeLease, ExtendLease, row, history
  <2>2. PlanInv' /\ TxInv'
    BY <1>3, LocalFeed, LeaseCallFeed, RunCallFeed DEF ClientStep, ClientFault
  <2> QED BY <1>0, <2>1, <2>2, QuietFeed DEF FeedInv
<1>4. ASSUME NEW a \in Attempt, ServerStep(a) \/ TxGate(a) \/ TxFails(a)
      PROVE  FeedInv'
  <2>1. CASE TxCommit(a)
    BY <1>0, <2>1, CommitFeed DEF FeedInv
  <2>2. CASE TxBegin(a) \/ TxGate(a) \/ TxFails(a)
    <3>1. UNCHANGED <<now, through, ingested>>
      BY <2>2 DEF TxBegin, TxGate, TxFails, row, history
    <3> QED BY <1>0, <2>2, <3>1, BeginFeed, QuietFeed DEF FeedInv
  <2> QED BY <1>4, <2>1, <2>2 DEF ServerStep
<1> QED BY <1>1, <1>2, <1>3, <1>4 DEF Next

(* No event is lost to a late arrival, for every policy, every interleaving*)
(* of executions, retries and transactions, and every fault.               *)
THEOREM FeedIsLossless == Spec => []NoLateEventLost
<1>1. Spec => []FeedInv
  BY InitFeedInv, NextFeedInv, PTL DEF Spec
<1>2. FeedInv => NoLateEventLost
  BY DEF FeedInv
<1> QED BY <1>1, <1>2, PTL

----------------------------------------------------------------------------
(***************************************************************************)
(* The chain: the pipeline implements Publication.  A step of a client     *)
(* stutters; a commit publishes a run that was not published before,       *)
(* because everything published ends at or before the watermark.           *)
(***************************************************************************)

PublishedBehind == \A r \in published : through # None /\ r.to <= through

ChainInv == FeedInv /\ PublishedBehind

(* What a commit does to the row, in the words of Publication.             *)
LEMMA CommitPublishes ==
  ASSUME ChainInv, NEW a \in Attempt, TxCommit(a)
  PROVE  /\ tx[a].run \in RunId
         /\ tx[a].run \in published' \ published
         /\ Chain!Publish(tx[a].run)
<1>1. tx[a].run \in RunId
  BY DEF TxCommit, ChainInv, FeedInv, TypeInv, TxTyped
<1>2. /\ tx[a].run.from = through
      /\ through # None => through < tx[a].run.to
  BY DEF TxCommit, ChainInv, FeedInv, TxInv
<1>3. tx[a].run.to \in Nat /\ through \in Nat \cup {None}
  BY <1>1 DEF RunId, ChainInv, FeedInv, TypeInv, TypeOK, Watermark
<1>4. tx[a].run \notin published
  BY <1>2, <1>3 DEF ChainInv, PublishedBehind
<1>5. /\ through' = tx[a].run.to /\ head' = tx[a].run
      /\ published' = published \cup {tx[a].run}
  BY DEF TxCommit
<1> QED BY <1>1, <1>2, <1>4, <1>5 DEF Chain!Publish

(* Everything but a commit leaves the published row and its history alone. *)
LEMMA OthersStutter ==
  ASSUME [Next]_vars, \A a \in Attempt : ~TxCommit(a)
  PROVE  UNCHANGED <<through, head, published>>
<1>1. CASE UNCHANGED vars BY <1>1 DEF vars, row, history
<1>2. CASE Tick BY <1>2 DEF Tick, row, history
<1>3. ASSUME NEW e \in Execution,
             Launch(e) \/ Retry(e) \/ ClientStep(e) \/ ClientFault(e)
      PROVE  UNCHANGED <<through, head, published>>
  BY <1>3 DEF Launch, Retry, ClientStep, ClientFault, Acquire, AcquireLocked, ReleaseNoop,
      BeginRun, Project, RenewLease, SubmitPublish, PublishReply, ReadReceipt, MarkFailed,
      ReleaseLease, Crash, AcquireFails, ReleaseNoopFails, BeginRunFails, ProjectFails,
      RenewLeaseFails, SubmitPublishFails, TransportError, ReceiptUnreadable,
      MarkFailedFails, ReleaseLeaseFails, TakeLease, ExtendLease, row, history
<1>4. ASSUME NEW a \in Attempt, TxBegin(a) \/ TxGate(a) \/ TxFails(a)
      PROVE  UNCHANGED <<through, head, published>>
  BY <1>4 DEF TxBegin, TxGate, TxFails, row, history
<1> QED BY <1>1, <1>2, <1>3, <1>4 DEF Next, ServerStep

LEMMA NextChainInv ==
  ASSUME ChainInv, [Next]_vars
  PROVE  ChainInv' /\ [Chain!Next]_(Chain!pubVars)
<1>1. FeedInv'
  BY NextFeedInv DEF ChainInv
<1>2. CASE \E a \in Attempt : TxCommit(a)
  <2>1. PICK a \in Attempt : TxCommit(a)
    BY <1>2
  <2>2. /\ tx[a].run \in RunId
        /\ tx[a].run \in published' \ published
        /\ Chain!Publish(tx[a].run)
    BY <2>1, CommitPublishes
  <2>3. Chain!Next
    BY <2>2 DEF Chain!Next
  <2>4. PublishedBehind'
    <3>1. /\ through' = tx[a].run.to /\ published' = published \cup {tx[a].run}
          /\ tx[a].run.to \in Nat
          /\ through # None => through < tx[a].run.to
      BY <2>2 DEF Chain!Publish, RunId
    <3>2. \A r \in published : r.to \in Nat /\ through \in Nat \cup {None}
      BY DEF ChainInv, FeedInv, TypeInv, TypeOK, RunId, Watermark
    <3> QED BY <3>1, <3>2, ExecutionAssumption DEF ChainInv, PublishedBehind
  <2> QED BY <1>1, <2>3, <2>4 DEF ChainInv
<1>3. CASE \A a \in Attempt : ~TxCommit(a)
  BY <1>1, <1>3, OthersStutter DEF ChainInv, PublishedBehind, Chain!pubVars
<1> QED BY <1>2, <1>3

(* The published batches form one chain: each was prepared against the     *)
(* watermark it replaced, moved it forward and was published once.         *)
THEOREM PipelineRefinesPublication == Spec => PublishesInChain
<1>1. Init => ChainInv
  BY InitFeedInv DEF Init, ChainInv, PublishedBehind
<1>2. Init => Chain!Init
  BY DEF Init, Chain!Init
<1> QED BY <1>1, <1>2, NextChainInv, PTL DEF Spec, PublishesInChain, Chain!Spec

----------------------------------------------------------------------------
(***************************************************************************)
(* The lease: while an attempt prepares a window it holds the lease, or a  *)
(* publication has overtaken it.  The lease outlives the attempt because   *)
(* it is taken after the attempt began and lasts longer than the timeout.  *)
(***************************************************************************)

AttemptInTime == \A e \in Execution :
  /\ began[e] <= now
  /\ Running(e) => now <= began[e] + JobTimeout

LeaseOutlivesAttempt == \A e \in Execution :
  pc[e] \in Preparing =>
    /\ plan[e].from # None => through # None /\ plan[e].from <= through
    /\ \/ lease = e /\ began[e] + JobTimeout < expires
       \/ through # plan[e].from

LeaseInv == ChainInv /\ AttemptInTime /\ LeaseOutlivesAttempt

LEMMA LeaseInvIsEnough == LeaseInv => LeaseHeldThroughRun
  BY TimingAssumption
  DEF LeaseInv, AttemptInTime, LeaseOutlivesAttempt, LeaseHeldThroughRun, Preparing, Running,
      ChainInv, FeedInv, TypeInv, TypeOK

LEMMA TickLease ==
  ASSUME LeaseInv, Tick
  PROVE  AttemptInTime' /\ LeaseOutlivesAttempt'
<1>1. /\ now \in Nat /\ now' = now + 1 /\ began \in [Execution -> Nat]
      /\ UNCHANGED <<through, lease, expires, plan, pc, began>>
      /\ \A e \in Execution : Running(e) => now < began[e] + JobTimeout
  BY TimingAssumption DEF Tick, row, client, LeaseInv, ChainInv, FeedInv, TypeInv, TypeOK
<1>2. AttemptInTime'
  BY <1>1, TimingAssumption DEF LeaseInv, AttemptInTime, Running
<1>3. LeaseOutlivesAttempt'
  BY <1>1 DEF LeaseInv, LeaseOutlivesAttempt
<1> QED BY <1>2, <1>3

(* A client step of e that neither starts it nor moves its plan.           *)
LEMMA StepLease ==
  ASSUME LeaseInv, NEW e \in Execution, NEW p \in Phase,
         UNCHANGED <<now, through, began, plan>>, Goto(e, p),
         pc[e] # "idle", pc[e] # "ended",
         p \in Preparing => pc[e] \in Preparing,
         \/ UNCHANGED <<lease, expires>>
         \/ LeaseTakeable(e) /\ lease' = e /\ expires' = now + LeaseTTL
         \/ lease = e /\ lease' = None /\ p \notin Preparing
  PROVE  AttemptInTime' /\ LeaseOutlivesAttempt'
<1>1. /\ pc \in [Execution -> Phase] /\ began \in [Execution -> Nat] /\ now \in Nat
      /\ expires \in Nat
  BY TimingAssumption DEF LeaseInv, ChainInv, FeedInv, TypeInv, TypeOK
<1>2. \A f \in Execution : f # e => pc'[f] = pc[f]
  BY <1>1 DEF Goto
<1>3. pc'[e] = p
  BY <1>1 DEF Goto
<1>4. AttemptInTime'
  BY <1>1, <1>2, <1>3 DEF LeaseInv, AttemptInTime, Running
<1>5. \A f \in Execution : pc'[f] \in Preparing => pc[f] \in Preparing
  BY <1>2, <1>3
<1>6. ASSUME NEW f \in Execution, pc'[f] \in Preparing, through = plan[f].from
      PROVE  lease' = f /\ began[f] + JobTimeout < expires'
  <2>1. lease = f /\ began[f] + JobTimeout < expires
    BY <1>5, <1>6 DEF LeaseInv, LeaseOutlivesAttempt
  <2>2. CASE f = e
    <3>1. pc[e] \in Preparing /\ p \in Preparing
      BY <1>3, <1>5, <1>6, <2>2
    <3>2. began[e] <= now
      BY DEF LeaseInv, AttemptInTime
    <3> QED BY <1>1, <2>1, <2>2, <3>1, <3>2, TimingAssumption DEF RefreshPolicy
  <2>3. CASE f # e
    <3>1. now <= began[f] + JobTimeout
      BY <1>5, <1>6 DEF LeaseInv, AttemptInTime, Running, Preparing
    <3>2. lease # None /\ lease # e
      BY <2>1, <2>3, ExecutionAssumption
    <3>3. expires > now
      BY <1>1, <2>1, <3>1, TimingAssumption DEF RefreshPolicy
    <3> QED BY <1>1, <2>1, <3>2, <3>3 DEF LeaseTakeable
  <2> QED BY <2>2, <2>3
<1>7. \A f \in Execution : pc'[f] \in Preparing /\ plan[f].from # None =>
        through # None /\ plan[f].from <= through
  BY <1>5 DEF LeaseInv, LeaseOutlivesAttempt
<1>8. LeaseOutlivesAttempt'
  BY <1>6, <1>7 DEF LeaseOutlivesAttempt
<1> QED BY <1>4, <1>8

LEMMA ClientLease ==
  ASSUME LeaseInv, NEW e \in Execution, ClientStep(e) \/ ClientFault(e), pc'[e] # "begin"
  PROVE  AttemptInTime' /\ LeaseOutlivesAttempt'
<1>0. pc \in [Execution -> Phase] /\ pc[e] # "idle" /\ pc[e] # "ended"
  BY DEF ClientStep, ClientFault, Acquire, AcquireLocked, ReleaseNoop, BeginRun, Project,
      RenewLease, SubmitPublish, PublishReply, ReadReceipt, MarkFailed, ReleaseLease, Crash,
      AcquireFails, ReleaseNoopFails, BeginRunFails, ProjectFails, RenewLeaseFails,
      SubmitPublishFails, TransportError, ReceiptUnreadable, MarkFailedFails,
      ReleaseLeaseFails, LeaseInv, ChainInv, FeedInv, TypeInv, TypeOK, Running
<1> DEFINE Moves(p) ==
      /\ UNCHANGED <<now, through, began, plan>> /\ Goto(e, p)
      /\ p \in Preparing => pc[e] \in Preparing
      /\ \/ UNCHANGED <<lease, expires>>
         \/ LeaseTakeable(e) /\ lease' = e /\ expires' = now + LeaseTTL
         \/ lease = e /\ lease' = None /\ p \notin Preparing
<1>1. ASSUME NEW p \in Phase, Moves(p)
      PROVE  AttemptInTime' /\ LeaseOutlivesAttempt'
  BY <1>0, <1>1, StepLease
<1>2. \E p \in Phase : Moves(p)
  <2> USE DEF Phase, Preparing, row, End
  <2>1. CASE Acquire(e)
    <3>1. ~Goto(e, "begin")
      BY <1>0 DEF Goto
    <3> QED BY <2>1, <3>1 DEF Acquire, TakeLease
  <2>2. CASE AcquireLocked(e) \/ AcquireFails(e)
    BY <2>2 DEF AcquireLocked, AcquireFails, TakeLease
  <2>3. CASE ReleaseNoop(e) \/ ReleaseNoopFails(e)
    BY <2>3 DEF ReleaseNoop, ReleaseNoopFails, Releasable
  <2>4. CASE BeginRun(e) \/ BeginRunFails(e)
    BY <2>4 DEF BeginRun, BeginRunFails
  <2>5. CASE Project(e) \/ ProjectFails(e)
    BY <2>5 DEF Project, ProjectFails
  <2>6. CASE RenewLease(e) \/ RenewLeaseFails(e)
    BY <2>6 DEF RenewLease, RenewLeaseFails, ExtendLease, LeaseTakeable
  <2>7. CASE SubmitPublish(e) \/ SubmitPublishFails(e)
    BY <2>7 DEF SubmitPublish, SubmitPublishFails
  <2>8. CASE PublishReply(e) \/ TransportError(e)
    BY <2>8 DEF PublishReply, TransportError, Published
  <2>9. CASE ReadReceipt(e) \/ ReceiptUnreadable(e)
    BY <2>9 DEF ReadReceipt, ReceiptUnreadable, Published
  <2>10. CASE MarkFailed(e) \/ MarkFailedFails(e)
    BY <2>10 DEF MarkFailed, MarkFailedFails
  <2>11. CASE ReleaseLease(e) \/ ReleaseLeaseFails(e)
    BY <2>11 DEF ReleaseLease, ReleaseLeaseFails, Releasable
  <2>12. CASE Crash(e)
    BY <2>12 DEF Crash
  <2> QED BY <2>1, <2>2, <2>3, <2>4, <2>5, <2>6, <2>7, <2>8, <2>9, <2>10, <2>11, <2>12
          DEF ClientStep, ClientFault
<1> QED BY <1>1, <1>2

(* Acquiring the lease for a window establishes what preparing it keeps.   *)
LEMMA PlanLease ==
  ASSUME LeaseInv, NEW e \in Execution, ClientStep(e) \/ ClientFault(e), pc'[e] = "begin"
  PROVE  AttemptInTime' /\ LeaseOutlivesAttempt'
<1>0. /\ pc \in [Execution -> Phase] /\ began \in [Execution -> Nat] /\ now \in Nat
      /\ expires \in Nat /\ through \in Nat \cup {None}
      /\ plan \in [Execution -> [from : Watermark, start : Nat, to : Nat]]
  BY TimingAssumption DEF LeaseInv, ChainInv, FeedInv, TypeInv, TypeOK, Watermark
<1>1. Acquire(e) /\ Goto(e, "begin")
  BY <1>0 DEF ClientStep, ClientFault, Acquire, AcquireLocked, ReleaseNoop, BeginRun, Project,
      RenewLease, SubmitPublish, PublishReply, ReadReceipt, MarkFailed, ReleaseLease, Crash,
      AcquireFails, ReleaseNoopFails, BeginRunFails, ProjectFails, RenewLeaseFails,
      SubmitPublishFails, TransportError, ReceiptUnreadable, MarkFailedFails,
      ReleaseLeaseFails, Goto, End, Published
<1>2. /\ UNCHANGED <<now, began, through>>
      /\ LeaseTakeable(e) /\ lease' = e /\ expires' = now + LeaseTTL
      /\ plan' = [plan EXCEPT ![e] =
             [from |-> through, start |-> WindowStart(through),
              to |-> WindowEnd(through, TargetEnd(e))]]
  BY <1>0, <1>1 DEF Acquire, TakeLease, Goto
<1>3. \A f \in Execution : f # e => pc'[f] = pc[f] /\ plan'[f] = plan[f]
  BY <1>0, <1>1, <1>2 DEF Goto
<1>4. plan'[e].from = through
  BY <1>0, <1>2
<1>5. pc[e] = "acquire"
  BY <1>1 DEF Acquire
<1>6. AttemptInTime'
  BY <1>0, <1>2, <1>3, <1>5 DEF LeaseInv, AttemptInTime, Running
<1>7. ASSUME NEW f \in Execution, pc'[f] \in Preparing
      PROVE  /\ plan'[f].from # None => through # None /\ plan'[f].from <= through
             /\ \/ lease' = f /\ began[f] + JobTimeout < expires'
                \/ through # plan'[f].from
  <2>1. CASE f = e
    <3>1. began[e] <= now
      BY DEF LeaseInv, AttemptInTime
    <3> QED BY <1>0, <1>2, <1>4, <2>1, <3>1, TimingAssumption DEF RefreshPolicy
  <2>2. CASE f # e
    <3>1. pc[f] \in Preparing /\ plan'[f] = plan[f]
      BY <1>3, <1>7, <2>2
    <3>2. now <= began[f] + JobTimeout
      BY <3>1 DEF LeaseInv, AttemptInTime, Running, Preparing
    <3>3. /\ plan[f].from # None => through # None /\ plan[f].from <= through
          /\ \/ lease = f /\ began[f] + JobTimeout < expires
             \/ through # plan[f].from
      BY <3>1 DEF LeaseInv, LeaseOutlivesAttempt
    <3>4. ~(lease = f /\ began[f] + JobTimeout < expires)
      <4>1. SUFFICES ASSUME lease = f, began[f] + JobTimeout < expires PROVE FALSE
        OBVIOUS
      <4>2. expires > now
        BY <1>0, <3>2, <4>1, TimingAssumption DEF RefreshPolicy
      <4> QED BY <1>0, <1>2, <2>2, <4>1, <4>2, ExecutionAssumption DEF LeaseTakeable
    <3> QED BY <3>1, <3>3, <3>4
  <2> QED BY <2>1, <2>2
<1>8. LeaseOutlivesAttempt'
  BY <1>2, <1>7 DEF LeaseOutlivesAttempt
<1> QED BY <1>6, <1>8

(* A commit moves the watermark past every window planned against it.      *)
LEMMA CommitLease ==
  ASSUME LeaseInv, NEW a \in Attempt, TxCommit(a)
  PROVE  AttemptInTime' /\ LeaseOutlivesAttempt'
<1>1. /\ UNCHANGED <<now, began, pc, plan>> /\ through' = tx[a].run.to
  BY DEF TxCommit, client
<1>2. /\ through # None => through < tx[a].run.to
      /\ tx[a].run.to \in Nat /\ through \in Nat \cup {None}
  BY DEF TxCommit, LeaseInv, ChainInv, FeedInv, TxInv, TypeInv, TxTyped, TypeOK, RunId,
      Watermark
<1>3. \A e \in Execution : plan[e].from \in Nat \cup {None}
  BY DEF LeaseInv, ChainInv, FeedInv, TypeInv, TypeOK, Watermark
<1>4. ASSUME NEW e \in Execution, pc[e] \in Preparing
      PROVE  /\ plan[e].from # None => plan[e].from <= tx[a].run.to
             /\ tx[a].run.to # None /\ tx[a].run.to # plan[e].from
  BY <1>2, <1>3, <1>4, ExecutionAssumption DEF LeaseInv, LeaseOutlivesAttempt
<1>5. LeaseOutlivesAttempt'
  BY <1>1, <1>4 DEF LeaseOutlivesAttempt
<1> QED BY <1>1, <1>5 DEF LeaseInv, AttemptInTime, Running

LEMMA NextLeaseInv ==
  ASSUME LeaseInv, [Next]_vars
  PROVE  LeaseInv'
<1>0. ChainInv'
  BY NextChainInv DEF LeaseInv
<1>1. CASE UNCHANGED vars
  BY <1>0, <1>1 DEF vars, row, client, LeaseInv, AttemptInTime, LeaseOutlivesAttempt, Running
<1>2. CASE Tick
  BY <1>0, <1>2, TickLease DEF LeaseInv
<1>3. ASSUME NEW e \in Execution, Launch(e) \/ Retry(e)
      PROVE  LeaseInv'
  <2>0. /\ pc \in [Execution -> Phase] /\ began \in [Execution -> Nat] /\ now \in Nat
    BY TimingAssumption DEF LeaseInv, ChainInv, FeedInv, TypeInv, TypeOK
  <2>1. /\ pc' = [pc EXCEPT ![e] = "acquire"] /\ began' = [began EXCEPT ![e] = now]
        /\ UNCHANGED <<now, through, lease, expires>>
    BY <1>3 DEF Launch, Retry, Goto, row
  <2>2. \A f \in Execution : f # e => plan'[f] = plan[f]
    BY <1>3 DEF Launch, Retry, LeaseInv, ChainInv, FeedInv, TypeInv, TypeOK
  <2>3. AttemptInTime'
    BY <2>0, <2>1, TimingAssumption DEF LeaseInv, AttemptInTime, Running
  <2>4. \A f \in Execution : pc'[f] \in Preparing =>
          f # e /\ pc[f] \in Preparing /\ began'[f] = began[f]
    BY <2>0, <2>1 DEF Preparing
  <2>5. LeaseOutlivesAttempt'
    BY <2>1, <2>2, <2>4 DEF LeaseInv, LeaseOutlivesAttempt
  <2> QED BY <1>0, <2>3, <2>5 DEF LeaseInv
<1>4. ASSUME NEW e \in Execution, ClientStep(e) \/ ClientFault(e)
      PROVE  LeaseInv'
  BY <1>0, <1>4, ClientLease, PlanLease DEF LeaseInv
<1>5. ASSUME NEW a \in Attempt, TxBegin(a) \/ TxGate(a) \/ TxFails(a)
      PROVE  LeaseInv'
  BY <1>0, <1>5 DEF TxBegin, TxGate, TxFails, row, client, LeaseInv, AttemptInTime,
      LeaseOutlivesAttempt, Running
<1>6. ASSUME NEW a \in Attempt, TxCommit(a)
      PROVE  LeaseInv'
  BY <1>0, <1>6, CommitLease DEF LeaseInv
<1> QED BY <1>1, <1>2, <1>3, <1>4, <1>5, <1>6 DEF Next, ServerStep

(* A live attempt is never overtaken on the lease while it prepares.       *)
THEOREM LiveAttemptKeepsLease == Spec => []LeaseHeldThroughRun
<1>1. Init => LeaseInv
  <2>1. Init => ChainInv
    BY InitFeedInv DEF Init, ChainInv, PublishedBehind
  <2>2. Init => /\ pc = [e \in Execution |-> "idle"] /\ now = 0
                /\ began = [e \in Execution |-> 0]
    BY DEF Init
  <2>3. Init => AttemptInTime /\ LeaseOutlivesAttempt
    <3>1. SUFFICES ASSUME Init PROVE AttemptInTime /\ LeaseOutlivesAttempt
      OBVIOUS
    <3>2. \A e \in Execution : pc[e] = "idle" /\ pc[e] \notin Preparing /\ ~Running(e)
      BY <2>2, <3>1 DEF Preparing, Running
    <3>3. ASSUME NEW e \in Execution PROVE began[e] <= now
      <4>1. began[e] = 0
        BY <2>2, <3>1
      <4> QED BY <2>2, <3>1, <4>1
    <3> QED BY <3>2, <3>3 DEF AttemptInTime, LeaseOutlivesAttempt
  <2> QED BY <2>1, <2>3 DEF LeaseInv
<1> QED BY <1>1, NextLeaseInv, LeaseInvIsEnough, PTL DEF Spec

----------------------------------------------------------------------------
(***************************************************************************)
(* Success is durable, and the lease protects the publication: a           *)
(* transaction carries the run of the client that waits for its reply, and *)
(* while it is open its execution holds the lease, since every change of   *)
(* the lease aborts it.                                                    *)
(***************************************************************************)

Durable ==
  \A e \in Execution :
    /\ outcome[e] = "succeeded" => pc[e] = "ended" /\ RunOf(e) \in published
    /\ pc[e] = "sent" =>
         /\ tx[Current(e)].phase \in {"sent", "open"} => tx[Current(e)].run = RunOf(e)
         /\ tx[Current(e)].phase = "committed" => RunOf(e) \in published

Held ==
  /\ head # None => head \in published
  /\ \A a \in Attempt :
       /\ tx[a].phase \in {"sent", "open"} => tx[a].run.exec = a[1]
       /\ tx[a].phase = "open" => lease = a[1]

SuccessInv == ChainInv /\ Durable /\ Held

(* A change of the lease aborts whatever is open.                          *)
Aborts == tx' = Conflicting(tx) \/ UNCHANGED <<tx, lease>>

LEMMA AbortsHeld ==
  ASSUME SuccessInv, Aborts, UNCHANGED <<head, published>>
  PROVE  Held'
<1>1. tx \in [Attempt -> TxState]
  BY DEF SuccessInv, ChainInv, FeedInv, TypeInv, TypeOK
<1>2. CASE tx' = Conflicting(tx)
  <2>1. \A a \in Attempt : tx'[a].phase \in {"sent", "open"} =>
          tx'[a] = tx[a] /\ tx[a].phase = "sent"
    BY <1>2 DEF Conflicting, Over
  <2> QED BY <2>1 DEF SuccessInv, Held
<1>3. CASE UNCHANGED <<tx, lease>>
  BY <1>3 DEF SuccessInv, Held
<1> QED BY <1>2, <1>3 DEF Aborts

(* A step of one client that submits nothing.                              *)
LEMMA StepDurable ==
  ASSUME SuccessInv, NEW e \in Execution, Aborts, UNCHANGED published,
         \A f \in Execution \ {e} :
           /\ pc'[f] = pc[f] /\ outcome'[f] = outcome[f] /\ attempt'[f] = attempt[f]
           /\ seq'[f] = seq[f] /\ plan'[f] = plan[f],
         pc'[e] # "sent",
         outcome'[e] = "succeeded" => pc'[e] = "ended" /\ RunOf(e)' \in published
  PROVE  Durable'
<1>1. ASSUME NEW f \in Execution, f # e
      PROVE  RunOf(f)' = RunOf(f) /\ Current(f)' = Current(f) /\ Current(f) \in Attempt
  BY <1>1, CurrentTyped DEF RunOf, Current, SuccessInv, ChainInv, FeedInv, TypeInv
<1>2. \A a \in Attempt : tx'[a] = tx[a] \/ tx'[a].phase = "rejected"
  BY DEF Aborts, Conflicting, Over
<1>3. ASSUME NEW f \in Execution, f # e, pc'[f] = "sent"
      PROVE  LET b == Current(f)' IN
             /\ tx'[b].phase \in {"sent", "open"} => tx'[b].run = RunOf(f)'
             /\ tx'[b].phase = "committed" => RunOf(f)' \in published'
  BY <1>1, <1>2, <1>3 DEF SuccessInv, Durable
<1> QED BY <1>1, <1>3 DEF SuccessInv, Durable

(* The client steps that report no success.                                *)
LEMMA PlainDurable ==
  ASSUME SuccessInv, NEW e \in Execution,
         \/ Acquire(e) \/ AcquireLocked(e) \/ AcquireFails(e)
         \/ ReleaseNoop(e) \/ ReleaseNoopFails(e) \/ BeginRun(e) \/ BeginRunFails(e)
         \/ Project(e) \/ ProjectFails(e) \/ RenewLease(e) \/ RenewLeaseFails(e)
         \/ SubmitPublishFails(e) \/ TransportError(e) \/ ReceiptUnreadable(e)
         \/ MarkFailed(e) \/ MarkFailedFails(e) \/ ReleaseLease(e) \/ ReleaseLeaseFails(e)
         \/ Crash(e)
  PROVE  Durable' /\ Held'
<1>0. /\ pc \in [Execution -> Phase] /\ outcome \in [Execution -> Outcome]
      /\ plan \in [Execution -> [from : Watermark, start : Nat, to : Nat]]
      /\ pc[e] # "ended" => outcome[e] # "succeeded"
  BY DEF SuccessInv, Durable, ChainInv, FeedInv, TypeInv, TypeOK
<1> DEFINE Plain(p, o) ==
      /\ Aborts /\ UNCHANGED <<head, published, attempt, seq>> /\ Goto(e, p) /\ p # "sent"
      /\ pc[e] # "ended" /\ outcome' = [outcome EXCEPT ![e] = o] /\ o # "succeeded"
      /\ \A f \in Execution \ {e} : plan'[f] = plan[f]
<1>1. \E p, o : Plain(p, o)
  <2> USE <1>0 DEF row, history, End, Goto, Aborts
  <2>0. \A p : Plain(p, outcome[e]) <=>
      /\ Aborts /\ UNCHANGED <<head, published, attempt, seq>> /\ Goto(e, p) /\ p # "sent"
      /\ pc[e] # "ended" /\ outcome' = outcome /\ outcome[e] # "succeeded"
      /\ \A f \in Execution \ {e} : plan'[f] = plan[f]
    <3>1. [outcome EXCEPT ![e] = outcome[e]] = outcome OBVIOUS
    <3> QED BY <3>1
  <2>1. CASE Acquire(e)
    <3>1. \E p \in {"noop", "release", "begin"} : Plain(p, outcome[e])
      BY <2>0, <2>1 DEF Acquire, TakeLease
    <3> QED BY <3>1
  <2>2. CASE AcquireLocked(e)
    <3>1. Plain("ended", "locked") BY <2>2 DEF AcquireLocked
    <3> QED BY <3>1
  <2>3. CASE AcquireFails(e)
    <3>1. Plain("ended", "failed") BY <2>3 DEF AcquireFails, TakeLease
    <3> QED BY <3>1
  <2>4. CASE ReleaseNoop(e)
    <3>1. Plain("ended", "current") BY <2>4 DEF ReleaseNoop
    <3> QED BY <3>1
  <2>5. CASE ReleaseNoopFails(e) \/ BeginRunFails(e)
    <3>1. Plain("release", outcome[e])
      BY <2>0, <2>5 DEF ReleaseNoopFails, BeginRunFails, InsertRun
    <3> QED BY <3>1
  <2>6. CASE BeginRun(e)
    <3>1. Plain("project", outcome[e]) BY <2>0, <2>6 DEF BeginRun, InsertRun
    <3> QED BY <3>1
  <2>7. CASE Project(e)
    <3>1. Plain("renew", outcome[e]) BY <2>0, <2>7 DEF Project
    <3> QED BY <3>1
  <2>8. CASE ProjectFails(e) \/ RenewLeaseFails(e)
    <3>1. Plain("mark", outcome[e])
      BY <2>0, <2>8 DEF ProjectFails, RenewLeaseFails, ExtendLease
    <3> QED BY <3>1
  <2>9. CASE RenewLease(e)
    <3>1. \E p \in {"publish", "mark"} : Plain(p, outcome[e])
      BY <2>0, <2>9 DEF RenewLease, ExtendLease
    <3> QED BY <3>1
  <2>10. CASE SubmitPublishFails(e) \/ TransportError(e)
    <3>1. Plain("receipt", outcome[e])
      BY <2>0, <2>10 DEF SubmitPublishFails, TransportError
    <3> QED BY <3>1
  <2>11. CASE ReceiptUnreadable(e)
    <3>1. Plain("ended", "unknown") BY <2>11 DEF ReceiptUnreadable
    <3> QED BY <3>1
  <2>12. CASE MarkFailed(e) \/ MarkFailedFails(e)
    <3>1. Plain("release", outcome[e])
      BY <2>0, <2>12 DEF MarkFailed, MarkFailedFails
    <3> QED BY <3>1
  <2>13. CASE ReleaseLease(e) \/ ReleaseLeaseFails(e)
    <3>1. Plain("ended", "failed")
      BY <2>13 DEF ReleaseLease, ReleaseLeaseFails
    <3> QED BY <3>1
  <2>14. CASE Crash(e)
    <3>1. Plain("ended", "crashed") BY <2>14 DEF Crash, Running
    <3> QED BY <3>1
  <2> QED BY <2>1, <2>2, <2>3, <2>4, <2>5, <2>6, <2>7, <2>8, <2>9, <2>10, <2>11, <2>12,
             <2>13, <2>14
<1>2. PICK p, o : Plain(p, o) BY <1>1
<1>3. /\ Aborts /\ UNCHANGED <<head, published>> /\ pc'[e] = p /\ outcome'[e] = o
      /\ \A f \in Execution \ {e} :
           /\ pc'[f] = pc[f] /\ outcome'[f] = outcome[f] /\ attempt'[f] = attempt[f]
           /\ seq'[f] = seq[f] /\ plan'[f] = plan[f]
  BY <1>0, <1>2 DEF Goto
<1> QED BY <1>2, <1>3, AbortsHeld, StepDurable

(* Cloud Run starts an attempt only before the first or after a failure.   *)
LEMMA StartDurable ==
  ASSUME SuccessInv, NEW e \in Execution, Launch(e) \/ Retry(e)
  PROVE  Durable' /\ Held'
<1>0. /\ pc \in [Execution -> Phase] /\ outcome \in [Execution -> Outcome]
      /\ attempt \in [Execution -> 1..MaxAttempts] /\ seq \in [Execution -> Nat]
      /\ plan \in [Execution -> [from : Watermark, start : Nat, to : Nat]]
      /\ outcome[e] = "succeeded" => pc[e] = "ended"
  BY DEF SuccessInv, Durable, ChainInv, FeedInv, TypeInv, TypeOK
<1>1. /\ Aborts /\ UNCHANGED <<head, published>> /\ pc'[e] = "acquire"
      /\ \A f \in Execution \ {e} :
           /\ pc'[f] = pc[f] /\ outcome'[f] = outcome[f] /\ attempt'[f] = attempt[f]
           /\ seq'[f] = seq[f] /\ plan'[f] = plan[f]
      /\ outcome'[e] # "succeeded"
  BY <1>0 DEF Launch, Retry, Goto, Aborts, row, history
<1> QED BY <1>1, AbortsHeld, StepDurable

(* The client steps that may report success.                               *)
LEMMA ReplyDurable ==
  ASSUME SuccessInv, NEW e \in Execution, PublishReply(e) \/ ReadReceipt(e)
  PROVE  Durable' /\ Held'
<1>0. /\ pc \in [Execution -> Phase] /\ outcome \in [Execution -> Outcome]
      /\ seq \in [Execution -> Nat] /\ pc[e] # "ended" /\ outcome[e] # "succeeded"
  BY DEF PublishReply, ReadReceipt, SuccessInv, Durable, ChainInv, FeedInv, TypeInv, TypeOK
<1>1. /\ Aborts /\ UNCHANGED <<head, published, attempt, plan>>
      /\ \/ Published(e)
         \/ (Goto(e, "mark") \/ Goto(e, "receipt")) /\ UNCHANGED <<outcome, seq>>
  BY DEF PublishReply, ReadReceipt, Aborts, row, history
<1>2. Published(e) => RunOf(e) \in published
  <2>1. CASE PublishReply(e)
    <3>1. tx[Current(e)].phase = "committed" => RunOf(e) \in published
      BY <2>1 DEF PublishReply, SuccessInv, Durable
    <3>2. tx[Current(e)].phase # "committed" => Goto(e, "mark") \/ Goto(e, "receipt")
      BY <2>1 DEF PublishReply
    <3>3. ~(Published(e) /\ (Goto(e, "mark") \/ Goto(e, "receipt")))
      BY <1>0 DEF Published, Goto, End
    <3> QED BY <3>1, <3>2, <3>3
  <2>2. CASE ReadReceipt(e)
    <3>1. PublicationCommitted(e) => RunOf(e) \in published
      <4>1. RunOf(e) # None
        BY RunOfTyped, MissingRunAssumption DEF SuccessInv, ChainInv, FeedInv, TypeInv
      <4> QED BY <4>1 DEF PublicationCommitted, SuccessInv, Held
    <3>2. ~PublicationCommitted(e) => Goto(e, "mark")
      BY <2>2 DEF ReadReceipt
    <3>3. ~(Published(e) /\ Goto(e, "mark"))
      BY <1>0 DEF Published, Goto, End
    <3> QED BY <3>1, <3>2, <3>3
  <2> QED BY <2>1, <2>2
<1>3. /\ pc'[e] # "sent"
      /\ \A f \in Execution \ {e} :
           /\ pc'[f] = pc[f] /\ outcome'[f] = outcome[f] /\ attempt'[f] = attempt[f]
           /\ seq'[f] = seq[f] /\ plan'[f] = plan[f]
      /\ outcome'[e] = "succeeded" => pc'[e] = "ended" /\ Published(e) /\ seq' = seq
  BY <1>0, <1>1 DEF Published, Goto, End
<1>4. outcome'[e] = "succeeded" => pc'[e] = "ended" /\ RunOf(e)' \in published
  BY <1>1, <1>2, <1>3 DEF RunOf
<1> QED BY <1>1, <1>3, <1>4, AbortsHeld, StepDurable

LEMMA SubmitDurable ==
  ASSUME SuccessInv, NEW e \in Execution, SubmitPublish(e)
  PROVE  Durable' /\ Held'
<1>0. /\ pc \in [Execution -> Phase] /\ tx \in [Attempt -> TxState]
      /\ attempt \in [Execution -> 1..MaxAttempts]
      /\ pc[e] = "publish" /\ outcome[e] # "succeeded"
      /\ \A f \in Execution : Current(f) \in Attempt
  BY CurrentTyped
  DEF SubmitPublish, SuccessInv, Durable, ChainInv, FeedInv, TypeInv, TypeOK
<1>1. /\ UNCHANGED <<head, published, attempt, plan, seq, outcome, lease>>
      /\ pc' = [pc EXCEPT ![e] = "sent"]
      /\ tx' = [tx EXCEPT ![Current(e)] =
           [phase |-> "sent", run |-> RunOf(e), start |-> plan[e].start, opened |-> 0]]
  BY DEF SubmitPublish, Goto, row, history
<1>2. \A f \in Execution : RunOf(f)' = RunOf(f) /\ Current(f)' = Current(f)
  BY <1>1 DEF RunOf, Current
<1>3. \A f \in Execution : f # e => Current(f) # Current(e)
  BY DEF Current
<1>4. /\ tx'[Current(e)].phase = "sent" /\ tx'[Current(e)].run = RunOf(e)
      /\ \A a \in Attempt : a # Current(e) => tx'[a] = tx[a]
  BY <1>0, <1>1
<1>5. Durable'
  <2> SUFFICES ASSUME NEW f \in Execution
      PROVE  /\ outcome'[f] = "succeeded" => pc'[f] = "ended" /\ RunOf(f)' \in published'
             /\ pc'[f] = "sent" => LET b == Current(f)' IN
                  /\ tx'[b].phase \in {"sent", "open"} => tx'[b].run = RunOf(f)'
                  /\ tx'[b].phase = "committed" => RunOf(f)' \in published'
    BY DEF Durable
  <2>1. CASE f = e BY <1>0, <1>1, <1>2, <1>4, <2>1
  <2>2. CASE f # e
    <3>1. pc'[f] = pc[f] /\ tx'[Current(f)] = tx[Current(f)]
      BY <1>0, <1>1, <1>3, <1>4, <2>2
    <3> QED BY <1>1, <1>2, <3>1 DEF SuccessInv, Durable
  <2> QED BY <2>1, <2>2
<1>6. RunOf(e).exec = e /\ Current(e)[1] = e
  BY DEF RunOf, Current
<1>7. Held'
  BY <1>1, <1>4, <1>6 DEF SuccessInv, Held
<1> QED BY <1>5, <1>7

LEMMA ServerDurable ==
  ASSUME SuccessInv, NEW a \in Attempt, TxBegin(a) \/ TxGate(a) \/ TxFails(a)
  PROVE  Durable' /\ Held'
<1>0. tx \in [Attempt -> TxState] /\ \A e \in Execution : Current(e) \in Attempt
  BY CurrentTyped DEF SuccessInv, ChainInv, FeedInv, TypeInv, TypeOK
<1>1. UNCHANGED <<client, history, head, lease>>
  BY DEF TxBegin, TxGate, TxFails, row
<1>2. \A e \in Execution : RunOf(e)' = RunOf(e) /\ Current(e)' = Current(e)
  BY <1>1 DEF RunOf, Current, client
<1>3. \A b \in Attempt :
        /\ tx'[b].phase = "committed" => tx[b].phase = "committed"
        /\ tx'[b].phase \in {"sent", "open"} =>
             tx[b].phase \in {"sent", "open"} /\ tx'[b].run = tx[b].run
        /\ tx'[b].phase = "open" => tx[b].phase = "open" \/ lease = b[1]
  <2>1. CASE TxBegin(a)
    BY <1>0, <2>1 DEF TxBegin, Opened, Over, PublishAsserts
  <2>2. CASE TxGate(a)
    BY <1>0, <2>2 DEF TxGate, Finish, Conflicting, Over
  <2>3. CASE TxFails(a)
    BY <1>0, <2>3 DEF TxFails, Over
  <2> QED BY <2>1, <2>2, <2>3
<1>4. Durable'
  BY <1>0, <1>1, <1>2, <1>3 DEF SuccessInv, Durable, client, history
<1>5. Held'
  BY <1>1, <1>3 DEF SuccessInv, Held, history
<1> QED BY <1>4, <1>5

LEMMA CommitDurable ==
  ASSUME SuccessInv, NEW a \in Attempt, TxCommit(a)
  PROVE  Durable' /\ Held'
<1>0. tx \in [Attempt -> TxState] /\ \A e \in Execution : Current(e) \in Attempt
  BY CurrentTyped DEF SuccessInv, ChainInv, FeedInv, TypeInv, TypeOK
<1>1. /\ UNCHANGED client /\ head' = tx[a].run /\ tx' = Finish(a, "committed")
      /\ published' = published \cup {tx[a].run} /\ tx[a].phase = "open"
  BY DEF TxCommit
<1>2. \A e \in Execution : RunOf(e)' = RunOf(e) /\ Current(e)' = Current(e)
  BY <1>1 DEF RunOf, Current, client
<1>3. \A b \in Attempt :
        /\ tx'[b].phase = "committed" => tx[b].phase = "committed" \/ b = a
        /\ tx'[b].phase \in {"sent", "open"} => tx[b].phase = "sent" /\ tx'[b] = tx[b]
  BY <1>0, <1>1 DEF Finish, Conflicting, Over
<1>4. Durable'
  BY <1>0, <1>1, <1>2, <1>3 DEF SuccessInv, Durable, client
<1>5. Held'
  BY <1>1, <1>3 DEF SuccessInv, Held
<1> QED BY <1>4, <1>5

LEMMA NextSuccessInv ==
  ASSUME SuccessInv, [Next]_vars
  PROVE  SuccessInv'
<1>0. ChainInv'
  BY NextChainInv DEF SuccessInv
<1>1. CASE UNCHANGED vars \/ Tick
  <2>1. UNCHANGED <<row, client, tx, history>>
    BY <1>1 DEF vars, Tick
  <2>2. \A e \in Execution : RunOf(e)' = RunOf(e) /\ Current(e)' = Current(e)
    BY <2>1 DEF RunOf, Current, client
  <2> QED BY <1>0, <2>1, <2>2 DEF SuccessInv, Durable, Held, row, client, history
<1>2. ASSUME NEW e \in Execution, Launch(e) \/ Retry(e) \/ ClientStep(e) \/ ClientFault(e)
      PROVE  SuccessInv'
  <2>1. CASE SubmitPublish(e) BY <1>0, <2>1, SubmitDurable DEF SuccessInv
  <2>2. CASE PublishReply(e) \/ ReadReceipt(e)
    BY <1>0, <2>2, ReplyDurable DEF SuccessInv
  <2>3. CASE Launch(e) \/ Retry(e) BY <1>0, <2>3, StartDurable DEF SuccessInv
  <2>4. CASE ~(\/ SubmitPublish(e) \/ PublishReply(e) \/ ReadReceipt(e) \/ Launch(e)
               \/ Retry(e))
    BY <1>0, <1>2, <2>4, PlainDurable DEF SuccessInv, ClientStep, ClientFault
  <2> QED BY <2>1, <2>2, <2>3, <2>4
<1>3. ASSUME NEW a \in Attempt, ServerStep(a) \/ TxGate(a) \/ TxFails(a)
      PROVE  SuccessInv'
  BY <1>0, <1>3, ServerDurable, CommitDurable DEF SuccessInv, ServerStep
<1> QED BY <1>1, <1>2, <1>3 DEF Next

LEMMA InitSuccessInv == Init => SuccessInv
<1> SUFFICES ASSUME Init PROVE SuccessInv
  OBVIOUS
<1>1. ChainInv BY InitFeedInv DEF Init, ChainInv, PublishedBehind
<1>2. Durable BY DEF Init, Durable
<1>3. Held BY DEF Init, Held, Over
<1> QED BY <1>1, <1>2, <1>3 DEF SuccessInv

(* A run that reports success was published under exactly the window it    *)
(* reports, whether its reply arrived or it had to read the receipt.       *)
THEOREM SuccessHolds == Spec => []SuccessIsDurable
<1>1. SuccessInv => SuccessIsDurable
  BY DEF SuccessInv, Durable, SuccessIsDurable
<1> QED BY <1>1, InitSuccessInv, NextSuccessInv, PTL DEF Spec

(* A commit is its execution's: it holds the lease, and the run is new.    *)
LEMMA CommitHeld ==
  ASSUME SuccessInv, NEW a \in Attempt, TxCommit(a)
  PROVE  /\ head' # head /\ head'.exec = lease /\ lease \in Execution
         /\ lease' = None
<1>1. tx[a].phase = "open" /\ head' = tx[a].run /\ lease' = None
  BY DEF TxCommit
<1>2. tx[a].run \in RunId /\ tx[a].run \notin published
  BY CommitPublishes DEF SuccessInv
<1>3. head # None => head \in published
  BY DEF SuccessInv, Held
<1>4. tx[a].run.exec = a[1] /\ lease = a[1] /\ a[1] \in Execution
  BY <1>1 DEF SuccessInv, Held, Attempt
<1> QED BY <1>1, <1>2, <1>3, <1>4, MissingRunAssumption

LEMMA StepDisciplined ==
  ASSUME SuccessInv, [Next]_vars, \A a \in Attempt : ~TxCommit(a)
  PROVE  /\ lease # None /\ lease' \notin {None, lease} => expires <= now
         /\ lease # None /\ lease' = None =>
              lease \in Execution /\ pc[lease] \in {"noop", "release"}
                                  /\ pc'[lease] = "ended"
<1> DEFINE Taken == lease = None \/ expires <= now
           Freed == /\ lease \in Execution /\ lease' = None
                    /\ pc[lease] \in {"noop", "release"} /\ pc'[lease] = "ended"
<1>0. pc \in [Execution -> Phase] /\ None \notin Execution
  BY ExecutionAssumption DEF SuccessInv, ChainInv, FeedInv, TypeInv, TypeOK
<1>1. CASE UNCHANGED vars \/ Tick
  BY <1>1 DEF vars, Tick, row
<1>2. ASSUME NEW e \in Execution, Launch(e) \/ Retry(e) \/ ClientStep(e) \/ ClientFault(e)
      PROVE  \/ lease' = lease \/ (Taken /\ lease' = e) \/ Freed
  <2>1. CASE Acquire(e) \/ AcquireFails(e)
    BY <2>1 DEF Acquire, AcquireFails, TakeLease, LeaseTakeable, row
  <2>2. CASE ReleaseNoop(e) \/ ReleaseLease(e)
    BY <1>0, <2>2 DEF ReleaseNoop, ReleaseLease, Releasable, End, Goto
  <2>3. CASE ~(Acquire(e) \/ AcquireFails(e) \/ ReleaseNoop(e) \/ ReleaseLease(e))
    BY <1>2, <2>3
    DEF Launch, Retry, ClientStep, ClientFault, AcquireLocked, BeginRun, Project, RenewLease,
        SubmitPublish, PublishReply, ReadReceipt, MarkFailed, Crash, ReleaseNoopFails,
        BeginRunFails, ProjectFails, RenewLeaseFails, SubmitPublishFails, TransportError,
        ReceiptUnreadable, MarkFailedFails, ReleaseLeaseFails, ExtendLease, row
  <2> QED BY <2>1, <2>2, <2>3
<1>3. ASSUME NEW a \in Attempt, TxBegin(a) \/ TxGate(a) \/ TxFails(a)
      PROVE  lease' = lease
  BY <1>3 DEF TxBegin, TxGate, TxFails, row
<1> QED BY <1>0, <1>1, <1>2, <1>3 DEF Next, ServerStep

(* The lease changes hands only after it expired, is cleared only by its   *)
(* holder, and only its holder publishes.                                  *)
THEOREM LeaseIsDisciplined == Spec => LeaseDiscipline
<1> DEFINE Step ==
      /\ lease # None /\ lease' \notin {None, lease} => expires <= now
      /\ lease # None /\ lease' = None =>
           \/ head' # head /\ head'.exec = lease
           \/ lease \in Execution /\ pc[lease] \in {"noop", "release"}
                                  /\ pc'[lease] = "ended"
      /\ head' # head => lease = head'.exec
<1>1. SuccessInv /\ [Next]_vars => Step
  <2> SUFFICES ASSUME SuccessInv, [Next]_vars PROVE Step
    OBVIOUS
  <2>1. CASE \E a \in Attempt : TxCommit(a)
    BY <2>1, CommitHeld, ExecutionAssumption
  <2>2. CASE \A a \in Attempt : ~TxCommit(a)
    BY <2>2, StepDisciplined, OthersStutter
  <2> QED BY <2>1, <2>2
<1>2. Spec => []SuccessInv
  BY InitSuccessInv, NextSuccessInv, PTL DEF Spec
<1>3. [][Next]_vars /\ []SuccessInv => [][Step]_vars
  BY <1>1, PTL
<1> QED BY <1>2, <1>3, PTL DEF Spec, LeaseDiscipline
=============================================================================
