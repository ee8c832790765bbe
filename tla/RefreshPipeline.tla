-------------------------- MODULE RefreshPipeline --------------------------
(***************************************************************************)
(* The incremental publisher app/jobs/refresh_analytics.py: Cloud Run      *)
(* executions that compete for the lease in the 'published' row of         *)
(* pipeline_state, read a bounded window of source events and publish it   *)
(* by one BigQuery multi-statement transaction.  A client can lose the     *)
(* reply of any call, be killed at any step and be retried by Cloud Run    *)
(* with the same execution identity, while a transaction it submitted is   *)
(* still queued or running on the server.                                  *)
(*                                                                         *)
(* Minutes are model time.  One source event is logged at every minute t   *)
(* from Start on and reaches the warehouse Lateness[t] minutes later.      *)
(***************************************************************************)
EXTENDS Integers

CONSTANTS
  Execution,      \* Cloud Run Job executions (each has its own lease identity)
  UntilCurrent,   \* those launched with --until-current
  Targeted,       \* those launched with a fixed --target-at
  None,
  Start,          \* MONITOR_ANALYTICS_START_AT
  Delay,          \* RefreshPolicy.expected_delay_minutes
  Overlap,        \* RefreshPolicy.overlap_minutes
  MaxWindow,      \* RefreshPolicy.max_window_hours
  LeaseTTL,       \* RefreshPolicy.lease_ttl_minutes
  JobTimeout,     \* RefreshPolicy.job_timeout_minutes, enforced by Cloud Run
  MaxAttempts,    \* 1 + max-retries of the Cloud Run Job
  Lateness,       \* how late each event reaches the warehouse
  LastStart,      \* bound: no attempt starts after this minute
  MaxTime,        \* bound: the clock stops here
  MaxFaults       \* bound: how many failures the environment may inject

(* RefreshPolicy.__post_init__ checks the lease against the job timeout.   *)
RefreshPolicy == JobTimeout < LeaseTTL

(* Nothing in the code checks that a window is longer than the overlap;    *)
(* the shipped policy (24 hours against 240 minutes) satisfies it.         *)
ASSUME TimingAssumption ==
  /\ Start \in Nat /\ Delay \in Nat /\ Overlap \in Nat /\ MaxWindow \in Nat
  /\ LeaseTTL \in Nat /\ JobTimeout \in Nat
  /\ LastStart \in Nat /\ MaxTime \in Nat /\ MaxFaults \in Nat
  /\ RefreshPolicy
  /\ Overlap < MaxWindow
ASSUME ExecutionAssumption ==
  /\ Targeted \subseteq UntilCurrent /\ UntilCurrent \subseteq Execution
  /\ MaxAttempts \in Nat \ {0}
  /\ None \notin Execution /\ None \notin Int
(* The overlap and the expected delay together bound how late an event is. *)
ASSUME LatenessAssumption == Lateness \in [0..MaxTime -> 0..(Overlap + Delay)]

VARIABLES
  now,
  (* the 'published' row of pipeline_state, and pipeline_runs              *)
  through, head, lease, expires, runs,
  (* one client process per execution                                      *)
  pc, outcome, attempt, began, frozen, seq, plan,
  (* publish transactions, by the attempt that submitted them              *)
  tx,
  (* history: what has been published, and the events it contained         *)
  published, ingested,
  faults

row     == <<through, head, lease, expires>>
client  == <<pc, outcome, attempt, began, frozen, seq, plan>>
history == <<published, ingested>>
vars    == <<now, row, runs, client, tx, history, faults>>

Watermark == Nat \cup {None}
RunId     == [exec : Execution, seq : Nat, from : Watermark, to : Nat]
Attempt   == Execution \X (1..MaxAttempts)
TxPhase   == {"none", "sent", "open", "committed", "gated", "rejected"}
Phase     == {"idle", "acquire", "noop", "begin", "project", "renew", "publish",
              "sent", "receipt", "mark", "release", "ended"}
Outcome   == {"none", "current", "succeeded", "failed", "unknown", "locked",
              "crashed"}
NonZeroExit == {"failed", "unknown", "locked", "crashed"}

TxState   == [phase : TxPhase, run : RunId \cup {None}, start : Nat, opened : Nat]

(* None stands for a row without a published run, so it is no run.         *)
ASSUME MissingRunAssumption == None \notin RunId

TypeOK ==
  /\ now \in 0..MaxTime
  /\ through \in Watermark /\ head \in RunId \cup {None}
  /\ lease \in Execution \cup {None} /\ expires \in Nat
  /\ DOMAIN runs \subseteq RunId
  /\ \A r \in DOMAIN runs : runs[r] \in {"running", "failed", "succeeded"}
  /\ pc \in [Execution -> Phase] /\ outcome \in [Execution -> Outcome]
  /\ attempt \in [Execution -> 1..MaxAttempts]
  /\ began \in [Execution -> Nat] /\ frozen \in [Execution -> Nat]
  /\ seq \in [Execution -> Nat]
  /\ plan \in [Execution -> [from : Watermark, start : Nat, to : Nat]]
  /\ tx \in [Attempt -> TxState]
  /\ published \subseteq RunId /\ ingested \subseteq Nat
  /\ faults \in 0..MaxFaults

NoPlan == [from |-> None, start |-> 0, to |-> 0]
Over(phase) == [phase |-> phase, run |-> None, start |-> 0, opened |-> 0]

Init ==
  /\ now = 0
  /\ through = None /\ head = None /\ lease = None /\ expires = 0
  /\ runs = [r \in {} |-> "running"]
  /\ pc = [e \in Execution |-> "idle"]
  /\ outcome = [e \in Execution |-> "none"]
  /\ attempt = [e \in Execution |-> 1]
  /\ began = [e \in Execution |-> 0] /\ frozen = [e \in Execution |-> 0]
  /\ seq = [e \in Execution |-> 0]
  /\ plan = [e \in Execution |-> NoPlan]
  /\ tx = [a \in Attempt |-> Over("none")]
  /\ published = {} /\ ingested = {}
  /\ faults = 0

----------------------------------------------------------------------------
(* Windows, identities and the conditions of the SQL statements.           *)

Larger(a, b)  == IF a < b THEN b ELSE a
Smaller(a, b) == IF a < b THEN a ELSE b

Running(e) == pc[e] \notin {"idle", "ended"}
Current(e) == <<e, attempt[e]>>
RunOf(e)   == [exec |-> e, seq |-> seq[e], from |-> plan[e].from, to |-> plan[e].to]

TargetEnd(e) == frozen[e] - Delay
Base(w)      == IF w = None THEN Start ELSE w

WindowStartWithoutOverlap(w) == Base(w)
WindowStartBeforeStart(w) == Base(w) - Overlap
WindowStart(w) == Larger(Start, Base(w) - Overlap)
WindowEnd(w, target) == Smaller(target, WindowStart(w) + MaxWindow)

(* The MERGE of _acquire_lease matches a free row, an expired lease, or    *)
(* the lease this execution already holds.                                 *)
LeaseTakeableFromAnyone(e) == TRUE
LeaseTakeable(e) == lease = None \/ expires <= now \/ lease = e

(* The UPDATE of _release_lease is keyed by the lease identity.            *)
ReleasableByAnyone(e) == TRUE
Releasable(e) == lease = e

(* The UPDATE of _mark_failed only touches a run that is still running.    *)
FailableAlways(r) == r \in DOMAIN runs
Failable(r) == r \in DOMAIN runs /\ runs[r] = "running"

WithRun(r, status) ==
  [x \in DOMAIN runs \cup {r} |-> IF x = r THEN status ELSE runs[x]]

(* The two ASSERTs at the head of the publish script.                      *)
PublishAssertsWithoutWatermark(a) == lease = a[1] /\ now < expires
PublishAsserts(a) ==
  /\ lease = a[1] /\ now < expires
  /\ through = tx[a].run.from
  /\ through # None => through < tx[a].run.to

(* _publication_is_committed on the receipt read after a transport error.  *)
AnyPublicationCommitted(e) == head # None
PublicationCommitted(e) ==
  /\ head = RunOf(e) /\ through = plan[e].to
  /\ RunOf(e) \in DOMAIN runs /\ runs[RunOf(e)] = "succeeded"

(* BigQuery aborts an open transaction when a table it mutates was changed *)
(* after its snapshot; its own statements then fail.                       *)
Conflicting(t) ==
  [a \in Attempt |-> IF t[a].phase = "open"
                     THEN Over("rejected") ELSE t[a]]

Finish(a, phase) ==
  [Conflicting(tx) EXCEPT ![a] = Over(phase)]

Fault   == faults < MaxFaults /\ faults' = faults + 1
NoFault == faults' = faults

Goto(e, phase) == pc' = [pc EXCEPT ![e] = phase]
End(e, result) ==
  Goto(e, "ended") /\ outcome' = [outcome EXCEPT ![e] = result]

----------------------------------------------------------------------------
(* Cloud Run and the clock.                                                *)

(* An attempt does not outlive the task timeout: Cloud Run kills it.       *)
Tick ==
  /\ now < MaxTime
  /\ \A e \in Execution : Running(e) => now < began[e] + JobTimeout
  /\ now' = now + 1
  /\ UNCHANGED <<row, runs, client, tx, history, faults>>

Launch(e) ==
  /\ pc[e] = "idle" /\ now <= LastStart
  /\ Goto(e, "acquire")
  /\ began' = [began EXCEPT ![e] = now]
  /\ frozen' = [frozen EXCEPT ![e] = now]
  /\ NoFault
  /\ UNCHANGED <<now, row, runs, outcome, attempt, seq, plan, tx, history>>

(* Cloud Run starts a failed task again under the same execution identity. *)
(* A --target-at is an argument of the execution, so the retry keeps it.   *)
Retry(e) ==
  /\ pc[e] = "ended" /\ outcome[e] \in NonZeroExit
  /\ attempt[e] < MaxAttempts /\ now <= LastStart
  /\ Goto(e, "acquire")
  /\ outcome' = [outcome EXCEPT ![e] = "none"]
  /\ attempt' = [attempt EXCEPT ![e] = @ + 1]
  /\ began' = [began EXCEPT ![e] = now]
  /\ frozen' = [frozen EXCEPT ![e] = IF e \in Targeted THEN @ ELSE now]
  /\ seq' = [seq EXCEPT ![e] = 0]
  /\ plan' = [plan EXCEPT ![e] = NoPlan]
  /\ NoFault
  /\ UNCHANGED <<now, row, runs, tx, history>>

Crash(e) ==
  /\ Running(e)
  /\ End(e, "crashed")
  /\ Fault
  /\ UNCHANGED <<now, row, runs, attempt, began, frozen, seq, plan, tx, history>>

----------------------------------------------------------------------------
(* AnalyticsRefreshJob.run, one action per call to BigQuery.               *)

TakeLeaseForGood(e) ==
  /\ LeaseTakeable(e)
  /\ lease' = e /\ expires' = MaxTime + 1
  /\ tx' = Conflicting(tx)
  /\ UNCHANGED <<through, head>>
TakeLease(e) ==
  /\ LeaseTakeable(e)
  /\ lease' = e /\ expires' = now + LeaseTTL
  /\ tx' = Conflicting(tx)
  /\ UNCHANGED <<through, head>>

UpToDate(e)    == through # None /\ through >= TargetEnd(e)
EmptyWindow(e) == WindowEnd(through, TargetEnd(e)) <= WindowStart(through)

(* The lease row also carries the watermark the run is planned against.    *)
Acquire(e) ==
  /\ pc[e] = "acquire" /\ TakeLease(e)
  /\ \/ UpToDate(e) /\ Goto(e, "noop") /\ UNCHANGED plan
     \/ ~UpToDate(e) /\ EmptyWindow(e) /\ Goto(e, "release") /\ UNCHANGED plan
     \/ /\ ~UpToDate(e) /\ ~EmptyWindow(e) /\ Goto(e, "begin")
        /\ plan' = [plan EXCEPT ![e] =
             [from |-> through, start |-> WindowStart(through),
              to |-> WindowEnd(through, TargetEnd(e))]]
  /\ NoFault
  /\ UNCHANGED <<now, runs, outcome, attempt, began, frozen, seq, history>>

AcquireLocked(e) ==
  /\ pc[e] = "acquire" /\ ~LeaseTakeable(e)
  /\ End(e, "locked")
  /\ NoFault
  /\ UNCHANGED <<now, row, runs, attempt, began, frozen, seq, plan, tx, history>>

(* An error of the MERGE is outside every try: a lease it took is kept.    *)
AcquireFails(e) ==
  /\ pc[e] = "acquire"
  /\ \/ TakeLease(e)
     \/ UNCHANGED <<row, tx>>
  /\ End(e, "failed")
  /\ Fault
  /\ UNCHANGED <<now, runs, attempt, began, frozen, seq, plan, history>>

(* Nothing to do: release the lease and report success.                    *)
ReleaseNoop(e) ==
  /\ pc[e] = "noop"
  /\ IF Releasable(e)
       THEN lease' = None /\ expires' = 0 /\ tx' = Conflicting(tx)
       ELSE UNCHANGED <<lease, expires, tx>>
  /\ End(e, "current")
  /\ NoFault
  /\ UNCHANGED <<now, through, head, runs, attempt, began, frozen, seq, plan, history>>

ReleaseNoopFails(e) ==
  /\ pc[e] = "noop"
  /\ Goto(e, "release")
  /\ Fault
  /\ UNCHANGED <<now, row, runs, outcome, attempt, began, frozen, seq, plan, tx, history>>

(* One run row per run identity: created, or reset whatever it says.       *)
InsertRun(e) == runs' = WithRun(RunOf(e), "running") /\ tx' = Conflicting(tx)

BeginRun(e) ==
  /\ pc[e] = "begin" /\ InsertRun(e)
  /\ Goto(e, "project")
  /\ NoFault
  /\ UNCHANGED <<now, row, outcome, attempt, began, frozen, seq, plan, history>>

(* run_started is still False: only the lease is given up.                 *)
BeginRunFails(e) ==
  /\ pc[e] = "begin"
  /\ InsertRun(e) \/ UNCHANGED <<runs, tx>>
  /\ Goto(e, "release")
  /\ Fault
  /\ UNCHANGED <<now, row, outcome, attempt, began, frozen, seq, plan, history>>

(* The Firestore projection: identities, user scope and conversations.     *)
Project(e) ==
  /\ pc[e] = "project"
  /\ Goto(e, "renew")
  /\ NoFault
  /\ UNCHANGED <<now, row, runs, outcome, attempt, began, frozen, seq, plan, tx, history>>

ProjectFails(e) ==
  /\ pc[e] = "project"
  /\ Goto(e, "mark")
  /\ Fault
  /\ UNCHANGED <<now, row, runs, outcome, attempt, began, frozen, seq, plan, tx, history>>

(* Renewal extends the lease even when it has already expired, as long as  *)
(* nobody else took it.                                                    *)
ExtendLease(e) ==
  /\ lease = e
  /\ expires' = now + LeaseTTL
  /\ tx' = Conflicting(tx)
  /\ UNCHANGED <<through, head, lease>>

RenewLease(e) ==
  /\ pc[e] = "renew"
  /\ \/ ExtendLease(e) /\ Goto(e, "publish")
     \/ lease # e /\ Goto(e, "mark") /\ UNCHANGED <<row, tx>>
  /\ NoFault
  /\ UNCHANGED <<now, runs, outcome, attempt, began, frozen, seq, plan, history>>

RenewLeaseFails(e) ==
  /\ pc[e] = "renew"
  /\ ExtendLease(e) \/ UNCHANGED <<row, tx>>
  /\ Goto(e, "mark")
  /\ Fault
  /\ UNCHANGED <<now, runs, outcome, attempt, began, frozen, seq, plan, history>>

SubmitPublish(e) ==
  /\ pc[e] = "publish"
  /\ tx' = [tx EXCEPT ![Current(e)] =
       [phase |-> "sent", run |-> RunOf(e), start |-> plan[e].start, opened |-> 0]]
  /\ Goto(e, "sent")
  /\ NoFault
  /\ UNCHANGED <<now, row, runs, outcome, attempt, began, frozen, seq, plan, history>>

(* The request never reached the server.                                   *)
SubmitPublishFails(e) ==
  /\ pc[e] = "publish"
  /\ Goto(e, "receipt")
  /\ Fault
  /\ UNCHANGED <<now, row, runs, outcome, attempt, began, frozen, seq, plan, tx, history>>

(* run_until_current goes on until the frozen target is published; run     *)
(* stops after one window.                                                 *)
PublishedOneWindow(e) == End(e, "succeeded") /\ UNCHANGED seq
Published(e) ==
  IF e \in UntilCurrent /\ plan[e].to < TargetEnd(e)
    THEN /\ Goto(e, "acquire")
         /\ seq' = [seq EXCEPT ![e] = @ + 1]
         /\ UNCHANGED outcome
    ELSE End(e, "succeeded") /\ UNCHANGED seq

(* The reply of the publish script: its result, its blocking quality       *)
(* checks, or the error of a rejected transaction.                         *)
PublishReply(e) ==
  /\ pc[e] = "sent"
  /\ \/ tx[Current(e)].phase = "committed" /\ Published(e)
     \/ tx[Current(e)].phase = "gated" /\ Goto(e, "mark") /\ UNCHANGED <<outcome, seq>>
     \/ tx[Current(e)].phase = "rejected" /\ Goto(e, "receipt") /\ UNCHANGED <<outcome, seq>>
  /\ NoFault
  /\ UNCHANGED <<now, row, runs, attempt, began, frozen, plan, tx, history>>

(* The client loses the reply, whatever the server is doing.               *)
TransportError(e) ==
  /\ pc[e] = "sent"
  /\ Goto(e, "receipt")
  /\ Fault
  /\ UNCHANGED <<now, row, runs, outcome, attempt, began, frozen, seq, plan, tx, history>>

ReadReceipt(e) ==
  /\ pc[e] = "receipt"
  /\ \/ PublicationCommitted(e) /\ Published(e)
     \/ ~PublicationCommitted(e) /\ Goto(e, "mark") /\ UNCHANGED <<outcome, seq>>
  /\ NoFault
  /\ UNCHANGED <<now, row, runs, attempt, began, frozen, plan, tx, history>>

(* PublicationOutcomeUnknownError: the lease and the run row are kept.     *)
ReceiptUnreadable(e) ==
  /\ pc[e] = "receipt"
  /\ End(e, "unknown")
  /\ Fault
  /\ UNCHANGED <<now, row, runs, attempt, began, frozen, seq, plan, tx, history>>

(* Clean-up after a failed run; errors of both statements are swallowed.   *)
MarkFailed(e) ==
  /\ pc[e] = "mark"
  /\ IF Failable(RunOf(e))
       THEN runs' = WithRun(RunOf(e), "failed") /\ tx' = Conflicting(tx)
       ELSE UNCHANGED <<runs, tx>>
  /\ Goto(e, "release")
  /\ NoFault
  /\ UNCHANGED <<now, row, outcome, attempt, began, frozen, seq, plan, history>>

MarkFailedFails(e) ==
  /\ pc[e] = "mark"
  /\ Goto(e, "release")
  /\ Fault
  /\ UNCHANGED <<now, row, runs, outcome, attempt, began, frozen, seq, plan, tx, history>>

ReleaseLease(e) ==
  /\ pc[e] = "release"
  /\ IF Releasable(e)
       THEN lease' = None /\ expires' = 0 /\ tx' = Conflicting(tx)
       ELSE UNCHANGED <<lease, expires, tx>>
  /\ End(e, "failed")
  /\ NoFault
  /\ UNCHANGED <<now, through, head, runs, attempt, began, frozen, seq, plan, history>>

ReleaseLeaseFails(e) ==
  /\ pc[e] = "release"
  /\ End(e, "failed")
  /\ Fault
  /\ UNCHANGED <<now, row, runs, attempt, began, frozen, seq, plan, tx, history>>

ClientStep(e) ==
  \/ Acquire(e) \/ AcquireLocked(e) \/ ReleaseNoop(e) \/ BeginRun(e)
  \/ Project(e) \/ RenewLease(e) \/ SubmitPublish(e) \/ PublishReply(e)
  \/ ReadReceipt(e) \/ MarkFailed(e) \/ ReleaseLease(e)

ClientFault(e) ==
  \/ Crash(e) \/ AcquireFails(e) \/ ReleaseNoopFails(e) \/ BeginRunFails(e)
  \/ ProjectFails(e) \/ RenewLeaseFails(e) \/ SubmitPublishFails(e)
  \/ TransportError(e) \/ ReceiptUnreadable(e) \/ MarkFailedFails(e)
  \/ ReleaseLeaseFails(e)

----------------------------------------------------------------------------
(* The publish script on the server.                                       *)

(* The transaction takes its snapshot if the ASSERTs hold: it will read the*)
(* events of its window that have reached the warehouse by now.            *)
Opened(a) ==
  [phase |-> "open", run |-> tx[a].run, start |-> tx[a].start, opened |-> now]

TxBegin(a) ==
  /\ tx[a].phase = "sent"
  /\ tx' = [tx EXCEPT ![a] =
       IF PublishAsserts(a) THEN Opened(a) ELSE Over("rejected")]
  /\ NoFault
  /\ UNCHANGED <<now, row, runs, client, history>>

EventsRead(a) ==
  {t \in tx[a].start..(tx[a].run.to - 1) :
     Start <= t /\ t \in 0..MaxTime /\ t + Lateness[t] <= tx[a].opened}

(* Facts, watermark, run row and lease change together.  The compare-and-  *)
(* set of the UPDATE sees the snapshot the ASSERTs saw.                    *)
TxCommit(a) ==
  /\ tx[a].phase = "open" /\ tx[a].run \in DOMAIN runs
  /\ through' = tx[a].run.to
  /\ head' = tx[a].run
  /\ lease' = None /\ expires' = 0
  /\ runs' = WithRun(tx[a].run, "succeeded")
  /\ published' = published \cup {tx[a].run}
  /\ ingested' = ingested \cup EventsRead(a)
  /\ tx' = Finish(a, "committed")
  /\ NoFault
  /\ UNCHANGED <<now, client>>

(* A batch_blocking quality check fails: roll back, keep the evidence and  *)
(* fail the run.                                                           *)
TxGate(a) ==
  /\ tx[a].phase = "open"
  /\ runs' = IF Failable(tx[a].run) THEN WithRun(tx[a].run, "failed") ELSE runs
  /\ tx' = Finish(a, "gated")
  /\ Fault
  /\ UNCHANGED <<now, row, client, history>>

TxFails(a) ==
  /\ tx[a].phase \in {"sent", "open"}
  /\ tx' = [tx EXCEPT ![a] = Over("rejected")]
  /\ Fault
  /\ UNCHANGED <<now, row, runs, client, history>>

ServerStep(a) == TxBegin(a) \/ TxCommit(a)

Next ==
  \/ Tick
  \/ \E e \in Execution : Launch(e) \/ Retry(e) \/ ClientStep(e) \/ ClientFault(e)
  \/ \E a \in Attempt : ServerStep(a) \/ TxGate(a) \/ TxFails(a)

Spec == Init /\ [][Next]_vars

(* A started process and a submitted job keep running, Cloud Run retries,  *)
(* and time passes.  Nothing makes an execution start or a fault happen.   *)
Fairness ==
  /\ WF_vars(Tick)
  /\ \A e \in Execution : WF_vars(ClientStep(e)) /\ WF_vars(Retry(e))
  /\ \A a \in Attempt : WF_vars(ServerStep(a))

FairSpec == Spec /\ Fairness

----------------------------------------------------------------------------
(* Properties.                                                             *)

(* No event is lost to a late arrival: once an event has reached the       *)
(* warehouse and every later window starts after it, it has been published.*)
(* This is what the overlap of window() is for.                            *)
NoLateEventLost ==
  \A t \in Start..MaxTime :
    t + Lateness[t] <= now /\ through # None /\ t < through - Overlap
      => t \in ingested

(* Between acquiring the lease and the end of its transaction, a live      *)
(* attempt holds it, unexpired; the one exception is that a transaction of *)
(* the same execution has already moved the watermark on.                  *)
LeaseHeldThroughRun ==
  \A e \in Execution :
    pc[e] \in {"begin", "project", "renew", "publish"} =>
      \/ lease = e /\ now < expires
      \/ through # plan[e].from

(* The lease changes hands only after it expired, is cleared only by its   *)
(* holder's release or by a publication of its holder, and only the holder *)
(* of the lease publishes.                                                 *)
LeaseDiscipline ==
  [][/\ lease # None /\ lease' \notin {None, lease} => expires <= now
     /\ lease # None /\ lease' = None =>
          \/ head' # head /\ head'.exec = lease
          \/ lease \in Execution /\ pc[lease] \in {"noop", "release"}
                                 /\ pc'[lease] = "ended"
     /\ head' # head => lease = head'.exec]_vars

(* A run that reports success is durable: it was published under exactly   *)
(* the window it reports, even when the reply was lost.                    *)
SuccessIsDurable ==
  \A e \in Execution : outcome[e] = "succeeded" => RunOf(e) \in published

(* The run that pipeline_state names as published reads 'succeeded' in     *)
(* pipeline_runs, whatever a failing client wrote last.                    *)
PublishedRunSucceeded == head # None => runs[head] = "succeeded"

(* A run that reports failure published nothing.                           *)
FailureIsTruthful ==
  \A e \in Execution : outcome[e] = "failed" => RunOf(e) \notin published

(* The pipeline implements the chain of publications.                      *)
Chain == INSTANCE Publication WITH Run <- RunId, watermark <- through
PublishesInChain == Chain!Spec

(* A lease left behind by a process that ended can be taken again.         *)
LeaseRecovers ==
  \A e \in Execution :
    (lease = e /\ pc[e] = "ended") ~> (lease # e \/ expires <= now)

(* A targeted catch-up publishes up to its target, however many windows    *)
(* that takes, unless a fault hits it or a rival holds the lease when it   *)
(* comes to acquire it.                                                    *)
CatchUpReachesTarget ==
  \A e \in Targeted :
    (pc[e] = "acquire" /\ TargetEnd(e) > Start) ~>
      \/ through # None /\ through >= TargetEnd(e)
      \/ faults > 0
      \/ outcome[e] = "locked"
=============================================================================
