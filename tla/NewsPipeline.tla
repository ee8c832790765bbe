---------------------------- MODULE NewsPipeline ----------------------------
(***************************************************************************)
(* The News usage publisher app/jobs/news_usage_ingestion.py, as the       *)
(* refresh job runs it: Chat is published first, then News against a row,  *)
(* a lease and a watermark of its own.  Every process makes up its own     *)
(* News identity, so a Cloud Run retry is one more job here, locked out by *)
(* the lease its predecessor left.                                         *)
(*                                                                         *)
(* The publish script is one step at the server: the publishers' own       *)
(* transactions are serialised on pipeline_state.  A Chat publication is a *)
(* number; RefreshPipeline has the inside of one.                          *)
(***************************************************************************)
EXTENDS Integers

CONSTANTS
  Job,            \* processes of the refresh job
  UntilCurrent,   \* those launched with --until-current
  Config,         \* MONITOR_NEWS_USAGE_START_AT (and source) a job may run with
  None,
  Delay, Overlap, MaxWindow, LeaseTTL, JobTimeout,   \* RefreshPolicy
  MaxChat,        \* bound: Chat publications
  LastStart, MaxTime, MaxFaults                      \* bounds

ASSUME NewsAssumption ==
  /\ UntilCurrent \subseteq Job
  /\ Config \subseteq Nat
  /\ Delay \in Nat /\ Overlap \in Nat /\ MaxWindow \in Nat
  /\ LeaseTTL \in Nat /\ JobTimeout \in Nat /\ JobTimeout < LeaseTTL
  /\ Overlap < MaxWindow
  /\ MaxChat \in Nat /\ LastStart \in Nat /\ MaxTime \in Nat /\ MaxFaults \in Nat
  /\ None \notin Job /\ None \notin Int

VARIABLES
  now,
  chat,                                  \* publications of the 'published' row
  (* the 'news_usage' row; its config is None before the row exists        *)
  config, through, head, roster, lease, expires,
  runs,                                  \* News rows of pipeline_runs
  pc, outcome, began, frozen, cfg, seq, plan, pinned,    \* the processes
  tx,                                    \* the publish script each submitted
  published, faults                      \* history; injected faults so far

row    == <<config, through, head, roster, lease, expires>>
clock  == <<began, frozen, cfg>>
vars   == <<now, chat, row, runs, pc, outcome, clock, seq, plan, pinned, tx,
            published, faults>>

Watermark == Nat \cup {None}
RunId == [job : Job, seq : Nat, from : Watermark, to : Nat]
Phase == {"idle", "chat", "acquire", "noop", "begin", "roster", "renew", "publish",
          "sent", "receipt", "mark", "release", "ended"}

TypeOK ==
  /\ now \in 0..MaxTime /\ chat \in 0..MaxChat
  /\ config \in Config \cup {None} /\ through \in Watermark
  /\ head \in RunId \cup {None} /\ roster \in 0..MaxChat
  /\ lease \in Job \cup {None} /\ expires \in Nat
  /\ DOMAIN runs \subseteq RunId
  /\ \A r \in DOMAIN runs : runs[r] \in {"running", "failed", "succeeded"}
  /\ pc \in [Job -> Phase]
  /\ outcome \in [Job -> {"none", "current", "succeeded", "failed", "locked",
                          "unknown", "crashed"}]
  /\ began \in [Job -> Nat] /\ frozen \in [Job -> Nat]
  /\ cfg \in [Job -> Config \cup {None}]
  /\ seq \in [Job -> Nat]
  /\ plan \in [Job -> [from : Watermark, to : Nat]]
  /\ pinned \in [Job -> 0..MaxChat]
  /\ tx \in [Job -> {"none", "sent", "committed", "rejected"}]
  /\ published \subseteq RunId /\ faults \in 0..MaxFaults

Init ==
  /\ now = 0 /\ chat = 0
  /\ config = None /\ through = None /\ head = None /\ roster = 0
  /\ lease = None /\ expires = 0
  /\ runs = [r \in {} |-> "running"]
  /\ pc = [j \in Job |-> "idle"] /\ outcome = [j \in Job |-> "none"]
  /\ began = [j \in Job |-> 0] /\ frozen = [j \in Job |-> 0]
  /\ cfg = [j \in Job |-> None] /\ seq = [j \in Job |-> 0]
  /\ plan = [j \in Job |-> [from |-> None, to |-> 0]]
  /\ pinned = [j \in Job |-> 0]
  /\ tx = [j \in Job |-> "none"]
  /\ published = {} /\ faults = 0

----------------------------------------------------------------------------
(* Windows, identities and the conditions of the SQL statements.           *)

Larger(a, b)  == IF a < b THEN b ELSE a
Smaller(a, b) == IF a < b THEN a ELSE b

Running(j) == pc[j] \notin {"idle", "ended"}
Target(j)  == frozen[j] - Delay
RunOf(j)   == [job |-> j, seq |-> seq[j], from |-> plan[j].from, to |-> plan[j].to]

WindowStart(j, w) == IF w = None THEN cfg[j] ELSE Larger(cfg[j], w - Overlap)
WindowEnd(j, w)   == Smaller(Target(j), WindowStart(j, w) + MaxWindow)

(* The MERGE inserts the row, or takes a lease that is free or expired     *)
(* when the row was created with the configuration of this process.        *)
Matches(j)   == config \in {None, cfg[j]}
Takeable(j)  == lease \in {None, j} \/ expires <= now

BeforeStartIgnored(j) == FALSE
BeforeStart(j)     == through = None /\ Target(j) <= cfg[j]
UpToDateExactly(j) == through = Target(j)
UpToDate(j)        == through # None /\ through >= Target(j)

WithRun(r, status) ==
  [x \in DOMAIN runs \cup {r} |-> IF x = r THEN status ELSE runs[x]]
FailedRunAlways(r) == WithRun(r, "failed")
FailedRun(r) ==
  IF r \in DOMAIN runs /\ runs[r] = "running" THEN WithRun(r, "failed") ELSE runs

(* What the publish script asserts, first and last.                        *)
HoldsItsLease(j) == lease = j /\ now < expires /\ config = cfg[j]
RosterAssertedEarlier(j) == pinned[j] \in 1..chat
RosterAsserted(j) == pinned[j] = chat
ScriptAsserts(j) ==
  /\ HoldsItsLease(j)
  /\ through = plan[j].from
  /\ RosterAsserted(j)
  /\ RunOf(j) \in DOMAIN runs /\ runs[RunOf(j)] = "running"

Committed(j) ==
  /\ head = RunOf(j) /\ runs[RunOf(j)] = "succeeded"
  /\ roster = pinned[j] /\ config = cfg[j] /\ through = plan[j].to

Fault   == faults < MaxFaults /\ faults' = faults + 1
NoFault == faults' = faults

Goto(j, phase) == pc' = [pc EXCEPT ![j] = phase] /\ UNCHANGED outcome
End(j, result) ==
  /\ pc' = [pc EXCEPT ![j] = "ended"]
  /\ outcome' = [outcome EXCEPT ![j] = result]

----------------------------------------------------------------------------
(* Cloud Run, the clock and the Chat publisher.                            *)

Tick ==
  /\ now < MaxTime
  /\ \A j \in Job : Running(j) => now < began[j] + JobTimeout
  /\ now' = now + 1
  /\ UNCHANGED <<chat, row, runs, pc, outcome, clock, seq, plan, pinned, tx,
                 published, faults>>

Launch(j) ==
  /\ pc[j] = "idle" /\ now <= LastStart
  /\ Goto(j, "chat")
  /\ began' = [began EXCEPT ![j] = now]
  /\ \E c \in Config : cfg' = [cfg EXCEPT ![j] = c]
  /\ UNCHANGED <<now, chat, row, runs, frozen, seq, plan, pinned, tx, published, faults>>

(* News starts, and freezes its time, only after Chat succeeded.           *)
ChatRefreshed(j) ==
  /\ pc[j] = "chat"
  /\ chat' \in {chat, chat + 1} /\ chat' \in 1..MaxChat
  /\ Goto(j, "acquire")
  /\ frozen' = [frozen EXCEPT ![j] = now]
  /\ UNCHANGED <<now, row, runs, began, cfg, seq, plan, pinned, tx, published, faults>>

(* The Chat job raised, or another execution holds its lease.              *)
ChatRefused(j) ==
  /\ pc[j] = "chat"
  /\ End(j, "failed")
  /\ UNCHANGED <<now, chat, row, runs, clock, seq, plan, pinned, tx, published, faults>>

Crash(j) ==
  /\ Running(j)
  /\ End(j, "crashed")
  /\ Fault
  /\ UNCHANGED <<now, chat, row, runs, clock, seq, plan, pinned, tx, published>>

----------------------------------------------------------------------------
(* NewsUsageRefreshJob.run, one action per call to BigQuery.               *)

TakeLease(j) ==
  /\ Matches(j) /\ Takeable(j)
  /\ config' = cfg[j]
  /\ lease' = j /\ expires' = now + LeaseTTL
  /\ UNCHANGED <<through, head, roster>>

(* A watermark behind the target leaves a window that is not empty.        *)
Acquire(j) ==
  /\ pc[j] = "acquire" /\ TakeLease(j)
  /\ \/ (BeforeStart(j) \/ UpToDate(j)) /\ Goto(j, "noop") /\ UNCHANGED plan
     \/ /\ ~BeforeStart(j) /\ ~UpToDate(j) /\ Goto(j, "begin")
        /\ plan' = [plan EXCEPT ![j] = [from |-> through, to |-> WindowEnd(j, through)]]
  /\ UNCHANGED <<now, chat, runs, clock, seq, pinned, tx, published, faults>>

AcquireRefused(j) ==
  /\ pc[j] = "acquire"
  /\ \/ ~Matches(j) /\ End(j, "failed")
     \/ Matches(j) /\ ~Takeable(j) /\ End(j, "locked")
  /\ UNCHANGED <<now, chat, row, runs, clock, seq, plan, pinned, tx, published, faults>>

(* An error of the MERGE is outside every try: a lease it took is kept.    *)
AcquireFails(j) ==
  /\ pc[j] = "acquire"
  /\ TakeLease(j) \/ UNCHANGED row
  /\ End(j, "failed")
  /\ Fault
  /\ UNCHANGED <<now, chat, runs, clock, seq, plan, pinned, tx, published>>

FreeLease(j) ==
  /\ IF lease = j THEN lease' = None /\ expires' = 0 ELSE UNCHANGED <<lease, expires>>
  /\ UNCHANGED <<config, through, head, roster>>

ReleaseNoop(j) ==
  /\ pc[j] = "noop" /\ FreeLease(j)
  /\ End(j, "current")
  /\ UNCHANGED <<now, chat, runs, clock, seq, plan, pinned, tx, published, faults>>

ReleaseNoopFails(j) ==
  /\ pc[j] = "noop"
  /\ FreeLease(j) \/ UNCHANGED row
  /\ Goto(j, "release")
  /\ Fault
  /\ UNCHANGED <<now, chat, runs, clock, seq, plan, pinned, tx, published>>

InsertRun(j) == runs' = WithRun(RunOf(j), "running")

BeginRun(j) ==
  /\ pc[j] = "begin" /\ InsertRun(j)
  /\ Goto(j, "roster")
  /\ UNCHANGED <<now, chat, row, clock, seq, plan, pinned, tx, published, faults>>

(* run_started is still False: only the lease is given up.                 *)
BeginRunFails(j) ==
  /\ pc[j] = "begin" /\ (InsertRun(j) \/ UNCHANGED runs)
  /\ Goto(j, "release")
  /\ Fault
  /\ UNCHANGED <<now, chat, row, clock, seq, plan, pinned, tx, published>>

ReadRosterPointer(j) ==
  /\ pc[j] = "roster"
  /\ pinned' = [pinned EXCEPT ![j] = chat]
  /\ Goto(j, "renew")
  /\ UNCHANGED <<now, chat, row, runs, clock, seq, plan, tx, published, faults>>

(* The pointer cannot be read, or names a publication without fingerprints.*)
RosterUnavailable(j) ==
  /\ pc[j] = "roster"
  /\ Goto(j, "mark")
  /\ Fault
  /\ UNCHANGED <<now, chat, row, runs, clock, seq, plan, pinned, tx, published>>

ExtendLease(j) ==
  /\ lease = j /\ expires' = now + LeaseTTL
  /\ UNCHANGED <<config, through, head, roster, lease>>

RenewLease(j) ==
  /\ pc[j] = "renew"
  /\ \/ ExtendLease(j) /\ Goto(j, "publish") /\ NoFault
     \/ (ExtendLease(j) \/ UNCHANGED row) /\ Goto(j, "mark") /\ Fault
  /\ UNCHANGED <<now, chat, runs, clock, seq, plan, pinned, tx, published>>

SubmitScript(j) ==
  /\ pc[j] = "publish"
  /\ tx' = [tx EXCEPT ![j] = "sent"]
  /\ Goto(j, "sent")
  /\ UNCHANGED <<now, chat, row, runs, clock, seq, plan, pinned, published, faults>>

(* At the server, whatever has become of the client.                       *)
ScriptCommits(j) ==
  /\ tx[j] = "sent" /\ ScriptAsserts(j)
  /\ through' = plan[j].to /\ head' = RunOf(j) /\ roster' = pinned[j]
  /\ lease' = None /\ expires' = 0
  /\ runs' = WithRun(RunOf(j), "succeeded")
  /\ published' = published \cup {RunOf(j)}
  /\ tx' = [tx EXCEPT ![j] = "committed"]
  /\ UNCHANGED <<now, chat, config, pc, outcome, clock, seq, plan, pinned, faults>>

ScriptRejected(j) ==
  /\ tx[j] = "sent"
  /\ \/ ~ScriptAsserts(j) /\ NoFault
     \/ ScriptAsserts(j) /\ Fault
  /\ tx' = [tx EXCEPT ![j] = "rejected"]
  /\ UNCHANGED <<now, chat, row, runs, pc, outcome, clock, seq, plan, pinned, published>>

(* run_until_current goes on until its frozen target is published.         *)
Succeed(j) ==
  \/ /\ j \in UntilCurrent /\ plan[j].to < Target(j)
     /\ Goto(j, "acquire") /\ seq' = [seq EXCEPT ![j] = @ + 1]
  \/ /\ j \notin UntilCurrent \/ plan[j].to >= Target(j)
     /\ End(j, "succeeded") /\ UNCHANGED seq

ScriptReplies(j) ==
  /\ pc[j] = "sent"
  /\ \/ tx[j] = "committed" /\ Succeed(j) /\ NoFault
     \/ tx[j] = "rejected" /\ Goto(j, "receipt") /\ NoFault /\ UNCHANGED seq
     \/ Goto(j, "receipt") /\ Fault /\ UNCHANGED seq
  /\ UNCHANGED <<now, chat, row, runs, clock, plan, pinned, tx, published>>

ReadReceipt(j) ==
  /\ pc[j] = "receipt"
  /\ \/ Committed(j) /\ Succeed(j)
     \/ ~Committed(j) /\ Goto(j, "mark") /\ UNCHANGED seq
  /\ UNCHANGED <<now, chat, row, runs, clock, plan, pinned, tx, published, faults>>

(* The outcome stays unknown: the lease is preserved until it expires.     *)
ReceiptUnreadable(j) ==
  /\ pc[j] = "receipt"
  /\ End(j, "unknown")
  /\ Fault
  /\ UNCHANGED <<now, chat, row, runs, clock, seq, plan, pinned, tx, published>>

MarkFailed(j) ==
  /\ pc[j] = "mark"
  /\ \/ runs' = FailedRun(RunOf(j)) /\ NoFault
     \/ runs' \in {runs, FailedRun(RunOf(j))} /\ Fault
  /\ Goto(j, "release")
  /\ UNCHANGED <<now, chat, row, clock, seq, plan, pinned, tx, published>>

Release(j) ==
  /\ pc[j] = "release"
  /\ \/ FreeLease(j) /\ NoFault
     \/ UNCHANGED row /\ Fault
  /\ End(j, "failed")
  /\ UNCHANGED <<now, chat, runs, clock, seq, plan, pinned, tx, published>>

ClientStep(j) ==
  \/ ChatRefreshed(j) \/ ChatRefused(j)
  \/ Acquire(j) \/ AcquireRefused(j) \/ ReleaseNoop(j)
  \/ BeginRun(j) \/ ReadRosterPointer(j) \/ RenewLease(j) \/ SubmitScript(j)
  \/ ScriptReplies(j) \/ ReadReceipt(j) \/ MarkFailed(j) \/ Release(j)

ClientFault(j) ==
  \/ Crash(j) \/ AcquireFails(j) \/ ReleaseNoopFails(j) \/ BeginRunFails(j)
  \/ RosterUnavailable(j) \/ ReceiptUnreadable(j)

Next ==
  \/ Tick
  \/ \E j \in Job :
       Launch(j) \/ ClientStep(j) \/ ClientFault(j) \/ ScriptCommits(j) \/ ScriptRejected(j)

Spec == Init /\ [][Next]_vars

----------------------------------------------------------------------------
(* Properties.                                                             *)

(* pipeline_runs tells the truth about News: exactly the published runs    *)
(* read 'succeeded'.  A client that gave up while its script was still     *)
(* queued marks a failure that later stops the script, or finds it done.   *)
RunRowsAreTrue ==
  \A r \in DOMAIN runs \cup published :
    r \in published <=> r \in DOMAIN runs /\ runs[r] = "succeeded"

(* The News row implements the chain of publications, as the Chat row does.*)
Chain == INSTANCE Publication WITH Run <- RunId, watermark <- through
NewsPublishesInChain == Chain!Spec

(* A News publication is anchored to the Chat roster that is current when  *)
(* it commits, which may have moved since it was read, and to the source   *)
(* configuration its row was created with.                                 *)
PublicationIsAnchored ==
  [][head' # head => roster' = chat /\ config = cfg[head'.job]]_vars
=============================================================================
