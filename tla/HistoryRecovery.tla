-------------------------- MODULE HistoryRecovery --------------------------
(***************************************************************************)
(* Two ways to put old conversations into the canonical tables: the roster *)
(* backfill (app/jobs/backfill_roster_history.py), which an operator runs  *)
(* while the hourly publisher is frozen, under the publisher's lease, and  *)
(* the one-time rebuild (app/jobs/rebuild_history.py), which takes none.   *)
(* Both compile facts out of Firestore messages; the publisher makes facts *)
(* out of telemetry for the same turns.                                    *)
(*                                                                         *)
(* A turn is a question and its answer.  A message without a request ID    *)
(* compiles to a fallback identity, not the one its telemetry has; the     *)
(* telemetry of a question may name the placeholder of the answer as its   *)
(* message; a turn around midnight can have its telemetry on the next day; *)
(* and a turn can straddle the start of the window, with only its answer   *)
(* inside.  Telemetry reports a question and its answer apart: either may  *)
(* be late, lost or quarantined.                                           *)
(* The backfill is the one without an event manifest: the stricter plan    *)
(* made with one is left out, as are conversations and citations and the   *)
(* freeze receipt's contents.                                              *)
(***************************************************************************)
EXTENDS Naturals, FiniteSets

CONSTANTS
  Turn, Day,                      \* turns, and the day of their messages
  Untraced, Placeholder, Skewed, Straddling,  \* subsets of Turn, as above
  Operator,                       \* backfill runs, each with its own lease id
  Nobody,
  MaxRuns, MaxBindings            \* bounds: publications, roster changes

HistoryAssumption ==
  /\ Day \in [Turn -> Nat]
  /\ MaxRuns \in Nat /\ MaxBindings \in Nat
  /\ Nobody \notin Operator \cup {"publisher"} /\ "publisher" \notin Operator

VARIABLES
  asked,                \* turns in Firestore
  facts,                \* question_events and answer_events
  run, holder, lapsed,  \* the row 'published': its run, its lease, expiry
  paused, execution, script,  \* schedulers; publisher process and its script
  bindings,             \* version of the selected users' roster rows
  step, approved, draft, insert,   \* backfills: phase, digest, plan, script
  receipts,             \* plans for which a receipt was written
  phase, compiled, due, \* the rebuild: phase, its rows, days not yet written
  recovered,            \* answers it found in place as history
  rebuilt               \* the row 'history_rebuild': rows and such answers

source    == <<asked, bindings>>
leaseRow     == <<holder, lapsed>>
publisher == <<paused, execution, script>>
backfill  == <<step, approved, draft, insert, receipts>>
rebuild   == <<phase, compiled, due, recovered, rebuilt>>
hvars == <<source, facts, run, leaseRow, publisher, backfill, rebuild>>

Kind == {"question", "answer"}
Days == {Day[t] + i : t \in Turn, i \in 0..1}
Fact == [turn : Turn, kind : Kind, id : {"request", "fallback"}, day : Days,
         origin : {"telemetry", "history"}]
Plan == [source : SUBSET Turn, bindings : 0..MaxBindings, facts : SUBSET Fact,
         run : 0..MaxRuns]
NoPlan == [source |-> {}, bindings |-> 0, facts |-> {}, run |-> 0]
NoRebuild == [rows |-> {}, answers |-> {}]
Step == {"idle", "planned", "acquire", "source", "facts", "freeze", "renew", "writers",
         "apply", "sent", "verify", "receipt", "release", "ended"}

HistoryTypeOK ==
  /\ asked \subseteq Turn /\ bindings \in 0..MaxBindings
  /\ facts \subseteq Fact /\ run \in 0..MaxRuns
  /\ holder \in Operator \cup {"publisher", Nobody} /\ lapsed \in BOOLEAN
  /\ paused \in BOOLEAN /\ execution \in BOOLEAN /\ script \in BOOLEAN
  /\ step \in [Operator -> Step]
  /\ approved \in [Operator -> Plan] /\ draft \in [Operator -> Plan]
  /\ receipts \subseteq Plan
  /\ insert \in [Operator -> {"none", "sent", "committed", "rejected"}]
  /\ phase \in {"idle", "apply", "verify", "record"}
  /\ compiled \subseteq Fact /\ due \subseteq Days /\ recovered \subseteq Fact
  /\ rebuilt \in [rows : SUBSET Fact, answers : SUBSET Fact]

HistoryInit ==
  /\ asked = {} /\ bindings = 0 /\ facts = {} /\ run = 0
  /\ holder = Nobody /\ lapsed = FALSE
  /\ paused = FALSE /\ execution = FALSE /\ script = FALSE
  /\ step = [b \in Operator |-> "idle"]
  /\ approved = [b \in Operator |-> NoPlan] /\ draft = [b \in Operator |-> NoPlan]
  /\ insert = [b \in Operator |-> "none"] /\ receipts = {}
  /\ phase = "idle" /\ compiled = {} /\ due = {} /\ recovered = {}
  /\ rebuilt = NoRebuild

----------------------------------------------------------------------------
(* Facts, as the two compilers, the publisher and the checks see them.     *)

History(t, k) ==
  [turn |-> t, kind |-> k, id |-> IF t \in Untraced THEN "fallback" ELSE "request",
   day |-> Day[t], origin |-> "history"]
Telemetry(t, k) ==
  [turn |-> t, kind |-> k, id |-> "request",
   day |-> IF t \in Skewed THEN Day[t] + 1 ELSE Day[t], origin |-> "telemetry"]

(* What telemetry may report of turns, each event by itself.               *)
Reported(turns) == {Telemetry(t, k) : t \in turns, k \in Kind}

(* Rows whose own time is inside the window.                               *)
Compiled(turns) ==
  {History(t, "answer") : t \in turns} \cup
  {History(t, "question") : t \in turns \ Straddling}

(* The message a fact names, among the two of its turn.                    *)
Message(f) ==
  IF /\ f.kind = "question"
     /\ f.origin = "history" \/ f.turn \notin Placeholder
  THEN "user" ELSE "assistant"

SameTurn(f, g)  == f.turn = g.turn /\ f.kind = g.kind
SameEvent(f, g) == SameTurn(f, g) /\ f.id = g.id
SameMessage(f, g) == SameTurn(f, g) /\ Message(f) = Message(g)
Asks(q, f)      == q.kind = "question" /\ q.turn = f.turn /\ q.id = f.id

(* missing_rows matches by event, request and message, and refuses a match *)
(* that is of another event or names another message.                      *)
Matched(f, g) == SameEvent(f, g) \/ SameMessage(f, g)

Missing(p) == {f \in Compiled(p.source) : \A g \in p.facts : ~Matched(f, g)}

Unambiguous(p) ==
  /\ \A f, g \in p.facts : Matched(f, g) => f = g
  /\ \A f \in Compiled(p.source), g \in p.facts :
       Matched(f, g) => SameEvent(f, g) /\ SameMessage(f, g)

AnswersTaken(p) == TRUE
AnswersAsked(p) ==
  \A f \in Missing(p) : f.kind = "answer" =>
    \E q \in Compiled(p.source) \cup p.facts : Asks(q, f)

Plannable(p) == Unambiguous(p) /\ AnswersAsked(p)

(* The history MERGE matches an event within the day it writes.            *)
Inserted(rows) ==
  {f \in rows : \A g \in facts : SameEvent(f, g) => f.day # g.day}

(* The publisher's MERGE matches an event within the days of its events;   *)
(* its quality checks refuse a duplicate event of a request it touches,    *)
(* up to a day before or after those.                                      *)
Windows == {{d \in Days : first <= d /\ d <= last} : first, last \in Days}
Merged(rows, days) ==
  rows \cup {g \in facts : g.day \notin days \/ \A f \in rows : ~SameEvent(f, g)}
Checked(all, turns, days) ==
  {f \in all : f.turn \in turns /\ f.id = "request" /\ \E d \in days : f.day <= d + 1 /\ d <= f.day + 1}
Publishable(all, turns, days) ==
  \A f, g \in Checked(all, turns, days) : SameEvent(f, g) => f = g

----------------------------------------------------------------------------
(* Users, telemetry, schedulers and the hourly publisher.                  *)

AskTurn(t) ==
  /\ t \notin asked
  /\ asked' = asked \cup {t}
  /\ UNCHANGED <<bindings, facts, run, leaseRow, publisher, backfill, rebuild>>

(* Before a plan is made, a change is of no consequence.                   *)
RosterChanges ==
  /\ bindings < MaxBindings /\ \E b \in Operator : step[b] \notin {"idle", "ended"}
  /\ bindings' = bindings + 1
  /\ UNCHANGED <<asked, facts, run, leaseRow, publisher, backfill, rebuild>>

SwitchSchedulers ==
  /\ paused' = ~paused
  /\ UNCHANGED <<source, facts, run, leaseRow, execution, script, backfill, rebuild>>

LeaseExpires ==
  /\ holder # Nobody /\ ~lapsed
  /\ lapsed' = TRUE
  /\ UNCHANGED <<source, facts, run, holder, publisher, backfill, rebuild>>

LeaseFree == holder = Nobody \/ lapsed
Take(who) == holder' = who /\ lapsed' = FALSE
Free(who) ==
  IF holder = who THEN holder' = Nobody /\ lapsed' = FALSE ELSE UNCHANGED leaseRow

PublisherStarts ==
  /\ ~paused /\ ~execution /\ ~script /\ run < MaxRuns
  /\ LeaseFree /\ Take("publisher")
  /\ execution' = TRUE
  /\ UNCHANGED <<source, facts, run, paused, script, backfill, rebuild>>

PublisherSubmits ==
  /\ execution /\ ~script
  /\ script' = TRUE
  /\ UNCHANGED <<source, facts, run, leaseRow, paused, execution, backfill, rebuild>>

(* Of the requests its window has events of, whichever of their events it *)
(* has and admits; all of the event's days, or more.                       *)
PublisherCommits ==
  /\ script /\ holder = "publisher" /\ ~lapsed
  /\ \E turns \in SUBSET asked, days \in Windows :
       \E rows \in SUBSET Reported(turns) :
         /\ {f.day : f \in rows} \subseteq days
         /\ Publishable(Merged(rows, days), turns, days)
         /\ facts' = Merged(rows, days)
  /\ run' = run + 1 /\ Free("publisher")
  /\ script' = FALSE
  /\ UNCHANGED <<source, paused, execution, backfill, rebuild>>

(* Refused by its assertions or its checks, or failed.                     *)
ScriptEnds ==
  /\ script /\ script' = FALSE
  /\ UNCHANGED <<source, facts, run, leaseRow, paused, execution, backfill, rebuild>>

(* Also with its script still running, and with its lease kept.            *)
ExecutionEnds ==
  /\ execution /\ execution' = FALSE
  /\ (Free("publisher") \/ UNCHANGED leaseRow)
  /\ UNCHANGED <<source, facts, run, paused, script, backfill, rebuild>>

----------------------------------------------------------------------------
(* backfill_roster_history.main, one action per call.                      *)

GoOn(b, s) == step' = [step EXCEPT ![b] = s] /\ UNCHANGED <<approved, draft>>

(* A process that is gone has no plans; a script it has sent keeps its own. *)
EndRun(b) ==
  /\ step' = [step EXCEPT ![b] = "ended"]
  /\ approved' = [approved EXCEPT ![b] = NoPlan]
  /\ draft' = [draft EXCEPT ![b] = IF insert[b] = "sent" THEN @ ELSE NoPlan]

PlanNow == [source |-> asked, bindings |-> bindings, facts |-> facts, run |-> run]

(* Without --apply: the operator reviews this plan and its digest.         *)
PlanOnly(b) ==
  /\ step[b] = "idle" /\ run > 0 /\ Plannable(PlanNow)
  /\ approved' = [approved EXCEPT ![b] = PlanNow]
  /\ step' = [step EXCEPT ![b] = "planned"]
  /\ UNCHANGED <<source, facts, run, leaseRow, publisher, draft, insert, receipts, rebuild>>

Frozen == paused /\ ~execution
WritersIdle == ~script /\ \A b \in Operator : insert[b] # "sent"

CheckFreeze(b) ==
  /\ step[b] = "planned"
  /\ IF Frozen /\ WritersIdle THEN GoOn(b, "acquire") ELSE EndRun(b)
  /\ UNCHANGED <<source, facts, run, leaseRow, publisher, insert, receipts, rebuild>>

AcquireLease(b) ==
  /\ step[b] = "acquire"
  /\ IF LeaseFree THEN Take(b) /\ GoOn(b, "source") ELSE UNCHANGED leaseRow /\ EndRun(b)
  /\ UNCHANGED <<source, facts, run, publisher, insert, receipts, rebuild>>

ReadSource(b) ==
  /\ step[b] = "source"
  /\ draft' = [draft EXCEPT ![b] = [@ EXCEPT !.source = asked, !.bindings = bindings]]
  /\ step' = [step EXCEPT ![b] = "facts"]
  /\ UNCHANGED <<source, facts, run, leaseRow, publisher, approved, insert, receipts, rebuild>>

ReadFacts(b) ==
  /\ step[b] = "facts"
  /\ draft' = [draft EXCEPT ![b] = [@ EXCEPT !.facts = facts, !.run = run]]
  /\ approved' = [approved EXCEPT ![b] = NoPlan]
  /\ step' = [step EXCEPT ![b] = IF draft'[b] = approved[b] THEN "freeze" ELSE "release"]
  /\ UNCHANGED <<source, facts, run, leaseRow, publisher, insert, receipts, rebuild>>

CheckFreezeAgain(b) ==
  /\ step[b] = "freeze"
  /\ GoOn(b, IF Frozen THEN "renew" ELSE "release")
  /\ UNCHANGED <<source, facts, run, leaseRow, publisher, insert, receipts, rebuild>>

RenewBackfill(b) ==
  /\ step[b] = "renew"
  /\ IF holder = b THEN Take(b) /\ GoOn(b, "writers")
                   ELSE UNCHANGED leaseRow /\ GoOn(b, "release")
  /\ UNCHANGED <<source, facts, run, publisher, insert, receipts, rebuild>>

CheckWriters(b) ==
  /\ step[b] = "writers"
  /\ GoOn(b, IF WritersIdle /\ bindings = draft[b].bindings THEN "apply" ELSE "release")
  /\ UNCHANGED <<source, facts, run, leaseRow, publisher, insert, receipts, rebuild>>

Apply(b) ==
  /\ step[b] = "apply"
  /\ insert' = [insert EXCEPT ![b] = "sent"] /\ GoOn(b, "sent")
  /\ UNCHANGED <<source, facts, run, leaseRow, publisher, receipts, rebuild>>

InsertAssertsNothing(b) == TRUE
InsertAsserts(b) == holder = b /\ ~lapsed /\ run = draft[b].run

InsertCommits(b) ==
  /\ insert[b] = "sent" /\ InsertAsserts(b)
  /\ facts' = facts \cup Inserted(Missing(draft[b]))
  /\ insert' = [insert EXCEPT ![b] = "committed"]
  /\ UNCHANGED <<source, run, leaseRow, publisher, step, approved, draft, receipts, rebuild>>

InsertRejected(b) ==
  /\ insert[b] = "sent"
  /\ insert' = [insert EXCEPT ![b] = "rejected"]
  /\ UNCHANGED <<source, facts, run, leaseRow, publisher, step, approved, draft, receipts,
                 rebuild>>

(* Any error of the script, or a lost answer, leaves the lease to expire.  *)
InsertReplies(b) ==
  /\ step[b] = "sent"
  /\ EndRun(b) \/ (insert[b] = "committed" /\ GoOn(b, "verify"))
  /\ UNCHANGED <<source, facts, run, leaseRow, publisher, insert, receipts, rebuild>>

Verified(p, q) ==
  /\ Plannable(q) /\ Missing(q) = {}
  /\ q.run = p.run /\ q.source = p.source /\ q.bindings = p.bindings

Verify(b) ==
  /\ step[b] = "verify"
  /\ GoOn(b, IF Verified(draft[b], PlanNow) THEN "receipt" ELSE "release")
  /\ UNCHANGED <<source, facts, run, leaseRow, publisher, insert, receipts, rebuild>>

WriteReceipt(b) ==
  /\ step[b] = "receipt"
  /\ receipts' = receipts \cup {draft[b]} /\ GoOn(b, "release")
  /\ UNCHANGED <<source, facts, run, leaseRow, publisher, insert, rebuild>>

ReleaseLease(b) ==
  /\ step[b] = "release" /\ Free(b) /\ EndRun(b)
  /\ UNCHANGED <<source, facts, run, publisher, insert, receipts, rebuild>>

BackfillCrashes(b) ==
  /\ step[b] \notin {"idle", "ended"} /\ EndRun(b)
  /\ UNCHANGED <<source, facts, run, leaseRow, publisher, insert, receipts, rebuild>>

----------------------------------------------------------------------------
(* rebuild_history.main --apply: one transaction per day, in order.        *)

Compile ==
  /\ phase = "idle" /\ asked # {}
  /\ compiled' = Compiled(asked) /\ due' = {f.day : f \in compiled'}
  /\ phase' = "apply"
  /\ UNCHANGED <<source, facts, run, leaseRow, publisher, backfill, recovered, rebuilt>>

ApplyDay ==
  /\ phase = "apply" /\ due # {}
  /\ \E day \in due :
       /\ \A other \in due : day <= other
       /\ facts' = facts \cup Inserted({f \in compiled : f.day = day})
       /\ due' = due \ {day}
  /\ phase' = IF due' = {} THEN "verify" ELSE "apply"
  /\ UNCHANGED <<source, run, leaseRow, publisher, backfill, compiled, recovered, rebuilt>>

Covered(rows) == \A f \in rows : \E g \in facts : SameEvent(f, g)
AskedIn(rows) == \A f \in rows : f.kind = "answer" => \E q \in facts : Asks(q, f)

(* The days the query reads: those of the rows, and for answers one more   *)
(* on either side.                                                         *)
Span == {d \in Days : \E f, g \in compiled : f.day <= d /\ d <= g.day}
Seen ==
  {f \in facts : f.day \in Span} \cup
  {f \in facts : f.kind = "answer" /\ \E d \in Span : f.day <= d + 1 /\ d <= f.day + 1}

RebuildVerified ==
  /\ \A f, g \in Seen : SameEvent(f, g) => f = g
  /\ \A f \in Seen : f.kind = "answer" /\ f.origin = "history" =>
       \E q \in Seen : Asks(q, f)
  /\ \A f \in compiled : \E g \in Seen : SameEvent(f, g)

RebuildEnds == phase' = "idle" /\ compiled' = {} /\ recovered' = {}

VerifyRebuild ==
  /\ phase = "verify"
  /\ \/ /\ RebuildVerified /\ phase' = "record" /\ UNCHANGED compiled
        /\ recovered' = {f \in compiled \cap Seen : f.kind = "answer"}
     \/ ~RebuildVerified /\ RebuildEnds
  /\ UNCHANGED <<source, facts, run, leaseRow, publisher, backfill, due, rebuilt>>

RecordRebuild ==
  /\ phase = "record"
  /\ rebuilt' = [rows |-> compiled, answers |-> recovered] /\ RebuildEnds
  /\ UNCHANGED <<source, facts, run, leaseRow, publisher, backfill, due>>

(* A partition's transaction failed, or the process died between two.      *)
RebuildStops ==
  /\ phase # "idle" /\ RebuildEnds /\ due' = {}
  /\ UNCHANGED <<source, facts, run, leaseRow, publisher, backfill, rebuilt>>

HistoryNext ==
  \/ \E t \in Turn : AskTurn(t)
  \/ RosterChanges \/ SwitchSchedulers \/ LeaseExpires
  \/ PublisherStarts \/ PublisherSubmits \/ PublisherCommits \/ ScriptEnds \/ ExecutionEnds
  \/ \E b \in Operator :
       \/ PlanOnly(b) \/ CheckFreeze(b) \/ AcquireLease(b) \/ ReadSource(b) \/ ReadFacts(b)
       \/ CheckFreezeAgain(b) \/ RenewBackfill(b) \/ CheckWriters(b) \/ Apply(b)
       \/ InsertCommits(b) \/ InsertRejected(b) \/ InsertReplies(b)
       \/ Verify(b) \/ WriteReceipt(b) \/ ReleaseLease(b) \/ BackfillCrashes(b)
  \/ Compile \/ ApplyDay \/ VerifyRebuild \/ RecordRebuild \/ RebuildStops

HistorySpec == HistoryInit /\ [][HistoryNext]_hvars

----------------------------------------------------------------------------
(* Properties.                                                             *)

(* A backfill only adds, and only answers that are not there under any     *)
(* identity; a question it adds can be there only as the telemetry of an   *)
(* untraced turn that names the placeholder.  So even when its lease       *)
(* expired or the freeze ended after it had planned.                       *)
BackfillOnlyAddsMissing ==
  [][insert' # insert /\ facts' # facts =>
       /\ facts \subseteq facts' /\ run' = run
       /\ \A f \in facts' \ facts, g \in facts : SameTurn(f, g) =>
            /\ f.kind = "question" /\ g.origin = "telemetry"
            /\ f.turn \in Untraced \cap Placeholder]_hvars

(* What a backfill's receipt covers is there, each answer it recovered     *)
(* with its question, and stays there through later publications and       *)
(* rebuilds.                                                               *)
ReceiptsHold ==
  \A p \in receipts :
    Covered(Compiled(p.source)) /\ AskedIn(Missing(p))

(* The 'history_rebuild' row, on which old tables are deleted, stands only *)
(* for a rebuild all of whose rows are in the tables, each answer that was *)
(* there as history with its question, though it was written day by day    *)
(* and perhaps restarted.  An answer the publisher had taken over may have *)
(* none: the verification asks only of history.                            *)
RebuildRecordHolds == Covered(rebuilt.rows) /\ AskedIn(rebuilt.answers)

(* What the receipts and the record stand for stays in the tables.         *)
RecordsHold == ReceiptsHold /\ RebuildRecordHolds
=============================================================================
