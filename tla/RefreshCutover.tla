--------------------------- MODULE RefreshCutover ---------------------------
(***************************************************************************)
(* How the refresh moves from the old Cloud Scheduler job to the new one   *)
(* (scripts/cutover_refresh_scheduler.sh: freeze, activate), and how the   *)
(* legacy BigQuery transfer (DTS) is then switched off                     *)
(* (scripts/pause_legacy_bigquery_refresh.sh).                             *)
(*                                                                         *)
(* Activations and pauses are one protocol: a local receipt file holds an  *)
(* intent and later the final receipt; one Firestore document locks the    *)
(* whole refresh chain for one intent; what was read before the lock is    *)
(* read again under it, and once more after the mutation.  A refused check *)
(* and a crash are both StopOperation.  Freezing takes no lock: several    *)
(* freezes of one snapshot can overlap, with each other and activations.   *)
(***************************************************************************)
EXTENDS Naturals, FiniteSets

CONSTANTS
  Activation, Pause,   \* receipt files of operators, each a different intent
  After,               \* After[i]: the activation receipt a pause builds on
  Operator,            \* slots for concurrent runs of the scripts
  MinRuns,             \* successful executions the gate asks for
  MaxFlights, MaxPending,  \* bounds: executions and unsettled commands at one time
  NoIntent

CutoverAssumption ==
  /\ Activation \cap Pause = {} /\ After \in [Pause -> Activation]
  /\ MinRuns \in Nat \ {0} /\ MaxFlights \in Nat /\ MaxPending \in Nat
  /\ NoIntent \notin Activation \cup Pause

Operation  == Activation \cup Pause
Invoker   == {"old", "new", "manual", "backfill"}
Watched   == {After[d] : d \in Pause}   \* the activations a pause asks the ledger about

VARIABLES
  enabled,     \* the schedulers that fire
  transfer,    \* the transfer is scheduled
  flights,     \* executions of the refresh Job in flight: their invoker, and
               \* the activations whose canonical start they are later than
  proven,      \* per activation: successful executions by the new scheduler
  foreign,     \* activations with a success in the ledger that it did not start
  receiptOf,   \* receipt files
  chainLock,   \* the lock document
  commands,    \* commands not settled
  stage, task, \* operators
  freeze, saw, \* each freeze's stage; the schedulers it found enabled and
               \* has not paused
  verified,    \* the snapshot says that the freeze was verified
  backfilled,  \* there is a backfill receipt for this freeze
  disturbed,   \* history: freezes another one hid a running scheduler from,
               \* or whose readback a resume followed
  resumed      \* history: so was the recorded one, or a resume followed it

live       == <<enabled, transfer>>
executions == <<flights, proven, foreign>>
receipts   == <<receiptOf, chainLock, commands>>
frozen     == <<freeze, saw, verified, backfilled, disturbed, resumed>>
cvars      == <<live, executions, receipts, stage, task, frozen>>

CutoverTypeOK ==
  /\ enabled \subseteq {"old", "new"}
  /\ transfer \in BOOLEAN
  /\ flights \subseteq [by : Invoker, counts : SUBSET Watched]
  /\ proven \in [Watched -> 0..MinRuns] /\ foreign \subseteq Watched
  /\ receiptOf \in [Operation -> {"none", "intent", "final"}]
  /\ chainLock \in Operation \cup {NoIntent} /\ commands \subseteq Operation
  /\ stage \in [Operator -> {"idle", "ready", "locked", "change", "verify",
                             "finalize", "release"}]
  /\ task \in [Operator -> Operation \cup {NoIntent}]
  /\ freeze \in [Operator -> {"idle", "new", "old", "invalidate", "quiet", "read", "record"}]
  /\ saw \in [Operator -> SUBSET {"old", "new"}] /\ disturbed \subseteq Operator
  /\ verified \in BOOLEAN /\ backfilled \in BOOLEAN /\ resumed \in BOOLEAN

CutoverInit ==
  /\ enabled = {"old"} /\ transfer = TRUE
  /\ flights = {} /\ proven = [a \in Watched |-> 0] /\ foreign = {}
  /\ receiptOf = [i \in Operation |-> "none"] /\ chainLock = NoIntent /\ commands = {}
  /\ stage = [p \in Operator |-> "idle"] /\ task = [p \in Operator |-> NoIntent]
  /\ freeze = [p \in Operator |-> "idle"] /\ saw = [p \in Operator |-> {}]
  /\ verified = FALSE /\ backfilled = FALSE /\ disturbed = {} /\ resumed = FALSE

----------------------------------------------------------------------------
(* Executions of the Job.                                                  *)

Fires(by) ==
  \/ by \in enabled \/ by = "manual"
  \/ by = "backfill" /\ verified /\ enabled = {}

Launch(by) ==
  /\ Fires(by) /\ Cardinality(flights) < MaxFlights
  /\ \A f \in flights : f.by # by
  /\ flights' = flights \cup
       {[by |-> by,
         counts |-> {a \in Watched : receiptOf[a] # "none" /\ by # "backfill"}]}
  /\ UNCHANGED <<live, proven, foreign, receipts, stage, task, frozen>>

(* The backfill has a trigger source of its own; an execution by hand has  *)
(* the Job's, which is the scheduler's.                                    *)
Succeeds(f) ==
  /\ f \in flights /\ flights' = flights \ {f}
  /\ proven' = [a \in Watched |-> IF f.by = "new" /\ a \in f.counts /\ proven[a] < MinRuns
                                     THEN proven[a] + 1 ELSE proven[a]]
  /\ foreign' = IF f.by \in {"old", "manual"} THEN foreign \cup f.counts ELSE foreign
  /\ backfilled' = (backfilled \/ f.by = "backfill")
  /\ UNCHANGED <<live, receipts, stage, task, freeze, saw, verified, disturbed, resumed>>

Fails(f) ==
  /\ f \in flights /\ flights' = flights \ {f}
  /\ UNCHANGED <<live, proven, foreign, receipts, stage, task, frozen>>

----------------------------------------------------------------------------
(* Activate the new scheduler, or pause the transfer.                      *)

Proven(a) == proven[a] >= MinRuns /\ a \notin foreign

(* What must be true besides the mutation's own state.                     *)
Depends(i) ==
  \/ i \in Activation /\ "old" \notin enabled /\ backfilled
  \/ /\ i \in Pause /\ receiptOf[After[i]] = "final" /\ "new" \in enabled
     /\ Proven(After[i])

Changed(i) == IF i \in Activation THEN "new" \in enabled ELSE ~transfer

ClassifyReceipt(i) ==
  IF receiptOf[i] = "final" THEN IF Changed(i) THEN "final" ELSE "drift"
  ELSE IF Changed(i) THEN "post" ELSE "pre"

Proceed(p, step) == stage' = [stage EXCEPT ![p] = step] /\ UNCHANGED task
Leave(p) ==
  /\ stage' = [stage EXCEPT ![p] = "idle"]
  /\ task' = [task EXCEPT ![p] = NoIntent]

(* A new intent is published only for a mutation that is still to be made. *)
PrepareReceipt(p, i) ==
  /\ stage[p] = "idle" /\ freeze[p] = "idle" /\ Depends(i)
  /\ IF receiptOf[i] = "none" THEN ~Changed(i) ELSE ClassifyReceipt(i) # "drift"
  /\ receiptOf' = [receiptOf EXCEPT ![i] = IF @ = "none" THEN "intent" ELSE @]
  /\ stage' = [stage EXCEPT ![p] = "ready"] /\ task' = [task EXCEPT ![p] = i]
  /\ UNCHANGED <<live, executions, chainLock, commands, frozen>>

(* The lock document names the intent by its hash, kept in the final one.  *)
Lockable(i) == chainLock \in {NoIntent, i}

LockChain(p) ==
  /\ stage[p] = "ready" /\ Lockable(task[p])
  /\ chainLock' = task[p]
  /\ Proceed(p, "locked")
  /\ UNCHANGED <<live, executions, receiptOf, commands, frozen>>

Rechecked(p) == ClassifyReceipt(task[p]) # "drift" /\ Depends(task[p])

RecheckUnderLock(p) ==
  /\ stage[p] = "locked" /\ Rechecked(p)
  /\ Proceed(p, CASE ClassifyReceipt(task[p]) = "final" -> "release"
                  [] ClassifyReceipt(task[p]) = "pre"   -> "change"
                  [] ClassifyReceipt(task[p]) = "post"  -> "verify")
  /\ UNCHANGED <<live, executions, receipts, frozen>>

(* The command's return code is recorded and decides nothing: the change   *)
(* takes effect at once, later or never.                                   *)
Change(p) ==
  /\ stage[p] = "change" /\ Cardinality(commands) < MaxPending
  /\ commands' = commands \cup {task[p]}
  /\ Proceed(p, "verify")
  /\ UNCHANGED <<live, executions, receiptOf, chainLock, frozen>>

ChangeApplies(i) ==
  /\ i \in commands /\ commands' = commands \ {i}
  /\ \/ /\ i \in Activation /\ enabled' = enabled \cup {"new"} /\ resumed' = TRUE
        /\ disturbed' = disturbed \cup {p \in Operator : freeze[p] = "record"}
        /\ UNCHANGED transfer
     \/ i \in Pause /\ transfer' = FALSE /\ UNCHANGED <<enabled, disturbed, resumed>>
  /\ UNCHANGED <<executions, receiptOf, chainLock, stage, task>>
  /\ UNCHANGED <<freeze, saw, verified, backfilled>>

ChangeDropped(i) ==
  /\ i \in commands /\ commands' = commands \ {i}
  /\ UNCHANGED <<live, executions, receiptOf, chainLock, stage, task, frozen>>

(* An activation that a rerun has completed meanwhile counts as done; a    *)
(* pause insists on its own intent.                                        *)
VerifyChange(p) ==
  /\ stage[p] = "verify" /\ Depends(task[p])
  /\ \/ ClassifyReceipt(task[p]) = "post"
     \/ ClassifyReceipt(task[p]) = "final" /\ task[p] \in Activation
  /\ Proceed(p, "finalize")
  /\ UNCHANGED <<live, executions, receipts, frozen>>

(* It classifies what VerifyChange read and replaces an unchanged intent.  *)
FinalizeReceipt(p) ==
  /\ stage[p] = "finalize"
  /\ receiptOf[task[p]] = "intent" \/ task[p] \in Activation
  /\ receiptOf' = [receiptOf EXCEPT ![task[p]] = "final"]
  /\ Proceed(p, "release")
  /\ UNCHANGED <<live, executions, chainLock, commands, frozen>>

UnlockableByAnyone(i) == TRUE
Unlockable(i) == chainLock \in {NoIntent, i}

UnlockChain(p) ==
  /\ stage[p] = "release" /\ Unlockable(task[p])
  /\ chainLock' = NoIntent
  /\ Leave(p)
  /\ UNCHANGED <<live, executions, receiptOf, commands, frozen>>

StopOperation(p) ==
  /\ stage[p] # "idle"
  /\ Leave(p)
  /\ UNCHANGED <<live, executions, receipts, frozen>>

----------------------------------------------------------------------------
(* Freeze both schedulers before the backfill.                             *)

FreezeGoto(p, step) ==
  /\ freeze' = [freeze EXCEPT ![p] = step]
  /\ UNCHANGED <<executions, receipts, stage, task, transfer, backfilled>>

FreezeBegin(p) ==
  /\ stage[p] = "idle" /\ freeze[p] = "idle" /\ saw' = [saw EXCEPT ![p] = enabled]
  /\ FreezeGoto(p, "new")
  /\ UNCHANGED <<enabled, verified, disturbed, resumed>>

(* It pauses what it found enabled; another freeze that has paused what it *)
(* found, and not read it back, can miss that a scheduler ran again.       *)
PauseScheduler(p, name) ==
  /\ enabled' = enabled \ (saw[p] \cap {name})
  /\ disturbed' = disturbed \cup
       {q \in Operator \ {p} : enabled' # enabled /\ freeze[q] \in {"invalidate", "quiet", "read"}}
  /\ saw' = [saw EXCEPT ![p] = @ \ {name}]
  /\ UNCHANGED <<verified, resumed>>

FreezePauseNew(p) == freeze[p] = "new" /\ PauseScheduler(p, "new") /\ FreezeGoto(p, "old")

FreezePauseOld(p) ==
  freeze[p] = "old" /\ PauseScheduler(p, "old") /\ FreezeGoto(p, "invalidate")

InvalidateFreeze(p) ==
  /\ freeze[p] = "invalidate" /\ verified' = FALSE /\ resumed' = FALSE
  /\ FreezeGoto(p, "quiet")
  /\ UNCHANGED <<enabled, saw, disturbed>>

WritersIdle == flights = {}

FreezeQuiet(p) ==
  /\ freeze[p] = "quiet" /\ WritersIdle
  /\ FreezeGoto(p, "read")
  /\ UNCHANGED <<enabled, saw, verified, disturbed, resumed>>

AnyState == TRUE
AllPaused == enabled = {}

FreezeReadBack(p) ==
  /\ freeze[p] = "read" /\ AllPaused
  /\ FreezeGoto(p, "record")
  /\ UNCHANGED <<enabled, saw, verified, disturbed, resumed>>

RecordFreeze(p) ==
  /\ freeze[p] = "record" /\ verified' = TRUE /\ resumed' = (p \in disturbed)
  /\ disturbed' = disturbed \ {p}
  /\ FreezeGoto(p, "idle")
  /\ UNCHANGED <<enabled, saw>>

FreezeStop(p) ==
  /\ freeze[p] # "idle" /\ saw' = [saw EXCEPT ![p] = {}]
  /\ disturbed' = disturbed \ {p}
  /\ FreezeGoto(p, "idle")
  /\ UNCHANGED <<enabled, verified, resumed>>

CutoverNext ==
  \/ \E by \in Invoker : Launch(by)
  \/ \E f \in flights : Succeeds(f) \/ Fails(f)
  \/ \E p \in Operator :
       \/ \E i \in Operation : PrepareReceipt(p, i)
       \/ LockChain(p) \/ RecheckUnderLock(p) \/ Change(p)
       \/ VerifyChange(p) \/ FinalizeReceipt(p) \/ UnlockChain(p) \/ StopOperation(p)
       \/ FreezeBegin(p) \/ FreezePauseNew(p) \/ FreezePauseOld(p) \/ InvalidateFreeze(p)
       \/ FreezeQuiet(p) \/ FreezeReadBack(p) \/ RecordFreeze(p) \/ FreezeStop(p)
  \/ \E i \in Operation : ChangeApplies(i) \/ ChangeDropped(i)

CutoverSpec == CutoverInit /\ [][CutoverNext]_cvars

----------------------------------------------------------------------------
(* Properties.                                                             *)

(* Operators of different intents never mutate the refresh chain at once:  *)
(* unfinished runs past the lock share one intent, and a command of        *)
(* another intent that can still take effect is one that ended as final.   *)
Operating(p) ==
  /\ stage[p] \in {"locked", "change", "verify", "finalize"}
  /\ receiptOf[task[p]] = "intent"

OneOperation ==
  \A p \in Operator : Operating(p) =>
    /\ \A q \in Operator : Operating(q) => task[q] = task[p]
    /\ \A i \in commands : i = task[p] \/ receiptOf[i] = "final"

(* The legacy transfer is off only after an activation that completed and  *)
(* after enough executions that the new scheduler itself started.          *)
LegacyPausedAfterProof ==
  transfer \/ \E a \in Watched : receiptOf[a] = "final" /\ proven[a] >= MinRuns

(* A verified freeze has no scheduled execution in flight, with just two   *)
(* exceptions, which freezing does not lock out: an activation resumed     *)
(* after the freeze read the schedulers back; or before that, and another  *)
(* freeze paused the scheduler again in time for that reading.             *)
FreezeIsQuiet ==
  verified /\ ~resumed => \A f \in flights : f.by \notin {"old", "new"}

(* The cutover goes in order: one operation at a time, the legacy writer   *)
(* last, the backfill behind a freeze that really is quiet.                *)
CutoverInOrder == OneOperation /\ LegacyPausedAfterProof /\ FreezeIsQuiet
=============================================================================
