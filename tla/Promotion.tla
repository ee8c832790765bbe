----------------------------- MODULE Promotion -----------------------------
(***************************************************************************)
(* scripts/promote_candidate.sh moves the service's traffic to a candidate *)
(* revision.  Each run works for an intent, a local receipt file that also *)
(* records the traffic it was made for, and mutates traffic only under a   *)
(* Firestore lock document (promotion_release_lock.py).  Nothing expires:  *)
(* a run that stops leaves its lock, and an operator who has made sure     *)
(* that nobody works for the intent any more retires it by a tombstone.    *)
(*                                                                         *)
(* Traffic is the one revision that serves everything.  The other things   *)
(* the script reads back (Scheduler, Job, transfer, receipts' contents)    *)
(* can only make it exit: every exit, and every crash, is Stop.            *)
(***************************************************************************)
CONSTANTS
  Intent,              \* snapshot files of operators, each a different intent
  Revision, Target,    \* Target[i]: the candidate revision of intent i
  Old,                 \* the revision that serves at first
  Run,                 \* slots for concurrent runs of the script
  None

ASSUME PromotionAssumption ==
  Target \in [Intent -> Revision] /\ Old \in Revision /\ None \notin Intent \cup Revision

VARIABLES
  file,      \* a snapshot file: none, an intent, or the final receipt
  before,    \* the traffic an intent was made for
  lock,      \* the service's lock document
  traffic,   \* the revision that serves
  pending,   \* intents with an update-traffic that Cloud Run has not settled
  stale,     \* intents whose API or acceptance receipt is over 60 minutes old
  pc, work, mode, seen,   \* each run: its step, its intent, the mode and the
                          \* traffic it has read before the lock
  aborted    \* intents ever retired as aborted_pre (history)

cloud == <<lock, traffic, pending>>
runs  == <<pc, work, mode, seen>>
vars  == <<file, before, cloud, stale, runs, aborted>>

Dispositions == {"aborted_pre", "authorized_post_recovery"}

Free        == [state |-> "free",    owner |-> None, disposition |-> None]
Active(i)   == [state |-> "active",  owner |-> i,    disposition |-> None]

RetiredUnlabelled(i, d) == [state |-> "retired", owner |-> i, disposition |-> None]
Retired(i, d) == [state |-> "retired", owner |-> i, disposition |-> d]

TypeOK ==
  /\ file \in [Intent -> {"none", "intent", "final"}]
  /\ before \in [Intent -> Revision \cup {None}]
  /\ lock \in {Free} \cup {Active(i) : i \in Intent}
              \cup {[state |-> "retired", owner |-> i, disposition |-> d] :
                      i \in Intent, d \in Dispositions}
  /\ traffic \in Revision
  /\ pending \subseteq Intent /\ stale \subseteq Intent /\ aborted \subseteq Intent
  /\ pc \in [Run -> {"idle", "read", "ready", "locked", "update", "updating",
                     "verify", "finalize", "release"}]
  /\ work \in [Run -> Intent \cup {None}]
  /\ mode \in [Run -> {"pre", "post", "final", None}]
  /\ seen \in [Run -> Revision \cup {None}]

Init ==
  /\ file = [i \in Intent |-> "none"]
  /\ before = [i \in Intent |-> None]
  /\ lock = Free
  /\ traffic = Old
  /\ pending = {} /\ stale = {} /\ aborted = {}
  /\ pc = [p \in Run |-> "idle"] /\ work = [p \in Run |-> None]
  /\ mode = [p \in Run |-> None] /\ seen = [p \in Run |-> None]

----------------------------------------------------------------------------
Goto(p, step) == pc' = [pc EXCEPT ![p] = step]
Continue(p, step) == Goto(p, step) /\ UNCHANGED <<work, mode, seen>>
Exit(p) ==
  /\ Goto(p, "idle")
  /\ work' = [work EXCEPT ![p] = None] /\ mode' = [mode EXCEPT ![p] = None]
  /\ seen' = [seen EXCEPT ![p] = None]

(* The receipt file and a readback of the service give the live state.     *)
Classify(i, serving) ==
  IF file[i] = "final" THEN IF serving = Target[i] THEN "final" ELSE "drift"
  ELSE IF serving = before[i] THEN "pre"
  ELSE IF serving = Target[i] THEN "post" ELSE "drift"

Begin(p, i) ==
  /\ pc[p] = "idle"
  /\ Goto(p, "read") /\ work' = [work EXCEPT ![p] = i]
  /\ seen' = [seen EXCEPT ![p] = traffic]
  /\ UNCHANGED <<file, before, cloud, stale, mode, aborted>>

(* prepare publishes a fresh intent, or accepts the existing one; classify *)
(* then fixes the mode, and a mutation needs fresh receipts.               *)
Prepare(p) ==
  LET i == work[p]
      s == seen[p]
  IN /\ pc[p] = "read"
     /\ \/ /\ file[i] = "none" /\ s # Target[i] /\ i \notin stale
           /\ file' = [file EXCEPT ![i] = "intent"]
           /\ before' = [before EXCEPT ![i] = s]
           /\ mode' = [mode EXCEPT ![p] = "pre"]
        \/ /\ file[i] # "none" /\ Classify(i, s) # "drift"
           /\ Classify(i, s) = "pre" => i \notin stale
           /\ mode' = [mode EXCEPT ![p] = Classify(i, s)]
           /\ UNCHANGED <<file, before>>
     /\ Goto(p, "ready")
     /\ UNCHANGED <<cloud, stale, work, seen, aborted>>

(* Who may take the lock document, in which mode: it is missing; it is the *)
(* intent's own and the run only completes; another intent was aborted; or *)
(* the recovery of this very intent was authorized.                        *)
AcquirableAgain(i, m) ==
  \/ lock.state = "free" /\ m # "post"
  \/ lock = Active(i)
  \/ lock.state = "retired" /\ lock.disposition = "aborted_pre" /\ lock.owner # i
  \/ lock = Retired(i, "authorized_post_recovery") /\ m = "post"
Acquirable(i, m) ==
  \/ lock.state = "free" /\ m # "post"
  \/ lock = Active(i) /\ m = "final"
  \/ lock.state = "retired" /\ lock.disposition = "aborted_pre" /\ lock.owner # i
  \/ lock = Retired(i, "authorized_post_recovery") /\ m = "post"

Acquire(p) ==
  LET i == work[p]
  IN /\ pc[p] = "ready"
     /\ mode[p] = "final" => file[i] = "final"
     /\ mode[p] = "post" => file[i] = "intent"
     /\ Acquirable(i, mode[p])
     /\ lock' = Active(i)
     /\ Continue(p, "locked")
     /\ UNCHANGED <<file, before, traffic, pending, stale, aborted>>

(* Everything is read again under the lock, and must say the same.         *)
Unconfirmed(p) == TRUE
Confirmed(p) == Classify(work[p], traffic) = mode[p]

Recheck(p) ==
  /\ pc[p] = "locked"
  /\ Confirmed(p)
  /\ Continue(p, CASE mode[p] = "final" -> "release"
                   [] mode[p] = "pre"   -> "update"
                   [] mode[p] = "post"  -> "verify")
  /\ UNCHANGED <<file, before, cloud, stale, aborted>>

UpdateTraffic(p) ==
  LET i == work[p]
  IN /\ pc[p] = "update"
     /\ i \notin stale
     /\ pending' = pending \cup {i}
     /\ Continue(p, "updating")
     /\ UNCHANGED <<file, before, lock, traffic, stale, aborted>>

(* The command's return code decides nothing: it may return an error       *)
(* before, or although, the update takes effect.                           *)
UpdateReturns(p) ==
  /\ pc[p] = "updating"
  /\ Continue(p, "verify")
  /\ UNCHANGED <<file, before, cloud, stale, aborted>>

UpdateApplies(i) ==
  /\ i \in pending /\ pending' = pending \ {i}
  /\ traffic' = Target[i]
  /\ UNCHANGED <<file, before, lock, stale, runs, aborted>>

UpdateDropped(i) ==
  /\ i \in pending /\ pending' = pending \ {i}
  /\ UNCHANGED <<file, before, lock, traffic, stale, runs, aborted>>

CommandReturned(p) == file[work[p]] = "intent"
Reached(p) == Classify(work[p], traffic) = "post"

Verify(p) ==
  /\ pc[p] = "verify"
  /\ Reached(p)
  /\ Continue(p, "finalize")
  /\ UNCHANGED <<file, before, cloud, stale, aborted>>

Finalize(p) ==
  LET i == work[p]
  IN /\ pc[p] = "finalize"
     /\ file[i] = "intent"
     /\ file' = [file EXCEPT ![i] = "final"]
     /\ Continue(p, "release")
     /\ UNCHANGED <<before, cloud, stale, aborted>>

ReleasableByAnyone(i) == lock.state \in {"free", "active"}
Releasable(i) == lock \in {Free, Active(i)}

Release(p) ==
  /\ pc[p] = "release"
  /\ Releasable(work[p])
  /\ lock' = Free
  /\ Exit(p)
  /\ UNCHANGED <<file, before, traffic, pending, stale, aborted>>

(* The script exits on any check above, or is killed.                      *)
Stop(p) ==
  /\ pc[p] # "idle"
  /\ Exit(p)
  /\ UNCHANGED <<file, before, cloud, stale, aborted>>

ReceiptsGoStale(i) ==
  /\ i \notin stale /\ stale' = stale \cup {i}
  /\ UNCHANGED <<file, before, cloud, runs, aborted>>

(* The operator follows the runbook: nobody and nothing works for the      *)
(* intent any more, and the disposition is the live state.                 *)
Retire(i, d) ==
  /\ \A p \in Run : work[p] # i
  /\ i \notin pending
  /\ traffic = IF d = "aborted_pre" THEN before[i] ELSE Target[i]
  /\ file[i] = "intent"
  /\ lock = Active(i)
  /\ lock' = Retired(i, d)
  /\ aborted' = IF d = "aborted_pre" THEN aborted \cup {i} ELSE aborted
  /\ UNCHANGED <<file, before, traffic, pending, stale, runs>>

Next ==
  \/ \E p \in Run :
       \/ \E i \in Intent : Begin(p, i)
       \/ Prepare(p) \/ Acquire(p) \/ Recheck(p) \/ UpdateTraffic(p) \/ UpdateReturns(p)
       \/ Verify(p) \/ Finalize(p) \/ Release(p) \/ Stop(p)
  \/ \E i \in Intent :
       \/ UpdateApplies(i) \/ UpdateDropped(i) \/ ReceiptsGoStale(i)
       \/ \E d \in Dispositions : Retire(i, d)

Spec == Init /\ [][Next]_vars

----------------------------------------------------------------------------
(* Properties.                                                             *)

(* Runs that have the lock and work on an intent that is not final yet.    *)
Working(p) ==
  /\ pc[p] \in {"locked", "update", "updating", "verify", "finalize"}
  /\ file[work[p]] = "intent"

(* At most one run works under the lock: it owns the document, and no      *)
(* update of another intent is under way.  The others have yet to acquire, *)
(* or only complete a promotion that is already final.                     *)
OneWorker ==
  \A p \in Run : Working(p) =>
    /\ lock = Active(work[p])
    /\ pending \subseteq {work[p]}
    /\ \A q \in Run : Working(q) => p = q

(* Traffic is moved only from the allocation that the intent recorded when *)
(* its receipts were accepted, and never again once the intent is final,   *)
(* though the last readback is older than the command.                     *)
MovesRecordedTraffic ==
  [][\A i \in pending' \ pending : traffic = before[i] /\ file[i] = "intent"]_vars

(* A receipt says complete only of a promotion that serves, with no other  *)
(* update under way that would take the traffic away again.                *)
FinalIsTruthful ==
  [][\A i \in Intent : file[i] # "final" /\ file'[i] = "final" =>
       traffic = Target[i] /\ pending = {} /\ lock = Active(i)]_vars

(* A lock document disappears only when its own intent is final: a run     *)
(* that was overtaken while releasing never frees a successor's lock.      *)
OnlyFinalUnlocks ==
  [][lock.state # "free" /\ lock'.state = "free" =>
       lock.state = "active" /\ file[lock.owner] = "final"]_vars

(* docs/THREE_HOUR_RECOVERY_RUNBOOK.md:559: an intent retired as           *)
(* aborted_pre is refused for good.                                        *)
AbortedForGood == lock.state = "active" => lock.owner \notin aborted
=============================================================================
