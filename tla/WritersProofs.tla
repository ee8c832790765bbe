-------------------------- MODULE WritersProofs ---------------------------
(***************************************************************************)
(* Theorems about the writers beside the Chat publisher: the News usage    *)
(* publisher, for every set of jobs, every policy that satisfies           *)
(* NewsAssumption and every bound; and the recovery of old conversations,  *)
(* for any number of turns and backfill runs, whatever their days and      *)
(* identities, from HistoryAssumption.                                     *)
(***************************************************************************)
EXTENDS OtherWriters, TLAPS

----------------------------------------------------------------------------
(* The News publisher.                                                     *)

(* A launched job has read its configuration.                              *)
Configured == \A j \in Job : pc[j] # "idle" => cfg[j] \in Config

TypeInv == TypeOK /\ Configured

LEMMA InitTypeInv == Init => TypeInv
  BY NewsAssumption DEF Init, TypeInv, TypeOK, Configured, Watermark, Phase

LEMMA WithRunTyped ==
  ASSUME TypeOK, NEW r \in RunId, NEW status \in {"running", "failed", "succeeded"}
  PROVE  /\ DOMAIN WithRun(r, status) \subseteq RunId
         /\ \A x \in DOMAIN WithRun(r, status) :
              WithRun(r, status)[x] \in {"running", "failed", "succeeded"}
  BY DEF WithRun, TypeOK

LEMMA FailedRunTyped ==
  ASSUME TypeOK, NEW r \in RunId
  PROVE  /\ DOMAIN FailedRun(r) \subseteq RunId
         /\ \A x \in DOMAIN FailedRun(r) :
              FailedRun(r)[x] \in {"running", "failed", "succeeded"}
<1>1. CASE r \in DOMAIN runs /\ runs[r] = "running"
  BY <1>1, WithRunTyped DEF FailedRun
<1>2. CASE ~(r \in DOMAIN runs /\ runs[r] = "running")
  BY <1>2 DEF FailedRun, TypeOK
<1> QED BY <1>1, <1>2

LEMMA RunOfTyped ==
  ASSUME TypeOK, NEW j \in Job
  PROVE  RunOf(j) \in RunId
  BY DEF RunOf, RunId, TypeOK

(* A window that is due ends in a natural number beyond its watermark.     *)
LEMMA WindowForward ==
  ASSUME TypeInv, NEW j \in Job, pc[j] # "idle", ~BeforeStart(j), ~UpToDate(j)
  PROVE  /\ WindowEnd(j, through) \in Nat
         /\ through # None => through < WindowEnd(j, through)
<1> USE NewsAssumption DEF TypeInv, TypeOK, Configured, WindowEnd, WindowStart, Target,
        BeforeStart, UpToDate, Smaller, Larger, Watermark
<1>1. cfg[j] \in Nat /\ frozen[j] \in Nat
  OBVIOUS
<1>2. CASE through = None
  BY <1>1, <1>2
<1>3. CASE through \in Nat
  BY <1>1, <1>3
<1> QED BY <1>2, <1>3

(* The steps of Cloud Run and of the Chat publisher.                       *)
LEMMA EnvironmentTypeInv ==
  ASSUME TypeInv, NEW j \in Job,
         Launch(j) \/ ChatRefreshed(j) \/ ChatRefused(j) \/ Crash(j)
  PROVE  TypeInv'
<1> USE NewsAssumption DEF TypeInv, TypeOK, Configured, row, clock, Phase, Goto, End, Fault
<1>1. CASE Launch(j) BY <1>1 DEF Launch
<1>2. CASE ChatRefreshed(j) BY <1>2 DEF ChatRefreshed
<1>3. CASE ChatRefused(j) BY <1>3 DEF ChatRefused
<1>4. CASE Crash(j) BY <1>4 DEF Crash, Running
<1> QED BY <1>1, <1>2, <1>3, <1>4

(* Calls that write the row.                                               *)
LEMMA LeaseCallTypeInv ==
  ASSUME TypeInv, NEW j \in Job,
         \/ Acquire(j) \/ AcquireRefused(j) \/ AcquireFails(j) \/ ReleaseNoop(j)
         \/ ReleaseNoopFails(j) \/ RenewLease(j) \/ Release(j)
  PROVE  TypeInv'
<1> USE NewsAssumption DEF TypeInv, TypeOK, Configured, row, clock, Phase, Goto, End, Fault,
        NoFault, TakeLease, FreeLease, ExtendLease
<1>1. CASE Acquire(j)
  <2>1. CASE UNCHANGED plan BY <1>1, <2>1 DEF Acquire
  <2>2. CASE /\ ~BeforeStart(j) /\ ~UpToDate(j) /\ Goto(j, "begin")
             /\ plan' = [plan EXCEPT ![j] = [from |-> through, to |-> WindowEnd(j, through)]]
    <3>1. WindowEnd(j, through) \in Nat
      BY <1>1, <2>2, WindowForward DEF Acquire
    <3> QED BY <1>1, <2>2, <3>1 DEF Acquire
  <2> QED BY <1>1, <2>1, <2>2 DEF Acquire
<1>2. CASE AcquireRefused(j) BY <1>2 DEF AcquireRefused
<1>3. CASE AcquireFails(j) BY <1>3 DEF AcquireFails
<1>4. CASE ReleaseNoop(j) BY <1>4 DEF ReleaseNoop
<1>5. CASE ReleaseNoopFails(j) BY <1>5 DEF ReleaseNoopFails
<1>6. CASE RenewLease(j) BY <1>6 DEF RenewLease
<1>7. CASE Release(j) BY <1>7 DEF Release
<1> QED BY <1>1, <1>2, <1>3, <1>4, <1>5, <1>6, <1>7

(* The end of a publication: the next window, or success.                  *)
LEMMA SucceedTypeInv ==
  ASSUME TypeInv, NEW j \in Job, pc[j] # "idle", Succeed(j),
         UNCHANGED <<now, chat, row, runs, clock, plan, pinned, tx, published>>,
         faults' \in 0..MaxFaults
  PROVE  TypeInv'
<1> USE DEF TypeInv, TypeOK, Configured, row, clock, Phase, Goto, End
<1>1. CASE Goto(j, "acquire") /\ seq' = [seq EXCEPT ![j] = @ + 1]
  BY <1>1
<1>2. CASE End(j, "succeeded") /\ UNCHANGED seq
  BY <1>2
<1> QED BY <1>1, <1>2 DEF Succeed

(* Calls that write the run row, and those that write neither.             *)
LEMMA RunCallTypeInv ==
  ASSUME TypeInv, NEW j \in Job,
         \/ BeginRun(j) \/ BeginRunFails(j) \/ MarkFailed(j)
         \/ ReadRosterPointer(j) \/ RosterUnavailable(j) \/ SubmitScript(j)
         \/ ScriptReplies(j) \/ ReadReceipt(j) \/ ReceiptUnreadable(j)
  PROVE  TypeInv'
<1> USE NewsAssumption DEF TypeInv, Configured, row, clock, Phase, Goto, End, Fault, NoFault
<1>0. /\ RunOf(j) \in RunId
      /\ DOMAIN WithRun(RunOf(j), "running") \subseteq RunId
      /\ \A x \in DOMAIN WithRun(RunOf(j), "running") :
           WithRun(RunOf(j), "running")[x] \in {"running", "failed", "succeeded"}
      /\ DOMAIN FailedRun(RunOf(j)) \subseteq RunId
      /\ \A x \in DOMAIN FailedRun(RunOf(j)) :
           FailedRun(RunOf(j))[x] \in {"running", "failed", "succeeded"}
  BY RunOfTyped, WithRunTyped, FailedRunTyped
<1>1. CASE BeginRun(j) BY <1>0, <1>1 DEF BeginRun, InsertRun, TypeOK
<1>2. CASE BeginRunFails(j) BY <1>0, <1>2 DEF BeginRunFails, InsertRun, TypeOK
<1>3. CASE MarkFailed(j)
  <2>1. CASE runs' = FailedRun(RunOf(j)) BY <1>0, <1>3, <2>1 DEF MarkFailed, TypeOK
  <2>2. CASE runs' = runs BY <1>3, <2>2 DEF MarkFailed, TypeOK
  <2> QED BY <1>3, <2>1, <2>2 DEF MarkFailed
<1>4. CASE ReadRosterPointer(j) BY <1>4 DEF ReadRosterPointer, TypeOK
<1>5. CASE RosterUnavailable(j) BY <1>5 DEF RosterUnavailable, TypeOK
<1>6. CASE SubmitScript(j) BY <1>6 DEF SubmitScript, TypeOK
<1>7. CASE ScriptReplies(j)
  <2>1. faults' \in 0..MaxFaults BY <1>7 DEF ScriptReplies, TypeOK
  <2>2. CASE Succeed(j) BY <1>7, <2>1, <2>2, SucceedTypeInv DEF ScriptReplies
  <2>3. CASE Goto(j, "receipt") /\ UNCHANGED seq
    BY <1>7, <2>1, <2>3 DEF ScriptReplies, TypeOK
  <2> QED BY <1>7, <2>2, <2>3 DEF ScriptReplies
<1>8. CASE ReadReceipt(j)
  <2>1. faults' \in 0..MaxFaults BY <1>8 DEF ReadReceipt, TypeOK
  <2>2. CASE Succeed(j) BY <1>8, <2>1, <2>2, SucceedTypeInv DEF ReadReceipt
  <2>3. CASE Goto(j, "mark") /\ UNCHANGED seq
    BY <1>8, <2>1, <2>3 DEF ReadReceipt, TypeOK
  <2> QED BY <1>8, <2>2, <2>3 DEF ReadReceipt
<1>9. CASE ReceiptUnreadable(j) BY <1>9 DEF ReceiptUnreadable, TypeOK
<1> QED BY <1>1, <1>2, <1>3, <1>4, <1>5, <1>6, <1>7, <1>8, <1>9

(* The publish script at the server.                                       *)
LEMMA ScriptTypeInv ==
  ASSUME TypeInv, NEW j \in Job, ScriptCommits(j) \/ ScriptRejected(j)
  PROVE  TypeInv'
<1> USE NewsAssumption DEF TypeInv, Configured, clock, Fault, NoFault
<1>1. CASE ScriptCommits(j)
  <2>1. /\ RunOf(j) \in RunId
        /\ DOMAIN runs' \subseteq RunId
        /\ \A x \in DOMAIN runs' : runs'[x] \in {"running", "failed", "succeeded"}
    BY <1>1, RunOfTyped, WithRunTyped DEF ScriptCommits
  <2>2. plan[j].to \in Nat /\ pinned[j] \in 0..MaxChat
    BY DEF TypeOK
  <2> QED BY <1>1, <2>1, <2>2 DEF ScriptCommits, TypeOK, Watermark
<1>2. CASE ScriptRejected(j) BY <1>2 DEF ScriptRejected, TypeOK, row
<1> QED BY <1>1, <1>2

LEMMA NextTypeInv == TypeInv /\ [Next]_vars => TypeInv'
<1> SUFFICES ASSUME TypeInv, [Next]_vars PROVE TypeInv'
  OBVIOUS
<1>1. CASE Tick
  BY <1>1, NewsAssumption DEF Tick, TypeInv, TypeOK, Configured, row, clock
<1>2. CASE UNCHANGED vars
  BY <1>2 DEF vars, row, clock, TypeInv, TypeOK, Configured
<1>3. ASSUME NEW j \in Job,
             Launch(j) \/ ClientStep(j) \/ ClientFault(j) \/ ScriptCommits(j) \/ ScriptRejected(j)
      PROVE  TypeInv'
  BY <1>3, EnvironmentTypeInv, LeaseCallTypeInv, RunCallTypeInv, ScriptTypeInv
  DEF ClientStep, ClientFault
<1> QED BY <1>1, <1>2, <1>3 DEF Next

(* Every variable of the News publisher keeps its type.                    *)
THEOREM NewsTypeCorrect == Spec => []TypeOK
<1>1. TypeInv => TypeOK BY DEF TypeInv
<1> QED BY <1>1, InitTypeInv, NextTypeInv, PTL DEF Spec

----------------------------------------------------------------------------
(* RunRowsAreTrue.  It is not inductive: a job that begins a run must not  *)
(* reset the row of a published one, and a receipt that shows the job's    *)
(* own run must be of a script that is over.  Both follow from the number  *)
(* a job gives its runs, which it raises only after a publication.         *)

Over == {"sent", "receipt", "mark", "release", "ended"}

Unpublished(j) == \A r \in published : r.job = j => r.seq < seq[j]

RunInv ==
  /\ RunRowsAreTrue
  /\ \A j \in Job :
       /\ \A r \in published : r.job = j => r.seq <= seq[j]
       /\ pc[j] \notin Over \/ tx[j] = "sent" => Unpublished(j)
       /\ tx[j] = "sent" => pc[j] \in Over
       /\ pc[j] \in {"roster", "renew", "publish", "sent", "receipt"} =>
            RunOf(j) \in DOMAIN runs

LEMMA InitRunInv == Init => RunInv
  BY DEF Init, RunInv, RunRowsAreTrue, Over, Unpublished

(* The run of a job whose number is new is in no publication.              *)
LEMMA NewRun ==
  ASSUME NEW j \in Job, Unpublished(j), TypeOK
  PROVE  RunOf(j) \notin published
<1>1. RunOf(j).job = j /\ RunOf(j).seq = seq[j] BY DEF RunOf
<1>2. seq[j] \in Nat BY DEF TypeOK
<1> QED BY <1>1, <1>2 DEF Unpublished

(* Steps that leave the run rows, the publications and the numbers alone.  *)
LEMMA QuietRun ==
  ASSUME TypeOK, RunInv, NEW j \in Job, UNCHANGED <<runs, published, seq>>,
         NEW p \in Phase, pc' = [pc EXCEPT ![j] = p],
         tx' = tx \/ tx' = [tx EXCEPT ![j] = "rejected"],
         \A i \in Job \ {j} : plan'[i] = plan[i],
         p \notin Over => pc[j] \notin Over,
         pc[j] \in Over => p \in Over,
         p \in {"roster", "renew", "publish", "sent", "receipt"} =>
           /\ plan'[j] = plan[j]
           /\ pc[j] \in {"roster", "renew", "publish", "sent", "receipt"}
  PROVE  RunInv'
<1>1. \A i \in Job : (tx'[i] = "sent") => (tx[i] = "sent")
  BY DEF TypeOK
<1>2. pc'[j] = p /\ \A i \in Job \ {j} : pc'[i] = pc[i]
  BY DEF TypeOK
<1>3. \A i \in Job : plan'[i] = plan[i] => RunOf(i)' = RunOf(i)
  BY DEF RunOf
<1>4. RunRowsAreTrue'
  BY DEF RunInv, RunRowsAreTrue
<1>5. \A i \in Job : Unpublished(i)' <=> Unpublished(i)
  BY DEF Unpublished
<1>6. ASSUME NEW i \in Job
      PROVE  /\ \A r \in published' : r.job = i => r.seq <= seq'[i]
             /\ pc'[i] \notin Over \/ tx'[i] = "sent" => Unpublished(i)'
             /\ tx'[i] = "sent" => pc'[i] \in Over
             /\ pc'[i] \in {"roster", "renew", "publish", "sent", "receipt"} =>
                  RunOf(i)' \in DOMAIN runs'
  BY <1>1, <1>2, <1>3, <1>5 DEF RunInv
<1> QED BY <1>4, <1>6 DEF RunInv

LEMMA QuietStepsRun ==
  ASSUME TypeInv, RunInv, NEW j \in Job,
         \/ Launch(j) \/ ChatRefreshed(j) \/ ChatRefused(j) \/ Crash(j)
         \/ Acquire(j) \/ AcquireRefused(j) \/ AcquireFails(j) \/ ReleaseNoop(j)
         \/ ReleaseNoopFails(j) \/ ReadRosterPointer(j) \/ RosterUnavailable(j)
         \/ RenewLease(j) \/ ReceiptUnreadable(j) \/ Release(j) \/ ScriptRejected(j)
  PROVE  RunInv'
<1> USE DEF Goto, End, Over, Phase, TypeInv
<1>0. pc = [pc EXCEPT ![j] = pc[j]] /\ pc[j] \in Phase BY DEF TypeOK
<1>1. CASE Launch(j) BY <1>1, QuietRun DEF Launch
<1>2. CASE ChatRefreshed(j) BY <1>2, QuietRun DEF ChatRefreshed
<1>3. CASE ChatRefused(j) BY <1>3, QuietRun DEF ChatRefused
<1>4. CASE Crash(j) BY <1>4, QuietRun DEF Crash
<1>5. CASE Acquire(j)
  <2>1. \A i \in Job \ {j} : plan'[i] = plan[i] BY <1>5 DEF Acquire, TypeOK
  <2> QED BY <1>5, <2>1, QuietRun DEF Acquire
<1>6. CASE AcquireRefused(j) BY <1>6, QuietRun DEF AcquireRefused
<1>7. CASE AcquireFails(j) BY <1>7, QuietRun DEF AcquireFails
<1>8. CASE ReleaseNoop(j) BY <1>8, QuietRun DEF ReleaseNoop
<1>9. CASE ReleaseNoopFails(j) BY <1>9, QuietRun DEF ReleaseNoopFails
<1>10. CASE ReadRosterPointer(j) BY <1>10, QuietRun DEF ReadRosterPointer
<1>11. CASE RosterUnavailable(j) BY <1>11, QuietRun DEF RosterUnavailable
<1>12. CASE RenewLease(j) BY <1>12, QuietRun DEF RenewLease
<1>13. CASE ReceiptUnreadable(j) BY <1>13, QuietRun DEF ReceiptUnreadable
<1>14. CASE Release(j) BY <1>14, QuietRun DEF Release
<1>15. CASE ScriptRejected(j) BY <1>0, <1>15, QuietRun DEF ScriptRejected
<1> QED BY <1>1, <1>2, <1>3, <1>4, <1>5, <1>6, <1>7, <1>8, <1>9, <1>10, <1>11, <1>12,
           <1>13, <1>14, <1>15

(* The rows of the published runs, and theirs alone, are kept.             *)
LEMMA RowsKept ==
  ASSUME TypeOK, RunInv, NEW r \in RunId, r \notin published,
         NEW status \in {"running", "failed"},
         runs' = WithRun(r, status), UNCHANGED published
  PROVE  RunRowsAreTrue' /\ DOMAIN runs \subseteq DOMAIN runs' /\ r \in DOMAIN runs'
  BY DEF RunInv, RunRowsAreTrue, WithRun

LEMMA BeginRunRun ==
  ASSUME TypeInv, RunInv, NEW j \in Job, BeginRun(j) \/ BeginRunFails(j)
  PROVE  RunInv'
<1> USE DEF TypeInv
<1>1. /\ UNCHANGED <<published, seq, plan, tx>>
      /\ pc[j] = "begin"
      /\ \E p \in {"roster", "release"} :
           /\ pc' = [pc EXCEPT ![j] = p]
           /\ p = "roster" => runs' = WithRun(RunOf(j), "running")
  BY DEF BeginRun, BeginRunFails, InsertRun, Goto
<1>2. Unpublished(j) /\ tx[j] # "sent"
  BY <1>1 DEF RunInv, Over
<1>3. RunOf(j) \in RunId /\ RunOf(j) \notin published
  BY <1>2, NewRun, RunOfTyped
<1>4. /\ RunRowsAreTrue' /\ DOMAIN runs \subseteq DOMAIN runs'
      /\ runs' = WithRun(RunOf(j), "running") => RunOf(j) \in DOMAIN runs'
  <2>1. CASE UNCHANGED runs BY <1>1, <2>1 DEF RunInv, RunRowsAreTrue, WithRun
  <2>2. CASE InsertRun(j) BY <1>1, <1>3, <2>2, RowsKept DEF InsertRun
  <2> QED BY <2>1, <2>2 DEF BeginRun, BeginRunFails
<1>5. \A i \in Job : RunOf(i)' = RunOf(i) /\ (Unpublished(i)' <=> Unpublished(i))
  BY <1>1 DEF RunOf, Unpublished
<1>6. pc'[j] \in {"roster", "release"} /\ \A i \in Job \ {j} : pc'[i] = pc[i]
  BY <1>1 DEF TypeOK
<1>7. pc'[j] = "roster" => RunOf(j) \in DOMAIN runs'
  BY <1>1, <1>4 DEF TypeOK
<1> QED BY <1>1, <1>2, <1>4, <1>5, <1>6, <1>7 DEF RunInv, Over

LEMMA MarkFailedRun ==
  ASSUME TypeInv, RunInv, NEW j \in Job, MarkFailed(j)
  PROVE  RunInv'
<1> USE DEF TypeInv
<1>1. /\ UNCHANGED <<published, seq, plan, tx>> /\ pc[j] = "mark"
      /\ pc' = [pc EXCEPT ![j] = "release"]
      /\ runs' \in {runs, FailedRun(RunOf(j))}
  BY DEF MarkFailed, Goto
<1>2. RunRowsAreTrue' /\ DOMAIN runs \subseteq DOMAIN runs'
  <2>1. CASE runs' = runs BY <1>1, <2>1 DEF RunInv, RunRowsAreTrue
  <2>2. CASE RunOf(j) \in DOMAIN runs /\ runs[RunOf(j)] = "running"
             /\ runs' = WithRun(RunOf(j), "failed")
    <3>1. RunOf(j) \notin published BY <2>2 DEF RunInv, RunRowsAreTrue
    <3> QED BY <1>1, <2>2, <3>1, RowsKept, RunOfTyped
  <2> QED BY <1>1, <2>1, <2>2 DEF FailedRun
<1>3. \A i \in Job : RunOf(i)' = RunOf(i) /\ (Unpublished(i)' <=> Unpublished(i))
  BY <1>1 DEF RunOf, Unpublished
<1>4. pc'[j] = "release" /\ \A i \in Job \ {j} : pc'[i] = pc[i]
  BY <1>1 DEF TypeOK
<1> QED BY <1>1, <1>2, <1>3, <1>4 DEF RunInv, Over

LEMMA SubmitScriptRun ==
  ASSUME TypeInv, RunInv, NEW j \in Job, SubmitScript(j)
  PROVE  RunInv'
<1> USE DEF TypeInv
<1>1. /\ UNCHANGED <<runs, published, seq, plan>> /\ pc[j] = "publish"
      /\ pc'[j] = "sent" /\ tx'[j] = "sent"
      /\ \A i \in Job \ {j} : pc'[i] = pc[i] /\ tx'[i] = tx[i]
  BY DEF SubmitScript, Goto, TypeOK
<1>2. \A i \in Job : RunOf(i)' = RunOf(i) /\ (Unpublished(i)' <=> Unpublished(i))
  BY <1>1 DEF RunOf, Unpublished
<1>3. RunRowsAreTrue' BY <1>1 DEF RunInv, RunRowsAreTrue
<1> QED BY <1>1, <1>2, <1>3 DEF RunInv, Over

LEMMA CommitRun ==
  ASSUME TypeInv, RunInv, NEW j \in Job, ScriptCommits(j)
  PROVE  RunInv'
<1> USE DEF TypeInv
<1>1. /\ UNCHANGED <<pc, seq, plan>> /\ tx[j] = "sent" /\ tx'[j] = "committed"
      /\ \A i \in Job \ {j} : tx'[i] = tx[i]
      /\ runs' = WithRun(RunOf(j), "succeeded")
      /\ published' = published \cup {RunOf(j)}
      /\ pc[j] \in Over
  BY DEF ScriptCommits, TypeOK, RunInv
<1>2. RunRowsAreTrue' /\ DOMAIN runs \subseteq DOMAIN runs'
  BY <1>1 DEF RunInv, RunRowsAreTrue, WithRun
<1>3. RunOf(j).job = j /\ RunOf(j).seq = seq[j] /\ seq[j] \in Nat
  BY DEF RunOf, TypeOK
<1>4. \A i \in Job : \A r \in published' : r.job = i => r.seq <= seq'[i]
  BY <1>1, <1>3 DEF RunInv
<1>5. \A i \in Job \ {j} : Unpublished(i) => Unpublished(i)'
  BY <1>1, <1>3 DEF Unpublished
<1>6. \A i \in Job : RunOf(i)' = RunOf(i)
  BY <1>1 DEF RunOf
<1> QED BY <1>1, <1>2, <1>4, <1>5, <1>6 DEF RunInv, Over

(* A job goes on to its next window only when its script is over.          *)
LEMMA SucceedRun ==
  ASSUME TypeInv, RunInv, NEW j \in Job, pc[j] \in Over, tx[j] # "sent", Succeed(j),
         UNCHANGED <<runs, published, plan, tx>>
  PROVE  RunInv'
<1> USE DEF TypeInv
<1>1. /\ pc'[j] \in {"acquire", "ended"} /\ \A i \in Job \ {j} : pc'[i] = pc[i]
      /\ pc'[j] = "acquire" => seq'[j] = seq[j] + 1
      /\ pc'[j] = "ended" => seq'[j] = seq[j]
      /\ \A i \in Job \ {j} : seq'[i] = seq[i]
  BY DEF Succeed, Goto, End, TypeOK
<1>2. RunRowsAreTrue' BY DEF RunInv, RunRowsAreTrue
<1>3. seq[j] \in Nat /\ \A r \in published : r.seq \in Nat
  BY DEF TypeOK, RunId
<1>4. /\ \A r \in published' : r.job = j => r.seq <= seq'[j]
      /\ pc'[j] = "acquire" => Unpublished(j)'
  BY <1>1, <1>3 DEF RunInv, Unpublished
<1>5. \A i \in Job \ {j} : RunOf(i)' = RunOf(i) /\ (Unpublished(i)' <=> Unpublished(i))
  BY <1>1 DEF RunOf, Unpublished
<1> QED BY <1>1, <1>2, <1>4, <1>5 DEF RunInv, Over

LEMMA AnswerRun ==
  ASSUME TypeInv, RunInv, NEW j \in Job, ScriptReplies(j) \/ ReadReceipt(j)
  PROVE  RunInv'
<1> USE DEF TypeInv
<1>1. /\ UNCHANGED <<runs, published, plan, tx>> /\ pc[j] \in {"sent", "receipt"}
  BY DEF ScriptReplies, ReadReceipt
<1>2. CASE UNCHANGED seq /\ \E p \in {"receipt", "mark"} : Goto(j, p)
  BY <1>1, <1>2, QuietRun DEF Goto, Over, Phase
<1>3. CASE Succeed(j) /\ ScriptReplies(j) /\ tx[j] = "committed"
  BY <1>1, <1>3, SucceedRun DEF Over
<1>4. CASE Succeed(j) /\ ReadReceipt(j) /\ Committed(j)
  <2>1. RunOf(j) \in published
    BY <1>4 DEF ReadReceipt, Committed, RunInv, RunRowsAreTrue
  <2>2. ~Unpublished(j)
    BY <2>1, NewRun
  <2> QED BY <1>1, <1>4, <2>2, SucceedRun DEF RunInv, Over
<1> QED BY <1>2, <1>3, <1>4 DEF ScriptReplies, ReadReceipt

LEMMA NextRunInv == TypeInv /\ RunInv /\ [Next]_vars => RunInv'
<1> SUFFICES ASSUME TypeInv, RunInv, [Next]_vars PROVE RunInv'
  OBVIOUS
<1>1. CASE Tick \/ UNCHANGED vars
  <2>1. UNCHANGED <<runs, published, seq, plan, pc, tx>>
    BY <1>1 DEF Tick, vars
  <2> QED BY <2>1 DEF RunInv, RunRowsAreTrue, Unpublished, RunOf
<1>2. ASSUME NEW j \in Job,
             Launch(j) \/ ClientStep(j) \/ ClientFault(j) \/ ScriptCommits(j) \/ ScriptRejected(j)
      PROVE  RunInv'
  BY <1>2, QuietStepsRun, BeginRunRun, MarkFailedRun, SubmitScriptRun, CommitRun, AnswerRun
  DEF ClientStep, ClientFault
<1> QED BY <1>1, <1>2 DEF Next

(* pipeline_runs tells the truth about News: exactly the published runs    *)
(* read 'succeeded', whoever retried, crashed or marked a failure late.    *)
THEOREM NewsRunRowsAreTrue == Spec => []RunRowsAreTrue
<1>1. RunInv => RunRowsAreTrue BY DEF RunInv
<1> QED BY <1>1, InitTypeInv, NextTypeInv, InitRunInv, NextRunInv, PTL DEF Spec

----------------------------------------------------------------------------
(* The refinement: the commit of the publish script is a publication, and  *)
(* every other step leaves the chain alone.                                *)

PlansForward == \A j \in Job : plan[j].from # None => plan[j].from < plan[j].to

ChainInv == TypeInv /\ RunInv /\ PlansForward

LEMMA NextPlansForward == TypeInv /\ PlansForward /\ [Next]_vars => PlansForward'
<1> SUFFICES ASSUME TypeInv, PlansForward, [Next]_vars PROVE PlansForward'
  OBVIOUS
<1>1. CASE UNCHANGED plan BY <1>1 DEF PlansForward
<1>2. ASSUME NEW j \in Job, Acquire(j) PROVE PlansForward'
  <2>1. CASE UNCHANGED plan BY <2>1 DEF PlansForward
  <2>2. CASE /\ ~BeforeStart(j) /\ ~UpToDate(j)
             /\ plan' = [plan EXCEPT ![j] = [from |-> through, to |-> WindowEnd(j, through)]]
    <3>1. through # None => through < WindowEnd(j, through)
      BY <1>2, <2>2, WindowForward DEF Acquire
    <3> QED BY <2>2, <3>1 DEF PlansForward, TypeInv, TypeOK
  <2> QED BY <1>2, <2>1, <2>2 DEF Acquire
<1>3. ASSUME NEW j \in Job, ~Acquire(j),
             Launch(j) \/ ClientStep(j) \/ ClientFault(j) \/ ScriptCommits(j) \/ ScriptRejected(j)
      PROVE  UNCHANGED plan
  BY <1>3
  DEF ClientStep, ClientFault, Launch, ChatRefreshed, ChatRefused, Crash, AcquireRefused,
      AcquireFails, ReleaseNoop, ReleaseNoopFails, BeginRun, BeginRunFails,
      ReadRosterPointer, RosterUnavailable, RenewLease, SubmitScript, ScriptReplies,
      ReadReceipt, ReceiptUnreadable, MarkFailed, Release, ScriptCommits, ScriptRejected
<1>4. CASE Tick \/ UNCHANGED vars BY <1>1, <1>4 DEF Tick, vars
<1> QED BY <1>1, <1>2, <1>3, <1>4 DEF Next

(* Only the publish script moves the row's publication.                    *)
LEMMA OthersStutter ==
  ASSUME [Next]_vars, \A j \in Job : ~ScriptCommits(j)
  PROVE  UNCHANGED <<through, head, roster, published>>
<1>1. ASSUME NEW j \in Job, Launch(j) \/ ClientStep(j) \/ ClientFault(j) \/ ScriptRejected(j)
      PROVE  UNCHANGED <<through, head, roster, published>>
  BY <1>1
  DEF ClientStep, ClientFault, Launch, ChatRefreshed, ChatRefused, Crash, Acquire,
      AcquireRefused, AcquireFails, ReleaseNoop, ReleaseNoopFails, BeginRun, BeginRunFails,
      ReadRosterPointer, RosterUnavailable, RenewLease, SubmitScript, ScriptReplies,
      ReadReceipt, ReceiptUnreadable, MarkFailed, Release, ScriptRejected,
      TakeLease, FreeLease, ExtendLease, row
<1>2. CASE Tick \/ UNCHANGED vars BY <1>2 DEF Tick, vars, row
<1> QED BY <1>1, <1>2 DEF Next

LEMMA CommitPublishes ==
  ASSUME ChainInv, NEW j \in Job, ScriptCommits(j)
  PROVE  Chain!Next
<1> USE DEF ChainInv, TypeInv
<1>1. /\ published' = published \cup {RunOf(j)} /\ head' = RunOf(j)
      /\ through' = plan[j].to /\ through = plan[j].from
      /\ RunOf(j).from = plan[j].from /\ RunOf(j).to = plan[j].to
  BY DEF ScriptCommits, ScriptAsserts, RunOf
<1>2. RunOf(j) \in RunId /\ RunOf(j) \notin published
  BY RunOfTyped, NewRun DEF ScriptCommits, RunInv
<1>3. through # None => through < plan[j].to
  BY <1>1 DEF PlansForward
<1> QED BY <1>1, <1>2, <1>3 DEF Chain!Next, Chain!Publish

(* The 'news_usage' row of pipeline_state is a chain of publications: each *)
(* starts at the watermark it replaces, moves it forward, happens once.    *)
THEOREM NewsRefinesPublication == Spec => NewsPublishesInChain
<1>1. Init => ChainInv /\ Chain!Init
  BY InitTypeInv, InitRunInv DEF ChainInv, Init, PlansForward, Chain!Init
<1>2. ChainInv /\ [Next]_vars => ChainInv'
  BY NextTypeInv, NextRunInv, NextPlansForward DEF ChainInv
<1>3. ChainInv /\ [Next]_vars => [Chain!Next]_(Chain!pubVars)
  BY CommitPublishes, OthersStutter DEF Chain!pubVars
<1> QED BY <1>1, <1>2, <1>3, PTL DEF Spec, NewsPublishesInChain, Chain!Spec

(* A News publication is anchored to the roster the Chat row names when it *)
(* commits, and to the configuration its row was created with.             *)
THEOREM NewsIsAnchored == Spec => PublicationIsAnchored
<1>1. TypeInv /\ [Next]_vars =>
        [head' # head => roster' = chat /\ config = cfg[head'.job]]_vars
  <2> SUFFICES ASSUME TypeInv, [Next]_vars, head' # head
               PROVE  roster' = chat /\ config = cfg[head'.job]
    OBVIOUS
  <2>1. PICK j \in Job : ScriptCommits(j) BY OthersStutter
  <2> QED BY <2>1 DEF ScriptCommits, ScriptAsserts, HoldsItsLease, RosterAsserted, RunOf
<1> QED BY <1>1, InitTypeInv, NextTypeInv, PTL DEF Spec, PublicationIsAnchored

----------------------------------------------------------------------------
(* The recovery of old conversations.  Facts are replaced and never lost   *)
(* (MergingKnows), so what a plan counts on stays, whether history or      *)
(* telemetry (PlanInv).  It knows all the facts there are, but for facts   *)
(* compiled from history, as long as no publication has moved the run it   *)
(* was read under (FreshInv).                                              *)

(* The event f is in the tables, perhaps as another row.                   *)
Known(f) == \E g \in facts : SameEvent(f, g)

FromHistory(f) == \E t \in Turn, k \in Kind : f = History(t, k)

(* Up to here a backfill has sent nothing.                                 *)
Early    == {"planned", "acquire", "source", "facts"}
Planned  == {"freeze", "renew", "writers", "apply"}
Holding  == Planned \cup {"sent", "verify", "receipt"}

PlanOf(b) ==
  /\ step[b] \in {"idle"} \cup Early \cup Planned => insert[b] = "none"
  /\ step[b] \in Early => Plannable(approved[b])
  /\ step[b] \in Holding =>
       Plannable(draft[b]) /\ \A q \in draft[b].facts : Known(q)

(* What a plan that may still be inserted does not know is history.        *)
FreshOf(b) ==
  step[b] \in Planned \/ insert[b] = "sent" =>
    /\ draft[b].run <= run
    /\ draft[b].run = run => \A f \in facts \ draft[b].facts : FromHistory(f)

ReceiptOf(b) ==
  step[b] = "receipt" => Covered(Compiled(draft[b].source)) /\ AskedIn(Missing(draft[b]))

PlanInv    == \A b \in Operator : PlanOf(b)
FreshInv   == \A b \in Operator : FreshOf(b)
ReceiptInv == ReceiptsHold /\ \A b \in Operator : ReceiptOf(b)

RebuildInv ==
  /\ \A f \in compiled : FromHistory(f)
  /\ phase = "record" => Covered(compiled) /\ AskedIn(recovered)
  /\ RebuildRecordHolds

(* Telemetry has the request's identity, traced or not.                    *)
OriginInv == \A f \in facts : f.origin = "telemetry" => f.id = "request"

(* A publisher that may still commit was started with a run to spare.      *)
CountInv == holder = "publisher" /\ (script \/ execution) => run < MaxRuns

HistoryInv ==
  /\ HistoryAssumption /\ HistoryTypeOK /\ CountInv
  /\ OriginInv /\ PlanInv /\ FreshInv /\ ReceiptInv /\ RebuildInv

----------------------------------------------------------------------------
(* Facts.                                                                  *)

LEMMA HistoryTyped ==
  ASSUME HistoryAssumption, NEW t \in Turn, NEW k \in Kind
  PROVE  History(t, k) \in Fact /\ Telemetry(t, k) \in Fact
<1>1. Day[t] \in Nat BY DEF HistoryAssumption
<1>2. Day[t] + 0 \in Days /\ Day[t] + 1 \in Days
  BY DEF Days
<1>3. Day[t] \in Days
  BY <1>1, <1>2
<1> QED BY <1>2, <1>3 DEF History, Telemetry, Fact, Kind

(* The compiler makes history rows, of turns that were asked.              *)
LEMMA CompiledIsHistory ==
  ASSUME HistoryAssumption, NEW turns \in SUBSET Turn
  PROVE  Compiled(turns) \subseteq Fact /\ \A f \in Compiled(turns) : FromHistory(f)
<1>1. \A f \in Compiled(turns) : \E t \in turns, k \in Kind : f = History(t, k)
  BY DEF Compiled, Kind
<1> QED BY <1>1, HistoryTyped DEF FromHistory

LEMMA MissingIsHistory ==
  ASSUME HistoryAssumption, NEW p \in Plan
  PROVE  Missing(p) \subseteq Fact /\ \A f \in Missing(p) : FromHistory(f)
<1>1. p.source \in SUBSET Turn BY DEF Plan
<1> QED BY <1>1, CompiledIsHistory DEF Missing

(* A history fact is determined by its turn and kind.                      *)
LEMMA OneHistory ==
  ASSUME NEW f, NEW g, FromHistory(f), FromHistory(g), SameTurn(f, g)
  PROVE  f = g
BY DEF FromHistory, SameTurn, History

(* Only an untraced question and its telemetry that names the placeholder  *)
(* are not recognised as the same.                                         *)
LEMMA OnlyPlaceholders ==
  ASSUME NEW f, FromHistory(f), NEW g \in Fact, SameTurn(f, g), ~Matched(f, g),
         g.origin = "telemetry" => g.id = "request"
  PROVE  /\ f.kind = "question" /\ g.origin = "telemetry"
         /\ f.turn \in Untraced \cap Placeholder
<1>1. f.origin = "history" /\ f.kind \in Kind
      /\ f.id = IF f.turn \in Untraced THEN "fallback" ELSE "request"
  BY DEF FromHistory, History
<1>2. Message(f) # Message(g) /\ f.id # g.id
  BY DEF Matched, SameEvent, SameMessage
<1>3. f.kind = g.kind /\ f.turn = g.turn
  BY DEF SameTurn
<1>4. f.kind = "question" /\ g.origin # "history" /\ g.turn \in Placeholder
  BY <1>1, <1>2, <1>3 DEF Message
<1>5. g.origin = "telemetry"
  BY <1>4 DEF Fact
<1>6. f.turn \in Untraced
  BY <1>1, <1>2, <1>5
<1> QED BY <1>3, <1>4, <1>5, <1>6

(* What is known stays known, so what is covered stays covered.            *)
LEMMA CoverageStays ==
  ASSUME \A f : Known(f) => Known(f)'
  PROVE  \A rows : /\ Covered(rows) => Covered(rows)'
                   /\ AskedIn(rows) => AskedIn(rows)'
<1> SUFFICES ASSUME NEW rows
             PROVE  /\ Covered(rows) => Covered(rows)'
                    /\ AskedIn(rows) => AskedIn(rows)'
  OBVIOUS
<1>1. ASSUME NEW f, \E q \in facts : Asks(q, f) PROVE \E q \in facts' : Asks(q, f)
  <2>1. PICK q \in facts : Asks(q, f) BY <1>1
  <2>2. Known(q) BY <2>1 DEF Known, SameEvent, SameTurn
  <2>3. PICK g \in facts' : SameEvent(q, g) BY <2>2 DEF Known
  <2> QED BY <2>1, <2>3 DEF Asks, SameEvent, SameTurn
<1>2. \A f : Known(f) <=> \E g \in facts : SameEvent(f, g)
  BY DEF Known
<1>3. \A f : Known(f)' <=> \E g \in facts' : SameEvent(f, g)
  BY DEF Known
<1> QED BY <1>1, <1>2, <1>3 DEF Covered, AskedIn

LEMMA GrowingKnows ==
  ASSUME facts \subseteq facts'
  PROVE  \A f : Known(f) => Known(f)'
BY DEF Known

(* A publication replaces an event by the same event.                      *)
LEMMA MergingKnows ==
  ASSUME NEW rows, NEW days, facts' = Merged(rows, days)
  PROVE  \A f : Known(f) => Known(f)'
<1> SUFFICES ASSUME NEW f, Known(f) PROVE Known(f)'
  OBVIOUS
<1>1. PICK g \in facts : SameEvent(f, g) BY DEF Known
<1>2. CASE g \in facts' BY <1>1, <1>2 DEF Known
<1>3. CASE g \notin facts'
  <2>1. PICK h \in rows : SameEvent(h, g)
    BY <1>1, <1>3 DEF Merged
  <2>2. h \in facts' /\ SameEvent(f, h)
    BY <1>1, <2>1 DEF Merged, SameEvent, SameTurn
  <2> QED BY <2>2 DEF Known
<1> QED BY <1>2, <1>3

(* Inserting history keeps origins, and every plan fresh.                  *)
LEMMA InsertingKeeps ==
  ASSUME HistoryInv, facts \subseteq facts', UNCHANGED <<run, step, draft>>,
         \A f \in facts' \ facts : FromHistory(f),
         \A b \in Operator : insert'[b] = "sent" => insert[b] = "sent"
  PROVE  OriginInv' /\ FreshInv'
<1>1. \A f : FromHistory(f)' <=> FromHistory(f)
  BY DEF FromHistory, History
<1>2. \A f \in facts' \ facts : f.origin = "history"
  BY DEF FromHistory, History
<1>3. OriginInv'
  BY <1>2 DEF HistoryInv, OriginInv
<1> QED BY <1>1, <1>3 DEF HistoryInv, FreshInv, FreshOf

LEMMA FactsStay ==
  ASSUME UNCHANGED facts
  PROVE  /\ \A f : Known(f) => Known(f)'
         /\ \A f : FromHistory(f)' <=> FromHistory(f)
         /\ OriginInv => OriginInv'
         /\ \A rows : (Covered(rows) => Covered(rows)') /\ (AskedIn(rows) => AskedIn(rows)')
<1>1. \A f : Known(f) => Known(f)' BY DEF Known
<1>2. \A f : FromHistory(f)' <=> FromHistory(f) BY DEF FromHistory, History
<1>3. OriginInv => OriginInv' BY DEF OriginInv
<1> QED BY <1>1, <1>2, <1>3, CoverageStays

(* What the plans, receipts and records stand for survives any step that   *)
(* leaves them alone and keeps the facts known.                            *)
LEMMA RecordsStay ==
  ASSUME HistoryInv, \A f : Known(f) => Known(f)',
         UNCHANGED <<step, approved, draft, receipts, rebuild>>,
         \A b \in Operator : insert'[b] = "none" \/ insert[b] # "none"
  PROVE  PlanInv' /\ ReceiptInv' /\ RebuildInv'
<1>1. \A rows : (Covered(rows) => Covered(rows)') /\ (AskedIn(rows) => AskedIn(rows)')
  BY CoverageStays
<1>2. PlanInv'
  BY DEF HistoryInv, PlanInv, PlanOf
<1>3. \A p : Missing(p)' = Missing(p) /\ Compiled(p.source)' = Compiled(p.source)
  BY DEF Missing, Compiled, History
<1>4. ReceiptInv'
  BY <1>1, <1>3 DEF HistoryInv, ReceiptInv, ReceiptOf, ReceiptsHold
<1>5. \A f : FromHistory(f)' <=> FromHistory(f)
  BY DEF FromHistory, History
<1>6. RebuildInv'
  BY <1>1, <1>5 DEF HistoryInv, RebuildInv, RebuildRecordHolds, rebuild
<1> QED BY <1>2, <1>4, <1>6

----------------------------------------------------------------------------
(* The steps.                                                              *)

LEMMA InitHistoryInv == HistoryAssumption /\ HistoryInit => HistoryInv
<1> SUFFICES ASSUME HistoryAssumption, HistoryInit PROVE HistoryInv
  OBVIOUS
<1>1. NoPlan \in Plan
  BY DEF NoPlan, Plan, HistoryAssumption
<1>2. HistoryTypeOK
  <2>1. 0 \in 0..MaxRuns /\ 0 \in 0..MaxBindings BY DEF HistoryAssumption
  <2> QED BY <1>1, <2>1 DEF HistoryInit, HistoryTypeOK, Step, NoRebuild
<1>3. OriginInv /\ RebuildInv /\ CountInv
  BY DEF HistoryInit, CountInv, HistoryAssumption, OriginInv, RebuildInv, RebuildRecordHolds,
         NoRebuild, Covered, AskedIn
<1>4. PlanInv /\ FreshInv /\ ReceiptInv
  BY DEF HistoryInit, PlanInv, PlanOf, FreshInv, FreshOf, ReceiptInv, ReceiptOf,
         ReceiptsHold, Early, Planned, Holding
<1> QED BY <1>2, <1>3, <1>4 DEF HistoryInv

(* Users, telemetry, schedulers, the lease and executions.                 *)
LEMMA WorldInv ==
  ASSUME HistoryInv,
         \/ \E t \in Turn : AskTurn(t)
         \/ RosterChanges \/ SwitchSchedulers \/ LeaseExpires
         \/ PublisherStarts \/ PublisherSubmits \/ ScriptEnds \/ ExecutionEnds
  PROVE  HistoryInv'
<1>1. UNCHANGED <<facts, run, backfill, rebuild>>
  BY DEF AskTurn, RosterChanges, SwitchSchedulers, LeaseExpires,
         PublisherStarts, PublisherSubmits, ScriptEnds, ExecutionEnds
<1>2. HistoryTypeOK' /\ CountInv'
  <2>1. HistoryTypeOK /\ HistoryAssumption /\ CountInv BY DEF HistoryInv
  <2> USE <1>1, <2>1 DEF HistoryTypeOK, HistoryAssumption, CountInv, source, leaseRow, publisher,
          backfill, rebuild
  <2>2. ASSUME NEW t \in Turn, AskTurn(t)
        PROVE  HistoryTypeOK' /\ CountInv'
    BY <2>2 DEF AskTurn
  <2>3. CASE RosterChanges
    <3>1. bindings' \in 0..MaxBindings BY <2>3 DEF RosterChanges
    <3> QED BY <2>3, <3>1 DEF RosterChanges
  <2>7. CASE LeaseExpires
    BY <2>7 DEF LeaseExpires
  <2>6. CASE SwitchSchedulers
    <3>1. paused' \in BOOLEAN BY <2>6, Zenon DEF SwitchSchedulers
    <3> QED BY <2>6, <3>1 DEF SwitchSchedulers
  <2>4. CASE PublisherStarts \/ PublisherSubmits
    BY <2>4 DEF PublisherStarts, PublisherSubmits, Take
  <2>5. CASE ScriptEnds \/ ExecutionEnds
    BY <2>5 DEF ScriptEnds, ExecutionEnds, Free
  <2> QED BY <2>2, <2>3, <2>4, <2>5, <2>6, <2>7
<1>3. OriginInv' /\ PlanInv' /\ ReceiptInv' /\ RebuildInv'
  BY <1>1, FactsStay, RecordsStay DEF HistoryInv, backfill
<1>4. FreshInv'
  BY <1>1, FactsStay DEF HistoryInv, FreshInv, FreshOf, backfill
<1>5. HistoryAssumption' BY DEF HistoryInv, HistoryAssumption
<1> QED BY <1>2, <1>3, <1>4, <1>5 DEF HistoryInv

LEMMA PublicationInv ==
  ASSUME HistoryInv, PublisherCommits
  PROVE  HistoryInv'
<1>1. PICK turns \in SUBSET asked, days \in Windows :
        \E rows \in SUBSET Reported(turns) : facts' = Merged(rows, days)
  BY DEF PublisherCommits
<1>0. PICK rows \in SUBSET Reported(turns) : facts' = Merged(rows, days)
  BY <1>1
<1>2. /\ run' = run + 1 /\ UNCHANGED <<source, backfill, rebuild>>
      /\ Free("publisher") /\ script' = FALSE /\ UNCHANGED <<paused, execution>>
      /\ script /\ holder = "publisher"
  BY DEF PublisherCommits
<1>3. turns \subseteq Turn /\ facts \subseteq Fact /\ run \in Nat
      /\ \A b \in Operator : draft[b].run \in Nat
  BY DEF HistoryInv, HistoryTypeOK, Plan
<1>4. facts' \subseteq Fact
  <2>1. rows \subseteq Fact
    BY <1>3, HistoryTyped DEF HistoryInv, Reported
  <2> QED BY <1>0, <1>3, <2>1 DEF Merged
<1>5. \A f : Known(f) => Known(f)'
  BY <1>0, MergingKnows
<1>10. OriginInv'
  <2>1. \A f \in rows : f.id = "request"
    BY DEF Reported, Telemetry
  <2> QED BY <1>0, <2>1 DEF HistoryInv, OriginInv, Merged
<1>6. PlanInv' /\ ReceiptInv' /\ RebuildInv'
  BY <1>2, <1>5, RecordsStay DEF backfill
<1>7. FreshInv'
  BY <1>2, <1>3 DEF HistoryInv, FreshInv, FreshOf, backfill
<1>8. HistoryTypeOK' /\ CountInv'
  <2>1. HistoryTypeOK /\ HistoryAssumption /\ CountInv BY DEF HistoryInv
  <2>2. run' \in 0..MaxRuns
    BY <1>2, <1>3, <2>1 DEF CountInv, HistoryAssumption
  <2>3. holder' = Nobody /\ lapsed' = FALSE
    BY <1>2 DEF Free
  <2>4. /\ UNCHANGED <<asked, bindings, step, approved, draft, insert, receipts>>
        /\ UNCHANGED <<phase, compiled, due, recovered, rebuilt, paused, execution>>
    BY <1>2 DEF source, backfill, rebuild
  <2>5. CountInv'
    BY <2>3, <2>1 DEF CountInv, HistoryAssumption
  <2>6. HistoryTypeOK'
    <3>1. script' = FALSE /\ facts' \subseteq Fact
      BY <1>2, <1>4
    <3>2. holder' \in Operator \cup {"publisher", Nobody} /\ lapsed' \in BOOLEAN
      BY <2>3
    <3>3. /\ phase' \in {"idle", "apply", "verify", "record"}
          /\ compiled' \subseteq Fact /\ due' \subseteq Days /\ recovered' \subseteq Fact
          /\ rebuilt' \in [rows : SUBSET Fact, answers : SUBSET Fact]
      BY <2>1, <2>4 DEF HistoryTypeOK
    <3>4. /\ step' \in [Operator -> Step] /\ receipts' \subseteq Plan
          /\ approved' \in [Operator -> Plan] /\ draft' \in [Operator -> Plan]
          /\ insert' \in [Operator -> {"none", "sent", "committed", "rejected"}]
      BY <2>1, <2>4 DEF HistoryTypeOK
    <3>5. asked' \subseteq Turn /\ bindings' \in 0..MaxBindings
          /\ paused' \in BOOLEAN /\ execution' \in BOOLEAN
      BY <2>1, <2>4 DEF HistoryTypeOK
    <3>6. script' \in BOOLEAN
      BY <3>1
    <3> QED BY <2>2, <3>1, <3>2, <3>3, <3>4, <3>5, <3>6 DEF HistoryTypeOK
  <2> QED BY <2>5, <2>6
<1>9. HistoryAssumption' BY DEF HistoryInv, HistoryAssumption
<1> QED BY <1>6, <1>7, <1>8, <1>9, <1>10 DEF HistoryInv

(* A step of one backfill that leaves the facts alone.                     *)
LEMMA OneBackfill ==
  ASSUME HistoryInv, NEW b \in Operator, HistoryTypeOK', CountInv',
         UNCHANGED <<facts, run, rebuild>>,
         \A c \in Operator \ {b} :
           /\ step'[c] = step[c] /\ approved'[c] = approved[c]
           /\ draft'[c] = draft[c] /\ insert'[c] = insert[c],
         PlanOf(b)', FreshOf(b)', ReceiptOf(b)',
         \/ receipts' = receipts
         \/ step[b] = "receipt" /\ receipts' = receipts \cup {draft[b]}
  PROVE  HistoryInv'
<1>1. HistoryAssumption' BY DEF HistoryInv, HistoryAssumption
<1>2. /\ \A f : (Known(f) => Known(f)') /\ (FromHistory(f)' <=> FromHistory(f))
      /\ \A rows : (Covered(rows) => Covered(rows)') /\ (AskedIn(rows) => AskedIn(rows)')
      /\ OriginInv'
  BY FactsStay DEF HistoryInv
<1>3. \A p : Missing(p)' = Missing(p) /\ Compiled(p.source)' = Compiled(p.source)
  BY DEF Missing, Compiled, History
<1>4. ASSUME NEW c \in Operator, c # b PROVE PlanOf(c)' /\ FreshOf(c)' /\ ReceiptOf(c)'
  <2>1. PlanOf(c)'
    BY <1>2, <1>4 DEF HistoryInv, PlanInv, PlanOf
  <2>2. FreshOf(c)'
    BY <1>2, <1>4 DEF HistoryInv, FreshInv, FreshOf
  <2>3. ReceiptOf(c)'
    BY <1>2, <1>3, <1>4 DEF HistoryInv, ReceiptInv, ReceiptOf
  <2> QED BY <2>1, <2>2, <2>3
<1>5. ReceiptsHold'
  BY <1>2, <1>3 DEF HistoryInv, ReceiptInv, ReceiptOf, ReceiptsHold
<1>6. RebuildInv'
  BY <1>2 DEF HistoryInv, RebuildInv, RebuildRecordHolds, rebuild
<1> QED BY <1>1, <1>2, <1>4, <1>5, <1>6 DEF HistoryInv, PlanInv, FreshInv, ReceiptInv

(* The typing of one backfill's step.                                      *)
LEMMA BackfillTyped ==
  ASSUME HistoryInv, NEW b \in Operator,
         UNCHANGED <<source, facts, run, publisher, rebuild>>,
         step' \in [Operator -> Step],
         approved' \in [Operator -> Plan], draft' \in [Operator -> Plan],
         insert' \in [Operator -> {"none", "sent", "committed", "rejected"}],
         receipts' \subseteq Plan,
         UNCHANGED leaseRow \/ Free(b) \/ Take(b)
  PROVE  HistoryTypeOK' /\ CountInv'
<1>1. HistoryTypeOK /\ HistoryAssumption /\ CountInv
  BY DEF HistoryInv
<1>2. /\ holder' \in {holder, b, Nobody} /\ lapsed' \in BOOLEAN
      /\ holder' = "publisher" => holder = "publisher"
  BY <1>1 DEF Free, Take, leaseRow, HistoryTypeOK, HistoryAssumption
<1> QED BY <1>1, <1>2 DEF HistoryTypeOK, CountInv, source, publisher, rebuild

(* The row of a backfill that reports its end.                             *)
LEMMA EndedRow ==
  ASSUME HistoryInv, NEW b \in Operator, EndRun(b)
  PROVE  /\ step' \in [Operator -> Step] /\ step'[b] = "ended"
         /\ approved' \in [Operator -> Plan] /\ draft' \in [Operator -> Plan]
         /\ insert[b] = "sent" => draft'[b] = draft[b]
         /\ \A c \in Operator \ {b} :
              step'[c] = step[c] /\ approved'[c] = approved[c] /\ draft'[c] = draft[c]
<1>1. NoPlan \in Plan
  BY DEF HistoryInv, NoPlan, Plan, HistoryAssumption
<1> QED BY <1>1 DEF EndRun, HistoryInv, HistoryTypeOK, Step

(* The row of a backfill that goes on.                                     *)
LEMMA MovedRow ==
  ASSUME HistoryInv, NEW b \in Operator, NEW s \in Step, GoOn(b, s)
  PROVE  /\ step' \in [Operator -> Step] /\ step'[b] = s
         /\ approved' = approved /\ draft' = draft
         /\ approved' \in [Operator -> Plan] /\ draft' \in [Operator -> Plan]
         /\ \A c \in Operator \ {b} : step'[c] = step[c]
BY DEF GoOn, HistoryInv, HistoryTypeOK

(* A run that ends, crashed or not.                                        *)
LEMMA EndInv ==
  ASSUME HistoryInv, NEW b \in Operator, EndRun(b),
         UNCHANGED <<source, facts, run, publisher, insert, receipts, rebuild>>,
         UNCHANGED leaseRow \/ Free(b)
  PROVE  HistoryInv'
<1>1. HistoryTypeOK' /\ CountInv'
  BY EndedRow, BackfillTyped DEF HistoryInv, HistoryTypeOK
<1>2. PlanOf(b)' /\ ReceiptOf(b)'
  BY EndedRow DEF PlanOf, ReceiptOf, Early, Planned, Holding
<1>3. FreshOf(b)'
  BY EndedRow, FactsStay DEF HistoryInv, FreshInv, FreshOf, Planned
<1> QED BY <1>1, <1>2, <1>3, EndedRow, OneBackfill

(* A step that changes only the position of a run.                         *)
LEMMA MoveInv ==
  ASSUME HistoryInv, NEW b \in Operator, NEW s \in Step, GoOn(b, s),
         UNCHANGED <<source, facts, run, publisher, insert, receipts, rebuild>>,
         UNCHANGED leaseRow \/ Free(b) \/ Take(b),
         s # "idle", s # "receipt",
         s \in Early => step[b] \in Early,
         s \in Planned => step[b] \in Planned,
         s \in Holding => step[b] \in Holding
  PROVE  HistoryInv'
<1>1. HistoryTypeOK' /\ CountInv'
  BY MovedRow, BackfillTyped DEF HistoryInv, HistoryTypeOK
<1>2. PlanOf(b)' /\ ReceiptOf(b)'
  BY MovedRow, FactsStay DEF HistoryInv, PlanInv, PlanOf, ReceiptOf
<1>3. FreshOf(b)'
  BY MovedRow, FactsStay DEF HistoryInv, FreshInv, FreshOf
<1> QED BY <1>1, <1>2, <1>3, MovedRow, OneBackfill

LEMMA PlanOnlyInv ==
  ASSUME HistoryInv, NEW b \in Operator, PlanOnly(b)
  PROVE  HistoryInv'
<1>1. PlanNow \in Plan
  BY DEF HistoryInv, HistoryTypeOK, PlanNow, Plan
<1>2. /\ step' \in [Operator -> Step] /\ step'[b] = "planned"
      /\ approved' \in [Operator -> Plan] /\ approved'[b] = PlanNow
      /\ \A c \in Operator \ {b} : step'[c] = step[c] /\ approved'[c] = approved[c]
      /\ step[b] = "idle" /\ Plannable(PlanNow)
      /\ UNCHANGED <<source, facts, run, leaseRow, publisher, draft, insert, receipts, rebuild>>
  BY <1>1 DEF PlanOnly, HistoryInv, HistoryTypeOK, Step
<1>3. HistoryTypeOK' /\ CountInv'
  BY <1>2, BackfillTyped DEF HistoryInv, HistoryTypeOK
<1>4. PICK p : p = PlanNow
  OBVIOUS
<1>5. Plannable(p)' <=> Plannable(p)
  BY DEF Plannable, Unambiguous, AnswersAsked, Missing, Compiled, History
<1>6. PlanOf(b)'
  BY <1>2, <1>4, <1>5 DEF HistoryInv, PlanInv, PlanOf, Early, Planned, Holding
<1>7. FreshOf(b)' /\ ReceiptOf(b)'
  BY <1>2, <1>6 DEF FreshOf, ReceiptOf, PlanOf, Planned, Early
<1> QED BY <1>2, <1>3, <1>6, <1>7, OneBackfill

LEMMA ReadSourceInv ==
  ASSUME HistoryInv, NEW b \in Operator, ReadSource(b)
  PROVE  HistoryInv'
<1>1. [draft[b] EXCEPT !.source = asked, !.bindings = bindings] \in Plan
  BY DEF HistoryInv, HistoryTypeOK, Plan
<1>2. /\ step' \in [Operator -> Step] /\ step'[b] = "facts"
      /\ draft' \in [Operator -> Plan]
      /\ \A c \in Operator \ {b} : step'[c] = step[c] /\ draft'[c] = draft[c]
      /\ step[b] = "source"
      /\ UNCHANGED <<source, facts, run, leaseRow, publisher>>
      /\ UNCHANGED <<approved, insert, receipts, rebuild>>
  BY <1>1 DEF ReadSource, HistoryInv, HistoryTypeOK, Step
<1>3. HistoryTypeOK' /\ CountInv'
  BY <1>2, BackfillTyped DEF HistoryInv, HistoryTypeOK
<1>4. PlanOf(b)'
  BY <1>2 DEF HistoryInv, PlanInv, PlanOf, Early, Planned, Holding
<1>5. FreshOf(b)' /\ ReceiptOf(b)'
  BY <1>2, <1>4 DEF FreshOf, ReceiptOf, PlanOf, Planned, Early
<1> QED BY <1>2, <1>3, <1>4, <1>5, OneBackfill

(* The plan goes on only if it is the approved one; it is read under the   *)
(* run the row has now.                                                    *)
LEMMA ReadFactsInv ==
  ASSUME HistoryInv, NEW b \in Operator, ReadFacts(b)
  PROVE  HistoryInv'
<1>1. [draft[b] EXCEPT !.facts = facts, !.run = run] \in Plan /\ NoPlan \in Plan
  <2>1. draft[b] \in Plan /\ facts \subseteq Fact /\ run \in 0..MaxRuns
    BY DEF HistoryInv, HistoryTypeOK
  <2>2. NoPlan \in Plan
    BY DEF HistoryInv, HistoryAssumption, Plan, NoPlan
  <2> QED BY <2>1, <2>2 DEF Plan
<1>2. /\ step' \in [Operator -> Step]
      /\ step'[b] = "release" \/ (step'[b] = "freeze" /\ draft'[b] = approved[b])
      /\ draft' \in [Operator -> Plan] /\ approved' \in [Operator -> Plan]
      /\ draft'[b].facts = facts /\ draft'[b].run = run
      /\ \A c \in Operator \ {b} :
           step'[c] = step[c] /\ draft'[c] = draft[c] /\ approved'[c] = approved[c]
      /\ step[b] = "facts" /\ insert[b] = "none"
      /\ UNCHANGED <<source, facts, run, leaseRow, publisher, insert, receipts, rebuild>>
  <2>1. step[b] = "facts" /\ insert[b] = "none"
    BY DEF ReadFacts, HistoryInv, PlanInv, PlanOf, Early
  <2>2. draft[b] \in Plan
    BY DEF HistoryInv, HistoryTypeOK
  <2> QED BY <1>1, <2>1, <2>2 DEF ReadFacts, HistoryInv, HistoryTypeOK, Step, Plan
<1>3. HistoryTypeOK' /\ CountInv'
  BY <1>2, BackfillTyped DEF HistoryInv, HistoryTypeOK
<1>4. \A p : Plannable(p)' <=> Plannable(p)
  BY DEF Plannable, Unambiguous, AnswersAsked, Missing, Compiled, History
<1>5. Plannable(approved[b])
  BY <1>2 DEF HistoryInv, PlanInv, PlanOf, Early
<1>6. \A q \in facts : Known(q)
  BY DEF Known, SameEvent, SameTurn
<1>7. PlanOf(b)'
  BY <1>2, <1>4, <1>5, <1>6, FactsStay DEF PlanOf, Early, Planned, Holding
<1>8. run \in Nat
  BY DEF HistoryInv, HistoryTypeOK
<1>9. FreshOf(b)' /\ ReceiptOf(b)'
  BY <1>2, <1>8 DEF FreshOf, ReceiptOf
<1> QED BY <1>2, <1>3, <1>7, <1>9, OneBackfill

LEMMA ApplyInv ==
  ASSUME HistoryInv, NEW b \in Operator, Apply(b)
  PROVE  HistoryInv'
<1>1. /\ step[b] = "apply" /\ GoOn(b, "sent") /\ "sent" \in Step
      /\ insert' = [insert EXCEPT ![b] = "sent"]
      /\ UNCHANGED <<source, facts, run, leaseRow, publisher, receipts, rebuild>>
  BY DEF Apply, Step
<1>2. insert' \in [Operator -> {"none", "sent", "committed", "rejected"}]
      /\ \A c \in Operator \ {b} : insert'[c] = insert[c]
  BY <1>1 DEF HistoryInv, HistoryTypeOK
<1>3. HistoryTypeOK' /\ CountInv'
  BY <1>1, <1>2, MovedRow, BackfillTyped DEF HistoryInv, HistoryTypeOK
<1>4. PlanOf(b)' /\ ReceiptOf(b)'
  BY <1>1, MovedRow, FactsStay
  DEF HistoryInv, PlanInv, PlanOf, ReceiptOf, Early, Planned, Holding
<1>5. FreshOf(b)'
  BY <1>1, MovedRow, FactsStay DEF HistoryInv, FreshInv, FreshOf, Planned
<1> QED BY <1>1, <1>2, <1>3, <1>4, <1>5, MovedRow, OneBackfill

LEMMA InsertRejectedInv ==
  ASSUME HistoryInv, NEW b \in Operator, InsertRejected(b)
  PROVE  HistoryInv'
<1>1. /\ insert' \in [Operator -> {"none", "sent", "committed", "rejected"}]
      /\ insert'[b] = "rejected" /\ insert[b] = "sent"
      /\ \A c \in Operator \ {b} : insert'[c] = insert[c]
      /\ UNCHANGED <<source, facts, run, leaseRow, publisher, step, approved, draft, receipts,
                     rebuild>>
  BY DEF InsertRejected, HistoryInv, HistoryTypeOK
<1>2. HistoryTypeOK' /\ CountInv'
  BY <1>1, BackfillTyped DEF HistoryInv, HistoryTypeOK
<1>3. PlanOf(b)' /\ FreshOf(b)'
  BY <1>1, FactsStay DEF HistoryInv, PlanInv, PlanOf, FreshInv, FreshOf
<1>4. \A p : Missing(p)' = Missing(p) /\ Compiled(p.source)' = Compiled(p.source)
  BY DEF Missing, Compiled, History
<1>5. ReceiptOf(b)'
  BY <1>1, <1>4, FactsStay DEF HistoryInv, ReceiptInv, ReceiptOf
<1> QED BY <1>1, <1>2, <1>3, <1>5, OneBackfill

(* What the tables are found to hold, with no row of the plan missing, is  *)
(* all the plan compiled.                                                  *)
LEMMA VerifyInv ==
  ASSUME HistoryInv, NEW b \in Operator, Verify(b)
  PROVE  HistoryInv'
<1>1. /\ step[b] = "verify"
      /\ UNCHANGED <<source, facts, run, leaseRow, publisher, insert, receipts, rebuild>>
  BY DEF Verify
<1>2. CASE ~Verified(draft[b], PlanNow)
  <2>1. GoOn(b, "release") /\ "release" \in Step
    BY <1>2 DEF Verify, Step
  <2> QED BY <1>1, <2>1, MoveInv DEF Early, Planned, Holding
<1>3. CASE Verified(draft[b], PlanNow)
  <2>1. GoOn(b, "receipt") /\ "receipt" \in Step
    BY <1>3 DEF Verify, Step
  <2>2. HistoryTypeOK' /\ CountInv'
    BY <1>1, <2>1, MovedRow, BackfillTyped DEF HistoryInv, HistoryTypeOK
  <2>3. PlanOf(b)'
    BY <1>1, <2>1, MovedRow, FactsStay
    DEF HistoryInv, PlanInv, PlanOf, Early, Planned, Holding
  <2>4. FreshOf(b)'
    BY <1>1, <2>1, MovedRow, FactsStay DEF HistoryInv, FreshInv, FreshOf, Planned
  <2>5. PICK p : p = draft[b]
    OBVIOUS
  <2>6. Covered(Compiled(p.source))
    <3>1. /\ p.source = asked
          /\ \A f \in Compiled(asked) : \E g \in facts : Matched(f, g)
          /\ \A f \in Compiled(asked), g \in facts : Matched(f, g) => SameEvent(f, g)
      BY <1>3, <2>5 DEF Verified, PlanNow, Missing, Plannable, Unambiguous
    <3> QED BY <3>1 DEF Covered
  <2>7. AskedIn(Missing(p))
    <3>1. AnswersAsked(p) /\ \A q \in p.facts : Known(q)
      BY <1>1, <2>5 DEF HistoryInv, PlanInv, PlanOf, Holding, Plannable
    <3>2. ASSUME NEW f \in Missing(p), f.kind = "answer"
          PROVE  \E g \in facts : Asks(g, f)
      <4>1. PICK q \in Compiled(p.source) \cup p.facts : Asks(q, f)
        BY <3>1, <3>2 DEF AnswersAsked
      <4>2. \E g \in facts : SameEvent(q, g)
        BY <2>6, <3>1 DEF Covered, Known
      <4> QED BY <4>1, <4>2 DEF Asks, SameEvent, SameTurn
    <3> QED BY <3>2 DEF AskedIn
  <2>8. Missing(p)' = Missing(p) /\ Compiled(p.source)' = Compiled(p.source)
    BY DEF Missing, Compiled, History
  <2>9. ReceiptOf(b)'
    BY <1>1, <2>1, <2>5, <2>6, <2>7, <2>8, MovedRow, FactsStay DEF ReceiptOf
  <2> QED BY <1>1, <2>1, <2>2, <2>3, <2>4, <2>9, MovedRow, OneBackfill
<1> QED BY <1>2, <1>3

LEMMA WriteReceiptInv ==
  ASSUME HistoryInv, NEW b \in Operator, WriteReceipt(b)
  PROVE  HistoryInv'
<1>1. /\ step[b] = "receipt" /\ GoOn(b, "release") /\ "release" \in Step
      /\ receipts' = receipts \cup {draft[b]}
      /\ UNCHANGED <<source, facts, run, leaseRow, publisher, insert, rebuild>>
  BY DEF WriteReceipt, Step
<1>2. receipts' \subseteq Plan
  BY <1>1 DEF HistoryInv, HistoryTypeOK
<1>3. HistoryTypeOK' /\ CountInv'
  BY <1>1, <1>2, MovedRow, BackfillTyped DEF HistoryInv, HistoryTypeOK
<1>4. PlanOf(b)' /\ ReceiptOf(b)'
  BY <1>1, MovedRow DEF PlanOf, ReceiptOf, Early, Planned, Holding
<1>5. FreshOf(b)'
  BY <1>1, MovedRow, FactsStay DEF HistoryInv, FreshInv, FreshOf, Planned
<1> QED BY <1>1, <1>3, <1>4, <1>5, MovedRow, OneBackfill

(* The remaining steps of a run move it or end it.                         *)
LEMMA StepsInv ==
  ASSUME HistoryInv, NEW b \in Operator,
         \/ CheckFreeze(b) \/ AcquireLease(b) \/ CheckFreezeAgain(b) \/ RenewBackfill(b)
         \/ CheckWriters(b) \/ InsertReplies(b) \/ ReleaseLease(b) \/ BackfillCrashes(b)
  PROVE  HistoryInv'
<1> DEFINE Same == UNCHANGED <<source, facts, run, publisher, insert, receipts, rebuild>>
           Leased == UNCHANGED leaseRow \/ Free(b) \/ Take(b)
           Ends == EndRun(b) /\ (UNCHANGED leaseRow \/ Free(b))
           Moves == \E s \in Step :
                      /\ GoOn(b, s) /\ Leased
                      /\ s # "idle" /\ s # "receipt"
                      /\ s \in Early => step[b] \in Early
                      /\ s \in Planned => step[b] \in Planned
                      /\ s \in Holding => step[b] \in Holding
<1>1. Same
  BY DEF CheckFreeze, AcquireLease, CheckFreezeAgain, RenewBackfill, CheckWriters,
         InsertReplies, ReleaseLease, BackfillCrashes
<1>2. Ends \/ Moves
  <2>1. CASE CheckFreeze(b)
    BY <2>1 DEF CheckFreeze, Step, Early, Planned, Holding
  <2>2. CASE AcquireLease(b)
    BY <2>2 DEF AcquireLease, Step, Early, Planned, Holding
  <2>3. CASE CheckFreezeAgain(b)
    BY <2>3 DEF CheckFreezeAgain, Step, Early, Planned, Holding
  <2>4. CASE RenewBackfill(b)
    BY <2>4 DEF RenewBackfill, Step, Early, Planned, Holding
  <2>5. CASE CheckWriters(b)
    BY <2>5 DEF CheckWriters, Step, Early, Planned, Holding
  <2>6. CASE InsertReplies(b)
    BY <2>6 DEF InsertReplies, Step, Early, Planned, Holding
  <2>7. CASE ReleaseLease(b) \/ BackfillCrashes(b)
    BY <2>7 DEF ReleaseLease, BackfillCrashes
  <2> QED BY <2>1, <2>2, <2>3, <2>4, <2>5, <2>6, <2>7
<1>3. CASE Ends
  BY <1>1, <1>3, EndInv
<1>4. CASE Moves
  <2>1. PICK s \in Step :
          /\ GoOn(b, s) /\ Leased
          /\ s # "idle" /\ s # "receipt"
          /\ s \in Early => step[b] \in Early
          /\ s \in Planned => step[b] \in Planned
          /\ s \in Holding => step[b] \in Holding
    BY <1>4
  <2> QED BY <1>1, <2>1, MoveInv
<1> QED BY <1>2, <1>3, <1>4

LEMMA InsertCommitsInv ==
  ASSUME HistoryInv, NEW b \in Operator, InsertCommits(b)
  PROVE  HistoryInv'
<1>1. /\ facts' = facts \cup Inserted(Missing(draft[b]))
      /\ insert' = [insert EXCEPT ![b] = "committed"] /\ insert[b] = "sent"
      /\ UNCHANGED <<source, run, leaseRow, publisher>>
      /\ UNCHANGED <<step, approved, draft, receipts, rebuild>>
  BY DEF InsertCommits
<1>2. Missing(draft[b]) \subseteq Fact /\ \A f \in Missing(draft[b]) : FromHistory(f)
  BY MissingIsHistory DEF HistoryInv, HistoryTypeOK
<1>3. facts \subseteq facts' /\ \A f \in facts' \ facts : f \in Fact /\ FromHistory(f)
  BY <1>1, <1>2 DEF Inserted
<1>4. insert' \in [Operator -> {"none", "sent", "committed", "rejected"}]
      /\ insert'[b] = "committed"
      /\ \A c \in Operator \ {b} : insert'[c] = insert[c]
  BY <1>1 DEF HistoryInv, HistoryTypeOK
<1>5. HistoryTypeOK' /\ CountInv'
  BY <1>1, <1>3, <1>4
  DEF HistoryInv, HistoryTypeOK, CountInv, source, leaseRow, publisher, rebuild
<1>6. OriginInv' /\ FreshInv'
  BY <1>1, <1>3, <1>4, InsertingKeeps
<1>7. PlanInv' /\ ReceiptInv' /\ RebuildInv'
  BY <1>1, <1>3, <1>4, GrowingKnows, RecordsStay
<1>8. HistoryAssumption' BY DEF HistoryInv, HistoryAssumption
<1> QED BY <1>5, <1>6, <1>7, <1>8 DEF HistoryInv

(* The rebuild.                                                            *)
LEMMA CompileInv ==
  ASSUME HistoryInv, Compile
  PROVE  HistoryInv'
<1>1. /\ compiled' = Compiled(asked) /\ due' = {f.day : f \in compiled'}
      /\ phase' = "apply"
      /\ UNCHANGED <<source, facts, run, leaseRow, publisher, backfill, recovered, rebuilt>>
  BY DEF Compile
<1>2. compiled' \subseteq Fact /\ \A f \in compiled' : FromHistory(f)
  BY <1>1, CompiledIsHistory DEF HistoryInv, HistoryTypeOK
<1>3. due' \subseteq Days
  BY <1>1, <1>2 DEF Fact
<1>4. HistoryTypeOK' /\ CountInv'
  BY <1>1, <1>2, <1>3
  DEF HistoryInv, HistoryTypeOK, CountInv, source, leaseRow, publisher, backfill
<1>5. OriginInv' /\ FreshInv' /\ PlanInv'
  BY <1>1, FactsStay
  DEF HistoryInv, FreshInv, FreshOf, PlanInv, PlanOf, backfill
<1>6. \A p : Missing(p)' = Missing(p) /\ Compiled(p.source)' = Compiled(p.source)
  BY DEF Missing, Compiled, History
<1>7. ReceiptInv'
  BY <1>1, <1>6, FactsStay
  DEF HistoryInv, ReceiptInv, ReceiptOf, ReceiptsHold, backfill
<1>8. RebuildInv'
  BY <1>1, <1>2, FactsStay DEF HistoryInv, RebuildInv, RebuildRecordHolds
<1>9. HistoryAssumption' BY DEF HistoryInv, HistoryAssumption
<1> QED BY <1>4, <1>5, <1>7, <1>8, <1>9 DEF HistoryInv

LEMMA ApplyDayInv ==
  ASSUME HistoryInv, ApplyDay
  PROVE  HistoryInv'
<1>1. PICK day \in due : /\ facts' = facts \cup Inserted({f \in compiled : f.day = day})
                         /\ due' = due \ {day}
  BY DEF ApplyDay
<1>2. /\ phase' \in {"verify", "apply"}
      /\ UNCHANGED <<source, run, leaseRow, publisher, backfill, compiled, recovered, rebuilt>>
  BY DEF ApplyDay
<1>3. facts \subseteq facts' /\ \A f \in facts' \ facts : f \in Fact /\ FromHistory(f)
  BY <1>1 DEF Inserted, HistoryInv, HistoryTypeOK, RebuildInv
<1>4. HistoryTypeOK' /\ CountInv'
  BY <1>1, <1>2, <1>3
  DEF HistoryInv, HistoryTypeOK, CountInv, source, leaseRow, publisher, backfill
<1>5. OriginInv' /\ FreshInv'
  BY <1>2, <1>3, InsertingKeeps DEF backfill
<1>6. \A f : Known(f) => Known(f)'
  BY <1>3, GrowingKnows
<1>7. \A rows : (Covered(rows) => Covered(rows)') /\ (AskedIn(rows) => AskedIn(rows)')
  BY <1>6, CoverageStays
<1>8. PlanInv'
  BY <1>2, <1>6 DEF HistoryInv, PlanInv, PlanOf, backfill
<1>9. \A p : Missing(p)' = Missing(p) /\ Compiled(p.source)' = Compiled(p.source)
  BY DEF Missing, Compiled, History
<1>10. ReceiptInv'
  BY <1>2, <1>7, <1>9 DEF HistoryInv, ReceiptInv, ReceiptOf, ReceiptsHold, backfill
<1>11. \A f : FromHistory(f)' <=> FromHistory(f)
  BY DEF FromHistory, History
<1>12. RebuildInv'
  BY <1>2, <1>7, <1>11 DEF HistoryInv, RebuildInv, RebuildRecordHolds
<1>13. HistoryAssumption' BY DEF HistoryInv, HistoryAssumption
<1> QED BY <1>4, <1>5, <1>8, <1>10, <1>12, <1>13 DEF HistoryInv

(* The checks of the rebuild see every row that covers one of its own; an  *)
(* answer they see as history has its question.                            *)
LEMMA CheckedHolds ==
  ASSUME HistoryInv, RebuildVerified
  PROVE  Covered(compiled) /\ AskedIn({f \in compiled \cap Seen : f.kind = "answer"})
<1>1. \A f \in Seen : f \in facts
  BY DEF Seen
<1>2. \A f \in compiled : f.origin = "history"
  BY DEF HistoryInv, RebuildInv, FromHistory, History
<1> QED BY <1>1, <1>2 DEF RebuildVerified, Covered, AskedIn

LEMMA RebuildStepInv ==
  ASSUME HistoryInv, VerifyRebuild \/ RecordRebuild \/ RebuildStops
  PROVE  HistoryInv'
<1>1. UNCHANGED <<source, facts, run, leaseRow, publisher, backfill>>
  BY DEF VerifyRebuild, RecordRebuild, RebuildStops
<1>2. /\ compiled' \in {compiled, {}} /\ due' \in {due, {}} /\ recovered' \subseteq Fact
      /\ phase' \in {"idle", "record"}
      /\ phase' = "record" => /\ compiled' = compiled
                              /\ Covered(compiled) /\ AskedIn(recovered')
      /\ \/ rebuilt' = rebuilt
         \/ /\ rebuilt' = [rows |-> compiled, answers |-> recovered]
            /\ Covered(compiled) /\ AskedIn(recovered)
  <2>1. CASE VerifyRebuild /\ RebuildVerified /\ phase' = "record"
    BY <2>1, CheckedHolds DEF VerifyRebuild, RebuildEnds, HistoryInv, HistoryTypeOK
  <2>2. CASE VerifyRebuild /\ RebuildEnds
    BY <2>2 DEF VerifyRebuild, RebuildEnds
  <2>3. CASE RecordRebuild \/ RebuildStops
    BY <2>3 DEF RecordRebuild, RebuildStops, RebuildEnds, HistoryInv, RebuildInv
  <2> QED BY <2>1, <2>2, <2>3 DEF VerifyRebuild
<1>3. HistoryTypeOK' /\ CountInv'
  BY <1>1, <1>2 DEF HistoryInv, HistoryTypeOK, CountInv, source, leaseRow, publisher, backfill
<1>4. OriginInv' /\ FreshInv' /\ PlanInv'
  BY <1>1, FactsStay
  DEF HistoryInv, FreshInv, FreshOf, PlanInv, PlanOf, backfill
<1>5. \A p : Missing(p)' = Missing(p) /\ Compiled(p.source)' = Compiled(p.source)
  BY DEF Missing, Compiled, History
<1>6. ReceiptInv'
  BY <1>1, <1>5, FactsStay
  DEF HistoryInv, ReceiptInv, ReceiptOf, ReceiptsHold, backfill
<1>7. RebuildInv'
  BY <1>1, <1>2, FactsStay DEF HistoryInv, RebuildInv, RebuildRecordHolds
<1>8. HistoryAssumption' BY DEF HistoryInv, HistoryAssumption
<1> QED BY <1>3, <1>4, <1>6, <1>7, <1>8 DEF HistoryInv

LEMMA NextHistoryInv ==
  ASSUME HistoryInv, [HistoryNext]_hvars
  PROVE  HistoryInv'
<1>1. CASE UNCHANGED hvars
  <2>1. UNCHANGED <<source, facts, run, leaseRow, publisher, backfill, rebuild>>
    BY <1>1 DEF hvars
  <2>2. HistoryTypeOK' /\ CountInv'
    BY <2>1 DEF HistoryInv, HistoryTypeOK, CountInv, source, leaseRow, publisher,
                backfill, rebuild
  <2>3. OriginInv' /\ PlanInv' /\ ReceiptInv' /\ RebuildInv'
    BY <2>1, FactsStay, RecordsStay DEF HistoryInv, backfill
  <2>4. FreshInv'
    BY <2>1, FactsStay DEF HistoryInv, FreshInv, FreshOf, backfill
  <2>5. HistoryAssumption' BY DEF HistoryInv, HistoryAssumption
  <2> QED BY <2>2, <2>3, <2>4, <2>5 DEF HistoryInv
<1>2. CASE \/ \E t \in Turn : AskTurn(t)
           \/ RosterChanges \/ SwitchSchedulers \/ LeaseExpires
           \/ PublisherStarts \/ PublisherSubmits \/ ScriptEnds \/ ExecutionEnds
  BY <1>2, WorldInv
<1>3. CASE PublisherCommits
  BY <1>3, PublicationInv
<1>4. ASSUME NEW b \in Operator,
             \/ PlanOnly(b) \/ ReadSource(b) \/ ReadFacts(b) \/ Apply(b)
             \/ InsertCommits(b) \/ InsertRejected(b) \/ Verify(b) \/ WriteReceipt(b)
      PROVE  HistoryInv'
  BY <1>4, PlanOnlyInv, ReadSourceInv, ReadFactsInv, ApplyInv, InsertCommitsInv,
     InsertRejectedInv, VerifyInv, WriteReceiptInv
<1>5. ASSUME NEW b \in Operator,
             \/ CheckFreeze(b) \/ AcquireLease(b) \/ CheckFreezeAgain(b) \/ RenewBackfill(b)
             \/ CheckWriters(b) \/ InsertReplies(b) \/ ReleaseLease(b) \/ BackfillCrashes(b)
      PROVE  HistoryInv'
  BY <1>5, StepsInv
<1>6. CASE Compile \/ ApplyDay \/ VerifyRebuild \/ RecordRebuild \/ RebuildStops
  BY <1>6, CompileInv, ApplyDayInv, RebuildStepInv
<1> QED BY <1>1, <1>2, <1>3, <1>4, <1>5, <1>6 DEF HistoryNext

----------------------------------------------------------------------------
(* The theorems.                                                           *)

(* The tables, the plans and the rebuild always have their types: a        *)
(* publisher, however late its script commits, never passes the bound on   *)
(* publications.                                                           *)
THEOREM HistoryTypeCorrect ==
  HistoryAssumption /\ HistorySpec => []HistoryTypeOK
<1>1. HistoryInv => HistoryTypeOK BY DEF HistoryInv
<1> QED BY <1>1, InitHistoryInv, NextHistoryInv, PTL DEF HistorySpec

(* Whatever publications, rebuilds and other backfills follow, what a      *)
(* receipt of a backfill covers and what the rebuild recorded stays in the *)
(* tables, each recovered answer with its question (RecordsHold), for any  *)
(* number of turns and runs.                                               *)
THEOREM RecordsStayTrue ==
  HistoryAssumption /\ HistorySpec => []RecordsHold
<1>1. HistoryInv => RecordsHold
  BY DEF HistoryInv, ReceiptInv, RebuildInv, RecordsHold
<1> QED BY <1>1, InitHistoryInv, NextHistoryInv, PTL DEF HistorySpec

(* A fact that a backfill inserts is of a turn that has none of its kind,  *)
(* but for the untraced question with a placeholder, whatever happened     *)
(* since it planned: facts its plan does not know are history, which has   *)
(* one identity for each turn (BackfillOnlyAddsMissing).                   *)
THEOREM BackfillsOnlyAdd ==
  HistoryAssumption /\ HistorySpec => BackfillOnlyAddsMissing
<1> DEFINE Adds == insert' # insert /\ facts' # facts =>
                     /\ facts \subseteq facts' /\ run' = run
                     /\ \A f \in facts' \ facts, g \in facts : SameTurn(f, g) =>
                          /\ f.kind = "question" /\ g.origin = "telemetry"
                          /\ f.turn \in Untraced \cap Placeholder
<1>1. ASSUME HistoryInv, [HistoryNext]_hvars PROVE [Adds]_hvars
  <2>1. SUFFICES ASSUME insert' # insert, facts' # facts PROVE Adds
    OBVIOUS
  <2>2. PICK b \in Operator : InsertCommits(b)
    <3>1. \/ \E b \in Operator : InsertCommits(b)
          \/ insert' = insert \/ facts' = facts
      <4>1. CASE PublisherCommits
        <5>1. UNCHANGED backfill BY <4>1, Zenon DEF PublisherCommits
        <5> QED BY <5>1 DEF backfill
      <4> QED
        BY <1>1, <4>1
        DEF HistoryNext, hvars, backfill, AskTurn, RosterChanges,
            SwitchSchedulers, LeaseExpires, PublisherStarts, PublisherSubmits,
            ScriptEnds, ExecutionEnds, PlanOnly, CheckFreeze, AcquireLease, ReadSource,
            ReadFacts, CheckFreezeAgain, RenewBackfill, CheckWriters, Apply, InsertRejected,
            InsertReplies, Verify, WriteReceipt, ReleaseLease, BackfillCrashes,
            Compile, ApplyDay, VerifyRebuild, RecordRebuild, RebuildStops
    <3> QED BY <2>1, <3>1
  <2>3. /\ facts' = facts \cup Inserted(Missing(draft[b]))
        /\ insert[b] = "sent" /\ draft[b].run = run /\ run' = run
    BY <2>2 DEF InsertCommits, InsertAsserts
  <2>4. \A g \in facts \ draft[b].facts : FromHistory(g)
    BY <1>1, <2>3 DEF HistoryInv, FreshInv, FreshOf
  <2>5. \A f \in Missing(draft[b]) :
          FromHistory(f) /\ \A g \in draft[b].facts : ~Matched(f, g)
    BY <1>1, MissingIsHistory DEF HistoryInv, HistoryTypeOK, Missing
  <2>6. ASSUME NEW f \in facts' \ facts, NEW g \in facts, SameTurn(f, g)
        PROVE  /\ f.kind = "question" /\ g.origin = "telemetry"
               /\ f.turn \in Untraced \cap Placeholder
    <3>1. f \in Missing(draft[b]) /\ FromHistory(f)
      BY <2>3, <2>5 DEF Inserted
    <3>2. ~Matched(f, g)
      BY <2>4, <2>5, <2>6, <3>1, OneHistory
    <3>3. g \in Fact /\ (g.origin = "telemetry" => g.id = "request")
      BY <1>1 DEF HistoryInv, HistoryTypeOK, OriginInv
    <3> QED BY <2>6, <3>1, <3>2, <3>3, OnlyPlaceholders
  <2> QED BY <2>3, <2>6
<1> QED
  BY <1>1, InitHistoryInv, NextHistoryInv, PTL DEF HistorySpec, BackfillOnlyAddsMissing

----------------------------------------------------------------------------
(* The composition: a behaviour of it is one of each of the writers.       *)

LEMMA WritersAreRun == WritersSpec => Spec /\ HistorySpec
<1>1. WritersInit => Init /\ HistoryInit
  BY DEF WritersInit
<1>2. [WritersNext]_<<active, vars, hvars>> => [Next]_vars /\ [HistoryNext]_hvars
  BY DEF WritersNext
<1> QED BY <1>1, <1>2, PTL DEF WritersSpec, Spec, HistorySpec

(* The variables of both keep their types, whichever runs.                 *)
THEOREM WritersTypeCorrect == HistoryAssumption /\ WritersSpec => []WritersTypeOK
<1>1. TypeOK /\ HistoryTypeOK => WritersTypeOK
  BY DEF WritersTypeOK
<1> QED BY <1>1, WritersAreRun, NewsTypeCorrect, HistoryTypeCorrect, PTL

(* Whichever runs, what is checked of each writer holds.                   *)
THEOREM WritersHold ==
  HistoryAssumption /\ WritersSpec =>
    /\ [](RunRowsAreTrue /\ RecordsHold)
    /\ NewsPublishesInChain /\ PublicationIsAnchored /\ BackfillOnlyAddsMissing
BY WritersAreRun, NewsRunRowsAreTrue, RecordsStayTrue, NewsRefinesPublication,
   NewsIsAnchored, BackfillsOnlyAdd, PTL
=============================================================================
