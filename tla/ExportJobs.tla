----------------------------- MODULE ExportJobs -----------------------------
(***************************************************************************)
(* CSV export jobs, app/routers/export.py over the Firestore documents of  *)
(* app/repositories/export_jobs.py.  An admin asks for the data version    *)
(* the screen shows; the request reads the analytics API as any other      *)
(* reader does, so it runs inside PublishedReads: every analytics request  *)
(* is an export's.                                                         *)
(*                                                                         *)
(* Every request here carries the same owner and idempotency key, hence    *)
(* names one document; requests are told apart by the run on their screen, *)
(* which their hash covers.  Filters and CSV layout are left out.          *)
(***************************************************************************)
EXTENDS PublishedReads

VARIABLES
  stored,    \* the document of the key: no job, or one
  expired,   \* its hour has passed
  stage, screen,   \* the requests: phase, run on the screen
  listed,    \* cleanup or ownership check saw a document to delete
  answer     \* the job a request was answered with

requestState == <<stage, screen, listed, answer>>
exports == <<stored, expired, requestState>>

JobSet == [maker : ChatReader, screen : 1..MaxChat, run : 1..MaxChat,
           saw : 1..MaxChat]
Stage == {"none", "cleanup", "clean", "get", "content", "put", "ready", "refused",
          "delete", "gone"}

ExportTypeOK ==
  /\ TypeOK
  /\ stored \in {{}} \cup {{j} : j \in JobSet} /\ expired \in BOOLEAN
  /\ stage \in [ChatReader -> Stage] /\ screen \in [ChatReader -> 0..chat]
  /\ listed \in [ChatReader -> BOOLEAN]
  /\ \A x \in ChatReader : answer[x] \in {{}} \cup {{j} : j \in JobSet}

ExportInit ==
  /\ Init
  /\ stored = {} /\ expired = FALSE
  /\ stage = [x \in ChatReader |-> "none"] /\ screen = [x \in ChatReader |-> 0]
  /\ listed = [x \in ChatReader |-> FALSE] /\ answer = [x \in ChatReader |-> {}]

Live == stored # {} /\ ~expired
Store(jobs) == stored' = jobs /\ expired' = FALSE
Goto(x, s) == stage' = [stage EXCEPT ![x] = s]

(* The analytics service runs for a request that builds its content.       *)
Reading(x) == stage[x] = "content" /\ pc[x] \notin {"answered", "refused"}
ReadStep ==
  /\ Next /\ UNCHANGED exports
  /\ \A x \in ChatReader : ~Reading(x) => pc'[x] = pc[x]

----------------------------------------------------------------------------
(* POST /export/jobs.                                                      *)

(* The screen was loaded under some run that has been published.           *)
Ask(x) ==
  /\ stage[x] = "none"
  /\ \E run \in 1..chat : screen' = [screen EXCEPT ![x] = run]
  /\ Goto(x, "cleanup")
  /\ UNCHANGED <<vars, stored, expired, listed, answer>>

(* cleanup_expired lists first and then deletes by name.                   *)
ListExpired(x) ==
  /\ stage[x] = "cleanup"
  /\ listed' = [listed EXCEPT ![x] = stored # {} /\ expired]
  /\ Goto(x, "clean")
  /\ UNCHANGED <<vars, stored, expired, screen, answer>>

DeleteListed(x) ==
  /\ stage[x] = "clean"
  /\ IF listed[x] THEN Store({}) ELSE UNCHANGED <<stored, expired>>
  /\ listed' = [listed EXCEPT ![x] = FALSE]
  /\ Goto(x, "get")
  /\ UNCHANGED <<vars, screen, answer>>

SameRequest(x) == \A j \in stored : j.screen = screen[x]

AnswerStored(x) ==
  /\ UNCHANGED <<stored, expired>>
  /\ IF SameRequest(x)
     THEN answer' = [answer EXCEPT ![x] = stored] /\ Goto(x, "ready")
     ELSE UNCHANGED answer /\ Goto(x, "refused")

GetExisting(x) ==
  /\ stage[x] = "get"
  /\ IF Live THEN AnswerStored(x)
     ELSE Goto(x, "content") /\ UNCHANGED <<stored, expired, answer>>
  /\ UNCHANGED <<vars, screen, listed>>

(* The content carries the publication the service answered from; it may   *)
(* also be refused: no such user, labels or roster incomplete.             *)
Snapshot(x) == receipt[x] = screen[x]

ContentMade(x) ==
  /\ stage[x] = "content" /\ pc[x] \in {"answered", "refused"}
  /\ \/ pc[x] = "answered" /\ Snapshot(x) /\ Goto(x, "put")
     \/ Goto(x, "refused")
  /\ UNCHANGED <<vars, stored, expired, screen, listed, answer>>

JobOf(x) == [maker |-> x, screen |-> screen[x], run |-> receipt[x],
             saw |-> facts[x][Len(facts[x])]]

ReplaceableAlways == TRUE
Replaceable == ~Live

(* put_idempotent's transaction, and the check of what it returned.        *)
PutAnswerUnchecked(x) ==
  /\ UNCHANGED <<stored, expired>>
  /\ answer' = [answer EXCEPT ![x] = stored] /\ Goto(x, "ready")
PutAnswer(x) == AnswerStored(x)

PutIdempotent(x) ==
  /\ stage[x] = "put"
  /\ IF Replaceable
     THEN /\ Store({JobOf(x)}) /\ Goto(x, "ready")
          /\ answer' = [answer EXCEPT ![x] = {JobOf(x)}]
     ELSE PutAnswer(x)
  /\ UNCHANGED <<vars, screen, listed>>

----------------------------------------------------------------------------
(* The hour passes; DELETE checks the job and then deletes by name.        *)

Expire ==
  /\ Live /\ expired' = TRUE
  /\ UNCHANGED <<vars, stored, requestState>>

OwnedJob(x) ==
  /\ stage[x] = "ready"
  /\ IF Live THEN Goto(x, "delete") ELSE Goto(x, "gone")
  /\ UNCHANGED <<vars, stored, expired, screen, listed, answer>>

DeleteJob(x) ==
  /\ stage[x] = "delete" /\ Store({})
  /\ Goto(x, "gone")
  /\ UNCHANGED <<vars, screen, listed, answer>>

NextExport(x) ==
  /\ stage[x] \in {"ready", "refused", "gone"}
  /\ Goto(x, "none")
  /\ screen' = [screen EXCEPT ![x] = 0] /\ answer' = [answer EXCEPT ![x] = {}]
  /\ IF pc[x] = "idle" THEN UNCHANGED vars ELSE NextRequest(x)
  /\ UNCHANGED <<stored, expired, listed>>

ExportNext ==
  \/ ReadStep \/ Expire
  \/ \E x \in ChatReader :
       \/ Ask(x) \/ ListExpired(x) \/ DeleteListed(x) \/ GetExisting(x)
       \/ ContentMade(x) \/ PutIdempotent(x)
       \/ OwnedJob(x) \/ DeleteJob(x) \/ NextExport(x)

ExportSpec == ExportInit /\ [][ExportNext]_<<vars, exports>>

----------------------------------------------------------------------------
(* Properties.                                                             *)

(* A link handed out leads to a CSV of the run on the admin's own screen,  *)
(* with facts no older than it, even when another request with the same    *)
(* key stored its job between this one's look-up and its transaction.      *)
AnswersOwnRequest ==
  \A x \in ChatReader : \A j \in answer[x] :
    j.screen = screen[x] /\ j.run = screen[x] /\ j.run <= j.saw

(* A link keeps leading to the file it was handed out for: a live job is   *)
(* never overwritten, by a retry or by a request that looked before it was *)
(* stored.  It goes only by its owner's DELETE, by its hour, or by a       *)
(* clean-up that had listed an expired job under its name.                 *)
LiveJobsAreKept ==
  [][Live /\ stored' # stored =>
       /\ stored' = {}
       /\ \E x \in ChatReader :
            stage[x] = "delete" \/ (stage[x] = "clean" /\ listed[x])]_exports
=============================================================================
