--------------------------- MODULE PublishedReads ---------------------------
(***************************************************************************)
(* Who may read what while two publishers move two pointers.  The Chat     *)
(* publisher rewrites its facts in place, adds a roster snapshot of its    *)
(* own run to user_scope and collects old snapshots, all in one            *)
(* transaction.  The News publisher reads the Chat pointer first and pins  *)
(* that roster in a later transaction.  Web requests read a pointer and    *)
(* then, query by query, the roster and the facts of that run.             *)
(*                                                                         *)
(* Both transactions write pipeline_state, so they are serialised; each is *)
(* one step here (RefreshPipeline has their inside).  Publications are     *)
(* numbered in order; a query's answer is the publication it saw.          *)
(***************************************************************************)
EXTENDS Integers, Sequences

CONSTANTS
  ChatReader, NewsReader,  \* requests to the analytics and to the News API
  FactQueries,             \* fact queries one analytics request makes
  MaxChat, MaxNews         \* bounds: publications

ASSUME ReadersAssumption ==
  /\ ChatReader \cap NewsReader = {}
  /\ FactQueries \in Nat \ {0} /\ MaxChat \in Nat \ {0} /\ MaxNews \in Nat

Reader == ChatReader \cup NewsReader
Never  == [run |-> 0, roster |-> 0]

VARIABLES
  chat,      \* published_run_id of the row 'published'; also the facts' version
  news,      \* the row 'news_usage': its run and the roster it pins
  scopes,    \* runs that have rows in user_scope
  old,       \* snapshots created more than seven days ago
  plan,      \* roster the News publisher has read and not yet pinned
  lookup,    \* answer of a Chat pointer query still in flight
  flights,   \* fact queries in flight: their key, and what they saw
  pc, receipt, facts   \* the requests: phase, publication read, answers so far

requests == <<pc, receipt, facts>>
warehouse == <<chat, news, scopes, old>>
vars == <<warehouse, plan, lookup, flights, requests>>

Phase == {"idle", "pointer", "roster", "confirm", "answered", "refused"}

TypeOK ==
  /\ chat \in 1..MaxChat /\ scopes \subseteq 1..chat /\ old \subseteq scopes
  /\ news \in [run : 0..MaxNews, roster : 0..chat]
  /\ plan \in 0..chat /\ lookup \in 0..chat
  /\ flights \subseteq [run : 1..chat, query : 1..FactQueries, saw : 1..chat]
  /\ pc \in [Reader -> Phase]
  /\ \A r \in ChatReader : receipt[r] \in 0..chat
  /\ \A r \in NewsReader : receipt[r] \in [run : 0..MaxNews, roster : 0..chat]
  /\ \A r \in ChatReader : facts[r] \in Seq(1..chat) /\ Len(facts[r]) <= FactQueries
  /\ \A r \in NewsReader : facts[r] \in Seq(0..MaxNews) /\ Len(facts[r]) <= 1

(* The first Chat publication has been made; News has published nothing.   *)
Init ==
  /\ chat = 1 /\ news = Never /\ scopes = {1} /\ old = {} /\ plan = 0
  /\ lookup = 0 /\ flights = {}
  /\ pc = [r \in Reader |-> "idle"]
  /\ receipt = [r \in Reader |-> IF r \in ChatReader THEN 0 ELSE Never]
  /\ facts = [r \in Reader |-> << >>]

----------------------------------------------------------------------------
(* The publishers.                                                         *)

CollectableWhenPublished(s) == s \in old /\ s # news.roster
Collectable(s) == s \in old /\ s # chat /\ s # news.roster

ChatPublish ==
  /\ chat < MaxChat
  /\ chat' = chat + 1
  /\ scopes' = {s \in scopes : ~Collectable(s)} \cup {chat + 1}
  /\ old' = old \cap scopes'
  /\ UNCHANGED <<news, plan, lookup, flights, requests>>

(* Seven days pass for a snapshot, after they did for the older ones.      *)
SnapshotAges(s) ==
  /\ s \in scopes \ old /\ \A o \in scopes : o < s => o \in old
  /\ old' = old \cup {s}
  /\ UNCHANGED <<chat, news, scopes, plan, lookup, flights, requests>>

ReadRosterPointer ==
  /\ plan = 0 /\ news.run < MaxNews
  /\ plan' = chat
  /\ UNCHANGED <<warehouse, lookup, flights, requests>>

PinAsserts == plan = chat /\ plan \in scopes

NewsPublish ==
  /\ plan # 0 /\ PinAsserts
  /\ news' = [run |-> news.run + 1, roster |-> plan]
  /\ plan' = 0
  /\ UNCHANGED <<chat, scopes, old, lookup, flights, requests>>

(* A failed assertion, or the end of the process.                          *)
NewsFails ==
  /\ plan # 0 /\ plan' = 0
  /\ UNCHANGED <<warehouse, lookup, flights, requests>>

----------------------------------------------------------------------------
(* A request to the analytics API.  Concurrent requests share a pointer    *)
(* query in flight, and a fact query of the same run in flight.            *)

LookUpPointer(r) ==
  /\ pc[r] = "idle" /\ lookup = 0
  /\ lookup' = chat /\ receipt' = [receipt EXCEPT ![r] = chat]
  /\ pc' = [pc EXCEPT ![r] = "pointer"]
  /\ UNCHANGED <<warehouse, plan, flights, facts>>

JoinLookUp(r) ==
  /\ pc[r] = "idle" /\ lookup # 0
  /\ receipt' = [receipt EXCEPT ![r] = lookup]
  /\ pc' = [pc EXCEPT ![r] = "pointer"]
  /\ UNCHANGED <<warehouse, plan, lookup, flights, facts>>

LookUpEnds ==
  /\ lookup # 0 /\ lookup' = 0
  /\ UNCHANGED <<warehouse, plan, flights, requests>>

RosterOf(r) == IF r \in ChatReader THEN receipt[r] ELSE receipt[r].roster

ReadRoster(r) ==
  /\ pc[r] = "pointer"
  /\ pc' = [pc EXCEPT ![r] = IF RosterOf(r) \in scopes THEN "roster" ELSE "refused"]
  /\ UNCHANGED <<warehouse, plan, lookup, flights, receipt, facts>>

CompleteOneLate(query) == query > FactQueries
Complete(query) == query = FactQueries

SharesFlightOfAnyRun(r, f) == f.query = Len(facts[r]) + 1
SharesFlight(r, f) == f.run = receipt[r] /\ f.query = Len(facts[r]) + 1

ReadFacts(r) ==
  LET own    == [run |-> receipt[r], query |-> Len(facts[r]) + 1, saw |-> chat]
      shared == {f \in flights : SharesFlight(r, f)}
  IN /\ pc[r] = "roster" /\ r \in ChatReader
     /\ \E f \in IF shared = {} THEN {own} ELSE shared :
          /\ facts' = [facts EXCEPT ![r] = Append(@, f.saw)]
          /\ flights' = flights \cup {f}
     /\ pc' = [pc EXCEPT ![r] = IF Complete(own.query) THEN "answered" ELSE @]
     /\ UNCHANGED <<warehouse, plan, lookup, receipt>>

FlightEnds(f) ==
  /\ flights' = flights \ {f}
  /\ UNCHANGED <<warehouse, plan, lookup, requests>>

----------------------------------------------------------------------------
(* A request to the News API.  Its event query binds to the publication    *)
(* and returns nothing once the pointer has moved; the request confirms    *)
(* the pointer before it answers.                                          *)

ReadNewsPointer(r) ==
  /\ pc[r] = "idle" /\ news # Never
  /\ receipt' = [receipt EXCEPT ![r] = news]
  /\ pc' = [pc EXCEPT ![r] = "pointer"]
  /\ UNCHANGED <<warehouse, plan, lookup, flights, facts>>

ReadEvents(r) ==
  /\ pc[r] = "roster" /\ r \in NewsReader
  /\ facts' = [facts EXCEPT ![r] = <<IF news = receipt[r] THEN news.run ELSE 0>>]
  /\ pc' = [pc EXCEPT ![r] = "confirm"]
  /\ UNCHANGED <<warehouse, plan, lookup, flights, receipt>>

ConfirmedBlindly(r) == TRUE
Confirmed(r) == news = receipt[r]

Confirm(r) ==
  /\ pc[r] = "confirm"
  /\ pc' = [pc EXCEPT ![r] = IF Confirmed(r) THEN "answered" ELSE "refused"]
  /\ UNCHANGED <<warehouse, plan, lookup, flights, receipt, facts>>

NextRequest(r) ==
  /\ pc[r] \in {"answered", "refused"}
  /\ pc' = [pc EXCEPT ![r] = "idle"]
  /\ receipt' = [receipt EXCEPT ![r] = IF r \in ChatReader THEN 0 ELSE Never]
  /\ facts' = [facts EXCEPT ![r] = << >>]
  /\ UNCHANGED <<warehouse, plan, lookup, flights>>

Next ==
  \/ ChatPublish \/ ReadRosterPointer \/ NewsPublish \/ NewsFails \/ LookUpEnds
  \/ \E s \in scopes : SnapshotAges(s)
  \/ \E f \in flights : FlightEnds(f)
  \/ \E r \in ChatReader : LookUpPointer(r) \/ JoinLookUp(r) \/ ReadFacts(r)
  \/ \E r \in NewsReader : ReadNewsPointer(r) \/ ReadEvents(r) \/ Confirm(r)
  \/ \E r \in Reader : ReadRoster(r) \/ NextRequest(r)

Spec == Init /\ [][Next]_vars

----------------------------------------------------------------------------
(* Properties.                                                             *)

(* A request that read the Chat pointer before it moved once still finds   *)
(* the roster of its receipt, however old that snapshot is: collection in  *)
(* the publish transaction spares the run being replaced.                  *)
OldReceiptReadable ==
  \A r \in ChatReader :
    pc[r] \in {"pointer", "roster"} /\ receipt[r] >= chat - 1 =>
      receipt[r] \in scopes

(* While News stays on an old roster, because its own source is down, no   *)
(* Chat publication collects that snapshot; and News never pins a snapshot *)
(* that was collected between reading the Chat pointer and publishing.     *)
PinnedRosterRetained == news # Never => news.roster \in scopes

(* Both at once: no collection takes a roster snapshot a reader may name.  *)
SnapshotsRetained == OldReceiptReadable /\ PinnedRosterRetained

(* A News answer has the events of the publication it names: a pointer     *)
(* that moved between the queries never shows as "no usage".               *)
NewsAnswersAreBound ==
  \A r \in NewsReader : pc[r] = "answered" => facts[r] = <<receipt[r].run>>

(* An analytics answer never counts facts older than the publication it    *)
(* names, though it may get them from another request's query.             *)
FactsNotOlderThanReceipt ==
  \A r \in ChatReader : \A i \in DOMAIN facts[r] : receipt[r] <= facts[r][i]

(* An analytics answer counts the facts of the publication it names, as    *)
(* the specification's run-bound readers promise.                          *)
AnswersAreBoundToRun ==
  \A r \in ChatReader : pc[r] = "answered" =>
    \A i \in DOMAIN facts[r] : facts[r][i] = receipt[r]
=============================================================================
