------------------------- MODULE PublishedReadsProofs -------------------------
(***************************************************************************)
(* Theorems about the readers of the two publications, and about export    *)
(* jobs, which are such readers, for any number of requests, fact queries  *)
(* and publications; and, at the end, about the roster snapshot that they  *)
(* read, for any directory and either release (RosterAssumption).          *)
(***************************************************************************)
EXTENDS ExportJobs, RosterSnapshot, TLAPS

(* What a request has read by each phase.                                  *)
PhaseInv ==
  /\ \A r \in ChatReader :
       /\ pc[r] \in {"idle", "pointer"} => facts[r] = << >>
       /\ pc[r] \in {"pointer", "roster", "answered"} => receipt[r] # 0
       /\ pc[r] = "roster" => Len(facts[r]) < FactQueries
       /\ pc[r] = "answered" => Len(facts[r]) = FactQueries
       /\ pc[r] # "confirm"
  /\ \A r \in NewsReader :
       /\ pc[r] \in {"idle", "pointer", "roster"} => facts[r] = << >>
       /\ pc[r] \in {"confirm", "answered"} => Len(facts[r]) = 1

TypeInv ==
  /\ TypeOK /\ PhaseInv
  /\ DOMAIN receipt = Reader /\ DOMAIN facts = Reader
  /\ plan # 0 => news.run < MaxNews

LEMMA InitTypeInv == Init => TypeInv
<1> SUFFICES ASSUME Init PROVE TypeInv
  OBVIOUS
<1> USE DEF Init
<1>1. TypeOK
  BY ReadersAssumption DEF TypeOK, Reader, Phase, Never
<1>2. PhaseInv
  BY DEF PhaseInv, Reader
<1> QED BY <1>1, <1>2 DEF TypeInv, Reader

LEMMA PublisherTypeInv ==
  ASSUME TypeInv,
         \/ ChatPublish \/ ReadRosterPointer \/ NewsPublish \/ NewsFails \/ LookUpEnds
         \/ \E s \in scopes : SnapshotAges(s)
         \/ \E f \in flights : FlightEnds(f)
  PROVE  TypeInv'
<1>1. UNCHANGED requests
  BY DEF ChatPublish, ReadRosterPointer, NewsPublish, NewsFails, LookUpEnds, SnapshotAges,
         FlightEnds
<1>2. PhaseInv'
  BY <1>1 DEF TypeInv, PhaseInv, requests
<1>3. CASE ChatPublish
  <2>1. /\ chat' = chat + 1 /\ chat + 1 \in 1..MaxChat /\ 1..chat \subseteq 1..(chat + 1)
        /\ 0..chat \subseteq 0..(chat + 1)
        /\ UNCHANGED <<news, plan, lookup, flights, requests>>
    BY <1>3, ReadersAssumption DEF ChatPublish, TypeInv, TypeOK
  <2>2. scopes' \subseteq 1..chat' /\ old' \subseteq scopes'
    <3>1. chat + 1 \in 1..(chat + 1) /\ scopes \subseteq 1..(chat + 1)
      BY <2>1, ReadersAssumption DEF TypeInv, TypeOK
    <3>2. scopes' \subseteq scopes \cup {chat + 1} /\ old' \subseteq scopes'
      BY <1>3 DEF ChatPublish
    <3> QED BY <2>1, <3>1, <3>2
  <2>3. news' \in [run : 0..MaxNews, roster : 0..chat']
    BY <2>1 DEF TypeInv, TypeOK
  <2>4. flights' \subseteq [run : 1..chat', query : 1..FactQueries, saw : 1..chat']
    BY <2>1 DEF TypeInv, TypeOK
  <2>5. /\ \A r \in ChatReader : receipt'[r] \in 0..chat'
        /\ \A r \in NewsReader : receipt'[r] \in [run : 0..MaxNews, roster : 0..chat']
    BY <2>1 DEF TypeInv, TypeOK, requests
  <2>6. \A r \in ChatReader : facts'[r] \in Seq(1..chat') /\ Len(facts'[r]) <= FactQueries
    BY <2>1 DEF TypeInv, TypeOK, requests
  <2> QED BY <1>2, <2>1, <2>2, <2>3, <2>4, <2>5, <2>6 DEF TypeInv, TypeOK, requests
<1>4. CASE ReadRosterPointer
  BY <1>2, <1>4, ReadersAssumption DEF ReadRosterPointer, TypeInv, TypeOK, warehouse, requests
<1>5. CASE NewsPublish
  <2>1. news' \in [run : 0..MaxNews, roster : 0..chat]
    BY <1>5, ReadersAssumption DEF NewsPublish, TypeInv, TypeOK
  <2> QED BY <1>2, <1>5, <2>1 DEF NewsPublish, TypeInv, TypeOK, requests
<1>6. CASE NewsFails \/ LookUpEnds
  <2>1. /\ plan' \in {0, plan} /\ lookup' \in {0, lookup}
        /\ UNCHANGED <<warehouse, flights, requests>>
    BY <1>6 DEF NewsFails, LookUpEnds
  <2>2. 0 \in 0..chat
    BY ReadersAssumption DEF TypeInv, TypeOK
  <2> QED BY <1>2, <2>1, <2>2 DEF TypeInv, TypeOK, warehouse, requests
<1>7. CASE \E s \in scopes : SnapshotAges(s)
  BY <1>2, <1>7 DEF SnapshotAges, TypeInv, TypeOK, requests
<1>8. CASE \E f \in flights : FlightEnds(f)
  BY <1>2, <1>8 DEF FlightEnds, TypeInv, TypeOK, warehouse, requests
<1> QED BY <1>3, <1>4, <1>5, <1>6, <1>7, <1>8

LEMMA ReadFactsTypeInv ==
  ASSUME TypeInv, NEW r \in ChatReader, ReadFacts(r)
  PROVE  TypeInv'
<1> DEFINE own == [run |-> receipt[r], query |-> Len(facts[r]) + 1, saw |-> chat]
<1>0. /\ pc[r] = "roster" /\ r \in Reader /\ r \notin NewsReader
      /\ receipt[r] \in 1..chat /\ chat \in 1..MaxChat
      /\ facts[r] \in Seq(1..chat) /\ Len(facts[r]) < FactQueries
  BY ReadersAssumption DEF ReadFacts, TypeInv, TypeOK, PhaseInv, Reader
<1>1. own \in [run : 1..chat, query : 1..FactQueries, saw : 1..chat]
  BY <1>0, ReadersAssumption
<1>2. PICK f \in flights \cup {own} :
        /\ facts' = [facts EXCEPT ![r] = Append(@, f.saw)]
        /\ flights' = flights \cup {f}
  BY DEF ReadFacts
<1>3. f \in [run : 1..chat, query : 1..FactQueries, saw : 1..chat]
  BY <1>1, <1>2 DEF TypeInv, TypeOK
<1>4. /\ facts'[r] \in Seq(1..chat) /\ Len(facts'[r]) = Len(facts[r]) + 1
      /\ Len(facts'[r]) <= FactQueries
      /\ \A q \in Reader \ {r} : facts'[q] = facts[q]
      /\ DOMAIN facts' = Reader
  <2>1. facts'[r] = Append(facts[r], f.saw) /\ f.saw \in 1..chat
    BY <1>0, <1>2, <1>3 DEF TypeInv
  <2>2. Len(facts[r]) \in Nat
    BY <1>0
  <2> QED BY <1>0, <1>2, <2>1, <2>2, ReadersAssumption DEF TypeInv
<1>5. /\ pc' = [pc EXCEPT ![r] = IF Len(facts[r]) + 1 = FactQueries THEN "answered" ELSE @]
      /\ UNCHANGED <<warehouse, plan, lookup, receipt>>
  BY DEF ReadFacts, Complete
<1>6. pc' \in [Reader -> Phase]
  BY <1>0, <1>5 DEF TypeInv, TypeOK, Phase
<1>7. TypeOK'
  <2>1. flights' \subseteq [run : 1..chat, query : 1..FactQueries, saw : 1..chat]
    BY <1>2, <1>3 DEF TypeInv, TypeOK
  <2>2. \A q \in NewsReader : facts'[q] = facts[q]
    BY <1>0, <1>4 DEF Reader
  <2>3. \A q \in ChatReader : facts'[q] \in Seq(1..chat) /\ Len(facts'[q]) <= FactQueries
    BY <1>4 DEF TypeInv, TypeOK, Reader
  <2> QED BY <1>5, <1>6, <2>1, <2>2, <2>3 DEF TypeInv, TypeOK, warehouse
<1>8. PhaseInv'
  <2>1. /\ \A q \in Reader \ {r} : pc'[q] = pc[q] /\ facts'[q] = facts[q]
        /\ pc'[r] \in {"roster", "answered"}
        /\ pc'[r] = "answered" <=> Len(facts'[r]) = FactQueries
    BY <1>0, <1>4, <1>5 DEF TypeInv, TypeOK
  <2>2. \A q \in ChatReader \ {r} : pc'[q] = pc[q] /\ facts'[q] = facts[q]
    BY <2>1 DEF Reader
  <2>3. \A q \in NewsReader : pc'[q] = pc[q] /\ facts'[q] = facts[q]
    BY <1>0, <2>1 DEF Reader
  <2>4. Len(facts'[r]) # FactQueries => Len(facts'[r]) < FactQueries
    BY <1>0, <1>4, ReadersAssumption
  <2> QED BY <1>0, <1>5, <2>1, <2>2, <2>3, <2>4 DEF TypeInv, PhaseInv
<1> QED BY <1>4, <1>5, <1>7, <1>8 DEF TypeInv, warehouse

LEMMA RequestTypeInv ==
  ASSUME TypeInv, NEW r \in Reader,
         \/ r \in ChatReader /\ (LookUpPointer(r) \/ JoinLookUp(r))
         \/ r \in NewsReader /\ (ReadNewsPointer(r) \/ ReadEvents(r) \/ Confirm(r))
         \/ ReadRoster(r) \/ NextRequest(r)
  PROVE  TypeInv'
<1> USE DEF TypeInv, TypeOK, PhaseInv, Reader, Phase, warehouse
<1>0. ~(r \in ChatReader /\ r \in NewsReader)
  BY ReadersAssumption
<1>1. CASE r \in ChatReader /\ (LookUpPointer(r) \/ JoinLookUp(r))
  <2>1. PICK n \in 1..chat : /\ receipt' = [receipt EXCEPT ![r] = n]
                            /\ lookup' \in {lookup, n}
    BY <1>1, ReadersAssumption DEF LookUpPointer, JoinLookUp
  <2>2. /\ pc[r] = "idle" /\ pc' = [pc EXCEPT ![r] = "pointer"]
        /\ UNCHANGED <<warehouse, plan, flights, facts>>
    BY <1>1 DEF LookUpPointer, JoinLookUp
  <2>3. n \in 0..chat /\ n # 0
    BY <2>1, ReadersAssumption
  <2> QED BY <1>0, <1>1, <2>1, <2>2, <2>3
<1>2. CASE r \in NewsReader /\ ReadNewsPointer(r)
  <2>1. /\ pc[r] = "idle" /\ pc' = [pc EXCEPT ![r] = "pointer"]
        /\ receipt' = [receipt EXCEPT ![r] = news]
        /\ UNCHANGED <<warehouse, plan, lookup, flights, facts>>
    BY <1>2 DEF ReadNewsPointer
  <2> QED BY <1>0, <1>2, <2>1
<1>3. CASE r \in NewsReader /\ ReadEvents(r)
  <2>1. PICK n \in 0..MaxNews : facts' = [facts EXCEPT ![r] = <<n>>]
    <3>1. (IF news = receipt[r] THEN news.run ELSE 0) \in 0..MaxNews
      BY ReadersAssumption
    <3> QED BY <1>3, <3>1 DEF ReadEvents
  <2>2. /\ pc' = [pc EXCEPT ![r] = "confirm"]
        /\ UNCHANGED <<warehouse, plan, lookup, flights, receipt>>
    BY <1>3 DEF ReadEvents
  <2>3. <<n>> \in Seq(0..MaxNews) /\ Len(<<n>>) = 1
    BY <2>1
  <2>4. /\ facts'[r] \in Seq(0..MaxNews) /\ Len(facts'[r]) = 1
        /\ \A q \in Reader \ {r} : facts'[q] = facts[q] /\ pc'[q] = pc[q]
        /\ DOMAIN facts' = Reader /\ pc'[r] = "confirm" /\ pc' \in [Reader -> Phase]
    BY <2>1, <2>2, <2>3
  <2>5. TypeOK'
    <3>1. ASSUME NEW q \in NewsReader
          PROVE  facts'[q] \in Seq(0..MaxNews) /\ Len(facts'[q]) <= 1
      <4>1. CASE q = r
        <5>1. facts'[q] = facts'[r] /\ 1 <= 1 BY <4>1
        <5> QED BY <2>4, <5>1, Zenon
      <4>2. CASE q # r
        <5>1. facts'[q] = facts[q] BY <2>4, <4>2
        <5> QED BY <5>1
      <4> QED BY <4>1, <4>2
    <3>2. \A q \in ChatReader : facts'[q] = facts[q]
      BY <1>0, <1>3, <2>4
    <3> QED BY <2>2, <2>4, <3>1, <3>2
  <2>6. PhaseInv'
    BY <1>0, <1>3, <2>2, <2>4
  <2> QED BY <2>2, <2>4, <2>5, <2>6
<1>4. CASE r \in NewsReader /\ Confirm(r)
  BY <1>0, <1>4 DEF Confirm
<1>5. CASE ReadRoster(r)
  BY <1>0, <1>5, ReadersAssumption DEF ReadRoster, RosterOf
<1>6. CASE NextRequest(r)
  <2>1. /\ \A q \in Reader \ {r} : /\ pc'[q] = pc[q] /\ receipt'[q] = receipt[q]
                                   /\ facts'[q] = facts[q]
        /\ pc'[r] = "idle" /\ facts'[r] = << >>
        /\ receipt'[r] = IF r \in ChatReader THEN 0 ELSE Never
        /\ DOMAIN receipt' = Reader /\ DOMAIN facts' = Reader
        /\ pc' \in [Reader -> Phase] /\ UNCHANGED <<warehouse, plan, lookup, flights>>
    BY <1>6 DEF NextRequest
  <2>2. Never \in [run : 0..MaxNews, roster : 0..chat] /\ 0 \in 0..chat
    BY ReadersAssumption DEF Never
  <2>3. << >> \in Seq(1..chat) /\ << >> \in Seq(0..MaxNews) /\ Len(<< >>) = 0
    OBVIOUS
  <2>4. TypeOK'
    <3>1. ASSUME NEW q \in NewsReader
          PROVE  /\ facts'[q] \in Seq(0..MaxNews) /\ Len(facts'[q]) <= 1
                 /\ receipt'[q] \in [run : 0..MaxNews, roster : 0..chat]
      <4>1. CASE q = r BY <1>0, <2>1, <2>2, <2>3, <4>1
      <4>2. CASE q # r
        <5>1. facts'[q] = facts[q] /\ receipt'[q] = receipt[q] BY <2>1, <4>2
        <5> QED BY <5>1
      <4> QED BY <4>1, <4>2
    <3>2. ASSUME NEW q \in ChatReader
          PROVE  /\ facts'[q] \in Seq(1..chat) /\ Len(facts'[q]) <= FactQueries
                 /\ receipt'[q] \in 0..chat
      <4>1. CASE q = r BY <2>1, <2>2, <2>3, <4>1, ReadersAssumption
      <4>2. CASE q # r
        <5>1. facts'[q] = facts[q] /\ receipt'[q] = receipt[q] BY <2>1, <4>2
        <5> QED BY <5>1
      <4> QED BY <4>1, <4>2
    <3> QED BY <2>1, <3>1, <3>2
  <2>5. PhaseInv'
    BY <1>0, <2>1
  <2> QED BY <2>1, <2>4, <2>5
<1> QED BY <1>1, <1>2, <1>3, <1>4, <1>5, <1>6

LEMMA NextTypeInv == TypeInv /\ [Next]_vars => TypeInv'
<1>1. TypeInv /\ UNCHANGED vars => TypeInv'
  BY DEF TypeInv, TypeOK, PhaseInv, vars, warehouse, requests
<1>2. TypeInv /\ Next => TypeInv'
  BY PublisherTypeInv, ReadFactsTypeInv, RequestTypeInv DEF Next, Reader
<1> QED BY <1>1, <1>2

(* Every variable of the readers and the two publishers keeps its type.    *)
THEOREM ReadsTypeCorrect == Spec => []TypeOK
<1>1. TypeInv => TypeOK BY DEF TypeInv
<1> QED BY <1>1, InitTypeInv, NextTypeInv, PTL DEF Spec
----------------------------------------------------------------------------
(* Retention.  The snapshots of the run that is published and of the one   *)
(* before it are there; so is the one News has pinned.                     *)

RetentionInv ==
  /\ \A s \in 1..chat : s >= chat - 1 => s \in scopes
  /\ PinnedRosterRetained

LEMMA RetentionIsEnough == TypeInv /\ RetentionInv => SnapshotsRetained
<1> SUFFICES ASSUME TypeInv, RetentionInv,
                    NEW r \in ChatReader, pc[r] \in {"pointer", "roster"},
                    receipt[r] >= chat - 1
             PROVE  receipt[r] \in scopes
  BY DEF SnapshotsRetained, OldReceiptReadable, RetentionInv
<1>1. receipt[r] \in 1..chat
  BY ReadersAssumption DEF TypeInv, TypeOK, PhaseInv
<1> QED BY <1>1 DEF RetentionInv

LEMMA InitRetentionInv == Init => RetentionInv
  BY DEF Init, RetentionInv, PinnedRosterRetained

LEMMA NextRetentionInv == TypeInv /\ RetentionInv /\ [Next]_vars => RetentionInv'
<1> SUFFICES ASSUME TypeInv, RetentionInv, [Next]_vars PROVE RetentionInv'
  OBVIOUS
<1>1. CASE ChatPublish
  <2>1. /\ chat' = chat + 1 /\ chat \in Nat /\ UNCHANGED news
        /\ \A s \in scopes : s \in {chat, news.roster} => s \in scopes'
        /\ chat + 1 \in scopes'
    BY <1>1, ReadersAssumption DEF ChatPublish, Collectable, TypeInv, TypeOK
  <2>2. chat # 0 => chat \in scopes
    BY <2>1 DEF RetentionInv
  <2>3. ASSUME NEW s \in 1..chat', s >= chat' - 1 PROVE s \in scopes'
    BY <2>1, <2>2, <2>3
  <2> QED BY <2>1, <2>3 DEF RetentionInv, PinnedRosterRetained
<1>2. CASE NewsPublish
  BY <1>2 DEF NewsPublish, PinAsserts, RetentionInv, PinnedRosterRetained
<1>3. CASE UNCHANGED <<chat, news, scopes>>
  BY <1>3 DEF RetentionInv, PinnedRosterRetained
<1> QED
  BY <1>1, <1>2, <1>3
  DEF Next, vars, warehouse, SnapshotAges, ReadRosterPointer, NewsFails, LookUpEnds, FlightEnds,
      LookUpPointer, JoinLookUp, ReadFacts, ReadNewsPointer, ReadEvents, Confirm, ReadRoster,
      NextRequest

(* No collection takes a roster snapshot that a request may still name: a  *)
(* receipt at most one publication old, or the one News has pinned.        *)
THEOREM ReceiptsStayReadable == Spec => []SnapshotsRetained
<1>1. Init => TypeInv /\ RetentionInv
  BY InitTypeInv, InitRetentionInv
<1>2. TypeInv /\ RetentionInv /\ [Next]_vars => (TypeInv /\ RetentionInv)'
  BY NextTypeInv, NextRetentionInv
<1> QED BY <1>1, <1>2, RetentionIsEnough, PTL DEF Spec

----------------------------------------------------------------------------
(* A News request.  The pointer only moves forward, so a publication it    *)
(* has left never comes back, and an event query that found nothing for it *)
(* is refused at the confirmation.                                         *)

Left(pointer) == pointer.run < news.run

NewsInv ==
  \A r \in NewsReader :
    /\ pc[r] \in {"pointer", "roster", "confirm"} => receipt[r] = news \/ Left(receipt[r])
    /\ pc[r] = "confirm" => facts[r] = <<receipt[r].run>> \/ Left(receipt[r])
    /\ pc[r] = "answered" => facts[r] = <<receipt[r].run>>

LEMMA InitNewsInv == Init => NewsInv
  BY DEF Init, NewsInv, Reader

LEMMA NextNewsInv == TypeInv /\ NewsInv /\ [Next]_vars => NewsInv'
<1> SUFFICES ASSUME TypeInv, NewsInv, [Next]_vars PROVE NewsInv'
  OBVIOUS
<1>0. /\ news.run \in Nat
      /\ \A r \in NewsReader : r \in Reader /\ receipt[r].run \in Nat
      /\ DOMAIN receipt = Reader /\ DOMAIN facts = Reader /\ pc \in [Reader -> Phase]
  BY ReadersAssumption DEF TypeInv, TypeOK, Reader
<1>1. CASE NewsPublish
  <2>1. news'.run = news.run + 1 /\ UNCHANGED requests
    BY <1>1 DEF NewsPublish
  <2> QED BY <1>0, <2>1 DEF NewsInv, Left, requests
<1>2. ASSUME NEW q \in NewsReader, ReadNewsPointer(q) PROVE NewsInv'
  BY <1>0, <1>2 DEF ReadNewsPointer, warehouse, NewsInv, Left
<1>3. ASSUME NEW q \in NewsReader, ReadEvents(q) PROVE NewsInv'
  BY <1>0, <1>3 DEF ReadEvents, warehouse, NewsInv, Left
<1>4. ASSUME NEW q \in NewsReader, Confirm(q) PROVE NewsInv'
  BY <1>0, <1>4 DEF Confirm, Confirmed, warehouse, NewsInv, Left
<1>5. ASSUME NEW q \in Reader, ReadRoster(q) PROVE NewsInv'
  BY <1>0, <1>5 DEF ReadRoster, warehouse, NewsInv, Left
<1>6. ASSUME NEW q \in Reader, NextRequest(q) PROVE NewsInv'
  BY <1>0, <1>6 DEF NextRequest, warehouse, NewsInv, Left
<1>7. ASSUME NEW q \in ChatReader, LookUpPointer(q) \/ JoinLookUp(q) \/ ReadFacts(q)
      PROVE  NewsInv'
  <2>1. /\ UNCHANGED news
        /\ \A r \in NewsReader :
             receipt'[r] = receipt[r] /\ facts'[r] = facts[r] /\ pc'[r] = pc[r]
    BY <1>0, <1>7, ReadersAssumption
    DEF LookUpPointer, JoinLookUp, ReadFacts, warehouse, Reader
  <2> QED BY <2>1 DEF NewsInv, Left
<1>8. CASE UNCHANGED <<news, requests>>
  BY <1>8 DEF NewsInv, Left, requests
<1> QED
  BY <1>1, <1>2, <1>3, <1>4, <1>5, <1>6, <1>7, <1>8
  DEF Next, vars, warehouse, ChatPublish, SnapshotAges, ReadRosterPointer, NewsFails, LookUpEnds,
      FlightEnds

(* A News answer has the events of the publication it names, however often *)
(* News publishes between its queries.                                     *)
THEOREM NewsAnswersBound == Spec => []NewsAnswersAreBound
<1>1. Init => TypeInv /\ NewsInv
  BY InitTypeInv, InitNewsInv
<1>2. TypeInv /\ NewsInv /\ [Next]_vars => (TypeInv /\ NewsInv)'
  BY NextTypeInv, NextNewsInv
<1>3. NewsInv => NewsAnswersAreBound
  BY DEF NewsInv, NewsAnswersAreBound
<1> QED BY <1>1, <1>2, <1>3, PTL DEF Spec

----------------------------------------------------------------------------
(* An analytics request.  A query in flight for a run began when that run  *)
(* was published or later.                                                 *)

FactsInv ==
  /\ \A f \in flights : f.run <= f.saw
  /\ FactsNotOlderThanReceipt

LEMMA InitFactsInv == Init => FactsInv
  BY DEF Init, FactsInv, FactsNotOlderThanReceipt, Reader

LEMMA NextFactsInv == TypeInv /\ FactsInv /\ [Next]_vars => FactsInv'
<1> SUFFICES ASSUME TypeInv, FactsInv, [Next]_vars PROVE FactsInv'
  OBVIOUS
<1>0. /\ ChatReader \subseteq Reader /\ DOMAIN receipt = Reader /\ DOMAIN facts = Reader
      /\ pc \in [Reader -> Phase]
      /\ \A r \in ChatReader : pc[r] \in {"idle", "pointer"} => facts[r] = << >>
  BY DEF TypeInv, TypeOK, PhaseInv, Reader
<1>1. ASSUME NEW r \in ChatReader, ReadFacts(r) PROVE FactsInv'
  <2> DEFINE own == [run |-> receipt[r], query |-> Len(facts[r]) + 1, saw |-> chat]
  <2>1. /\ receipt[r] \in 0..chat /\ facts[r] \in Seq(1..chat) /\ chat \in Nat
    BY ReadersAssumption DEF TypeInv, TypeOK
  <2>2. PICK f \in flights \cup {own} :
          /\ f = own \/ SharesFlight(r, f)
          /\ facts' = [facts EXCEPT ![r] = Append(@, f.saw)]
          /\ flights' = flights \cup {f}
    BY <1>1 DEF ReadFacts
  <2>3. f.run = receipt[r] /\ f.run <= f.saw
    BY <2>1, <2>2 DEF SharesFlight, FactsInv
  <2>4. \A i \in DOMAIN facts'[r] : receipt[r] <= facts'[r][i]
    <3>1. facts'[r] = Append(facts[r], f.saw)
      BY <1>0, <2>2
    <3>2. \A i \in DOMAIN facts[r] : receipt[r] <= facts[r][i]
      BY DEF FactsInv, FactsNotOlderThanReceipt
    <3> QED BY <2>1, <2>3, <3>1, <3>2
  <2>5. receipt' = receipt /\ \A q \in ChatReader \ {r} : facts'[q] = facts[q]
    BY <1>0, <1>1, <2>2 DEF ReadFacts
  <2> QED BY <2>2, <2>3, <2>4, <2>5 DEF FactsInv, FactsNotOlderThanReceipt
<1>2. ASSUME NEW r \in ChatReader, LookUpPointer(r) \/ JoinLookUp(r) PROVE FactsInv'
  <2>1. /\ UNCHANGED <<facts, flights>> /\ facts[r] = << >>
        /\ \A q \in ChatReader \ {r} : receipt'[q] = receipt[q]
    BY <1>0, <1>2 DEF LookUpPointer, JoinLookUp
  <2> QED BY <2>1 DEF FactsInv, FactsNotOlderThanReceipt
<1>3. ASSUME NEW r \in NewsReader, ReadNewsPointer(r) \/ ReadEvents(r) \/ Confirm(r)
      PROVE  FactsInv'
  <2>1. /\ UNCHANGED flights
        /\ \A q \in ChatReader : receipt'[q] = receipt[q] /\ facts'[q] = facts[q]
    BY <1>0, <1>3, ReadersAssumption DEF ReadNewsPointer, ReadEvents, Confirm
  <2> QED BY <2>1 DEF FactsInv, FactsNotOlderThanReceipt
<1>4. ASSUME NEW r \in Reader, NextRequest(r) PROVE FactsInv'
  <2>1. /\ UNCHANGED flights /\ facts'[r] = << >>
        /\ \A q \in Reader \ {r} : receipt'[q] = receipt[q] /\ facts'[q] = facts[q]
    BY <1>0, <1>4 DEF NextRequest
  <2> QED BY <1>0, <2>1 DEF FactsInv, FactsNotOlderThanReceipt
<1>5. CASE UNCHANGED <<receipt, facts>> /\ flights' \subseteq flights
  BY <1>5 DEF FactsInv, FactsNotOlderThanReceipt
<1> QED
  BY <1>1, <1>2, <1>3, <1>4, <1>5
  DEF Next, vars, requests, ChatPublish, SnapshotAges, ReadRosterPointer, NewsPublish, NewsFails,
      LookUpEnds, FlightEnds, ReadRoster

(* An analytics answer never counts facts older than the publication it    *)
(* names, also where it shares another request's query.                    *)
THEOREM FactsAreNotOlder == Spec => []FactsNotOlderThanReceipt
<1>1. Init => TypeInv /\ FactsInv
  BY InitTypeInv, InitFactsInv
<1>2. TypeInv /\ FactsInv /\ [Next]_vars => (TypeInv /\ FactsInv)'
  BY NextTypeInv, NextFactsInv
<1>3. FactsInv => FactsNotOlderThanReceipt
  BY DEF FactsInv
<1> QED BY <1>1, <1>2, <1>3, PTL DEF Spec
----------------------------------------------------------------------------
(* Export jobs.  An export reads as any analytics request does, so every   *)
(* behaviour of the export jobs is one of the readers, and what holds of   *)
(* those holds here.                                                       *)

LEMMA ExportNextReads == [ExportNext]_<<vars, exports>> => [Next]_vars
<1> SUFFICES ASSUME ExportNext PROVE [Next]_vars
  BY DEF vars
<1>1. ASSUME NEW x \in ChatReader, NextExport(x) PROVE [Next]_vars
  BY <1>1 DEF NextExport, Next, Reader, vars
<1> QED
  BY <1>1
  DEF ExportNext, ReadStep, Expire, Ask, ListExpired, DeleteListed, GetExisting, ContentMade,
      PutIdempotent, OwnedJob, DeleteJob, vars

LEMMA ExportsAreReads == ExportSpec => Spec
<1>1. ExportInit => Init BY DEF ExportInit
<1> QED BY <1>1, ExportNextReads, PTL DEF ExportSpec, Spec

ReadsInv == TypeInv /\ FactsInv

LEMMA ExportReadsInv == ExportSpec => []ReadsInv
<1>1. Init => ReadsInv
  BY InitTypeInv, InitFactsInv DEF ReadsInv
<1>2. ReadsInv /\ [Next]_vars => ReadsInv'
  BY NextTypeInv, NextFactsInv DEF ReadsInv
<1> QED BY <1>1, <1>2, ExportsAreReads, PTL DEF Spec

(* A finished request keeps its receipt until the export lets it go.       *)
LEMMA AnsweredKeepsReceipt ==
  ASSUME TypeInv, [Next]_vars, NEW x \in ChatReader, pc[x] = "answered", pc'[x] = pc[x]
  PROVE  receipt'[x] = receipt[x]
<1>0. /\ x \in Reader /\ DOMAIN receipt = Reader /\ pc \in [Reader -> Phase]
  BY DEF TypeInv, TypeOK, Reader
<1>1. ASSUME NEW r \in Reader, NextRequest(r) \/ LookUpPointer(r) \/ JoinLookUp(r)
                                 \/ ReadNewsPointer(r)
      PROVE  receipt'[x] = receipt[x]
  BY <1>0, <1>1 DEF NextRequest, LookUpPointer, JoinLookUp, ReadNewsPointer
<1> QED
  BY <1>1
  DEF Next, Reader, vars, requests, ChatPublish, SnapshotAges, ReadRosterPointer, NewsPublish,
      NewsFails, LookUpEnds, FlightEnds, ReadRoster, ReadFacts, ReadEvents, Confirm

(* A job stored is the job of a request for the run it has.                *)
Faithful(j) == j.screen = j.run /\ j.run <= j.saw

JobInv ==
  /\ stored \in {{}} \cup {{j} : j \in JobSet} /\ expired \in BOOLEAN
  /\ stage \in [ChatReader -> Stage] /\ screen \in [ChatReader -> 0..chat]
  /\ listed \in [ChatReader -> BOOLEAN] /\ DOMAIN answer = ChatReader
  /\ \A j \in stored : Faithful(j)
  /\ \A x \in ChatReader :
       /\ answer[x] \in {{}} \cup {{j} : j \in JobSet}
       /\ \A j \in answer[x] : Faithful(j) /\ j.screen = screen[x]
       /\ stage[x] = "none" => answer[x] = {}
       /\ stage[x] = "put" => pc[x] = "answered" /\ receipt[x] = screen[x]

LEMMA InitJobInv == ExportInit => JobInv
<1> SUFFICES ASSUME ExportInit PROVE JobInv
  OBVIOUS
<1>1. stage \in [ChatReader -> Stage] /\ screen \in [ChatReader -> 0..chat]
  BY DEF ExportInit, Init, Stage
<1>2. /\ stored = {} /\ expired = FALSE /\ listed \in [ChatReader -> BOOLEAN]
      /\ DOMAIN answer = ChatReader
      /\ \A x \in ChatReader : stage[x] = "none" /\ answer[x] = {}
  BY DEF ExportInit
<1> QED BY <1>1, <1>2 DEF JobInv

LEMMA ElementOfSeq == \A S : \A s \in Seq(S) : \A i \in DOMAIN s : s[i] \in S
  OBVIOUS

LEMMA JobOfIsFaithful ==
  ASSUME ReadsInv, JobInv, NEW x \in ChatReader, stage[x] = "put"
  PROVE  JobOf(x) \in JobSet /\ Faithful(JobOf(x)) /\ JobOf(x).screen = screen[x]
<1>1. /\ pc[x] = "answered" /\ receipt[x] = screen[x] /\ receipt[x] \in 1..chat
      /\ chat \in 1..MaxChat /\ 1..chat \subseteq 1..MaxChat
  BY ReadersAssumption DEF ReadsInv, TypeInv, TypeOK, PhaseInv, JobInv
<1>2. facts[x] \in Seq(1..chat) /\ Len(facts[x]) = FactQueries
  BY <1>1 DEF ReadsInv, TypeInv, TypeOK, PhaseInv
<1>3. Len(facts[x]) \in DOMAIN facts[x]
  BY <1>2, ReadersAssumption
<1> DEFINE last == Len(facts[x])
          seen == facts[x][last]
<1>4. seen \in 1..chat /\ receipt[x] <= seen
  <2>1. \A i \in DOMAIN facts[x] : receipt[x] <= facts[x][i]
    BY DEF ReadsInv, FactsInv, FactsNotOlderThanReceipt
  <2>2. \A i \in DOMAIN facts[x] : facts[x][i] \in 1..chat
    BY <1>2, ElementOfSeq, Zenon
  <2> QED BY <1>3, <2>1, <2>2
<1>5. JobOf(x) = [maker |-> x, screen |-> screen[x], run |-> receipt[x], saw |-> seen]
  BY DEF JobOf
<1> HIDE DEF seen
<1>6. JobOf(x) \in JobSet
  BY <1>1, <1>4, <1>5 DEF JobSet
<1>7. Faithful(JobOf(x)) /\ JobOf(x).screen = screen[x]
  BY <1>1, <1>4, <1>5 DEF Faithful
<1> QED BY <1>6, <1>7

(* The service's own steps, and time.                                      *)
LEMMA ReadStepJobInv ==
  ASSUME ReadsInv, JobInv, ReadStep \/ Expire
  PROVE  JobInv'
<1>1. chat' \in {chat, chat + 1}
  BY DEF ReadStep, Expire, Next, vars, warehouse, ChatPublish, SnapshotAges, ReadRosterPointer,
         NewsPublish, NewsFails, LookUpEnds, FlightEnds, LookUpPointer, JoinLookUp, ReadFacts,
         ReadNewsPointer, ReadEvents, Confirm, ReadRoster, NextRequest
<1>2. 0..chat \subseteq 0..chat'
  BY <1>1, ReadersAssumption DEF ReadsInv, TypeInv, TypeOK
<1>3. /\ UNCHANGED <<stored, stage, screen, listed, answer>> /\ expired' \in BOOLEAN
      /\ screen' \in [ChatReader -> 0..chat']
  BY <1>2 DEF ReadStep, Expire, exports, requestState, JobInv
<1>4. ASSUME NEW x \in ChatReader, stage[x] = "put"
      PROVE  pc'[x] = "answered" /\ receipt'[x] = screen[x]
  <2>1. pc[x] = "answered" /\ receipt[x] = screen[x] /\ ~Reading(x)
    BY <1>4 DEF JobInv, Reading
  <2>2. CASE ReadStep
    <3>1. pc'[x] = pc[x] /\ [Next]_vars
      BY <2>1, <2>2 DEF ReadStep
    <3> QED BY <2>1, <3>1, AnsweredKeepsReceipt DEF ReadsInv
  <2>3. CASE Expire
    BY <2>1, <2>3 DEF Expire, vars, requests
  <2> QED BY <2>2, <2>3
<1> QED BY <1>3, <1>4 DEF JobInv

(* Steps of the export's own that leave the analytics request alone.       *)
LEMMA ExportStepJobInv ==
  ASSUME ReadsInv, JobInv, NEW x \in ChatReader,
         \/ Ask(x) \/ ListExpired(x) \/ DeleteListed(x) \/ GetExisting(x) \/ ContentMade(x)
         \/ PutIdempotent(x) \/ OwnedJob(x) \/ DeleteJob(x)
  PROVE  JobInv'
<1> USE DEF JobInv, Goto
<1>0. UNCHANGED <<chat, pc, receipt>>
  BY DEF Ask, ListExpired, DeleteListed, GetExisting, ContentMade, PutIdempotent, OwnedJob,
         DeleteJob, vars, warehouse, requests
<1>1. CASE Ask(x)
  <2>1. PICK run \in 1..chat : screen' = [screen EXCEPT ![x] = run]
    BY <1>1 DEF Ask
  <2>2. run \in 0..chat
    BY <2>1, ReadersAssumption DEF ReadsInv, TypeInv, TypeOK
  <2> QED BY <1>0, <1>1, <2>1, <2>2 DEF Ask, Stage
<1>2. CASE ListExpired(x)
  <2>1. listed' \in [ChatReader -> BOOLEAN]
    BY <1>2 DEF ListExpired
  <2> QED BY <1>0, <1>2, <2>1 DEF ListExpired, Stage
<1>3. CASE DeleteListed(x)
  <2>1. stored' \in {stored, {}} /\ expired' \in BOOLEAN
    BY <1>3 DEF DeleteListed, Store
  <2> QED BY <1>0, <1>3, <2>1 DEF DeleteListed, Stage
<1>4. CASE GetExisting(x) \/ (PutIdempotent(x) /\ ~Replaceable)
  <2>1. /\ UNCHANGED <<stored, expired, screen, listed>>
        /\ stage[x] \in {"get", "put"}
        /\ \/ stage' = [stage EXCEPT ![x] = "content"] /\ UNCHANGED answer
           \/ stage' = [stage EXCEPT ![x] = "refused"] /\ UNCHANGED answer
           \/ /\ SameRequest(x) /\ stage' = [stage EXCEPT ![x] = "ready"]
              /\ answer' = [answer EXCEPT ![x] = stored]
    BY <1>4 DEF GetExisting, PutIdempotent, PutAnswer, AnswerStored
  <2> QED BY <1>0, <2>1 DEF SameRequest, Stage
<1>5. CASE ContentMade(x)
  BY <1>0, <1>5 DEF ContentMade, Snapshot, Stage
<1>6. CASE PutIdempotent(x) /\ Replaceable
  <2>1. JobOf(x) \in JobSet /\ Faithful(JobOf(x)) /\ JobOf(x).screen = screen[x]
    BY <1>6, JobOfIsFaithful DEF PutIdempotent
  <2>2. /\ stored' = {JobOf(x)} /\ expired' = FALSE /\ UNCHANGED <<screen, listed>>
        /\ stage' = [stage EXCEPT ![x] = "ready"]
        /\ answer' = [answer EXCEPT ![x] = {JobOf(x)}]
    BY <1>6 DEF PutIdempotent, Store
  <2> HIDE DEF Goto
  <2> QED BY <1>0, <2>1, <2>2 DEF Stage
<1>7. CASE OwnedJob(x)
  BY <1>0, <1>7 DEF OwnedJob, Stage
<1>8. CASE DeleteJob(x)
  BY <1>0, <1>8 DEF DeleteJob, Store, Stage
<1> QED BY <1>1, <1>2, <1>3, <1>4, <1>5, <1>6, <1>7, <1>8

LEMMA NextExportJobInv ==
  ASSUME ReadsInv, JobInv, NEW x \in ChatReader, NextExport(x)
  PROVE  JobInv'
<1>1. /\ UNCHANGED <<chat, stored, expired, listed>>
      /\ stage' = [stage EXCEPT ![x] = "none"] /\ screen' = [screen EXCEPT ![x] = 0]
      /\ answer' = [answer EXCEPT ![x] = {}]
  BY DEF NextExport, NextRequest, Goto, vars, warehouse
<1>2. ASSUME NEW y \in ChatReader \ {x} PROVE pc'[y] = pc[y] /\ receipt'[y] = receipt[y]
  BY DEF NextExport, NextRequest, vars, requests, ReadsInv, TypeInv, TypeOK, Reader
<1>3. 0 \in 0..chat
  BY ReadersAssumption DEF ReadsInv, TypeInv, TypeOK
<1> QED BY <1>1, <1>2, <1>3 DEF JobInv, Stage

LEMMA NextJobInv == ReadsInv /\ JobInv /\ [ExportNext]_<<vars, exports>> => JobInv'
<1>1. ReadsInv /\ JobInv /\ UNCHANGED <<vars, exports>> => JobInv'
  BY DEF JobInv, vars, warehouse, requests, exports, requestState
<1>2. ReadsInv /\ JobInv /\ ExportNext => JobInv'
  BY ReadStepJobInv, ExportStepJobInv, NextExportJobInv DEF ExportNext
<1> QED BY <1>1, <1>2

LEMMA ExportJobInv == ExportSpec => [](ReadsInv /\ JobInv)
  BY ExportReadsInv, InitJobInv, NextJobInv, PTL DEF ExportSpec

(* Every variable of the export jobs and of their readers keeps its type.  *)
THEOREM ExportTypeCorrect == ExportSpec => []ExportTypeOK
<1>1. ReadsInv /\ JobInv => ExportTypeOK
  BY DEF ReadsInv, TypeInv, JobInv, ExportTypeOK
<1> QED BY <1>1, ExportJobInv, PTL

(* An admin is only ever given a file of the run on the screen, with facts *)
(* no older than it, whoever stored it under the same key and whenever.    *)
THEOREM ExportsAnswerTheirRequest == ExportSpec => []AnswersOwnRequest
<1>1. JobInv => AnswersOwnRequest
  BY DEF JobInv, Faithful, AnswersOwnRequest
<1> QED BY <1>1, ExportJobInv, PTL

LEMMA LiveJobStep ==
  ASSUME [ExportNext]_<<vars, exports>>, Live, stored' # stored
  PROVE  /\ stored' = {}
         /\ \E x \in ChatReader : stage[x] = "delete" \/ (stage[x] = "clean" /\ listed[x])
<1>1. PICK x \in ChatReader : DeleteListed(x) \/ PutIdempotent(x) \/ DeleteJob(x)
  BY DEF ExportNext, ReadStep, Expire, Ask, ListExpired, GetExisting, AnswerStored, ContentMade,
         OwnedJob, NextExport, exports
<1>2. CASE DeleteListed(x) BY <1>2 DEF DeleteListed, Store
<1>3. CASE PutIdempotent(x) BY <1>3 DEF PutIdempotent, Replaceable, PutAnswer, AnswerStored
<1>4. CASE DeleteJob(x) BY <1>4 DEF DeleteJob, Store
<1> QED BY <1>1, <1>2, <1>3, <1>4

(* No step overwrites a live job, and only a DELETE or a clean-up that had *)
(* listed an expired job removes one.                                      *)
THEOREM ExportsKeepLiveJobs == ExportSpec => LiveJobsAreKept
<1>1. [ExportNext]_<<vars, exports>> =>
        (Live /\ stored' # stored =>
          /\ stored' = {}
          /\ \E x \in ChatReader :
               stage[x] = "delete" \/ (stage[x] = "clean" /\ listed[x]))
  BY LiveJobStep
<1> QED BY <1>1, PTL DEF ExportSpec, LiveJobsAreKept

----------------------------------------------------------------------------
(* The roster snapshot of a publication.                                   *)

(* A document is in a directory once; the release before wrote only its    *)
(* own departments.                                                        *)
Keyed(docs)      == \A d, o \in docs : d.doc = o.doc => d = o
LegacyOnly(docs) == \A d \in docs : d.department \in LegacyDepartments \cup {Invalid}

(* A snapshot is what a publisher of either release made of its source.    *)
MadeBy(policy, labels, available) ==
  /\ snapshot = Project(policy, source, labels, available)
  /\ policy = Legacy => LegacyOnly(source)

RosterInv ==
  /\ documents \subseteq Document /\ catalog \subseteq LabelDocument
  /\ release \in {Legacy, Current} /\ source \subseteq Document
  /\ Keyed(documents) /\ Keyed(source)
  /\ release = Legacy => LegacyOnly(documents)
  /\ \E policy \in {Legacy, Current}, labels \in SUBSET LabelDocument, available \in BOOLEAN :
       MadeBy(policy, labels, available)


(* What a publisher keeps of an eligible document.                         *)
LEMMA StoredDocument ==
  ASSUME RosterAssumption, NEW policy \in {Legacy, Current}, NEW d \in Document
  PROVE  LET p == Stored(policy, d)
         IN  /\ p = [f \in Field |-> p[f]]
             /\ p.doc = Blank /\ p.id = d.doc
             /\ p.email = d.email /\ p.user = d.user /\ p.area = d.area
             /\ p.role = d.role /\ p.active = d.active /\ p.labels = d.labels
             /\ p.department = IF policy = Legacy THEN d.department
                               ELSE CanonicalDepartment(d.department)
             /\ CanonicalDepartment(p.department) = CanonicalDepartment(d.department)
<1>1. d = [f \in Field |-> d[f]] /\ d.doc # Blank
  BY DEF RosterAssumption
<1>2. RosterId(d) = d.doc
  BY <1>1 DEF RosterId
<1>3. CanonicalDepartment(CanonicalDepartment(d.department)) = CanonicalDepartment(d.department)
  BY DEF CanonicalDepartment, RosterAssumption
<1>4. CASE policy = Legacy
  <2>1. Stored(policy, d) = [d EXCEPT !.doc = Blank, !.id = d.doc]
    BY <1>2, <1>4 DEF Stored
  <2> QED BY <1>1, <1>4, <2>1 DEF Field
<1>5. CASE policy = Current
  <2>1. Stored(policy, d) =
          [d EXCEPT !.id = d.doc, !.department = CanonicalDepartment(@), !.doc = Blank]
    BY <1>1, <1>2, <1>5 DEF Stored, Canonical, Legacy, Current, Field
  <2> QED BY <1>1, <1>3, <1>5, <2>1 DEF Field, Legacy, Current
<1> QED BY <1>4, <1>5

(* An eligible document is safe, and alone with its keys.                  *)
LEMMA EligibleDocument ==
  ASSUME RosterAssumption, NEW docs \in SUBSET Document, NEW d \in Eligible(docs)
  PROVE  /\ d \in docs /\ d \in Document /\ d.doc # Blank
         /\ d.email # Invalid /\ d.area # Invalid
         /\ CanonicalDepartment(d.department) # Invalid
         /\ \A o \in docs \ {d} :
              o.email # d.email /\ (d.user # Blank => o.user # d.user)
<1>1. d \in docs /\ ~Blocked(d) /\ ~Ambiguous(d, docs)
  BY DEF Eligible, Isolated
<1>2. d.doc # Blank
  BY <1>1 DEF RosterAssumption
<1> QED BY <1>1, <1>2 DEF Blocked, Ambiguous

Persons(policy, docs) == {Stored(policy, d) : d \in docs}

(* So is a person of a snapshot, among the people of that snapshot.        *)
LEMMA NobodyIsolated ==
  ASSUME RosterAssumption, NEW policy \in {Legacy, Current},
         NEW docs \in SUBSET Document, Keyed(docs)
  PROVE  Isolated(Persons(policy, Eligible(docs))) = {}
<1> DEFINE people == Persons(policy, Eligible(docs))
<1> SUFFICES ASSUME NEW p \in people PROVE ~Blocked(p) /\ ~Ambiguous(p, people)
  BY DEF Isolated
<1>1. PICK d \in Eligible(docs) : p = Stored(policy, d)
  BY DEF Persons
<1>2. p.doc = Blank /\ p.id = d.doc /\ p.email = d.email /\ p.user = d.user
      /\ p.area = d.area /\ CanonicalDepartment(p.department) = CanonicalDepartment(d.department)
  BY <1>1, StoredDocument, EligibleDocument
<1>3. ~Blocked(p)
  BY <1>1, <1>2, EligibleDocument DEF Blocked, IdUnsafe
<1>4. ASSUME NEW q \in people \ {p}
      PROVE  RosterId(q) # RosterId(p) /\ q.email # p.email /\ (p.user # Blank => q.user # p.user)
  <2>1. PICK o \in Eligible(docs) : q = Stored(policy, o)
    BY DEF Persons
  <2>2. o \in docs \ {d} /\ d \in docs
    BY <1>1, <1>4, <2>1, EligibleDocument
  <2>3. q.doc = Blank /\ q.id = o.doc /\ q.email = o.email /\ q.user = o.user
    BY <2>1, StoredDocument, EligibleDocument
  <2>4. o.doc # d.doc
    BY <2>2 DEF Keyed
  <2> QED BY <1>1, <1>2, <2>2, <2>3, <2>4, EligibleDocument DEF RosterId
<1>5. ~Ambiguous(p, people)
  BY <1>4 DEF Ambiguous
<1> QED BY <1>3, <1>5

KnownLabels(labels, available) == IF available THEN EligibleLabels(labels) ELSE {}

(* What a publication stores.                                              *)
LEMMA Projected ==
  ASSUME NEW policy, NEW docs, NEW labels, NEW available
  PROVE  LET snap  == Project(policy, docs, labels, available)
             known == KnownLabels(labels, available)
         IN  /\ snap.policy = policy /\ snap.diagnostic = Isolated(docs)
             /\ snap.rows = {Row(policy, d, known) : d \in Eligible(docs)}
             /\ \A s \in Scope :
                  /\ snap.status[s] = LabelIssues(ScopeRows(snap.rows, s), labels, available)
                  /\ snap.receipt[s] = Receipt(ScopeRows(snap.rows, s), snap.diagnostic, known,
                                               snap.status[s])
  BY DEF Project, KnownLabels

LEMMA RowFields ==
  ASSUME NEW policy, NEW d, NEW known
  PROVE  LET r == Row(policy, d, known)
         IN  /\ r.person = Stored(policy, d)
             /\ r.labels = {l \in known : l.id \in d.labels}
             /\ r.flags = [s \in Scope |->
                  MemberUnder(policy, s, Stored(policy, d).department, d.role)]
  BY DEF Row

Members(policy, docs, s) ==
  {d \in Eligible(docs) :
     d.active /\ MemberUnder(policy, s, Stored(policy, d).department, d.role)}

(* The people of a snapshot's scope are its members among the eligible.    *)
LEMMA StoredPeople ==
  ASSUME RosterAssumption, NEW policy \in {Legacy, Current},
         NEW docs \in SUBSET Document, NEW labels, NEW available
  PROVE  LET snap == Project(policy, docs, labels, available)
         IN  /\ People(snap) = Persons(policy, Eligible(docs))
             /\ \A s \in Scope :
                  ScopeRows(snap.rows, s) = Persons(policy, Members(policy, docs, s))
<1> DEFINE snap == Project(policy, docs, labels, available)
           known == KnownLabels(labels, available)
<1>1. snap.rows = {Row(policy, d, known) : d \in Eligible(docs)}
  BY Projected
<1>2. ASSUME NEW d \in Eligible(docs)
      PROVE  /\ Row(policy, d, known).person = Stored(policy, d)
             /\ Stored(policy, d).active = d.active
             /\ \A s \in Scope : Row(policy, d, known).flags[s] =
                  MemberUnder(policy, s, Stored(policy, d).department, d.role)
  <2>1. d \in Document
    BY EligibleDocument
  <2>2. Stored(policy, d).active = d.active
    BY <2>1, StoredDocument
  <2> QED BY <2>2 DEF Row
<1> HIDE DEF snap, known
<1>3. People(snap) = Persons(policy, Eligible(docs))
  BY <1>1, <1>2 DEF People, Persons
<1>4. ASSUME NEW s \in Scope
      PROVE  ScopeRows(snap.rows, s) =
               Persons(policy, Members(policy, docs, s))
  BY <1>1, <1>2 DEF ScopeRows, Members, Persons
<1> QED BY <1>3, <1>4 DEF snap

(* The labels that a scope refers to are all in its rows, which is why a   *)
(* reader can compute the receipt again without the catalog.               *)
LEMMA StoredLabels ==
  ASSUME RosterAssumption, NEW policy \in {Legacy, Current},
         NEW docs \in SUBSET Document, NEW labels, NEW available
  PROVE  LET snap  == Project(policy, docs, labels, available)
             known == KnownLabels(labels, available)
         IN  /\ SnapshotLabels(snap) \subseteq known
             /\ \A s \in Scope, l \in known :
                  l.id \in References(ScopeRows(snap.rows, s)) => l \in SnapshotLabels(snap)
<1> DEFINE snap  == Project(policy, docs, labels, available)
           known == KnownLabels(labels, available)
<1>1. snap.rows = {Row(policy, d, known) : d \in Eligible(docs)}
  BY Projected
<1>2. ASSUME NEW d \in Eligible(docs)
      PROVE  /\ Row(policy, d, known).person.labels = d.labels
             /\ Row(policy, d, known).labels = {l \in known : l.id \in d.labels}
  <2>1. d \in Document
    BY EligibleDocument
  <2>2. Stored(policy, d).labels = d.labels
    BY <2>1, StoredDocument
  <2> QED BY <2>2 DEF Row
<1> HIDE DEF snap, known
<1>3. SnapshotLabels(snap) \subseteq known
  BY <1>1, <1>2 DEF SnapshotLabels
<1>4. ASSUME NEW s \in Scope, NEW l \in known, l.id \in References(ScopeRows(snap.rows, s))
      PROVE  l \in SnapshotLabels(snap)
  <2>1. PICK r \in snap.rows : l.id \in r.person.labels
    BY <1>4 DEF References, ScopeRows
  <2>2. l \in r.labels
    BY <1>1, <1>2, <2>1
  <2> QED BY <2>1, <2>2 DEF SnapshotLabels
<1> QED BY <1>3, <1>4 DEF snap, known

LEMMA ReceiptsAgree ==
  ASSUME RosterAssumption, NEW policy \in {Legacy, Current},
         NEW docs \in SUBSET Document, NEW labels, NEW available, NEW s \in Scope
  PROVE  LET snap == Project(policy, docs, labels, available)
         IN  RosterReceiptHolds(snap, s) /\ ContentReceiptHolds(snap, s)
<1> DEFINE snap  == Project(policy, docs, labels, available)
           known == KnownLabels(labels, available)
           rows  == ScopeRows(snap.rows, s)
<1>1. snap.receipt[s] = Receipt(rows, snap.diagnostic, known, snap.status[s])
  BY Projected
<1>2. RosterReceiptHolds(snap, s)
  BY <1>1 DEF RosterReceiptHolds, Receipt
<1>3. /\ SnapshotLabels(snap) \subseteq known
      /\ \A l \in known : l.id \in References(rows) => l \in SnapshotLabels(snap)
  BY StoredLabels
<1> HIDE DEF snap, known, rows
<1>4. {l \in SnapshotLabels(snap) : l.id \in References(rows)}
        = {l \in known : l.id \in References(rows)}
  BY <1>3
<1>5. References(rows) \ {l.id : l \in SnapshotLabels(snap)}
        = References(rows) \ {l.id : l \in known}
  BY <1>3
<1>6. ContentReceiptHolds(snap, s)
  BY <1>1, <1>4, <1>5 DEF ContentReceiptHolds, Receipt, rows
<1> QED BY <1>2, <1>6 DEF snap

(* Flags are those that the writer's policy gives.                         *)
LEMMA FlagsAgree ==
  ASSUME RosterAssumption, NEW policy \in {Legacy, Current},
         NEW docs \in SUBSET Document, NEW labels, NEW available,
         Keyed(docs), policy = Legacy => LegacyOnly(docs)
  PROVE  FlagsValid(Project(policy, docs, labels, available))
<1> DEFINE snap  == Project(policy, docs, labels, available)
           known == KnownLabels(labels, available)
<1>1. snap.policy = policy /\ snap.rows = {Row(policy, d, known) : d \in Eligible(docs)}
  BY Projected
<1>2. Isolated(People(snap)) = {}
  BY StoredPeople, NobodyIsolated
<1>3. ASSUME NEW d \in Eligible(docs)
      PROVE  LET r == Row(policy, d, known)
             IN  /\ policy = Legacy => r.person.department \in LegacyDepartments
                 /\ r.flags = [s \in Scope |->
                      MemberUnder(policy, s, r.person.department, r.person.role)]
  <2>1. /\ Row(policy, d, known).person = Stored(policy, d)
        /\ Row(policy, d, known).flags =
             [s \in Scope |-> MemberUnder(policy, s, Stored(policy, d).department, d.role)]
        /\ Stored(policy, d).role = d.role
    BY RowFields, StoredDocument, EligibleDocument
  <2>2. ASSUME policy = Legacy PROVE Stored(policy, d).department \in LegacyDepartments
    <3>1. Stored(policy, d).department = d.department
      BY <2>2, StoredDocument, EligibleDocument
    <3>2. d.department \in LegacyDepartments \cup {Invalid}
      BY <2>2, EligibleDocument DEF LegacyOnly
    <3>3. d.department # Invalid
      BY EligibleDocument DEF CanonicalDepartment, RosterAssumption
    <3> QED BY <3>1, <3>2, <3>3
  <2> QED BY <2>1, <2>2
<1> HIDE DEF snap, known
<1>4. FlagsValid(snap)
  BY <1>1, <1>2, <1>3 DEF FlagsValid
<1> QED BY <1>4 DEF snap

(* Labels that were eligible in the catalog are so among themselves.       *)
LEMMA LabelsStayEligible ==
  ASSUME NEW labels, NEW some \in SUBSET EligibleLabels(labels)
  PROVE  EligibleLabels(some) = some
  BY DEF EligibleLabels

(* Both services read what either release wrote.                           *)
LEMMA ProjectionReadable ==
  ASSUME RosterAssumption, NEW policy \in {Legacy, Current},
         NEW docs \in SUBSET Document, NEW labels, NEW available,
         Keyed(docs), policy = Legacy => LegacyOnly(docs), Eligible(docs) # {},
         NEW s \in Scope
  PROVE  LET snap == Project(policy, docs, labels, available)
         IN  NewsReads(snap, s) /\ AnalyticsReads(snap, s)
<1> DEFINE snap  == Project(policy, docs, labels, available)
           known == KnownLabels(labels, available)
<1>1. snap.rows # {}
  BY Projected
<1>2. FlagsValid(snap)
  BY FlagsAgree
<1>3. \A t \in Scope : RosterReceiptHolds(snap, t) /\ ContentReceiptHolds(snap, t)
  BY ReceiptsAgree
<1>4. SnapshotLabels(snap) = EligibleLabels(SnapshotLabels(snap))
  <2>1. SnapshotLabels(snap) \subseteq known
    BY StoredLabels
  <2>2. known \subseteq EligibleLabels(labels)
    BY DEF KnownLabels
  <2> QED BY <2>1, <2>2, LabelsStayEligible
<1> HIDE DEF snap, known
<1>5. ReceiptScopes(snap.policy, s) \subseteq Scope
  BY DEF ReceiptScopes
<1>6. NewsReads(snap, s) /\ AnalyticsReads(snap, s)
  BY <1>1, <1>2, <1>3, <1>4, <1>5 DEF NewsReads, AnalyticsReads
<1> QED BY <1>6 DEF snap

(* The population that today's readers draw from a snapshot: one person    *)
(* for each member among the eligible documents.                           *)
LEMMA PopulationOf ==
  ASSUME RosterAssumption, NEW policy \in {Legacy, Current},
         NEW docs \in SUBSET Document, NEW labels, NEW available, NEW s \in Scope
  PROVE  LET snap == Project(policy, docs, labels, available)
         IN  Population(snap, s) =
               {Canonical(Stored(policy, d)) : d \in
                  {d \in Eligible(docs) :
                     d.active /\ Member(s, CanonicalDepartment(d.department), d.role)}}
<1> DEFINE snap == Project(policy, docs, labels, available)
<1>1. People(snap) = Persons(policy, Eligible(docs))
  BY StoredPeople
<1>2. ASSUME NEW d \in Eligible(docs)
      PROVE  /\ Stored(policy, d).active = d.active /\ Stored(policy, d).role = d.role
             /\ CanonicalDepartment(Stored(policy, d).department)
                  = CanonicalDepartment(d.department)
  <2>1. d \in Document
    BY EligibleDocument
  <2> QED BY <2>1, StoredDocument
<1> HIDE DEF snap
<1>3. Population(snap, s) =
        {Canonical(Stored(policy, d)) : d \in
           {d \in Eligible(docs) :
              d.active /\ Member(s, CanonicalDepartment(d.department), d.role)}}
  BY <1>1, <1>2 DEF Population, Persons
<1> QED BY <1>3 DEF snap

LEMMA CanonicalPerson ==
  ASSUME RosterAssumption, NEW policy \in {Legacy, Current}, NEW d \in Document
  PROVE  LET p == Canonical(Stored(policy, d))
         IN  /\ p.id = d.doc /\ p.email = d.email /\ p.user = d.user /\ p.role = d.role
             /\ p.department = CanonicalDepartment(d.department)
             /\ policy = Current => p = Stored(policy, d)
<1> DEFINE p == Stored(policy, d)
<1>1. /\ p = [f \in Field |-> p[f]]
      /\ p.doc = Blank /\ p.id = d.doc
      /\ p.email = d.email /\ p.user = d.user /\ p.role = d.role
      /\ CanonicalDepartment(p.department) = CanonicalDepartment(d.department)
      /\ policy = Current => p.department = CanonicalDepartment(d.department)
  BY StoredDocument DEF Legacy, Current
<1> HIDE DEF p
<1>2. Canonical(p) = [p EXCEPT !.id = p.id, !.department = CanonicalDepartment(p.department)]
  BY <1>1 DEF Canonical, RosterId, Field
<1>3. /\ Canonical(p).id = d.doc /\ Canonical(p).email = d.email /\ Canonical(p).user = d.user
      /\ Canonical(p).role = d.role
      /\ Canonical(p).department = CanonicalDepartment(d.department)
  BY <1>1, <1>2 DEF Field
<1>4. policy = Current => Canonical(p) = p
  BY <1>1, <1>2 DEF Field
<1> QED BY <1>3, <1>4 DEF p

SafePopulation(snap, docs, s) ==
  /\ {p.id : p \in Population(snap, s)} =
       {d.doc : d \in {d \in Eligible(docs) :
          d.active /\ Member(s, CanonicalDepartment(d.department), d.role)}}
  /\ \A p \in Population(snap, s), d \in docs :
       d.doc # p.id => d.email # p.email /\ (p.user # Blank => d.user # p.user)

LEMMA PopulationSafe ==
  ASSUME RosterAssumption, NEW policy \in {Legacy, Current},
         NEW docs \in SUBSET Document, NEW labels, NEW available, NEW s \in Scope
  PROVE  SafePopulation(Project(policy, docs, labels, available), docs, s)
<1> DEFINE snap == Project(policy, docs, labels, available)
           members == {d \in Eligible(docs) :
                         d.active /\ Member(s, CanonicalDepartment(d.department), d.role)}
           person(d) == Canonical(Stored(policy, d))
<1>1. Population(snap, s) = {person(d) : d \in members}
  BY PopulationOf
<1>2. ASSUME NEW d \in members
      PROVE  person(d).id = d.doc /\ person(d).email = d.email /\ person(d).user = d.user
  <2>1. d \in Document
    BY EligibleDocument
  <2> QED BY <2>1, CanonicalPerson
<1> HIDE DEF snap, person
<1>3. {p.id : p \in Population(snap, s)} = {d.doc : d \in members}
  BY <1>1, <1>2
<1>4. ASSUME NEW p \in Population(snap, s), NEW o \in docs, o.doc # p.id
      PROVE  o.email # p.email /\ (p.user # Blank => o.user # p.user)
  <2>1. PICK d \in members : p = person(d)
    BY <1>1
  <2>2. p.id = d.doc /\ p.email = d.email /\ p.user = d.user
    BY <1>2, <2>1
  <2>3. o \in docs \ {d}
    BY <1>4, <2>2
  <2> QED BY <2>2, <2>3, EligibleDocument
<1> QED BY <1>3, <1>4 DEF snap, SafePopulation

(* The two summary cohorts of the whole roster are the global population.  *)
LEMMA CohortsCover ==
  ASSUME RosterAssumption, NEW policy \in {Legacy, Current},
         NEW docs \in SUBSET Document, NEW labels, NEW available
  PROVE  LET snap == Project(policy, docs, labels, available)
         IN  Cohort(Population(snap, "user_map"), "dm")
               \cup Cohort(Population(snap, "user_map"), "hcs") = Population(snap, "global")
<1> DEFINE snap == Project(policy, docs, labels, available)
           person(d) == Canonical(Stored(policy, d))
           In(s, d) == d.active /\ Member(s, CanonicalDepartment(d.department), d.role)
<1>1. \A s \in Scope :
        Population(snap, s) = {person(d) : d \in {d \in Eligible(docs) : In(s, d)}}
  BY PopulationOf
<1>2. ASSUME NEW d \in Eligible(docs)
      PROVE  person(d).department = CanonicalDepartment(d.department) /\ person(d).role = d.role
  <2>1. d \in Document
    BY EligibleDocument
  <2> QED BY <2>1, CanonicalPerson
<1>3. ASSUME NEW d \in Eligible(docs)
      PROVE  In("global", d) <=>
               /\ In("user_map", d) /\ Member("global", person(d).department, person(d).role)
               /\ person(d).department \in {"MR(DM)", "MR(HCS)"}
  BY <1>2 DEF Member
<1> HIDE DEF snap, person, In
<1>4. \A people : Cohort(people, "dm") \cup Cohort(people, "hcs") =
        {p \in people : /\ Member("global", p.department, p.role)
                        /\ p.department \in {"MR(DM)", "MR(HCS)"}}
  BY DEF Cohort
<1>5. "global" \in Scope /\ "user_map" \in Scope
  BY DEF Scope
<1>6. {p \in Population(snap, "user_map") :
          /\ Member("global", p.department, p.role)
          /\ p.department \in {"MR(DM)", "MR(HCS)"}} = Population(snap, "global")
  BY <1>1, <1>3, <1>5
<1> QED BY <1>4, <1>6 DEF snap

(* Under today's policy a snapshot's rows are its population already.      *)
LEMMA CurrentPopulation ==
  ASSUME RosterAssumption, NEW policy, policy = Current,
         NEW docs \in SUBSET Document, NEW labels, NEW available, NEW s \in Scope
  PROVE  LET snap == Project(policy, docs, labels, available)
         IN  Population(snap, s) = ScopeRows(snap.rows, s)
<1> DEFINE snap == Project(policy, docs, labels, available)
           person(d) == Stored(policy, d)
           In(d) == d.active /\ Member(s, CanonicalDepartment(d.department), d.role)
<1>0. policy \in {Legacy, Current}
  OBVIOUS
<1>1. Population(snap, s) = {Canonical(person(d)) : d \in {d \in Eligible(docs) : In(d)}}
  BY <1>0, PopulationOf
<1>2. ScopeRows(snap.rows, s) = Persons(policy, Members(policy, docs, s))
  BY <1>0, StoredPeople
<1>3. ASSUME NEW d \in Eligible(docs)
      PROVE  Canonical(person(d)) = person(d) /\ (In(d) <=> d \in Members(policy, docs, s))
  <2>1. d \in Document
    BY EligibleDocument
  <2>2. Canonical(person(d)) = person(d)
    BY <1>0, <2>1, CanonicalPerson
  <2>3. person(d).department = CanonicalDepartment(d.department)
    BY <1>0, <2>1, StoredDocument DEF Legacy, Current
  <2> QED BY <2>2, <2>3 DEF Members, MemberUnder, Legacy, Current
<1> HIDE DEF snap, person, In
<1>4. Members(policy, docs, s) = {d \in Eligible(docs) : In(d)}
  BY <1>3 DEF Members
<1> QED BY <1>1, <1>2, <1>3, <1>4 DEF snap, person, Persons

Shown(snap, s) == {[p EXCEPT !.user = Blank] : p \in Population(snap, s)}

(* What a receipt of today's policy hashes is what an answer shows.        *)
LEMMA ReceiptShows ==
  ASSUME RosterAssumption, NEW policy, policy = Current,
         NEW docs \in SUBSET Document, NEW labels, NEW available, NEW s \in Scope
  PROVE  LET snap == Project(policy, docs, labels, available)
         IN  /\ snap.receipt[s].roster[1] = Shown(snap, s)
             /\ snap.receipt[s].status = AnswerStatus(snap, s)
<1> DEFINE snap  == Project(policy, docs, labels, available)
           known == KnownLabels(labels, available)
           rows  == ScopeRows(snap.rows, s)
<1>1. snap.policy = policy
      /\ snap.receipt[s] = Receipt(rows, snap.diagnostic, known, snap.status[s])
  BY Projected
<1>2. Population(snap, s) = rows
  BY CurrentPopulation
<1> HIDE DEF snap, known, rows
<1>3. snap.receipt[s].roster[1] = {[p EXCEPT !.user = Blank] : p \in rows}
      /\ snap.receipt[s].status = snap.status[s]
  BY <1>1 DEF Receipt
<1>4. AnswerStatus(snap, s) = snap.status[s]
  BY <1>1 DEF AnswerStatus, Legacy, Current
<1> QED BY <1>2, <1>3, <1>4 DEF snap, Shown

----------------------------------------------------------------------------
(* The steps.                                                              *)

LEMMA InitRosterInv == RosterInit => RosterInv
<1> SUFFICES ASSUME RosterInit PROVE RosterInv
  OBVIOUS
<1>1. Legacy \in {Legacy, Current} /\ {} \in SUBSET LabelDocument /\ TRUE \in BOOLEAN
      /\ MadeBy(Legacy, {}, TRUE)
  BY DEF RosterInit, MadeBy, LegacyOnly
<1> QED BY <1>1 DEF RosterInit, RosterInv, Keyed, LegacyOnly

LEMMA NextRosterInv ==
  ASSUME RosterInv, [RosterNext]_rosterVars
  PROVE  RosterInv'
<1>1. ASSUME UNCHANGED <<snapshot, source>>
      PROVE  \E policy \in {Legacy, Current}, labels \in SUBSET LabelDocument,
                available \in BOOLEAN : MadeBy(policy, labels, available)'
  <2>1. PICK policy \in {Legacy, Current}, labels \in SUBSET LabelDocument,
             available \in BOOLEAN : MadeBy(policy, labels, available)
    BY DEF RosterInv
  <2>2. MadeBy(policy, labels, available)'
    BY <1>1, <2>1 DEF MadeBy
  <2> QED BY <2>2
<1>2. CASE Edit
  <2>1. PICK d \in Document :
          /\ release = Legacy => d.department \in LegacyDepartments \cup {Invalid}
          /\ documents' \in {documents \ {d}, {o \in documents : o.doc # d.doc} \cup {d}}
    BY <1>2 DEF Edit
  <2>2. UNCHANGED <<catalog, release, snapshot, source>>
    BY <1>2 DEF Edit
  <2>3. documents' \subseteq documents \cup {d}
    BY <2>1
  <2>4. Keyed(documents)'
    BY <2>1 DEF RosterInv, Keyed
  <2>5. (release = Legacy => LegacyOnly(documents))'
    BY <2>1, <2>2, <2>3 DEF RosterInv, LegacyOnly
  <2> QED BY <1>1, <2>2, <2>3, <2>4, <2>5 DEF RosterInv, Keyed
<1>3. CASE EditLabel
  BY <1>1, <1>3 DEF EditLabel, RosterInv, Keyed, LegacyOnly
<1>4. CASE PublishRoster
  <2>1. PICK available \in BOOLEAN :
          /\ snapshot' = Project(release, documents, catalog, available)
          /\ source' = documents
    BY <1>4 DEF PublishRoster
  <2>2. UNCHANGED <<documents, catalog, release>>
    BY <1>4 DEF PublishRoster
  <2>3. PICK policy : policy = release
    OBVIOUS
  <2>4. PICK labels : labels = catalog
    OBVIOUS
  <2>5. MadeBy(policy, labels, available)'
    BY <2>1, <2>3, <2>4 DEF MadeBy, RosterInv, LegacyOnly
  <2>6. policy \in {Legacy, Current} /\ labels \in SUBSET LabelDocument
    BY <2>3, <2>4 DEF RosterInv
  <2> QED BY <2>1, <2>2, <2>5, <2>6 DEF RosterInv, Keyed, LegacyOnly
<1>5. CASE Upgrade
  BY <1>1, <1>5 DEF Upgrade, RosterInv, Keyed, LegacyOnly, Legacy, Current
<1>6. CASE UNCHANGED rosterVars
  BY <1>1, <1>6 DEF rosterVars, RosterInv, Keyed, LegacyOnly
<1> QED BY <1>2, <1>3, <1>4, <1>5, <1>6 DEF RosterNext

LEMMA SnapshotProperties ==
  ASSUME RosterAssumption, RosterInv
  PROVE  RosterReceiptsHold
<1>1. PICK policy \in {Legacy, Current}, labels \in SUBSET LabelDocument,
           available \in BOOLEAN : MadeBy(policy, labels, available)
  BY DEF RosterInv
<1>2. PICK docs \in SUBSET Document : docs = source
  BY DEF RosterInv
<1>3. /\ snapshot = Project(policy, docs, labels, available)
      /\ Keyed(docs)
      /\ policy = Legacy => LegacyOnly(docs)
  BY <1>1, <1>2 DEF MadeBy, RosterInv
<1>4. SnapshotsReadable
  <2>1. SUFFICES ASSUME Eligible(docs) # {}, NEW s \in Scope
                 PROVE  NewsReads(snapshot, s) /\ AnalyticsReads(snapshot, s)
    BY <1>2 DEF SnapshotsReadable
  <2>2. /\ NewsReads(Project(policy, docs, labels, available), s)
        /\ AnalyticsReads(Project(policy, docs, labels, available), s)
    BY <1>3, <2>1, ProjectionReadable
  <2> QED BY <1>3, <2>2
<1>5. PopulationIsSafe
  <2>1. \A s \in Scope : SafePopulation(snapshot, docs, s)
    BY <1>3, PopulationSafe
  <2>2. Cohort(Population(snapshot, "user_map"), "dm")
          \cup Cohort(Population(snapshot, "user_map"), "hcs") = Population(snapshot, "global")
    BY <1>3, CohortsCover
  <2> QED BY <1>2, <2>1, <2>2 DEF PopulationIsSafe, SafePopulation
<1>6. ReceiptsIdentifyContent
  <2>1. snapshot.policy = policy
    BY <1>3, Projected
  <2>2. ASSUME policy = Current, NEW s \in Scope,
               NEW other, other = Project(policy, documents, catalog, TRUE),
               snapshot.receipt[s] = other.receipt[s]
        PROVE  /\ Shown(snapshot, s) = Shown(other, s)
               /\ AnswerStatus(snapshot, s) = AnswerStatus(other, s)
    <3>1. /\ snapshot.receipt[s].roster[1] = Shown(snapshot, s)
          /\ snapshot.receipt[s].status = AnswerStatus(snapshot, s)
      BY <1>3, <2>2, ReceiptShows
    <3>2. PICK docs2 \in SUBSET Document, labels2 \in SUBSET LabelDocument, read \in BOOLEAN :
            docs2 = documents /\ labels2 = catalog /\ read = TRUE
      BY DEF RosterInv
    <3>3. LET snap == Project(policy, docs2, labels2, read)
          IN  /\ snap.receipt[s].roster[1] = Shown(snap, s)
              /\ snap.receipt[s].status = AnswerStatus(snap, s)
      BY <2>2, ReceiptShows
    <3>4. other = Project(policy, docs2, labels2, read)
      BY <2>2, <3>2
    <3> QED BY <2>2, <3>1, <3>3, <3>4
  <2> QED BY <2>1, <2>2 DEF ReceiptsIdentifyContent, Shown
<1> QED BY <1>4, <1>5, <1>6 DEF RosterReceiptsHold

(* Documents, labels and snapshots keep their types.                       *)
THEOREM RosterTypeCorrect == RosterSpec => []RosterTypeOK
<1>1. RosterInv => RosterTypeOK
  <2> SUFFICES ASSUME RosterInv PROVE RosterTypeOK
    OBVIOUS
  <2>1. PICK policy \in {Legacy, Current}, labels \in SUBSET LabelDocument,
             available \in BOOLEAN : snapshot = Project(policy, source, labels, available)
    BY DEF RosterInv, MadeBy
  <2>2. snapshot.policy = policy
    BY <2>1, Projected
  <2> QED BY <2>2 DEF RosterInv, RosterTypeOK
<1> QED BY <1>1, InitRosterInv, NextRosterInv, PTL DEF RosterSpec

(* Whatever administrators write into the directory, and whichever release *)
(* published it, both services accept the snapshot, draw their population  *)
(* from safe documents only, and a receipt tells what an answer shows      *)
(* (RosterReceiptsHold), for any documents and labels.                     *)
THEOREM RostersAreSafe == RosterAssumption /\ RosterSpec => []RosterReceiptsHold
<1> DEFINE Inv == RosterAssumption /\ RosterInv
<1>1. RosterAssumption /\ RosterInit => Inv
  BY InitRosterInv
<1>2. ASSUME Inv, [RosterNext]_rosterVars PROVE Inv'
  BY <1>2, NextRosterInv DEF RosterAssumption
<1>3. Inv => RosterReceiptsHold
  BY SnapshotProperties
<1> QED BY <1>1, <1>2, <1>3, PTL DEF RosterSpec
====
