--------------------------- MODULE RosterSnapshot ---------------------------
(***************************************************************************)
(* The roster from the directory's documents to an answer's population:    *)
(* the one reading of a collection that isolates unsafe and ambiguous      *)
(* documents, the projection that a publication stores with its receipts,  *)
(* and the two services that read those rows again, as documents, under    *)
(* the policy of the writer and then under today's.                        *)
(*                                                                         *)
(* A fingerprint is the value it hashes.  A document's display fields are  *)
(* one field, area, Invalid when any of them is; spelling is kept where a  *)
(* policy names it ("DM" is the old spelling of "MR(DM)").                 *)
(***************************************************************************)
EXTENDS FiniteSets

CONSTANTS
  Document,     \* user documents the directory may hold
  LabelDocument,\* label documents
  Blank, Invalid

Field == {"doc", "id", "email", "user", "area", "department", "role", "active", "labels"}

(* Firestore's document ids are never blank.                               *)
RosterAssumption ==
  /\ \A d \in Document : d = [f \in Field |-> d[f]] /\ d.doc # Blank
  /\ Invalid \notin {"DM", "MR(DM)", "MR(HCS)", "HQ", "admin"}

VARIABLES
  documents, catalog,  \* the directory's users and labels
  release,             \* the policy the publisher writes: legacy, then current
  snapshot,            \* the publication's rows and receipts
  source               \* the documents it was made from

rosterVars == <<documents, catalog, release, snapshot, source>>

Scope    == {"global", "user_map"}
Legacy   == "summary_role_v1"
Current  == "summary_department_v2"

----------------------------------------------------------------------------
(* Reading documents.                                                      *)

CanonicalDepartment(d) ==
  CASE d = "DM" -> "MR(DM)"
    [] d \in {"MR(DM)", "MR(HCS)", "HQ", "admin"} -> d
    [] OTHER -> Invalid

RosterId(d) == IF d.doc # Blank THEN d.doc ELSE d.id
IdUnsafe(d) == d.id = Blank \/ (d.doc # Blank /\ d.id # d.doc)

Blocked(d) ==
  \/ IdUnsafe(d) \/ Invalid \in {d.email, d.area}
  \/ CanonicalDepartment(d.department) = Invalid

(* One key in two documents makes both ambiguous, also when the other one  *)
(* is unsafe already.                                                      *)
Ambiguous(d, docs) ==
  \E o \in docs \ {d} :
    \/ RosterId(o) = RosterId(d) /\ ~IdUnsafe(o) /\ ~IdUnsafe(d)
    \/ o.email = d.email /\ d.email # Invalid
    \/ o.user = d.user /\ d.user # Blank

Isolated(docs) == {d \in docs : Blocked(d) \/ Ambiguous(d, docs)}
Eligible(docs) == docs \ Isolated(docs)

Canonical(d) ==
  [d EXCEPT !.id = RosterId(d), !.department = CanonicalDepartment(@)]

EligibleLabels(labels) ==
  {l \in labels : /\ l.valid
                  /\ ~\E o \in labels \ {l} : o.id = l.id \/ o.name = l.name}

Member(scope, department, role) ==
  /\ department \in {"MR(DM)", "MR(HCS)", "HQ"}
  /\ scope = "global" =>
       department # "HQ" /\ role \in {"employee", "headquarters", "contract"}
LegacyMember(scope, department, role) ==
  /\ department # "admin"
  /\ scope = "global" => role \in {"headquarters", "contract"}
MemberUnder(policy, scope, department, role) ==
  IF policy = Legacy THEN LegacyMember(scope, department, role)
  ELSE Member(scope, department, role)

----------------------------------------------------------------------------
(* Writing a snapshot.                                                     *)

References(rows) == UNION {r.labels : r \in rows}

(* Of the catalog, a receipt holds what the scope's rows refer to; a       *)
(* reference without a label is part of it.                                *)
Receipt(rows, diagnostic, labels, status) ==
  [roster  |-> <<{[r EXCEPT !.user = Blank] : r \in rows}, diagnostic>>,
   labels  |-> {l \in labels : l.id \in References(rows)},
   missing |-> References(rows) \ {l.id : l \in labels},
   status  |-> status]

LabelIssues(rows, labels, available) ==
  IF ~available THEN {"label_catalog_unavailable"}
  ELSE {"invalid_label" : l \in labels \ EligibleLabels(labels)}
       \cup {"unknown_label_reference" :
               l \in References(rows) \ {k.id : k \in EligibleLabels(labels)}}

ScopeRows(rows, scope) == {r.person : r \in {r \in rows : r.person.active /\ r.flags[scope]}}

(* The release before kept the spelling of the document.                   *)
Stored(policy, d) ==
  IF policy = Legacy THEN [d EXCEPT !.doc = Blank, !.id = RosterId(d)]
  ELSE [Canonical(d) EXCEPT !.doc = Blank]

Row(policy, d, known) ==
  LET person == Stored(policy, d)
  IN [person |-> person,
      flags |-> [s \in Scope |-> MemberUnder(policy, s, person.department, d.role)],
      labels |-> {l \in known : l.id \in d.labels}]

Project(policy, docs, labels, available) ==
  LET known  == IF available THEN EligibleLabels(labels) ELSE {}
      rows   == {Row(policy, d, known) : d \in Eligible(docs)}
      status == [s \in Scope |-> LabelIssues(ScopeRows(rows, s), labels, available)]
  IN [policy |-> policy, rows |-> rows, diagnostic |-> Isolated(docs), status |-> status,
      receipt |-> [s \in Scope |->
         Receipt(ScopeRows(rows, s), Isolated(docs), known, status[s])]]

----------------------------------------------------------------------------
(* Reading a snapshot.                                                     *)

People(snap) == {r.person : r \in snap.rows}
SnapshotLabels(snap) == UNION {r.labels : r \in snap.rows}

LegacyDepartments == {"DM", "HQ", "admin"}

(* Flags are checked under the writer's policy, on the stored spelling.    *)
FlagsValid(snap) ==
  /\ Isolated(People(snap)) = {}
  /\ \A r \in snap.rows :
       /\ snap.policy = Legacy => r.person.department \in LegacyDepartments
       /\ r.flags = [s \in Scope |->
            MemberUnder(snap.policy, s, r.person.department, r.person.role)]

(* A legacy publication is verified in both its scopes, for today's        *)
(* population is drawn from all of it.                                     *)
ReceiptScopes(policy, scope) == IF policy = Legacy THEN Scope ELSE {scope}

RosterReceiptHolds(snap, s) ==
  Receipt(ScopeRows(snap.rows, s), snap.diagnostic, {}, {}).roster = snap.receipt[s].roster
ContentReceiptHolds(snap, s) ==
  Receipt(ScopeRows(snap.rows, s), snap.diagnostic, SnapshotLabels(snap), snap.status[s])
    = snap.receipt[s]

NewsReads(snap, scope) ==
  /\ snap.rows # {} /\ FlagsValid(snap)
  /\ \A s \in ReceiptScopes(snap.policy, scope) : RosterReceiptHolds(snap, s)
AnalyticsReads(snap, scope) ==
  /\ snap.rows # {} /\ FlagsValid(snap)
  /\ SnapshotLabels(snap) = EligibleLabels(SnapshotLabels(snap))
  /\ \A s \in ReceiptScopes(snap.policy, scope) : ContentReceiptHolds(snap, s)

PopulationAsPublished(snap, scope) == ScopeRows(snap.rows, scope)
Population(snap, scope) ==
  {Canonical(p) : p \in {p \in People(snap) :
     p.active /\ Member(scope, CanonicalDepartment(p.department), p.role)}}

(* The label diagnostics of an answer: a legacy global answer carries      *)
(* those of the scope its population is drawn from.                        *)
AnswerStatus(snap, scope) ==
  IF snap.policy = Legacy THEN snap.status["user_map"] ELSE snap.status[scope]

(* Which members a summary cohort keeps.                                   *)
Cohort(people, cohort) ==
  {p \in people : /\ Member("global", p.department, p.role)
                  /\ cohort = "all" \/ p.department = [dm |-> "MR(DM)", hcs |-> "MR(HCS)"][cohort]}

----------------------------------------------------------------------------
RosterInit ==
  /\ documents = {} /\ catalog = {} /\ release = Legacy
  /\ snapshot = Project(Legacy, {}, {}, TRUE) /\ source = {}

(* Any document or label is written or removed; those of the new release   *)
(* are not written before it.                                              *)
Edit ==
  \E d \in Document :
    /\ release = Legacy => d.department \in LegacyDepartments \cup {Invalid}
    /\ documents' \in {documents \ {d}, {o \in documents : o.doc # d.doc} \cup {d}}
    /\ documents' # documents /\ UNCHANGED <<catalog, release, snapshot, source>>
EditLabel ==
  \E l \in LabelDocument :
    /\ catalog' \in {catalog \ {l}, catalog \cup {l}} /\ catalog' # catalog
    /\ UNCHANGED <<documents, release, snapshot, source>>

PublishRoster ==
  \E available \in BOOLEAN :
    /\ snapshot' = Project(release, documents, catalog, available)
    /\ source' = documents
    /\ UNCHANGED <<documents, catalog, release>>

Upgrade ==
  /\ release = Legacy /\ release' = Current
  /\ UNCHANGED <<documents, catalog, snapshot, source>>

RosterNext == Edit \/ EditLabel \/ PublishRoster \/ Upgrade

RosterSpec == RosterInit /\ [][RosterNext]_rosterVars

RosterTypeOK ==
  /\ documents \subseteq Document /\ catalog \subseteq LabelDocument
  /\ release \in {Legacy, Current}
  /\ source \subseteq Document /\ snapshot.policy \in {Legacy, Current}

----------------------------------------------------------------------------
(* Properties.                                                             *)

(* Both services accept every snapshot that a publisher, of this release   *)
(* or of the one before, wrote from any directory with someone eligible:   *)
(* rows read back as documents are safe again, flags and receipts agree.   *)
(* (project_user_scope against _roster_snapshot and published_roster)      *)
SnapshotsReadable ==
  Eligible(source) # {} =>
    \A s \in Scope : NewsReads(snapshot, s) /\ AnalyticsReads(snapshot, s)

(* The population is the members, under today's policy, among the          *)
(* documents that were safe, whichever release wrote them; and no key of   *)
(* a member is in another document of that directory, safe or not.         *)
PopulationIsSafe ==
  \A s \in Scope :
      /\ {p.id : p \in Population(snapshot, s)} =
           {d.doc : d \in {d \in Eligible(source) :
              d.active /\ Member(s, CanonicalDepartment(d.department), d.role)}}
      /\ \A p \in Population(snapshot, s), d \in source :
           d.doc # p.id => d.email # p.email /\ (p.user # Blank => d.user # p.user)
      /\ Cohort(Population(snapshot, "user_map"), "dm")
           \cup Cohort(Population(snapshot, "user_map"), "hcs") = Population(snapshot, "global")

(* A receipt that two snapshots share stands for one presentation: what an *)
(* answer shows of a scope, people, labels and diagnostics, is in it.      *)
(* (roster_fingerprint, content_fingerprint)                               *)
ReceiptsIdentifyContent ==
  snapshot.policy = Current =>
    LET other == Project(Current, documents, catalog, TRUE)
    IN \A s \in Scope :
         snapshot.receipt[s] = other.receipt[s] =>
           /\ {[p EXCEPT !.user = Blank] : p \in Population(snapshot, s)}
                = {[p EXCEPT !.user = Blank] : p \in Population(other, s)}
           /\ AnswerStatus(snapshot, s) = AnswerStatus(other, s)

(* All three of every reachable snapshot.                                  *)
RosterReceiptsHold == SnapshotsReadable /\ PopulationIsSafe /\ ReceiptsIdentifyContent
=============================================================================
