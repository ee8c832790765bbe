----------------------------- MODULE MCReports ------------------------------
(* Data for the readers of the publications: the directory, the questions  *)
(* and the News events that may be published, and what may be asked.       *)
EXTENDS MCPublishedReads, PublishedAnswers

----------------------------------------------------------------------------
(* Rows of the publications.  p3 is a headquarters member, p2 moves from   *)
(* west to another role, and p3 may leave the roster.                      *)

Person(id, area, role, cohort) ==
  [id |-> id, area |-> area, role |-> role, cohort |-> cohort, words |-> {id, area}]
MemberSets ==
  {{Person("p1", "east", "r1", "dm"), Person("p2", "west", "r1", "hcs"),
    Person("p3", "east", "r2", "hq")},
   {Person("p1", "west", "r1", "dm"), Person("p2", "west", "r2", "dm")}}

(* 1 and 6 are of the history, 3 and 5 were logged late or early, 7 is not *)
(* a valid question.                                                       *)
Asked(id, person, at, logged, valid, historical, delivery, product, found, tasks) ==
  [id |-> id, person |-> person, at |-> at, logged |-> logged, valid |-> valid,
   historical |-> historical, delivery |-> delivery, product |-> product,
   candidates |-> found[1], resolved |-> found[2], tasks |-> tasks,
   category |-> IF historical THEN "" ELSE "c1",
   device |-> IF historical THEN "" ELSE "desktop"]
Questions == {
  Asked(1, "p1", 1, 1, TRUE, TRUE, "", "", <<0, 0>>, {}),
  Asked(2, "p1", 4, 4, TRUE, FALSE, "complete", "x", <<2, 1>>, {"t1", "t2"}),
  Asked(3, "p1", 9, 9, TRUE, FALSE, "", "", <<0, 0>>, {"t1"}),
  Asked(4, "p2", 5, 5, TRUE, FALSE, "failed", "y", <<1, 1>>, {}),
  Asked(5, "p2", 8, 7, TRUE, FALSE, "complete", "x", <<1, 0>>, {"t1"}),
  Asked(6, "p3", 7, 7, TRUE, TRUE, "", "", <<0, 0>>, {}),
  Asked(7, "p1", 5, 5, FALSE, FALSE, "complete", "x", <<2, 1>>, {"t1"})}
Windows == {<<0, 4>>, <<4, 8>>, <<5, 8>>, <<0, 8>>, <<3, 10>>, <<6, 12>>, <<0, 12>>}

(* 1 and 2 are one export started twice, 3 and 4 its two ends, 6 a click   *)
(* of two news items under one event id, 8 an end without a start, 9 an    *)
(* end that names no operation.                                            *)
Event(id, person, at, logged, name, channel, op, unit, context) ==
  [id |-> id, person |-> person, at |-> at, logged |-> logged, name |-> name,
   channel |-> channel, op |-> op, unit |-> unit,
   filter |-> IF name = "export_started" THEN {"u1"} ELSE {},
   snapshot |-> name = "export_started", context |-> context,
   article |-> IF unit = "" THEN "" ELSE "x"]
Deliveries == {
  Event(1, "p1", 2, 2, "export_started", "news", "o1", "", ""),
  Event(2, "p1", 3, 3, "export_started", "news", "o1", "", ""),
  Event(3, "p1", 3, 3, "export_finished", "news", "o1", "", "download_handed_off"),
  Event(4, "p1", 4, 4, "export_finished", "news", "o1", "", "failed"),
  Event(5, "p2", 4, 3, "tab_view", "society", "", "", ""),
  Event(6, "p1", 2, 2, "outbound_click", "news", "", "u1", "primary"),
  Event(6, "p1", 2, 2, "outbound_click", "news", "", "u2", "primary"),
  Event(7, "p3", 3, 3, "detail_view", "society", "", "u2", ""),
  Event(8, "p2", 4, 4, "export_finished", "news", "o2", "", "failed"),
  Event(9, "p2", 3, 3, "export_finished", "news", "", "", "failed")}
Query(w, scope, cohort, area, unit, word) ==
  [from |-> w[1], to |-> w[2], scope |-> scope, cohort |-> cohort, area |-> area,
   person |-> "*", channel |-> "*", unit |-> unit, word |-> word]
Requests ==
  {Query(w, s, "*", "*", "*", "*") :
     w \in {<<0, 4>>, <<2, 6>>, <<3, 5>>}, s \in {"global", "user_map"}}
  \cup {Query(<<1, 6>>, "global", "dm", "*", "*", "*"),
        Query(<<1, 6>>, "global", "*", "west", "*", "*"),
        Query(<<1, 6>>, "user_map", "*", "*", "u1", "*"),
        Query(<<1, 4>>, "global", "*", "*", "u2", "*"),
        Query(<<1, 6>>, "global", "*", "*", "*", "x"),
        Query(<<2, 5>>, "global", "*", "*", "*", "west"),
        [Query(<<1, 6>>, "user_map", "*", "*", "*", "*") EXCEPT !.person = "p3"]}

(* Two versions of three documents: one takes another's identity, one      *)
(* leaves with a department the release before wrote; two labels share a   *)
(* name.                                                                   *)
Doc(doc, id, email, user, area, department, role, enabled, labels) ==
  [doc |-> doc, id |-> id, email |-> email, user |-> user, area |-> area,
   department |-> department, role |-> role, active |-> enabled, labels |-> labels]
Documents == {
  Doc("u1", "u1", "e1", "c1", "east", "DM", "employee", TRUE, {"l1"}),
  Doc("u1", "u1", "e1", "", "east", "MR(DM)", "contract", TRUE, {"l1", "l2"}),
  Doc("u2", "u2", "e2", "", "west", "HQ", "headquarters", TRUE, {}),
  Doc("u2", "u1", "e1", "", "west", "HQ", "headquarters", TRUE, {}),
  Doc("u3", "u3", "e3", "c1", "west", "MR(HCS)", "contract", TRUE, {"l2"}),
  Doc("u3", "u3", "e3", "", "west", "DM", "contract", FALSE, {"l1"})}
Labels == {[id |-> "l1", name |-> "n1", valid |-> TRUE],
           [id |-> "l2", name |-> "n1", valid |-> TRUE]}

----------------------------------------------------------------------------
(* What the theorems about the roster assume of its documents.             *)
ASSUME DocumentsAssumption == RosterAssumption
=============================================================================
