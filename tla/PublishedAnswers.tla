--------------------------- MODULE PublishedAnswers ---------------------------
(* What the readers of the publications answer: the requests that race the *)
(* two publishers, as pages and as exports, and the three computations     *)
(* over one publication - the analytics, the News usage and the roster     *)
(* snapshot.  Each behaviour runs one of them, chosen at the start, and    *)
(* leaves the variables of the others where they begin.                    *)
EXTENDS ExportJobs, RosterSnapshot, AnalyticsReport, NewsReport

CONSTANT MaxExportChat   \* bound: publications during an export
VARIABLE active          \* the part this behaviour runs

ReportsInit ==
  /\ active \in {"reads", "exports", "analytics", "news", "roster"}
  /\ ExportInit /\ AnalyticsReportInit /\ NewsReportInit /\ RosterInit

(* An export is an analytics request: News has no part in it.              *)
ExportsNext ==
  ExportNext /\ chat' <= MaxExportChat /\ news' = news /\ plan' = plan

ReportsNext ==
  \/ /\ active = "reads" /\ Next
     /\ UNCHANGED <<active, exports, analyticsVars, newsVars, rosterVars>>
  \/ /\ active = "exports" /\ ExportsNext
     /\ UNCHANGED <<active, analyticsVars, newsVars, rosterVars>>
  \/ /\ active = "analytics" /\ AnalyticsReportNext
     /\ UNCHANGED <<active, vars, exports, newsVars, rosterVars>>
  \/ /\ active = "news" /\ NewsReportNext
     /\ UNCHANGED <<active, vars, exports, analyticsVars, rosterVars>>
  \/ /\ active = "roster" /\ RosterNext
     /\ UNCHANGED <<active, vars, exports, analyticsVars, newsVars>>

ReportsSpec ==
  ReportsInit /\ [][ReportsNext]_<<active, vars, exports, analyticsVars, newsVars, rosterVars>>

(* The variables of every part keep their types.                           *)
ReportsTypeOK ==
  ExportTypeOK /\ AnalyticsReportTypeOK /\ NewsReportTypeOK /\ RosterTypeOK
=============================================================================
