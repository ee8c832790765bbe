--------------------------- MODULE AnalyticsReport ---------------------------
(***************************************************************************)
(* What the analytics API computes from one publication.  The overview,    *)
(* the regions, the user lists, a user's detail and the usage panels are   *)
(* separate requests, each with its own queries and passes over the rows;  *)
(* the browser shows them side by side.                                    *)
(*                                                                         *)
(* A question carries its answer's measurements.  An axis of a question is *)
(* Blank while it is not measured.                                         *)
(***************************************************************************)
EXTENDS Integers, FiniteSets, Functions

CONSTANTS
  Question,     \* question rows that may be published
  Rosters,      \* roster snapshots: sets of [id, area, role, cohort]
  Window,       \* pairs <<from, to>> that may be asked for
  HourLength, DayLength,  \* instants in an hour and in a day
  ActivityDays, High, Middle, \* days an activity level looks at; its limits
  MaxTime,      \* bound: time
  All, Unmeasured \* no selection; no value

(* A day has whole hours, ids of people are unique, and the word for no    *)
(* selection is no area.                                                   *)
ASSUME AnalyticsAssumption ==
  /\ MaxTime \in Nat /\ IsFiniteSet(Question)
  /\ \A e \in Question : e.at \in Nat /\ e.logged \in Nat
  /\ \A people \in Rosters :
       /\ IsFiniteSet(people)
       /\ \A p, o \in people : p.area # All /\ (p.id = o.id => p = o)
  /\ \A w \in Window : w[1] \in Nat /\ w[2] \in Nat
  /\ HourLength \in Nat \ {0} /\ ActivityDays \in Nat \ {0}
  /\ DayLength \in Nat /\ \E hours \in 1..DayLength : DayLength = HourLength * hours
  /\ All \notin {"high", "middle", "low", "dormant"}

VARIABLES
  asked,        \* question rows of the publication
  reached,      \* data_through
  members       \* its roster snapshot

analyticsVars == <<asked, reached, members>>

AnalyticsReportTypeOK ==
  /\ asked \subseteq Question /\ reached \in 0..MaxTime
  /\ members \in {{}} \cup Rosters
  /\ \A e \in asked : e.logged < reached

AnalyticsReportInit == asked = {} /\ reached = 0 /\ members = {}

(* A publication adds the questions logged since, some of them late.       *)
AnalyticsReportNext ==
  \E t \in reached + 1..MaxTime, people \in Rosters :
    \E batch \in SUBSET {e \in Question \ asked : e.logged < t} :
      asked' = asked \cup batch /\ reached' = t /\ members' = people

AnalyticsReportSpec == AnalyticsReportInit /\ [][AnalyticsReportNext]_analyticsVars

Lower(a, b) == IF a < b THEN a ELSE b
Date(t) == t \div DayLength
HourOf(t) == (t % DayLength) \div HourLength

----------------------------------------------------------------------------
(* Reads.                                                                  *)

InScope(p, scope)   == scope = "user_map" \/ p.cohort # "hq"
InCohort(p, cohort) == cohort \in {All, p.cohort}
Selected(scope, cohort, area) ==
  {p \in members : InScope(p, scope) /\ InCohort(p, cohort) /\ area \in {All, p.area}}
Ids(people) == {p.id : p \in people}

(* dashboard_events_v2 joins the roster of the run: no area for outsiders. *)
AreaOf(id) ==
  IF id \in Ids(members) THEN (CHOOSE p \in members : p.id = id).area ELSE Unmeasured

OverviewEvents(w, area) ==
  {e \in asked : /\ e.valid /\ w[1] <= e.at /\ e.at < w[2]
                 /\ area \in {All, AreaOf(e.person)}}
ActivityEvents(end, area) ==
  OverviewEvents(<<end - ActivityDays * DayLength, end>>, area)
UserDetailEvents(w, id) == {e \in OverviewEvents(w, All) : e.person = id}

EventsOf(people, w, area) ==
  {e \in OverviewEvents(w, area) : e.person \in Ids(people)}

----------------------------------------------------------------------------
(* Measurements.                                                           *)

MeasurementState(measured, total) ==
  IF total = 0 THEN "no_usage" ELSE IF measured = 0 THEN "not_measured"
  ELSE IF measured < total THEN "partial" ELSE "measured"

(* Gaps are the kinds of what was not measured.                            *)
MeasurementReason(measured, total, gaps) ==
  IF total = 0 THEN "no_usage" ELSE IF measured >= total THEN "complete"
  ELSE CASE gaps = {"no_usage"} -> "population_without_usage"
         [] "no_usage" \in gaps /\ gaps # {"no_usage"} -> "mixed_no_usage_and_data_gap"
         [] gaps = {"history", "current"} -> "mixed_history_and_current_gap"
         [] gaps = {"history"} -> "historical_unavailable"
         [] OTHER -> "current_data_gap"

Gap(e) == IF e.historical THEN "history" ELSE "current"
GapsOfReason(reason) ==
  CASE reason \in {"no_usage", "population_without_usage"} -> {"no_usage"}
    [] reason = "historical_unavailable" -> {"history"}
    [] reason = "current_data_gap" -> {"current"}
    [] reason = "mixed_history_and_current_gap" -> {"history", "current"}
    [] OTHER -> {}

Coverage(rows, Measured(_)) ==
  LET measured == {e \in rows : Measured(e)}
  IN [measured |-> Cardinality(measured), total |-> Cardinality(rows),
      state |-> MeasurementState(Cardinality(measured), Cardinality(rows)),
      reason |-> MeasurementReason(Cardinality(measured), Cardinality(rows),
                                   {Gap(e) : e \in rows \ measured})]

CompleteDelivery(rows) ==
  [complete |-> Cardinality({e \in rows : e.delivery = "complete"}),
   coverage |-> Coverage(rows, LAMBDA e : e.delivery # Unmeasured)]

(* The three axes whose rows an answer isolates when they are unmeasured.  *)
Quality(rows) ==
  [classification |-> Coverage(rows, LAMBDA e : e.category # Unmeasured),
   task |-> Coverage(rows, LAMBDA e : e.tasks # {}),
   product |-> Coverage(rows, LAMBDA e : e.product # Unmeasured),
   isolated |->
     Cardinality({e \in rows : Unmeasured \in {e.category, e.product} \/ e.tasks = {}})]

(* How often each measured value of an axis was used.                      *)
Known(value) == {value} \ {Unmeasured}
Distribution(rows, Values(_)) ==
  [v \in UNION {Values(e) : e \in rows} |->
     Cardinality({e \in rows : v \in Values(e)})]

----------------------------------------------------------------------------
(* Axes.                                                                   *)

LocalDates(from, to) == Date(from)..Date(to - 1)
EffectiveEnd(w) == Lower(w[2], reached)
PublishedDates(w) ==
  IF EffectiveEnd(w) <= w[1] THEN {} ELSE LocalDates(w[1], EffectiveEnd(w))

(* Of one day only the hours that begin in the window, of more days all.   *)
PublishedHours(w) ==
  IF EffectiveEnd(w) <= w[1] THEN {}
  ELSE IF Cardinality(PublishedDates(w)) > 1 THEN 0..(DayLength \div HourLength) - 1
  ELSE {HourOf(t) : t \in {t \in w[1]..EffectiveEnd(w) - 1 : t % HourLength = 0}}

PartialDate(w) ==
  IF reached >= w[2] \/ reached <= w[1] \/ reached % DayLength = 0 THEN {}
  ELSE {Date(reached)}

UsageAxes(rows, w) ==
  [trend |-> [d \in PublishedDates(w) |->
     LET day == {e \in rows : Date(e.at) = d}
     IN [questions |-> Cardinality(day), users |-> Cardinality({e.person : e \in day})]],
   partial |-> PartialDate(w),
   hours |-> [h \in PublishedHours(w) |-> Cardinality({e \in rows : HourOf(e.at) = h})],
   devices |-> Distribution(rows, LAMBDA e : Known(e.device)),
   tasks |-> Distribution(rows, LAMBDA e : e.tasks),
   measured |-> Coverage(rows, LAMBDA e : e.device # Unmeasured)]

DaysOf(rows) == {Date(e.at) : e \in rows}
By(rows, id) == {e \in rows : e.person = id}
Returning(rows) ==
  Cardinality({id \in {e.person : e \in rows} : Cardinality(DaysOf(By(rows, id))) >= 2})

(* Mutant: the end itself counted as a day asked about. *)
ActiveDaysOneShort(rows, end) ==
  {d \in DaysOf(rows) : Date(end) - d \in 0..ActivityDays - 1}
ActiveDays(rows, end) ==
  {d \in DaysOf(rows) : Date(end - 1) - d \in 0..ActivityDays - 1}
ActivityLevel(rows, end) ==
  LET days == Cardinality(ActiveDays(rows, end))
  IN IF days >= High THEN "high" ELSE IF days >= Middle THEN "middle"
     ELSE IF days >= 1 THEN "low" ELSE "dormant"
Level == {"high", "middle", "low", "dormant"}

Activity(people, levels) ==
  [l \in Level |-> Cardinality({p \in people : levels[p.id] = l})]
Levels(people, w, area) ==
  [id \in Ids(people) |->
     ActivityLevel(By(ActivityEvents(w[2], area), id), w[2])]

----------------------------------------------------------------------------
(* The answers.                                                            *)

UsagePanel(w, area, cohort) ==
  LET people == Selected("global", cohort, area)
  IN [scope |-> Cardinality(people), axes |-> UsageAxes(EventsOf(people, w, area), w)]

Products(rows) ==
  LET measured == {e \in rows : e.product # Unmeasured}
  IN [top |-> Distribution(measured, LAMBDA e : Known(e.product)),
      matrix |-> Distribution(measured, LAMBDA e : {<<e.product, t>> : t \in e.tasks}),
      candidates |-> SumFunction([e \in measured |-> e.candidates]),
      resolved |-> SumFunction([e \in measured |-> e.resolved]),
      unresolved |-> Cardinality({e \in measured : e.resolved < e.candidates}),
      coverage |-> Coverage(rows, LAMBDA e : e.product # Unmeasured)]

Overview(w, area, cohort) ==
  LET people == Selected("global", cohort, area)
      rows   == EventsOf(people, w, area)
      levels == Levels(people, w, area)
  IN [scope |-> Cardinality(people), questions |-> Cardinality(rows),
      active |-> Cardinality({e.person : e \in rows}), returning |-> Returning(rows),
      delivery |-> CompleteDelivery(rows), quality |-> Quality(rows),
      axes |-> UsageAxes(rows, w), products |-> Products(rows),
      activity |-> Activity(people, levels),
      byArea |-> [a \in {p.area : p \in people} |->
                    Activity({p \in people : p.area = a}, levels)],
      byRole |-> [r \in {p.role : p \in people} |->
                    Activity({p \in people : p.role = r}, levels)]]

Regions(w, cohort) ==
  LET people == Selected("global", cohort, All)
      rows   == EventsOf(people, w, All)
  IN [a \in {p.area : p \in people} |->
       LET here == {e \in rows : AreaOf(e.person) = a}
       IN [scope |-> Cardinality({p \in people : p.area = a}),
           questions |-> Cardinality(here),
           active |-> Cardinality({e.person : e \in here}), returning |-> Returning(here)]]

(* The last question of a person before the end, ever: none or one.        *)
LastActive(id, end) ==
  LET past == {e.at : e \in {e \in asked : e.valid /\ e.person = id /\ e.at < end}}
  IN {t \in past : \A o \in past : o <= t}

UsersOf(scope, w, area, cohort, activity) ==
  LET people == Selected(scope, IF scope = "global" THEN cohort ELSE All, area)
      levels == Levels(people, w, area)
  IN [id \in {p.id : p \in {p \in people : activity \in {All, levels[p.id]}}} |->
       LET rows == By(EventsOf(people, w, area), id)
       IN [questions |-> Cardinality(rows), days |-> Cardinality(DaysOf(rows)),
           delivery |-> CompleteDelivery(rows), activity |-> levels[id],
           last |-> LastActive(id, w[2])]]

(* The others of the user map who share a field with the user.             *)
PeerComparison(p, w, Field(_)) ==
  LET peers == {o \in Selected("user_map", All, All) : o.id # p.id /\ Field(o) = Field(p)}
      rows(o) == By(OverviewEvents(w, All), o.id)
      measured == {o \in peers : CompleteDelivery(rows(o)).coverage.measured > 0}
      gaps == UNION {GapsOfReason(CompleteDelivery(rows(o)).coverage.reason) :
                       o \in peers \ measured}
  IN [peers |-> Cardinality(peers),
      questions |-> SumFunction([o \in peers |-> Cardinality(rows(o))]),
      measured |-> Cardinality(measured),
      state |-> MeasurementState(Cardinality(measured), Cardinality(peers)),
      reason |-> MeasurementReason(Cardinality(measured), Cardinality(peers), gaps)]

UserDetail(p, w) ==
  LET rows == UserDetailEvents(w, p.id)
  IN [questions |-> Cardinality(rows), days |-> Cardinality(DaysOf(rows)),
      delivery |-> CompleteDelivery(rows), quality |-> Quality(rows),
      products |-> Products(rows),
      trend |-> [d \in PublishedDates(w) |-> Cardinality({e \in rows : Date(e.at) = d})],
      categories |-> Distribution(rows, LAMBDA e : Known(e.category)),
      last |-> LastActive(p.id, w[2]),
      area |-> PeerComparison(p, w, LAMBDA o : o.area),
      role |-> PeerComparison(p, w, LAMBDA o : o.role)]

----------------------------------------------------------------------------
(* Properties.                                                             *)

Sum(f, Value(_)) == SumFunction([k \in DOMAIN f |-> Value(f[k])])

(* Regions, user list and, when an area is selected, the overview of each  *)
(* area add up to the overview; activity is the same by area and by role.  *)
PartsAddUp(w, cohort) ==
  LET o == Overview(w, All, cohort)
      regions == Regions(w, cohort)
      users == UsersOf("global", w, All, cohort, All)
  IN /\ Sum(regions, LAMBDA r : r.questions) = o.questions
     /\ Sum(regions, LAMBDA r : r.active) = o.active
     /\ Sum(regions, LAMBDA r : r.returning) = o.returning
     /\ Sum(users, LAMBDA u : u.questions) = o.questions
     /\ Sum(users, LAMBDA u : u.delivery.complete) = o.delivery.complete
     /\ Sum(users, LAMBDA u : u.delivery.coverage.measured) = o.delivery.coverage.measured
     /\ Cardinality({id \in DOMAIN users : users[id].questions > 0}) = o.active
     /\ Cardinality({id \in DOMAIN users : users[id].days >= 2}) = o.returning
     /\ \A a \in DOMAIN regions :
          LET part == Overview(w, a, cohort)
          IN /\ regions[a] = [scope |-> part.scope, questions |-> part.questions,
                              active |-> part.active, returning |-> part.returning]
             /\ part.activity = o.byArea[a]
     /\ \A l \in Level :
          /\ Sum(o.byArea, LAMBDA n : n[l]) = o.activity[l]
          /\ Sum(o.byRole, LAMBDA n : n[l]) = o.activity[l]
          /\ Cardinality(DOMAIN UsersOf("global", w, All, cohort, l)) = o.activity[l]
     /\ UsagePanel(w, All, cohort).axes = o.axes

(* A user's detail and the row of that user in either list are the same    *)
(* facts, and with the peers' they are those of the whole area.            *)
DetailAgrees(w) ==
  \A p \in members :
    LET d == UserDetail(p, w)
        row == UsersOf("user_map", w, All, All, All)[p.id]
    IN /\ row.questions = d.questions /\ row.days = d.days
       /\ row.delivery = d.delivery /\ row.last = d.last
       /\ d.questions > 0 => \E t \in d.last : w[1] <= t /\ t < w[2]
       /\ d.questions + d.area.questions =
            Cardinality(EventsOf(Selected("user_map", All, p.area), w, All))
       /\ d.area.reason = "complete" => d.area.state = "measured"

(* A chart leaves out no question of the published period, except that a   *)
(* window of one day starting inside an hour loses that hour's.            *)
ChartsCover(w, cohort) ==
  LET rows == EventsOf(Selected("global", cohort, All), w, All)
      axes == UsageAxes(rows, w)
      charted == {e \in rows : Date(e.at) \in DOMAIN axes.trend}
      timed == {e \in rows : HourOf(e.at) \in DOMAIN axes.hours}
  IN /\ Sum(axes.trend, LAMBDA d : d.questions) = Cardinality(charted)
     /\ \A e \in rows \ charted : e.at >= reached
     /\ Sum(axes.hours, LAMBDA n : n) = Cardinality(timed)
     /\ \A e \in rows \ timed :
          \/ e.at >= reached
          \/ w[1] % HourLength # 0 /\ HourOf(e.at) = HourOf(w[1])

(* The level has reads and a period of its own: who asked within as many   *)
(* dates as it looks at is not dormant.                                    *)
LevelsFollowUse(w, cohort) ==
  LET users == UsersOf("global", w, All, cohort, All)
  IN Cardinality(LocalDates(w[1], w[2])) <= ActivityDays =>
       \A id \in DOMAIN users :
         users[id].questions > 0 => users[id].activity # "dormant"

(* Once there is a publication, its views agree, for every window and      *)
(* cohort.  (overview, regions, users, user_detail, the usage panels)      *)
ViewsAgree ==
  reached > 0 => \A w \in Window :
    /\ DetailAgrees(w)
    /\ \A c \in {All, "dm"} : PartsAddUp(w, c) /\ ChartsCover(w, c) /\ LevelsFollowUse(w, c)
=============================================================================
