----------------------------- MODULE NewsReport -----------------------------
(***************************************************************************)
(* What the News API computes from one publication: the usage report, with *)
(* its totals, trend, articles, exports and organizations, and the         *)
(* dashboard cards, each by its own passes over the rows.                  *)
(*                                                                         *)
(* Rows are admitted by the time the log recorded them and placed by the   *)
(* time the browser stamped, which may be Tolerance ahead; the same event  *)
(* or terminal may be delivered more than once.  A unit stands for every   *)
(* content dimension (business unit, geography, category, society), a word *)
(* for a search text, context for a trigger, link kind or result.          *)
(***************************************************************************)
EXTENDS Integers, FiniteSets, Functions

CONSTANTS
  Delivery,     \* deliveries the log may hold
  PinnedRosters,      \* snapshots it may pin: sets of [id, area, cohort, words]
  Request,      \* what the API may be asked
  Measured,     \* measurement_start_at
  NewsDayLength, MaxNewsTime, \* instants in a day; bound: time
  MaxPopular,   \* MAX_POPULAR_ARTICLES
  NoChoice, NoValue \* no selection; no value

Exporting == {"export_started", "export_finished"}

(* What the log and the API may be given.  The rows of one export carry    *)
(* the unit and the title of that export, and the same filters when they   *)
(* carry a snapshot; ids of people are unique; a filter that selects       *)
(* nothing is no area.                                                     *)
ASSUME NewsReportAssumption ==
  /\ Measured \in Nat /\ MaxNewsTime \in Nat /\ MaxPopular \in Nat
  /\ NewsDayLength \in Nat \ {0} /\ NoValue \notin {"news", "society"}
  /\ IsFiniteSet(Delivery)
  /\ \A e \in Delivery :
       /\ e.id \in Nat /\ e.at \in Nat /\ e.logged \in Nat
       /\ e = [id |-> e.id, person |-> e.person, at |-> e.at, logged |-> e.logged,
               name |-> e.name, channel |-> e.channel, op |-> e.op, unit |-> e.unit,
               filter |-> e.filter, snapshot |-> e.snapshot, context |-> e.context,
               article |-> e.article]
  /\ \A e, f \in Delivery :
       /\ e.name \in Exporting /\ f.name \in Exporting
       /\ <<e.person, e.channel, e.op>> = <<f.person, f.channel, f.op>>
       => /\ e.unit = f.unit /\ e.article = f.article
          /\ e.snapshot /\ f.snapshot => e.filter = f.filter
  /\ \A people \in PinnedRosters :
       /\ IsFiniteSet(people)
       /\ \A p, o \in people : p.area # NoChoice /\ (p.id = o.id => p = o)
  /\ \A q \in Request :
       /\ q.from \in Nat /\ q.to \in Nat
       /\ q = [from |-> q.from, to |-> q.to, scope |-> q.scope, cohort |-> q.cohort,
               area |-> q.area, person |-> q.person, channel |-> q.channel,
               unit |-> q.unit, word |-> q.word]

VARIABLES
  published,    \* rows of news_usage_events
  through,      \* data_through of the publication, 0 before the first
  roster        \* the roster snapshot it pins

newsVars == <<published, through, roster>>

NewsReportTypeOK ==
  /\ published \subseteq Delivery /\ roster \in {{}} \cup PinnedRosters
  /\ through \in {0} \cup Measured..MaxNewsTime
  /\ \A e, f \in published : e.id = f.id => e = f
  /\ \A e \in published :
       /\ e.at >= Measured /\ e.channel \in {"news", "society"} /\ e.logged < through
       /\ e.name \in Exporting => e.op # NoValue
       /\ e.name = "export_started" => e.snapshot

NewsReportInit == published = {} /\ through = 0 /\ roster = {}

Larger(a, b)  == IF a > b THEN a ELSE b
Smaller(a, b) == IF a < b THEN a ELSE b
Day(t) == t \div NewsDayLength

----------------------------------------------------------------------------
(* A publication admits the rows logged before its target.                 *)

Operation(e) == <<e.person, e.channel, e.op>>
Finish(e) == e.name = "export_finished"
Before(e, f) == e.at < f.at \/ (e.at = f.at /\ e.id < f.id)

(* A row is quarantined when it lacks what its kind needs, when its        *)
(* identity has another content, or when another terminal of the operation *)
(* is recorded or comes first.                                             *)
Quarantined(e, batch) ==
  \/ e.at < Measured \/ e.channel \notin {"news", "society"}
  \/ e.name \in Exporting /\ e.op = NoValue
  \/ e.name = "export_started" /\ ~e.snapshot
  \/ \E f \in published \cup batch : f.id = e.id /\ f # e
  \/ /\ Finish(e)
     /\ \/ \E f \in published : Finish(f) /\ Operation(f) = Operation(e) /\ f.id # e.id
        \/ \E f \in batch : Finish(f) /\ Operation(f) = Operation(e) /\ Before(f, e)

Publish(t, batch, people) ==
  /\ t > through
  /\ published' = published \cup {e \in batch : ~Quarantined(e, batch)}
  /\ through' = t /\ roster' = people

NewsReportNext ==
  \E t \in Measured..MaxNewsTime, people \in PinnedRosters :
    \E batch \in SUBSET {e \in Delivery \ published : e.logged < t} :
      Publish(t, batch, people)

NewsReportSpec == NewsReportInit /\ [][NewsReportNext]_newsVars

----------------------------------------------------------------------------
(* The rows a request reads.                                               *)

Start(q) == Larger(q.from, Measured)
End(q)   == Smaller(q.to, through)

ForScope(p, q)  == q.scope = "user_map" \/ p.cohort # "hq"
ForCohort(p, q) == q.scope = "user_map" \/ q.cohort \in {NoChoice, p.cohort}
Audience(q) ==
  {p \in roster : ForScope(p, q) /\ ForCohort(p, q) /\ q.area \in {NoChoice, p.area}}
PeopleIds(people) == {p.id : p \in people}
PersonOf(id) == CHOOSE p \in roster : p.id = id

PublishedRows ==
  {e \in published : e.logged < through /\ e.person \in PeopleIds(roster)}
Read(q) ==
  {e \in PublishedRows : /\ q.from <= e.at /\ e.at < q.to
                         /\ ForScope(PersonOf(e.person), q)
                         /\ q.person \in {NoChoice, e.person}
                         /\ q.area \in {NoChoice, PersonOf(e.person).area}}

(* A repeated identity with another content, or a start without operation. *)
Refused(q) ==
  \/ \E e, f \in Read(q) : e.id = f.id /\ e # f
  \/ \E e \in Read(q) : e.name \in Exporting /\ e.op = NoValue

Availability(q) ==
  IF q.to <= Measured THEN "before_measurement"
  ELSE IF through = 0 THEN "never_published"
  ELSE IF through <= Start(q) THEN "window_not_published"
  ELSE IF q.person # NoChoice /\ q.person \notin PeopleIds(Audience(q)) THEN "not_found"
  ELSE IF Refused(q) THEN "refused" ELSE "available"

(* A terminal without filters of its own takes those of the operation's    *)
(* earliest start among the rows read; without a start it stays an orphan. *)
Starts(e, rows) ==
  {s \in rows : s.name = "export_started" /\ Operation(s) = Operation(e)}
Attribute(e, rows) ==
  LET starts == Starts(e, rows)
  IN IF ~Finish(e) \/ e.snapshot \/ starts = {} THEN e
     ELSE [e EXCEPT !.filter =
             (CHOOSE s \in starts : \A o \in starts \ {s} : Before(s, o)).filter]
Attributed(rows) == {Attribute(e, rows) : e \in rows}

Matches(e, q) ==
  /\ q.channel \in {NoChoice, e.channel}
  /\ q.unit \in {NoChoice, e.unit} \cup e.filter
  /\ q.word \in {NoChoice, e.article, e.unit} \cup PersonOf(e.person).words

Matching(rows, q) == {e \in rows : e.person \in PeopleIds(Audience(q)) /\ Matches(e, q)}
AttributeMatching(q) == Attributed(Matching(Read(q), q))
Filtered(q) == Matching(Attributed(Read(q)), q)

Named(rows, name) == {e \in rows : e.name = name}
Users(rows) == {e.person : e \in rows}
Active(rows) ==
  {e \in rows : \/ e.name \in {"tab_view", "filter_change", "detail_view",
                               "outbound_click", "export_started"}
                \/ e.name = "summary_view" /\ e.context = "manual"}

----------------------------------------------------------------------------
(* The sections of the usage report.                                       *)

LastDay(q) == Day(End(q) - 1)
Days(q) == IF End(q) <= Start(q) THEN {} ELSE Day(Start(q))..LastDay(q)

Partial(q, d) == Start(q) > d * NewsDayLength \/ End(q) < (d + 1) * NewsDayLength
Trend(q, rows) ==
  [d \in Days(q) |->
     LET day == {e \in rows : Day(e.at) = d}
         N(name) == Cardinality(Named(day, name))
     IN [users |-> Cardinality(Users(Active(day))), tabs |-> N("tab_view"),
         details |-> N("detail_view"), clicks |-> N("outbound_click"),
         starts |-> N("export_started"), partial |-> Partial(q, d)]]

Counted(rows, Key(_)) ==
  [k \in {Key(e) : e \in rows} \ {NoValue} |->
     LET same == {e \in rows : Key(e) = k}
     IN [actions |-> Cardinality(same), users |-> Cardinality(Users(same))]]

ArticleKey(e) == <<e.article, e.channel, e.unit>>
Articles(rows) ==
  [k \in {ArticleKey(e) : e \in {e \in rows : e.article # NoValue}} |->
     LET same == {e \in rows : ArticleKey(e) = k}
     IN [details |-> Cardinality(Named(same, "detail_view")),
         clicks |-> Cardinality(Named(same, "outbound_click")),
         users |-> Cardinality(Users(same))]]
(* The articles shown: the most viewed, at most MaxPopular of them.        *)
Popular(articles, shown) ==
  /\ shown \subseteq DOMAIN articles
  /\ Cardinality(shown) = Smaller(MaxPopular, Cardinality(DOMAIN articles))
  /\ \A k \in shown, o \in DOMAIN articles \ shown :
       articles[k].details >= articles[o].details

Exports(rows) ==
  LET started  == {Operation(e) : e \in Named(rows, "export_started")}
      finished == {Operation(e) : e \in Named(rows, "export_finished")}
      handed   == {o \in started \cap finished :
                     \E e \in Named(rows, "export_finished") :
                       Operation(e) = o /\ e.context = "download_handed_off"}
  IN [started |-> started, finished |-> finished, pending |-> started \ finished,
      orphans |-> finished \ started, handed |-> handed]

(* With a word, only users it names or with matching rows are listed.      *)
UserRows(q, rows) ==
  [id \in {p.id : p \in {p \in Audience(q) : \/ q.word \in {NoChoice} \cup p.words
                                               \/ p.id \in Users(Active(rows))}} |->
     LET own == {e \in Active(rows) : e.person = id}
     IN [actions |-> Cardinality(own), days |-> Cardinality({Day(e.at) : e \in own})]]

OrganizationRows(q, rows) ==
  [a \in {p.area : p \in Audience(q)} |->
     LET own == {e \in Active(rows) : PersonOf(e.person).area = a}
     IN [scope |-> Cardinality({p \in Audience(q) : p.area = a}),
         users |-> Cardinality(Users(own)), actions |-> Cardinality(own)]]

Report(q) ==
  LET rows == Filtered(q)
  IN [kpis |-> [scope |-> Cardinality(Audience(q)),
                users |-> Cardinality(Users(Active(rows))),
                actions |-> Cardinality(Active(rows)),
                tabs |-> Cardinality(Named(rows, "tab_view")),
                details |-> Cardinality(Named(rows, "detail_view")),
                clicks |-> Cardinality(Named(rows, "outbound_click"))],
      trend |-> Trend(q, rows),
      byChannel |-> Counted(Named(rows, "tab_view"), LAMBDA e : e.channel),
      byLink |-> Counted(Named(rows, "outbound_click"), LAMBDA e : e.context),
      articles |-> Articles(Named(rows, "detail_view") \cup Named(rows, "outbound_click")),
      exports |-> Exports(rows),
      users |-> UserRows(q, rows), regions |-> OrganizationRows(q, rows)]

(* The values each filter offers come from every row of the population.    *)
FilterOptions(q) ==
  UNION {{e.unit} \cup e.filter :
           e \in {e \in Attributed(Read(q)) : e.person \in PeopleIds(Audience(q))}} \ {NoValue}

----------------------------------------------------------------------------
(* The dashboard cards, for the scope or for one person.                   *)

Clicked(e) == \/ e.name = "detail_view"
              \/ e.name = "outbound_click" /\ e.context = "primary"

Dashboard(q) ==
  LET rows   == {e \in Filtered(q) : Start(q) <= e.at /\ e.at < End(q)}
      clicks == {e \in rows : Clicked(e)}
      In(set, channel) == {e \in set : e.channel = channel}
      N(set) == [tabs |-> Cardinality(Named(set, "tab_view")),
                 clicks |-> Cardinality({e \in set : Clicked(e)})]
  IN [totals |-> N(rows),
      channels |-> [c \in {"news", "society"} |-> N(In(rows, c))],
      days |-> [d \in Days(q) |-> N({e \in rows : Day(e.at) = d})],
      placed |-> {Day(e.at) : e \in rows},
      categories |-> [c \in {"news", "society"} |->
        [k \in {e.unit : e \in In(clicks, c)} |->
           Cardinality({e \in In(clicks, c) : e.unit = k})]]]

----------------------------------------------------------------------------
(* Properties.                                                             *)

Total(f, Value(_)) == SumFunction([k \in DOMAIN f |-> Value(f[k])])

(* Selecting filters never turns a finished export into a pending one: an  *)
(* operation of the report waits for its result exactly when no terminal   *)
(* of it was read, and its terminal is shown under the filters of its      *)
(* start.  (_attribute_export_terminals before _matches, _aggregate)       *)
ResultsFollowStarts(q) ==
  LET all == Exports(Attributed(Read(q))) own == Report(q).exports
  IN own.pending = own.started \ all.finished

(* The sections are computed apart and agree: users and regions add up to  *)
(* the actions and the active users; channels to the tab views; articles,  *)
(* when none is cut, to the detail views and clicks that name one; the     *)
(* days of the trend to every row but those stamped on a day that the      *)
(* publication has not reached.  (_aggregate, _trend, _article_rows)       *)
SectionsAgree(q) ==
  LET r == Report(q) rows == Filtered(q)
      reached == {e \in rows : Day(e.at) \in Days(q)}
      titled == {e \in rows : e.article # NoValue}
  IN /\ Total(r.users, LAMBDA u : u.actions) = r.kpis.actions
     /\ Cardinality({u \in DOMAIN r.users : r.users[u].actions > 0}) = r.kpis.users
     /\ Total(r.regions, LAMBDA a : a.actions) = r.kpis.actions
     /\ Total(r.regions, LAMBDA a : a.users) = r.kpis.users
     /\ Total(r.regions, LAMBDA a : a.scope) = r.kpis.scope
     /\ Total(r.byChannel, LAMBDA c : c.actions) = r.kpis.tabs
     /\ Total(r.articles, LAMBDA a : a.details) = Cardinality(Named(titled, "detail_view"))
     /\ Total(r.articles, LAMBDA a : a.clicks) = Cardinality(Named(titled, "outbound_click"))
     /\ \E shown \in SUBSET DOMAIN r.articles : Popular(r.articles, shown)
     /\ Total(r.trend, LAMBDA d : d.tabs) = Cardinality(Named(reached, "tab_view"))
     /\ Total(r.trend, LAMBDA d : d.details) = Cardinality(Named(reached, "detail_view"))
     /\ Total(r.trend, LAMBDA d : d.starts) = Cardinality(Named(reached, "export_started"))
     /\ Cardinality(r.exports.started) <= Cardinality(Named(rows, "export_started"))
     /\ \A e \in rows \ reached : e.at >= through

(* Every row the dashboard counts has its day (the code would raise a      *)
(* KeyError); days, channels and categories add up to its totals, areas to *)
(* the whole, and the totals are those of the report over the published    *)
(* part of the window.  (_dashboard_report)                                *)
CardsAgree(q) ==
  LET d == Dashboard(q)
      rows == {e \in Filtered(q) : e.at < through}
  IN /\ d.placed \subseteq DOMAIN d.days
     /\ Total(d.days, LAMBDA n : n.tabs) = d.totals.tabs
     /\ Total(d.days, LAMBDA n : n.clicks) = d.totals.clicks
     /\ Total(d.channels, LAMBDA n : n.tabs) = d.totals.tabs
     /\ \A c \in {"news", "society"} :
          Total(d.categories[c], LAMBDA n : n) = d.channels[c].clicks
     /\ d.totals.tabs = Cardinality(Named(rows, "tab_view"))
     /\ q.area = NoChoice =>
          d.totals.clicks = SumFunction(
            [a \in {p.area : p \in Audience(q)} |->
               Dashboard([q EXCEPT !.area = a]).totals.clicks])

(* Whatever is selected, each unit offered selects at least one row: the   *)
(* options and the filter are computed apart, from the same attributed     *)
(* rows.  (_filter_options, _matches)                                      *)
OffersSelect(q) ==
  \A u \in FilterOptions(q) :
    Filtered([q EXCEPT !.unit = u, !.channel = NoChoice, !.word = NoChoice]) # {}

(* Whatever is asked of a publication, its report and its cards agree.     *)
NewsReportIsConsistent ==
  \A q \in Request :
    /\ Availability(q) # "refused"
    /\ Availability(q) = "available" =>
         /\ ResultsFollowStarts(q) /\ OffersSelect(q)
         /\ SectionsAgree(q) /\ CardsAgree(q)
=============================================================================
