----------------------------- MODULE ReportProofs -----------------------------
(***************************************************************************)
(* Theorems about what the analytics and the News API compute from one     *)
(* publication: that the views of it agree, whatever was asked or clicked, *)
(* by whom and when, and for any roster (AnalyticsAssumption,              *)
(* NewsReportAssumption); and that the parts of PublishedAnswers keep      *)
(* their types together.                                                   *)
(***************************************************************************)
EXTENDS PublishedAnswers, PublishedReadsProofs, SumTheorems

----------------------------------------------------------------------------
(* The calendar.                                                           *)

LEMMA DivMod ==
  ASSUME NEW d \in Nat \ {0}, NEW t \in Int
  PROVE  t \div d \in Int /\ t % d \in 0..d - 1 /\ t = d * (t \div d) + (t % d)
  OBVIOUS

LEMMA DivUnique ==
  ASSUME NEW d \in Nat \ {0}, NEW t \in Int, NEW q \in Int, NEW r \in 0..d - 1, t = d * q + r
  PROVE  t \div d = q /\ t % d = r
<1>1. t \div d \in Int /\ t % d \in 0..d - 1 /\ t = d * (t \div d) + (t % d)
  BY DivMod
<1>2. ASSUME NEW a \in Int, NEW b \in Int, NEW x \in 0..d - 1, NEW y \in 0..d - 1,
             d * a + x = d * b + y, a < b
      PROVE  FALSE
  <2>1. d * (a + 1) <= d * b
    BY <1>2
  <2>2. d * (a + 1) = d * a + d
    OBVIOUS
  <2> QED BY <1>2, <2>1, <2>2
<1>3. t \div d = q
  BY <1>1, <1>2
<1> QED BY <1>1, <1>3

LEMMA DivMono ==
  ASSUME NEW d \in Nat \ {0}, NEW s \in Int, NEW t \in Int, s <= t
  PROVE  s \div d <= t \div d
  OBVIOUS

LEMMA DivType ==
  ASSUME NEW d \in Nat \ {0}, NEW t \in Nat
  PROVE  t \div d \in Nat
  OBVIOUS

----------------------------------------------------------------------------
(* The state of the analytics: a finite publication with unique people.    *)

THEOREM AnalyticsTypeCorrect == AnalyticsReportSpec => []AnalyticsReportTypeOK
<1>1. AnalyticsReportInit => AnalyticsReportTypeOK
  BY AnalyticsAssumption DEF AnalyticsReportInit, AnalyticsReportTypeOK
<1>2. AnalyticsReportTypeOK /\ [AnalyticsReportNext]_analyticsVars => AnalyticsReportTypeOK'
  <2> SUFFICES ASSUME AnalyticsReportTypeOK, [AnalyticsReportNext]_analyticsVars
               PROVE  AnalyticsReportTypeOK'
    OBVIOUS
  <2>1. CASE UNCHANGED analyticsVars
    BY <2>1 DEF analyticsVars, AnalyticsReportTypeOK
  <2>2. CASE AnalyticsReportNext
    <3>1. PICK t \in reached + 1..MaxTime, people \in Rosters :
            \E batch \in SUBSET {e \in Question \ asked : e.logged < t} :
              asked' = asked \cup batch /\ reached' = t /\ members' = people
      BY <2>2 DEF AnalyticsReportNext
    <3>2. t \in 0..MaxTime /\ t > reached /\ reached \in Nat /\ t \in Nat
      BY AnalyticsAssumption DEF AnalyticsReportTypeOK
    <3>3. \A e \in asked : e.logged < t
      <4>1. \A e \in asked : e.logged \in Nat /\ e.logged < reached
        BY AnalyticsAssumption DEF AnalyticsReportTypeOK
      <4> QED BY <3>2, <4>1
    <3> QED BY <3>1, <3>2, <3>3 DEF AnalyticsReportTypeOK
  <2> QED BY <2>1, <2>2
<1> QED BY <1>1, <1>2, PTL DEF AnalyticsReportSpec

LEMMA PublishedState ==
  ASSUME AnalyticsReportTypeOK
  PROVE  /\ IsFiniteSet(asked) /\ IsFiniteSet(members) /\ reached \in Nat
         /\ \A e \in asked : e.at \in Nat
         /\ \A p, o \in members : p.area # All /\ (p.id = o.id => p = o)
<1>1. IsFiniteSet(asked)
  BY AnalyticsAssumption, FS_Subset DEF AnalyticsReportTypeOK
<1>2. IsFiniteSet(members)
  BY AnalyticsAssumption, FS_EmptySet DEF AnalyticsReportTypeOK
<1> QED BY <1>1, <1>2, AnalyticsAssumption DEF AnalyticsReportTypeOK

LEMMA AreaOfMember ==
  ASSUME AnalyticsReportTypeOK, NEW p \in members
  PROVE  AreaOf(p.id) = p.area
<1>1. \A o \in members : o.id = p.id => o = p
  BY PublishedState
<1> DEFINE q == CHOOSE o \in members : o.id = p.id
<1>2. q \in members /\ q.id = p.id
  OBVIOUS
<1>3. q = p
  BY <1>1, <1>2
<1>4. p.id \in Ids(members)
  BY DEF Ids
<1> QED BY <1>3, <1>4 DEF AreaOf

(* The people a global view is about, and their questions in a window.     *)
Askers(c) == Selected("global", c, All)
Rows(w, c) == EventsOf(Askers(c), w, All)

LEMMA RowsOf ==
  ASSUME NEW people, NEW w
  PROVE  EventsOf(people, w, All) =
           {e \in asked : e.valid /\ w[1] <= e.at /\ e.at < w[2] /\ e.person \in Ids(people)}
  BY DEF EventsOf, OverviewEvents

LEMMA SelectedFinite ==
  ASSUME AnalyticsReportTypeOK, NEW s, NEW c, NEW a
  PROVE  Selected(s, c, a) \in SUBSET members /\ IsFiniteSet(Selected(s, c, a))
<1>1. Selected(s, c, a) \in SUBSET members
  BY DEF Selected
<1> QED BY <1>1, PublishedState, FS_Subset

LEMMA RowsFinite ==
  ASSUME AnalyticsReportTypeOK, NEW people \in SUBSET members, NEW w
  PROVE  /\ IsFiniteSet(EventsOf(people, w, All)) /\ IsFiniteSet(people)
         /\ \A e \in EventsOf(people, w, All) :
              /\ e \in asked /\ e.at \in Nat /\ w[1] <= e.at /\ e.at < w[2]
              /\ \E p \in people : p.id = e.person /\ p.area = AreaOf(e.person)
<1>1. IsFiniteSet(people)
  BY PublishedState, FS_Subset
<1>2. EventsOf(people, w, All) \in SUBSET asked
  BY RowsOf
<1>3. IsFiniteSet(EventsOf(people, w, All))
  BY <1>2, PublishedState, FS_Subset
<1>4. ASSUME NEW e \in EventsOf(people, w, All)
      PROVE  /\ e \in asked /\ e.at \in Nat /\ w[1] <= e.at /\ e.at < w[2]
             /\ \E p \in people : p.id = e.person /\ p.area = AreaOf(e.person)
  <2>1. e \in asked /\ w[1] <= e.at /\ e.at < w[2] /\ e.person \in Ids(people)
    BY RowsOf
  <2>2. PICK p \in people : p.id = e.person
    BY <2>1 DEF Ids
  <2>3. p.area = AreaOf(e.person)
    BY <2>2, AreaOfMember
  <2> QED BY <2>1, <2>2, <2>3, PublishedState
<1> QED BY <1>1, <1>3, <1>4

----------------------------------------------------------------------------
(* The answers, field by field.                                            *)

Areas(c) == {p.area : p \in Askers(c)}
In(rows, a) == {e \in rows : AreaOf(e.person) = a}

LEMMA RegionFields ==
  ASSUME NEW w, NEW c
  PROVE  /\ DOMAIN Regions(w, c) = Areas(c)
         /\ \A a \in Areas(c) :
              Regions(w, c)[a] =
                [scope |-> Cardinality({p \in Askers(c) : p.area = a}),
                 questions |-> Cardinality(In(Rows(w, c), a)),
                 active |-> Cardinality({e.person : e \in In(Rows(w, c), a)}),
                 returning |-> Returning(In(Rows(w, c), a))]
  BY DEF Regions, Askers, Rows, Areas, In

LEMMA OverviewFields ==
  ASSUME NEW w, NEW a, NEW c
  PROVE  LET people == Selected("global", c, a)
             rows   == EventsOf(people, w, a)
             o      == Overview(w, a, c)
         IN /\ o.scope = Cardinality(people) /\ o.questions = Cardinality(rows)
            /\ o.active = Cardinality({e.person : e \in rows})
            /\ o.returning = Returning(rows)
            /\ o.delivery = CompleteDelivery(rows)
            /\ o.axes = UsageAxes(rows, w)
            /\ o.activity = Activity(people, Levels(people, w, a))
  BY DEF Overview

LEMMA OverviewParts ==
  ASSUME NEW w, NEW c
  PROVE  LET o == Overview(w, All, c) levels == Levels(Askers(c), w, All)
         IN /\ o.byArea = [a \in Areas(c) |->
                             Activity({p \in Askers(c) : p.area = a}, levels)]
            /\ o.byRole = [r \in {p.role : p \in Askers(c)} |->
                             Activity({p \in Askers(c) : p.role = r}, levels)]
  BY DEF Overview, Areas, Askers

LEMMA UserFields ==
  ASSUME NEW w, NEW c, NEW l
  PROVE  LET levels == Levels(Askers(c), w, All)
             people == {p \in Askers(c) : l \in {All, levels[p.id]}}
             users  == UsersOf("global", w, All, c, l)
         IN /\ DOMAIN users = Ids(people)
            /\ \A id \in Ids(people) :
                 /\ users[id].questions = Cardinality(By(Rows(w, c), id))
                 /\ users[id].days = Cardinality(DaysOf(By(Rows(w, c), id)))
                 /\ users[id].delivery = CompleteDelivery(By(Rows(w, c), id))
                 /\ users[id].activity = levels[id]
  BY DEF UsersOf, Askers, Rows, Ids

LEMMA DeliveryFields ==
  ASSUME NEW rows
  PROVE  LET known == {e \in rows : e.delivery # Unmeasured}
             d     == CompleteDelivery(rows)
         IN /\ d.complete = Cardinality({e \in rows : e.delivery = "complete"})
            /\ d.coverage.measured = Cardinality(known)
            /\ d.coverage.total = Cardinality(rows)
            /\ d.coverage.state = MeasurementState(Cardinality(known), Cardinality(rows))
  BY DEF CompleteDelivery, Coverage

----------------------------------------------------------------------------
(* The parts add up.                                                       *)

LEMMA AreasFinite ==
  ASSUME AnalyticsReportTypeOK, NEW c
  PROVE  IsFiniteSet(Areas(c)) /\ IsFiniteSet(Ids(Askers(c)))
<1> DEFINE P == Askers(c)
           area == [p \in P |-> p.area]
           id == [p \in P |-> p.id]
<1>1. IsFiniteSet(P)
  BY SelectedFinite DEF Askers
<1> HIDE DEF P
<1>2. IsFiniteSet({area[p] : p \in P}) /\ IsFiniteSet({id[p] : p \in P})
  BY <1>1, KeysOf
<1>3. {area[p] : p \in P} = {p.area : p \in P} /\ {id[p] : p \in P} = {p.id : p \in P}
  OBVIOUS
<1> HIDE DEF area, id
<1> QED BY <1>2, <1>3 DEF Areas, Ids, P

(* Who asked, once each.                                                   *)
LEMMA AskersOf ==
  ASSUME AnalyticsReportTypeOK, NEW rows, IsFiniteSet(rows)
  PROVE  IsFiniteSet({e.person : e \in rows})
<1> DEFINE key == [e \in rows |-> e.person]
<1>1. IsFiniteSet({key[e] : e \in rows})
  BY KeysOf
<1>2. {key[e] : e \in rows} = {e.person : e \in rows}
  OBVIOUS
<1> QED BY <1>1, <1>2

LEMMA RegionSums ==
  ASSUME AnalyticsReportTypeOK, NEW w, NEW c
  PROVE  LET r == Regions(w, c) rows == Rows(w, c)
         IN /\ Sum(r, LAMBDA x : x.questions) = Cardinality(rows)
            /\ Sum(r, LAMBDA x : x.active) = Cardinality({e.person : e \in rows})
            /\ Sum(r, LAMBDA x : x.returning) = Returning(rows)
<1> DEFINE R == Rows(w, c)
           U == {e.person : e \in R}
           V == {id \in U : Cardinality(DaysOf(By(R, id))) >= 2}
           F == Regions(w, c)
           f == [a \in DOMAIN F |-> F[a].questions]
           g == [a \in DOMAIN F |-> F[a].active]
           h == [a \in DOMAIN F |-> F[a].returning]
           atRow == [e \in R |-> AreaOf(e.person)]
           at == [id \in U |-> AreaOf(id)]
<1>1. /\ IsFiniteSet(R)
      /\ \A e \in R : AreaOf(e.person) \in Areas(c)
  BY SelectedFinite, RowsFinite DEF Rows, Askers, Areas
<1>2. IsFiniteSet(U) /\ IsFiniteSet(V)
  BY <1>1, AskersOf, FS_Subset
<1>3. IsFiniteSet(Areas(c)) /\ DOMAIN F = Areas(c)
  BY AreasFinite, RegionFields
<1>4. \A a \in Areas(c) :
        /\ F[a].questions = Cardinality(In(R, a))
        /\ F[a].active = Cardinality({e.person : e \in In(R, a)})
        /\ F[a].returning = Returning(In(R, a))
  <2> SUFFICES ASSUME NEW a \in Areas(c)
               PROVE  /\ F[a].questions = Cardinality(In(R, a))
                      /\ F[a].active = Cardinality({e.person : e \in In(R, a)})
                      /\ F[a].returning = Returning(In(R, a))
    OBVIOUS
  <2>1. F[a] = [scope |-> Cardinality({p \in Askers(c) : p.area = a}),
                questions |-> Cardinality(In(R, a)),
                active |-> Cardinality({e.person : e \in In(R, a)}),
                returning |-> Returning(In(R, a))]
    BY RegionFields
  <2> HIDE DEF F
  <2> QED BY <2>1
<1> HIDE DEF R, F
<1>5. \A a \in Areas(c) :
        /\ In(R, a) = {e \in R : atRow[e] = a}
        /\ {e.person : e \in In(R, a)} = {id \in U : at[id] = a}
  BY DEF In
<1>6. \A a \in Areas(c) : Returning(In(R, a)) = Cardinality({id \in V : at[id] = a})
  <2> SUFFICES ASSUME NEW a \in Areas(c)
               PROVE  Returning(In(R, a)) = Cardinality({id \in V : at[id] = a})
    OBVIOUS
  <2> DEFINE X == {e.person : e \in In(R, a)}
             Often(rows, id) == Cardinality(DaysOf(By(rows, id))) >= 2
  <2>1. \A id \in X : By(In(R, a), id) = By(R, id)
    BY DEF By, In
  <2>2. \A id \in X : Often(In(R, a), id) <=> Often(R, id)
    BY <2>1
  <2>3. V = {id \in U : Often(R, id)} /\ X = {id \in U : at[id] = a}
    BY <1>5
  <2> HIDE DEF X, Often, V, U, at
  <2>4. {id \in X : Often(In(R, a), id)} = {id \in V : at[id] = a}
    BY <2>2, <2>3
  <2> QED BY <2>4 DEF Returning, Often, X
<1>7. SumFunction(f) = Cardinality(R)
  <2>1. /\ \A e \in R : atRow[e] \in DOMAIN f
        /\ \A a \in DOMAIN f : f[a] = Cardinality({e \in R : atRow[e] = a})
        /\ IsFiniteSet(DOMAIN f)
    BY <1>1, <1>3, <1>4, <1>5
  <2> HIDE DEF f, atRow
  <2> QED BY <1>1, <2>1, SumOfCounts
<1>8. \A id \in U : at[id] \in Areas(c)
  BY <1>1
<1>9. SumFunction(g) = Cardinality(U)
  <2>1. /\ \A id \in U : at[id] \in DOMAIN g
        /\ \A a \in DOMAIN g : g[a] = Cardinality({id \in U : at[id] = a})
        /\ IsFiniteSet(DOMAIN g)
    BY <1>3, <1>4, <1>5, <1>8
  <2> HIDE DEF g, at, U
  <2> QED BY <1>2, <2>1, SumOfCounts
<1>10. SumFunction(h) = Cardinality(V)
  <2>1. /\ \A id \in V : at[id] \in DOMAIN h
        /\ \A a \in DOMAIN h : h[a] = Cardinality({id \in V : at[id] = a})
        /\ IsFiniteSet(DOMAIN h)
    BY <1>3, <1>4, <1>6, <1>8
  <2> HIDE DEF h, at, V
  <2> QED BY <1>2, <2>1, SumOfCounts
<1> QED BY <1>7, <1>9, <1>10 DEF Sum, Returning, R, F

LEMMA UserSums ==
  ASSUME AnalyticsReportTypeOK, NEW w, NEW c
  PROVE  LET u == UsersOf("global", w, All, c, All) rows == Rows(w, c)
         IN /\ Sum(u, LAMBDA x : x.questions) = Cardinality(rows)
            /\ Sum(u, LAMBDA x : x.delivery.complete)
                 = Cardinality({e \in rows : e.delivery = "complete"})
            /\ Sum(u, LAMBDA x : x.delivery.coverage.measured)
                 = Cardinality({e \in rows : e.delivery # Unmeasured})
            /\ {id \in DOMAIN u : u[id].questions > 0} = {e.person : e \in rows}
            /\ Cardinality({id \in DOMAIN u : u[id].days >= 2}) = Returning(rows)
            /\ \A id \in DOMAIN u : u[id].questions > 0 => By(rows, id) # {}
<1> DEFINE R == Rows(w, c)
           C == {e \in R : e.delivery = "complete"}
           M == {e \in R : e.delivery # Unmeasured}
           U == UsersOf("global", w, All, c, All)
           I == Ids(Askers(c))
           f == [id \in DOMAIN U |-> U[id].questions]
           g == [id \in DOMAIN U |-> U[id].delivery.complete]
           h == [id \in DOMAIN U |-> U[id].delivery.coverage.measured]
           of == [e \in R |-> e.person]
<1>1. IsFiniteSet(R) /\ \A e \in R : e.person \in I
  BY SelectedFinite, RowsFinite DEF Rows, Askers, Ids
<1>2. IsFiniteSet(C) /\ IsFiniteSet(M) /\ \A id \in I : IsFiniteSet(By(R, id))
  BY <1>1, FS_Subset DEF By
<1>3. IsFiniteSet(I)
  BY AreasFinite
<1>4. DOMAIN U = I
  BY UserFields
<1>5. \A id \in I : /\ U[id].questions = Cardinality(By(R, id))
                    /\ U[id].days = Cardinality(DaysOf(By(R, id)))
                    /\ U[id].delivery = CompleteDelivery(By(R, id))
  <2>1. I = Ids({p \in Askers(c) : All \in {All, Levels(Askers(c), w, All)[p.id]}})
    BY DEF Ids
  <2> QED BY <2>1, UserFields
<1> HIDE DEF R, U
<1>6. \A id \in I : By(R, id) = {e \in R : of[e] = id}
  BY DEF By
<1>7. \A id \in I :
        /\ U[id].delivery.complete = Cardinality({e \in C : of[e] = id})
        /\ U[id].delivery.coverage.measured = Cardinality({e \in M : of[e] = id})
  <2> SUFFICES ASSUME NEW id \in I
               PROVE  /\ U[id].delivery.complete = Cardinality({e \in C : of[e] = id})
                      /\ U[id].delivery.coverage.measured = Cardinality({e \in M : of[e] = id})
    OBVIOUS
  <2>1. /\ {e \in By(R, id) : e.delivery = "complete"} = {e \in C : of[e] = id}
        /\ {e \in By(R, id) : e.delivery # Unmeasured} = {e \in M : of[e] = id}
    BY <1>6
  <2>2. U[id].delivery = CompleteDelivery(By(R, id))
    BY <1>5
  <2> QED BY <2>1, <2>2, DeliveryFields
<1>8. SumFunction(f) = Cardinality(R)
  <2>1. /\ \A e \in R : of[e] \in DOMAIN f
        /\ \A id \in DOMAIN f : f[id] = Cardinality({e \in R : of[e] = id})
        /\ IsFiniteSet(DOMAIN f)
    BY <1>1, <1>3, <1>4, <1>5, <1>6
  <2> HIDE DEF f, of
  <2> QED BY <1>1, <2>1, SumOfCounts
<1>9. SumFunction(g) = Cardinality(C)
  <2>1. /\ \A e \in C : of[e] \in DOMAIN g
        /\ \A id \in DOMAIN g : g[id] = Cardinality({e \in C : of[e] = id})
        /\ IsFiniteSet(DOMAIN g)
    BY <1>1, <1>3, <1>4, <1>7
  <2> HIDE DEF g, of, C
  <2> QED BY <1>2, <2>1, SumOfCounts
<1>10. SumFunction(h) = Cardinality(M)
  <2>1. /\ \A e \in M : of[e] \in DOMAIN h
        /\ \A id \in DOMAIN h : h[id] = Cardinality({e \in M : of[e] = id})
        /\ IsFiniteSet(DOMAIN h)
    BY <1>1, <1>3, <1>4, <1>7
  <2> HIDE DEF h, of, M
  <2> QED BY <1>2, <2>1, SumOfCounts
<1>11. \A id \in I : U[id].questions > 0 <=> By(R, id) # {}
  <2> SUFFICES ASSUME NEW id \in I PROVE U[id].questions > 0 <=> By(R, id) # {}
    OBVIOUS
  <2>1. U[id].questions \in Nat /\ (U[id].questions = 0 <=> By(R, id) = {})
    BY <1>2, <1>5, FS_EmptySet, FS_CardinalityType
  <2> QED BY <2>1
<1>12. {id \in DOMAIN U : U[id].questions > 0} = {e.person : e \in R}
  <2>1. \A id \in I : By(R, id) # {} <=> id \in {e.person : e \in R}
    BY DEF By
  <2>2. {e.person : e \in R} \subseteq I
    BY <1>1
  <2> HIDE DEF I
  <2> QED BY <1>4, <1>11, <2>1, <2>2
<1>13. {id \in DOMAIN U : U[id].days >= 2}
         = {id \in {e.person : e \in R} : Cardinality(DaysOf(By(R, id))) >= 2}
  <2>1. ASSUME NEW id \in I, U[id].days >= 2 PROVE id \in {e.person : e \in R}
    <3>1. CASE By(R, id) = {}
      <4>1. DaysOf(By(R, id)) = {}
        BY <3>1 DEF DaysOf
      <4> QED BY <1>5, <2>1, <4>1, FS_EmptySet
    <3>2. CASE By(R, id) # {} BY <3>2 DEF By
    <3> QED BY <3>1, <3>2
  <2>2. {e.person : e \in R} \subseteq I
    BY <1>1
  <2>3. \A id \in I : U[id].days = Cardinality(DaysOf(By(R, id)))
    BY <1>5
  <2> HIDE DEF I
  <2> QED BY <1>4, <2>1, <2>2, <2>3
<1> QED BY <1>4, <1>8, <1>9, <1>10, <1>11, <1>12, <1>13 DEF Sum, Returning, R, U

(* An area of its own is the part of the whole that is there.              *)
LEMMA AreaPart ==
  ASSUME AnalyticsReportTypeOK, NEW w, NEW c, NEW a \in Areas(c)
  PROVE  LET people == Selected("global", c, a)
         IN /\ people = {p \in Askers(c) : p.area = a}
            /\ EventsOf(people, w, a) = In(Rows(w, c), a)
            /\ Activity(people, Levels(people, w, a))
                 = Activity(people, Levels(Askers(c), w, All))
<1> DEFINE people == Selected("global", c, a)
           whole == Askers(c)
<1>1. a # All /\ whole \in SUBSET members
  BY PublishedState, SelectedFinite DEF Areas, Askers
<1>2. people = {p \in whole : p.area = a}
  BY <1>1 DEF Selected, Askers
<1>3. \A p \in whole : AreaOf(p.id) = p.area
  BY <1>1, AreaOfMember
<1> HIDE DEF people, whole
<1>4. \A id : id \in Ids(people) <=> id \in Ids(whole) /\ AreaOf(id) = a
  BY <1>2, <1>3 DEF Ids
<1>5. EventsOf(people, w, a) = In(Rows(w, c), a)
  BY <1>1, <1>4 DEF EventsOf, OverviewEvents, In, Rows, whole
<1>6. \A id \in Ids(people) :
        By(ActivityEvents(w[2], a), id) = By(ActivityEvents(w[2], All), id)
  BY <1>1, <1>4 DEF By, ActivityEvents, OverviewEvents
<1>7. \A id \in Ids(people) : Levels(people, w, a)[id] = Levels(whole, w, All)[id]
  BY <1>4, <1>6 DEF Levels
<1>8. Activity(people, Levels(people, w, a)) = Activity(people, Levels(whole, w, All))
  <2>1. \A p \in people : p.id \in Ids(people)
    BY DEF Ids
  <2>2. \A l \in Level : {p \in people : Levels(people, w, a)[p.id] = l}
                           = {p \in people : Levels(whole, w, All)[p.id] = l}
    BY <1>7, <2>1
  <2> QED BY <2>2 DEF Activity
<1> QED BY <1>2, <1>5, <1>8 DEF people, whole

LEMMA ListedByLevel ==
  ASSUME AnalyticsReportTypeOK, NEW w, NEW c, NEW l \in Level
  PROVE  Cardinality(DOMAIN UsersOf("global", w, All, c, l))
           = Activity(Askers(c), Levels(Askers(c), w, All))[l]
<1> DEFINE levels == Levels(Askers(c), w, All)
           those == {p \in Askers(c) : levels[p.id] = l}
           id == [p \in those |-> p.id]
<1>1. l # All
  BY AnalyticsAssumption DEF Level
<1>2. Askers(c) \in SUBSET members /\ IsFiniteSet(Askers(c))
  BY SelectedFinite DEF Askers
<1>3. IsFiniteSet(those) /\ \A p, o \in those : id[p] = id[o] => p = o
  BY <1>2, FS_Subset, PublishedState
<1>4. DOMAIN UsersOf("global", w, All, c, l) = {id[p] : p \in those}
  <2>1. {p \in Askers(c) : l \in {All, levels[p.id]}} = those
    BY <1>1
  <2>2. DOMAIN UsersOf("global", w, All, c, l) = Ids(those)
    BY <2>1, UserFields
  <2>3. Ids(those) = {id[p] : p \in those}
    BY DEF Ids
  <2> QED BY <2>2, <2>3
<1>5. Activity(Askers(c), levels)[l] = Cardinality(those)
  BY DEF Activity
<1> HIDE DEF those, id
<1> QED BY <1>3, <1>4, <1>5, KeysOneToOne

(* Regions, user list and the overview of each area add up to the whole.   *)
LEMMA PartsAgree ==
  ASSUME AnalyticsReportTypeOK, NEW w, NEW c
  PROVE  PartsAddUp(w, c)
<1> DEFINE o == Overview(w, All, c)
           regions == Regions(w, c)
           users == UsersOf("global", w, All, c, All)
           levels == Levels(Askers(c), w, All)
<1>1. /\ o.scope = Cardinality(Askers(c))
      /\ o.questions = Cardinality(Rows(w, c))
      /\ o.active = Cardinality({e.person : e \in Rows(w, c)})
      /\ o.returning = Returning(Rows(w, c))
      /\ o.delivery = CompleteDelivery(Rows(w, c))
      /\ o.axes = UsageAxes(Rows(w, c), w)
      /\ o.activity = Activity(Askers(c), levels)
  BY OverviewFields DEF Askers, Rows
<1>2. /\ o.byArea = [a \in Areas(c) |-> Activity({p \in Askers(c) : p.area = a}, levels)]
      /\ o.byRole = [r \in {p.role : p \in Askers(c)} |->
                       Activity({p \in Askers(c) : p.role = r}, levels)]
  BY OverviewParts
<1>3. /\ o.delivery.complete = Cardinality({e \in Rows(w, c) : e.delivery = "complete"})
      /\ o.delivery.coverage.measured
           = Cardinality({e \in Rows(w, c) : e.delivery # Unmeasured})
  BY <1>1, DeliveryFields
<1>4. \A a \in DOMAIN regions :
        LET part == Overview(w, a, c)
        IN /\ regions[a] = [scope |-> part.scope, questions |-> part.questions,
                            active |-> part.active, returning |-> part.returning]
           /\ part.activity = o.byArea[a]
  <2> SUFFICES ASSUME NEW a \in Areas(c)
               PROVE  LET part == Overview(w, a, c)
                      IN /\ regions[a] =
                              [scope |-> part.scope, questions |-> part.questions,
                               active |-> part.active, returning |-> part.returning]
                         /\ part.activity = o.byArea[a]
    BY RegionFields
  <2> DEFINE part == Overview(w, a, c)
             people == Selected("global", c, a)
  <2>1. /\ people = {p \in Askers(c) : p.area = a}
        /\ EventsOf(people, w, a) = In(Rows(w, c), a)
        /\ Activity(people, Levels(people, w, a)) = Activity(people, levels)
    BY AreaPart
  <2>2. /\ part.scope = Cardinality(people)
        /\ part.questions = Cardinality(EventsOf(people, w, a))
        /\ part.active = Cardinality({e.person : e \in EventsOf(people, w, a)})
        /\ part.returning = Returning(EventsOf(people, w, a))
        /\ part.activity = Activity(people, Levels(people, w, a))
    BY OverviewFields
  <2>3. regions[a] = [scope |-> Cardinality({p \in Askers(c) : p.area = a}),
                      questions |-> Cardinality(In(Rows(w, c), a)),
                      active |-> Cardinality({e.person : e \in In(Rows(w, c), a)}),
                      returning |-> Returning(In(Rows(w, c), a))]
    BY RegionFields
  <2> HIDE DEF part, people, regions, o, levels
  <2> QED BY <1>2, <2>1, <2>2, <2>3 DEF part
<1>5. ASSUME NEW l \in Level
      PROVE  /\ Sum(o.byArea, LAMBDA n : n[l]) = o.activity[l]
             /\ Sum(o.byRole, LAMBDA n : n[l]) = o.activity[l]
             /\ Cardinality(DOMAIN UsersOf("global", w, All, c, l)) = o.activity[l]
  <2> DEFINE P == Askers(c)
             area == [p \in P |-> p.area]
             role == [p \in P |-> p.role]
             byArea == [a \in {p.area : p \in P} |-> Activity({p \in P : p.area = a}, levels)]
             byRole == [r \in {p.role : p \in P} |-> Activity({p \in P : p.role = r}, levels)]
  <2>1. IsFiniteSet(P)
    BY SelectedFinite DEF Askers
  <2> HIDE DEF P, levels
  <2>2. IsFiniteSet({area[p] : p \in P}) /\ IsFiniteSet({role[p] : p \in P})
    BY <2>1, KeysOf
  <2>3. {area[p] : p \in P} = DOMAIN byArea /\ {role[p] : p \in P} = DOMAIN byRole
    OBVIOUS
  <2>4. /\ \A k \in DOMAIN byArea : {p \in P : area[p] = k} = {p \in P : p.area = k}
        /\ \A k \in DOMAIN byRole : {p \in P : role[p] = k} = {p \in P : p.role = k}
    OBVIOUS
  <2>5. /\ \A k \in DOMAIN byArea : byArea[k] = Activity({p \in P : area[p] = k}, levels)
        /\ \A k \in DOMAIN byRole : byRole[k] = Activity({p \in P : role[p] = k}, levels)
    BY <2>4
  <2>6. /\ \A p \in P : area[p] \in DOMAIN byArea
        /\ \A p \in P : role[p] \in DOMAIN byRole
    OBVIOUS
  <2>7. o.byArea = byArea /\ o.byRole = byRole
    BY <1>2 DEF P, Areas
  <2> HIDE DEF area, role, byArea, byRole
  <2>8. SumFunction([k \in DOMAIN byArea |-> byArea[k][l]]) = Activity(P, levels)[l]
    <3> DEFINE f == [k \in DOMAIN byArea |-> byArea[k][l]]
               those == {p \in P : levels[p.id] = l}
    <3>1. \A k \in DOMAIN f :
            {p \in {p \in P : area[p] = k} : levels[p.id] = l} = {p \in those : area[p] = k}
      OBVIOUS
    <3>2. /\ IsFiniteSet(DOMAIN f) /\ \A p \in those : area[p] \in DOMAIN f
          /\ \A k \in DOMAIN f : f[k] = Cardinality({p \in those : area[p] = k})
      BY <2>2, <2>3, <2>5, <2>6, <3>1 DEF Activity
    <3>3. IsFiniteSet(those) /\ Activity(P, levels)[l] = Cardinality(those)
      BY <2>1, FS_Subset DEF Activity
    <3> HIDE DEF f, those
    <3>4. SumFunction(f) = Cardinality(those)
      BY <3>2, <3>3, SumOfCounts
    <3> QED BY <3>3, <3>4 DEF f
  <2>9. SumFunction([k \in DOMAIN byRole |-> byRole[k][l]]) = Activity(P, levels)[l]
    <3> DEFINE f == [k \in DOMAIN byRole |-> byRole[k][l]]
               those == {p \in P : levels[p.id] = l}
    <3>1. \A k \in DOMAIN f :
            {p \in {p \in P : role[p] = k} : levels[p.id] = l} = {p \in those : role[p] = k}
      OBVIOUS
    <3>2. /\ IsFiniteSet(DOMAIN f) /\ \A p \in those : role[p] \in DOMAIN f
          /\ \A k \in DOMAIN f : f[k] = Cardinality({p \in those : role[p] = k})
      BY <2>2, <2>3, <2>5, <2>6, <3>1 DEF Activity
    <3>3. IsFiniteSet(those) /\ Activity(P, levels)[l] = Cardinality(those)
      BY <2>1, FS_Subset DEF Activity
    <3> HIDE DEF f, those
    <3>4. SumFunction(f) = Cardinality(those)
      BY <3>2, <3>3, SumOfCounts
    <3> QED BY <3>3, <3>4 DEF f
  <2>10. Cardinality(DOMAIN UsersOf("global", w, All, c, l)) = Activity(P, levels)[l]
    BY ListedByLevel DEF P, levels
  <2> HIDE DEF o
  <2> QED BY <1>1, <2>7, <2>8, <2>9, <2>10 DEF P, Sum
<1>6. UsagePanel(w, All, c).axes = o.axes
  BY <1>1 DEF UsagePanel, Askers, Rows
<1>7. /\ Sum(regions, LAMBDA r : r.questions) = o.questions
      /\ Sum(regions, LAMBDA r : r.active) = o.active
      /\ Sum(regions, LAMBDA r : r.returning) = o.returning
  BY <1>1, RegionSums
<1>8. /\ Sum(users, LAMBDA u : u.questions) = o.questions
      /\ Sum(users, LAMBDA u : u.delivery.complete) = o.delivery.complete
      /\ Sum(users, LAMBDA u : u.delivery.coverage.measured) = o.delivery.coverage.measured
      /\ Cardinality({id \in DOMAIN users : users[id].questions > 0}) = o.active
      /\ Cardinality({id \in DOMAIN users : users[id].days >= 2}) = o.returning
  BY <1>1, <1>3, UserSums
<1> QED BY <1>4, <1>5, <1>6, <1>7, <1>8 DEF PartsAddUp

----------------------------------------------------------------------------
(* A user's detail is the row of that user, and the peers are the others.  *)

LEMMA EveryMember ==
  ASSUME NEW a
  PROVE  /\ Selected("user_map", All, All) = members
         /\ a # All => Selected("user_map", All, a) = {p \in members : p.area = a}
  BY DEF Selected, InScope, InCohort

LEMMA DetailIsRow ==
  ASSUME AnalyticsReportTypeOK, NEW w, NEW p \in members
  PROVE  LET d == UserDetail(p, w) row == UsersOf("user_map", w, All, All, All)[p.id]
         IN /\ row.questions = d.questions /\ row.days = d.days
            /\ row.delivery = d.delivery /\ row.last = d.last
<1> DEFINE rows == By(EventsOf(members, w, All), p.id)
<1>1. rows = UserDetailEvents(w, p.id)
  BY RowsOf DEF By, UserDetailEvents, OverviewEvents, Ids
<1>2. /\ UsersOf("user_map", w, All, All, All)[p.id].questions = Cardinality(rows)
      /\ UsersOf("user_map", w, All, All, All)[p.id].days = Cardinality(DaysOf(rows))
      /\ UsersOf("user_map", w, All, All, All)[p.id].delivery = CompleteDelivery(rows)
      /\ UsersOf("user_map", w, All, All, All)[p.id].last = LastActive(p.id, w[2])
  BY EveryMember DEF UsersOf
<1> HIDE DEF rows
<1>3. LET d == UserDetail(p, w)
      IN /\ d.questions = Cardinality(rows) /\ d.days = Cardinality(DaysOf(rows))
         /\ d.delivery = CompleteDelivery(rows) /\ d.last = LastActive(p.id, w[2])
  BY <1>1 DEF UserDetail
<1> QED BY <1>2, <1>3

(* Who asked in the window was last active in it or later, before its end. *)
LEMMA LastInWindow ==
  ASSUME AnalyticsReportTypeOK, NEW w \in Window, NEW id,
         NEW e \in UserDetailEvents(w, id)
  PROVE  \E t \in LastActive(id, w[2]) : w[1] <= t /\ t < w[2]
<1> DEFINE mine == {x \in asked : x.valid /\ x.person = id /\ x.at < w[2]}
           past == {x.at : x \in mine}
           at == [x \in mine |-> x.at]
<1>1. e \in mine /\ w[1] <= e.at
  BY DEF UserDetailEvents, OverviewEvents
<1>2. IsFiniteSet(mine) /\ \A x \in mine : x.at \in Nat /\ x.at < w[2]
  BY PublishedState, FS_Subset
<1> HIDE DEF mine
<1>3. IsFiniteSet(past) /\ e.at \in past /\ \A t \in past : t \in Int
  <2>1. IsFiniteSet({at[x] : x \in mine})
    BY <1>2, KeysOf
  <2>2. {at[x] : x \in mine} = past
    OBVIOUS
  <2> QED BY <1>1, <1>2, <2>1, <2>2
<1> HIDE DEF past
<1>4. PICK t \in past : \A o \in past : o <= t
  BY <1>3, GreatestElement
<1>5. t < w[2] /\ t \in Int /\ e.at <= t
  BY <1>2, <1>3, <1>4 DEF past
<1>6. t \in LastActive(id, w[2])
  BY <1>4 DEF LastActive, past, mine
<1>7. w[1] \in Nat /\ e.at \in Nat
  BY <1>1, <1>2, AnalyticsAssumption
<1> QED BY <1>1, <1>5, <1>6, <1>7

LEMMA PeersAddUp ==
  ASSUME AnalyticsReportTypeOK, NEW w, NEW p \in members
  PROVE  Cardinality(UserDetailEvents(w, p.id))
           + PeerComparison(p, w, LAMBDA o : o.area).questions
           = Cardinality(EventsOf(Selected("user_map", All, p.area), w, All))
<1> DEFINE all == OverviewEvents(w, All)
           peers == {o \in members : o.id # p.id /\ o.area = p.area}
           there == EventsOf(Selected("user_map", All, p.area), w, All)
           own == By(all, p.id)
           others == there \ own
           f == [o \in peers |-> Cardinality(By(all, o.id))]
           by == [e \in others |-> CHOOSE o \in peers : o.id = e.person]
<1>1. /\ IsFiniteSet(members) /\ p.area # All
      /\ \A o, q \in members : o.id = q.id => o = q
  BY PublishedState
<1>2. there = {e \in all : \E o \in members : o.area = p.area /\ o.id = e.person}
  BY <1>1, EveryMember DEF EventsOf, OverviewEvents, Ids
<1>3. own \subseteq there
  BY <1>2 DEF By
<1>4. others = {e \in all : \E o \in peers : o.id = e.person}
  BY <1>1, <1>2 DEF By
<1>5. IsFiniteSet(there) /\ IsFiniteSet(own) /\ IsFiniteSet(others) /\ IsFiniteSet(peers)
  <2>1. IsFiniteSet(all)
    BY PublishedState, FS_Subset DEF OverviewEvents
  <2>2. there \subseteq all /\ own \subseteq all /\ others \subseteq all
    BY <1>2, <1>4 DEF By
  <2> QED BY <1>1, <2>1, <2>2, FS_Subset
<1>6. \A e \in others : by[e] \in peers /\ by[e].id = e.person
  BY <1>4
<1>7. \A o \in peers : By(all, o.id) = {e \in others : by[e] = o}
  <2> SUFFICES ASSUME NEW o \in peers PROVE By(all, o.id) = {e \in others : by[e] = o}
    OBVIOUS
  <2>1. By(all, o.id) \subseteq others
    BY <1>4 DEF By
  <2>2. \A e \in others : by[e] = o <=> e.person = o.id
    BY <1>1, <1>6
  <2> HIDE DEF by, others
  <2>3. others \subseteq all
    BY <1>4
  <2> QED BY <2>1, <2>2, <2>3 DEF By
<1>8. SumFunction(f) = Cardinality(others)
  <2>1. /\ IsFiniteSet(DOMAIN f) /\ \A e \in others : by[e] \in DOMAIN f
        /\ \A o \in DOMAIN f : f[o] = Cardinality({e \in others : by[e] = o})
    BY <1>5, <1>6, <1>7
  <2> HIDE DEF f, by, others
  <2> QED BY <1>5, <2>1, SumOfCounts
<1>9. Cardinality(others) = Cardinality(there) - Cardinality(own)
  <2>1. there \cap own = own
    BY <1>3
  <2> HIDE DEF there, own
  <2>2. Cardinality(there \ own) = Cardinality(there) - Cardinality(there \cap own)
    BY <1>5, FS_Difference
  <2> QED BY <2>1, <2>2
<1>10. Cardinality(there) \in Nat /\ Cardinality(own) \in Nat
  BY <1>5, FS_CardinalityType
<1>11. own = UserDetailEvents(w, p.id)
  BY DEF By, UserDetailEvents
<1>12. PeerComparison(p, w, LAMBDA o : o.area).questions = SumFunction(f)
  BY EveryMember DEF PeerComparison
<1> HIDE DEF there, own, others, f
<1> QED BY <1>8, <1>9, <1>10, <1>11, <1>12 DEF there

LEMMA CompleteIsMeasured ==
  ASSUME NEW m \in Nat, NEW n \in Nat, NEW gaps, MeasurementReason(m, n, gaps) = "complete"
  PROVE  MeasurementState(m, n) = "measured"
<1>1. n # 0
  <2>1. n = 0 => MeasurementReason(m, n, gaps) = "no_usage"
    BY DEF MeasurementReason
  <2> QED BY <2>1
<1>2. m >= n
  <2>1. ~(m >= n) => MeasurementReason(m, n, gaps) \in
          {"population_without_usage", "mixed_no_usage_and_data_gap", "historical_unavailable",
           "mixed_history_and_current_gap", "current_data_gap"}
    BY <1>1 DEF MeasurementReason
  <2> QED BY <2>1
<1>3. m # 0 /\ ~(m < n)
  BY <1>1, <1>2
<1> QED BY <1>1, <1>3 DEF MeasurementState
LEMMA DetailsAgree ==
  ASSUME AnalyticsReportTypeOK, NEW w \in Window
  PROVE  DetailAgrees(w)
<1> SUFFICES ASSUME NEW p \in members
             PROVE  LET d == UserDetail(p, w)
                        row == UsersOf("user_map", w, All, All, All)[p.id]
                    IN /\ row.questions = d.questions /\ row.days = d.days
                       /\ row.delivery = d.delivery /\ row.last = d.last
                       /\ d.questions > 0 => \E t \in d.last : w[1] <= t /\ t < w[2]
                       /\ d.questions + d.area.questions =
                            Cardinality(EventsOf(Selected("user_map", All, p.area), w, All))
                       /\ d.area.reason = "complete" => d.area.state = "measured"
  BY DEF DetailAgrees
<1> DEFINE d == UserDetail(p, w)
           rows == UserDetailEvents(w, p.id)
           peer == PeerComparison(p, w, LAMBDA o : o.area)
<1>1. d.questions = Cardinality(rows) /\ d.last = LastActive(p.id, w[2]) /\ d.area = peer
  BY DEF UserDetail
<1>2. ASSUME Cardinality(rows) > 0 PROVE \E t \in LastActive(p.id, w[2]) : w[1] <= t /\ t < w[2]
  <2>1. rows # {}
    BY <1>2, FS_EmptySet
  <2> QED BY <2>1, LastInWindow
<1>3. peer.reason = "complete" => peer.state = "measured"
  <2> DEFINE peers == {o \in Selected("user_map", All, All) : o.id # p.id /\ o.area = p.area}
             known == {o \in peers :
               CompleteDelivery(By(OverviewEvents(w, All), o.id)).coverage.measured > 0}
             gaps == UNION {GapsOfReason(
               CompleteDelivery(By(OverviewEvents(w, All), o.id)).coverage.reason) :
                 o \in peers \ known}
             m == Cardinality(known)
             n == Cardinality(peers)
  <2>1. /\ peer.reason = MeasurementReason(m, n, gaps)
        /\ peer.state = MeasurementState(m, n)
    BY DEF PeerComparison
  <2>2. IsFiniteSet(peers) /\ IsFiniteSet(known)
    BY SelectedFinite, FS_Subset
  <2> HIDE DEF peers, known, gaps
  <2>3. m \in Nat /\ n \in Nat
    BY <2>2, FS_CardinalityType
  <2> HIDE DEF m, n, peer
  <2> QED BY <2>1, <2>3, CompleteIsMeasured
<1>4. Cardinality(rows) + peer.questions
        = Cardinality(EventsOf(Selected("user_map", All, p.area), w, All))
  BY PeersAddUp
<1>5. LET row == UsersOf("user_map", w, All, All, All)[p.id]
      IN /\ row.questions = d.questions /\ row.days = d.days
         /\ row.delivery = d.delivery /\ row.last = d.last
  BY DetailIsRow
<1> HIDE DEF d, rows, peer
<1> QED BY <1>1, <1>2, <1>3, <1>4, <1>5 DEF d

----------------------------------------------------------------------------
(* Days and hours.                                                         *)

LEMMA DayOfHours ==
  /\ DayLength \in Nat \ {0} /\ HourLength \in Nat \ {0}
  /\ \E hours \in Nat \ {0} : DayLength = HourLength * hours
<1>1. PICK hours \in 1..DayLength : DayLength = HourLength * hours
  BY AnalyticsAssumption
<1>2. hours \in Nat \ {0} /\ HourLength \in Nat \ {0} /\ DayLength \in Nat
  BY AnalyticsAssumption
<1>3. HourLength * hours # 0
  BY <1>2
<1> QED BY <1>1, <1>2, <1>3

(* The hours of a day follow one another without a gap.                    *)
LEMMA HourOfDay ==
  ASSUME NEW hours \in Nat \ {0}, DayLength = HourLength * hours, NEW t \in Nat
  PROVE  HourOf(t) = (t \div HourLength) % hours
<1> DEFINE j == t \div HourLength
           r == t % HourLength
           q == j \div hours
           m == j % hours
<1>1. /\ HourLength \in Nat \ {0} /\ DayLength \in Nat \ {0}
      /\ j \in Int /\ r \in 0..HourLength - 1 /\ t = HourLength * j + r
  BY DayOfHours, DivMod
<1> HIDE DEF j, r
<1>2. q \in Int /\ m \in 0..hours - 1 /\ j = hours * q + m
  BY <1>1, DivMod
<1> HIDE DEF q, m
<1>3. HourLength * m + r \in 0..DayLength - 1
  <2>1. HourLength * m <= HourLength * (hours - 1)
    BY <1>1, <1>2
  <2>2. HourLength * (hours - 1) = DayLength - HourLength
    BY <1>1
  <2>3. HourLength * m \in Nat
    BY <1>1, <1>2
  <2> QED BY <1>1, <2>1, <2>2, <2>3
<1>4. t = DayLength * q + (HourLength * m + r)
  <2>1. HourLength * j = HourLength * (hours * q) + HourLength * m
    BY <1>1, <1>2
  <2>2. HourLength * (hours * q) = DayLength * q
    BY <1>1, <1>2
  <2>3. HourLength * m \in Int /\ DayLength * q \in Int /\ HourLength * j \in Int
    BY <1>1, <1>2
  <2> QED BY <1>1, <2>1, <2>2, <2>3
<1>5. t % DayLength = HourLength * m + r
  <2> DEFINE x == HourLength * m + r
  <2>1. /\ x \in 0..DayLength - 1 /\ t = DayLength * q + x
        /\ DayLength \in Nat \ {0} /\ t \in Int /\ q \in Int
    BY <1>1, <1>2, <1>3, <1>4
  <2> HIDE DEF x
  <2>2. t % DayLength = x
    BY <2>1, DivUnique
  <2> QED BY <2>2 DEF x
<1>6. (HourLength * m + r) \div HourLength = m
  <2>1. HourLength * m + r \in Int /\ m \in Int
    BY <1>1, <1>2
  <2> QED BY <1>1, <2>1, DivUnique
<1> QED BY <1>5, <1>6 DEF HourOf, m, j

LEMMA PublishedDatesCover ==
  ASSUME AnalyticsReportTypeOK, NEW w \in Window, NEW t \in Nat,
         w[1] <= t, t < w[2], t < reached
  PROVE  Date(t) \in PublishedDates(w) /\ t < EffectiveEnd(w) /\ ~(EffectiveEnd(w) <= w[1])
<1>1. w[1] \in Nat /\ w[2] \in Nat /\ reached \in Nat /\ DayLength \in Nat \ {0}
  BY AnalyticsAssumption, PublishedState, DayOfHours
<1> DEFINE x == EffectiveEnd(w)
<1>2. x \in Nat /\ t < x /\ w[1] <= t
  BY <1>1 DEF EffectiveEnd, Lower
<1> HIDE DEF x
<1>3. w[1] \div DayLength <= t \div DayLength /\ t \div DayLength <= (x - 1) \div DayLength
  BY <1>1, <1>2, DivMono
<1>4. /\ w[1] \div DayLength \in Int /\ t \div DayLength \in Int
      /\ (x - 1) \div DayLength \in Int
  BY <1>1, <1>2, DivMod
<1>5. ~(x <= w[1])
  BY <1>1, <1>2
<1> QED BY <1>2, <1>3, <1>4, <1>5 DEF PublishedDates, LocalDates, Date, x

LEMMA ChartDomains ==
  ASSUME AnalyticsReportTypeOK, NEW w \in Window
  PROVE  IsFiniteSet(PublishedDates(w)) /\ IsFiniteSet(PublishedHours(w))
<1> DEFINE x == EffectiveEnd(w)
<1>1. w[1] \in Nat /\ x \in Nat /\ DayLength \in Nat \ {0} /\ HourLength \in Nat \ {0}
  BY AnalyticsAssumption, PublishedState, DayOfHours DEF EffectiveEnd, Lower
<1>2. Date(w[1]) \in Int /\ Date(x - 1) \in Int /\ (DayLength \div HourLength) - 1 \in Int
  <2> HIDE DEF x
  <2> QED BY <1>1, DivMod DEF Date
<1> HIDE DEF x
<1>3. IsFiniteSet(Date(w[1])..Date(x - 1)) /\ IsFiniteSet(0..(DayLength \div HourLength) - 1)
  BY <1>2, FS_Interval
<1>4. IsFiniteSet({HourOf(t) : t \in {t \in w[1]..x - 1 : t % HourLength = 0}})
  <2> DEFINE T == {t \in w[1]..x - 1 : t % HourLength = 0}
             h == [t \in T |-> HourOf(t)]
  <2>1. IsFiniteSet(w[1]..x - 1)
    BY <1>1, FS_Interval
  <2>2. IsFiniteSet(T)
    BY <2>1, FS_Subset
  <2> HIDE DEF T
  <2>3. IsFiniteSet({h[t] : t \in T})
    BY <2>2, KeysOf
  <2>4. {h[t] : t \in T} = {HourOf(t) : t \in T}
    OBVIOUS
  <2> QED BY <2>3, <2>4 DEF T
<1> QED BY <1>3, <1>4, FS_EmptySet DEF PublishedDates, PublishedHours, LocalDates, x

(* A question of the published period falls in an hour of the chart,       *)
(* unless that hour began before the window did.                           *)
LEMMA PublishedHoursCover ==
  ASSUME AnalyticsReportTypeOK, NEW w \in Window, NEW t \in Nat,
         w[1] <= t, t < w[2], t < reached, HourOf(t) \notin PublishedHours(w)
  PROVE  w[1] % HourLength # 0 /\ HourOf(t) = HourOf(w[1])
<1> DEFINE x == EffectiveEnd(w)
           j == t \div HourLength
           r == t % HourLength
           s == HourLength * j
<1>1. PICK hours \in Nat \ {0} : DayLength = HourLength * hours
  BY DayOfHours
<1>2. /\ HourLength \in Nat \ {0} /\ DayLength \in Nat \ {0} /\ w[1] \in Nat
      /\ x \in Nat /\ t < x /\ ~(x <= w[1])
  BY DayOfHours, AnalyticsAssumption, PublishedState, PublishedDatesCover DEF EffectiveEnd, Lower
<1>3. HourOf(t) = j % hours /\ j \in Nat /\ r \in 0..HourLength - 1 /\ t = s + r /\ s \in Nat
  <2>1. HourOf(t) = j % hours
    BY <1>1, HourOfDay
  <2>2. j \in Nat /\ r \in 0..HourLength - 1 /\ t = HourLength * j + r
    <3>1. HourLength \in Nat \ {0} /\ t \in Int
      BY <1>2
    <3>2. j \in Nat
      BY <3>1, DivType
    <3>3. /\ t \div HourLength \in Int /\ t % HourLength \in 0..HourLength - 1
          /\ t = HourLength * (t \div HourLength) + (t % HourLength)
      BY <3>1, DivMod
    <3> QED BY <3>2, <3>3
  <2> HIDE DEF j, r
  <2>3. HourLength * j \in Nat
    BY <1>2, <2>2
  <2> QED BY <2>1, <2>2, <2>3
<1>4. DayLength \div HourLength = hours
  <2>1. DayLength = HourLength * hours + 0 /\ 0 \in 0..HourLength - 1 /\ DayLength \in Int
    BY <1>1, <1>2
  <2> QED BY <1>2, <2>1, DivUnique
<1>5. HourOf(t) \in 0..hours - 1
  BY <1>1, <1>3, DivMod
<1>6. PublishedHours(w) = {HourOf(u) : u \in {u \in w[1]..x - 1 : u % HourLength = 0}}
  BY <1>2, <1>4, <1>5 DEF PublishedHours
<1>7. s \div HourLength = j /\ s % HourLength = 0
  <2>1. s = HourLength * j + 0 /\ 0 \in 0..HourLength - 1 /\ s \in Int /\ j \in Int
    BY <1>2, <1>3
  <2> HIDE DEF s, j
  <2> QED BY <1>2, <2>1, DivUnique
<1>8. HourOf(s) = HourOf(t)
  BY <1>1, <1>3, <1>7, HourOfDay
<1>9. s < w[1]
  <2>1. s <= x - 1
    BY <1>2, <1>3
  <2>2. CASE w[1] <= s
    <3>1. s \in {u \in w[1]..x - 1 : u % HourLength = 0}
      BY <1>2, <1>3, <1>7, <2>1, <2>2
    <3> QED BY <1>6, <1>8, <3>1
  <2> QED BY <1>2, <1>3, <2>2
<1> DEFINE q == w[1] - s
<1>10. w[1] = HourLength * j + q /\ q \in 1..HourLength - 1
  BY <1>2, <1>3, <1>9
<1>11. w[1] \div HourLength = j /\ w[1] % HourLength = q
  <2>1. w[1] = HourLength * j + q /\ q \in 0..HourLength - 1 /\ w[1] \in Int /\ j \in Int
    BY <1>2, <1>3, <1>10
  <2> HIDE DEF q, j
  <2> QED BY <1>2, <2>1, DivUnique
<1>12. HourOf(w[1]) = j % hours
  BY <1>1, <1>2, <1>11, HourOfDay
<1> QED BY <1>3, <1>10, <1>11, <1>12

LEMMA ChartsAgree ==
  ASSUME AnalyticsReportTypeOK, NEW w \in Window, NEW c
  PROVE  ChartsCover(w, c)
<1> DEFINE R == Rows(w, c)
           axes == UsageAxes(R, w)
           charted == {e \in R : Date(e.at) \in DOMAIN axes.trend}
           timed == {e \in R : HourOf(e.at) \in DOMAIN axes.hours}
           f == [d \in DOMAIN axes.trend |-> axes.trend[d].questions]
           g == [h \in DOMAIN axes.hours |-> axes.hours[h]]
           day == [e \in R |-> Date(e.at)]
           hour == [e \in R |-> HourOf(e.at)]
<1>1. /\ IsFiniteSet(R)
      /\ \A e \in R : e.at \in Nat /\ w[1] <= e.at /\ e.at < w[2]
  BY SelectedFinite, RowsFinite DEF Rows, Askers
<1> HIDE DEF R
<1>2. /\ DOMAIN axes.trend = PublishedDates(w) /\ DOMAIN axes.hours = PublishedHours(w)
      /\ \A d \in PublishedDates(w) :
           axes.trend[d].questions = Cardinality({e \in R : Date(e.at) = d})
      /\ \A h \in PublishedHours(w) : axes.hours[h] = Cardinality({e \in R : HourOf(e.at) = h})
  BY DEF UsageAxes
<1> HIDE DEF axes
<1>3. IsFiniteSet(charted) /\ IsFiniteSet(timed)
  BY <1>1, FS_Subset
<1>4. SumFunction(f) = Cardinality(charted)
  <2>1. \A d \in DOMAIN f : {e \in R : Date(e.at) = d} = {e \in charted : day[e] = d}
    BY <1>2
  <2>2. /\ IsFiniteSet(DOMAIN f) /\ \A e \in charted : day[e] \in DOMAIN f
        /\ \A d \in DOMAIN f : f[d] = Cardinality({e \in charted : day[e] = d})
    BY <1>2, <2>1, ChartDomains
  <2> HIDE DEF f, charted, day
  <2> QED BY <1>3, <2>2, SumOfCounts
<1>5. SumFunction(g) = Cardinality(timed)
  <2>1. \A h \in DOMAIN g : {e \in R : HourOf(e.at) = h} = {e \in timed : hour[e] = h}
    BY <1>2
  <2>2. /\ IsFiniteSet(DOMAIN g) /\ \A e \in timed : hour[e] \in DOMAIN g
        /\ \A h \in DOMAIN g : g[h] = Cardinality({e \in timed : hour[e] = h})
    BY <1>2, <2>1, ChartDomains
  <2> HIDE DEF g, timed, hour
  <2> QED BY <1>3, <2>2, SumOfCounts
<1>6. reached \in Nat
  BY PublishedState
<1>7. \A e \in R \ charted : e.at >= reached
  BY <1>1, <1>2, <1>6, PublishedDatesCover
<1>8. \A e \in R \ timed : \/ e.at >= reached
                           \/ w[1] % HourLength # 0 /\ HourOf(e.at) = HourOf(w[1])
  BY <1>1, <1>2, <1>6, PublishedHoursCover
<1> QED BY <1>4, <1>5, <1>7, <1>8 DEF ChartsCover, Sum, R, Rows, Askers, axes

----------------------------------------------------------------------------
(* Who asked lately is not dormant.                                        *)

LEMMA LevelOfActive ==
  ASSUME NEW rows, NEW end, IsFiniteSet(rows), ActiveDays(rows, end) # {}
  PROVE  ActivityLevel(rows, end) # "dormant"
<1> DEFINE date == [e \in rows |-> Date(e.at)]
           days == ActiveDays(rows, end)
<1>1. IsFiniteSet({date[e] : e \in rows}) /\ {date[e] : e \in rows} = DaysOf(rows)
  BY KeysOf DEF DaysOf
<1>2. days \subseteq DaysOf(rows)
  BY DEF ActiveDays
<1>3. IsFiniteSet(days) /\ days # {}
  BY <1>1, <1>2, FS_Subset
<1> HIDE DEF days
<1>4. Cardinality(days) \in Nat /\ Cardinality(days) # 0
  BY <1>3, FS_CardinalityType, FS_EmptySet
<1>5. Cardinality(days) >= 1
  BY <1>4
<1> QED BY <1>5 DEF ActivityLevel, days

(* The dates of a window no longer than the level looks at are among those *)
(* of the level, and their questions among the questions it reads.         *)
LEMMA AskedLately ==
  ASSUME NEW w \in Window, NEW t \in Nat, w[1] <= t, t < w[2],
         Cardinality(LocalDates(w[1], w[2])) <= ActivityDays
  PROVE  /\ Date(w[2] - 1) - Date(t) \in 0..ActivityDays - 1
         /\ w[2] - ActivityDays * DayLength <= t
<1> DEFINE a == w[1] \div DayLength
           b == (w[2] - 1) \div DayLength
           d == t \div DayLength
<1>1. /\ w[1] \in Nat /\ w[2] \in Nat /\ DayLength \in Nat \ {0}
      /\ ActivityDays \in Nat \ {0}
  BY AnalyticsAssumption, DayOfHours
<1>2. a \in Int /\ b \in Int /\ d \in Int
  <2>1. w[1] \in Int /\ w[2] - 1 \in Int /\ t \in Int
    BY <1>1
  <2> QED BY <1>1, <2>1
<1>3. a <= d /\ d <= b
  BY <1>1, DivMono
<1>4. /\ t = DayLength * d + (t % DayLength) /\ t % DayLength \in 0..DayLength - 1
      /\ w[2] - 1 = DayLength * b + ((w[2] - 1) % DayLength)
      /\ (w[2] - 1) % DayLength \in 0..DayLength - 1
  <2>1. w[2] - 1 \in Int /\ t \in Int
    BY <1>1
  <2> QED BY <1>1, <2>1, DivMod
<1>5. Cardinality(a..b) = b - a + 1
  <2> HIDE DEF a, b
  <2> QED BY <1>2, <1>3, FS_Interval
<1>6. LocalDates(w[1], w[2]) = a..b
  BY DEF LocalDates, Date
<1>7. b - d \in 0..ActivityDays - 1
  <2> HIDE DEF a, b, d
  <2> QED BY <1>1, <1>2, <1>3, <1>5, <1>6
<1>8. w[2] - ActivityDays * DayLength <= t
  <2> DEFINE x == t % DayLength
             y == (w[2] - 1) % DayLength
  <2>1. x \in 0..DayLength - 1 /\ y \in 0..DayLength - 1
        /\ t = DayLength * d + x /\ w[2] - 1 = DayLength * b + y
    BY <1>4
  <2> HIDE DEF b, d, x, y
  <2>2. DayLength * b <= DayLength * (d + ActivityDays - 1)
    BY <1>1, <1>2, <1>7
  <2>3. DayLength * (d + ActivityDays - 1)
          = DayLength * d + ActivityDays * DayLength - DayLength
    BY <1>1, <1>2
  <2> QED BY <1>1, <1>2, <2>1, <2>2, <2>3
<1> QED BY <1>7, <1>8 DEF Date

LEMMA LevelsAgree ==
  ASSUME AnalyticsReportTypeOK, NEW w \in Window, NEW c
  PROVE  LevelsFollowUse(w, c)
<1> DEFINE users == UsersOf("global", w, All, c, All)
           levels == Levels(Askers(c), w, All)
<1> SUFFICES ASSUME Cardinality(LocalDates(w[1], w[2])) <= ActivityDays,
                    NEW id \in DOMAIN users, users[id].questions > 0
             PROVE  users[id].activity # "dormant"
  BY DEF LevelsFollowUse
<1>1. PICK e \in Rows(w, c) : e.person = id
  <2>1. By(Rows(w, c), id) # {}
    BY UserSums
  <2> QED BY <2>1 DEF By
<1>2. id \in Ids(Askers(c)) /\ users[id].activity = levels[id]
  <2>1. Ids(Askers(c)) = Ids({p \in Askers(c) : All \in {All, levels[p.id]}})
    BY DEF Ids
  <2> QED BY <2>1, UserFields
<1>3. e \in asked /\ e.valid /\ e.at \in Nat /\ w[1] <= e.at /\ e.at < w[2]
  BY RowsOf, PublishedState DEF Rows
<1> DEFINE rows == By(ActivityEvents(w[2], All), id)
<1>4. levels[id] = ActivityLevel(rows, w[2])
  BY <1>2 DEF Levels
<1>5. /\ Date(w[2] - 1) - Date(e.at) \in 0..ActivityDays - 1
      /\ w[2] - ActivityDays * DayLength <= e.at
  BY <1>3, AskedLately
<1>6. e \in rows
  BY <1>1, <1>3, <1>5 DEF By, ActivityEvents, OverviewEvents
<1>7. IsFiniteSet(rows)
  <2>1. rows \subseteq asked
    BY DEF By, ActivityEvents, OverviewEvents
  <2> QED BY <2>1, PublishedState, FS_Subset
<1> HIDE DEF rows
<1>8. ActiveDays(rows, w[2]) # {}
  BY <1>5, <1>6 DEF ActiveDays, DaysOf
<1> QED BY <1>2, <1>4, <1>7, <1>8, LevelOfActive

(* Once there is a publication, the overview, the regions, the user lists, *)
(* the details and the panels agree, for any roster, questions and window. *)
THEOREM PublishedViewsAgree == AnalyticsReportSpec => []ViewsAgree
<1>1. AnalyticsReportTypeOK => ViewsAgree
  BY DetailsAgree, PartsAgree, ChartsAgree, LevelsAgree DEF ViewsAgree
<1> QED BY <1>1, AnalyticsTypeCorrect, PTL

----------------------------------------------------------------------------
(* The state of the news: what a publication admits.                       *)

THEOREM NewsReportTypeCorrect == NewsReportSpec => []NewsReportTypeOK
<1>1. NewsReportInit => NewsReportTypeOK
  BY DEF NewsReportInit, NewsReportTypeOK
<1>2. NewsReportTypeOK /\ [NewsReportNext]_newsVars => NewsReportTypeOK'
  <2> SUFFICES ASSUME NewsReportTypeOK, [NewsReportNext]_newsVars
               PROVE  NewsReportTypeOK'
    OBVIOUS
  <2>1. CASE UNCHANGED newsVars
    BY <2>1 DEF newsVars, NewsReportTypeOK
  <2>2. CASE NewsReportNext
    <3>1. PICK t \in Measured..MaxNewsTime, people \in PinnedRosters :
            \E batch \in SUBSET {e \in Delivery \ published : e.logged < t} :
              Publish(t, batch, people)
      BY <2>2 DEF NewsReportNext
    <3>2. PICK batch \in SUBSET {e \in Delivery \ published : e.logged < t} :
            Publish(t, batch, people)
      BY <3>1
    <3> DEFINE new == {e \in batch : ~Quarantined(e, batch)}
    <3>3. published' = published \cup new /\ through' = t /\ roster' = people /\ t > through
      BY <3>2 DEF Publish
    <3>4. through \in Nat /\ t \in Nat /\ \A e \in Delivery : e.logged \in Nat /\ e.at \in Nat
      BY NewsReportAssumption DEF NewsReportTypeOK
    <3>5. \A e \in published : e.logged < t
      BY <3>3, <3>4 DEF NewsReportTypeOK
    <3>6. \A e \in new : /\ e \in Delivery /\ e.logged < t /\ e.at >= Measured
                         /\ e.channel \in {"news", "society"}
                         /\ e.name \in Exporting => e.op # NoValue
                         /\ e.name = "export_started" => e.snapshot
                         /\ \A f \in published \cup batch : f.id = e.id => f = e
      BY <3>4, NewsReportAssumption DEF Quarantined
    <3> HIDE DEF new
    <3>7. \A e, f \in published \cup new : e.id = f.id => e = f
      <4>1. new \subseteq batch
        BY DEF new
      <4> QED BY <3>6, <4>1 DEF NewsReportTypeOK
    <3>8. \A e \in published \cup new :
            /\ e.at >= Measured /\ e.channel \in {"news", "society"} /\ e.logged < t
            /\ e.name \in Exporting => e.op # NoValue
            /\ e.name = "export_started" => e.snapshot
      BY <3>5, <3>6 DEF NewsReportTypeOK
    <3>9. published \cup new \subseteq Delivery
      BY <3>6 DEF NewsReportTypeOK
    <3> QED BY <3>3, <3>7, <3>8, <3>9 DEF NewsReportTypeOK
  <2> QED BY <2>1, <2>2
<1> QED BY <1>1, <1>2, PTL DEF NewsReportSpec

LEMMA PublishedNews ==
  ASSUME NewsReportTypeOK
  PROVE  /\ IsFiniteSet(published) /\ IsFiniteSet(roster) /\ through \in Nat
         /\ Measured \in Nat /\ published \subseteq Delivery
         /\ \A e \in Delivery : e.id \in Nat /\ e.at \in Nat
         /\ \A p, o \in roster : p.area # NoChoice /\ (p.id = o.id => p = o)
<1>1. IsFiniteSet(published)
  BY NewsReportAssumption, FS_Subset DEF NewsReportTypeOK
<1>2. IsFiniteSet(roster)
  BY NewsReportAssumption, FS_EmptySet DEF NewsReportTypeOK
<1>3. through \in Nat /\ Measured \in Nat
  BY NewsReportAssumption DEF NewsReportTypeOK
<1> QED BY <1>1, <1>2, <1>3, NewsReportAssumption DEF NewsReportTypeOK

LEMMA RosterPerson ==
  ASSUME NewsReportTypeOK, NEW p \in roster
  PROVE  PersonOf(p.id) = p
<1>1. \A o \in roster : o.id = p.id => o = p
  BY PublishedNews
<1> DEFINE o == CHOOSE o \in roster : o.id = p.id
<1>2. o \in roster /\ o.id = p.id
  OBVIOUS
<1> QED BY <1>1, <1>2 DEF PersonOf

----------------------------------------------------------------------------
(* What a request reads, and what attribution changes of it.               *)

LEMMA ReadRows ==
  ASSUME NewsReportTypeOK, NEW q \in Request
  PROVE  /\ IsFiniteSet(Read(q))
         /\ \A e \in Read(q) : /\ e \in published /\ e \in Delivery
                                /\ e.at \in Nat /\ q.from <= e.at /\ e.at < q.to
                                /\ Measured <= e.at /\ e.channel \in {"news", "society"}
<1>1. Read(q) \subseteq published
  BY DEF Read, PublishedRows
<1>2. IsFiniteSet(Read(q))
  BY <1>1, PublishedNews, FS_Subset
<1>3. \A e \in Read(q) : q.from <= e.at /\ e.at < q.to
  BY DEF Read
<1>4. \A e \in published : /\ e \in Delivery /\ e.at \in Nat /\ Measured <= e.at
                           /\ e.channel \in {"news", "society"}
  BY PublishedNews DEF NewsReportTypeOK
<1> QED BY <1>1, <1>2, <1>3, <1>4

LEMMA StartsHaveFilters ==
  ASSUME NewsReportTypeOK, NEW e \in published, e.name = "export_started"
  PROVE  e.snapshot
  BY DEF NewsReportTypeOK

(* Two forms of a row that differ at most in their filters.                *)
Alike(x, e) ==
  /\ x.id = e.id /\ x.person = e.person /\ x.at = e.at /\ x.name = e.name
  /\ x.channel = e.channel /\ x.op = e.op /\ x.unit = e.unit
  /\ x.snapshot = e.snapshot /\ x.context = e.context /\ x.article = e.article

Earliest(starts) == CHOOSE s \in starts : \A o \in starts \ {s} : Before(s, o)

LEMMA AttributeForms ==
  ASSUME NEW e \in Delivery, NEW rows
  PROVE  LET x == Attribute(e, rows)
         IN /\ Alike(x, e)
            /\ ~Finish(e) \/ e.snapshot \/ Starts(e, rows) = {} => x = e
            /\ Finish(e) /\ ~e.snapshot /\ Starts(e, rows) # {} =>
                 x.filter = Earliest(Starts(e, rows)).filter
<1> DEFINE v == Earliest(Starts(e, rows)).filter
           x == Attribute(e, rows)
<1>1. x = IF ~Finish(e) \/ e.snapshot \/ Starts(e, rows) = {} THEN e
          ELSE [e EXCEPT !.filter = v]
  BY DEF Attribute, Earliest
<1> HIDE DEF v
<1>2. Alike([e EXCEPT !.filter = v], e) /\ [e EXCEPT !.filter = v].filter = v
  <2>1. e = [id |-> e.id, person |-> e.person, at |-> e.at, logged |-> e.logged,
             name |-> e.name, channel |-> e.channel, op |-> e.op, unit |-> e.unit,
             filter |-> e.filter, snapshot |-> e.snapshot, context |-> e.context,
             article |-> e.article]
    BY NewsReportAssumption
  <2> DEFINE y == [e EXCEPT !.filter = v]
  <2>2. y = [id |-> e.id, person |-> e.person, at |-> e.at, logged |-> e.logged,
             name |-> e.name, channel |-> e.channel, op |-> e.op, unit |-> e.unit,
             filter |-> v, snapshot |-> e.snapshot, context |-> e.context,
             article |-> e.article]
    BY <2>1
  <2> HIDE DEF y
  <2>3. Alike(y, e) /\ y.filter = v
    BY <2>2 DEF Alike
  <2> QED BY <2>3 DEF y
<1> HIDE DEF x
<1>3. Alike(e, e)
  BY DEF Alike
<1> QED BY <1>1, <1>2, <1>3 DEF v, x

(* Of rows with ids of their own, one comes before the others.             *)
LEMMA EarliestStart ==
  ASSUME NewsReportTypeOK, NEW starts \in SUBSET published, starts # {}
  PROVE  Earliest(starts) \in starts
<1> DEFINE at == [s \in starts |-> s.at]
<1>1. IsFiniteSet(starts) /\ \A s \in starts : s.at \in Nat /\ s.id \in Nat
  BY PublishedNews, FS_Subset
<1>2. PICK m \in starts : \A s \in starts : m.at <= s.at
  <2>1. \A s \in starts : at[s] = s.at /\ at[s] \in Int
    BY <1>1
  <2> HIDE DEF at
  <2>2. \E m \in starts : \A s \in starts : at[m] <= at[s]
    BY <1>1, <2>1, LeastValue
  <2> QED BY <2>1, <2>2
<1> DEFINE first == {s \in starts : s.at = m.at}
           id == [s \in first |-> s.id]
<1>3. PICK n \in first : \A s \in first : n.id <= s.id
  <2>1. IsFiniteSet(first) /\ first # {}
    BY <1>1, FS_Subset
  <2>2. \A s \in first : id[s] = s.id /\ id[s] \in Int
    BY <1>1
  <2> HIDE DEF first, id
  <2>3. \E n \in first : \A s \in first : id[n] <= id[s]
    BY <2>1, <2>2, LeastValue
  <2> QED BY <2>2, <2>3
<1>4. \A o \in starts \ {n} : Before(n, o)
  <2> SUFFICES ASSUME NEW o \in starts, o # n PROVE Before(n, o)
    OBVIOUS
  <2>1. n.id # o.id
    BY DEF NewsReportTypeOK
  <2>2. n.at <= o.at /\ (n.at = o.at => n.id <= o.id)
    BY <1>2, <1>3
  <2> QED BY <1>1, <2>1, <2>2 DEF Before
<1> QED BY <1>4 DEF Earliest

(* The rows of a report are rows read, under the filters of their starts,  *)
(* each of a person asked about.                                           *)
LEMMA AttributedRows ==
  ASSUME NewsReportTypeOK, NEW q \in Request
  PROVE  /\ IsFiniteSet(Attributed(Read(q)))
         /\ \A x \in Attributed(Read(q)) :
              \E e \in Read(q) : x = Attribute(e, Read(q)) /\ Alike(x, e)
<1> DEFINE form == [e \in Read(q) |-> Attribute(e, Read(q))]
<1>1. IsFiniteSet({form[e] : e \in Read(q)})
  BY ReadRows, KeysOf
<1>2. {form[e] : e \in Read(q)} = Attributed(Read(q))
  BY DEF Attributed
<1>3. ASSUME NEW e \in Read(q) PROVE Alike(Attribute(e, Read(q)), e)
  <2>1. e \in Delivery
    BY ReadRows
  <2> QED BY <2>1, AttributeForms
<1> HIDE DEF form
<1> QED BY <1>1, <1>2, <1>3 DEF Attributed

LEMMA FilteredRows ==
  ASSUME NewsReportTypeOK, NEW q \in Request
  PROVE  /\ IsFiniteSet(Filtered(q))
         /\ \A x \in Filtered(q) :
              /\ x.at \in Nat /\ q.from <= x.at /\ x.at < q.to /\ Measured <= x.at
              /\ x.channel \in {"news", "society"} /\ x.person \in PeopleIds(Audience(q))
              /\ PersonOf(x.person) \in Audience(q) /\ PersonOf(x.person).id = x.person
<1>1. Filtered(q) \subseteq Attributed(Read(q))
  BY DEF Filtered, Matching
<1>2. IsFiniteSet(Filtered(q))
  BY <1>1, AttributedRows, FS_Subset
<1>3. ASSUME NEW x \in Filtered(q)
      PROVE  /\ x.at \in Nat /\ q.from <= x.at /\ x.at < q.to /\ Measured <= x.at
             /\ x.channel \in {"news", "society"}
  <2>1. PICK e \in Read(q) : Alike(x, e)
    BY <1>1, AttributedRows
  <2>2. /\ e.at \in Nat /\ q.from <= e.at /\ e.at < q.to /\ Measured <= e.at
        /\ e.channel \in {"news", "society"}
    BY ReadRows
  <2>3. x.at = e.at /\ x.channel = e.channel
    BY <2>1 DEF Alike
  <2> QED BY <2>2, <2>3
<1>4. ASSUME NEW x \in Filtered(q)
      PROVE  /\ x.person \in PeopleIds(Audience(q))
             /\ PersonOf(x.person) \in Audience(q) /\ PersonOf(x.person).id = x.person
  <2>1. x.person \in PeopleIds(Audience(q))
    BY DEF Filtered, Matching
  <2>2. PICK p \in Audience(q) : p.id = x.person
    BY <2>1 DEF PeopleIds
  <2>3. PersonOf(x.person) = p
    BY <2>2, RosterPerson DEF Audience
  <2> QED BY <2>1, <2>2, <2>3
<1> QED BY <1>2, <1>3, <1>4

----------------------------------------------------------------------------
(* Exports under a filter.                                                 *)

LEMMA NeverRefused ==
  ASSUME NewsReportTypeOK, NEW q \in Request
  PROVE  Availability(q) # "refused"
<1>1. Read(q) \subseteq published
  BY DEF Read, PublishedRows
<1>2. ~Refused(q)
  BY <1>1 DEF Refused, NewsReportTypeOK
<1> QED BY <1>2 DEF Availability

(* The terminal of an export shown as started is shown as well.            *)
LEMMA TerminalIsShown ==
  ASSUME NewsReportTypeOK, NEW q \in Request, NEW x \in Filtered(q),
         NEW y \in Attributed(Read(q)),
         x.name = "export_started", y.name = "export_finished", Operation(x) = Operation(y)
  PROVE  y \in Filtered(q)
<1> DEFINE rows == Read(q)
<1>1. x \in Attributed(rows) /\ x.person \in PeopleIds(Audience(q)) /\ Matches(x, q)
  BY DEF Filtered, Matching
<1>2. PICK s \in rows : x = Attribute(s, rows) /\ Alike(x, s)
  BY <1>1, AttributedRows
<1>3. PICK e \in rows : y = Attribute(e, rows) /\ Alike(y, e)
  BY AttributedRows
<1>4. /\ s \in Delivery /\ e \in Delivery /\ rows \subseteq published
      /\ \A o \in rows : o \in Delivery /\ (o.name = "export_started" => o.snapshot)
  BY ReadRows, StartsHaveFilters
<1>5. /\ s.name = "export_started" /\ e.name = "export_finished"
      /\ s.snapshot /\ Operation(s) = Operation(e)
  BY <1>2, <1>3, <1>4 DEF Alike, Operation
<1>6. x = s
  BY <1>2, <1>4, <1>5, AttributeForms DEF Finish
<1>7. y.unit = x.unit /\ y.article = x.article
  <2>1. e.unit = s.unit /\ e.article = s.article
    BY <1>4, <1>5, NewsReportAssumption DEF Exporting, Operation
  <2> QED BY <1>3, <1>6, <2>1 DEF Alike
<1>8. y.person = x.person /\ y.channel = x.channel
  BY DEF Operation
<1>9. y.filter = x.filter
  <2>1. CASE e.snapshot
    <3>1. y = e
      BY <1>3, <1>4, <2>1, AttributeForms
    <3>2. e.filter = s.filter
      BY <1>4, <1>5, <2>1, NewsReportAssumption DEF Exporting, Operation
    <3> QED BY <1>6, <3>1, <3>2
  <2>2. CASE ~e.snapshot
    <3> DEFINE starts == Starts(e, rows)
               o == Earliest(starts)
    <3>1. s \in starts /\ starts \subseteq rows
      BY <1>5 DEF Starts
    <3>2. o \in starts
      BY <1>4, <3>1, EarliestStart
    <3>3. y.filter = o.filter
      BY <1>3, <1>4, <1>5, <2>2, <3>1, AttributeForms DEF Finish
    <3>4. o \in rows /\ o.name = "export_started" /\ Operation(o) = Operation(e)
      BY <3>2 DEF Starts
    <3> HIDE DEF o, starts
    <3>5. o.snapshot /\ o \in Delivery
      BY <1>4, <3>4
    <3>6. o.filter = s.filter
      BY <1>4, <1>5, <3>4, <3>5, NewsReportAssumption DEF Exporting, Operation
    <3> QED BY <1>6, <3>3, <3>6
  <2> QED BY <2>1, <2>2
<1>10. Matches(y, q)
  BY <1>1, <1>7, <1>8, <1>9 DEF Matches
<1> QED BY <1>1, <1>8, <1>10 DEF Filtered, Matching

LEMMA ExportFields ==
  ASSUME NEW rows
  PROVE  /\ Exports(rows).started = {Operation(e) : e \in Named(rows, "export_started")}
         /\ Exports(rows).finished = {Operation(e) : e \in Named(rows, "export_finished")}
         /\ Exports(rows).pending = Exports(rows).started \ Exports(rows).finished
  BY DEF Exports

LEMMA ResultsAgree ==
  ASSUME NewsReportTypeOK, NEW q \in Request
  PROVE  ResultsFollowStarts(q)
<1> DEFINE all == Attributed(Read(q))
           own == Filtered(q)
<1>1. own \subseteq all
  BY DEF Filtered, Matching
<1>2. \A o \in Exports(own).started : o \in Exports(own).finished <=> o \in Exports(all).finished
  <2> SUFFICES ASSUME NEW x \in Named(own, "export_started")
               PROVE  \/ Operation(x) \in Exports(own).finished
                      \/ Operation(x) \notin Exports(all).finished
    <3>1. Exports(own).finished \subseteq Exports(all).finished
      BY <1>1, ExportFields DEF Named
    <3> QED BY <3>1, ExportFields
  <2> SUFFICES ASSUME NEW y \in Named(all, "export_finished"), Operation(y) = Operation(x)
               PROVE  Operation(x) \in Exports(own).finished
    BY ExportFields
  <2>1. y \in own
    BY TerminalIsShown DEF Named
  <2>2. y \in Named(own, "export_finished")
    BY <2>1 DEF Named
  <2> QED BY <2>2, ExportFields
<1>3. Exports(own).pending = Exports(own).started \ Exports(all).finished
  BY <1>2, ExportFields
<1>4. Report(q).exports = Exports(own)
  BY DEF Report
<1> QED BY <1>3, <1>4 DEF ResultsFollowStarts

----------------------------------------------------------------------------
(* Requests that differ in one selection.                                  *)

LEMMA SelectingUnit ==
  ASSUME NEW q, NEW u,
         q = [from |-> q.from, to |-> q.to, scope |-> q.scope, cohort |-> q.cohort,
              area |-> q.area, person |-> q.person, channel |-> q.channel,
              unit |-> q.unit, word |-> q.word]
  PROVE  LET r == [q EXCEPT !.unit = u, !.channel = NoChoice, !.word = NoChoice]
         IN /\ r.from = q.from /\ r.to = q.to /\ r.scope = q.scope /\ r.cohort = q.cohort
            /\ r.area = q.area /\ r.person = q.person
            /\ r.channel = NoChoice /\ r.unit = u /\ r.word = NoChoice
<1>1. DOMAIN q = {"from", "to", "scope", "cohort", "area", "person", "channel", "unit", "word"}
  OBVIOUS
<1> QED BY <1>1

(* Each unit offered selects a row.                                        *)
LEMMA OffersAgree ==
  ASSUME NewsReportTypeOK, NEW q \in Request
  PROVE  OffersSelect(q)
<1> SUFFICES ASSUME NEW u \in FilterOptions(q)
             PROVE  Filtered([q EXCEPT !.unit = u, !.channel = NoChoice, !.word = NoChoice]) # {}
  BY DEF OffersSelect
<1> DEFINE r == [q EXCEPT !.unit = u, !.channel = NoChoice, !.word = NoChoice]
<1>1. q = [from |-> q.from, to |-> q.to, scope |-> q.scope, cohort |-> q.cohort,
           area |-> q.area, person |-> q.person, channel |-> q.channel,
           unit |-> q.unit, word |-> q.word]
  BY NewsReportAssumption
<1>2. /\ r.from = q.from /\ r.to = q.to /\ r.scope = q.scope /\ r.cohort = q.cohort
      /\ r.area = q.area /\ r.person = q.person
      /\ r.channel = NoChoice /\ r.unit = u /\ r.word = NoChoice
  BY <1>1, SelectingUnit
<1> HIDE DEF r
<1>3. Read(r) = Read(q)
  BY <1>2 DEF Read, ForScope
<1>4. Audience(r) = Audience(q)
  BY <1>2 DEF Audience, ForScope, ForCohort
<1>5. PICK x \in Attributed(Read(q)) :
        x.person \in PeopleIds(Audience(q)) /\ u \in {x.unit} \cup x.filter
  BY DEF FilterOptions
<1>6. Matches(x, r)
  BY <1>2, <1>5 DEF Matches
<1>7. x \in Filtered(r)
  BY <1>3, <1>4, <1>5, <1>6 DEF Filtered, Matching
<1> QED BY <1>7 DEF r

----------------------------------------------------------------------------
(* The sections of a report.                                               *)

LEMMA ReportFields ==
  ASSUME NEW q
  PROVE  LET r == Report(q) rows == Filtered(q)
         IN /\ r.kpis.scope = Cardinality(Audience(q))
            /\ r.kpis.users = Cardinality(Users(Active(rows)))
            /\ r.kpis.actions = Cardinality(Active(rows))
            /\ r.kpis.tabs = Cardinality(Named(rows, "tab_view"))
            /\ r.trend = Trend(q, rows)
            /\ r.byChannel = Counted(Named(rows, "tab_view"), LAMBDA e : e.channel)
            /\ r.articles = Articles(Named(rows, "detail_view")
                                       \cup Named(rows, "outbound_click"))
            /\ r.exports = Exports(rows) /\ r.users = UserRows(q, rows)
            /\ r.regions = OrganizationRows(q, rows)
  BY DEF Report

LEMMA AudienceFinite ==
  ASSUME NewsReportTypeOK, NEW q
  PROVE  /\ Audience(q) \in SUBSET roster /\ IsFiniteSet(Audience(q))
         /\ IsFiniteSet({p.id : p \in Audience(q)})
         /\ IsFiniteSet({p.area : p \in Audience(q)})
<1> DEFINE P == Audience(q)
           id == [p \in P |-> p.id]
           area == [p \in P |-> p.area]
<1>1. P \in SUBSET roster
  BY DEF Audience
<1>2. IsFiniteSet(P)
  BY <1>1, PublishedNews, FS_Subset
<1> HIDE DEF P
<1>3. IsFiniteSet({id[p] : p \in P}) /\ IsFiniteSet({area[p] : p \in P})
  BY <1>2, KeysOf
<1>4. {id[p] : p \in P} = {p.id : p \in P} /\ {area[p] : p \in P} = {p.area : p \in P}
  OBVIOUS
<1> HIDE DEF id, area
<1> QED BY <1>1, <1>2, <1>3, <1>4 DEF P

LEMMA UsersFinite ==
  ASSUME NEW rows, IsFiniteSet(rows)
  PROVE  IsFiniteSet(Users(rows))
<1> DEFINE key == [e \in rows |-> e.person]
<1>1. IsFiniteSet({key[e] : e \in rows})
  BY KeysOf
<1>2. {key[e] : e \in rows} = Users(rows)
  BY DEF Users
<1> QED BY <1>1, <1>2

(* The user list holds every action, and who acted.                        *)
LEMMA UserListAddsUp ==
  ASSUME NewsReportTypeOK, NEW q \in Request
  PROVE  LET u == UserRows(q, Filtered(q)) acts == Active(Filtered(q))
         IN /\ Total(u, LAMBDA x : x.actions) = Cardinality(acts)
            /\ {id \in DOMAIN u : u[id].actions > 0} = Users(acts)
<1> DEFINE A == Active(Filtered(q))
           U == UserRows(q, Filtered(q))
           I == {p.id : p \in {p \in Audience(q) : \/ q.word \in {NoChoice} \cup p.words
                                                   \/ p.id \in Users(A)}}
           f == [id \in DOMAIN U |-> U[id].actions]
           of == [e \in A |-> e.person]
<1>1. A \subseteq Filtered(q) /\ IsFiniteSet(A)
  BY FilteredRows, FS_Subset DEF Active
<1>2. DOMAIN U = I /\ \A id \in I : U[id].actions = Cardinality({e \in A : e.person = id})
  BY DEF UserRows
<1>3. \A e \in A : e.person \in I
  <2> SUFFICES ASSUME NEW e \in A PROVE e.person \in I
    OBVIOUS
  <2>1. PersonOf(e.person) \in Audience(q) /\ PersonOf(e.person).id = e.person
    BY <1>1, FilteredRows
  <2>2. e.person \in Users(A)
    BY DEF Users
  <2> QED BY <2>1, <2>2
<1>4. IsFiniteSet(I)
  <2>1. I \subseteq {p.id : p \in Audience(q)}
    OBVIOUS
  <2> QED BY <2>1, AudienceFinite, FS_Subset
<1> HIDE DEF A, U, I
<1>5. SumFunction(f) = Cardinality(A)
  <2>1. \A id \in DOMAIN f : {e \in A : e.person = id} = {e \in A : of[e] = id}
    OBVIOUS
  <2>2. /\ IsFiniteSet(DOMAIN f) /\ \A e \in A : of[e] \in DOMAIN f
        /\ \A id \in DOMAIN f : f[id] = Cardinality({e \in A : of[e] = id})
    BY <1>2, <1>3, <1>4, <2>1
  <2> HIDE DEF f, of
  <2> QED BY <1>1, <2>2, SumOfCounts
<1>6. \A id \in I : U[id].actions > 0 <=> id \in Users(A)
  <2> SUFFICES ASSUME NEW id \in I PROVE U[id].actions > 0 <=> id \in Users(A)
    OBVIOUS
  <2> DEFINE own == {e \in A : e.person = id}
  <2>1. IsFiniteSet(own)
    BY <1>1, FS_Subset
  <2>2. own # {} <=> id \in Users(A)
    BY DEF Users
  <2>3. U[id].actions = Cardinality(own)
    BY <1>2
  <2> HIDE DEF own
  <2>4. Cardinality(own) \in Nat /\ (Cardinality(own) = 0 <=> own = {})
    BY <2>1, FS_CardinalityType, FS_EmptySet
  <2> QED BY <2>2, <2>3, <2>4
<1>7. {id \in DOMAIN U : U[id].actions > 0} = Users(A)
  <2>1. Users(A) \subseteq I
    BY <1>3 DEF Users
  <2> QED BY <1>2, <1>6, <2>1
<1> QED BY <1>5, <1>7 DEF Total, A, U

(* The organizations hold everyone in scope, every action and who acted.   *)
LEMMA OrganizationsAddUp ==
  ASSUME NewsReportTypeOK, NEW q \in Request
  PROVE  LET r == OrganizationRows(q, Filtered(q)) acts == Active(Filtered(q))
         IN /\ Total(r, LAMBDA a : a.actions) = Cardinality(acts)
            /\ Total(r, LAMBDA a : a.users) = Cardinality(Users(acts))
            /\ Total(r, LAMBDA a : a.scope) = Cardinality(Audience(q))
<1> DEFINE A == Active(Filtered(q))
           P == Audience(q)
           F == OrganizationRows(q, Filtered(q))
           D == {p.area : p \in P}
           U == Users(A)
           f == [a \in DOMAIN F |-> F[a].actions]
           g == [a \in DOMAIN F |-> F[a].users]
           h == [a \in DOMAIN F |-> F[a].scope]
           ofRow == [e \in A |-> PersonOf(e.person).area]
           ofUser == [id \in U |-> PersonOf(id).area]
           ofPerson == [p \in P |-> p.area]
<1>1. /\ A \subseteq Filtered(q) /\ IsFiniteSet(A) /\ IsFiniteSet(P) /\ IsFiniteSet(D)
  BY FilteredRows, AudienceFinite, FS_Subset DEF Active
<1>2. DOMAIN F = D
      /\ \A a \in D :
           /\ F[a].actions = Cardinality({e \in A : PersonOf(e.person).area = a})
           /\ F[a].users = Cardinality(Users({e \in A : PersonOf(e.person).area = a}))
           /\ F[a].scope = Cardinality({p \in P : p.area = a})
  BY DEF OrganizationRows
<1>3. \A e \in A : PersonOf(e.person).area \in D
  BY <1>1, FilteredRows
<1>4. IsFiniteSet(U)
  BY <1>1, UsersFinite
<1> HIDE DEF A, P, F
<1>5. \A id \in U : PersonOf(id).area \in D
  BY <1>3 DEF Users
<1>6. \A a : Users({e \in A : PersonOf(e.person).area = a}) = {id \in U : PersonOf(id).area = a}
  BY DEF Users
<1> HIDE DEF D, U
<1>7. SumFunction(f) = Cardinality(A)
  <2>1. \A a : {e \in A : PersonOf(e.person).area = a} = {e \in A : ofRow[e] = a}
    OBVIOUS
  <2>2. /\ IsFiniteSet(DOMAIN f) /\ \A e \in A : ofRow[e] \in DOMAIN f
        /\ \A a \in DOMAIN f : f[a] = Cardinality({e \in A : ofRow[e] = a})
    BY <1>1, <1>2, <1>3, <2>1
  <2> HIDE DEF f, ofRow
  <2> QED BY <1>1, <2>2, SumOfCounts
<1>8. SumFunction(g) = Cardinality(U)
  <2>1. \A a : {id \in U : PersonOf(id).area = a} = {id \in U : ofUser[id] = a}
    OBVIOUS
  <2>2. /\ IsFiniteSet(DOMAIN g) /\ \A id \in U : ofUser[id] \in DOMAIN g
        /\ \A a \in DOMAIN g : g[a] = Cardinality({id \in U : ofUser[id] = a})
    BY <1>1, <1>2, <1>5, <1>6, <2>1
  <2> HIDE DEF g, ofUser
  <2> QED BY <1>4, <2>2, SumOfCounts
<1>9. SumFunction(h) = Cardinality(P)
  <2>1. \A a : {p \in P : p.area = a} = {p \in P : ofPerson[p] = a}
    OBVIOUS
  <2>2. /\ IsFiniteSet(DOMAIN h) /\ \A p \in P : ofPerson[p] \in DOMAIN h
        /\ \A a \in DOMAIN h : h[a] = Cardinality({p \in P : ofPerson[p] = a})
    BY <1>1, <1>2, <2>1 DEF D
  <2> HIDE DEF h, ofPerson
  <2> QED BY <1>1, <2>2, SumOfCounts
<1> QED BY <1>7, <1>8, <1>9 DEF Total, A, P, F, U

(* The channels hold every tab view.                                       *)
LEMMA ChannelsAddUp ==
  ASSUME NewsReportTypeOK, NEW q \in Request
  PROVE  Total(Counted(Named(Filtered(q), "tab_view"), LAMBDA e : e.channel), LAMBDA c : c.actions)
           = Cardinality(Named(Filtered(q), "tab_view"))
<1> DEFINE R == Named(Filtered(q), "tab_view")
           F == Counted(R, LAMBDA e : e.channel)
           f == [c \in DOMAIN F |-> F[c].actions]
           of == [e \in R |-> e.channel]
<1>1. /\ IsFiniteSet(R) /\ R \subseteq Filtered(q)
      /\ NoValue \notin {"news", "society"}
  BY FilteredRows, FS_Subset, NewsReportAssumption DEF Named
<1>2. \A e \in R : e.channel # NoValue
  BY <1>1, FilteredRows
<1> HIDE DEF R
<1>3. DOMAIN F = {of[e] : e \in R}
      /\ \A c \in DOMAIN F : F[c].actions = Cardinality({e \in R : of[e] = c})
  <2>1. {e.channel : e \in R} \ {NoValue} = {of[e] : e \in R}
    BY <1>2
  <2>2. \A c : {e \in R : e.channel = c} = {e \in R : of[e] = c}
    OBVIOUS
  <2>3. DOMAIN F = {e.channel : e \in R} \ {NoValue}
        /\ \A c \in DOMAIN F : F[c].actions = Cardinality({e \in R : e.channel = c})
    BY DEF Counted
  <2> HIDE DEF F, of
  <2> QED BY <2>1, <2>2, <2>3
<1> HIDE DEF F
<1>4. SumFunction(f) = Cardinality(R)
  <2>1. IsFiniteSet({of[e] : e \in R})
    BY <1>1, KeysOf
  <2>2. /\ IsFiniteSet(DOMAIN f) /\ \A e \in R : of[e] \in DOMAIN f
        /\ \A c \in DOMAIN f : f[c] = Cardinality({e \in R : of[e] = c})
    BY <1>3, <2>1
  <2> HIDE DEF f, of
  <2> QED BY <1>1, <2>2, SumOfCounts
<1> QED BY <1>4 DEF Total, F, R

(* The articles hold every detail view and every click that name one, and  *)
(* the most viewed of them can be told.                                    *)
LEMMA ArticlesAddUp ==
  ASSUME NewsReportTypeOK, NEW q \in Request
  PROVE  LET rows   == Filtered(q)
             titled == {e \in rows : e.article # NoValue}
             a      == Articles(Named(rows, "detail_view") \cup Named(rows, "outbound_click"))
         IN /\ Total(a, LAMBDA x : x.details) = Cardinality(Named(titled, "detail_view"))
            /\ Total(a, LAMBDA x : x.clicks) = Cardinality(Named(titled, "outbound_click"))
            /\ \E shown \in SUBSET DOMAIN a : Popular(a, shown)
<1> DEFINE R == Filtered(q)
           S == Named(R, "detail_view") \cup Named(R, "outbound_click")
           T == {e \in S : e.article # NoValue}
           V == Named({e \in R : e.article # NoValue}, "detail_view")
           C == Named({e \in R : e.article # NoValue}, "outbound_click")
           F == Articles(S)
           f == [k \in DOMAIN F |-> F[k].details]
           g == [k \in DOMAIN F |-> F[k].clicks]
           of == [e \in T |-> ArticleKey(e)]
<1>1. IsFiniteSet(R)
  BY FilteredRows
<1> HIDE DEF R
<1>2. /\ IsFiniteSet(T) /\ IsFiniteSet(V) /\ IsFiniteSet(C)
      /\ V = Named(T, "detail_view") /\ C = Named(T, "outbound_click")
  <2>1. T \subseteq R /\ V \subseteq R /\ C \subseteq R
    BY DEF Named
  <2>2. V = Named(T, "detail_view") /\ C = Named(T, "outbound_click")
    BY DEF Named
  <2> QED BY <1>1, <2>1, <2>2, FS_Subset
<1>3. DOMAIN F = {of[e] : e \in T}
      /\ \A k \in DOMAIN F :
           /\ F[k].details = Cardinality(Named({e \in S : ArticleKey(e) = k}, "detail_view"))
           /\ F[k].clicks = Cardinality(Named({e \in S : ArticleKey(e) = k}, "outbound_click"))
  <2>1. DOMAIN F = {ArticleKey(e) : e \in T}
        /\ \A k \in DOMAIN F :
             /\ F[k].details = Cardinality(Named({e \in S : ArticleKey(e) = k}, "detail_view"))
             /\ F[k].clicks = Cardinality(Named({e \in S : ArticleKey(e) = k}, "outbound_click"))
    BY DEF Articles
  <2>2. {ArticleKey(e) : e \in T} = {of[e] : e \in T}
    OBVIOUS
  <2> HIDE DEF F, of, S, T
  <2> QED BY <2>1, <2>2
<1> HIDE DEF F
<1>4. \A k \in DOMAIN F :
        /\ Named({e \in S : ArticleKey(e) = k}, "detail_view") = {e \in V : of[e] = k}
        /\ Named({e \in S : ArticleKey(e) = k}, "outbound_click") = {e \in C : of[e] = k}
  <2> SUFFICES ASSUME NEW k \in DOMAIN F
               PROVE  /\ Named({e \in S : ArticleKey(e) = k}, "detail_view")
                           = {e \in V : of[e] = k}
                      /\ Named({e \in S : ArticleKey(e) = k}, "outbound_click")
                           = {e \in C : of[e] = k}
    OBVIOUS
  <2>1. PICK t \in T : k = ArticleKey(t)
    BY <1>3
  <2>2. \A e \in S : ArticleKey(e) = k => e \in T
    BY <2>1 DEF ArticleKey
  <2>3. \A e \in T : of[e] = ArticleKey(e)
    OBVIOUS
  <2>4. T \subseteq S
    OBVIOUS
  <2> HIDE DEF S, T, V, C, of
  <2> QED BY <1>2, <2>2, <2>3, <2>4 DEF Named
<1>5. \A e \in V \cup C : e \in T
  BY <1>2 DEF Named
<1>6. IsFiniteSet(DOMAIN F) /\ \A e \in T : of[e] \in DOMAIN F
  <2>1. DOMAIN F = {of[e] : e \in T}
    BY <1>3
  <2> HIDE DEF T, of
  <2>2. IsFiniteSet({of[e] : e \in T})
    BY <1>2, KeysOf
  <2> QED BY <2>1, <2>2
<1> HIDE DEF S, T, V, C, of
<1>7. /\ \A k \in DOMAIN F : F[k].details = Cardinality({e \in V : of[e] = k})
      /\ \A k \in DOMAIN F : F[k].clicks = Cardinality({e \in C : of[e] = k})
  BY <1>3, <1>4
<1>8. SumFunction(f) = Cardinality(V)
  <2>1. /\ IsFiniteSet(DOMAIN f) /\ \A e \in V : of[e] \in DOMAIN f
        /\ \A k \in DOMAIN f : f[k] = Cardinality({e \in V : of[e] = k})
    BY <1>5, <1>6, <1>7
  <2> HIDE DEF f
  <2> QED BY <1>2, <2>1, SumOfCounts
<1>9. SumFunction(g) = Cardinality(C)
  <2>1. /\ IsFiniteSet(DOMAIN g) /\ \A e \in C : of[e] \in DOMAIN g
        /\ \A k \in DOMAIN g : g[k] = Cardinality({e \in C : of[e] = k})
    BY <1>5, <1>6, <1>7
  <2> HIDE DEF g
  <2> QED BY <1>2, <2>1, SumOfCounts
<1>10. \E shown \in SUBSET DOMAIN F : Popular(F, shown)
  <2> DEFINE D == DOMAIN F
             n == Smaller(MaxPopular, Cardinality(D))
  <2>1. Cardinality(D) \in Nat /\ MaxPopular \in Nat
    BY <1>6, FS_CardinalityType, NewsReportAssumption
  <2>2. n \in Nat /\ n <= Cardinality(D)
    BY <2>1 DEF Smaller
  <2>3. ASSUME NEW k \in D PROVE f[k] = F[k].details /\ f[k] \in Int
    <3>1. IsFiniteSet({e \in V : of[e] = k})
      BY <1>2, FS_Subset
    <3>2. Cardinality({e \in V : of[e] = k}) \in Nat
      BY <3>1, FS_CardinalityType
    <3> QED BY <1>7, <3>2
  <2> HIDE DEF n, f
  <2>4. \E shown \in SUBSET D : /\ Cardinality(shown) = n
                               /\ \A k \in shown, o \in D \ shown : f[k] >= f[o]
    BY <1>6, <2>2, <2>3, TopOfSize
  <2>5. PICK shown \in SUBSET D : /\ Cardinality(shown) = n
                                /\ \A k \in shown, o \in D \ shown : f[k] >= f[o]
    BY <2>4
  <2> QED BY <2>3, <2>5 DEF Popular, n
<1> QED BY <1>8, <1>9, <1>10 DEF Total, F, S, V, C, R

(* The days of a window hold the rows it reads of the published period.    *)
LEMMA DaysCover ==
  ASSUME NewsReportTypeOK, NEW q \in Request, NEW t \in Nat,
         q.from <= t, t < q.to, Measured <= t, t < through
  PROVE  Day(t) \in Days(q) /\ Start(q) <= t /\ t < End(q)
<1> DEFINE a == Start(q)
           b == End(q)
<1>1. /\ q.from \in Nat /\ q.to \in Nat /\ through \in Nat /\ Measured \in Nat
      /\ NewsDayLength \in Nat \ {0}
  BY PublishedNews, NewsReportAssumption
<1>2. a \in Nat /\ b \in Nat /\ a <= t /\ t < b
  BY <1>1 DEF Start, End, Larger, Smaller
<1> HIDE DEF a, b
<1>3. t \in Int /\ b - 1 \in Int /\ a \in Int /\ t <= b - 1 /\ ~(b <= a)
  BY <1>2
<1>4. a \div NewsDayLength <= t \div NewsDayLength
      /\ t \div NewsDayLength <= (b - 1) \div NewsDayLength
  BY <1>1, <1>2, <1>3, DivMono
<1>5. /\ a \div NewsDayLength \in Int /\ t \div NewsDayLength \in Int
      /\ (b - 1) \div NewsDayLength \in Int
  BY <1>1, <1>3, DivMod
<1> QED BY <1>2, <1>3, <1>4, <1>5 DEF Days, LastDay, Day, a, b

LEMMA DaysFinite ==
  ASSUME NewsReportTypeOK, NEW q \in Request
  PROVE  IsFiniteSet(Days(q))
<1> DEFINE a == Start(q)
           b == End(q) - 1
<1>1. /\ q.from \in Nat /\ q.to \in Nat /\ through \in Nat /\ Measured \in Nat
      /\ NewsDayLength \in Nat \ {0}
  BY PublishedNews, NewsReportAssumption
<1>2. a \in Int /\ b \in Int
  BY <1>1 DEF Start, End, Larger, Smaller
<1> HIDE DEF a, b
<1>3. a \div NewsDayLength \in Int /\ b \div NewsDayLength \in Int
  BY <1>1, <1>2, DivMod
<1>4. IsFiniteSet((a \div NewsDayLength)..(b \div NewsDayLength))
  BY <1>3, FS_Interval
<1> QED BY <1>4, FS_EmptySet DEF Days, LastDay, Day, a, b

(* A count of every day of the window, added up.                           *)
LEMMA DaysAddUp ==
  ASSUME NewsReportTypeOK, NEW q \in Request, NEW R, IsFiniteSet(R),
         \A e \in R : Day(e.at) \in Days(q),
         NEW f, DOMAIN f = Days(q),
         \A d \in Days(q) : f[d] = Cardinality({e \in R : Day(e.at) = d})
  PROVE  SumFunction(f) = Cardinality(R)
<1> DEFINE of == [e \in R |-> Day(e.at)]
<1>1. \A d : {e \in R : Day(e.at) = d} = {e \in R : of[e] = d}
  OBVIOUS
<1>2. /\ IsFiniteSet(DOMAIN f) /\ \A e \in R : of[e] \in DOMAIN f
      /\ \A d \in DOMAIN f : f[d] = Cardinality({e \in R : of[e] = d})
  BY <1>1, DaysFinite
<1> HIDE DEF of
<1> QED BY <1>2, SumOfCounts

LEMMA TrendAddsUp ==
  ASSUME NewsReportTypeOK, NEW q \in Request
  PROVE  LET trend   == Trend(q, Filtered(q))
             charted == {e \in Filtered(q) : Day(e.at) \in Days(q)}
         IN /\ Total(trend, LAMBDA d : d.tabs) = Cardinality(Named(charted, "tab_view"))
            /\ Total(trend, LAMBDA d : d.details) = Cardinality(Named(charted, "detail_view"))
            /\ Total(trend, LAMBDA d : d.starts) = Cardinality(Named(charted, "export_started"))
<1> DEFINE R == Filtered(q)
           S(name) == Named({e \in R : Day(e.at) \in Days(q)}, name)
           F == Trend(q, R)
           f == [d \in DOMAIN F |-> F[d].tabs]
           g == [d \in DOMAIN F |-> F[d].details]
           h == [d \in DOMAIN F |-> F[d].starts]
<1>1. IsFiniteSet(R)
  BY FilteredRows
<1> HIDE DEF R
<1>2. DOMAIN F = Days(q)
      /\ \A d \in Days(q) :
           /\ F[d].tabs = Cardinality(Named({e \in R : Day(e.at) = d}, "tab_view"))
           /\ F[d].details = Cardinality(Named({e \in R : Day(e.at) = d}, "detail_view"))
           /\ F[d].starts = Cardinality(Named({e \in R : Day(e.at) = d}, "export_started"))
  BY DEF Trend
<1> HIDE DEF F
<1>3. ASSUME NEW name
      PROVE  /\ IsFiniteSet(S(name)) /\ \A e \in S(name) : Day(e.at) \in Days(q)
             /\ \A d \in Days(q) : Named({e \in R : Day(e.at) = d}, name)
                                   = {e \in S(name) : Day(e.at) = d}
  <2>1. S(name) \subseteq R
    BY DEF Named
  <2>2. IsFiniteSet(S(name))
    BY <1>1, <2>1, FS_Subset
  <2> QED BY <2>2 DEF Named
<1> HIDE DEF S
<1>4. SumFunction(f) = Cardinality(S("tab_view"))
  <2>1. DOMAIN f = Days(q)
        /\ \A d \in Days(q) : f[d] = Cardinality({e \in S("tab_view") : Day(e.at) = d})
    BY <1>2, <1>3
  <2> HIDE DEF f
  <2> QED BY <1>3, <2>1, DaysAddUp
<1>5. SumFunction(g) = Cardinality(S("detail_view"))
  <2>1. DOMAIN g = Days(q)
        /\ \A d \in Days(q) : g[d] = Cardinality({e \in S("detail_view") : Day(e.at) = d})
    BY <1>2, <1>3
  <2> HIDE DEF g
  <2> QED BY <1>3, <2>1, DaysAddUp
<1>6. SumFunction(h) = Cardinality(S("export_started"))
  <2>1. DOMAIN h = Days(q)
        /\ \A d \in Days(q) : h[d] = Cardinality({e \in S("export_started") : Day(e.at) = d})
    BY <1>2, <1>3
  <2> HIDE DEF h
  <2> QED BY <1>3, <2>1, DaysAddUp
<1> QED BY <1>4, <1>5, <1>6 DEF Total, S, F, R

LEMMA SectionsOf ==
  ASSUME NewsReportTypeOK, NEW q \in Request
  PROVE  SectionsAgree(q)
<1> DEFINE r == Report(q)
           rows == Filtered(q)
<1>1. \A e \in rows : Day(e.at) \notin Days(q) => e.at >= through
  <2> SUFFICES ASSUME NEW e \in rows, Day(e.at) \notin Days(q) PROVE e.at >= through
    OBVIOUS
  <2>1. e.at \in Nat /\ q.from <= e.at /\ e.at < q.to /\ Measured <= e.at
    BY FilteredRows
  <2>2. ~(e.at < through)
    BY <2>1, DaysCover
  <2> QED BY <2>1, <2>2, PublishedNews
<1>2. Cardinality(r.exports.started) <= Cardinality(Named(rows, "export_started"))
  <2> DEFINE S == Named(rows, "export_started")
             of == [e \in S |-> Operation(e)]
  <2>1. IsFiniteSet(S)
    BY FilteredRows, FS_Subset DEF Named
  <2>2. r.exports.started = {Operation(e) : e \in S}
    BY ReportFields, ExportFields
  <2> HIDE DEF S, r
  <2>3. {Operation(e) : e \in S} = {of[e] : e \in S}
    OBVIOUS
  <2> HIDE DEF of
  <2>4. Cardinality({of[e] : e \in S}) <= Cardinality(S)
    BY <2>1, KeysOf
  <2> QED BY <2>2, <2>3, <2>4 DEF S
<1>3. /\ r.kpis.scope = Cardinality(Audience(q))
      /\ r.kpis.users = Cardinality(Users(Active(rows)))
      /\ r.kpis.actions = Cardinality(Active(rows))
      /\ r.kpis.tabs = Cardinality(Named(rows, "tab_view"))
      /\ r.trend = Trend(q, rows)
      /\ r.byChannel = Counted(Named(rows, "tab_view"), LAMBDA e : e.channel)
      /\ r.articles = Articles(Named(rows, "detail_view") \cup Named(rows, "outbound_click"))
      /\ r.users = UserRows(q, rows) /\ r.regions = OrganizationRows(q, rows)
  BY ReportFields
<1> HIDE DEF r, rows
<1>4. /\ Total(r.users, LAMBDA u : u.actions) = r.kpis.actions
      /\ Cardinality({u \in DOMAIN r.users : r.users[u].actions > 0}) = r.kpis.users
  BY <1>3, UserListAddsUp DEF rows
<1>5. /\ Total(r.regions, LAMBDA a : a.actions) = r.kpis.actions
      /\ Total(r.regions, LAMBDA a : a.users) = r.kpis.users
      /\ Total(r.regions, LAMBDA a : a.scope) = r.kpis.scope
  BY <1>3, OrganizationsAddUp DEF rows
<1>6. Total(r.byChannel, LAMBDA c : c.actions) = r.kpis.tabs
  BY <1>3, ChannelsAddUp DEF rows
<1> DEFINE titled == {e \in rows : e.article # NoValue}
           there == {e \in rows : Day(e.at) \in Days(q)}
<1>7. /\ Total(r.articles, LAMBDA a : a.details) = Cardinality(Named(titled, "detail_view"))
      /\ Total(r.articles, LAMBDA a : a.clicks) = Cardinality(Named(titled, "outbound_click"))
      /\ \E shown \in SUBSET DOMAIN r.articles : Popular(r.articles, shown)
  BY <1>3, ArticlesAddUp DEF rows
<1>8. /\ Total(r.trend, LAMBDA d : d.tabs) = Cardinality(Named(there, "tab_view"))
      /\ Total(r.trend, LAMBDA d : d.details) = Cardinality(Named(there, "detail_view"))
      /\ Total(r.trend, LAMBDA d : d.starts) = Cardinality(Named(there, "export_started"))
  BY <1>3, TrendAddsUp DEF rows
<1>9. \A e \in rows \ there : e.at >= through
  BY <1>1
<1> QED BY <1>2, <1>4, <1>5, <1>6, <1>7, <1>8, <1>9 DEF SectionsAgree, r, rows

----------------------------------------------------------------------------
(* The dashboard cards.                                                    *)

Placed(q) == {e \in Filtered(q) : Start(q) <= e.at /\ e.at < End(q)}
OfChannel(rows, c) == {e \in rows : e.channel = c}
ClicksOf(rows) == {e \in rows : Clicked(e)}

LEMMA DashboardFields ==
  ASSUME NEW q
  PROVE  LET d == Dashboard(q) rows == Placed(q)
         IN /\ d.totals.tabs = Cardinality(Named(rows, "tab_view"))
            /\ d.totals.clicks = Cardinality(ClicksOf(rows))
            /\ DOMAIN d.channels = {"news", "society"}
            /\ \A c \in {"news", "society"} :
                 /\ d.channels[c].tabs = Cardinality(Named(OfChannel(rows, c), "tab_view"))
                 /\ d.channels[c].clicks = Cardinality(ClicksOf(OfChannel(rows, c)))
                 /\ d.categories[c] =
                      [k \in {e.unit : e \in OfChannel(ClicksOf(rows), c)} |->
                         Cardinality({e \in OfChannel(ClicksOf(rows), c) : e.unit = k})]
            /\ DOMAIN d.days = Days(q)
            /\ \A k \in Days(q) :
                 /\ d.days[k].tabs = Cardinality(Named({e \in rows : Day(e.at) = k}, "tab_view"))
                 /\ d.days[k].clicks = Cardinality(ClicksOf({e \in rows : Day(e.at) = k}))
            /\ d.placed = {Day(e.at) : e \in rows}
  BY DEF Dashboard, Placed, OfChannel, ClicksOf

LEMMA PlacedRows ==
  ASSUME NewsReportTypeOK, NEW q \in Request
  PROVE  /\ IsFiniteSet(Placed(q)) /\ Placed(q) \subseteq Filtered(q)
         /\ Placed(q) = {e \in Filtered(q) : e.at < through}
         /\ \A e \in Placed(q) : Day(e.at) \in Days(q) /\ e.channel \in {"news", "society"}
<1>1. Placed(q) \subseteq Filtered(q)
  BY DEF Placed
<1>2. IsFiniteSet(Placed(q))
  BY <1>1, FilteredRows, FS_Subset
<1>3. ASSUME NEW e \in Filtered(q)
      PROVE  /\ e \in Placed(q) <=> e.at < through
             /\ e \in Placed(q) => Day(e.at) \in Days(q)
             /\ e.channel \in {"news", "society"}
  <2>1. /\ e.at \in Nat /\ q.from <= e.at /\ e.at < q.to /\ Measured <= e.at
        /\ e.channel \in {"news", "society"}
    BY FilteredRows
  <2>2. q.from \in Nat /\ q.to \in Nat /\ through \in Nat /\ Measured \in Nat
    BY PublishedNews, NewsReportAssumption
  <2>3. ASSUME e \in Placed(q) PROVE e.at < through
    BY <2>1, <2>2, <2>3 DEF Placed, End, Smaller
  <2>4. ASSUME e.at < through PROVE e \in Placed(q) /\ Day(e.at) \in Days(q)
    BY <2>1, <2>4, DaysCover DEF Placed
  <2> QED BY <2>1, <2>3, <2>4
<1> QED BY <1>1, <1>2, <1>3

(* Days, channels and categories hold what the totals count.               *)
LEMMA CardsAddUp ==
  ASSUME NewsReportTypeOK, NEW q \in Request
  PROVE  LET d == Dashboard(q)
         IN /\ Total(d.days, LAMBDA n : n.tabs) = d.totals.tabs
            /\ Total(d.days, LAMBDA n : n.clicks) = d.totals.clicks
            /\ Total(d.channels, LAMBDA n : n.tabs) = d.totals.tabs
            /\ \A c \in {"news", "society"} :
                 Total(d.categories[c], LAMBDA n : n) = d.channels[c].clicks
<1> DEFINE R == Placed(q)
           T == Named(R, "tab_view")
           C == ClicksOf(R)
           d == Dashboard(q)
           f == [k \in DOMAIN d.days |-> d.days[k].tabs]
           g == [k \in DOMAIN d.days |-> d.days[k].clicks]
           h == [c \in DOMAIN d.channels |-> d.channels[c].tabs]
           channel == [e \in T |-> e.channel]
<1>1. IsFiniteSet(R) /\ \A e \in R : Day(e.at) \in Days(q) /\ e.channel \in {"news", "society"}
  BY PlacedRows
<1>2. /\ d.totals.tabs = Cardinality(T) /\ d.totals.clicks = Cardinality(C)
      /\ DOMAIN d.channels = {"news", "society"}
      /\ \A c \in {"news", "society"} :
           /\ d.channels[c].tabs = Cardinality(Named(OfChannel(R, c), "tab_view"))
           /\ d.channels[c].clicks = Cardinality(ClicksOf(OfChannel(R, c)))
           /\ d.categories[c] = [k \in {e.unit : e \in OfChannel(C, c)} |->
                                   Cardinality({e \in OfChannel(C, c) : e.unit = k})]
      /\ DOMAIN d.days = Days(q)
      /\ \A k \in Days(q) :
           /\ d.days[k].tabs = Cardinality(Named({e \in R : Day(e.at) = k}, "tab_view"))
           /\ d.days[k].clicks = Cardinality(ClicksOf({e \in R : Day(e.at) = k}))
  BY DashboardFields
<1> HIDE DEF R, d
<1>3. /\ IsFiniteSet(T) /\ IsFiniteSet(C) /\ T \subseteq R /\ C \subseteq R
      /\ \A c : OfChannel(C, c) = ClicksOf(OfChannel(R, c)) /\ IsFiniteSet(OfChannel(C, c))
      /\ \A c : Named(OfChannel(R, c), "tab_view") = {e \in T : e.channel = c}
      /\ \A k : Named({e \in R : Day(e.at) = k}, "tab_view") = {e \in T : Day(e.at) = k}
      /\ \A k : ClicksOf({e \in R : Day(e.at) = k}) = {e \in C : Day(e.at) = k}
  <2>1. T \subseteq R /\ C \subseteq R
    BY DEF Named, ClicksOf
  <2>2. \A c : OfChannel(C, c) = ClicksOf(OfChannel(R, c)) /\ OfChannel(C, c) \subseteq R
    BY DEF OfChannel, ClicksOf
  <2>3. IsFiniteSet(T) /\ IsFiniteSet(C) /\ \A c : IsFiniteSet(OfChannel(C, c))
    BY <1>1, <2>1, <2>2, FS_Subset
  <2>4. \A c : Named(OfChannel(R, c), "tab_view") = {e \in T : e.channel = c}
    BY DEF Named, OfChannel
  <2>5. \A k : Named({e \in R : Day(e.at) = k}, "tab_view") = {e \in T : Day(e.at) = k}
    BY DEF Named
  <2>6. \A k : ClicksOf({e \in R : Day(e.at) = k}) = {e \in C : Day(e.at) = k}
    BY DEF ClicksOf
  <2> QED BY <2>1, <2>2, <2>3, <2>4, <2>5, <2>6
<1> HIDE DEF T, C
<1>4. SumFunction(f) = Cardinality(T)
  <2>1. /\ DOMAIN f = Days(q) /\ \A k \in Days(q) : f[k] = Cardinality({e \in T : Day(e.at) = k})
        /\ \A e \in T : Day(e.at) \in Days(q)
    BY <1>1, <1>2, <1>3
  <2> HIDE DEF f
  <2> QED BY <1>3, <2>1, DaysAddUp
<1>5. SumFunction(g) = Cardinality(C)
  <2>1. /\ DOMAIN g = Days(q) /\ \A k \in Days(q) : g[k] = Cardinality({e \in C : Day(e.at) = k})
        /\ \A e \in C : Day(e.at) \in Days(q)
    BY <1>1, <1>2, <1>3
  <2> HIDE DEF g
  <2> QED BY <1>3, <2>1, DaysAddUp
<1>6. SumFunction(h) = Cardinality(T)
  <2>1. \A c : {e \in T : e.channel = c} = {e \in T : channel[e] = c}
    OBVIOUS
  <2>2. IsFiniteSet({"news", "society"})
    <3>1. IsFiniteSet({"news"} \cup {"society"})
      BY FS_Singleton, FS_Union
    <3>2. {"news", "society"} = {"news"} \cup {"society"}
      OBVIOUS
    <3> QED BY <3>1, <3>2
  <2>3. DOMAIN h = {"news", "society"} /\ IsFiniteSet(DOMAIN h)
    BY <1>2, <2>2
  <2>4. \A e \in T : channel[e] \in DOMAIN h
    BY <1>1, <1>3, <2>3
  <2>5. \A c \in {"news", "society"} : h[c] = d.channels[c].tabs
    BY <1>2
  <2>6. ASSUME NEW c \in DOMAIN h PROVE h[c] = Cardinality({e \in T : channel[e] = c})
    BY <1>2, <1>3, <2>1, <2>3, <2>5
  <2> HIDE DEF h, channel
  <2> QED BY <1>3, <2>3, <2>4, <2>6, SumOfCounts
<1>7. ASSUME NEW c \in {"news", "society"}
      PROVE  Total(d.categories[c], LAMBDA n : n) = d.channels[c].clicks
  <2> DEFINE K == OfChannel(C, c)
             of == [e \in K |-> e.unit]
             m == [k \in DOMAIN d.categories[c] |-> d.categories[c][k]]
  <2>1. IsFiniteSet(K) /\ d.channels[c].clicks = Cardinality(K)
    BY <1>2, <1>3
  <2> HIDE DEF K
  <2>2. /\ {e.unit : e \in K} = {of[e] : e \in K}
        /\ \A k : {e \in K : e.unit = k} = {e \in K : of[e] = k}
    OBVIOUS
  <2>3. d.categories[c] = [k \in {e.unit : e \in K} |-> Cardinality({e \in K : e.unit = k})]
    BY <1>2 DEF K
  <2>4. /\ DOMAIN m = {of[e] : e \in K}
        /\ \A k \in DOMAIN m : m[k] = Cardinality({e \in K : of[e] = k})
    BY <2>2, <2>3
  <2> HIDE DEF m, of
  <2>5. IsFiniteSet(DOMAIN m) /\ \A e \in K : of[e] \in DOMAIN m
    <3>1. IsFiniteSet({of[e] : e \in K})
      BY <2>1, KeysOf
    <3> QED BY <2>4, <3>1
  <2>6. SumFunction(m) = Cardinality(K)
    BY <2>1, <2>4, <2>5, SumOfCounts
  <2> QED BY <2>1, <2>6 DEF Total, m
<1> QED BY <1>2, <1>4, <1>5, <1>6, <1>7 DEF Total, d

(* Asking for one area leaves of the report the rows of its people: the    *)
(* exports of a person are all in it, or none.                             *)
LEMMA SelectingArea ==
  ASSUME NEW q, NEW a,
         q = [from |-> q.from, to |-> q.to, scope |-> q.scope, cohort |-> q.cohort,
              area |-> q.area, person |-> q.person, channel |-> q.channel,
              unit |-> q.unit, word |-> q.word]
  PROVE  LET r == [q EXCEPT !.area = a]
         IN /\ r.from = q.from /\ r.to = q.to /\ r.scope = q.scope /\ r.cohort = q.cohort
            /\ r.area = a /\ r.person = q.person
            /\ r.channel = q.channel /\ r.unit = q.unit /\ r.word = q.word
<1>1. DOMAIN q = {"from", "to", "scope", "cohort", "area", "person", "channel", "unit", "word"}
  OBVIOUS
<1> QED BY <1>1

LEMMA AttributionIsPersonal ==
  ASSUME NEW e, NEW rows, NEW some \in SUBSET rows,
         \A s \in rows : s.person = e.person => s \in some
  PROVE  Attribute(e, some) = Attribute(e, rows)
<1>1. Starts(e, some) = Starts(e, rows)
  BY DEF Starts, Operation
<1> QED BY <1>1 DEF Attribute

LEMMA AreaOfReport ==
  ASSUME NewsReportTypeOK, NEW q \in Request, q.area = NoChoice,
         NEW p \in Audience(q)
  PROVE  Placed([q EXCEPT !.area = p.area])
           = {e \in Placed(q) : PersonOf(e.person).area = p.area}
<1> DEFINE a == p.area
           r == [q EXCEPT !.area = a]
           rows == Read(q)
           some == Read(r)
<1>1. q = [from |-> q.from, to |-> q.to, scope |-> q.scope, cohort |-> q.cohort,
           area |-> q.area, person |-> q.person, channel |-> q.channel,
           unit |-> q.unit, word |-> q.word]
  BY NewsReportAssumption
<1>2. /\ r.from = q.from /\ r.to = q.to /\ r.scope = q.scope /\ r.cohort = q.cohort
      /\ r.area = a /\ r.person = q.person
      /\ r.channel = q.channel /\ r.unit = q.unit /\ r.word = q.word
  BY <1>1, SelectingArea
<1>3. a # NoChoice
  BY PublishedNews DEF Audience
<1> HIDE DEF r, a
<1>4. some = {e \in rows : PersonOf(e.person).area = a}
  BY <1>2, <1>3 DEF Read, ForScope
<1>5. Audience(r) = {o \in Audience(q) : o.area = a}
  BY <1>2, <1>3 DEF Audience, ForScope, ForCohort
<1>6. \A e \in some : Attribute(e, some) = Attribute(e, rows)
  <2> SUFFICES ASSUME NEW e \in some PROVE Attribute(e, some) = Attribute(e, rows)
    OBVIOUS
  <2>1. some \in SUBSET rows /\ \A s \in rows : s.person = e.person => s \in some
    BY <1>4
  <2> HIDE DEF some, rows
  <2> QED BY <2>1, AttributionIsPersonal
<1>7. \A e \in rows : Attribute(e, rows).person = e.person
  <2> SUFFICES ASSUME NEW e \in rows PROVE Attribute(e, rows).person = e.person
    OBVIOUS
  <2>1. e \in Delivery
    BY ReadRows
  <2> QED BY <2>1, AttributeForms DEF Alike
<1> HIDE DEF some, rows
<1>8. Attributed(some) = {x \in Attributed(rows) : PersonOf(x.person).area = a}
  BY <1>4, <1>6, <1>7 DEF Attributed
<1>9. \A id : id \in PeopleIds(Audience(q)) /\ PersonOf(id).area = a
               <=> id \in PeopleIds(Audience(r))
  <2>1. \A o \in Audience(q) : PersonOf(o.id) = o
    BY RosterPerson DEF Audience
  <2> QED BY <1>5, <2>1 DEF PeopleIds
<1>10. \A x : Matches(x, r) <=> Matches(x, q)
  BY <1>2 DEF Matches
<1>11. Filtered(r) = {x \in Filtered(q) : PersonOf(x.person).area = a}
  BY <1>8, <1>9, <1>10 DEF Filtered, Matching, some, rows
<1>12. Start(r) = Start(q) /\ End(r) = End(q)
  BY <1>2 DEF Start, End
<1> QED BY <1>11, <1>12 DEF Placed, r, a

LEMMA AreaCardsAddUp ==
  ASSUME NewsReportTypeOK, NEW q \in Request, q.area = NoChoice
  PROVE  Dashboard(q).totals.clicks = SumFunction(
           [a \in {p.area : p \in Audience(q)} |->
              Dashboard([q EXCEPT !.area = a]).totals.clicks])
<1> DEFINE D == {p.area : p \in Audience(q)}
           C == ClicksOf(Placed(q))
           f == [a \in D |-> Dashboard([q EXCEPT !.area = a]).totals.clicks]
           of == [e \in C |-> PersonOf(e.person).area]
<1>1. IsFiniteSet(D) /\ IsFiniteSet(C)
  BY AudienceFinite, PlacedRows, FS_Subset DEF ClicksOf
<1>2. \A e \in C : of[e] \in D
  <2> SUFFICES ASSUME NEW e \in C PROVE PersonOf(e.person).area \in D
    OBVIOUS
  <2>1. e \in Filtered(q)
    BY PlacedRows DEF ClicksOf
  <2> QED BY <2>1, FilteredRows
<1>3. ASSUME NEW a \in D PROVE f[a] = Cardinality({e \in C : of[e] = a})
  <2>1. PICK p \in Audience(q) : p.area = a
    OBVIOUS
  <2>2. Placed([q EXCEPT !.area = a]) = {e \in Placed(q) : PersonOf(e.person).area = a}
    BY <2>1, AreaOfReport
  <2>3. ClicksOf(Placed([q EXCEPT !.area = a])) = {e \in C : of[e] = a}
    BY <2>2 DEF ClicksOf
  <2>4. f[a] = Cardinality(ClicksOf(Placed([q EXCEPT !.area = a])))
    BY DashboardFields
  <2> QED BY <2>3, <2>4
<1>4. DOMAIN f = D
  OBVIOUS
<1>5. Dashboard(q).totals.clicks = Cardinality(C)
  BY DashboardFields
<1> HIDE DEF f, of, C, D
<1>6. SumFunction(f) = Cardinality(C)
  BY <1>1, <1>2, <1>3, <1>4, SumOfCounts
<1> QED BY <1>5, <1>6 DEF f, D

LEMMA CardsOf ==
  ASSUME NewsReportTypeOK, NEW q \in Request
  PROVE  CardsAgree(q)
<1> DEFINE d == Dashboard(q)
           rows == {e \in Filtered(q) : e.at < through}
<1>1. d.placed \subseteq DOMAIN d.days
  <2>1. d.placed = {Day(e.at) : e \in Placed(q)} /\ DOMAIN d.days = Days(q)
    BY DashboardFields
  <2>2. \A e \in Placed(q) : Day(e.at) \in Days(q)
    BY PlacedRows
  <2> HIDE DEF d
  <2> QED BY <2>1, <2>2
<1>2. d.totals.tabs = Cardinality(Named(rows, "tab_view"))
  BY DashboardFields, PlacedRows
<1>3. q.area = NoChoice => d.totals.clicks = SumFunction(
            [a \in {p.area : p \in Audience(q)} |->
               Dashboard([q EXCEPT !.area = a]).totals.clicks])
  BY AreaCardsAddUp
<1> QED BY <1>1, <1>2, <1>3, CardsAddUp DEF CardsAgree

(* Whatever is asked of a publication, its report and its cards agree, and *)
(* it is never refused, for any deliveries, rosters and requests.          *)
THEOREM NewsReportsConsistent == NewsReportSpec => []NewsReportIsConsistent
<1>1. NewsReportTypeOK => NewsReportIsConsistent
  BY NeverRefused, ResultsAgree, OffersAgree, SectionsOf, CardsOf DEF NewsReportIsConsistent
<1> QED BY <1>1, NewsReportTypeCorrect, PTL

----------------------------------------------------------------------------
(* The composition: a behaviour of it is one of each of its parts, the     *)
(* exports excepted, which rest while another part runs.                   *)

LEMMA PartsStep ==
  ASSUME [ReportsNext]_<<active, vars, exports, analyticsVars, newsVars, rosterVars>>
  PROVE  /\ [Next]_vars /\ [AnalyticsReportNext]_analyticsVars
         /\ [NewsReportNext]_newsVars /\ [RosterNext]_rosterVars
<1>1. ASSUME active = "exports", ExportsNext PROVE [Next]_vars
  BY <1>1, ExportNextReads DEF ExportsNext
<1>2. CASE UNCHANGED <<active, vars, exports, analyticsVars, newsVars, rosterVars>>
  BY <1>2
<1>3. CASE ReportsNext
  BY <1>1, <1>3 DEF ReportsNext
<1> QED BY <1>2, <1>3

LEMMA PartsAreRun ==
  ReportsSpec => Spec /\ AnalyticsReportSpec /\ NewsReportSpec /\ RosterSpec
<1>1. ReportsInit => Init /\ AnalyticsReportInit /\ NewsReportInit /\ RosterInit
  BY DEF ReportsInit, ExportInit
<1> QED BY <1>1, PartsStep, PTL
        DEF ReportsSpec, Spec, AnalyticsReportSpec, NewsReportSpec, RosterSpec

(* No export has begun.                                                    *)
ExportsRest ==
  /\ stored = {} /\ expired = FALSE
  /\ stage = [x \in ChatReader |-> "none"] /\ screen = [x \in ChatReader |-> 0]
  /\ listed = [x \in ChatReader |-> FALSE] /\ answer = [x \in ChatReader |-> {}]

AnswersInv == ReadsInv /\ JobInv /\ (active # "exports" => ExportsRest)

LEMMA RestingJobs == TypeInv /\ ExportsRest => JobInv
<1> SUFFICES ASSUME TypeInv, ExportsRest PROVE JobInv
  OBVIOUS
<1>1. 0 \in 0..chat
  BY ReadersAssumption DEF TypeInv, TypeOK
<1>2. stage \in [ChatReader -> Stage] /\ screen \in [ChatReader -> 0..chat]
  BY <1>1 DEF ExportsRest, Stage
<1>3. /\ stored = {} /\ expired = FALSE /\ listed \in [ChatReader -> BOOLEAN]
      /\ DOMAIN answer = ChatReader
      /\ \A x \in ChatReader : stage[x] = "none" /\ answer[x] = {}
  BY DEF ExportsRest
<1> QED BY <1>2, <1>3 DEF JobInv

LEMMA InitAnswersInv == ReportsInit => AnswersInv
  BY InitTypeInv, InitFactsInv, InitJobInv
  DEF ReportsInit, ExportInit, ExportsRest, AnswersInv, ReadsInv

LEMMA NextAnswersInv ==
  ASSUME AnswersInv, [ReportsNext]_<<active, vars, exports, analyticsVars, newsVars, rosterVars>>
  PROVE  AnswersInv'
<1>1. ReadsInv'
  BY PartsStep, NextTypeInv, NextFactsInv DEF AnswersInv, ReadsInv
<1>2. active' = active
  BY DEF ReportsNext
<1>3. CASE active = "exports"
  <2>1. [ExportNext]_<<vars, exports>>
    BY <1>3 DEF ReportsNext, ExportsNext
  <2> QED BY <1>1, <1>2, <1>3, <2>1, NextJobInv DEF AnswersInv
<1>4. CASE active # "exports"
  <2>1. UNCHANGED exports
    BY <1>4 DEF ReportsNext
  <2>2. ExportsRest'
    BY <1>4, <2>1 DEF AnswersInv, ExportsRest, exports, requestState
  <2>3. TypeInv' /\ ExportsRest' => JobInv'
    BY RestingJobs, PTL
  <2> QED BY <1>1, <2>2, <2>3 DEF AnswersInv, ReadsInv
<1> QED BY <1>3, <1>4

(* The variables of every part keep their types, whichever part runs.      *)
THEOREM ReportsTypeCorrect == ReportsSpec => []ReportsTypeOK
<1>1. ReportsSpec => []AnswersInv
  BY InitAnswersInv, NextAnswersInv, PTL DEF ReportsSpec
<1>2. AnswersInv => ExportTypeOK
  BY DEF AnswersInv, ReadsInv, TypeInv, JobInv, ExportTypeOK
<1>3. ReportsSpec => []ExportTypeOK
  BY <1>1, <1>2, PTL
<1>4. AnalyticsReportTypeOK /\ NewsReportTypeOK /\ RosterTypeOK /\ ExportTypeOK => ReportsTypeOK
  BY DEF ReportsTypeOK
<1> QED BY <1>3, <1>4, PartsAreRun, AnalyticsTypeCorrect, NewsReportTypeCorrect, RosterTypeCorrect,
           PTL

(* Whichever part runs, what is checked of each holds: of the readers, the *)
(* exports, both reports and the roster.                                   *)
THEOREM AnswersHold ==
  RosterAssumption /\ ReportsSpec =>
    /\ [](/\ SnapshotsRetained /\ NewsAnswersAreBound /\ FactsNotOlderThanReceipt
          /\ ViewsAgree /\ NewsReportIsConsistent /\ RosterReceiptsHold /\ AnswersOwnRequest)
    /\ LiveJobsAreKept
<1>1. ReportsSpec => []AnswersInv
  BY InitAnswersInv, NextAnswersInv, PTL DEF ReportsSpec
<1>2. AnswersInv => AnswersOwnRequest
  BY DEF AnswersInv, JobInv, Faithful, AnswersOwnRequest
<1>3. ReportsSpec => []AnswersOwnRequest
  BY <1>1, <1>2, PTL
<1>4. [ReportsNext]_<<active, vars, exports, analyticsVars, newsVars, rosterVars>> =>
        [Live /\ stored' # stored =>
          /\ stored' = {}
          /\ \E x \in ChatReader :
               stage[x] = "delete" \/ (stage[x] = "clean" /\ listed[x])]_exports
  <2> SUFFICES ASSUME [ReportsNext]_<<active, vars, exports, analyticsVars, newsVars, rosterVars>>,
                      exports' # exports, Live, stored' # stored
               PROVE  /\ stored' = {}
                      /\ \E x \in ChatReader :
                           stage[x] = "delete" \/ (stage[x] = "clean" /\ listed[x])
    OBVIOUS
  <2>1. ExportNext
    BY DEF ReportsNext, ExportsNext
  <2> QED BY <2>1, LiveJobStep
<1>5. ReportsSpec => LiveJobsAreKept
  BY <1>4, PTL DEF ReportsSpec, LiveJobsAreKept
<1> QED BY <1>3, <1>5, PartsAreRun, ReceiptsStayReadable, NewsAnswersBound, FactsAreNotOlder,
           PublishedViewsAgree, NewsReportsConsistent, RostersAreSafe, PTL
=============================================================================
