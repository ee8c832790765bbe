------------------------------ MODULE SumTheorems ------------------------------
(***************************************************************************)
(* What the proofs of this project need to know of the finite sums of the  *)
(* community modules, SumFunctionOnSet(f, S) over the elements of S, and   *)
(* of the partition of a finite set by a key: that the parts add up to the *)
(* whole.  Nothing here is about the program.                              *)
(***************************************************************************)
EXTENDS Integers, Functions, FiniteSetTheorems, TLAPS

----------------------------------------------------------------------------
(* The sum is a fold, that is a function over the subsets of the set it is *)
(* applied to, of which one has to show that it exists and that the order  *)
(* of the elements does not matter.  A proof by induction takes a smallest *)
(* counterexample.                                                         *)

Elem(S) == CHOOSE x \in S : TRUE

Folds(f, g, S) ==
  g = [s \in SUBSET S |-> IF s = {} THEN 0 ELSE f[Elem(s)] + g[s \ {Elem(s)}]]

LEMMA SumIsFold ==
  ASSUME NEW f, NEW S
  PROVE  SumFunctionOnSet(f, S) = (CHOOSE g : Folds(f, g, S))[S]
  BY DEF SumFunctionOnSet, FoldFunctionOnSet, MapThenFoldSet, Folds, Elem

LEMMA ElemOf == \A S : S # {} => Elem(S) \in S
  BY DEF Elem

(* Of a set of subsets of a finite set, one is smallest.                   *)
LEMMA SmallestSet ==
  ASSUME NEW S, IsFiniteSet(S), NEW C, C \subseteq SUBSET S, C # {}
  PROVE  \E T \in C : \A U \in C : U \subseteq T => U = T
<1>1. IsWellFoundedOn(StrictSubsetOrdering(S), SUBSET S)
  BY FS_StrictSubsetOrderingWellFounded, FS_FiniteSubsetsOfFinite
<1>2. PICK T \in C : \A U \in C : ~(<<U, T>> \in StrictSubsetOrdering(S))
  BY <1>1, WFMin
<1>3. ASSUME NEW U \in C, U \subseteq T, U # T PROVE FALSE
  <2>1. <<U, T>> \in StrictSubsetOrdering(S)
    BY <1>3 DEF StrictSubsetOrdering
  <2> QED BY <1>2, <2>1
<1> QED BY <1>3

LEMMA FoldsAgree ==
  ASSUME NEW S, NEW T, NEW f, NEW g, NEW h, Folds(f, g, S), Folds(f, h, T),
         NEW U, U \subseteq S, U \subseteq T, IsFiniteSet(U)
  PROVE  g[U] = h[U]
<1> DEFINE C == {V \in SUBSET U : g[V] # h[V]}
<1> SUFFICES ASSUME C # {} PROVE FALSE
  OBVIOUS
<1>1. PICK V \in C : \A W \in C : W \subseteq V => W = V
  <2>1. C \subseteq SUBSET U
    OBVIOUS
  <2> HIDE DEF C
  <2> QED BY <2>1, SmallestSet
<1>2. V \in SUBSET S /\ V \in SUBSET T
  OBVIOUS
<1>3. /\ g[V] = IF V = {} THEN 0 ELSE f[Elem(V)] + g[V \ {Elem(V)}]
      /\ h[V] = IF V = {} THEN 0 ELSE f[Elem(V)] + h[V \ {Elem(V)}]
  <2>1. g[V] = IF V = {} THEN 0 ELSE f[Elem(V)] + g[V \ {Elem(V)}]
    BY <1>2 DEF Folds
  <2>2. h[V] = IF V = {} THEN 0 ELSE f[Elem(V)] + h[V \ {Elem(V)}]
    BY <1>2 DEF Folds
  <2> QED BY <2>1, <2>2
<1>4. V # {} /\ g[V] # h[V]
  BY <1>3
<1>5. V \ {Elem(V)} \notin C
  BY <1>1, <1>4, ElemOf
<1> QED BY <1>3, <1>4, <1>5

LEMMA FoldStep ==
  ASSUME NEW f, NEW S, NEW g, Folds(f, g, S), NEW U \in SUBSET S
  PROVE  g[U] = IF U = {} THEN 0 ELSE f[Elem(U)] + g[U \ {Elem(U)}]
  BY DEF Folds

LEMMA FoldExists ==
  ASSUME NEW f, NEW S, IsFiniteSet(S)
  PROVE  \E g : Folds(f, g, S)
<1> DEFINE C == {T \in SUBSET S : ~\E g : Folds(f, g, T)}
           F(T) == CHOOSE g : Folds(f, g, T)
<1> SUFFICES ASSUME C # {} PROVE FALSE
  OBVIOUS
<1>1. PICK T \in C : \A U \in C : U \subseteq T => U = T
  <2>1. C \subseteq SUBSET S
    OBVIOUS
  <2> HIDE DEF C
  <2> QED BY <2>1, SmallestSet
<1>2. ASSUME NEW U \in SUBSET T, U # T PROVE Folds(f, F(U), U)
  <2>1. U \notin C
    BY <1>1, <1>2
  <2>2. \E g : Folds(f, g, U)
    BY <2>1
  <2> QED BY <2>2
<1> DEFINE g == [U \in SUBSET T |-> IF U = {} THEN 0
                   ELSE f[Elem(U)] + F(U \ {Elem(U)})[U \ {Elem(U)}]]
<1>3. ASSUME NEW U \in SUBSET T, U # T PROVE g[U] = F(U)[U]
  <2>1. F(U)[U] = IF U = {} THEN 0 ELSE f[Elem(U)] + F(U)[U \ {Elem(U)}]
    <3>1. Folds(f, F(U), U)
      BY <1>2, <1>3
    <3> HIDE DEF F
    <3> QED BY <3>1, FoldStep
  <2>2. CASE U = {} BY <2>1, <2>2
  <2>3. CASE U # {}
    <3> DEFINE V == U \ {Elem(U)}
    <3>1. V \in SUBSET T /\ V # T /\ V \subseteq U
      BY <1>3, <2>3, ElemOf
    <3>2. IsFiniteSet(V)
      BY <3>1, FS_Subset
    <3>3. F(U)[V] = F(V)[V]
      <4>1. Folds(f, F(U), U) /\ Folds(f, F(V), V)
        BY <1>2, <1>3, <3>1
      <4> HIDE DEF F, V
      <4> QED BY <3>1, <3>2, <4>1, FoldsAgree
    <3> QED BY <2>1, <2>3, <3>3
  <2> QED BY <2>2, <2>3
<1>4. ASSUME NEW U \in SUBSET T, U # {} PROVE F(U \ {Elem(U)})[U \ {Elem(U)}] = g[U \ {Elem(U)}]
  <2>1. U \ {Elem(U)} \in SUBSET T /\ U \ {Elem(U)} # T
    BY <1>4, ElemOf
  <2> QED BY <1>3, <2>1
<1>5. \A U \in SUBSET T : g[U] = IF U = {} THEN 0 ELSE f[Elem(U)] + g[U \ {Elem(U)}]
  <2> SUFFICES ASSUME NEW U \in SUBSET T
               PROVE  g[U] = IF U = {} THEN 0 ELSE f[Elem(U)] + g[U \ {Elem(U)}]
    OBVIOUS
  <2>1. g[U] = IF U = {} THEN 0 ELSE f[Elem(U)] + F(U \ {Elem(U)})[U \ {Elem(U)}]
    OBVIOUS
  <2> HIDE DEF g, F
  <2> QED BY <1>4, <2>1
<1>6. g = [U \in SUBSET T |-> g[U]]
  OBVIOUS
<1> HIDE DEF g
<1>7. Folds(f, g, T)
  BY <1>5, <1>6 DEF Folds
<1> QED BY <1>1, <1>7

LEMMA SumStep ==
  ASSUME NEW f, NEW S, IsFiniteSet(S)
  PROVE  SumFunctionOnSet(f, S) =
           IF S = {} THEN 0 ELSE f[Elem(S)] + SumFunctionOnSet(f, S \ {Elem(S)})
<1> DEFINE F(T) == CHOOSE g : Folds(f, g, T)
<1>1. \A T \in SUBSET S : SumFunctionOnSet(f, T) = F(T)[T] /\ Folds(f, F(T), T)
  <2> SUFFICES ASSUME NEW T \in SUBSET S
               PROVE  SumFunctionOnSet(f, T) = F(T)[T] /\ Folds(f, F(T), T)
    OBVIOUS
  <2>1. \E g : Folds(f, g, T)
    BY FoldExists, FS_Subset
  <2> QED BY <2>1, SumIsFold
<1> DEFINE R == S \ {Elem(S)}
<1>2. R \in SUBSET S /\ IsFiniteSet(R)
  BY FS_Subset
<1> HIDE DEF F, R
<1>3. F(S)[R] = F(R)[R]
  <2>1. S \in SUBSET S /\ R \subseteq S
    BY <1>2
  <2>2. Folds(f, F(S), S) /\ Folds(f, F(R), R)
    BY <1>1, <1>2, <2>1
  <2> DEFINE a == F(S)
             b == F(R)
  <2>3. Folds(f, a, S) /\ Folds(f, b, R)
    BY <2>2
  <2> HIDE DEF a, b
  <2>4. a[R] = b[R]
    BY <1>2, <2>1, <2>3, FoldsAgree
  <2> QED BY <2>4 DEF a, b
<1>4. F(S)[S] = IF S = {} THEN 0 ELSE f[Elem(S)] + F(S)[R]
  <2> DEFINE a == F(S)
  <2>1. S \in SUBSET S /\ Folds(f, a, S)
    BY <1>1
  <2> HIDE DEF a
  <2>2. a[S] = IF S = {} THEN 0 ELSE f[Elem(S)] + a[R]
    BY <2>1, FoldStep DEF R
  <2> QED BY <2>2 DEF a
<1>5. SumFunctionOnSet(f, S) = F(S)[S] /\ SumFunctionOnSet(f, R) = F(R)[R]
  BY <1>1, <1>2
<1> QED BY <1>3, <1>4, <1>5 DEF R

LEMMA SumType ==
  ASSUME NEW f, NEW S, IsFiniteSet(S), \A x \in S : f[x] \in Nat
  PROVE  SumFunctionOnSet(f, S) \in Nat
<1> DEFINE C == {T \in SUBSET S : SumFunctionOnSet(f, T) \notin Nat}
<1> SUFFICES ASSUME C # {} PROVE FALSE
  OBVIOUS
<1>1. PICK T \in C : \A U \in C : U \subseteq T => U = T
  <2>1. C \subseteq SUBSET S
    OBVIOUS
  <2> HIDE DEF C
  <2> QED BY <2>1, SmallestSet
<1>2. T \in SUBSET S /\ SumFunctionOnSet(f, T) \notin Nat /\ IsFiniteSet(T)
  BY FS_Subset
<1>3. T # {}
  BY <1>2, SumStep
<1>4. Elem(T) \in T /\ f[Elem(T)] \in Nat
  BY <1>2, <1>3, ElemOf
<1>5. SumFunctionOnSet(f, T \ {Elem(T)}) \in Nat
  BY <1>1, <1>4
<1>6. SumFunctionOnSet(f, T) = f[Elem(T)] + SumFunctionOnSet(f, T \ {Elem(T)})
  BY <1>2, <1>3, SumStep
<1> QED BY <1>2, <1>4, <1>5, <1>6

LEMMA SumRemove ==
  ASSUME NEW f, NEW S, IsFiniteSet(S), \A x \in S : f[x] \in Nat, NEW x \in S
  PROVE  SumFunctionOnSet(f, S) = f[x] + SumFunctionOnSet(f, S \ {x})
<1> DEFINE C == {T \in SUBSET S : \E y \in T :
                   SumFunctionOnSet(f, T) # f[y] + SumFunctionOnSet(f, T \ {y})}
<1> SUFFICES ASSUME C # {} PROVE FALSE
  OBVIOUS
<1>1. PICK T \in C : \A U \in C : U \subseteq T => U = T
  <2>1. C \subseteq SUBSET S
    OBVIOUS
  <2> HIDE DEF C
  <2> QED BY <2>1, SmallestSet
<1>2. T \in SUBSET S /\ IsFiniteSet(T)
  BY FS_Subset
<1>3. PICK y \in T : SumFunctionOnSet(f, T) # f[y] + SumFunctionOnSet(f, T \ {y})
  BY <1>1
<1> DEFINE e == Elem(T)
           R == (T \ {e}) \ {y}
<1>4. e \in T /\ SumFunctionOnSet(f, T) = f[e] + SumFunctionOnSet(f, T \ {e})
  BY <1>2, <1>3, ElemOf, SumStep
<1>5. e # y
  BY <1>3, <1>4
<1> HIDE DEF e
<1>6. T \ {e} \notin C /\ T \ {y} \notin C
  BY <1>1, <1>4
<1>7. SumFunctionOnSet(f, T \ {e}) = f[y] + SumFunctionOnSet(f, R)
  BY <1>2, <1>3, <1>5, <1>6
<1>8. SumFunctionOnSet(f, T \ {y}) = f[e] + SumFunctionOnSet(f, (T \ {y}) \ {e})
  BY <1>2, <1>4, <1>5, <1>6
<1>9. SumFunctionOnSet(f, T \ {y}) = f[e] + SumFunctionOnSet(f, R)
  <2>1. (T \ {y}) \ {e} = R
    OBVIOUS
  <2> QED BY <1>8, <2>1
<1>10. f[e] \in Nat /\ f[y] \in Nat
  BY <1>2, <1>3, <1>4
<1>11. SumFunctionOnSet(f, R) \in Nat
  <2>1. R \in SUBSET S
    BY <1>2
  <2> QED BY <2>1, SumType, FS_Subset
<1> HIDE DEF R, C
<1> QED BY <1>3, <1>4, <1>7, <1>9, <1>10, <1>11

(* What is removed together weighs what it weighs alone.                   *)
LEMMA SumMinus ==
  ASSUME NEW f, NEW S, IsFiniteSet(S), \A x \in S : f[x] \in Nat, NEW T \in SUBSET S
  PROVE  SumFunctionOnSet(f, S \ T) = SumFunctionOnSet(f, S) - SumFunctionOnSet(f, T)
<1> DEFINE C == {U \in SUBSET S :
                   SumFunctionOnSet(f, S \ U) # SumFunctionOnSet(f, S) - SumFunctionOnSet(f, U)}
<1> SUFFICES ASSUME C # {} PROVE FALSE
  OBVIOUS
<1>1. PICK U \in C : \A V \in C : V \subseteq U => V = U
  <2>1. C \subseteq SUBSET S
    OBVIOUS
  <2> HIDE DEF C
  <2> QED BY <2>1, SmallestSet
<1>2. /\ U \in SUBSET S /\ IsFiniteSet(U)
      /\ SumFunctionOnSet(f, S \ U) # SumFunctionOnSet(f, S) - SumFunctionOnSet(f, U)
  BY FS_Subset
<1>3. SumFunctionOnSet(f, S) \in Nat
  BY SumType
<1>4. U # {}
  <2> SUFFICES ASSUME U = {} PROVE FALSE
    OBVIOUS
  <2>1. SumFunctionOnSet(f, U) = 0 /\ S \ U = S
    BY <1>2, SumStep
  <2> QED BY <1>2, <1>3, <2>1
<1>5. PICK e : e \in U
  BY <1>4
<1> DEFINE V == U \ {e}
<1>6. V \in SUBSET S /\ IsFiniteSet(V) /\ V \notin C
  BY <1>1, <1>2, <1>5, FS_Subset
<1>7. SumFunctionOnSet(f, S \ V) = SumFunctionOnSet(f, S) - SumFunctionOnSet(f, V)
  BY <1>6
<1>8. SumFunctionOnSet(f, U) = f[e] + SumFunctionOnSet(f, V)
  BY <1>2, <1>5, SumRemove
<1>9. SumFunctionOnSet(f, S \ V) = f[e] + SumFunctionOnSet(f, S \ U)
  <2>1. S \ V \in SUBSET S /\ IsFiniteSet(S \ V) /\ e \in S \ V
    BY <1>2, <1>5, FS_Subset
  <2>2. (S \ V) \ {e} = S \ U
    BY <1>5
  <2> QED BY <2>1, <2>2, SumRemove
<1>10. f[e] \in Nat
  BY <1>2, <1>5
<1>11. SumFunctionOnSet(f, V) \in Nat /\ SumFunctionOnSet(f, S \ U) \in Nat
  BY <1>6, SumType, FS_Subset
<1> HIDE DEF V
<1> QED BY <1>2, <1>3, <1>7, <1>8, <1>9, <1>10, <1>11

(* Of naturals one is least. *)
LEMMA LeastElement ==
  ASSUME NEW S \in SUBSET Nat, S # {}
  PROVE  \E m \in S : \A k \in S : m <= k
<1>1. PICK n : n \in S
  OBVIOUS
<1> DEFINE C == {0..m : m \in {k \in S : k <= n}}
<1>2. IsFiniteSet(0..n) /\ C \subseteq SUBSET (0..n) /\ C # {}
  <2>1. n \in Nat /\ 0 \in Int /\ n \in Int
    BY <1>1
  <2>2. IsFiniteSet(0..n)
    BY <2>1, FS_Interval
  <2>3. C \subseteq SUBSET (0..n)
    BY <2>1
  <2>4. 0..n \in C
    BY <1>1, <2>1
  <2> QED BY <2>2, <2>3, <2>4
<1>3. PICK T \in C : \A U \in C : U \subseteq T => U = T
  <2> HIDE DEF C
  <2>1. IsFiniteSet(0..n) /\ C \subseteq SUBSET (0..n) /\ C # {}
    BY <1>2
  <2> DEFINE I == 0..n
  <2> HIDE DEF I
  <2>2. IsFiniteSet(I) /\ C \subseteq SUBSET I /\ C # {}
    BY <2>1 DEF I
  <2> QED BY <2>2, SmallestSet
<1>4. PICK m \in S : m <= n /\ T = 0..m
  BY <1>3
<1>5. ASSUME NEW k \in S, k < m PROVE FALSE
  <2>1. 0..k \in C /\ 0..k \subseteq T
    BY <1>1, <1>4, <1>5
  <2>2. m \in T /\ m \notin 0..k
    BY <1>4, <1>5
  <2> QED BY <1>3, <2>1, <2>2
<1>6. \A k \in S : m <= k
  BY <1>5
<1> QED BY <1>6

(* Of finitely many integers one is greatest.                              *)
LEMMA GreatestElement ==
  ASSUME NEW S, \A x \in S : x \in Int, S # {}, IsFiniteSet(S)
  PROVE  \E m \in S : \A k \in S : k <= m
<1> DEFINE C == {{k \in S : m <= k} : m \in S}
<1>1. PICK T \in C : \A U \in C : U \subseteq T => U = T
  <2>1. C \subseteq SUBSET S /\ C # {}
    OBVIOUS
  <2> HIDE DEF C
  <2> QED BY <2>1, SmallestSet
<1>2. PICK m \in S : T = {k \in S : m <= k}
  OBVIOUS
<1>3. ASSUME NEW k \in S, ~(k <= m) PROVE FALSE
  <2> DEFINE U == {j \in S : k <= j}
  <2>1. U \in C /\ U \subseteq T
    BY <1>2, <1>3
  <2>2. m \in T /\ m \notin U
    BY <1>2, <1>3
  <2> QED BY <1>1, <2>1, <2>2
<1> QED BY <1>3

(* Of finitely many things with an integer value one has the least.        *)
LEMMA LeastValue ==
  ASSUME NEW T, IsFiniteSet(T), T # {}, NEW v, \A k \in T : v[k] \in Int
  PROVE  \E m \in T : \A k \in T : v[m] <= v[k]
<1> DEFINE C == {{k \in T : v[k] <= v[m]} : m \in T}
<1>1. PICK P \in C : \A U \in C : U \subseteq P => U = P
  <2>1. C \subseteq SUBSET T /\ C # {}
    OBVIOUS
  <2> HIDE DEF C
  <2> QED BY <2>1, SmallestSet
<1>2. PICK m \in T : P = {k \in T : v[k] <= v[m]}
  OBVIOUS
<1>3. ASSUME NEW k \in T, ~(v[m] <= v[k]) PROVE FALSE
  <2> DEFINE U == {j \in T : v[j] <= v[k]}
  <2>1. U \in C /\ U \subseteq P
    BY <1>2, <1>3
  <2>2. m \in P /\ m \notin U
    BY <1>2, <1>3
  <2> QED BY <1>1, <2>1, <2>2
<1> QED BY <1>3

(* So any number of them can be taken, none of them below one left.        *)
LEMMA TopOfSize ==
  ASSUME NEW D, IsFiniteSet(D), NEW v, \A k \in D : v[k] \in Int,
         NEW n \in Nat, n <= Cardinality(D)
  PROVE  \E T \in SUBSET D : /\ Cardinality(T) = n
                            /\ \A k \in T, o \in D \ T : v[k] >= v[o]
<1> DEFINE Top(T) == \A k \in T, o \in D \ T : v[k] >= v[o]
           C == {T \in SUBSET D : n <= Cardinality(T) /\ Top(T)}
<1>1. D \in C
  OBVIOUS
<1>2. PICK T \in C : \A U \in C : U \subseteq T => U = T
  <2>1. C \subseteq SUBSET D /\ C # {}
    BY <1>1
  <2> HIDE DEF C
  <2> QED BY <2>1, SmallestSet
<1>3. /\ T \in SUBSET D /\ n <= Cardinality(T) /\ Top(T)
      /\ IsFiniteSet(T) /\ Cardinality(T) \in Nat
  <2>1. T \in SUBSET D
    OBVIOUS
  <2> QED BY <2>1, FS_Subset, FS_CardinalityType
<1>4. ASSUME n < Cardinality(T) PROVE FALSE
  <2>1. T # {}
    BY <1>4, FS_EmptySet
  <2>2. PICK m \in T : \A k \in T : v[m] <= v[k]
    <3>1. \A k \in T : v[k] \in Int
      BY <1>3
    <3> QED BY <1>3, <2>1, <3>1, LeastValue
  <2> DEFINE U == T \ {m}
  <2>3. Cardinality(U) = Cardinality(T) - 1
    BY <1>3, FS_RemoveElement
  <2>4. Top(U)
    <3> SUFFICES ASSUME NEW k \in U, NEW o \in D \ U PROVE v[k] >= v[o]
      OBVIOUS
    <3>1. v[k] \in Int /\ v[o] \in Int
      BY <1>3
    <3>2. CASE o = m BY <2>2, <3>1, <3>2
    <3>3. CASE o # m BY <1>3, <3>3
    <3> QED BY <3>2, <3>3
  <2>5. U \in C
    <3> HIDE DEF Top
    <3>1. U \in SUBSET D /\ n <= Cardinality(U)
      BY <1>3, <1>4, <2>3
    <3> QED BY <2>4, <3>1
  <2> QED BY <1>2, <2>5
<1>5. Cardinality(T) = n
  BY <1>3, <1>4
<1> QED BY <1>3, <1>5

----------------------------------------------------------------------------
(* Images and partitions.                                                  *)

LEMMA SumsAgree ==
  ASSUME NEW f, NEW g, NEW S, IsFiniteSet(S), \A x \in S : f[x] \in Nat /\ f[x] = g[x]
  PROVE  SumFunctionOnSet(f, S) = SumFunctionOnSet(g, S)
<1> DEFINE C == {T \in SUBSET S : SumFunctionOnSet(f, T) # SumFunctionOnSet(g, T)}
<1> SUFFICES ASSUME C # {} PROVE FALSE
  OBVIOUS
<1>1. PICK T \in C : \A U \in C : U \subseteq T => U = T
  <2>1. C \subseteq SUBSET S
    OBVIOUS
  <2> HIDE DEF C
  <2> QED BY <2>1, SmallestSet
<1>2. T \in SUBSET S /\ IsFiniteSet(T) /\ SumFunctionOnSet(f, T) # SumFunctionOnSet(g, T)
  BY FS_Subset
<1>3. T # {} /\ Elem(T) \in T
  <2>1. T = {} => SumFunctionOnSet(f, T) = 0 /\ SumFunctionOnSet(g, T) = 0
    BY <1>2, SumStep
  <2> QED BY <1>2, <2>1, ElemOf
<1>4. SumFunctionOnSet(f, T \ {Elem(T)}) = SumFunctionOnSet(g, T \ {Elem(T)})
  BY <1>1, <1>3
<1>5. /\ SumFunctionOnSet(f, T) = f[Elem(T)] + SumFunctionOnSet(f, T \ {Elem(T)})
      /\ SumFunctionOnSet(g, T) = g[Elem(T)] + SumFunctionOnSet(g, T \ {Elem(T)})
  BY <1>2, <1>3, SumStep
<1> QED BY <1>2, <1>3, <1>4, <1>5

(* A finite set has finitely many values of a key, at most one each.       *)
LEMMA KeysOf ==
  ASSUME NEW key, NEW R, IsFiniteSet(R)
  PROVE  /\ IsFiniteSet({key[x] : x \in R})
         /\ Cardinality({key[x] : x \in R}) <= Cardinality(R)
         /\ Cardinality({key[x] : x \in R}) \in Nat
<1> DEFINE K == {key[x] : x \in R}
           m == [x \in R |-> key[x]]
<1>1. m \in Surjection(R, K)
  BY DEF Surjection
<1> HIDE DEF K, m
<1>2. IsFiniteSet(K) /\ Cardinality(K) <= Cardinality(R)
  BY <1>1, FS_Surjection
<1> QED BY <1>2, FS_CardinalityType DEF K

LEMMA KeysOneToOne ==
  ASSUME NEW key, NEW R, IsFiniteSet(R), \A x, y \in R : key[x] = key[y] => x = y
  PROVE  Cardinality({key[x] : x \in R}) = Cardinality(R)
<1> DEFINE K == {key[x] : x \in R}
           m == [x \in R |-> key[x]]
<1>1. m \in Surjection(R, K) /\ m \in Injection(R, K)
  BY DEF Surjection, Injection, IsInjective
<1> HIDE DEF K, m
<1>2. Cardinality(K) = Cardinality(R)
  BY <1>1, FS_Surjection
<1> QED BY <1>2 DEF K

(* The sizes of the parts of a finite set add up to its size.              *)
LEMMA SumOfParts ==
  ASSUME NEW f, NEW part, NEW K, IsFiniteSet(K), NEW R, IsFiniteSet(R),
         \A k \in K : part[k] \subseteq R /\ f[k] = Cardinality(part[k]),
         \A j, k \in K : j # k => part[j] \cap part[k] = {},
         \A x \in R : \E k \in K : x \in part[k]
  PROVE  SumFunctionOnSet(f, K) = Cardinality(R)
<1> DEFINE Of(T) == {x \in R : \E k \in T : x \in part[k]}
           C == {T \in SUBSET K : SumFunctionOnSet(f, T) # Cardinality(Of(T))}
<1>1. Of(K) = R
  OBVIOUS
<1> SUFFICES ASSUME C # {} PROVE FALSE
  BY <1>1
<1>2. PICK T \in C : \A U \in C : U \subseteq T => U = T
  <2>1. C \subseteq SUBSET K
    OBVIOUS
  <2> HIDE DEF C
  <2> QED BY <2>1, SmallestSet
<1>3. T \in SUBSET K /\ IsFiniteSet(T) /\ SumFunctionOnSet(f, T) # Cardinality(Of(T))
  BY FS_Subset
<1>4. \A k \in K : f[k] \in Nat
  BY FS_Subset, FS_CardinalityType
<1>5. T # {}
  <2>1. T = {} => SumFunctionOnSet(f, T) = 0 /\ Of(T) = {}
    BY <1>3, SumStep
  <2> QED BY <1>3, <2>1, FS_EmptySet
<1>6. PICK k : k \in T
  BY <1>5
<1> DEFINE U == T \ {k}
<1>7. SumFunctionOnSet(f, U) = Cardinality(Of(U))
  <2>1. U \notin C /\ U \in SUBSET K
    BY <1>2, <1>3, <1>6
  <2> QED BY <2>1
<1>8. SumFunctionOnSet(f, T) = f[k] + SumFunctionOnSet(f, U)
  BY <1>3, <1>4, <1>6, SumRemove
<1>9. Of(T) = part[k] \cup Of(U) /\ part[k] \cap Of(U) = {}
  BY <1>3, <1>6
<1>10. IsFiniteSet(part[k]) /\ IsFiniteSet(Of(U))
  BY <1>3, <1>6, FS_Subset
<1> HIDE DEF Of
<1>11. Cardinality(Of(T)) = Cardinality(part[k]) + Cardinality(Of(U)) - Cardinality({})
  <2> DEFINE A == part[k]
             B == Of(U)
  <2>1. IsFiniteSet(A) /\ IsFiniteSet(B)
    BY <1>10
  <2>2. Of(T) = A \cup B /\ A \cap B = {}
    BY <1>9
  <2> HIDE DEF A, B
  <2>3. Cardinality(A \cup B) = Cardinality(A) + Cardinality(B) - Cardinality(A \cap B)
    BY <2>1, FS_Union
  <2> QED BY <2>2, <2>3 DEF A, B
<1>12. /\ Cardinality({}) = 0 /\ Cardinality(Of(U)) \in Nat
       /\ Cardinality(part[k]) = f[k] /\ f[k] \in Nat
  BY <1>3, <1>4, <1>6, <1>10, FS_EmptySet, FS_CardinalityType
<1> QED BY <1>3, <1>7, <1>8, <1>11, <1>12

(* In particular those of the parts with one value of a key.               *)
LEMMA SumByKey ==
  ASSUME NEW f, NEW key, NEW K, IsFiniteSet(K), NEW R, IsFiniteSet(R),
         \A x \in R : key[x] \in K,
         \A k \in K : f[k] = Cardinality({x \in R : key[x] = k})
  PROVE  SumFunctionOnSet(f, K) = Cardinality(R)
<1> DEFINE part == [k \in K |-> {x \in R : key[x] = k}]
<1>1. \A k \in K : part[k] \subseteq R /\ f[k] = Cardinality(part[k])
  OBVIOUS
<1>2. \A j, k \in K : j # k => part[j] \cap part[k] = {}
  OBVIOUS
<1>3. \A x \in R : \E k \in K : x \in part[k]
  OBVIOUS
<1> HIDE DEF part
<1> QED BY <1>1, <1>2, <1>3, SumOfParts

LEMMA SumOfCounts ==
  ASSUME NEW f, NEW key, NEW R, IsFiniteSet(R), IsFiniteSet(DOMAIN f),
         \A x \in R : key[x] \in DOMAIN f,
         \A k \in DOMAIN f : f[k] = Cardinality({x \in R : key[x] = k})
  PROVE  SumFunction(f) = Cardinality(R)
  BY SumByKey DEF SumFunction
=============================================================================
