---------------------------- MODULE ReadCacheProofs ----------------------------
(***************************************************************************)
(* Theorems about the read cache, for any number of threads, keys, entries *)
(* and bytes, and any sizes of the results.                                *)
(***************************************************************************)
EXTENDS ReadCache, SumTheorems, SequenceTheorems, TLAPS

----------------------------------------------------------------------------
(* The bytes of a finite set of keys.                                      *)

LEMMA BytesOfNone == Bytes({}) = 0
  BY SumStep, FS_EmptySet DEF Bytes

LEMMA BytesType ==
  ASSUME NEW S \in SUBSET Key, IsFiniteSet(S)
  PROVE  Bytes(S) \in Nat
  BY CacheAssumption, SumType DEF Bytes

LEMMA BytesRemove ==
  ASSUME NEW S \in SUBSET Key, IsFiniteSet(S), NEW x \in S
  PROVE  Bytes(S) = Size[x] + Bytes(S \ {x})
  BY CacheAssumption, SumRemove DEF Bytes

(* What is removed together weighs what it weighs alone.                   *)
LEMMA BytesMinus ==
  ASSUME NEW S \in SUBSET Key, IsFiniteSet(S), NEW T \in SUBSET S
  PROVE  Bytes(S \ T) = Bytes(S) - Bytes(T)
  BY CacheAssumption, SumMinus DEF Bytes

LEMMA MinOf ==
  ASSUME NEW S \in SUBSET Nat, S # {}
  PROVE  Min(S) \in S
  BY LeastElement DEF Min

----------------------------------------------------------------------------
(* The keys in least-recently-used order: a sequence without repetitions.  *)

LEMMA SeqElements == \A s \in Seq(Key) : DOMAIN s = 1..Len(s) /\ Len(s) \in Nat
                                          /\ \A i \in 1..Len(s) : s[i] \in Key
  OBVIOUS

LEMMA KeysAreFinite ==
  ASSUME NEW s \in Seq(Key)
  PROVE  /\ ToSet(s) \in SUBSET Key /\ IsFiniteSet(ToSet(s))
         /\ IsInjective(s) => Cardinality(ToSet(s)) = Len(s)
<1> DEFINE D == 1..Len(s)
           K == ToSet(s)
<1>1. Len(s) \in Nat /\ DOMAIN s = D /\ \A i \in D : s[i] \in Key
  BY SeqElements
<1>2. IsFiniteSet(D) /\ Cardinality(D) = Len(s)
  <2> DEFINE n == Len(s)
  <2>1. n \in Nat /\ 1 \in Int /\ n \in Int
    BY <1>1
  <2> HIDE DEF n
  <2>2. IsFiniteSet(1..n) /\ Cardinality(1..n) = IF 1 > n THEN 0 ELSE n - 1 + 1
    BY <2>1, FS_Interval
  <2>3. (IF 1 > n THEN 0 ELSE n - 1 + 1) = n
    BY <2>1
  <2> QED BY <2>2, <2>3 DEF n
<1>3. K = {s[i] : i \in D}
  BY <1>1 DEF ToSet
<1>4. s \in [D -> K]
  BY <1>1, <1>3
<1> HIDE DEF D, K
<1>5. s \in Surjection(D, K)
  BY <1>3, <1>4 DEF Surjection
<1>6. IsFiniteSet(K) /\ (Cardinality(K) = Cardinality(D) <=> s \in Injection(D, K))
  BY <1>2, <1>5, FS_Surjection
<1>7. IsInjective(s) => s \in Injection(D, K)
  BY <1>4 DEF Injection
<1>8. K \in SUBSET Key
  BY <1>1, <1>3
<1> QED BY <1>2, <1>6, <1>7, <1>8 DEF K

(* A key that is used moves to the end.                                    *)
LEMMA MovedToEnd ==
  ASSUME NEW s \in Seq(Key), IsInjective(s), NEW i \in DOMAIN s
  PROVE  LET t == Append(RemoveAt(s, i), s[i])
         IN  t \in Seq(Key) /\ IsInjective(t) /\ ToSet(t) = ToSet(s)
<1> DEFINE n == Len(s)
           a == SubSeq(s, 1, i - 1)
           b == SubSeq(s, i + 1, n)
           r == RemoveAt(s, i)
           t == Append(r, s[i])
<1>1. n \in Nat /\ DOMAIN s = 1..n /\ i \in 1..n /\ \A j \in 1..n : s[j] \in Key
  BY SeqElements
<1> HIDE DEF n
<1>2. a \in Seq(Key) /\ Len(a) = i - 1 /\ \A j \in 1..(i - 1) : a[j] = s[j]
  BY <1>1
<1>3. b \in Seq(Key) /\ Len(b) = n - i /\ \A j \in 1..(n - i) : b[j] = s[i + j]
  BY <1>1
<1>4. r = a \o b
  BY DEF RemoveAt, n
<1> HIDE DEF a, b, r
<1>5. r \in Seq(Key) /\ Len(r) = n - 1
  <2>1. r \in Seq(Key) /\ Len(r) = Len(a) + Len(b)
    BY <1>2, <1>3, <1>4, ConcatProperties
  <2>2. (i - 1) + (n - i) = n - 1
    BY <1>1
  <2> QED BY <1>2, <1>3, <2>1, <2>2
<1>6. ASSUME NEW j \in 1..(n - 1) PROVE r[j] = IF j < i THEN s[j] ELSE s[j + 1]
  <2>1. j \in 1..(Len(a) + Len(b))
    BY <1>1, <1>2, <1>3
  <2>2. r[j] = IF j <= Len(a) THEN a[j] ELSE b[j - Len(a)]
    BY <1>2, <1>3, <1>4, <2>1, ConcatProperties
  <2>3. CASE j < i
    <3>1. j \in 1..(i - 1) /\ j <= Len(a)
      BY <1>1, <1>2, <2>3
    <3> QED BY <1>2, <2>2, <2>3, <3>1
  <2>4. CASE ~(j < i)
    <3>1. ~(j <= Len(a)) /\ j - Len(a) \in 1..(n - i) /\ i + (j - Len(a)) = j + 1
      BY <1>1, <1>2, <2>4
    <3> QED BY <1>3, <2>2, <2>4, <3>1
  <2> QED BY <2>3, <2>4
<1>7. t \in Seq(Key) /\ Len(t) = n /\ DOMAIN t = 1..n
  BY <1>1, <1>5
<1>8. \A j \in 1..n : t[j] = IF j = n THEN s[i] ELSE IF j < i THEN s[j] ELSE s[j + 1]
  BY <1>1, <1>5, <1>6
<1> HIDE DEF t
<1> DEFINE p(j) == IF j = n THEN i ELSE IF j < i THEN j ELSE j + 1
<1>9. \A j \in 1..n : p(j) \in 1..n /\ t[j] = s[p(j)]
  BY <1>1, <1>8
<1>10. \A j, m \in 1..n : p(j) = p(m) => j = m
  BY <1>1
<1>11. ASSUME NEW j \in 1..n PROVE \E m \in 1..n : s[j] = t[m]
  <2>1. CASE j = i BY <1>1, <1>8, <2>1
  <2>2. CASE j < i
    <3>1. j \in 1..n /\ j # n BY <1>1, <2>2
    <3> QED BY <1>8, <2>2, <3>1
  <2>3. CASE j > i
    <3>1. j - 1 \in 1..n /\ j - 1 # n /\ ~(j - 1 < i) /\ (j - 1) + 1 = j BY <1>1, <2>3
    <3> QED BY <1>8, <3>1
  <2> QED BY <1>1, <2>1, <2>2, <2>3
<1> HIDE DEF p
<1>12. IsInjective(t)
  BY <1>1, <1>7, <1>9, <1>10 DEF IsInjective
<1>13. ASSUME NEW x PROVE x \in ToSet(t) <=> x \in ToSet(s)
  <2>1. x \in ToSet(t) <=> \E j \in 1..n : x = t[j]
    BY <1>7 DEF ToSet
  <2>2. x \in ToSet(s) <=> \E j \in 1..n : x = s[j]
    BY <1>1 DEF ToSet
  <2> QED BY <1>9, <1>11, <2>1, <2>2
<1> QED BY <1>7, <1>12, <1>13 DEF t, r

LEMMA Appended ==
  ASSUME NEW s \in Seq(Key), IsInjective(s), NEW k \in Key, k \notin ToSet(s)
  PROVE  LET t == Append(s, k)
         IN  t \in Seq(Key) /\ IsInjective(t) /\ ToSet(t) = ToSet(s) \cup {k}
<1> DEFINE n == Len(s)
           t == Append(s, k)
<1>1. n \in Nat /\ DOMAIN s = 1..n /\ \A j \in 1..n : s[j] \in Key /\ s[j] # k
  BY SeqElements DEF ToSet
<1>2. t \in Seq(Key) /\ DOMAIN t = 1..(n + 1) /\ t[n + 1] = k /\ \A j \in 1..n : t[j] = s[j]
  BY <1>1
<1> HIDE DEF n, t
<1>3. \A j \in 1..(n + 1) : j = n + 1 \/ j \in 1..n
  BY <1>1
<1>4. n + 1 \in 1..(n + 1) /\ n + 1 \notin 1..n /\ \A j \in 1..n : j \in 1..(n + 1)
  BY <1>1
<1>5. IsInjective(t)
  BY <1>1, <1>2, <1>3 DEF IsInjective
<1>6. ToSet(t) = ToSet(s) \cup {k}
  BY <1>1, <1>2, <1>3, <1>4 DEF ToSet
<1> QED BY <1>2, <1>5, <1>6 DEF t

(* The oldest keys leave, the others stay.                                 *)
LEMMA OldestLeave ==
  ASSUME NEW s \in Seq(Key), IsInjective(s), NEW n \in 0..Len(s)
  PROVE  LET t == SubSeq(s, n + 1, Len(s))
         IN  /\ t \in Seq(Key) /\ IsInjective(t) /\ Len(t) = Len(s) - n
             /\ ToSet(t) = ToSet(s) \ Oldest(n, s) /\ Oldest(n, s) \in SUBSET ToSet(s)
<1> DEFINE m == Len(s)
           t == SubSeq(s, n + 1, m)
           o == SubSeq(s, 1, n)
<1>1. m \in Nat /\ DOMAIN s = 1..m /\ n \in 0..m /\ \A j \in 1..m : s[j] \in Key
  BY SeqElements
<1> HIDE DEF m
<1>2. t \in Seq(Key) /\ Len(t) = m - n /\ \A j \in 1..(m - n) : t[j] = s[n + j]
  BY <1>1
<1>3. o \in Seq(Key) /\ Len(o) = n /\ \A j \in 1..n : o[j] = s[j]
  BY <1>1
<1>4. Oldest(n, s) = ToSet(o)
  BY DEF Oldest
<1> HIDE DEF t, o
<1>5. DOMAIN t = 1..(m - n) /\ DOMAIN o = 1..n
  BY <1>2, <1>3
<1>6. \A j \in 1..(m - n) : n + j \in 1..m /\ n + j \notin 1..n
  BY <1>1
<1>7. \A j \in 1..n : j \in 1..m
  BY <1>1
<1>8. \A j \in 1..m : j \notin 1..n => j - n \in 1..(m - n) /\ n + (j - n) = j
  BY <1>1
<1>9. \A i, j \in 1..(m - n) : n + i = n + j => i = j
  BY <1>1
<1>10. IsInjective(t)
  BY <1>1, <1>2, <1>5, <1>6, <1>9 DEF IsInjective
<1>11. ToSet(o) \in SUBSET ToSet(s)
  BY <1>1, <1>3, <1>5, <1>7 DEF ToSet
<1>12. ASSUME NEW x \in ToSet(t) PROVE x \in ToSet(s) \ ToSet(o)
  <2>1. PICK j \in 1..(m - n) : x = s[n + j]
    BY <1>2, <1>5, <1>12 DEF ToSet
  <2>2. x \in ToSet(s)
    BY <1>1, <1>6, <2>1 DEF ToSet
  <2>3. \A i \in 1..n : o[i] # x
    BY <1>1, <1>3, <1>6, <1>7, <2>1 DEF IsInjective
  <2> QED BY <1>5, <2>2, <2>3 DEF ToSet
<1>13. ASSUME NEW x \in ToSet(s) \ ToSet(o) PROVE x \in ToSet(t)
  <2>1. PICK j \in 1..m : x = s[j]
    BY <1>1 DEF ToSet
  <2>2. j \notin 1..n
    BY <1>3, <1>5, <2>1, <1>13 DEF ToSet
  <2>3. t[j - n] = x /\ j - n \in DOMAIN t
    BY <1>2, <1>5, <1>8, <2>1, <2>2
  <2> QED BY <2>3 DEF ToSet
<1> QED BY <1>2, <1>4, <1>10, <1>11, <1>12, <1>13 DEF t, m

----------------------------------------------------------------------------
(* The retained entries.                                                   *)

OrderInv ==
  /\ IsInjective(order)
  /\ bytes = Bytes(ToSet(order)) /\ bytes <= MaxBytes /\ Len(order) <= MaxEntries

(* Retaining a value that was not there, with what leaves for it.  That    *)
(* all entries may leave shows that some number of them is enough.         *)
LEMMA Retaining ==
  ASSUME TypeOK, OrderInv, NEW k \in Key, cached[k] = None, NEW v \in Value, Retain(k, v)
  PROVE  /\ OrderInv' /\ order' \in Seq(Key) /\ bytes' \in Nat
         /\ cached' \in [Key -> Value \cup {None}]
         /\ \A j \in Key : cached'[j] # None <=> j \in ToSet(order')
         /\ \A j \in Key : cached'[j] = None \/ cached'[j] = cached[j] \/ j = k
<1> DEFINE keys  == IF k \in ToSet(order) THEN order ELSE Append(order, k)
           total == bytes + Size[k]
           N     == {n \in 0..Len(keys) : Fits(n, keys, total)}
           n     == Evicted(keys, total)
<1>1. order \in Seq(Key) /\ k \notin ToSet(order) /\ IsInjective(order)
  BY DEF TypeOK, OrderInv
<1>2. /\ order' = SubSeq(keys, n + 1, Len(keys))
      /\ bytes' = total - Bytes(Oldest(n, keys))
      /\ cached' = [j \in Key |-> IF j \in Oldest(n, keys) THEN None
                                  ELSE IF j = k THEN v ELSE cached[j]]
  BY DEF Retain
<1>3. keys \in Seq(Key) /\ IsInjective(keys) /\ ToSet(keys) = ToSet(order) \cup {k}
  <2>1. keys = Append(order, k)
    BY <1>1
  <2> QED BY <1>1, <2>1, Appended
<1>4. /\ ToSet(keys) \in SUBSET Key /\ IsFiniteSet(ToSet(keys))
      /\ Size[k] \in Nat /\ bytes = Bytes(ToSet(order)) /\ bytes \in Nat
  BY <1>3, KeysAreFinite, CacheAssumption DEF OrderInv, TypeOK
<1>5. total = Bytes(ToSet(keys)) /\ total \in Nat
  <2>1. ToSet(keys) \ {k} = ToSet(order) /\ k \in ToSet(keys)
    BY <1>1, <1>3
  <2>2. Bytes(ToSet(keys)) = Size[k] + Bytes(ToSet(order))
    BY <1>4, <2>1, BytesRemove
  <2> QED BY <1>4, <2>2
<1> HIDE DEF keys, total
<1>6. Len(keys) \in Nat
  BY <1>3
<1>7. Len(keys) \in N
  <2> DEFINE m == Len(keys)
             t == SubSeq(keys, m + 1, m)
  <2>1. m \in 0..m
    BY <1>6
  <2>2. t \in Seq(Key) /\ Len(t) = m - m /\ ToSet(t) = ToSet(keys) \ Oldest(m, keys)
        /\ Oldest(m, keys) \in SUBSET ToSet(keys)
    BY <1>3, <2>1, OldestLeave
  <2> HIDE DEF t, m
  <2>3. m \in Nat /\ m - m = 0 /\ 0 <= MaxEntries /\ 0 <= MaxBytes
    BY <1>6, CacheAssumption DEF m
  <2>4. ToSet(t) = {}
    BY <2>2, <2>3 DEF ToSet
  <2>5. Oldest(m, keys) = ToSet(keys)
    BY <2>2, <2>4
  <2>6. total - Bytes(Oldest(m, keys)) = 0
    BY <1>5, <2>5
  <2> QED BY <2>1, <2>3, <2>6 DEF Fits, m
<1>8. n \in N
  <2>1. N \in SUBSET Nat
    BY <1>6
  <2> HIDE DEF N
  <2> QED BY <1>7, <2>1, MinOf DEF Evicted, N
<1>9. /\ n \in 0..Len(keys) /\ Len(keys) - n <= MaxEntries
      /\ total - Bytes(Oldest(n, keys)) <= MaxBytes
  BY <1>8 DEF Fits
<1> HIDE DEF n, N
<1>10. /\ order' \in Seq(Key) /\ IsInjective(order') /\ Len(order') = Len(keys) - n
       /\ ToSet(order') = ToSet(keys) \ Oldest(n, keys)
       /\ Oldest(n, keys) \in SUBSET ToSet(keys)
  BY <1>2, <1>3, <1>9, OldestLeave
<1>11. bytes' = Bytes(ToSet(order')) /\ bytes' \in Nat
  <2>1. Bytes(ToSet(keys) \ Oldest(n, keys)) = Bytes(ToSet(keys)) - Bytes(Oldest(n, keys))
    BY <1>4, <1>10, BytesMinus
  <2>2. Bytes(ToSet(order')) \in Nat
    BY <1>10, KeysAreFinite, BytesType
  <2> QED BY <1>2, <1>5, <1>10, <2>1, <2>2
<1>12. OrderInv'
  BY <1>2, <1>9, <1>10, <1>11 DEF OrderInv
<1>13. v # None
  BY CacheAssumption DEF Value
<1>14. ASSUME NEW j \in Key
       PROVE  /\ cached'[j] # None <=> j \in ToSet(order')
              /\ cached'[j] = None \/ cached'[j] = cached[j] \/ j = k
              /\ cached'[j] \in Value \cup {None}
  <2>1. cached[j] # None <=> j \in ToSet(order)
    BY DEF TypeOK
  <2>2. cached[j] \in Value \cup {None}
    BY DEF TypeOK
  <2>3. CASE j \in Oldest(n, keys)
    <3>1. cached'[j] = None BY <1>2, <2>3
    <3>2. j \notin ToSet(order') BY <1>10, <2>3
    <3> QED BY <3>1, <3>2
  <2>4. CASE j \notin Oldest(n, keys) /\ j = k BY <1>2, <1>3, <1>10, <1>13, <2>4
  <2>5. CASE j \notin Oldest(n, keys) /\ j # k
    <3>1. cached'[j] = cached[j] BY <1>2, <2>5
    <3> QED BY <1>3, <1>10, <2>1, <2>2, <2>5, <3>1
  <2> QED BY <2>3, <2>4, <2>5
<1>15. cached' \in [Key -> Value \cup {None}]
  BY <1>2, <1>14
<1> QED BY <1>10, <1>11, <1>12, <1>14, <1>15

----------------------------------------------------------------------------
(* Loads in flight.  The thread that owns the future of a key is the one   *)
(* that loads it, until it removes the future; nothing is retained for the *)
(* key before it inserts what it has loaded.                               *)

LoadInv ==
  /\ \A t \in Thread : pc[t] \in Owning => key[t] \in Key /\ pending[key[t]] = t
  /\ \A k \in Key : pending[k] # None =>
       pc[pending[k]] \in Owning /\ key[pending[k]] = k
  /\ \A t \in Thread : pc[t] \in {"load", "insert"} => cached[key[t]] = None
  /\ \A t \in Thread : pc[t] \in {"insert", "settle"} => val[t] \in Value

(* Who waits, waits for an owner of its key that will settle.              *)
JoinInv ==
  \A t \in Thread : pc[t] = "wait" =>
    /\ joined[t] \in Thread /\ pc[joined[t]] \in Owning \ {"pop"}
    /\ key[t] \in Key /\ key[joined[t]] = key[t]

(* A read answers with nothing older than what it found when it began,     *)
(* which is no newer than what the load it shares was asked for.           *)
FreshInv ==
  /\ \A k \in Key : asked[k] <= version[k]
  /\ \A k \in Retained : version[k] = 0
  /\ \A k \in Key : cached[k] # None => k \in Retained
  /\ \A t \in Thread : pc[t] \in Owning \cup {"wait"} => least[t] <= asked[key[t]]
  /\ \A t \in Thread : pc[t] \in {"insert", "settle"} => asked[key[t]] <= val[t]
  /\ \A t \in Thread : pc[t] = "pop" /\ val[t] # None => asked[key[t]] <= val[t]
  /\ \A t \in Thread : pc[t] = "woken" /\ val[t] # None => least[t] <= val[t]

CacheInv == TypeOK /\ OrderInv /\ LoadInv

LEMMA InitCacheInv == Init => CacheInv /\ JoinInv /\ FreshInv
<1> SUFFICES ASSUME Init PROVE CacheInv /\ JoinInv /\ FreshInv
  OBVIOUS
<1>1. MaxVersion \in Nat /\ MaxEntries \in Nat /\ MaxBytes \in Nat /\ 0 \in Value
  BY CacheAssumption DEF Value
<1>2. order = << >> /\ order \in Seq(Key) /\ DOMAIN order = {} /\ Len(order) = 0
  BY DEF Init
<1>3. ToSet(order) = {}
  BY <1>2 DEF ToSet
<1>4. Bytes(ToSet(order)) = 0
  BY <1>3, BytesOfNone
<1>5. OrderInv
  BY <1>1, <1>2, <1>4 DEF OrderInv, IsInjective, Init
<1>6. TypeOK
  BY <1>1, <1>2, <1>3 DEF TypeOK, Init, Owning
<1>7. \A t \in Thread : pc[t] = "idle"
  BY DEF Init
<1>8. \A k \in Key : pending[k] = None /\ cached[k] = None /\ asked[k] = 0 /\ version[k] = 0
  BY DEF Init
<1>9. Retained \subseteq Key
  BY CacheAssumption
<1> QED BY <1>5, <1>6, <1>7, <1>8, <1>9 DEF CacheInv, LoadInv, JoinInv, FreshInv, Owning

(* What the entries owe to a step that leaves them alone, or moves one.    *)
LEMMA HitOrder ==
  ASSUME TypeOK, OrderInv, NEW t \in Thread, NEW k \in Key, Hit(t, k)
  PROVE  /\ OrderInv' /\ order' \in Seq(Key) /\ ToSet(order') = ToSet(order)
         /\ cached[k] \in Value
<1>1. PICK i \in DOMAIN order : order[i] = k /\ order' = Append(RemoveAt(order, i), order[i])
  BY DEF Hit
<1>2. /\ order' \in Seq(Key) /\ IsInjective(order') /\ ToSet(order') = ToSet(order)
      /\ order \in Seq(Key) /\ IsInjective(order)
  BY <1>1, MovedToEnd DEF TypeOK, OrderInv
<1>3. Len(order') = Len(order)
  <2>1. Cardinality(ToSet(order')) = Len(order')
    BY <1>2, KeysAreFinite
  <2>2. Cardinality(ToSet(order)) = Len(order)
    BY <1>2, KeysAreFinite
  <2> QED BY <1>2, <2>1, <2>2
<1>4. OrderInv'
  BY <1>2, <1>3 DEF OrderInv, Hit
<1>5. k \in ToSet(order)
  BY <1>1 DEF ToSet
<1> QED BY <1>2, <1>4, <1>5 DEF TypeOK

(* The thread that inserts owns its key, for which nothing is retained.    *)
LEMMA InsertOrder ==
  ASSUME CacheInv, NEW t \in Thread, Insert(t)
  PROVE  /\ OrderInv' /\ order' \in Seq(Key) /\ bytes' \in Nat
         /\ cached' \in [Key -> Value \cup {None}]
         /\ \A j \in Key : cached'[j] # None <=> j \in ToSet(order')
         /\ \A j \in Key : cached'[j] = None \/ cached'[j] = cached[j]
                             \/ (j = key[t] /\ j \in Retained)
<1>1. TypeOK /\ OrderInv /\ key[t] \in Key /\ cached[key[t]] = None /\ val[t] \in Value
  BY DEF CacheInv, LoadInv, Insert, Owning
<1>2. CASE Retainable(key[t])
  <2> DEFINE k == key[t]
             v == val[t]
  <2>1. Retain(k, v) /\ k \in Key /\ cached[k] = None /\ v \in Value /\ k \in Retained
    BY <1>1, <1>2 DEF Insert, Retainable
  <2> HIDE DEF k, v
  <2>2. /\ OrderInv' /\ order' \in Seq(Key) /\ bytes' \in Nat
        /\ cached' \in [Key -> Value \cup {None}]
        /\ \A j \in Key : cached'[j] # None <=> j \in ToSet(order')
        /\ \A j \in Key : cached'[j] = None \/ cached'[j] = cached[j] \/ j = k
    BY <1>1, <2>1, Retaining
  <2> QED BY <2>1, <2>2 DEF k
<1>3. CASE ~Retainable(key[t])
  <2>1. UNCHANGED cache
    BY <1>3 DEF Insert
  <2>2. order' = order /\ cached' = cached /\ bytes' = bytes
    BY <2>1 DEF cache
  <2>3. OrderInv'
    BY <1>1, <2>2 DEF OrderInv
  <2>4. /\ order \in Seq(Key) /\ bytes \in Nat /\ cached \in [Key -> Value \cup {None}]
        /\ \A j \in Key : cached[j] # None <=> j \in ToSet(order)
    BY <1>1 DEF TypeOK
  <2> QED BY <2>2, <2>3, <2>4
<1> QED BY <1>2, <1>3

LEMMA NextTypeOK ==
  ASSUME CacheInv, [Next]_vars
  PROVE  TypeOK' /\ OrderInv'
<1>0. TypeOK /\ OrderInv /\ MaxVersion \in Nat /\ 0 \in Value
  BY CacheAssumption DEF CacheInv, Value
<1>1. ASSUME NEW t \in Thread, NEW k \in Key, Hit(t, k) PROVE TypeOK' /\ OrderInv'
  <2>1. OrderInv' /\ order' \in Seq(Key) /\ ToSet(order') = ToSet(order) /\ cached[k] \in Value
    BY <1>0, <1>1, HitOrder
  <2> QED BY <1>0, <1>1, <2>1 DEF TypeOK, Hit, Begin, Goto
<1>2. ASSUME NEW t \in Thread, Insert(t) PROVE TypeOK' /\ OrderInv'
  <2>1. /\ OrderInv' /\ order' \in Seq(Key) /\ bytes' \in Nat
        /\ cached' \in [Key -> Value \cup {None}]
        /\ \A j \in Key : cached'[j] # None <=> j \in ToSet(order')
    BY <1>2, InsertOrder
  <2> QED BY <1>0, <1>2, <2>1 DEF TypeOK, Insert, Goto, Owning
<1>3. CASE UNCHANGED cache
  <2>1. OrderInv'
    BY <1>0, <1>3 DEF OrderInv, cache
  <2>2. TypeOK => /\ order \in Seq(Key) /\ bytes \in Nat /\ cached \in [Key -> Value \cup {None}]
                  /\ \A k \in Key : cached[k] # None <=> k \in ToSet(order)
    BY DEF TypeOK
  <2>3. ASSUME NEW t \in Thread, NEW k \in Key, Join(t, k) PROVE TypeOK'
    <3>1. pending[k] \in Thread
      BY <1>0, <2>3 DEF TypeOK, Join, Joinable
    <3> QED BY <1>0, <2>3, <3>1 DEF TypeOK, Join, Begin, Goto, cache
  <2>4. ASSUME NEW t \in Thread, NEW k \in Key, Own(t, k) PROVE TypeOK'
    BY <1>0, <2>4 DEF TypeOK, Own, Begin, Goto, Owning, cache
  <2>5. ASSUME NEW t \in Thread, Load(t) PROVE TypeOK'
    <3>1. key[t] \in Key
      BY <2>5 DEF CacheInv, LoadInv, Load, Owning
    <3> QED BY <1>0, <2>5, <3>1 DEF TypeOK, Load, Goto, Owning, cache
  <2>6. ASSUME NEW t \in Thread, NEW v \in Value \cup {None}, Wake(t, v) PROVE TypeOK'
    BY <1>0, <2>6 DEF TypeOK, Wake, Owning, cache
  <2>7. ASSUME NEW t \in Thread, SetResult(t) \/ SetException(t) PROVE TypeOK'
    <3>1. val[t] \in Value \cup {None}
      BY <1>0 DEF TypeOK
    <3> QED BY <2>6, <2>7, <3>1 DEF SetResult, SetException
  <2>8. ASSUME NEW t \in Thread, Pop(t) \/ ReturnJoined(t) PROVE TypeOK'
    <3>1. pending' \in [Key -> Thread \cup {None}]
      BY <1>0, <2>8 DEF TypeOK, Pop, ReturnJoined
    <3>2. Leave(t)
      BY <2>8 DEF Pop, ReturnJoined
    <3> QED BY <1>0, <3>1, <3>2 DEF TypeOK, Leave, Goto, cache
  <2>9. ASSUME NEW k \in Key, SourceChanges(k) PROVE TypeOK'
    <3>1. version[k] \in Value
      BY <1>0 DEF TypeOK
    <3>2. version[k] + 1 \in Value
      BY <1>0, <2>9, <3>1 DEF Value, SourceChanges
    <3> QED BY <1>0, <2>9, <3>2 DEF TypeOK, SourceChanges, cache
  <2>10. CASE UNCHANGED vars
    <3>1. UNCHANGED <<version, asked, order, cached, bytes, pending, pc, key, joined, val, least>>
      BY <2>10 DEF vars, cache
    <3> QED BY <1>0, <2>1, <3>1 DEF TypeOK
  <2>11. CASE \E t \in Thread, k \in Key : Hit(t, k)
    BY <1>1, <2>11
  <2>12. CASE \E t \in Thread : Insert(t)
    BY <1>2, <2>12
  <2> QED
    BY <2>1, <2>3, <2>4, <2>5, <2>7, <2>8, <2>9, <2>10, <2>11, <2>12 DEF Next, ThreadStep
<1>4. ASSUME [Next]_vars
      PROVE  \/ UNCHANGED cache
             \/ \E t \in Thread, k \in Key : Hit(t, k)
             \/ \E t \in Thread : Insert(t)
  BY <1>4
  DEF Next, ThreadStep, Join, Own, Load, SetResult, SetException, Wake, Pop, ReturnJoined,
      Leave, SourceChanges, vars
<1> QED BY <1>1, <1>2, <1>3, <1>4

(* Every step is one of these, with a value that a future settles on.      *)
LEMMA CacheSteps ==
  ASSUME [Next]_vars
  PROVE  \/ \E t \in Thread, k \in Key : Hit(t, k) \/ Join(t, k) \/ Own(t, k)
         \/ \E t \in Thread : Load(t) \/ Insert(t)
         \/ \E t \in Thread : pc[t] \in {"settle", "fail"}
              /\ \E v : Wake(t, v) /\ v = (IF pc[t] = "settle" THEN val[t] ELSE None)
         \/ \E t \in Thread : Pop(t) \/ ReturnJoined(t)
         \/ \E k \in Key : SourceChanges(k)
         \/ UNCHANGED vars
  BY DEF Next, ThreadStep, SetResult, SetException

(* The owners stay the same: what is left to show of a step.               *)
LEMMA SameOwners ==
  ASSUME TypeOK, LoadInv, UNCHANGED pending,
         \A t \in Thread : pc'[t] \in Owning <=> pc[t] \in Owning,
         \A t \in Thread : pc[t] \in Owning => key'[t] = key[t],
         \A t \in Thread : pc'[t] \in {"load", "insert"} => cached'[key[t]] = None,
         \A t \in Thread : pc'[t] \in {"insert", "settle"} => val'[t] \in Value
  PROVE  LoadInv'
<1>1. \A t \in Thread : pc'[t] \in Owning => key'[t] \in Key /\ pending'[key'[t]] = t
  BY DEF LoadInv
<1>2. \A k \in Key : pending[k] # None => pending[k] \in Thread
  BY DEF TypeOK
<1>3. \A k \in Key : pending'[k] # None => pc'[pending'[k]] \in Owning /\ key'[pending'[k]] = k
  BY <1>2 DEF LoadInv
<1>4. \A t \in Thread : pc'[t] \in {"load", "insert"} => cached'[key'[t]] = None
  BY DEF Owning
<1> QED BY <1>1, <1>3, <1>4 DEF LoadInv

LEMMA NextLoadInv ==
  ASSUME CacheInv, [Next]_vars
  PROVE  LoadInv'
<1>0. TypeOK /\ LoadInv
  BY DEF CacheInv
<1> USE <1>0, CacheAssumption
<1>1. ASSUME NEW t \in Thread, NEW k \in Key, Hit(t, k) \/ Join(t, k) PROVE LoadInv'
  <2>1. /\ pc[t] = "idle" /\ pc'[t] \in {"wait", "woken"} /\ UNCHANGED <<cached, pending>>
        /\ \A u \in Thread \ {t} : pc'[u] = pc[u] /\ key'[u] = key[u] /\ val'[u] = val[u]
    BY <1>1 DEF Hit, Join, Begin, Goto, TypeOK, cache
  <2>2. \A u \in Thread : pc'[u] \in Owning <=> pc[u] \in Owning
    BY <2>1 DEF Owning
  <2>3. \A u \in Thread : pc[u] \in Owning => key'[u] = key[u]
    BY <2>1 DEF Owning
  <2>4. \A u \in Thread : pc'[u] \in {"load", "insert"} => cached'[key[u]] = None
    BY <2>1 DEF LoadInv
  <2>5. \A u \in Thread : pc'[u] \in {"insert", "settle"} => val'[u] \in Value
    BY <2>1 DEF LoadInv
  <2> QED BY <2>1, <2>2, <2>3, <2>4, <2>5, SameOwners
<1>2. ASSUME NEW t \in Thread, NEW k \in Key, Own(t, k) PROVE LoadInv'
  <2>1. /\ pc[t] = "idle" /\ pc'[t] = "load" /\ key'[t] = k /\ UNCHANGED <<cached, val>>
        /\ cached[k] = None /\ pending[k] = None
        /\ pending'[k] = t /\ \A j \in Key \ {k} : pending'[j] = pending[j]
        /\ \A u \in Thread \ {t} : pc'[u] = pc[u] /\ key'[u] = key[u]
    BY <1>2 DEF Own, Begin, Goto, Joinable, TypeOK, cache
  <2>2. ASSUME NEW u \in Thread, pc'[u] \in Owning
        PROVE  key'[u] \in Key /\ pending'[key'[u]] = u
    <3>1. CASE u = t BY <2>1, <3>1
    <3>2. CASE u # t
      <4>1. key[u] \in Key /\ pending[key[u]] = u /\ u # None BY <2>1, <2>2, <3>2 DEF LoadInv
      <4> QED BY <2>1, <3>2, <4>1
    <3> QED BY <3>1, <3>2
  <2>3. ASSUME NEW j \in Key, pending'[j] # None
        PROVE  pc'[pending'[j]] \in Owning /\ key'[pending'[j]] = j
    <3>1. CASE j = k BY <2>1, <3>1 DEF Owning
    <3>2. CASE j # k
      <4>1. pending'[j] = pending[j] /\ pc[pending[j]] \in Owning /\ key[pending[j]] = j
            /\ pending[j] \in Thread
        BY <2>1, <2>3, <3>2 DEF LoadInv, TypeOK
      <4>2. pending[j] # t BY <2>1, <4>1 DEF Owning
      <4> QED BY <2>1, <4>1, <4>2
    <3> QED BY <3>1, <3>2
  <2>4. \A u \in Thread : pc'[u] \in {"load", "insert"} => cached[key'[u]] = None
    BY <2>1 DEF LoadInv
  <2>5. \A u \in Thread : pc'[u] \in {"insert", "settle"} => val[u] \in Value
    BY <2>1 DEF LoadInv
  <2> QED BY <2>1, <2>2, <2>3, <2>4, <2>5 DEF LoadInv
<1>3. ASSUME NEW t \in Thread, Load(t) PROVE LoadInv'
  <2>1. /\ pc[t] = "load" /\ pc'[t] \in {"insert", "fail"} /\ UNCHANGED <<cached, pending, key>>
        /\ \A u \in Thread \ {t} : pc'[u] = pc[u] /\ val'[u] = val[u]
        /\ pc'[t] = "insert" => val'[t] = version[key[t]]
    BY <1>3 DEF Load, Goto, TypeOK, cache
  <2>2. key[t] \in Key /\ version[key[t]] \in Value
    BY <2>1 DEF LoadInv, TypeOK, Owning
  <2>3. \A u \in Thread : pc'[u] \in Owning <=> pc[u] \in Owning
    BY <2>1 DEF Owning
  <2>4. \A u \in Thread : pc'[u] \in {"load", "insert"} => cached'[key[u]] = None
    BY <2>1 DEF LoadInv
  <2>5. \A u \in Thread : pc'[u] \in {"insert", "settle"} => val'[u] \in Value
    BY <2>1, <2>2 DEF LoadInv
  <2> QED BY <2>1, <2>3, <2>4, <2>5, SameOwners
<1>4. ASSUME NEW t \in Thread, Insert(t) PROVE LoadInv'
  <2>1. /\ pc[t] = "insert" /\ pc'[t] = "settle" /\ UNCHANGED <<pending, key, val>>
        /\ \A u \in Thread \ {t} : pc'[u] = pc[u]
    BY <1>4 DEF Insert, Goto, TypeOK
  <2>2. \A j \in Key : cached'[j] = None \/ cached'[j] = cached[j] \/ j = key[t]
    BY <1>4, InsertOrder
  <2>3. ASSUME NEW u \in Thread, pc'[u] \in {"load", "insert"} PROVE cached'[key[u]] = None
    <3>1. u # t /\ pc'[u] = pc[u] /\ pc[u] \in Owning BY <2>1, <2>3 DEF Owning
    <3>2. key[u] \in Key /\ pending[key[u]] = u /\ cached[key[u]] = None
      BY <2>1, <2>3, <3>1 DEF LoadInv
    <3>3. pending[key[t]] = t BY <2>1 DEF LoadInv, Owning
    <3>4. key[u] # key[t] BY <3>1, <3>2, <3>3
    <3> QED BY <2>2, <3>2, <3>4
  <2>4. \A u \in Thread : pc'[u] \in Owning <=> pc[u] \in Owning
    BY <2>1 DEF Owning
  <2>5. \A u \in Thread : pc'[u] \in {"insert", "settle"} => val'[u] \in Value
    BY <2>1 DEF LoadInv
  <2> QED BY <2>1, <2>3, <2>4, <2>5, SameOwners
<1>5. ASSUME NEW t \in Thread, NEW v, pc[t] \in {"settle", "fail"}, Wake(t, v) PROVE LoadInv'
  <2>1. /\ pc'[t] = "pop" /\ UNCHANGED <<pending, key, cached>>
        /\ \A u \in Thread \ {t} :
             \/ pc'[u] = pc[u] /\ val'[u] = val[u]
             \/ pc[u] = "wait" /\ pc'[u] = "woken"
    BY <1>5 DEF Wake, Waiting, TypeOK, cache
  <2>2. \A u \in Thread : pc'[u] \in Owning <=> pc[u] \in Owning
    BY <1>5, <2>1 DEF Owning
  <2>3. \A u \in Thread : pc'[u] \in {"load", "insert"} => cached'[key[u]] = None
    BY <2>1 DEF LoadInv
  <2>4. \A u \in Thread : pc'[u] \in {"insert", "settle"} => val'[u] \in Value
    BY <2>1 DEF LoadInv
  <2> QED BY <2>1, <2>2, <2>3, <2>4, SameOwners
<1>6. ASSUME NEW t \in Thread, Pop(t) PROVE LoadInv'
  <2>1. /\ pc[t] = "pop" /\ pc'[t] = "idle" /\ UNCHANGED cached
        /\ \A u \in Thread \ {t} : pc'[u] = pc[u] /\ key'[u] = key[u] /\ val'[u] = val[u]
        /\ pending' = [pending EXCEPT ![key[t]] = None]
    BY <1>6 DEF Pop, Leave, Goto, TypeOK, cache
  <2>2. key[t] \in Key /\ pending[key[t]] = t
    BY <2>1 DEF LoadInv, Owning
  <2>3. pending'[key[t]] = None /\ \A j \in Key \ {key[t]} : pending'[j] = pending[j]
    BY <2>1, <2>2 DEF TypeOK
  <2>4. ASSUME NEW u \in Thread, pc'[u] \in Owning
        PROVE  key'[u] \in Key /\ pending'[key'[u]] = u
    <3>1. u # t /\ pc[u] \in Owning /\ key'[u] = key[u] BY <2>1, <2>4 DEF Owning
    <3>2. key[u] \in Key /\ pending[key[u]] = u BY <3>1 DEF LoadInv
    <3>3. key[u] # key[t] BY <2>2, <3>1, <3>2
    <3> QED BY <2>3, <3>1, <3>2, <3>3
  <2>5. ASSUME NEW j \in Key, pending'[j] # None
        PROVE  pc'[pending'[j]] \in Owning /\ key'[pending'[j]] = j
    <3>1. j # key[t] /\ pending'[j] = pending[j] BY <2>3, <2>5
    <3>2. pc[pending[j]] \in Owning /\ key[pending[j]] = j /\ pending[j] \in Thread
      BY <2>5, <3>1 DEF LoadInv, TypeOK
    <3>3. pending[j] # t BY <3>1, <3>2
    <3> QED BY <2>1, <3>1, <3>2, <3>3
  <2>6. \A u \in Thread : pc'[u] \in {"load", "insert"} => cached[key'[u]] = None
    BY <2>1 DEF LoadInv
  <2>7. \A u \in Thread : pc'[u] \in {"insert", "settle"} => val'[u] \in Value
    BY <2>1 DEF LoadInv
  <2> QED BY <2>1, <2>4, <2>5, <2>6, <2>7 DEF LoadInv
<1>7. ASSUME NEW t \in Thread, ReturnJoined(t) PROVE LoadInv'
  <2>1. /\ pc[t] = "woken" /\ pc'[t] = "idle" /\ UNCHANGED <<cached, pending>>
        /\ \A u \in Thread \ {t} : pc'[u] = pc[u] /\ key'[u] = key[u] /\ val'[u] = val[u]
    BY <1>7 DEF ReturnJoined, Leave, Goto, TypeOK, cache
  <2>2. \A u \in Thread : pc'[u] \in Owning <=> pc[u] \in Owning
    BY <2>1 DEF Owning
  <2>3. \A u \in Thread : pc[u] \in Owning => key'[u] = key[u]
    BY <2>1 DEF Owning
  <2>4. \A u \in Thread : pc'[u] \in {"load", "insert"} => cached'[key[u]] = None
    BY <2>1 DEF LoadInv
  <2>5. \A u \in Thread : pc'[u] \in {"insert", "settle"} => val'[u] \in Value
    BY <2>1 DEF LoadInv
  <2> QED BY <2>1, <2>2, <2>3, <2>4, <2>5, SameOwners
<1>8. CASE UNCHANGED <<cached, pending, pc, key, val>>
  BY <1>8 DEF LoadInv
<1> QED
  BY <1>1, <1>2, <1>3, <1>4, <1>5, <1>6, <1>7, <1>8, CacheSteps DEF SourceChanges, vars, cache

LEMMA NextCacheInv == CacheInv /\ [Next]_vars => CacheInv'
  BY NextTypeOK, NextLoadInv DEF CacheInv

(* Waiting threads keep the thread they wait for, until it settles.        *)
LEMMA NextJoinInv ==
  ASSUME CacheInv, JoinInv, [Next]_vars
  PROVE  JoinInv'
<1>0. TypeOK /\ LoadInv
  BY DEF CacheInv
<1> USE <1>0, CacheAssumption
<1>1. ASSUME NEW t \in Thread, NEW k \in Key, Join(t, k) PROVE JoinInv'
  <2> DEFINE o == pending[k]
  <2>1. o # None /\ o \in Thread /\ pc[o] \in Owning /\ key[o] = k
    BY <1>1 DEF Join, Joinable, LoadInv, TypeOK
  <2>2. /\ pc[t] = "idle" /\ key'[t] = k /\ joined'[t] = o
        /\ pc'[t] = IF pc[o] = "pop" THEN "woken" ELSE "wait"
        /\ \A u \in Thread \ {t} : pc'[u] = pc[u] /\ key'[u] = key[u] /\ joined'[u] = joined[u]
    BY <1>1 DEF Join, Begin, Goto, TypeOK
  <2> HIDE DEF o
  <2>3. o # t
    BY <2>1, <2>2 DEF Owning
  <2>4. ASSUME NEW u \in Thread, pc'[u] = "wait"
        PROVE  /\ joined'[u] \in Thread /\ pc'[joined'[u]] \in Owning \ {"pop"}
               /\ key'[u] \in Key /\ key'[joined'[u]] = key'[u]
    <3>1. CASE u = t BY <2>1, <2>2, <2>3, <2>4, <3>1
    <3>2. CASE u # t
      <4>1. /\ joined[u] \in Thread /\ pc[joined[u]] \in Owning \ {"pop"}
            /\ key[u] \in Key /\ key[joined[u]] = key[u]
        BY <2>2, <2>4, <3>2 DEF JoinInv
      <4>2. joined[u] # t BY <2>2, <4>1 DEF Owning
      <4> QED BY <2>2, <3>2, <4>1, <4>2
    <3> QED BY <3>1, <3>2
  <2> QED BY <2>4 DEF JoinInv
(* Steps of a thread that is not waited for, or still owns what it loads.  *)
<1>2. ASSUME NEW t \in Thread, pc'[t] # "wait", UNCHANGED joined,
             pc[t] \in Owning \ {"pop"} => pc'[t] \in Owning \ {"pop"} /\ key'[t] = key[t],
             \A u \in Thread \ {t} : pc'[u] = pc[u] /\ key'[u] = key[u]
      PROVE  JoinInv'
  <2>1. ASSUME NEW u \in Thread, pc'[u] = "wait"
        PROVE  /\ joined[u] \in Thread /\ pc'[joined[u]] \in Owning \ {"pop"}
               /\ key'[u] \in Key /\ key'[joined[u]] = key'[u]
    <3>1. /\ u # t /\ joined[u] \in Thread /\ pc[joined[u]] \in Owning \ {"pop"}
          /\ key[u] \in Key /\ key[joined[u]] = key[u]
      BY <1>2, <2>1 DEF JoinInv
    <3>2. CASE joined[u] = t BY <1>2, <3>1, <3>2
    <3>3. CASE joined[u] # t BY <1>2, <3>1, <3>3
    <3> QED BY <3>2, <3>3
  <2> QED BY <1>2, <2>1 DEF JoinInv
<1>3. ASSUME NEW t \in Thread, NEW k \in Key, Hit(t, k) \/ Own(t, k) PROVE JoinInv'
  <2>1. /\ pc[t] = "idle" /\ pc'[t] \in {"woken", "load"} /\ UNCHANGED joined
        /\ \A u \in Thread \ {t} : pc'[u] = pc[u] /\ key'[u] = key[u]
    BY <1>3 DEF Hit, Own, Begin, Goto, TypeOK
  <2> QED BY <1>2, <2>1 DEF Owning
<1>4. ASSUME NEW t \in Thread, Load(t) \/ Insert(t) PROVE JoinInv'
  <2>1. /\ pc'[t] \in {"insert", "fail", "settle"} /\ UNCHANGED <<joined, key>>
        /\ \A u \in Thread \ {t} : pc'[u] = pc[u]
    BY <1>4 DEF Load, Insert, Goto, TypeOK
  <2> QED BY <1>2, <2>1 DEF Owning
<1>5. ASSUME NEW t \in Thread, NEW v, pc[t] \in {"settle", "fail"}, Wake(t, v) PROVE JoinInv'
  <2>1. /\ UNCHANGED <<joined, key>>
        /\ \A u \in Thread : pc'[u] = IF u = t THEN "pop"
             ELSE IF pc[u] = "wait" /\ joined[u] = t THEN "woken" ELSE pc[u]
    BY <1>5 DEF Wake, Waiting
  <2>2. ASSUME NEW u \in Thread, pc'[u] = "wait"
        PROVE  /\ joined[u] \in Thread /\ pc'[joined[u]] \in Owning \ {"pop"}
               /\ key[u] \in Key /\ key[joined[u]] = key[u]
    <3>1. u # t /\ pc[u] = "wait" /\ joined[u] # t
      BY <2>1, <2>2
    <3>2. /\ joined[u] \in Thread /\ pc[joined[u]] \in Owning \ {"pop"}
          /\ key[u] \in Key /\ key[joined[u]] = key[u]
      BY <3>1 DEF JoinInv
    <3>3. pc'[joined[u]] = pc[joined[u]]
      BY <2>1, <3>1, <3>2 DEF Owning
    <3> QED BY <3>2, <3>3
  <2> QED BY <2>1, <2>2 DEF JoinInv
<1>6. ASSUME NEW t \in Thread, Pop(t) \/ ReturnJoined(t) PROVE JoinInv'
  <2>1. /\ pc[t] \in {"pop", "woken"} /\ pc'[t] = "idle"
        /\ \A u \in Thread \ {t} : pc'[u] = pc[u] /\ key'[u] = key[u] /\ joined'[u] = joined[u]
    BY <1>6 DEF Pop, ReturnJoined, Leave, Goto, TypeOK
  <2>2. ASSUME NEW u \in Thread, pc'[u] = "wait"
        PROVE  /\ joined'[u] \in Thread /\ pc'[joined'[u]] \in Owning \ {"pop"}
               /\ key'[u] \in Key /\ key'[joined'[u]] = key'[u]
    <3>1. /\ u # t /\ joined[u] \in Thread /\ pc[joined[u]] \in Owning \ {"pop"}
          /\ key[u] \in Key /\ key[joined[u]] = key[u]
      BY <2>1, <2>2 DEF JoinInv
    <3>2. joined[u] # t
      BY <2>1, <3>1 DEF Owning
    <3> QED BY <2>1, <3>1, <3>2
  <2> QED BY <2>2 DEF JoinInv
<1>7. CASE UNCHANGED <<pc, key, joined>>
  BY <1>7 DEF JoinInv
<1> QED
  BY <1>1, <1>3, <1>4, <1>5, <1>6, <1>7, CacheSteps DEF SourceChanges, vars

LEMMA Versions ==
  /\ \A a \in Value : a <= a /\ 0 <= a /\ (a <= 0 => a = 0)
  /\ \A a, b, c \in Value : a <= b /\ b <= c => a <= c
  BY CacheAssumption DEF Value

LEMMA NextFreshInv ==
  ASSUME CacheInv, JoinInv, FreshInv, [Next]_vars
  PROVE  FreshInv'
<1>0. TypeOK /\ LoadInv /\ Retained \subseteq Key /\ None \notin Value
  BY CacheAssumption DEF CacheInv, Value
<1> USE <1>0
(* A step of one thread that leaves the source and what loads were asked   *)
(* for alone has to show what that thread promises then.                   *)
<1>1. ASSUME NEW t \in Thread, UNCHANGED <<version, asked>>,
             \A k \in Key : cached'[k] # None => k \in Retained,
             \A u \in Thread \ {t} :
               pc'[u] = pc[u] /\ key'[u] = key[u] /\ least'[u] = least[u] /\ val'[u] = val[u],
             pc'[t] \in Owning \cup {"wait"} => least'[t] <= asked[key'[t]],
             pc'[t] \in {"insert", "settle"} => asked[key'[t]] <= val'[t],
             pc'[t] = "pop" /\ val'[t] # None => asked[key'[t]] <= val'[t],
             pc'[t] = "woken" /\ val'[t] # None => least'[t] <= val'[t]
      PROVE  FreshInv'
  <2>1. \A u \in Thread : pc'[u] \in Owning \cup {"wait"} => least'[u] <= asked[key'[u]]
    BY <1>1 DEF FreshInv
  <2>2. \A u \in Thread : pc'[u] \in {"insert", "settle"} => asked[key'[u]] <= val'[u]
    BY <1>1 DEF FreshInv
  <2>3. \A u \in Thread : pc'[u] = "pop" /\ val'[u] # None => asked[key'[u]] <= val'[u]
    BY <1>1 DEF FreshInv
  <2>4. \A u \in Thread : pc'[u] = "woken" /\ val'[u] # None => least'[u] <= val'[u]
    BY <1>1 DEF FreshInv
  <2> QED BY <1>1, <2>1, <2>2, <2>3, <2>4 DEF FreshInv
<1>2. ASSUME NEW t \in Thread, NEW k \in Key, Hit(t, k) PROVE FreshInv'
  <2>1. cached[k] \in Value
    BY <1>2, HitOrder DEF CacheInv
  <2>2. version[k] = 0 /\ asked[k] = 0
    <3>1. k \in Retained /\ asked[k] <= version[k] /\ asked[k] \in Value
      BY <2>1 DEF FreshInv, TypeOK
    <3>2. version[k] = 0
      BY <3>1 DEF FreshInv
    <3> QED BY <3>1, <3>2, Versions
  <2>3. /\ pc'[t] = "woken" /\ val'[t] = cached[k] /\ least'[t] = 0
        /\ UNCHANGED <<version, asked, cached>>
        /\ \A u \in Thread \ {t} :
             pc'[u] = pc[u] /\ key'[u] = key[u] /\ least'[u] = least[u] /\ val'[u] = val[u]
    BY <1>2, <2>2 DEF Hit, Begin, Goto, TypeOK
  <2>4. \A j \in Key : cached'[j] # None => j \in Retained
    BY <2>3 DEF FreshInv
  <2>5. least'[t] <= val'[t]
    BY <2>1, <2>3, Versions
  <2> QED BY <1>1, <2>3, <2>4, <2>5 DEF Owning
<1>3. ASSUME NEW t \in Thread, NEW k \in Key, Join(t, k) PROVE FreshInv'
  <2> DEFINE o == pending[k]
  <2>1. o # None /\ o \in Thread /\ pc[o] \in Owning /\ key[o] = k
    BY <1>3 DEF Join, Joinable, LoadInv, TypeOK
  <2>2. /\ least'[t] = asked[k] /\ key'[t] = k /\ UNCHANGED <<version, asked, cached>>
        /\ \/ pc[o] = "pop" /\ pc'[t] = "woken" /\ val'[t] = val[o]
           \/ pc'[t] = "wait"
        /\ \A u \in Thread \ {t} :
             pc'[u] = pc[u] /\ key'[u] = key[u] /\ least'[u] = least[u] /\ val'[u] = val[u]
    BY <1>3, <2>1 DEF Join, Begin, Goto, TypeOK, cache
  <2> HIDE DEF o
  <2>3. \A j \in Key : cached'[j] # None => j \in Retained
    BY <2>2 DEF FreshInv
  <2>4. pc'[t] = "wait" => least'[t] <= asked[key'[t]]
    <3>1. asked[k] \in Value BY DEF TypeOK
    <3> QED BY <2>2, <3>1, Versions
  <2>5. pc'[t] = "woken" /\ val'[t] # None => least'[t] <= val'[t]
    BY <2>1, <2>2 DEF FreshInv
  <2>6. pc'[t] \notin Owning
    BY <2>2 DEF Owning
  <2>7. pc'[t] \notin {"insert", "settle", "pop"}
    BY <2>2
  <2> QED BY <1>1, <2>2, <2>3, <2>4, <2>5, <2>6, <2>7
<1>4. ASSUME NEW t \in Thread, NEW k \in Key, Own(t, k) PROVE FreshInv'
  <2>1. /\ pc[t] = "idle" /\ pc'[t] = "load" /\ key'[t] = k /\ least'[t] = version[k]
        /\ pending[k] = None /\ UNCHANGED <<version, cached, val>>
        /\ asked'[k] = version[k] /\ \A j \in Key \ {k} : asked'[j] = asked[j]
        /\ \A u \in Thread \ {t} : pc'[u] = pc[u] /\ key'[u] = key[u] /\ least'[u] = least[u]
    BY <1>4 DEF Own, Begin, Goto, Joinable, TypeOK, cache
  <2>2. version[k] <= version[k]
    <3>1. version[k] \in Value BY DEF TypeOK
    <3> QED BY <3>1, Versions
  <2>3. \A u \in Thread : u # None
    BY CacheAssumption
  <2>4. ASSUME NEW u \in Thread, pc[u] \in Owning \cup {"wait"}
        PROVE  key[u] \in Key \ {k}
    <3>1. CASE pc[u] \in Owning BY <2>1, <2>3, <3>1 DEF LoadInv
    <3>2. CASE pc[u] = "wait"
      <4>1. joined[u] \in Thread /\ pc[joined[u]] \in Owning /\ key[joined[u]] = key[u]
            /\ key[u] \in Key
        BY <3>2 DEF JoinInv
      <4> QED BY <2>1, <2>3, <4>1 DEF LoadInv
    <3> QED BY <2>4, <3>1, <3>2
  <2>5. \A j \in Key : asked'[j] <= version[j]
    BY <2>1, <2>2 DEF FreshInv
  <2>6. ASSUME NEW u \in Thread, pc'[u] \in Owning \cup {"wait"}
        PROVE  least'[u] <= asked'[key'[u]]
    <3>1. CASE u = t BY <2>1, <2>2, <3>1
    <3>2. CASE u # t
      <4>1. pc[u] \in Owning \cup {"wait"} /\ key[u] \in Key \ {k}
        BY <2>1, <2>4, <2>6, <3>2
      <4> QED BY <2>1, <3>2, <4>1 DEF FreshInv
    <3> QED BY <3>1, <3>2
  <2>7. ASSUME NEW u \in Thread,
               pc'[u] \in {"insert", "settle"} \/ (pc'[u] = "pop" /\ val[u] # None)
        PROVE  asked'[key'[u]] <= val[u]
    <3>1. u # t /\ pc'[u] = pc[u] /\ key'[u] = key[u] BY <2>1, <2>7
    <3>2. pc[u] \in Owning BY <2>7, <3>1 DEF Owning
    <3>3. key[u] \in Key \ {k} BY <2>4, <3>2
    <3>4. asked[key[u]] <= val[u] BY <2>7, <3>1 DEF FreshInv
    <3> QED BY <2>1, <3>1, <3>3, <3>4
  <2>8. \A u \in Thread : pc'[u] = "woken" /\ val[u] # None => least'[u] <= val[u]
    BY <2>1 DEF FreshInv
  <2>9. /\ \A j \in Retained : version'[j] = 0
        /\ \A j \in Key : cached'[j] # None => j \in Retained
    BY <2>1 DEF FreshInv
  <2>10. /\ version' = version /\ val' = val
    BY <2>1
  <2>11. /\ \A u \in Thread : pc'[u] \in {"insert", "settle"} => asked'[key'[u]] <= val[u]
         /\ \A u \in Thread : pc'[u] = "pop" /\ val[u] # None => asked'[key'[u]] <= val[u]
    BY <2>7
  <2> QED BY <2>5, <2>6, <2>8, <2>9, <2>10, <2>11 DEF FreshInv
<1>5. ASSUME NEW t \in Thread, Load(t) PROVE FreshInv'
  <2>1. /\ pc[t] = "load" /\ UNCHANGED <<version, asked, cached, key, least>>
        /\ \A u \in Thread \ {t} : pc'[u] = pc[u] /\ val'[u] = val[u]
        /\ \/ pc'[t] = "insert" /\ val'[t] = version[key[t]]
           \/ pc'[t] = "fail"
    BY <1>5 DEF Load, Goto, TypeOK, cache
  <2>2. \A j \in Key : cached'[j] # None => j \in Retained
    BY <2>1 DEF FreshInv
  <2>3. least'[t] <= asked[key'[t]]
    BY <2>1 DEF FreshInv, Owning
  <2>4. pc'[t] = "insert" => asked[key'[t]] <= val'[t]
    <3>1. key[t] \in Key BY <2>1 DEF LoadInv, Owning
    <3> QED BY <2>1, <3>1 DEF FreshInv
  <2>5. pc'[t] \notin {"settle", "pop", "woken"}
    BY <2>1
  <2> QED BY <1>1, <2>1, <2>2, <2>3, <2>4, <2>5
<1>6. ASSUME NEW t \in Thread, Insert(t) PROVE FreshInv'
  <2>1. /\ pc[t] = "insert" /\ pc'[t] = "settle"
        /\ UNCHANGED <<version, asked, key, val, least>>
        /\ \A u \in Thread \ {t} : pc'[u] = pc[u]
    BY <1>6 DEF Insert, Goto, TypeOK
  <2>2. \A j \in Key : cached'[j] # None => j \in Retained
    <3>1. \A j \in Key : cached'[j] = None \/ cached'[j] = cached[j] \/ j \in Retained
      BY <1>6, InsertOrder
    <3> QED BY <3>1 DEF FreshInv
  <2>3. least'[t] <= asked[key'[t]] /\ asked[key'[t]] <= val'[t]
    BY <2>1 DEF FreshInv, Owning
  <2> QED BY <1>1, <2>1, <2>2, <2>3
<1>7. ASSUME NEW t \in Thread, NEW v, pc[t] \in {"settle", "fail"}, Wake(t, v),
             v = IF pc[t] = "settle" THEN val[t] ELSE None
      PROVE  FreshInv'
  <2>1. /\ UNCHANGED <<version, asked, cached, key, least>>
        /\ pc'[t] = "pop" /\ val'[t] = v
        /\ \A u \in Thread \ {t} :
             \/ pc[u] = "wait" /\ joined[u] = t /\ pc'[u] = "woken" /\ val'[u] = v
             \/ pc'[u] = pc[u] /\ val'[u] = val[u]
    BY <1>7 DEF Wake, Waiting, TypeOK, cache
  <2>2. v # None => v \in Value /\ asked[key[t]] <= v /\ key[t] \in Key
    BY <1>7 DEF LoadInv, FreshInv, Owning
  <2>3. ASSUME NEW u \in Thread, pc'[u] = "woken", val'[u] # None PROVE least[u] <= val'[u]
    <3>1. CASE u # t /\ pc[u] = "wait" /\ joined[u] = t /\ val'[u] = v
      <4>1. key[u] = key[t] /\ least[u] <= asked[key[u]]
        BY <3>1 DEF JoinInv, FreshInv
      <4>2. least[u] \in Value /\ asked[key[t]] \in Value
        BY <2>2, <2>3, <3>1 DEF TypeOK
      <4>3. v \in Value /\ asked[key[t]] <= v
        BY <2>2, <2>3, <3>1
      <4> QED BY <3>1, <4>1, <4>2, <4>3, Versions
    <3>2. CASE u # t /\ pc'[u] = pc[u] /\ val'[u] = val[u]
      BY <2>3, <3>2 DEF FreshInv
    <3> QED BY <2>1, <2>3, <3>1, <3>2
  <2>4. \A u \in Thread : pc'[u] \in Owning \cup {"wait"} => least[u] <= asked[key[u]]
    <3>1. \A u \in Thread : pc'[u] \in Owning \cup {"wait"} => pc[u] \in Owning \cup {"wait"}
      BY <1>7, <2>1 DEF Owning
    <3> QED BY <3>1 DEF FreshInv
  <2>5. \A u \in Thread : pc'[u] \in {"insert", "settle"} => asked[key[u]] <= val'[u]
    BY <2>1 DEF FreshInv
  <2>6. \A u \in Thread : pc'[u] = "pop" /\ val'[u] # None => asked[key[u]] <= val'[u]
    BY <2>1, <2>2 DEF FreshInv
  <2> QED BY <2>1, <2>3, <2>4, <2>5, <2>6 DEF FreshInv
<1>8. ASSUME NEW t \in Thread, Pop(t) \/ ReturnJoined(t) PROVE FreshInv'
  <2>1. /\ pc'[t] = "idle" /\ UNCHANGED <<version, asked, cached>>
        /\ \A u \in Thread \ {t} :
             pc'[u] = pc[u] /\ key'[u] = key[u] /\ least'[u] = least[u] /\ val'[u] = val[u]
    BY <1>8 DEF Pop, ReturnJoined, Leave, Goto, TypeOK, cache
  <2>2. \A j \in Key : cached'[j] # None => j \in Retained
    BY <2>1 DEF FreshInv
  <2> QED BY <1>1, <2>1, <2>2 DEF Owning
<1>9. ASSUME NEW k \in Key, SourceChanges(k) PROVE FreshInv'
  <2>1. /\ k \notin Retained /\ version'[k] = version[k] + 1
        /\ \A j \in Key \ {k} : version'[j] = version[j]
        /\ UNCHANGED <<asked, cached, pc, key, val, least>>
    BY <1>9 DEF SourceChanges, TypeOK, cache
  <2>2. asked[k] <= version[k] + 1
    <3>1. asked[k] \in Value /\ version[k] \in Value /\ asked[k] <= version[k]
      BY DEF TypeOK, FreshInv
    <3> QED BY <3>1, CacheAssumption DEF Value
  <2>3. \A j \in Key : asked'[j] <= version'[j]
    BY <2>1, <2>2 DEF FreshInv
  <2>4. \A j \in Retained : version'[j] = 0
    BY <2>1 DEF FreshInv
  <2> QED BY <2>1, <2>3, <2>4 DEF FreshInv
<1>10. CASE UNCHANGED vars
  <2>1. UNCHANGED <<version, asked, cached, pc, key, val, least>>
    BY <1>10 DEF vars, cache
  <2> QED BY <2>1 DEF FreshInv
<1> QED BY <1>2, <1>3, <1>4, <1>5, <1>6, <1>7, <1>8, <1>9, <1>10, CacheSteps

----------------------------------------------------------------------------
(* The theorems.                                                           *)

(* Entries, futures and threads keep their types, and the values that are  *)
(* retained are exactly those of the keys in the order.                    *)
THEOREM CacheTypeCorrect == Spec => []TypeOK
<1>1. CacheInv => TypeOK
  BY DEF CacheInv
<1> QED BY <1>1, InitCacheInv, NextCacheInv, PTL DEF Spec

(* The byte count that decides what leaves is the size of what is retained *)
(* and the limits hold, whatever threads insert and evict.                 *)
THEOREM CacheAccountsForBytes == Spec => []AccountsForBytes
<1>1. CacheInv => AccountsForBytes
  <2> SUFFICES ASSUME CacheInv PROVE AccountsForBytes
    OBVIOUS
  <2>1. order \in Seq(Key) /\ OrderInv
    BY DEF CacheInv, TypeOK
  <2>2. Cardinality(ToSet(order)) = Len(order)
    BY <2>1, KeysAreFinite DEF OrderInv
  <2> QED BY <2>1, <2>2 DEF AccountsForBytes, OrderInv
<1> QED BY <1>1, InitCacheInv, NextCacheInv, PTL DEF Spec

(* Concurrent reads of a key share one call of the loader.                 *)
THEOREM CacheLoadsOnce == Spec => []OneLoadPerKey
<1>1. CacheInv => OneLoadPerKey
  BY DEF CacheInv, LoadInv, OneLoadPerKey
<1> QED BY <1>1, InitCacheInv, NextCacheInv, PTL DEF Spec

(* A read answers with a version that was current when it began, or when   *)
(* the load it found in flight began, or with a later one.                 *)
THEOREM CacheAnswersFresh == Spec => []PointersAreFresh
<1> DEFINE Inv == CacheInv /\ JoinInv /\ FreshInv
<1>1. Init => Inv
  BY InitCacheInv
<1>2. Inv /\ [Next]_vars => Inv'
  BY NextCacheInv, NextJoinInv, NextFreshInv
<1>3. Inv => PointersAreFresh
  <2> SUFFICES ASSUME Inv, NEW t \in Thread, pc[t] \in {"pop", "woken"}, val[t] # None
               PROVE  least[t] <= val[t]
    BY DEF PointersAreFresh
  <2>1. CASE pc[t] = "woken" BY <2>1 DEF FreshInv
  <2>2. CASE pc[t] = "pop"
    <3>1. key[t] \in Key
      BY <2>2 DEF CacheInv, LoadInv, Owning
    <3>2. least[t] \in Value /\ asked[key[t]] \in Value /\ val[t] \in Value
      BY <3>1 DEF CacheInv, TypeOK
    <3>3. least[t] <= asked[key[t]] /\ asked[key[t]] <= val[t]
      BY <2>2 DEF FreshInv, Owning
    <3> QED BY <3>2, <3>3, Versions
  <2> QED BY <2>1, <2>2
<1> QED BY <1>1, <1>2, <1>3, PTL DEF Spec
=============================================================================
