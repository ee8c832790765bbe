----------------------------- MODULE ReadCache -----------------------------
(***************************************************************************)
(* PublishedReadCache of app/repositories/read_cache.py: request threads   *)
(* read keys through one cache.  Concurrent reads of a key share one call  *)
(* of the loader; results of version-bound keys are retained in least-     *)
(* recently-used order within two limits, mutable pointers are not.        *)
(* A step is what a thread does under the lock, or one call outside it.    *)
(* The source of a mutable key changes on its own; a value is the source   *)
(* version the loader saw, None the exception it raised.                   *)
(***************************************************************************)
EXTENDS Integers, Sequences, SequencesExt, FiniteSetsExt

CONSTANTS
  Thread, Key,
  Retained,     \* keys read with retain=True; their source never changes
  Size,         \* size of the encoded result of each key
  MaxEntries, MaxBytes,
  None,
  MaxVersion    \* bound: changes of the source of a mutable key

ASSUME CacheAssumption ==
  /\ Retained \subseteq Key /\ None \notin Thread /\ None \notin Int
  /\ Size \in [Key -> Nat] /\ MaxEntries \in Nat /\ MaxBytes \in Nat
  /\ MaxVersion \in Nat

VARIABLES
  version,                \* the source, per key
  order, cached, bytes,   \* _values in LRU order, their values, _bytes
  pending,                \* _pending: the thread that owns the future of a key
  pc, key, joined, val,   \* the reads in progress
  asked, least            \* version current when a load began; oldest version
                          \* a read in progress may answer with

cache == <<order, cached, bytes>>
vars  == <<version, cache, pending, pc, key, joined, val, asked, least>>

Owning == {"load", "insert", "settle", "fail", "pop"}
Value  == 0..MaxVersion

TypeOK ==
  /\ version \in [Key -> Value] /\ asked \in [Key -> Value]
  /\ order \in Seq(Key) /\ bytes \in Nat
  /\ cached \in [Key -> Value \cup {None}]
  /\ \A k \in Key : cached[k] # None <=> k \in ToSet(order)
  /\ pending \in [Key -> Thread \cup {None}]
  /\ pc \in [Thread -> Owning \cup {"idle", "wait", "woken"}]
  /\ key \in [Thread -> Key \cup {None}]
  /\ joined \in [Thread -> Thread \cup {None}]
  /\ val \in [Thread -> Value \cup {None}] /\ least \in [Thread -> Value]

Init ==
  /\ version = [k \in Key |-> 0] /\ asked = [k \in Key |-> 0]
  /\ order = << >> /\ cached = [k \in Key |-> None] /\ bytes = 0
  /\ pending = [k \in Key |-> None]
  /\ pc = [t \in Thread |-> "idle"] /\ key = [t \in Thread |-> None]
  /\ joined = [t \in Thread |-> None] /\ val = [t \in Thread |-> None]
  /\ least = [t \in Thread |-> 0]

Bytes(keys) == SumFunctionOnSet(Size, keys)
Goto(t, phase) == pc' = [pc EXCEPT ![t] = phase]

----------------------------------------------------------------------------
(* read, in the order of its critical sections.                            *)

Begin(t, k) ==
  /\ pc[t] = "idle"
  /\ key' = [key EXCEPT ![t] = k]
  /\ least' = [least EXCEPT ![t] = IF pending[k] # None THEN asked[k]
                                                        ELSE version[k]]

Hit(t, k) ==
  /\ Begin(t, k)
  /\ \E i \in DOMAIN order : order[i] = k /\ order' = Append(RemoveAt(order, i), k)
  /\ val' = [val EXCEPT ![t] = cached[k]]
  /\ Goto(t, "woken")
  /\ UNCHANGED <<version, cached, bytes, pending, joined, asked>>

(* A reader joins the future of a load in flight; one that is settled but  *)
(* not yet removed from _pending answers at once.                          *)
JoinableNever(k) == FALSE
Joinable(k) == pending[k] # None

Join(t, k) ==
  /\ Begin(t, k) /\ cached[k] = None /\ Joinable(k)
  /\ joined' = [joined EXCEPT ![t] = pending[k]]
  /\ IF pc[pending[k]] = "pop"
       THEN Goto(t, "woken") /\ val' = [val EXCEPT ![t] = val[pending[k]]]
       ELSE Goto(t, "wait") /\ UNCHANGED val
  /\ UNCHANGED <<version, cache, pending, asked>>

Own(t, k) ==
  /\ Begin(t, k) /\ cached[k] = None /\ ~Joinable(k)
  /\ pending' = [pending EXCEPT ![k] = t]
  /\ asked' = [asked EXCEPT ![k] = version[k]]
  /\ Goto(t, "load")
  /\ UNCHANGED <<version, cache, joined, val>>

Load(t) ==
  /\ pc[t] = "load"
  /\ \/ val' = [val EXCEPT ![t] = version[key[t]]] /\ Goto(t, "insert")
     \/ Goto(t, "fail") /\ UNCHANGED val
  /\ UNCHANGED <<version, cache, pending, key, joined, asked, least>>

(* The oldest entries leave until both limits hold.                        *)
OldestKeptValued(n, keys) == ToSet(SubSeq(keys, 2, n))
Oldest(n, keys) == ToSet(SubSeq(keys, 1, n))
Fits(n, keys, total) ==
  /\ Len(keys) - n <= MaxEntries
  /\ total - Bytes(Oldest(n, keys)) <= MaxBytes
EvictedByCountOnly(keys, total) == Max({0, Len(keys) - MaxEntries})
Evicted(keys, total) == Min({n \in 0..Len(keys) : Fits(n, keys, total)})

RetainableBySize(k) == Size[k] <= MaxBytes
Retainable(k) == k \in Retained /\ Size[k] <= MaxBytes

Retain(k, v) ==
  LET keys  == IF k \in ToSet(order) THEN order ELSE Append(order, k)
      total == bytes + Size[k]
      n     == Evicted(keys, total)
  IN /\ order' = SubSeq(keys, n + 1, Len(keys))
     /\ bytes' = total - Bytes(Oldest(n, keys))
     /\ cached' = [j \in Key |-> IF j \in Oldest(n, keys) THEN None
                                 ELSE IF j = k THEN v ELSE cached[j]]

Insert(t) ==
  /\ pc[t] = "insert"
  /\ IF Retainable(key[t]) THEN Retain(key[t], val[t]) ELSE UNCHANGED cache
  /\ Goto(t, "settle")
  /\ UNCHANGED <<version, pending, key, joined, val, asked, least>>

Waiting(t) == {w \in Thread : pc[w] = "wait" /\ joined[w] = t}

(* The future gets its result, or the exception, and wakes who joined it.  *)
Wake(t, v) ==
  /\ val' = [w \in Thread |-> IF w \in Waiting(t) \cup {t} THEN v ELSE val[w]]
  /\ pc' = [w \in Thread |-> IF w = t THEN "pop"
                             ELSE IF w \in Waiting(t) THEN "woken" ELSE pc[w]]
  /\ UNCHANGED <<version, cache, pending, key, joined, asked, least>>

SetResult(t)    == pc[t] = "settle" /\ Wake(t, val[t])
SwallowException(t) ==
  /\ pc[t] = "fail" /\ Goto(t, "pop")
  /\ UNCHANGED <<version, cache, pending, key, joined, val, asked, least>>
SetException(t) == pc[t] = "fail" /\ Wake(t, None)

Leave(t) ==
  /\ Goto(t, "idle")
  /\ key' = [key EXCEPT ![t] = None] /\ val' = [val EXCEPT ![t] = None]
  /\ joined' = [joined EXCEPT ![t] = None]
  /\ least' = [least EXCEPT ![t] = 0]
  /\ UNCHANGED <<version, cache, asked>>

Pop(t) == pc[t] = "pop" /\ Leave(t) /\ pending' = [pending EXCEPT ![key[t]] = None]

ReturnJoined(t) == pc[t] = "woken" /\ Leave(t) /\ UNCHANGED pending

(* A later publication moves a mutable pointer.                            *)
SourceChanges(k) ==
  /\ k \in Key \ Retained /\ version[k] < MaxVersion
  /\ version' = [version EXCEPT ![k] = @ + 1]
  /\ UNCHANGED <<cache, pending, pc, key, joined, val, asked, least>>

ThreadStep(t) ==
  Load(t) \/ Insert(t) \/ SetResult(t) \/ SetException(t) \/ Pop(t)
    \/ ReturnJoined(t)

Next ==
  \/ \E t \in Thread, k \in Key : Hit(t, k) \/ Join(t, k) \/ Own(t, k)
  \/ \E t \in Thread : ThreadStep(t)
  \/ \E k \in Key : SourceChanges(k)

Spec     == Init /\ [][Next]_vars
(* A thread that is inside read goes on.                                   *)
FairSpec == Spec /\ \A t \in Thread : WF_vars(ThreadStep(t))

----------------------------------------------------------------------------
(* Properties.                                                             *)

(* The byte count that drives eviction is the size of what is retained and *)
(* the limits hold, whatever threads insert and evict at the same time.    *)
AccountsForBytes ==
  /\ bytes = Bytes(ToSet(order))
  /\ Len(order) = Cardinality(ToSet(order))
  /\ bytes <= MaxBytes /\ Len(order) <= MaxEntries

(* One loader call per key at a time: a burst of requests costs one query. *)
OneLoadPerKey ==
  \A t, u \in Thread :
    pc[t] \in Owning /\ pc[u] \in Owning /\ key[t] = key[u] => t = u

(* Stale pointers are bounded by one load: a read answers with a version   *)
(* that was current when it began, or when the load it found in flight     *)
(* began, or later.  No retained value ever stands for a mutable pointer.  *)
PointersAreFresh ==
  \A t \in Thread : pc[t] \in {"pop", "woken"} /\ val[t] # None =>
                      least[t] <= val[t]

(* Every read ends, with a value or with the loader's exception: nobody    *)
(* waits for a future that no one settles.                                 *)
EveryReadEnds == \A t \in Thread : pc[t] # "idle" ~> pc[t] = "idle"
=============================================================================
