-------------------------- MODULE BlobCacheProofs ---------------------------
(***************************************************************************)
(* Proofs about BlobCache, for any keys, contents, sizes, limits and numbers *)
(* of puts, disk errors, crashes and restarts.                              *)
(***************************************************************************)
EXTENDS BlobCache, FiniteSetTheorems, WellFoundedInduction, TLAPS

-----------------------------------------------------------------------------
(* Sums over finite sets: MapThenSumSet of the community modules takes the   *)
(* elements in an order nobody knows, and adds up the same in any order.     *)
(* Induction is by way of the least element of a set of naturals.           *)

\* A set of naturals that is not empty has a least element.
LEMMA LeastNatural ==
  ASSUME NEW T, T \subseteq Nat, T # {}
  PROVE  \E n \in T : \A m \in T : n <= m
<1> DEFINE R == {ss \in Nat \X Nat : ss[1] < ss[2]}
<1>1. IsWellFoundedOn(R, Nat)
  BY NatLessThanWellFounded DEF OpToRel
<1>2. \E n \in T : \A m \in T : <<m, n>> \notin R
  <2> HIDE DEF R
  <2> QED
    BY <1>1, WFMin
<1>3. \A m, n \in Nat : <<m, n>> \notin R => n <= m
  OBVIOUS
<1> HIDE DEF R
<1>4. QED
  BY <1>2, <1>3

\* Induction over the naturals.
LEMMA EveryNatural ==
  ASSUME NEW T, 0 \in T, \A n \in Nat : n \in T => n + 1 \in T
  PROVE  \A n \in Nat : n \in T
<1> SUFFICES ASSUME Nat \ T # {}
             PROVE  FALSE
  OBVIOUS
<1>1. PICK n \in Nat \ T : \A m \in Nat \ T : n <= m
  BY LeastNatural
<1>2. n - 1 \in Nat /\ n - 1 \in T
  BY <1>1
<1>3. QED
  BY <1>1, <1>2

\* The subsets of a finite set, and one of them less an element.
LEMMA OneLess ==
  ASSUME NEW S, IsFiniteSet(S), NEW x \in S
  PROVE  /\ IsFiniteSet(S \ {x}) /\ Cardinality(S) \in Nat /\ Cardinality(S \ {x}) \in Nat
         /\ Cardinality(S) = Cardinality(S \ {x}) + 1
  BY FS_RemoveElement, FS_CardinalityType

-----------------------------------------------------------------------------
(* The recursion of MapThenSumSet.                                          *)

Pick(s) == CHOOSE x \in s : TRUE

LEMMA PickIn == \A s : s # {} => Pick(s) \in s
  BY DEF Pick

\* g adds up f over the subsets of S.
Adds(f, S, g) ==
    g = [s \in SUBSET S |-> IF s = {} THEN 0 ELSE f[Pick(s)] + g[s \ {Pick(s)}]]
SumOver(f, S) == (CHOOSE g : Adds(f, S, g))[S]

LEMMA AddsIs ==
  ASSUME NEW f, NEW S, NEW g, Adds(f, S, g), NEW s \in SUBSET S
  PROVE  g[s] = IF s = {} THEN 0 ELSE f[Pick(s)] + g[s \ {Pick(s)}]
<1>1. g = [t \in SUBSET S |-> IF t = {} THEN 0 ELSE f[Pick(t)] + g[t \ {Pick(t)}]]
  BY DEF Adds
<1>2. QED
  BY <1>1

LEMMA AddsRestricted ==
  ASSUME NEW f, NEW S, NEW g, Adds(f, S, g), NEW T \in SUBSET S
  PROVE  Adds(f, T, [s \in SUBSET T |-> g[s]])
<1> DEFINE h == [s \in SUBSET T |-> g[s]]
<1>1. \A s \in SUBSET T : h[s] = IF s = {} THEN 0 ELSE f[Pick(s)] + h[s \ {Pick(s)}]
  <2> SUFFICES ASSUME NEW s \in SUBSET T
               PROVE  h[s] = IF s = {} THEN 0 ELSE f[Pick(s)] + h[s \ {Pick(s)}]
    OBVIOUS
  <2>1. h[s] = g[s] /\ h[s \ {Pick(s)}] = g[s \ {Pick(s)}] /\ s \in SUBSET S
    OBVIOUS
  <2>2. QED
    BY <2>1, AddsIs
<1>2. h = [s \in SUBSET T |-> IF s = {} THEN 0 ELSE f[Pick(s)] + h[s \ {Pick(s)}]]
  BY <1>1
<1>3. QED
  BY <1>2 DEF Adds

LEMMA AddsUnique ==
  ASSUME NEW f, NEW S, IsFiniteSet(S), NEW g, Adds(f, S, g), NEW h, Adds(f, S, h)
  PROVE  g = h
<1> DEFINE Agree == {n \in Nat : \A s \in SUBSET S : Cardinality(s) = n => g[s] = h[s]}
<1>1. 0 \in Agree
  <2>1. \A s \in SUBSET S : Cardinality(s) = 0 => s = {}
    BY FS_Subset, FS_EmptySet
  <2>2. QED
    BY <2>1, AddsIs
<1>2. ASSUME NEW n \in Nat, n \in Agree
      PROVE  n + 1 \in Agree
  <2> SUFFICES ASSUME NEW s \in SUBSET S, Cardinality(s) = n + 1
               PROVE  g[s] = h[s]
    OBVIOUS
  <2>1. IsFiniteSet(s) /\ s # {}
    BY FS_Subset, FS_EmptySet
  <2>2. Pick(s) \in s
    BY <2>1, PickIn
  <2>3. Cardinality(s \ {Pick(s)}) = n
    BY <2>1, <2>2, OneLess
  <2>4. g[s \ {Pick(s)}] = h[s \ {Pick(s)}]
    BY <1>2, <2>3
  <2>5. QED
    BY <2>1, <2>4, AddsIs
<1> HIDE DEF Agree
<1>3. \A n \in Nat : n \in Agree
  BY <1>1, <1>2, EveryNatural
<1>4. \A s \in SUBSET S : g[s] = h[s]
  BY <1>3, FS_Subset, FS_CardinalityType DEF Agree
<1>5. g = [s \in SUBSET S |-> g[s]] /\ h = [s \in SUBSET S |-> h[s]]
  BY DEF Adds
<1>6. QED
  BY <1>4, <1>5

LEMMA SumIs ==
  ASSUME NEW f, NEW S, IsFiniteSet(S), NEW g, Adds(f, S, g), NEW T \in SUBSET S
  PROVE  SumOver(f, T) = g[T]
<1> DEFINE h == [s \in SUBSET T |-> g[s]]
           c == CHOOSE e : Adds(f, T, e)
<1>1. Adds(f, T, h)
  BY AddsRestricted
<1>2. Adds(f, T, c)
  <2> HIDE DEF h
  <2> QED
    BY <1>1
<1>3. IsFiniteSet(T)
  BY FS_Subset
<1>4. c = h
  <2> HIDE DEF c, h
  <2> QED
    BY <1>1, <1>2, <1>3, AddsUnique
<1>5. h[T] = g[T]
  OBVIOUS
<1>6. SumOver(f, T) = c[T]
  BY DEF SumOver
<1>7. QED
  BY <1>4, <1>5, <1>6

\* There is such a function, whatever f is.
LEMMA AddsExists ==
  ASSUME NEW f, NEW S, IsFiniteSet(S)
  PROVE  \E g : Adds(f, S, g)
<1> DEFINE Some == {n \in Nat : \A T \in SUBSET S : Cardinality(T) <= n => \E g : Adds(f, T, g)}
<1>1. 0 \in Some
  <2> SUFFICES ASSUME NEW T \in SUBSET S, Cardinality(T) <= 0
               PROVE  \E g : Adds(f, T, g)
    OBVIOUS
  <2>1. T = {}
    BY FS_Subset, FS_EmptySet, FS_CardinalityType
  <2> DEFINE z == [s \in SUBSET {} |-> 0]
  <2>2. z = [s \in SUBSET {} |-> IF s = {} THEN 0 ELSE f[Pick(s)] + z[s \ {Pick(s)}]]
    OBVIOUS
  <2>3. Adds(f, T, z)
    BY <2>1, <2>2 DEF Adds
  <2>4. QED
    BY <2>3
<1>2. ASSUME NEW n \in Nat, n \in Some
      PROVE  n + 1 \in Some
  <2> SUFFICES ASSUME NEW T \in SUBSET S, Cardinality(T) <= n + 1
               PROVE  \E g : Adds(f, T, g)
    OBVIOUS
  <2> DEFINE g == [s \in SUBSET T |-> IF s = {} THEN 0 ELSE f[Pick(s)] + SumOver(f, s \ {Pick(s)})]
  <2>1. ASSUME NEW t \in SUBSET T, Cardinality(t) <= n
        PROVE  g[t] = SumOver(f, t)
    <3>1. IsFiniteSet(t) /\ t \in SUBSET S
      BY FS_Subset
    <3>2. PICK h : Adds(f, t, h)
      BY <1>2, <2>1, <3>1
    <3>3. SumOver(f, t) = h[t] /\ SumOver(f, t \ {Pick(t)}) = h[t \ {Pick(t)}]
      BY <3>1, <3>2, SumIs
    <3>4. h[t] = IF t = {} THEN 0 ELSE f[Pick(t)] + h[t \ {Pick(t)}]
      BY <3>2, AddsIs
    <3>5. QED
      BY <3>3, <3>4
  <2>2. ASSUME NEW s \in SUBSET T, s # {}
        PROVE  g[s \ {Pick(s)}] = SumOver(f, s \ {Pick(s)})
    <3>1. IsFiniteSet(T) /\ IsFiniteSet(s) /\ Pick(s) \in s
      BY <2>2, FS_Subset, PickIn
    <3>2. Cardinality(s) <= Cardinality(T) /\ Cardinality(T) \in Nat
      BY <3>1, FS_Subset, FS_CardinalityType
    <3>3. Cardinality(s) = Cardinality(s \ {Pick(s)}) + 1 /\ Cardinality(s \ {Pick(s)}) \in Nat
      BY <3>1, OneLess
    <3>4. Cardinality(s \ {Pick(s)}) <= n
      BY <3>2, <3>3
    <3> HIDE DEF g
    <3>5. QED
      BY <2>1, <3>4
  <2>3. g = [s \in SUBSET T |-> IF s = {} THEN 0 ELSE f[Pick(s)] + g[s \ {Pick(s)}]]
    BY <2>2
  <2>4. Adds(f, T, g)
    BY <2>3 DEF Adds
  <2>5. QED
    BY <2>4
<1> HIDE DEF Some
<1>3. \A n \in Nat : n \in Some
  BY <1>1, <1>2, EveryNatural
<1>4. QED
  BY <1>3, FS_CardinalityType DEF Some

-----------------------------------------------------------------------------
(* Sums.                                                                    *)

LEMMA SumEmpty == \A f : SumOver(f, {}) = 0
<1> SUFFICES ASSUME NEW f PROVE SumOver(f, {}) = 0
  OBVIOUS
<1>1. IsFiniteSet({})
  BY FS_EmptySet
<1>2. PICK g : Adds(f, {}, g)
  BY <1>1, AddsExists
<1>3. SumOver(f, {}) = g[{}]
  BY <1>1, <1>2, SumIs
<1>4. QED
  BY <1>2, <1>3, AddsIs

LEMMA SumPick ==
  ASSUME NEW f, NEW S, IsFiniteSet(S), S # {}
  PROVE  SumOver(f, S) = f[Pick(S)] + SumOver(f, S \ {Pick(S)})
<1>1. PICK g : Adds(f, S, g)
  BY AddsExists
<1>2. SumOver(f, S) = g[S] /\ SumOver(f, S \ {Pick(S)}) = g[S \ {Pick(S)}]
  BY <1>1, SumIs
<1>3. QED
  BY <1>1, <1>2, AddsIs

\* A sum of naturals is a natural.
LEMMA SumNat ==
  ASSUME NEW f, NEW S, IsFiniteSet(S), \A x \in S : f[x] \in Nat
  PROVE  SumOver(f, S) \in Nat
<1> DEFINE Good == {n \in Nat : \A T \in SUBSET S : Cardinality(T) = n => SumOver(f, T) \in Nat}
<1>1. 0 \in Good
  <2>1. \A T \in SUBSET S : Cardinality(T) = 0 => T = {}
    BY FS_Subset, FS_EmptySet
  <2>2. QED
    BY <2>1, SumEmpty
<1>2. ASSUME NEW n \in Nat, n \in Good
      PROVE  n + 1 \in Good
  <2> SUFFICES ASSUME NEW T \in SUBSET S, Cardinality(T) = n + 1
               PROVE  SumOver(f, T) \in Nat
    OBVIOUS
  <2>1. IsFiniteSet(T) /\ T # {}
    BY FS_Subset, FS_EmptySet
  <2>2. Pick(T) \in T
    BY <2>1, PickIn
  <2> HIDE DEF Good
  <2>3. Cardinality(T) = Cardinality(T \ {Pick(T)}) + 1 /\ Cardinality(T \ {Pick(T)}) \in Nat
    BY <2>1, <2>2, OneLess
  <2>4. SumOver(f, T \ {Pick(T)}) \in Nat
    BY <1>2, <2>3 DEF Good
  <2>5. QED
    BY <2>1, <2>2, <2>4, SumPick
<1> HIDE DEF Good
<1>3. \A n \in Nat : n \in Good
  BY <1>1, <1>2, EveryNatural
<1>4. QED
  BY <1>3, FS_CardinalityType DEF Good

\* Any element can be taken off a sum.
LEMMA SumRemove ==
  ASSUME NEW f, NEW S, IsFiniteSet(S), \A x \in S : f[x] \in Nat, NEW y \in S
  PROVE  SumOver(f, S) = f[y] + SumOver(f, S \ {y})
<1> DEFINE Any == {n \in Nat : \A T \in SUBSET S : Cardinality(T) = n =>
                       \A x \in T : SumOver(f, T) = f[x] + SumOver(f, T \ {x})}
<1>1. 0 \in Any
  <2>1. \A T \in SUBSET S : Cardinality(T) = 0 => T = {}
    BY FS_Subset, FS_EmptySet
  <2>2. QED
    BY <2>1
<1> HIDE DEF Any
<1>2. ASSUME NEW n \in Nat, n \in Any
      PROVE  n + 1 \in Any
  <2> SUFFICES ASSUME NEW T \in SUBSET S, Cardinality(T) = n + 1, NEW x \in T
               PROVE  SumOver(f, T) = f[x] + SumOver(f, T \ {x})
    BY DEF Any
  <2> DEFINE p == Pick(T)
  <2>1. IsFiniteSet(T)
    BY FS_Subset
  <2>2. p \in T
    BY PickIn
  <2>3. SumOver(f, T) = f[p] + SumOver(f, T \ {p})
    BY <2>1, SumPick
  <2> HIDE DEF p
  <2>4. CASE x = p
    BY <2>3, <2>4
  <2>5. CASE x # p
    <3>0. /\ Cardinality(T) = Cardinality(T \ {p}) + 1 /\ Cardinality(T \ {p}) \in Nat
          /\ Cardinality(T) = Cardinality(T \ {x}) + 1 /\ Cardinality(T \ {x}) \in Nat
      BY <2>1, <2>2, OneLess
    <3>1. Cardinality(T \ {p}) = n /\ Cardinality(T \ {x}) = n
      BY <3>0
    <3>2. x \in T \ {p} /\ p \in T \ {x} /\ (T \ {p}) \ {x} = (T \ {x}) \ {p}
      BY <2>2, <2>5
    <3>3. SumOver(f, T \ {p}) = f[x] + SumOver(f, (T \ {p}) \ {x})
      BY <1>2, <3>1, <3>2 DEF Any
    <3>4. SumOver(f, T \ {x}) = f[p] + SumOver(f, (T \ {x}) \ {p})
      BY <1>2, <3>1, <3>2 DEF Any
    <3>5. f[x] \in Nat /\ f[p] \in Nat /\ SumOver(f, (T \ {p}) \ {x}) \in Nat
      <4>1. IsFiniteSet((T \ {p}) \ {x})
        BY <2>1, FS_Subset
      <4>2. QED
        BY <2>2, <4>1, SumNat
    <3>6. QED
      BY <2>3, <3>2, <3>3, <3>4, <3>5
  <2>6. QED
    BY <2>4, <2>5
<1>3. \A n \in Nat : n \in Any
  BY <1>1, <1>2, EveryNatural
<1>4. QED
  BY <1>3, FS_CardinalityType DEF Any

\* The sum of what is equal is equal.
LEMMA SumSame ==
  ASSUME NEW f, NEW h, NEW S, IsFiniteSet(S), \A x \in S : f[x] = h[x]
  PROVE  SumOver(f, S) = SumOver(h, S)
<1>1. PICK g : Adds(f, S, g)
  BY AddsExists
<1>2. \A s \in SUBSET S : g[s] = IF s = {} THEN 0 ELSE h[Pick(s)] + g[s \ {Pick(s)}]
  BY <1>1, AddsIs, PickIn
<1>3. g = [s \in SUBSET S |-> g[s]]
  BY <1>1 DEF Adds
<1>4. Adds(h, S, g)
  BY <1>2, <1>3 DEF Adds
<1>5. QED
  BY <1>1, <1>4, SumIs

-----------------------------------------------------------------------------
(* The invariant.                                                           *)

\* Where flushthread is, what is in the queue and what the limit was last held against.
Flow ==
    /\ fl \in {"sleep", "timed"} => queue = <<>>
    /\ fl \in {"open", "write", "done"} => queue # <<>>
    /\ queue = <<>> => total <= MaxSize
    /\ bcstate = "down" => /\ items = Nothing /\ queue = <<>> /\ latest = Nothing
                           /\ reader = Idle

\* What is in a file or in the queue was put under its key.
Provenance ==
    /\ \A k \in Keys : file[k] \in Values => file[k] \in past[k]
    /\ \A i \in 1 .. Len(queue) : queue[i].content \in past[queue[i].key]
    /\ reader # Idle /\ reader.fh \in Values => reader.fh \in past[reader.key]

PendingKeys == {queue[i].key : i \in 1 .. Len(queue)}

\* An item that nobody touched since the reader found it is still in its file.
ReaderUndisturbed ==
    reader # Idle /\ reader.p = "same" =>
        /\ reader.fh = "live" /\ reader.key \notin PendingKeys
        /\ items[reader.key] # None /\ file[reader.key] = reader.want
        /\ Size[reader.want] = Size[items[reader.key].content]
        /\ reader.sizes = {Size[reader.want]}

\* Where the value last put under a key is.
LatestKept ==
    /\ \A k \in Keys : latest[k] # None /\ items[k] # None => items[k].content = latest[k]
    /\ \A k \in Keys \ PendingKeys : latest[k] # None => file[k] \in {latest[k], None}
    /\ \A i \in 1 .. Len(queue) :
          (\A j \in 1 .. Len(queue) : j > i => queue[j].key # queue[i].key) =>
              latest[queue[i].key] \in {queue[i].content, None}
    /\ fl = "done" => \A k \in Keys :
          /\ latest[k] # None /\ k = queue[1].key
          /\ \A j \in 2 .. Len(queue) : queue[j].key # k
          => file[k] \in {latest[k], None}

\* An open file that is still the one of its name is there.
ReaderOpen == reader # Idle /\ reader.fh = "live" => file[reader.key] # None

IInv ==
    /\ TypeOK /\ Flow /\ SizeNotUnderestimated /\ CleanIndexIsSaved
    /\ Provenance /\ ReaderOpen /\ ReaderUndisturbed /\ LatestKept

Items == [Keys -> Item \cup {None}]

-----------------------------------------------------------------------------
(* The size of the cache.                                                   *)

LEMMA SizeOfIs ==
  ASSUME NEW it, NEW ks, IsFiniteSet(ks)
  PROVE  SizeOf(it, ks) = SumOver([k \in ks |-> Size[it[k].content]], ks)
<1> DEFINE f == [k \in ks |-> Size[it[k].content]]
           E(g) == g = [s \in SUBSET ks |-> IF s = {} THEN 0
                          ELSE Size[it[Pick(s)].content] + g[s \ {Pick(s)}]]
           c == CHOOSE g : E(g)
<1>1. SizeOf(it, ks) = c[ks]
  BY DEF SizeOf, MapThenSumSet, MapThenFoldSet, Pick
<1>2. ASSUME NEW g
      PROVE  E(g) <=> Adds(f, ks, g)
  <2>1. \A s \in SUBSET ks : s # {} => f[Pick(s)] = Size[it[Pick(s)].content]
    BY PickIn
  <2> HIDE DEF f
  <2>2. QED
    BY <2>1 DEF Adds
<1>3. PICK g : Adds(f, ks, g)
  BY AddsExists
<1>4. E(c)
  <2>1. E(g)
    BY <1>2, <1>3
  <2> HIDE DEF E
  <2>2. QED
    BY <2>1
<1>5. Adds(f, ks, c)
  BY <1>2, <1>4
<1>6. SumOver(f, ks) = c[ks]
  <2> HIDE DEF c, f
  <2> QED
    BY <1>5, SumIs
<1>7. QED
  BY <1>1, <1>6

LEMMA SizeFacts ==
  ASSUME NEW it \in Items, NEW ks \in SUBSET Present(it)
  PROVE  /\ IsFiniteSet(ks)
         /\ \A k \in ks : /\ k \in Keys /\ it[k] \in Item /\ it[k].content \in Values
                          /\ Size[it[k].content] \in Nat
<1>1. IsFiniteSet(ks)
  BY BlobConstants, FS_Subset DEF Present
<1>2. \A k \in ks : k \in Keys /\ it[k] \in Item /\ it[k].content \in Values
  BY DEF Present, Items, Item
<1>3. QED
  BY <1>1, <1>2, BlobConstants

LEMMA SizeEmpty == \A it : SizeOf(it, {}) = 0
<1>1. IsFiniteSet({})
  BY FS_EmptySet
<1>2. QED
  BY <1>1, SizeOfIs, SumEmpty

LEMMA SizeNat ==
  ASSUME NEW it \in Items, NEW ks \in SUBSET Present(it)
  PROVE  SizeOf(it, ks) \in Nat
<1> DEFINE f == [k \in ks |-> Size[it[k].content]]
<1>1. IsFiniteSet(ks) /\ \A k \in ks : f[k] \in Nat
  BY SizeFacts
<1>2. SizeOf(it, ks) = SumOver(f, ks)
  BY <1>1, SizeOfIs
<1> HIDE DEF f
<1>3. QED
  BY <1>1, <1>2, SumNat

\* Only the contents count.
LEMMA SizeSame ==
  ASSUME NEW it \in Items, NEW ks \in SUBSET Present(it), NEW jt,
         \A k \in ks : jt[k].content = it[k].content
  PROVE  SizeOf(jt, ks) = SizeOf(it, ks)
<1>1. IsFiniteSet(ks)
  BY SizeFacts
<1>2. [k \in ks |-> Size[it[k].content]] = [k \in ks |-> Size[jt[k].content]]
  OBVIOUS
<1>3. QED
  BY <1>1, <1>2, SizeOfIs

LEMMA SizeRemove ==
  ASSUME NEW it \in Items, NEW ks \in SUBSET Present(it), NEW k \in ks
  PROVE  SizeOf(it, ks) = Size[it[k].content] + SizeOf(it, ks \ {k})
<1> DEFINE f == [j \in ks |-> Size[it[j].content]]
           h == [j \in ks \ {k} |-> Size[it[j].content]]
<1>1. /\ IsFiniteSet(ks) /\ IsFiniteSet(ks \ {k})
      /\ \A j \in ks : f[j] \in Nat /\ f[k] = Size[it[k].content]
      /\ \A j \in ks \ {k} : h[j] = f[j]
  BY SizeFacts, FS_Subset
<1>2. SizeOf(it, ks) = SumOver(f, ks) /\ SizeOf(it, ks \ {k}) = SumOver(h, ks \ {k})
  BY <1>1, SizeOfIs
<1> HIDE DEF f, h
<1>3. SumOver(f, ks) = f[k] + SumOver(f, ks \ {k})
  BY <1>1, SumRemove
<1>4. SumOver(h, ks \ {k}) = SumOver(f, ks \ {k})
  BY <1>1, SumSame
<1>5. QED
  BY <1>1, <1>2, <1>3, <1>4

-----------------------------------------------------------------------------
(* What the actions are made of.                                            *)

LEMMA ElementOf == \A S : \A s \in Seq(S) : \A i \in 1 .. Len(s) : s[i] \in S
  OBVIOUS

LEMMA SaveIndexIs ==
  ASSUME TypeOK, NEW it \in Items, NEW d \in BOOLEAN, SaveIndex(it, d)
  PROVE  /\ dirty' \in BOOLEAN /\ faults' \in 0 .. MaxFaults
         /\ index' = Corrupt \/ index' \in Items
         /\ ~dirty' => index' = IF d THEN it ELSE index
<1>1. MaxFaults \in Nat /\ faults \in 0 .. MaxFaults /\ (index = Corrupt \/ index \in Items)
  BY BlobConstants DEF TypeOK, Items
<1>2. CASE ~d
  BY <1>1, <1>2 DEF SaveIndex
<1>3. CASE d /\ index' = it /\ dirty' = FALSE /\ UNCHANGED faults
  BY <1>1, <1>3
<1>4. CASE d /\ Fault /\ index' \in {index, Corrupt} /\ dirty' = TRUE
  BY <1>1, <1>4 DEF Fault
<1>5. QED
  BY <1>2, <1>3, <1>4 DEF SaveIndex

\* prune_to_size leaves a part of the items, which is within the limit.
LEMMA KeptIs ==
  ASSUME NEW it \in Items, NEW ks \in Kept(it)
  PROVE  /\ ks \in SUBSET Present(it) /\ SizeOf(it, ks) \in Nat /\ SizeOf(it, ks) <= MaxSize
<1>1. ks \in SUBSET Present(it) /\ (ks = {} \/ SizeOf(it, ks) < MaxSize)
  BY DEF Kept
<1>2. SizeOf(it, ks) \in Nat /\ MaxSize \in Nat
  BY <1>1, SizeNat, BlobConstants
<1>3. QED
  BY <1>1, <1>2, SizeEmpty

LEMMA ReaderAfterIs ==
  ASSUME TypeOK, ReaderOpen, NEW us, NEW fs
  PROVE  LET r == ReaderAfter(us, fs) IN
         /\ r \in Reader \cup {Idle} /\ (reader = Idle => r = Idle)
         /\ reader # Idle =>
               /\ r # Idle /\ r.key = reader.key /\ r.want = reader.want /\ reader.key \in Keys
               /\ r.fh = IF reader.fh = "live" /\ reader.key \in us
                         THEN file[reader.key] ELSE reader.fh
               /\ r.p = (IF reader.key \in fs THEN "freed" ELSE reader.p)
               /\ r.sizes = reader.sizes
<1>1. CASE reader = Idle
  BY <1>1 DEF ReaderAfter
<1>2. CASE reader # Idle
  <2>1. reader \in Reader
    BY <1>2 DEF TypeOK
  <2>2. reader.fh = "live" => file[reader.key] \in Values \cup {Partial}
    BY <1>2, <2>1 DEF TypeOK, ReaderOpen, Reader
  <2>3. ReaderAfter(us, fs) =
          [reader EXCEPT !.fh = IF reader.fh = "live" /\ reader.key \in us
                                THEN file[reader.key] ELSE reader.fh,
                         !.p = IF reader.key \in fs THEN "freed" ELSE reader.p]
    BY <1>2, <2>1 DEF ReaderAfter, Reader
  <2>4. QED
    BY <1>2, <2>1, <2>2, <2>3 DEF Reader, Idle
<1>3. QED
  BY <1>1, <1>2

-----------------------------------------------------------------------------
(* The invariant is inductive.                                              *)

LEMMA InvParts ==
  ASSUME IInv
  PROVE  /\ TypeOK /\ Flow /\ SizeNotUnderestimated /\ CleanIndexIsSaved
         /\ Provenance /\ ReaderOpen /\ ReaderUndisturbed /\ LatestKept
         /\ items \in Items /\ (index = Corrupt \/ index \in Items)
         /\ MaxTime \in Nat /\ MaxPuts \in Nat /\ MaxFaults \in Nat /\ MaxBoots \in Nat
         /\ MaxSize \in Nat
  BY BlobConstants DEF IInv, TypeOK, Items

LEMMA NothingIs ==
  /\ Nothing \in Items /\ Nothing \in [Keys -> Values \cup {None}]
  /\ Nothing \in [Keys -> Values \cup {Partial, None}]
  /\ Present(Nothing) = {} /\ \A k \in Keys : Nothing[k] = None
  BY DEF Nothing, Items, Present

LEMMA InitInv == Init => IInv
<1> SUFFICES ASSUME Init PROVE IInv
  OBVIOUS
<1>1. TypeOK
  <2>1. /\ 0 \in 0 .. MaxTime /\ 0 \in 0 .. MaxPuts /\ 0 \in 0 .. MaxFaults /\ 0 \in 0 .. MaxBoots
        /\ [k \in Keys |-> {}] \in [Keys -> SUBSET Values]
    BY BlobConstants
  <2>2. <<>> \in Seq([key : Keys, content : Values])
    OBVIOUS
  <2>3. QED
    BY <2>1, <2>2, NothingIs DEF Init, TypeOK, Items
<1>2. Flow /\ CleanIndexIsSaved
  BY BlobConstants DEF Init, Flow, CleanIndexIsSaved, Up
<1>3. SizeNotUnderestimated
  BY NothingIs, SizeEmpty DEF Init, SizeNotUnderestimated
<1>4. Provenance /\ ReaderOpen /\ ReaderUndisturbed /\ LatestKept
  BY BlobConstants DEF Init, Provenance, ReaderOpen, ReaderUndisturbed, LatestKept, PendingKeys,
     Nothing
<1>5. QED
  BY <1>1, <1>2, <1>3, <1>4 DEF IInv

\* Steps that touch neither items nor files nor the queue.
LEMMA QuietSteps ==
  ASSUME IInv, Tick \/ GetRead \/ Fini \/ FlushClock \/ FlushLoop \/ FlushTimeout
  PROVE  IInv'
<1>0. UNCHANGED <<items, queue, file, total, latest, past, puts, boots>> /\ reader' \in {reader, Idle}
  BY DEF Tick, GetRead, Fini, FlushClock, FlushLoop, FlushTimeout, cache, hist, bounds
<1>1. /\ dirty' \in BOOLEAN /\ faults' \in 0 .. MaxFaults
      /\ index' = Corrupt \/ index' \in Items
      /\ ~dirty' => index' = IF dirty THEN items ELSE index
  <2>1. CASE FlushTimeout
    <3>1. SaveIndex(items, dirty) /\ dirty \in BOOLEAN
      BY <2>1, InvParts DEF FlushTimeout, TypeOK
    <3>2. QED
      BY <3>1, InvParts, SaveIndexIs
  <2>2. CASE ~FlushTimeout
    <3>1. UNCHANGED <<dirty, faults, index>>
      BY <2>2 DEF Tick, GetRead, Fini, FlushClock, FlushLoop, cache, bounds
    <3>2. QED
      BY <3>1, InvParts DEF TypeOK, Items
  <2>3. QED
    BY <2>1, <2>2
<1>2. /\ now' \in 0 .. MaxTime /\ bcstate' \in {"clock", "run", "stopping", "down"}
      /\ bcstate' = "down" <=> bcstate = "down"
      /\ fl' \in {"loop", "sleep", "timed", "open", "write", "done", "none"}
      /\ fl' \in {"sleep", "timed"} => queue = <<>>
      /\ fl' \in {"open", "write", "done"} => queue # <<>>
      /\ fl' = "done" => fl = "done"
  BY InvParts DEF Tick, GetRead, Fini, FlushClock, FlushLoop, FlushTimeout, Signal, TypeOK, Flow
<1>3. TypeOK'
  BY <1>0, <1>1, <1>2, InvParts DEF TypeOK, Items
<1>4. Flow'
  BY <1>0, <1>2, InvParts DEF Flow
<1>5. SizeNotUnderestimated'
  BY <1>0, InvParts DEF SizeNotUnderestimated
<1>6. CleanIndexIsSaved'
  <2>1. CASE dirty
    <3>1. \A k \in Present(items) : items # Corrupt
      BY InvParts, BlobMarkers DEF Items
    <3>2. QED
      BY <1>0, <1>1, <2>1, <3>1 DEF CleanIndexIsSaved, Present
  <2>2. CASE ~dirty
    BY <1>0, <1>1, <1>2, <2>2, InvParts DEF CleanIndexIsSaved, Present, Up
  <2>3. QED
    BY <2>1, <2>2
<1>7. Provenance' /\ ReaderOpen' /\ ReaderUndisturbed' /\ LatestKept'
  BY <1>0, <1>2, InvParts DEF Provenance, ReaderOpen, ReaderUndisturbed, LatestKept, PendingKeys
<1>8. QED
  BY <1>3, <1>4, <1>5, <1>6, <1>7 DEF IInv

\* The process ends.
LEMMA GoneSteps ==
  ASSUME IInv, Crash \/ FlushExit
  PROVE  IInv'
<1>0. Gone /\ UNCHANGED <<file, now, past, puts, boots>>
  BY DEF Crash, FlushExit, bounds
<1>1. faults' \in 0 .. MaxFaults /\ (index' = Corrupt \/ index' \in Items)
  <2>1. CASE Crash
    BY <2>1, InvParts DEF Crash, bounds, TypeOK, Items
  <2>2. CASE FlushExit
    BY <2>2, InvParts DEF FlushExit, Fault, TypeOK, Items
  <2>3. QED
    BY <2>1, <2>2
<1>2. /\ items' = Nothing /\ queue' = <<>> /\ dirty' = FALSE /\ total' = 0
      /\ bcstate' = "down" /\ fl' = "none" /\ reader' = Idle /\ latest' = Nothing
  BY <1>0 DEF Gone
<1>3. TypeOK'
  <2>1. <<>> \in Seq([key : Keys, content : Values])
    OBVIOUS
  <2>2. QED
    BY <1>0, <1>1, <1>2, <2>1, InvParts, NothingIs DEF TypeOK, Items
<1>4. Flow' /\ CleanIndexIsSaved'
  BY <1>2, InvParts DEF Flow, CleanIndexIsSaved, Up, Nothing
<1>5. SizeNotUnderestimated'
  BY <1>2, NothingIs, SizeEmpty DEF SizeNotUnderestimated
<1>6. Provenance' /\ ReaderOpen' /\ ReaderUndisturbed' /\ LatestKept'
  BY <1>0, <1>2, InvParts, NothingIs
     DEF Provenance, ReaderOpen, ReaderUndisturbed, LatestKept, PendingKeys
<1>7. QED
  BY <1>3, <1>4, <1>5, <1>6 DEF IInv

\* blobcache_init
LEMMA BootStep ==
  ASSUME IInv, Boot
  PROVE  IInv'
<1>1. Loaded \in Items
  BY InvParts, NothingIs DEF Loaded
<1>2. PICK ks \in Kept(Loaded) :
          /\ items' = Without(Loaded, Keys \ ks)
          /\ file' = Without(Unstale(Loaded), Present(Loaded) \ ks)
          /\ total' = SizeOf(Loaded, ks)
          /\ SaveIndex(items', ks # Present(Loaded))
  BY DEF Boot
<1>3. /\ bcstate = "down" /\ bcstate' = "clock" /\ fl' = "loop" /\ boots < MaxBoots
      /\ boots' = boots + 1
      /\ UNCHANGED <<queue, reader, now, latest, past, puts>>
  BY DEF Boot, hist
<1>4. /\ ks \in SUBSET Present(Loaded) /\ ks \in SUBSET Keys
      /\ total' \in Nat /\ total' <= MaxSize
  BY <1>1, <1>2, KeptIs DEF Present
<1>5. /\ items' \in Items
      /\ \A k \in Keys : items'[k] = IF k \in ks THEN Loaded[k] ELSE None
  BY <1>1, <1>2, <1>4 DEF Without, Items
<1>6. /\ file' \in [Keys -> Values \cup {Partial, None}]
      /\ \A k \in Keys : file'[k] \in {file[k], None}
  BY <1>2, InvParts DEF TypeOK, Without, Unstale
<1>7. /\ dirty' \in BOOLEAN /\ faults' \in 0 .. MaxFaults
      /\ index' = Corrupt \/ index' \in Items
      /\ ~dirty' => index' = IF ks # Present(Loaded) THEN items' ELSE index
  BY <1>2, <1>5, InvParts, SaveIndexIs
<1>8. /\ queue = <<>> /\ latest = Nothing /\ reader = Idle
  BY <1>3, InvParts DEF Flow
<1>9. TypeOK'
  BY <1>3, <1>4, <1>5, <1>6, <1>7, InvParts DEF TypeOK, Items
<1>10. Flow'
  BY <1>3, <1>4, <1>8 DEF Flow
<1>11. SizeNotUnderestimated'
  <2>1. Present(items') = ks /\ \A k \in ks : items'[k] = Loaded[k]
    BY <1>4, <1>5 DEF Present
  <2>2. SizeOf(items', ks) = SizeOf(Loaded, ks)
    BY <1>1, <1>4, <2>1, SizeSame
  <2>3. total' >= SizeOf(items', Present(items'))
    BY <1>2, <1>4, <2>1, <2>2
  <2>4. QED
    BY <2>3 DEF SizeNotUnderestimated
<1>12. CleanIndexIsSaved'
  <2>1. items' # Corrupt
    BY <1>5, BlobMarkers DEF Items
  <2>2. \A k \in Keys : items'[k] # None => index # Corrupt /\ index[k] = items'[k]
    BY <1>5, NothingIs DEF Loaded
  <2>3. QED
    BY <1>7, <2>1, <2>2 DEF CleanIndexIsSaved, Present
<1>13. Provenance' /\ ReaderOpen' /\ ReaderUndisturbed' /\ LatestKept'
  BY <1>3, <1>6, <1>8, InvParts, NothingIs, BlobConstants
     DEF Provenance, ReaderOpen, ReaderUndisturbed, LatestKept, PendingKeys
<1>14. QED
  BY <1>9, <1>10, <1>11, <1>12, <1>13 DEF IInv

\* Where blobcache_put puts an item.
LEMMA NewItem ==
  ASSUME IInv, NEW k \in Keys, NEW v \in Values, NEW age \in Ages,
         items' = [items EXCEPT ![k] = [content |-> v, expiry |-> now + age, last |-> now]]
  PROVE  /\ items' \in Items /\ items'[k] # None /\ items'[k].content = v
         /\ \A j \in Keys \ {k} : items'[j] = items[j]
<1>1. age \in Nat /\ now \in 0 .. MaxTime
  BY InvParts, BlobConstants DEF TypeOK
<1> DEFINE e == [content |-> v, expiry |-> now + age, last |-> now]
<1>2. e \in Item /\ e.content = v
  BY <1>1, InvParts DEF Item
<1>3. e # None
  BY <1>2, BlobMarkers
<1> HIDE DEF e
<1>4. items' = [items EXCEPT ![k] = e] /\ items \in [Keys -> Item \cup {None}]
  BY InvParts DEF e, Items
<1>5. QED
  BY <1>2, <1>3, <1>4 DEF Items

\* blobcache_put of what is there already
LEMMA PutAgainStep ==
  ASSUME IInv, NEW k \in Keys, NEW v \in Values, NEW age \in Ages, PutAgain(k, v, age)
  PROVE  IInv'
<1>1. /\ items[k] # None /\ items[k].content = v
      /\ items' = [items EXCEPT ![k] = [content |-> v, expiry |-> now + age, last |-> now]]
      /\ dirty' = TRUE /\ past' = [past EXCEPT ![k] = @ \cup {v}]
      /\ bcstate = "run" /\ Signal
      /\ UNCHANGED <<queue, file, index, total, bcstate, reader, now, latest, puts, faults, boots>>
  BY DEF PutAgain, CanPut, AlreadyIn, bounds
<1>2. /\ items' \in Items /\ items'[k] # None /\ items'[k].content = v
      /\ \A j \in Keys \ {k} : items'[j] = items[j]
  BY <1>1, NewItem
<1>3. /\ \A j \in Keys : items'[j] # None <=> items[j] # None
      /\ \A j \in Keys : items[j] # None => items'[j].content = items[j].content
  BY <1>1, <1>2
<1>4. /\ past' \in [Keys -> SUBSET Values] /\ \A j \in Keys : past[j] \subseteq past'[j]
  BY <1>1, InvParts DEF TypeOK
<1>5. /\ fl' \in {"loop", "sleep", "timed", "open", "write", "done", "none"}
      /\ fl' \notin {"sleep", "timed"} /\ (fl' = "loop" \/ fl' = fl)
  BY <1>1, InvParts DEF Signal, TypeOK
<1>6. TypeOK'
  BY <1>1, <1>2, <1>4, <1>5, InvParts DEF TypeOK, Items
<1>7. Flow' /\ CleanIndexIsSaved'
  BY <1>1, <1>5, InvParts DEF Flow, CleanIndexIsSaved
<1>8. SizeNotUnderestimated'
  <2>1. Present(items') = Present(items)
    BY <1>3 DEF Present
  <2>2. SizeOf(items', Present(items)) = SizeOf(items, Present(items))
    BY <1>3, InvParts, SizeSame DEF Present
  <2>3. total' >= SizeOf(items', Present(items'))
    BY <1>1, <2>1, <2>2, InvParts DEF SizeNotUnderestimated
  <2>4. QED
    BY <2>3 DEF SizeNotUnderestimated
<1>9. Provenance' /\ ReaderOpen'
  BY <1>1, <1>4, InvParts DEF Provenance, ReaderOpen, TypeOK, Reader
<1>10. ReaderUndisturbed' /\ LatestKept'
  BY <1>1, <1>3, <1>5, InvParts DEF ReaderUndisturbed, LatestKept, PendingKeys, TypeOK, Reader
<1>11. QED
  BY <1>6, <1>7, <1>8, <1>9, <1>10 DEF IInv

\* blobcache_put
LEMMA PutStep ==
  ASSUME IInv, NEW k \in Keys, NEW v \in Values, NEW age \in Ages, Put(k, v, age)
  PROVE  IInv'
<1> DEFINE e == [key |-> k, content |-> v]
<1>1. /\ queue' = Append(queue, e) /\ total' = Resized(k, v) /\ dirty' = TRUE
      /\ items' = [items EXCEPT ![k] = [content |-> v, expiry |-> now + age, last |-> now]]
      /\ reader' = IF reader # Idle /\ reader.key = k /\ reader.p # "freed"
                   THEN [reader EXCEPT !.p = "changed", !.sizes = @ \cup {Size[v]}]
                   ELSE reader
      /\ latest' = [latest EXCEPT ![k] = v] /\ past' = [past EXCEPT ![k] = @ \cup {v}]
      /\ puts < MaxPuts /\ puts' = puts + 1 /\ bcstate = "run" /\ Signal
      /\ UNCHANGED <<file, index, bcstate, now, faults, boots>>
  BY DEF Put, CanPut, Queued
<1>2. /\ items' \in Items /\ items'[k] # None /\ items'[k].content = v
      /\ \A j \in Keys \ {k} : items'[j] = items[j]
  BY <1>1, NewItem
<1>3. /\ past' \in [Keys -> SUBSET Values] /\ \A j \in Keys : past[j] \subseteq past'[j]
      /\ v \in past'[k]
      /\ latest' \in [Keys -> Values \cup {None}] /\ latest'[k] = v
      /\ \A j \in Keys \ {k} : latest'[j] = latest[j]
  BY <1>1, InvParts DEF TypeOK
<1>4. /\ fl' \in {"loop", "sleep", "timed", "open", "write", "done", "none"}
      /\ fl' \notin {"sleep", "timed"} /\ (fl' = "loop" \/ fl' = fl)
  BY <1>1, InvParts DEF Signal, TypeOK
<1>5. /\ reader' \in Reader \cup {Idle} /\ (reader' # Idle <=> reader # Idle)
      /\ reader # Idle => /\ reader'.key = reader.key /\ reader'.fh = reader.fh
                          /\ reader'.want = reader.want /\ reader.key \in Keys
                          /\ reader'.p = "same" => /\ reader.p = "same" /\ reader.key # k
                                                   /\ reader'.sizes = reader.sizes
  BY <1>1, InvParts, BlobConstants DEF TypeOK, Reader, Idle
<1>6. /\ queue' \in Seq([key : Keys, content : Values]) /\ queue' # <<>>
      /\ Len(queue) \in Nat /\ Len(queue') = Len(queue) + 1
      /\ \A i \in 1 .. Len(queue) : queue'[i] = queue[i]
      /\ queue'[Len(queue) + 1].key = k /\ queue'[Len(queue) + 1].content = v
      /\ \A i \in 1 .. Len(queue) : queue[i].key \in Keys /\ queue[i].content \in Values
  <2>1. e \in [key : Keys, content : Values] /\ e.key = k /\ e.content = v
    OBVIOUS
  <2>2. queue \in Seq([key : Keys, content : Values])
    BY InvParts DEF TypeOK
  <2> HIDE DEF e
  <2>3. /\ queue' \in Seq([key : Keys, content : Values]) /\ queue' # <<>>
        /\ Len(queue) \in Nat /\ Len(queue') = Len(queue) + 1
        /\ \A i \in 1 .. Len(queue) : queue'[i] = queue[i]
        /\ queue'[Len(queue) + 1] = e
    BY <1>1, <2>1, <2>2
  <2>4. \A i \in 1 .. Len(queue) : queue[i] \in [key : Keys, content : Values]
    BY <2>2, ElementOf
  <2>5. \A i \in 1 .. Len(queue) : queue[i].key \in Keys /\ queue[i].content \in Values
    BY <2>4
  <2>6. QED
    BY <2>1, <2>3, <2>5
<1>7. PendingKeys' = PendingKeys \cup {k}
  BY <1>6 DEF PendingKeys
<1>8. /\ SizeOf(items, Present(items)) \in Nat /\ Size[v] \in Nat /\ total \in Nat
      /\ total >= SizeOf(items, Present(items))
  BY InvParts, SizeNat, BlobConstants DEF TypeOK, SizeNotUnderestimated
<1>9. total' \in Nat /\ total' >= SizeOf(items', Present(items'))
  <2> DEFINE P == Present(items) \ {k}
  <2>1. P \in SUBSET Present(items) /\ SizeOf(items, P) \in Nat
    BY InvParts, SizeNat
  <2>2. Present(items') = P \cup {k} /\ P = (P \cup {k}) \ {k}
    BY <1>2 DEF Present
  <2>3. SizeOf(items', P) = SizeOf(items, P)
    <3>1. \A j \in P : items'[j].content = items[j].content
      BY <1>2 DEF Present
    <3>2. QED
      BY <2>1, <3>1, InvParts, SizeSame
  <2>4. SizeOf(items', P \cup {k}) = Size[v] + SizeOf(items', P)
    <3> HIDE DEF P
    <3> QED
      BY <1>2, <2>2, SizeRemove
  <2>5. CASE items[k] = None
    <3>1. P = Present(items)
      BY <2>5 DEF Present
    <3>2. total' = total + Size[v]
      BY <1>1, <1>8, <2>5 DEF Resized
    <3> HIDE DEF P
    <3>3. QED
      BY <1>8, <2>1, <2>2, <2>3, <2>4, <3>1, <3>2
  <2>6. CASE items[k] # None
    <3>1. k \in Present(items)
      BY <2>6 DEF Present
    <3>2. SizeOf(items, Present(items)) = Size[items[k].content] + SizeOf(items, P)
      BY <3>1, InvParts, SizeRemove
    <3>3. total' = total - Size[items[k].content] + Size[v] /\ Size[items[k].content] \in Nat
      BY <1>1, <2>6, <3>1, InvParts, SizeFacts DEF Resized
    <3> HIDE DEF P
    <3>4. QED
      BY <1>8, <2>1, <2>2, <2>3, <2>4, <3>2, <3>3
  <2>7. QED
    BY <2>5, <2>6
<1>10. TypeOK'
  BY <1>1, <1>2, <1>3, <1>4, <1>5, <1>6, <1>9, InvParts DEF TypeOK, Items
<1>11. Flow' /\ CleanIndexIsSaved' /\ SizeNotUnderestimated'
  BY <1>1, <1>4, <1>6, <1>9 DEF Flow, CleanIndexIsSaved, SizeNotUnderestimated
<1>12. Provenance' /\ ReaderOpen'
  BY <1>1, <1>3, <1>5, <1>6, InvParts DEF Provenance, ReaderOpen
<1>13. ReaderUndisturbed'
  BY <1>1, <1>2, <1>5, <1>7, InvParts DEF ReaderUndisturbed
<1>14. LatestKept'
  <2>1. /\ \A j \in Keys : latest'[j] # None /\ items'[j] # None => items'[j].content = latest'[j]
        /\ \A j \in Keys \ PendingKeys' : latest'[j] # None => file'[j] \in {latest'[j], None}
    BY <1>1, <1>2, <1>3, <1>7, InvParts DEF LatestKept
  <2>2. ASSUME NEW i \in 1 .. Len(queue'),
               \A j \in 1 .. Len(queue') : j > i => queue'[j].key # queue'[i].key
        PROVE  latest'[queue'[i].key] \in {queue'[i].content, None}
    <3>1. CASE i = Len(queue) + 1
      BY <1>3, <1>6, <3>1
    <3>2. CASE i # Len(queue) + 1
      <4>1. i \in 1 .. Len(queue) /\ Len(queue) + 1 \in 1 .. Len(queue') /\ Len(queue) + 1 > i
        BY <1>6, <3>2
      <4>2. queue[i].key # k /\ \A j \in 1 .. Len(queue) : j > i => queue[j].key # queue[i].key
        BY <1>6, <2>2, <4>1
      <4>3. QED
        BY <1>3, <1>6, <4>1, <4>2, InvParts DEF LatestKept
    <3>3. QED
      BY <3>1, <3>2
  <2>3. ASSUME fl' = "done", NEW j \in Keys, latest'[j] # None, j = queue'[1].key,
               \A i \in 2 .. Len(queue') : queue'[i].key # j
        PROVE  file'[j] \in {latest'[j], None}
    <3>1. fl = "done" /\ queue # <<>> /\ Len(queue) >= 1
      BY <1>4, <2>3, InvParts DEF Flow, TypeOK
    <3>2. Len(queue) + 1 \in 2 .. Len(queue') /\ 1 \in 1 .. Len(queue)
      BY <1>6, <3>1
    <3>3. j # k /\ j = queue[1].key /\ \A i \in 2 .. Len(queue) : queue[i].key # j
      BY <1>6, <2>3, <3>2
    <3>4. QED
      BY <1>1, <1>3, <2>3, <3>1, <3>3, InvParts DEF LatestKept
  <2>4. QED
    BY <2>1, <2>2, <2>3 DEF LatestKept
<1>15. QED
  BY <1>10, <1>11, <1>12, <1>13, <1>14 DEF IInv

\* A lookup that succeeds
LEMMA GetHitStep ==
  ASSUME IInv, NEW k \in Keys, NEW ignore \in BOOLEAN, GetHit(k, ignore)
  PROVE  IInv'
<1>1. /\ items[k] # None /\ dirty' = TRUE
      /\ items' = [items EXCEPT ![k].last = IF bcstate = "run" THEN now ELSE @]
      /\ UNCHANGED <<queue, file, index, total, bcstate, fl, now, latest, past, puts, faults, boots>>
  BY DEF GetHit, CanGet, hist, bounds
<1>2. /\ items' \in Items
      /\ \A j \in Keys : /\ items'[j] # None <=> items[j] # None
                         /\ items[j] # None => items'[j].content = items[j].content
  <2>1. items[k] \in Item /\ now \in 0 .. MaxTime /\ items \in [Keys -> Item \cup {None}]
    BY <1>1, InvParts DEF Items, TypeOK
  <2> DEFINE e == [items[k] EXCEPT !.last = IF bcstate = "run" THEN now ELSE @]
  <2>2. e \in Item /\ e.content = items[k].content
    BY <2>1 DEF Item
  <2>3. items' = [items EXCEPT ![k] = e]
    BY <1>1, <2>1
  <2>4. e # None
    BY <2>2, BlobMarkers
  <2> HIDE DEF e
  <2>5. QED
    BY <1>1, <2>1, <2>2, <2>3, <2>4 DEF Items
<1>3. \/ reader' = reader
      \/ /\ k \notin PendingKeys /\ Complete(k)
         /\ reader' = [st |-> "reading", key |-> k, want |-> file[k], fh |-> "live", p |-> "same",
                       sizes |-> {Size[items[k].content]}]
  <2>1. Pending(k) = {} => k \notin PendingKeys
    BY InvParts DEF Pending, PendingKeys, TypeOK
  <2>2. QED
    BY <2>1 DEF GetHit
<1>4. /\ reader' \in Reader \cup {Idle}
      /\ \/ reader' = reader
         \/ /\ reader'.key = k /\ reader'.fh = "live" /\ reader'.want = file[k]
            /\ k \notin PendingKeys /\ file[k] \in Values
            /\ Size[file[k]] = Size[items[k].content]
            /\ reader'.sizes = {Size[file[k]]}
  BY <1>3, InvParts, BlobConstants DEF TypeOK, Reader, Complete
<1>5. TypeOK'
  BY <1>1, <1>2, <1>4, InvParts DEF TypeOK, Items
<1>6. Flow' /\ CleanIndexIsSaved'
  <2>1. bcstate # "down"
    BY DEF GetHit, CanGet
  <2>2. QED
    BY <1>1, <2>1, InvParts DEF Flow, CleanIndexIsSaved
<1>7. SizeNotUnderestimated'
  <2>1. Present(items') = Present(items)
    BY <1>2 DEF Present
  <2>2. SizeOf(items', Present(items)) = SizeOf(items, Present(items))
    BY <1>2, InvParts, SizeSame DEF Present
  <2>3. total' >= SizeOf(items', Present(items'))
    BY <1>1, <2>1, <2>2, InvParts DEF SizeNotUnderestimated
  <2>4. QED
    BY <2>3 DEF SizeNotUnderestimated
<1>8. Provenance' /\ ReaderOpen'
  BY <1>1, <1>4, InvParts, BlobMarkers, BlobConstants DEF Provenance, ReaderOpen
<1>9. ReaderUndisturbed'
  <2>1. PendingKeys' = PendingKeys
    BY <1>1 DEF PendingKeys
  <2>2. reader # Idle => reader.key \in Keys
    BY InvParts DEF TypeOK, Reader
  <2>3. QED
    BY <1>1, <1>2, <1>4, <2>1, <2>2, InvParts DEF ReaderUndisturbed
<1>10. LatestKept'
  BY <1>1, <1>2, InvParts DEF LatestKept, PendingKeys
<1>11. QED
  BY <1>5, <1>6, <1>7, <1>8, <1>9, <1>10 DEF IInv

\* The files of us are unlinked and the items of fs are freed.
LEMMA Dropped ==
  ASSUME IInv, NEW us, NEW fs, us \subseteq fs, reader' = ReaderAfter(us, fs),
         \A j \in Keys : items'[j] = IF j \in fs THEN None ELSE items[j],
         \A j \in Keys : file'[j] = IF j \in us THEN None ELSE file[j],
         UNCHANGED past, PendingKeys' \subseteq PendingKeys
  PROVE  /\ reader' \in Reader \cup {Idle} /\ ReaderOpen' /\ ReaderUndisturbed'
         /\ reader' # Idle /\ reader'.fh \in Values => reader'.fh \in past'[reader'.key]
<1>1. /\ reader' \in Reader \cup {Idle} /\ (reader = Idle => reader' = Idle)
      /\ reader # Idle =>
            /\ reader' # Idle /\ reader'.key = reader.key /\ reader'.want = reader.want
            /\ reader.key \in Keys
            /\ reader'.fh = IF reader.fh = "live" /\ reader.key \in us
                            THEN file[reader.key] ELSE reader.fh
            /\ reader'.p = (IF reader.key \in fs THEN "freed" ELSE reader.p)
            /\ reader'.sizes = reader.sizes
  BY InvParts, ReaderAfterIs
<1>2. reader # Idle /\ reader.fh = "live" => file[reader.key] # "live"
  BY <1>1, InvParts, BlobMarkers DEF TypeOK, ReaderOpen
<1>3. ReaderOpen'
  BY <1>1, <1>2, InvParts DEF ReaderOpen
<1>4. ReaderUndisturbed'
  BY <1>1, InvParts DEF ReaderUndisturbed
<1>5. reader' # Idle /\ reader'.fh \in Values => reader'.fh \in past'[reader'.key]
  BY <1>1, InvParts DEF Provenance
<1>6. QED
  BY <1>1, <1>3, <1>4, <1>5

\* A lookup that drops the item
LEMMA GetBadStep ==
  ASSUME IInv, NEW k \in Keys, NEW ignore \in BOOLEAN, GetBad(k, ignore)
  PROVE  IInv'
<1> DEFINE mismatch == file[k] # None /\ ~Complete(k)
           unlink == mismatch /\ ~(Expired(k) /\ ~ignore)
           us == IF unlink THEN {k} ELSE {}
<1>1. /\ items[k] # None /\ bcstate # "down" /\ items' = [items EXCEPT ![k] = None]
      /\ file' = [file EXCEPT ![k] = IF unlink THEN None ELSE @]
      /\ reader' = ReaderAfter(us, {k})
      /\ UNCHANGED <<queue, index, dirty, total, bcstate, fl, now, latest, past, puts, faults, boots>>
  BY DEF GetBad, CanGet, hist, bounds
<1>2. us \subseteq {k}
  OBVIOUS
<1>3. /\ \A j \in Keys : file'[j] = IF j \in us THEN None ELSE file[j]
      /\ file' \in [Keys -> Values \cup {Partial, None}]
  <2> HIDE DEF unlink
  <2> QED
    BY <1>1, InvParts DEF TypeOK
<1> HIDE DEF us
<1>4. /\ items' \in Items
      /\ \A j \in Keys : items'[j] = IF j \in {k} THEN None ELSE items[j]
  BY <1>1, InvParts DEF Items
<1>5. PendingKeys' = PendingKeys
  BY <1>1 DEF PendingKeys
<1>6. /\ reader' \in Reader \cup {Idle} /\ ReaderOpen' /\ ReaderUndisturbed'
      /\ reader' # Idle /\ reader'.fh \in Values => reader'.fh \in past'[reader'.key]
  BY <1>1, <1>2, <1>3, <1>4, <1>5, Dropped
<1>7. TypeOK'
  BY <1>1, <1>3, <1>4, <1>6, InvParts DEF TypeOK, Items
<1>8. Flow' /\ CleanIndexIsSaved'
  BY <1>1, <1>4, InvParts DEF Flow, CleanIndexIsSaved, Present, Up
<1>9. SizeNotUnderestimated'
  <2>1. k \in Present(items) /\ Present(items') = Present(items) \ {k}
    BY <1>1, <1>4 DEF Present
  <2>2. \A j \in Present(items) \ {k} : items'[j].content = items[j].content
    BY <1>4 DEF Present
  <2>3. SizeOf(items', Present(items')) = SizeOf(items, Present(items) \ {k})
    BY <2>1, <2>2, InvParts, SizeSame
  <2>4. SizeOf(items, Present(items)) = Size[items[k].content] + SizeOf(items, Present(items) \ {k})
    BY <2>1, InvParts, SizeRemove
  <2>5. SizeOf(items, Present(items) \ {k}) \in Nat /\ Size[items[k].content] \in Nat
    BY <2>1, InvParts, SizeNat, SizeFacts
  <2>6. total \in Nat /\ total' = total /\ total >= SizeOf(items, Present(items))
    BY <1>1, InvParts DEF TypeOK, SizeNotUnderestimated
  <2>7. total' >= SizeOf(items', Present(items'))
    BY <2>3, <2>4, <2>5, <2>6
  <2>8. QED
    BY <2>7 DEF SizeNotUnderestimated
<1>10. Provenance' /\ LatestKept'
  BY <1>1, <1>3, <1>4, <1>5, <1>6, InvParts, BlobConstants DEF Provenance, LatestKept
<1>11. QED
  BY <1>6, <1>7, <1>8, <1>9, <1>10 DEF IInv

\* cache_clear
LEMMA ClearStep ==
  ASSUME IInv, Clear
  PROVE  IInv'
<1> DEFINE ks == Present(items)
<1>1. /\ bcstate # "down" /\ items' = Nothing /\ total' = 0 /\ file' = Without(file, ks)
      /\ reader' = ReaderAfter(ks, ks) /\ SaveIndex(Nothing, dirty \/ ks # {})
      /\ UNCHANGED <<queue, bcstate, fl, now, latest, past, puts, boots>>
  BY DEF Clear, Up, hist
<1>2. /\ \A j \in Keys : file'[j] = IF j \in ks THEN None ELSE file[j]
      /\ file' \in [Keys -> Values \cup {Partial, None}]
  BY <1>1, InvParts DEF TypeOK, Without
<1>3. \A j \in Keys : items'[j] = IF j \in ks THEN None ELSE items[j]
  BY <1>1, NothingIs DEF Present
<1> HIDE DEF ks
<1>4. PendingKeys' = PendingKeys
  BY <1>1 DEF PendingKeys
<1>5. /\ reader' \in Reader \cup {Idle} /\ ReaderOpen' /\ ReaderUndisturbed'
      /\ reader' # Idle /\ reader'.fh \in Values => reader'.fh \in past'[reader'.key]
  BY <1>1, <1>2, <1>3, <1>4, Dropped
<1>6. /\ dirty' \in BOOLEAN /\ faults' \in 0 .. MaxFaults
      /\ index' = Corrupt \/ index' \in Items
  <2>1. (dirty \/ ks # {}) \in BOOLEAN
    OBVIOUS
  <2>2. QED
    BY <1>1, <2>1, InvParts, NothingIs, SaveIndexIs
<1>7. TypeOK'
  BY <1>1, <1>2, <1>5, <1>6, InvParts, NothingIs DEF TypeOK, Items
<1>8. Flow' /\ CleanIndexIsSaved'
  BY <1>1, NothingIs, InvParts DEF Flow, CleanIndexIsSaved
<1>9. SizeNotUnderestimated'
  BY <1>1, NothingIs, SizeEmpty DEF SizeNotUnderestimated
<1>10. Provenance' /\ LatestKept'
  BY <1>1, <1>2, <1>3, <1>4, <1>5, InvParts, BlobConstants DEF Provenance, LatestKept
<1>11. QED
  BY <1>5, <1>7, <1>8, <1>9, <1>10 DEF IInv

\* The content flushthread is about.
LEMMA HeadIs ==
  ASSUME IInv, fl \in {"open", "write", "done"}
  PROVE  /\ Len(queue) \in Nat /\ 1 \in 1 .. Len(queue) /\ queue # <<>> /\ Head(queue) = queue[1]
         /\ \A i \in 1 .. Len(queue) : queue[i].key \in Keys /\ queue[i].content \in Values
         /\ queue[1].key \in PendingKeys
         /\ Pending(queue[1].key) = {1} <=>
               \A j \in 2 .. Len(queue) : queue[j].key # queue[1].key
<1>1. queue \in Seq([key : Keys, content : Values]) /\ queue # <<>>
  BY InvParts DEF TypeOK, Flow
<1>2. /\ Len(queue) \in Nat /\ 1 \in 1 .. Len(queue) /\ Head(queue) = queue[1]
      /\ DOMAIN queue = 1 .. Len(queue)
  BY <1>1
<1>3. \A i \in 1 .. Len(queue) : queue[i] \in [key : Keys, content : Values]
  BY <1>1, ElementOf
<1>4. \A i \in 1 .. Len(queue) : queue[i].key \in Keys /\ queue[i].content \in Values
  BY <1>3
<1>5. queue[1].key \in PendingKeys
  BY <1>2 DEF PendingKeys
<1>6. Pending(queue[1].key) = {1} <=> \A j \in 2 .. Len(queue) : queue[j].key # queue[1].key
  <2>1. ASSUME Pending(queue[1].key) = {1}, NEW j \in 2 .. Len(queue)
        PROVE  queue[j].key # queue[1].key
    BY <1>2, <2>1 DEF Pending
  <2>2. ASSUME \A j \in 2 .. Len(queue) : queue[j].key # queue[1].key
        PROVE  Pending(queue[1].key) = {1}
    BY <1>2, <2>2 DEF Pending
  <2>3. QED
    BY <2>1, <2>2
<1>7. QED
  BY <1>1, <1>2, <1>4, <1>5, <1>6

\* The file is opened or, on a disk error, is not.
LEMMA FlushOpenStep ==
  ASSUME IInv, FlushOpen
  PROVE  IInv'
<1> DEFINE k == queue[1].key
<1>1. fl = "open" /\ UNCHANGED <<items, queue, index, dirty, total, bcstate, reader, now, past, puts, boots>>
  BY DEF FlushOpen
<1>2. /\ k \in Keys /\ k \in PendingKeys /\ Head(queue) = queue[1]
      /\ Pending(k) = {1} <=> \A j \in 2 .. Len(queue) : queue[j].key # k
  BY <1>1, HeadIs
<1>3. PendingKeys' = PendingKeys
  BY <1>1 DEF PendingKeys
<1> HIDE DEF k
<1>4. /\ file \in [Keys -> Values \cup {Partial, None}] /\ latest \in [Keys -> Values \cup {None}]
      /\ \A i \in 1 .. Len(queue) : queue[i].key \in Keys
      /\ bcstate # "down" \/ latest = Nothing
  BY <1>1, InvParts, HeadIs DEF TypeOK, Flow
<1>5. /\ file' \in [Keys -> Values \cup {Partial, None}] /\ faults' \in 0 .. MaxFaults
      /\ fl' \in {"write", "done"}
      /\ \A j \in Keys : file'[j] = file[j] \/ (j = k /\ file'[j] = Partial)
      /\ latest' \in [Keys -> Values \cup {None}]
      /\ \A j \in Keys : latest'[j] \in {latest[j], None}
      /\ fl' = "done" /\ Pending(k) = {1} => latest'[k] = None
  <2>1. CASE file' = [file EXCEPT ![k] = Partial] /\ fl' = "write" /\ UNCHANGED <<faults, latest>>
    BY <1>2, <1>4, <2>1, InvParts DEF TypeOK
  <2>2. CASE /\ Fault /\ fl' = "done" /\ UNCHANGED file
             /\ latest' = IF Pending(k) = {1} THEN [latest EXCEPT ![k] = None] ELSE latest
    BY <1>2, <1>4, <2>2, InvParts, SMTT(30) DEF TypeOK, Fault
  <2>3. QED
    BY <1>2, <2>1, <2>2 DEF FlushOpen, k
<1>6. bcstate # "down"
  BY <1>1, InvParts DEF Flow
<1>7. TypeOK' /\ Flow' /\ CleanIndexIsSaved'
  BY <1>1, <1>5, <1>6, InvParts DEF TypeOK, Flow, CleanIndexIsSaved, Up, Present
<1>8. SizeNotUnderestimated'
  BY <1>1, InvParts DEF SizeNotUnderestimated
<1>9. Provenance' /\ ReaderOpen' /\ ReaderUndisturbed'
  <2>1. reader # Idle => reader.key \in Keys
    BY InvParts DEF TypeOK, Reader
  <2>2. QED
    BY <1>1, <1>2, <1>3, <1>5, <2>1, InvParts, BlobConstants
       DEF Provenance, ReaderOpen, ReaderUndisturbed
<1>10. LatestKept'
  BY <1>1, <1>2, <1>3, <1>4, <1>5, InvParts DEF LatestKept, k
<1>11. QED
  BY <1>7, <1>8, <1>9, <1>10 DEF IInv

\* The file is written or, on a disk error, unlinked.
LEMMA FlushWriteStep ==
  ASSUME IInv, FlushWrite
  PROVE  IInv'
<1> DEFINE k == queue[1].key
           c == queue[1].content
<1>1. /\ fl = "write" /\ fl' = "done"
      /\ UNCHANGED <<items, queue, index, dirty, total, bcstate, now, past, puts, boots>>
  BY DEF FlushWrite
<1>2. /\ k \in Keys /\ k \in PendingKeys /\ Head(queue) = queue[1] /\ c \in Values
      /\ Pending(k) = {1} <=> \A j \in 2 .. Len(queue) : queue[j].key # k
      /\ 1 \in 1 .. Len(queue) /\ Len(queue) \in Nat /\ queue # <<>>
  BY <1>1, HeadIs
<1>3. PendingKeys' = PendingKeys
  BY <1>1 DEF PendingKeys
<1>4. /\ file \in [Keys -> Values \cup {Partial, None}] /\ latest \in [Keys -> Values \cup {None}]
      /\ \A i \in 1 .. Len(queue) : queue[i].key \in Keys
  BY <1>1, InvParts, HeadIs DEF TypeOK
<1>5. /\ c \in past[k]
      /\ (\A j \in 2 .. Len(queue) : queue[j].key # k) => latest[k] \in {c, None}
  <2>1. (\A j \in 2 .. Len(queue) : queue[j].key # k) =>
           \A j \in 1 .. Len(queue) : j > 1 => queue[j].key # queue[1].key
    BY <1>2
  <2>2. QED
    BY <1>2, <2>1, InvParts DEF Provenance, LatestKept
<1>6. reader # Idle => reader.key \in Keys
  BY InvParts DEF TypeOK, Reader
<1>7. bcstate # "down"
  BY <1>1, <1>2, InvParts DEF Flow
<1> HIDE DEF k, c
<1>8. CASE /\ file' = [file EXCEPT ![k] = IF @ = None THEN None ELSE c]
           /\ UNCHANGED <<faults, latest, reader>>
  <2>1. /\ file' \in [Keys -> Values \cup {Partial, None}]
        /\ \A j \in Keys \ {k} : file'[j] = file[j]
        /\ file'[k] = IF file[k] = None THEN None ELSE c
    BY <1>2, <1>4, <1>8
  <2>2. TypeOK' /\ Flow' /\ CleanIndexIsSaved'
    BY <1>1, <1>2, <1>7, <1>8, <2>1, InvParts DEF TypeOK, Flow, CleanIndexIsSaved, Up, Present
  <2>3. SizeNotUnderestimated'
    BY <1>1, InvParts DEF SizeNotUnderestimated
  <2>4. Provenance' /\ ReaderOpen' /\ ReaderUndisturbed'
    BY <1>1, <1>2, <1>3, <1>5, <1>6, <1>8, <2>1, InvParts, BlobConstants
       DEF Provenance, ReaderOpen, ReaderUndisturbed
  <2>5. LatestKept'
    BY <1>1, <1>2, <1>3, <1>4, <1>5, <1>8, <2>1, InvParts DEF LatestKept, k
  <2>6. QED
    BY <2>2, <2>3, <2>4, <2>5 DEF IInv
<1>9. CASE /\ Fault /\ file' = [file EXCEPT ![k] = None] /\ reader' = ReaderAfter({k}, {})
           /\ latest' = IF Pending(k) = {1} THEN [latest EXCEPT ![k] = None] ELSE latest
  <2>1. /\ file' \in [Keys -> Values \cup {Partial, None}] /\ faults' \in 0 .. MaxFaults
        /\ \A j \in Keys \ {k} : file'[j] = file[j]
        /\ file'[k] = None
        /\ latest' \in [Keys -> Values \cup {None}]
        /\ \A j \in Keys : latest'[j] \in {latest[j], None}
    BY <1>2, <1>4, <1>9, InvParts, SMTT(30) DEF TypeOK, Fault
  <2>2. /\ reader' \in Reader \cup {Idle} /\ (reader = Idle => reader' = Idle)
        /\ reader # Idle =>
              /\ reader' # Idle /\ reader'.key = reader.key /\ reader'.want = reader.want
              /\ reader'.fh = IF reader.fh = "live" /\ reader.key = k
                              THEN file[reader.key] ELSE reader.fh
              /\ reader'.p = reader.p /\ reader'.sizes = reader.sizes
    BY <1>9, InvParts, ReaderAfterIs
  <2>3. TypeOK' /\ Flow' /\ CleanIndexIsSaved'
    BY <1>1, <1>2, <1>7, <2>1, <2>2, InvParts DEF TypeOK, Flow, CleanIndexIsSaved, Up, Present
  <2>4. SizeNotUnderestimated'
    BY <1>1, InvParts DEF SizeNotUnderestimated
  <2>5. Provenance'
    BY <1>1, <1>6, <2>1, <2>2, InvParts, BlobConstants DEF Provenance
  <2>6. ReaderOpen' /\ ReaderUndisturbed'
    <3>1. reader # Idle /\ reader.fh = "live" => file[reader.key] # "live"
      BY <1>4, <1>6, BlobMarkers, InvParts DEF ReaderOpen
    <3>2. QED
      BY <1>1, <1>2, <1>3, <1>6, <2>1, <2>2, <3>1, InvParts DEF ReaderOpen, ReaderUndisturbed
  <2>7. LatestKept'
    BY <1>1, <1>2, <1>3, <1>4, <2>1, InvParts DEF LatestKept, k
  <2>8. QED
    BY <2>3, <2>4, <2>5, <2>6, <2>7 DEF IInv
<1>10. QED
  BY <1>2, <1>8, <1>9 DEF FlushWrite, Flushed, k, c

\* The content leaves the queue and the cache is pruned.
LEMMA FlushDoneStep ==
  ASSUME IInv, FlushDone
  PROVE  IInv'
<1>1. /\ fl = "done" /\ fl' = "loop" /\ queue' = Tail(queue)
      /\ UNCHANGED <<bcstate, now, latest, past, puts, boots>>
  BY DEF FlushDone, hist
<1>2. /\ Len(queue) \in Nat /\ 1 \in 1 .. Len(queue) /\ queue # <<>>
      /\ \A i \in 1 .. Len(queue) : queue[i].key \in Keys
  BY <1>1, HeadIs
<1>3. /\ queue' \in Seq([key : Keys, content : Values]) /\ Len(queue') = Len(queue) - 1
      /\ \A i \in 1 .. Len(queue') : queue'[i] = queue[i + 1]
  <2>1. queue \in Seq([key : Keys, content : Values])
    BY InvParts DEF TypeOK
  <2>2. QED
    BY <1>1, <1>2, <2>1
<1>4. /\ PendingKeys' \subseteq PendingKeys
      /\ \A k \in PendingKeys \ PendingKeys' :
            k = queue[1].key /\ \A j \in 2 .. Len(queue) : queue[j].key # k
  <2>1. \A i \in 1 .. Len(queue') : i + 1 \in 1 .. Len(queue)
    BY <1>2, <1>3
  <2>2. PendingKeys' \subseteq PendingKeys
    BY <1>3, <2>1 DEF PendingKeys
  <2>3. \A j \in 2 .. Len(queue) : j - 1 \in 1 .. Len(queue') /\ queue'[j - 1] = queue[j]
    BY <1>2, <1>3
  <2>4. \A j \in 2 .. Len(queue) : queue[j].key \in PendingKeys'
    BY <2>3 DEF PendingKeys
  <2>5. \A k \in PendingKeys : k = queue[1].key \/ \E j \in 2 .. Len(queue) : k = queue[j].key
    BY <1>2 DEF PendingKeys
  <2>6. QED
    BY <2>2, <2>4, <2>5
<1>5. PICK gone \in SUBSET Present(items) :
        /\ items' \in Items /\ \A j \in Keys : items'[j] = IF j \in gone THEN None ELSE items[j]
        /\ file' \in [Keys -> Values \cup {Partial, None}]
        /\ \A j \in Keys : file'[j] = IF j \in gone THEN None ELSE file[j]
        /\ reader' = ReaderAfter(gone, gone)
        /\ total' \in Nat /\ total' <= MaxSize /\ total' >= SizeOf(items', Present(items'))
        /\ dirty' \in BOOLEAN /\ faults' \in 0 .. MaxFaults
        /\ index' = Corrupt \/ index' \in Items
        /\ ~dirty' => index' = IF dirty \/ gone # {} THEN items' ELSE index
  <2>1. CASE TooLarge
    <3>1. PICK ks \in Kept(items) :
              /\ items' = Without(items, Present(items) \ ks)
              /\ file' = Without(file, Present(items) \ ks)
              /\ total' = SizeOf(items, ks)
              /\ reader' = ReaderAfter(Present(items) \ ks, Present(items) \ ks)
              /\ SaveIndex(items', dirty \/ Present(items) \ ks # {})
      BY <2>1 DEF FlushDone
    <3> DEFINE gone == Present(items) \ ks
    <3>2. /\ ks \in SUBSET Present(items) /\ total' \in Nat /\ total' <= MaxSize
      BY <3>1, InvParts, KeptIs
    <3>3. items' \in Items /\ \A j \in Keys : items'[j] = IF j \in gone THEN None ELSE items[j]
      BY <3>1, InvParts DEF Without, Items
    <3>4. /\ file' \in [Keys -> Values \cup {Partial, None}]
          /\ \A j \in Keys : file'[j] = IF j \in gone THEN None ELSE file[j]
      BY <3>1, InvParts DEF Without, TypeOK
    <3>5. (dirty \/ gone # {}) \in BOOLEAN
      OBVIOUS
    <3>6. /\ dirty' \in BOOLEAN /\ faults' \in 0 .. MaxFaults
          /\ index' = Corrupt \/ index' \in Items
          /\ ~dirty' => index' = IF dirty \/ gone # {} THEN items' ELSE index
      BY <3>1, <3>3, <3>5, InvParts, SaveIndexIs
    <3>7. Present(items') = ks /\ \A j \in ks : items'[j].content = items[j].content
      BY <3>2, <3>3 DEF Present
    <3>8. SizeOf(items', ks) = SizeOf(items, ks)
      BY <3>2, <3>7, InvParts, SizeSame
    <3>9. total' >= SizeOf(items', Present(items'))
      BY <3>1, <3>2, <3>7, <3>8
    <3>10. gone \in SUBSET Present(items) /\ reader' = ReaderAfter(gone, gone)
      BY <3>1
    <3> HIDE DEF gone
    <3>11. QED
      BY <3>2, <3>3, <3>4, <3>6, <3>9, <3>10
  <2>2. CASE ~TooLarge
    <3>1. UNCHANGED <<items, file, index, dirty, total, reader, faults>>
      BY <2>2 DEF FlushDone
    <3>2. reader' = ReaderAfter({}, {})
      <4>1. CASE reader = Idle
        BY <3>1, <4>1 DEF ReaderAfter
      <4>2. CASE reader # Idle
        <5>1. reader \in Reader
          BY <4>2, InvParts DEF TypeOK
        <5>2. QED
          BY <3>1, <4>2, <5>1 DEF ReaderAfter, Reader
      <4>3. QED
        BY <4>1, <4>2
    <3>3. total \in Nat /\ total <= MaxSize /\ total >= SizeOf(items, Present(items))
      BY <2>2, InvParts DEF TooLarge, TypeOK, SizeNotUnderestimated
    <3>4. /\ items \in Items /\ file \in [Keys -> Values \cup {Partial, None}]
          /\ dirty \in BOOLEAN /\ faults \in 0 .. MaxFaults /\ (index = Corrupt \/ index \in Items)
      BY InvParts DEF TypeOK
    <3>5. {} \in SUBSET Present(items)
      OBVIOUS
    <3>6. ~dirty' => index' = IF dirty \/ {} # {} THEN items' ELSE index
      BY <3>1
    <3>7. QED
      BY <3>1, <3>2, <3>3, <3>4, <3>5, <3>6
  <2>3. QED
    BY <2>1, <2>2
<1>6. /\ reader' \in Reader \cup {Idle} /\ ReaderOpen' /\ ReaderUndisturbed'
      /\ reader' # Idle /\ reader'.fh \in Values => reader'.fh \in past'[reader'.key]
  BY <1>1, <1>4, <1>5, Dropped
<1>7. TypeOK'
  BY <1>1, <1>3, <1>5, <1>6, InvParts DEF TypeOK, Items
<1>8. Flow'
  <2>1. bcstate # "down"
    BY <1>2, InvParts DEF Flow
  <2>2. QED
    BY <1>1, <1>5, <2>1 DEF Flow
<1>9. SizeNotUnderestimated'
  BY <1>5 DEF SizeNotUnderestimated
<1>10. CleanIndexIsSaved'
  <2>1. items' # Corrupt
    BY <1>5, BlobMarkers DEF Items
  <2>2. CASE dirty \/ gone # {}
    BY <1>5, <2>1, <2>2 DEF CleanIndexIsSaved
  <2>3. CASE ~(dirty \/ gone # {})
    BY <1>1, <1>5, <2>3, InvParts DEF CleanIndexIsSaved, Present, Up
  <2>4. QED
    BY <2>2, <2>3
<1>11. Provenance'
  <2>1. \A i \in 1 .. Len(queue') : queue'[i].content \in past'[queue'[i].key]
    <3>1. \A i \in 1 .. Len(queue') : i + 1 \in 1 .. Len(queue)
      BY <1>2, <1>3
    <3>2. QED
      BY <1>1, <1>3, <3>1, InvParts DEF Provenance
  <2>2. \A k \in Keys : file'[k] \in Values => file'[k] \in past'[k]
    BY <1>1, <1>5, InvParts, BlobConstants DEF Provenance
  <2>3. QED
    BY <1>6, <2>1, <2>2 DEF Provenance
<1>12. LatestKept'
  <2>1. \A k \in Keys : latest'[k] # None /\ items'[k] # None => items'[k].content = latest'[k]
    BY <1>1, <1>5, InvParts DEF LatestKept
  <2>2. \A k \in Keys \ PendingKeys' : latest'[k] # None => file'[k] \in {latest'[k], None}
    BY <1>1, <1>4, <1>5, InvParts DEF LatestKept
  <2>3. ASSUME NEW i \in 1 .. Len(queue'),
               \A j \in 1 .. Len(queue') : j > i => queue'[j].key # queue'[i].key
        PROVE  latest'[queue'[i].key] \in {queue'[i].content, None}
    <3>1. i + 1 \in 1 .. Len(queue) /\ queue'[i] = queue[i + 1]
      BY <1>2, <1>3
    <3>2. ASSUME NEW j \in 1 .. Len(queue), j > i + 1
          PROVE  queue[j].key # queue[i + 1].key
      <4>1. j - 1 \in 1 .. Len(queue') /\ j - 1 > i /\ queue'[j - 1] = queue[j]
        BY <1>2, <1>3, <3>2
      <4>2. QED
        BY <2>3, <3>1, <4>1
    <3>3. QED
      BY <1>1, <3>1, <3>2, InvParts DEF LatestKept
  <2>4. QED
    BY <1>1, <2>1, <2>2, <2>3 DEF LatestKept
<1>13. QED
  BY <1>6, <1>7, <1>8, <1>9, <1>10, <1>11, <1>12 DEF IInv

LEMMA NextInv ==
  ASSUME IInv, [Next]_vars
  PROVE  IInv'
<1>1. CASE UNCHANGED vars
  <2>1. UNCHANGED <<items, queue, file, index, dirty, total, bcstate, fl, reader, now, latest, past,
                    puts, faults, boots>>
    BY <1>1 DEF vars, cache, hist, bounds
  <2>2. TypeOK' /\ Flow' /\ CleanIndexIsSaved' /\ SizeNotUnderestimated'
    BY <2>1, InvParts DEF TypeOK, Flow, CleanIndexIsSaved, Present, Up, SizeNotUnderestimated
  <2>3. Provenance' /\ ReaderOpen' /\ ReaderUndisturbed'
    BY <2>1, InvParts DEF Provenance, ReaderOpen, ReaderUndisturbed, PendingKeys
  <2>4. LatestKept'
    BY <2>1, InvParts DEF LatestKept, PendingKeys
  <2>5. QED
    BY <2>2, <2>3, <2>4 DEF IInv
<1>2. CASE \E k \in Keys, v \in Values, age \in Ages : Put(k, v, age) \/ PutAgain(k, v, age)
  BY <1>2, PutStep, PutAgainStep
<1>3. CASE \E k \in Keys, ignore \in BOOLEAN : GetHit(k, ignore) \/ GetBad(k, ignore)
  BY <1>3, GetHitStep, GetBadStep
<1>4. QED
  BY <1>1, <1>2, <1>3, QuietSteps, GoneSteps, BootStep, ClearStep, FlushOpenStep, FlushWriteStep,
     FlushDoneStep DEF Next

-----------------------------------------------------------------------------
(* The theorems.                                                            *)

\* Where the value last put is, what the reader holds, what the sizes add up to and what
\* the index file has, in every state.
THEOREM BlobInductive == Spec => []IInv
<1>1. Init => IInv
  BY InitInv
<1>2. IInv /\ [Next]_vars => IInv'
  BY NextInv
<1>3. QED
  BY <1>1, <1>2, PTL DEF Spec

\* What an undisturbed reader returns.
LEMMA ReadIs ==
  ASSUME IInv, reader # Idle, reader.p = "same"
  PROVE  ReadResults = {reader.want}
<1> DEFINE c == IF reader.fh = "live" THEN file[reader.key] ELSE reader.fh
<1>1. reader \in Reader /\ reader.want \in Values
  BY InvParts DEF TypeOK, Reader
<1>2. c = reader.want /\ SizesSeen = {Size[reader.want]}
  BY InvParts DEF ReaderUndisturbed, SizesSeen
<1>3. Size[reader.want] \in Nat
  BY <1>1, BlobConstants
<1>4. ReadResults = {ReadOf(c, room, asked, end) : room, asked, end \in SizesSeen}
  BY DEF ReadResults
<1> HIDE DEF c
<1>5. ReadOf(c, Size[c], Size[c], Size[c]) = c
  BY <1>1, <1>2, <1>3 DEF ReadOf
<1>6. QED
  BY <1>2, <1>4, <1>5

\* current_cache_size is never less than what the items add up to and is within the
\* limit whenever flushthread waits, whatever puts, prunings, clearings, crashes and
\* disk errors come in between.
THEOREM SizeHolds == Spec => []BlobInv
<1>1. IInv => BlobInv
  BY InvParts DEF Flow, WithinLimitAtRest, BlobInv
<1>2. QED
  BY <1>1, BlobInductive, PTL

\* While index_dirty is clear, index.dat has every item as it is in memory.
THEOREM CleanIsSaved == Spec => []CleanIndexIsSaved
<1>1. IInv => CleanIndexIsSaved
  BY DEF IInv
<1>2. QED
  BY <1>1, BlobInductive, PTL

\* A blobcache_get gets the content it found when it held the lock, as long as its item
\* is neither changed nor dropped: flushthread writes no file that is being read.
THEOREM ReadUndisturbed == Spec => []UndisturbedRead
<1>1. IInv => UndisturbedRead
  BY ReadIs DEF UndisturbedRead
<1>2. QED
  BY <1>1, BlobInductive, PTL

-----------------------------------------------------------------------------
(* BlobCache implements CacheContract.                                      *)

\* What a lookup yields: something that was put under its key, and where something is
\* promised, that or nothing.
LookupFacts ==
    \A k \in Keys :
        /\ Lookup(k) \in past[k] \cup {None}
        /\ latest[k] # None =>
              Lookup(k) = IF items[k] = None THEN None
                          ELSE IF k \in PendingKeys THEN latest[k] ELSE file[k]

LEMMA GreatestOf ==
  ASSUME NEW n \in Nat, NEW T, T \subseteq 1 .. n, T # {}
  PROVE  \E m \in T : \A j \in T : m >= j
<1> DEFINE D == {d \in Nat : \E i \in T : d = n - i}
<1>1. D \subseteq Nat /\ D # {}
  <2>1. PICK i \in T : TRUE
    OBVIOUS
  <2>2. n - i \in Nat /\ n - i \in D
    BY <2>1
  <2>3. QED
    BY <2>2
<1>2. PICK d \in D : \A e \in D : d <= e
  <2> HIDE DEF D
  <2> QED
    BY <1>1, LeastNatural
<1>3. PICK m \in T : d = n - m
  OBVIOUS
<1>4. \A j \in T : n - j \in D /\ j \in Int
  OBVIOUS
<1>5. QED
  BY <1>2, <1>3, <1>4

\* The content a lookup finds in the queue is the last one of its key.
LEMMA PendingIs ==
  ASSUME IInv, NEW k \in Keys
  PROVE  /\ Pending(k) = {} <=> k \notin PendingKeys
         /\ k \in PendingKeys =>
               /\ Max(Pending(k)) \in 1 .. Len(queue) /\ queue[Max(Pending(k))].key = k
               /\ \A j \in 1 .. Len(queue) : j > Max(Pending(k)) => queue[j].key # k
<1>1. Len(queue) \in Nat /\ Pending(k) = {i \in 1 .. Len(queue) : queue[i].key = k}
  BY InvParts DEF TypeOK, Pending
<1>2. Pending(k) = {} <=> k \notin PendingKeys
  BY <1>1 DEF PendingKeys
<1>3. ASSUME k \in PendingKeys
      PROVE  /\ Max(Pending(k)) \in Pending(k)
             /\ \A j \in Pending(k) : j <= Max(Pending(k))
  <2> DEFINE T == Pending(k)
  <2>1. T \subseteq 1 .. Len(queue) /\ T # {}
    BY <1>1, <1>2, <1>3
  <2> HIDE DEF T
  <2>2. \E m \in T : \A j \in T : m >= j
    BY <1>1, <2>1, GreatestOf
  <2>3. Max(T) \in T /\ \A j \in T : Max(T) >= j
    BY <2>2 DEF Max
  <2>4. QED
    BY <1>1, <2>1, <2>3 DEF T
<1>4. ASSUME k \in PendingKeys
      PROVE  /\ Max(Pending(k)) \in 1 .. Len(queue) /\ queue[Max(Pending(k))].key = k
             /\ \A j \in 1 .. Len(queue) : j > Max(Pending(k)) => queue[j].key # k
  <2> DEFINE m == Max(Pending(k))
  <2>1. m \in Pending(k) /\ \A j \in Pending(k) : j <= m
    BY <1>3, <1>4
  <2> HIDE DEF m
  <2>2. m \in 1 .. Len(queue) /\ queue[m].key = k
    BY <1>1, <2>1
  <2>3. ASSUME NEW j \in 1 .. Len(queue), j > m
        PROVE  queue[j].key # k
    <3>1. j \notin Pending(k)
      BY <1>1, <2>1, <2>2, <2>3
    <3>2. QED
      BY <1>1, <3>1
  <2>4. QED
    BY <2>2, <2>3 DEF m
<1>5. QED
  BY <1>2, <1>4

LEMMA LookupIs == IInv => LookupFacts
<1> SUFFICES ASSUME IInv, NEW k \in Keys
             PROVE  /\ Lookup(k) \in past[k] \cup {None}
                    /\ latest[k] # None =>
                          Lookup(k) = IF items[k] = None THEN None
                                      ELSE IF k \in PendingKeys THEN latest[k] ELSE file[k]
  BY DEF LookupFacts
<1>1. CASE items[k] = None
  BY <1>1 DEF Lookup
<1>2. CASE items[k] # None /\ k \in PendingKeys
  <2> DEFINE m == Max(Pending(k))
  <2>1. /\ m \in 1 .. Len(queue) /\ queue[m].key = k /\ Pending(k) # {}
        /\ \A j \in 1 .. Len(queue) : j > m => queue[j].key # queue[m].key
    BY <1>2, PendingIs
  <2>2. Lookup(k) = queue[m].content
    BY <1>2, <2>1 DEF Lookup
  <2> HIDE DEF m
  <2>3. queue[m].content \in past[k] /\ latest[k] \in {queue[m].content, None}
    BY <2>1, InvParts DEF Provenance, LatestKept
  <2>4. QED
    BY <1>2, <2>2, <2>3
<1>3. CASE items[k] # None /\ k \notin PendingKeys
  <2>1. Lookup(k) = IF Complete(k) THEN file[k] ELSE None
    BY <1>3, PendingIs DEF Lookup
  <2>2. Lookup(k) \in past[k] \cup {None}
    BY <2>1, InvParts DEF Complete, Provenance
  <2>3. ASSUME latest[k] # None
        PROVE  Lookup(k) = file[k]
    <3>1. file[k] \in {latest[k], None} /\ items[k].content = latest[k] /\ latest[k] \in Values
      BY <1>3, <2>3, InvParts DEF LatestKept, TypeOK
    <3>2. QED
      BY <2>1, <3>1 DEF Complete
  <2>4. QED
    BY <1>3, <2>2, <2>3
<1>4. QED
  BY <1>1, <1>2, <1>3

\* Nothing is put, and of a value that is promised nothing else comes in its place.
LEMMA DriftStep ==
  ASSUME LookupFacts, LookupFacts', LatestKept', UNCHANGED hist,
         \A k \in Keys : latest[k] # None =>
             /\ items'[k] # None => items[k] # None
             /\ k \in PendingKeys' => k \in PendingKeys
             /\ k \notin PendingKeys => file'[k] \in {file[k], None}
  PROVE  Contract!Drift
<1>1. \A k \in Keys : Lookup(k)' \in {Lookup(k), None} \cup IF latest[k] = None THEN past[k] ELSE {}
  <2> SUFFICES ASSUME NEW k \in Keys
               PROVE  Lookup(k)' \in {Lookup(k), None} \cup IF latest[k] = None THEN past[k] ELSE {}
    OBVIOUS
  <2>1. latest' = latest /\ past' = past
    BY DEF hist
  <2>2. CASE latest[k] = None
    BY <2>1, <2>2 DEF LookupFacts
  <2>3. CASE latest[k] # None
    <3>1. /\ Lookup(k) = IF items[k] = None THEN None
                         ELSE IF k \in PendingKeys THEN latest[k] ELSE file[k]
          /\ Lookup(k)' = IF items'[k] = None THEN None
                          ELSE IF k \in PendingKeys' THEN latest[k] ELSE file'[k]
      BY <2>1, <2>3 DEF LookupFacts
    <3>2. k \notin PendingKeys' => file'[k] \in {latest[k], None}
      BY <2>1, <2>3 DEF LatestKept
    <3>3. QED
      BY <2>3, <3>1, <3>2
  <2>4. QED
    BY <2>2, <2>3
<1>2. QED
  BY <1>1 DEF Contract!Drift, Contract!MayBecome, hist

\* Lookups of what is in the queue or not touched.
LEMMA SameLookup ==
  ASSUME IInv, queue' = queue, NEW j \in Keys,
         items'[j] # None <=> items[j] # None,
         items[j] # None => items'[j].content = items[j].content,
         j \notin PendingKeys => file'[j] = file[j]
  PROVE  Lookup(j)' = Lookup(j)
<1>1. Pending(j)' = Pending(j)
  BY DEF Pending
<1>2. CASE items[j] = None
  BY <1>2 DEF Lookup
<1>3. CASE items[j] # None /\ Pending(j) # {}
  BY <1>1, <1>3 DEF Lookup
<1>4. CASE items[j] # None /\ Pending(j) = {}
  <2>1. j \notin PendingKeys
    BY <1>4, PendingIs
  <2>2. QED
    BY <1>1, <1>4, <2>1 DEF Lookup, Complete
<1>5. QED
  BY <1>2, <1>3, <1>4

\* blobcache_put puts.
LEMMA PutContract ==
  ASSUME IInv, LookupFacts', NEW k \in Keys, NEW v \in Values, NEW age \in Ages, Put(k, v, age)
  PROVE  Contract!Put(k, v)
<1>1. /\ queue' = Append(queue, [key |-> k, content |-> v])
      /\ items' = [items EXCEPT ![k] = [content |-> v, expiry |-> now + age, last |-> now]]
      /\ latest' = [latest EXCEPT ![k] = v] /\ past' = [past EXCEPT ![k] = @ \cup {v}]
      /\ file' = file
  BY DEF Put, Queued
<1>2. /\ items'[k] # None /\ \A j \in Keys \ {k} : items'[j] = items[j]
  BY <1>1, NewItem
<1>3. latest'[k] = v /\ v # None
  BY <1>1, InvParts, BlobConstants DEF TypeOK
<1>4. /\ Len(queue) \in Nat /\ Len(queue') = Len(queue) + 1
      /\ DOMAIN queue = 1 .. Len(queue) /\ DOMAIN queue' = 1 .. Len(queue')
      /\ \A i \in 1 .. Len(queue) : queue'[i] = queue[i]
      /\ queue'[Len(queue) + 1].key = k
  <2> DEFINE e == [key |-> k, content |-> v]
  <2>1. queue \in Seq([key : Keys, content : Values]) /\ e.key = k
    BY InvParts DEF TypeOK
  <2>2. e \in [key : Keys, content : Values] /\ queue' = Append(queue, e)
    BY <1>1
  <2> HIDE DEF e
  <2>3. QED
    BY <2>1, <2>2
<1>5. Lookup(k)' = v
  <2>1. k \in PendingKeys'
    BY <1>4 DEF PendingKeys
  <2>2. QED
    BY <1>2, <1>3, <2>1 DEF LookupFacts
<1>6. ASSUME NEW j \in Keys \ {k}
      PROVE  Lookup(j)' = Lookup(j)
  <2>1. Pending(j)' = Pending(j)
    <3>1. Pending(j) = {i \in 1 .. Len(queue) : queue[i].key = j}
      BY <1>4 DEF Pending
    <3>2. Pending(j)' = {i \in 1 .. Len(queue) + 1 : queue'[i].key = j}
      BY <1>4 DEF Pending
    <3>3. QED
      BY <1>4, <3>1, <3>2
  <2>2. CASE items[j] = None
    BY <1>2, <2>2 DEF Lookup
  <2>3. CASE items[j] # None /\ Pending(j) # {}
    <3>1. Lookup(j) = queue[Max(Pending(j))].content
      BY <2>3 DEF Lookup
    <3>2. Lookup(j)' = queue'[Max(Pending(j))].content
      BY <1>2, <2>1, <2>3 DEF Lookup
    <3>3. Max(Pending(j)) \in 1 .. Len(queue)
      BY <2>3, PendingIs
    <3>4. QED
      BY <1>4, <3>1, <3>2, <3>3
  <2>4. CASE items[j] # None /\ Pending(j) = {}
    BY <1>1, <1>2, <2>1, <2>4 DEF Lookup, Complete
  <2>5. QED
    BY <2>2, <2>3, <2>4
<1>7. [j \in Keys |-> Lookup(j)]' = [[j \in Keys |-> Lookup(j)] EXCEPT ![k] = v]
  BY <1>5, <1>6
<1>8. QED
  BY <1>1, <1>7 DEF Contract!Put

\* blobcache_put of what is in the index.
LEMMA PutAgainContract ==
  ASSUME IInv, NEW k \in Keys, NEW v \in Values, NEW age \in Ages, PutAgain(k, v, age)
  PROVE  Contract!PutAgain(k, v)
<1>1. /\ items[k] # None /\ items[k].content = v
      /\ items' = [items EXCEPT ![k] = [content |-> v, expiry |-> now + age, last |-> now]]
      /\ past' = [past EXCEPT ![k] = @ \cup {v}]
      /\ queue' = queue /\ file' = file /\ latest' = latest
  BY DEF PutAgain, AlreadyIn
<1>2. /\ items'[k] # None /\ items'[k].content = v /\ \A j \in Keys \ {k} : items'[j] = items[j]
  BY <1>1, NewItem
<1>3. \A j \in Keys : Lookup(j)' = Lookup(j)
  BY <1>1, <1>2, SameLookup
<1>4. latest[k] \in {v, None}
  BY <1>1, InvParts DEF LatestKept
<1>5. QED
  BY <1>1, <1>3, <1>4 DEF Contract!PutAgain

\* A disk error under flushthread's hands.
LEMMA FaultContract ==
  ASSUME IInv, fl \in {"open", "write"}, queue' = queue, items' = items, past' = past,
         \A j \in Keys : j # queue[1].key => file'[j] = file[j],
         latest' = [latest EXCEPT ![queue[1].key] = None]
  PROVE  Contract!Fail(queue[1].key)
<1>1. queue[1].key \in PendingKeys
  BY HeadIs
<1>2. \A j \in Keys : Lookup(j)' = Lookup(j)
  BY <1>1, SameLookup
<1>3. QED
  BY <1>2 DEF Contract!Fail

\* Every step is a step of the contract.
LEMMA StepContract ==
  ASSUME IInv, IInv', LookupFacts, LookupFacts', [Next]_vars
  PROVE  Contract!Next
<1>0. LatestKept'
  BY DEF IInv
<1>1. ASSUME UNCHANGED hist, queue' = queue, \A k \in Keys : items'[k] # None => items[k] # None,
             \A k \in Keys \ PendingKeys : file'[k] \in {file[k], None}
      PROVE  Contract!Next
  <2>1. PendingKeys' = PendingKeys
    BY <1>1 DEF PendingKeys
  <2>2. Contract!Drift
    BY <1>0, <1>1, <2>1, DriftStep
  <2>3. QED
    BY <2>2 DEF Contract!Next
<1>2. CASE UNCHANGED vars \/ Tick \/ GetRead \/ Fini \/ FlushClock \/ FlushLoop \/ FlushTimeout
  <2>1. UNCHANGED hist /\ queue' = queue /\ items' = items /\ file' = file
    BY <1>2 DEF vars, cache, Tick, GetRead, Fini, FlushClock, FlushLoop, FlushTimeout
  <2>2. QED
    BY <1>1, <2>1
<1>3. CASE Crash \/ FlushExit
  <2>1. latest' = Nothing /\ past' = past
    BY <1>3 DEF Crash, FlushExit, Gone
  <2>2. \A k \in Keys : Lookup(k)' \in past[k] \cup {None}
    BY <2>1 DEF LookupFacts
  <2>3. Contract!Restart
    BY <2>1, <2>2 DEF Contract!Restart, Nothing
  <2>4. QED
    BY <2>3 DEF Contract!Next
<1>4. CASE Boot
  <2>1. latest = Nothing /\ UNCHANGED hist
    BY <1>4, InvParts DEF Boot, Flow
  <2>2. \A k \in Keys : latest[k] = None
    BY <2>1, NothingIs
  <2>3. Contract!Drift
    BY <1>0, <2>1, <2>2, DriftStep
  <2>4. QED
    BY <2>3 DEF Contract!Next
<1>5. ASSUME NEW k \in Keys, NEW v \in Values, NEW age \in Ages, Put(k, v, age) \/ PutAgain(k, v, age)
      PROVE  Contract!Next
  BY <1>5, PutContract, PutAgainContract DEF Contract!Next
<1>6. ASSUME NEW k \in Keys, NEW ignore \in BOOLEAN, GetHit(k, ignore)
      PROVE  Contract!Next
  <2>1. /\ items[k] # None /\ UNCHANGED hist /\ queue' = queue /\ file' = file
        /\ items' = [items EXCEPT ![k].last = IF bcstate = "run" THEN now ELSE @]
    BY <1>6 DEF GetHit, CanGet
  <2>2. \A j \in Keys : items'[j] # None => items[j] # None
    BY <2>1, InvParts DEF Items
  <2>3. QED
    BY <1>1, <2>1, <2>2
<1>7. ASSUME NEW k \in Keys, NEW ignore \in BOOLEAN, GetBad(k, ignore)
      PROVE  Contract!Next
  <2>1. /\ UNCHANGED hist /\ queue' = queue /\ items' = [items EXCEPT ![k] = None]
        /\ \E b \in BOOLEAN : file' = [file EXCEPT ![k] = IF b THEN None ELSE @]
    <3> DEFINE b == (file[k] # None /\ ~Complete(k)) /\ ~(Expired(k) /\ ~ignore)
    <3>1. file' = [file EXCEPT ![k] = IF b THEN None ELSE @] /\ b \in BOOLEAN
      BY <1>7 DEF GetBad
    <3>2. UNCHANGED hist /\ queue' = queue /\ items' = [items EXCEPT ![k] = None]
      BY <1>7 DEF GetBad
    <3> HIDE DEF b
    <3>3. QED
      BY <3>1, <3>2
  <2>2. /\ \A j \in Keys : items'[j] # None => items[j] # None
        /\ \A j \in Keys : file'[j] \in {file[j], None}
    BY <2>1, InvParts DEF Items, TypeOK
  <2>3. QED
    BY <1>1, <2>1, <2>2
<1>8. CASE Clear
  <2>1. UNCHANGED hist /\ queue' = queue /\ items' = Nothing /\ file' = Without(file, Present(items))
    BY <1>8 DEF Clear
  <2>2. /\ \A j \in Keys : items'[j] # None => items[j] # None
        /\ \A j \in Keys : file'[j] \in {file[j], None}
    BY <2>1, NothingIs DEF Without
  <2>3. QED
    BY <1>1, <2>1, <2>2
<1>9. CASE FlushOpen \/ FlushWrite
  <2> DEFINE k == queue[1].key
  <2>1. /\ fl \in {"open", "write"} /\ items' = items /\ queue' = queue /\ past' = past
    BY <1>9 DEF FlushOpen, FlushWrite
  <2>2. k \in Keys /\ k \in PendingKeys /\ Head(queue) = queue[1]
    BY <2>1, HeadIs
  <2>3. file \in [Keys -> Values \cup {Partial, None}] /\ latest' \in {latest, [latest EXCEPT ![k] = None]}
    BY <1>9, <2>2, InvParts DEF TypeOK, FlushOpen, FlushWrite
  <2>4. \A j \in Keys : j # k => file'[j] = file[j]
    BY <1>9, <2>2, <2>3 DEF FlushOpen, FlushWrite
  <2>5. CASE latest' = latest
    <3>1. UNCHANGED hist
      BY <2>1, <2>5 DEF hist
    <3>2. QED
      BY <1>1, <2>1, <2>2, <2>4, <3>1
  <2>6. CASE latest' = [latest EXCEPT ![k] = None]
    <3>1. Contract!Fail(k)
      BY <2>1, <2>4, <2>6, FaultContract
    <3>2. QED
      BY <2>2, <3>1 DEF Contract!Next
  <2>7. QED
    BY <2>3, <2>5, <2>6
<1>10. CASE FlushDone
  <2>1. fl = "done" /\ UNCHANGED hist /\ queue' = Tail(queue)
    BY <1>10 DEF FlushDone
  <2>2. PendingKeys' \subseteq PendingKeys
    <3>1. /\ Len(queue) \in Nat /\ 1 \in 1 .. Len(queue) /\ queue # <<>>
      BY <2>1, HeadIs
    <3>2. queue \in Seq([key : Keys, content : Values])
      BY InvParts DEF TypeOK
    <3>3. Len(queue') = Len(queue) - 1 /\ \A i \in 1 .. Len(queue') : queue'[i] = queue[i + 1]
      BY <2>1, <3>1, <3>2
    <3>4. \A i \in 1 .. Len(queue') : i + 1 \in 1 .. Len(queue)
      BY <3>1, <3>3
    <3>5. QED
      BY <3>3, <3>4 DEF PendingKeys
  <2>3. /\ \A j \in Keys : items'[j] # None => items[j] # None
        /\ \A j \in Keys : file'[j] \in {file[j], None}
    <3>1. CASE UNCHANGED <<items, file>>
      BY <3>1
    <3>2. CASE \E gone : items' = Without(items, gone) /\ file' = Without(file, gone)
      BY <3>2 DEF Without
    <3>3. QED
      BY <1>10, <3>1, <3>2 DEF FlushDone
  <2>4. Contract!Drift
    BY <1>0, <2>1, <2>2, <2>3, DriftStep
  <2>5. QED
    BY <2>4 DEF Contract!Next
<1>11. QED
  BY <1>2, <1>3, <1>4, <1>5, <1>6, <1>7, <1>8, <1>9, <1>10 DEF Next

LEMMA InitContract == Init => Contract!Init
<1> SUFFICES ASSUME Init PROVE Contract!Init
  OBVIOUS
<1>1. \A k \in Keys : Lookup(k) = None
  BY NothingIs DEF Init, Lookup
<1>2. QED
  BY <1>1 DEF Init, Contract!Init, Nothing

\* The cache keeps the contract of CacheContract: a lookup yields the value last put
\* since the start or none, and where a disk error or a restart voids that, a value that
\* was put under the same key, for any interleaving of puts, gets, prunings, clearings,
\* writes that fail, crashes and restarts.
THEOREM KeepsContract == Spec => ContractSpec
<1>1. Init => Contract!Init
  BY InitContract
<1>2. IInv => LookupFacts
  BY LookupIs
<1>3. IInv /\ IInv' /\ LookupFacts /\ LookupFacts' /\ [Next]_vars => [Contract!Next]_(Contract!vars)
  BY StepContract
<1>4. QED
  BY <1>1, <1>2, <1>3, BlobInductive, PTL DEF Spec, ContractSpec, Contract!Spec
=============================================================================
