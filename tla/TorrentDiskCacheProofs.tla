----------------------- MODULE TorrentDiskCacheProofs -----------------------
(***************************************************************************)
(* Proofs about TorrentDiskCache, for any number of pieces, any limit and   *)
(* any number of faults.                                                    *)
(***************************************************************************)
EXTENDS TorrentDiskCache, FiniteSetTheorems, WellFoundedInduction, TLAPS

\* A set of naturals that is not empty has a least element.
LEMMA LeastNatural ==
  ASSUME NEW T, T \subseteq Nat, T # {}
  PROVE  \E n \in T : \A m \in T : n <= m
<1> DEFINE R == {ss \in Nat \X Nat : ss[1] < ss[2]}
<1>1. IsWellFoundedOn(R, Nat)
  BY NatLessThanWellFounded DEF OpToRel
<1>2. \E n \in T : \A m \in T : <<m, n>> \notin R
  <2> HIDE DEF R
  <2> QED
    BY <1>1, WFMin
<1>3. \A m, n \in Nat : <<m, n>> \notin R => n <= m
  OBVIOUS
<1> HIDE DEF R
<1>4. QED
  BY <1>2, <1>3

\* A slot is handed out and its three file operations are under way.
Writing == w.pc \in {"data", "map", "clear"}

\* The torrent has no cache file, or not yet.
Shut == w.pc \in {"closed", "head", "init", "nocache"}

\* The map in the file as it will be once there is data behind it.
Eff == [i \in Pieces |-> IF file.size <= i THEN 0 ELSE dmap[i]]

\* What the disk thread has in its hands.
WriteSound ==
    /\ Writing => /\ w.loc \in Slots /\ w.loc < total /\ map[w.piece] = w.loc /\ inv[w.loc] = w.piece
                  /\ w.old # None /\ w.old # w.piece => map[w.old] = None
    /\ w.pc = "map" => store[w.loc] = w.piece /\ file.size = NumPieces
    /\ w.pc \in {"scan", "scanned", "data", "map"} => w.ok = FALSE

\* The piece the inverse table has for a slot has that slot, whatever has failed.
InvMap == \A s \in Slots : inv[s] # None => map[inv[s]] = s

\* The map in memory stays below to_total_disk_blocks, and is empty without a file.
MapBelow == \A i \in Pieces : map[i] < total

Fresh == Shut => map = NoEntries /\ inv = [s \in Slots |-> None] /\ next = 0 /\ total = 0

\* The map in the file: where it ends, and that what is there keeps the limit.
FileSound == \A i \in Pieces : /\ file.size <= i => dmap[i] = None
                               /\ dmap[i] <= 0 \/ dmap[i] + 1 + inactive < Limit

Basic == TypeOK /\ WriteSound /\ InvMap /\ MapBelow /\ Fresh /\ FileSound /\ WithinLimit

\* What a file that nothing happened to has: its pieces, in slots without gaps.
OnDisk ==
    /\ file.size = NumPieces
    /\ \A i \in Pieces : dmap[i] # None => store[dmap[i]] = i
    /\ \A i \in Pieces : \A s \in Slots : s < dmap[i] => \E j \in Pieces : dmap[j] = s

\* As long as nothing has failed: memory and file agree, but for the write under way.
Agreed ==
    /\ w.pc \notin {"overrun", "nocache"}
    /\ ~Shut => file.size = NumPieces
    /\ w.pc = "closed" /\ file.head => OnDisk
    /\ total <= NumPieces /\ \A s \in Slots : s < total => inv[s] # None
    /\ \A i \in Pieces : map[i] # None => inv[map[i]] = i
    /\ \A i \in Pieces : map[i] # None /\ ~(w.pc = "data" /\ w.piece = i) => store[map[i]] = i
    /\ w.pc \in {"scan", "scanned"} => map[w.piece] = None
    /\ w.pc \in {"idle", "scan", "scanned"} => Eff = map
    /\ Writing => /\ w.old # w.piece
                  /\ w.old # None => Eff[w.old] = w.loc
                  /\ \A i \in Pieces \ {w.piece, w.old} : Eff[i] = map[i]
    /\ w.pc \in {"data", "map"} => Eff[w.piece] = None
    /\ w.pc = "clear" => Eff[w.piece] = w.loc
    /\ w.pc = "idle" /\ w.ok => Eff[w.piece] = w.loc

FaultFree == faults = 0 => Agreed

\* The pieces about which the map in the file is wrong, now and with the gap filled ...
Wrong == {i \in Pieces : dmap[i] # None /\ store[dmap[i]] # i}

Stale == {i \in Pieces : Eff[i] # None /\ store[Eff[i]] # i}

\* ... or may become so without another fault: the entry of a slot is only cleared for the
\* piece that the inverse table has for it, so that piece should be one that has an entry.
Doubtful == {i \in Pieces : Eff[i] # None /\ ~(/\ store[Eff[i]] = i /\ inv[Eff[i]] # None
                                               /\ Eff[inv[Eff[i]]] = Eff[i])}

\* Pieces that still claim a slot of which neither the inverse table nor the file's map
\* knows; rewriting one takes the slot from its owner.
Ghosts == {i \in Pieces : map[i] # None /\ inv[map[i]] # i /\ Eff[i] # map[i]}

Suspect == Doubtful \cup Ghosts

\* During a write: every other piece with an entry for the slot, less the one to be cleared.
Pending == (Suspect \cup {i \in Pieces : Eff[i] = w.loc /\ i # w.piece}) \ {w.old}

Credit == faults + orphans

\* Every fault is answerable for one piece at most, and a map read in part for its entries.
Accounts ==
    /\ Shut => Cardinality(Wrong) <= Credit
    /\ ~Shut /\ ~Writing => Cardinality(Suspect) <= Credit
    /\ w.pc \in {"data", "map"} => Cardinality(Pending \ {w.piece}) <= Credit
    /\ w.pc = "clear" => Cardinality(Pending) <= Credit
    /\ w.pc = "data" => Cardinality(Stale) <= Credit
    /\ w.pc = "map" => Cardinality(Stale) <= Credit + 1

IInv == Basic /\ FaultFree /\ Accounts

-----------------------------------------------------------------------------
(* Slots and limits.                                                        *)

LEMMA Sizes == NumPieces \in Nat /\ NumPieces >= 1 /\ Limit \in Nat /\ MaxInactive \in Nat
  BY CacheConstants

LEMMA MaxIs ==
  ASSUME NEW S, NEW m \in S, \A y \in S : m >= y
  PROVE  Max(S) \in S /\ \A y \in S : Max(S) >= y
  BY DEF Max

\* A set of integers that has a bound has a maximum.
LEMMA MaxBelow ==
  ASSUME NEW S, S \subseteq Int, S # {}, NEW k \in Int, \A y \in S : y <= k
  PROVE  Max(S) \in S /\ \A y \in S : Max(S) >= y
<1> DEFINE T == {k - y : y \in S}
<1>1. T \subseteq Nat /\ T # {}
  <2>1. \A y \in S : k - y \in Nat
    OBVIOUS
  <2>2. PICK y \in S : TRUE
    OBVIOUS
  <2>3. k - y \in T
    OBVIOUS
  <2>4. QED
    BY <2>1, <2>3
<1>2. PICK n \in T : \A m \in T : n <= m
  <2> HIDE DEF T
  <2>1. QED
    BY <1>1, LeastNatural
<1>3. PICK z \in S : n = k - z
  BY <1>2
<1>4. \A y \in S : z >= y
  <2> TAKE y \in S
  <2>1. k - y \in T
    OBVIOUS
  <2>2. k - z <= k - y
    BY <1>2, <1>3, <2>1
  <2>3. QED
    BY <2>2
<1>5. QED
  BY <1>4, MaxIs

LEMMA MaxTwo ==
  ASSUME NEW a \in Int, NEW b \in Int
  PROVE  Max({a, b}) \in {a, b} /\ Max({a, b}) >= a /\ Max({a, b}) >= b
<1> DEFINE S == {a, b}
<1>1. CASE a >= b
  <2>1. a \in S /\ \A y \in S : a >= y
    BY <1>1
  <2> HIDE DEF S
  <2>2. Max(S) \in S /\ \A y \in S : Max(S) >= y
    BY <2>1, MaxIs
  <2>3. QED
    BY <2>2 DEF S
<1>2. CASE b >= a
  <2>1. b \in S /\ \A y \in S : b >= y
    BY <1>2
  <2> HIDE DEF S
  <2>2. Max(S) \in S /\ \A y \in S : Max(S) >= y
    BY <2>1, MaxIs
  <2>3. QED
    BY <2>2 DEF S
<1>3. QED
  BY <1>1, <1>2

\* to_total_disk_blocks once a slot is used.
LEMMA GrownIs ==
  ASSUME total \in Nat, NEW loc \in Nat
  PROVE  Grown(loc) \in Nat /\ Grown(loc) >= total /\ Grown(loc) >= loc + 1 /\ Grown(loc) \in {total, loc + 1}
<1>1. Max({total, loc + 1}) \in {total, loc + 1} /\ Max({total, loc + 1}) >= total
      /\ Max({total, loc + 1}) >= loc + 1
  BY MaxTwo
<1>2. QED
  BY <1>1 DEF Grown

\* A slot that keeps the limits.
Slot(loc) ==
    /\ loc \in Nat /\ loc <= total
    /\ Grown(loc) <= 1 \/ Grown(loc) + inactive < Limit

\* The next slot, if it fits, and the one in the middle of the file are such.
LEMMA NextFits ==
  ASSUME TypeOK, Fits
  PROVE  Slot(next)
<1>1. next \in Nat /\ total \in Nat /\ inactive \in Nat
  BY Sizes DEF TypeOK
<1>2. Growth >= next + 1 - total /\ Growth >= 0 /\ Growth \in Int
  <2>1. /\ Max({next + 1 - total, 0}) \in {next + 1 - total, 0}
        /\ Max({next + 1 - total, 0}) >= next + 1 - total /\ Max({next + 1 - total, 0}) >= 0
    BY <1>1, MaxTwo
  <2>2. QED
    BY <1>1, <2>1 DEF Growth
<1>3. Grown(next) \in {total, next + 1}
  BY <1>1, GrownIs
<1>4. total + inactive + Growth < Limit
  BY DEF Fits
<1>5. Grown(next) + inactive < Limit
  BY <1>1, <1>2, <1>3, <1>4, Sizes
<1>6. QED
  BY <1>1, <1>5 DEF Slot, TypeOK

LEMMA RestartFits ==
  ASSUME TypeOK, WithinLimit
  PROVE  Slot(Restart)
<1>1. next \in Nat /\ total \in Nat /\ inactive \in Nat /\ next <= total
  BY Sizes DEF TypeOK
<1>2. Restart \in Nat /\ Restart <= next /\ (next >= 1 => Restart < next) /\ (next <= 1 => Restart = 0)
  <2>1. \A n \in Nat : n \div 2 \in Nat /\ n \div 2 <= n /\ (n >= 1 => n \div 2 < n) /\ (n <= 1 => n \div 2 = 0)
    OBVIOUS
  <2>2. QED
    BY <1>1, <2>1 DEF Restart
<1>3. Grown(Restart) \in {total, Restart + 1} /\ Grown(Restart) >= total /\ Grown(Restart) >= Restart + 1
  BY <1>1, <1>2, GrownIs
<1>4. total >= 1 => Restart + 1 <= total
  BY <1>1, <1>2
<1>5. Grown(Restart) = total \/ Grown(Restart) = 1
  BY <1>1, <1>2, <1>3, <1>4
<1>6. Grown(Restart) <= 1 \/ Grown(Restart) + inactive < Limit
  BY <1>1, <1>5 DEF WithinLimit
<1>7. QED
  BY <1>1, <1>2, <1>6 DEF Slot

\* The part of torrent_write_to_disk under the mutex, if there is such a slot.
LEMMA AssignIs ==
  ASSUME TypeOK, NEW i \in Pieces, NEW loc \in Slots, Assign(i, loc)
  PROVE  /\ map' \in [Pieces -> Slots \cup {None}] /\ inv' \in [Slots -> Pieces \cup {None}] /\ w' \in WriteRec
         /\ w'.pc = "data" /\ w'.piece = i /\ w'.loc = loc /\ w'.old = inv[loc] /\ w'.ok = FALSE
         /\ map'[i] = loc /\ inv'[loc] = i
         /\ \A p \in Pieces : p # i => /\ p = inv[loc] => map'[p] = None
                                       /\ p # inv[loc] => map'[p] = map[p]
         /\ \A s \in Slots : s # loc => /\ s = map[i] /\ inv[loc] # i => inv'[s] = None
                                        /\ ~(s = map[i] /\ inv[loc] # i) => inv'[s] = inv[s]
<1>1. map' = Reassigned(i, loc) /\ inv' = InvReassigned(i, loc)
      /\ w' = [At("data") EXCEPT !.piece = i, !.loc = loc, !.old = inv[loc]]
  BY DEF Assign
<1>2. /\ map \in [Pieces -> Slots \cup {None}] /\ inv \in [Slots -> Pieces \cup {None}]
  BY DEF TypeOK
<1>3. /\ map' \in [Pieces -> Slots \cup {None}] /\ map'[i] = loc
      /\ \A p \in Pieces : p # i => /\ p = inv[loc] => map'[p] = None
                                    /\ p # inv[loc] => map'[p] = map[p]
  BY <1>1, <1>2 DEF Reassigned
<1>4. /\ inv' \in [Slots -> Pieces \cup {None}] /\ inv'[loc] = i
      /\ \A s \in Slots : s # loc => /\ s = map[i] /\ inv[loc] # i => inv'[s] = None
                                     /\ ~(s = map[i] /\ inv[loc] # i) => inv'[s] = inv[s]
  BY <1>1, <1>2 DEF InvReassigned
<1>5. /\ w' \in WriteRec /\ w'.pc = "data" /\ w'.piece = i /\ w'.loc = loc /\ w'.old = inv[loc] /\ w'.ok = FALSE
  <2> DEFINE o == inv[loc]
  <2>1. loc \in Nat /\ o \in Pieces \cup {None}
    BY <1>2, Sizes DEF Slots
  <2>2. w' = [pc |-> "data", piece |-> i, attempt |-> 0, rval |-> 0, loc |-> loc, old |-> o, ok |-> FALSE]
    BY <1>1 DEF At
  <2> HIDE DEF o
  <2>3. /\ w' \in WriteRec /\ w'.pc = "data" /\ w'.piece = i /\ w'.loc = loc /\ w'.old = o /\ w'.ok = FALSE
    BY <2>1, <2>2 DEF WriteRec, WritePc
  <2>4. QED
    BY <2>3 DEF o
<1>6. QED
  BY <1>3, <1>4, <1>5

-----------------------------------------------------------------------------
(* What holds whatever fails.                                               *)

\* A place in the code.
LEMMA AtIs ==
  ASSUME NEW pc \in WritePc
  PROVE  At(pc) \in WriteRec /\ At(pc).pc = pc /\ At(pc).ok = FALSE
<1>1. At(pc) = [pc |-> pc, piece |-> 0, attempt |-> 0, rval |-> 0, loc |-> 0, old |-> None, ok |-> FALSE]
  BY DEF At
<1>2. 0 \in Pieces
  BY Sizes DEF Pieces
<1>3. QED
  BY <1>1, <1>2 DEF WriteRec

LEMMA InitBasic ==
  ASSUME Init
  PROVE  Basic
<1>1. w \in WriteRec /\ w.pc = "closed" /\ w.ok = FALSE
  BY AtIs DEF Init, WritePc
<1>2. TypeOK
  BY <1>1, Sizes, CacheConstants DEF Init, TypeOK, NoEntries, FileRec
<1>3. WriteSound /\ WithinLimit /\ Fresh
  BY <1>1 DEF Init, WriteSound, Writing, WithinLimit, Fresh, Shut
<1>4. InvMap /\ MapBelow
  BY DEF Init, InvMap, MapBelow, None, NoEntries
<1>5. FileSound
  BY DEF Init, FileSound, NoEntries, None
<1>6. QED
  BY <1>2, <1>3, <1>4, <1>5 DEF Basic

LEMMA AssignBasic ==
  ASSUME Basic, NEW i \in Pieces, NEW loc, Slot(loc), Assign(i, loc), UNCHANGED <<file, dmap, store, inactive, faults, orphans>>
  PROVE  Basic'
<1>0. TypeOK /\ InvMap /\ MapBelow /\ FileSound
  BY DEF Basic
<1>1. total \in Nat /\ loc \in Nat /\ next' = loc + 1 /\ total' = Grown(loc)
  BY <1>0 DEF Assign, Slot, TypeOK
<1>2. total' \in Nat /\ total' >= total /\ total' >= loc + 1
  BY <1>1, GrownIs
<1>3. WithinLimit'
  BY <1>1 DEF Slot, WithinLimit
<1>4. FileSound'
  BY <1>0 DEF FileSound
<1>5. CASE loc \in Slots
  <2>1. /\ map' \in [Pieces -> Slots \cup {None}] /\ inv' \in [Slots -> Pieces \cup {None}] /\ w' \in WriteRec
        /\ w'.pc = "data" /\ w'.piece = i /\ w'.loc = loc /\ w'.old = inv[loc] /\ w'.ok = FALSE
        /\ map'[i] = loc /\ inv'[loc] = i
        /\ \A p \in Pieces : p # i => /\ p = inv[loc] => map'[p] = None
                                      /\ p # inv[loc] => map'[p] = map[p]
        /\ \A s \in Slots : s # loc => /\ s = map[i] /\ inv[loc] # i => inv'[s] = None
                                       /\ ~(s = map[i] /\ inv[loc] # i) => inv'[s] = inv[s]
    BY <1>0, <1>5, AssignIs
  <2>2. TypeOK'
    BY <1>0, <1>1, <1>2, <2>1 DEF TypeOK, FileRec
  <2>3. WriteSound'
    <3>1. inv[loc] \in Pieces \cup {None}
      BY <1>0, <1>5 DEF TypeOK
    <3>2. inv[loc] # None /\ inv[loc] # i => map'[inv[loc]] = None
      BY <2>1, <3>1
    <3>3. QED
      BY <1>1, <1>2, <1>5, <2>1, <3>2 DEF WriteSound, Writing
  <2>4. InvMap'
    <3> SUFFICES ASSUME NEW s \in Slots, inv'[s] # None
                 PROVE  map'[inv'[s]] = s
      BY DEF InvMap
    <3>1. CASE s = loc
      BY <2>1, <3>1
    <3>2. CASE s # loc
      <4>1. inv'[s] = inv[s] /\ ~(s = map[i] /\ inv[loc] # i)
        BY <2>1, <3>2
      <4>2. inv[s] \in Pieces /\ map[inv[s]] = s
        BY <1>0, <4>1 DEF InvMap, TypeOK
      <4>3. inv[loc] # None => map[inv[loc]] = loc
        BY <1>0, <1>5 DEF InvMap
      <4>4. inv[s] # i
        <5>1. ASSUME inv[s] = i PROVE FALSE
          <6>1. map[i] = s /\ inv[loc] = i
            BY <4>1, <4>2, <5>1
          <6>2. i # None
            BY Sizes DEF Pieces, None
          <6>3. QED
            BY <3>2, <4>3, <6>1, <6>2
        <5>2. QED
          BY <5>1
      <4>5. inv[s] # inv[loc]
        BY <3>2, <4>1, <4>2, <4>3
      <4>6. QED
        BY <2>1, <4>1, <4>2, <4>4, <4>5
    <3>3. QED
      BY <3>1, <3>2
  <2>5. MapBelow'
    <3> SUFFICES ASSUME NEW p \in Pieces
                 PROVE  map'[p] < total'
      BY DEF MapBelow
    <3>1. map[p] < total /\ map[p] \in Int
      <4>1. Slots \cup {None} \subseteq Int
        BY Sizes DEF Slots, None
      <4>2. QED
        BY <1>0, <4>1 DEF MapBelow, TypeOK
    <3>2. map'[p] \in {loc, None, map[p]}
      BY <2>1
    <3>3. QED
      BY <1>1, <1>2, <3>1, <3>2 DEF None
  <2>6. Fresh'
    BY <2>1 DEF Fresh, Shut
  <2>7. QED
    BY <1>3, <1>4, <2>2, <2>3, <2>4, <2>5, <2>6 DEF Basic
<1>6. CASE loc \notin Slots
  <2>1. /\ UNCHANGED <<map, inv>> /\ w' = [At("overrun") EXCEPT !.piece = i, !.loc = loc]
    BY <1>6 DEF Assign
  <2>2. /\ w' = [pc |-> "overrun", piece |-> i, attempt |-> 0, rval |-> 0, loc |-> loc, old |-> None, ok |-> FALSE]
    BY <2>1 DEF At
  <2>3. w' \in WriteRec /\ w'.pc = "overrun"
    BY <1>1, <2>2 DEF WriteRec, WritePc
  <2>4. TypeOK'
    BY <1>0, <1>1, <1>2, <2>1, <2>3 DEF TypeOK
  <2>5. WriteSound' /\ InvMap'
    BY <1>0, <2>1, <2>3 DEF WriteSound, Writing, InvMap
  <2>6. MapBelow' /\ Fresh'
    <3>1. \A p \in Pieces : map[p] < total /\ map[p] \in Int
      <4>1. Slots \cup {None} \subseteq Int
        BY Sizes DEF Slots, None
      <4>2. QED
        BY <1>0, <4>1 DEF MapBelow, TypeOK
    <3>2. QED
      BY <1>1, <1>2, <2>1, <2>3, <3>1 DEF MapBelow, Fresh, Shut
  <2>7. QED
    BY <1>3, <1>4, <2>4, <2>5, <2>6 DEF Basic
<1>7. QED
  BY <1>5, <1>6

\* The steps outside the three file operations either hand out a slot ...
Allots(i, loc) ==
    /\ w.pc \in {"idle", "scan", "scanned"}
    /\ w.pc = "idle" => NeedsWrite(i)
    /\ w.pc # "idle" => i = w.piece
    /\ Slot(loc) /\ Assign(i, loc) /\ UNCHANGED <<file, dmap, store, inactive, faults, orphans>>

\* ... or leave the file and its maps alone.
Waits ==
    /\ w.pc \in {"idle", "scan", "scanned"} /\ w'.pc \in {"idle", "scan", "scanned"}
    /\ w' \in WriteRec
    /\ w'.pc # "idle" => /\ w'.ok = FALSE
                         /\ w.pc = "idle" => NeedsWrite(w'.piece)
                         /\ w.pc # "idle" => w'.piece = w.piece
    /\ w'.pc = "idle" => w'.ok = FALSE \/ w' = w
    /\ inactive' \in 0 .. MaxInactive /\ inactive' <= inactive
    /\ UNCHANGED <<map, inv, next, total, file, dmap, store, faults, orphans>>

LEMMA Attempts ==
  ASSUME Basic, NEW i \in Pieces, NEW n \in 0 .. 1, Attempt(i, n), UNCHANGED <<file, dmap, store, inactive, faults, orphans>>,
         w.pc \in {"idle", "scan", "scanned"}, w.pc = "idle" => NeedsWrite(i), w.pc # "idle" => i = w.piece
  PROVE  Waits \/ Allots(i, next)
<1>0. TypeOK
  BY DEF Basic
<1>1. CASE Fits
  <2>1. Slot(next)
    BY <1>0, <1>1, NextFits
  <2>2. QED
    BY <1>1, <2>1 DEF Attempt, Allots
<1>2. CASE ~Fits
  <2>1. w' = [At("scan") EXCEPT !.piece = i, !.attempt = n] /\ UNCHANGED <<map, inv, next, total>>
    BY <1>2 DEF Attempt, mem
  <2>2. w' = [pc |-> "scan", piece |-> i, attempt |-> n, rval |-> 0, loc |-> 0, old |-> None, ok |-> FALSE]
    BY <2>1 DEF At
  <2>3. w' \in WriteRec /\ w'.pc = "scan" /\ w'.piece = i /\ w'.ok = FALSE
    BY <2>2 DEF WriteRec, WritePc
  <2>4. inactive \in 0 .. MaxInactive
    BY <1>0 DEF TypeOK
  <2>5. QED
    BY <2>1, <2>3, <2>4, Sizes DEF Waits
<1>3. QED
  BY <1>1, <1>2

LEMMA Outside ==
  ASSUME Basic,
         \/ \E i \in Pieces : WriteBegin(i)
         \/ \E freed, stuck \in 0 .. MaxInactive : Scan(freed, stuck)
         \/ Scanned
         \/ CacheClear
  PROVE  Waits \/ \E i \in Pieces : \E loc : Allots(i, loc)
<1>0. /\ TypeOK /\ WithinLimit /\ WriteSound /\ w \in WriteRec /\ w.piece \in Pieces /\ w.attempt \in 0 .. 1
      /\ inactive \in 0 .. MaxInactive
  BY DEF Basic, TypeOK, WriteRec
<1>1. CASE \E i \in Pieces : WriteBegin(i)
  <2>1. PICK i \in Pieces : WriteBegin(i)
    BY <1>1
  <2>2. Waits \/ Allots(i, next)
    <3>1. /\ w.pc = "idle" /\ NeedsWrite(i) /\ Attempt(i, 0) /\ UNCHANGED <<file, dmap, store, inactive, faults, orphans>>
      BY <2>1 DEF WriteBegin
    <3>2. QED
      BY <3>1, Attempts
  <2>3. QED
    BY <2>2
<1>2. CASE \E freed, stuck \in 0 .. MaxInactive : Scan(freed, stuck)
  <2>1. PICK freed, stuck \in 0 .. MaxInactive : Scan(freed, stuck)
    BY <1>2
  <2>2. PICK r \in 0 .. 1 : w' = [w EXCEPT !.pc = "scanned", !.rval = r]
    <3> DEFINE rv == IF stuck > 0 THEN 1 ELSE 0
    <3>1. rv \in 0 .. 1
      OBVIOUS
    <3>2. w' = [w EXCEPT !.pc = "scanned", !.rval = rv]
      BY <2>1 DEF Scan
    <3> HIDE DEF rv
    <3>3. QED
      BY <3>1, <3>2
  <2>3. w' \in WriteRec /\ w'.pc = "scanned" /\ w'.piece = w.piece /\ w'.ok = w.ok
    BY <1>0, <2>2 DEF WriteRec, WritePc
  <2>4. w.pc = "scan" /\ w.ok = FALSE /\ UNCHANGED <<map, inv, next, total, file, dmap, store, faults, orphans>>
    BY <1>0, <2>1 DEF Scan, WriteSound, mem
  <2>5. inactive' = inactive - freed /\ freed + stuck <= inactive
    BY <2>1 DEF Scan, ScanResult
  <2>6. inactive' \in 0 .. MaxInactive /\ inactive' <= inactive
    BY <1>0, <2>5, Sizes
  <2>7. QED
    BY <2>3, <2>4, <2>6 DEF Waits
<1>3. CASE Scanned
  <2>1. w.pc = "scanned" /\ w.ok = FALSE /\ UNCHANGED <<file, dmap, store, inactive, faults, orphans>>
    BY <1>0, <1>3 DEF Scanned, WriteSound
  <2>2. CASE w.rval = 0
    <3>1. Slot(Restart)
      BY <1>0, RestartFits
    <3>2. Allots(w.piece, Restart)
      BY <1>3, <2>1, <2>2, <3>1 DEF Scanned, Allots
    <3>3. QED
      BY <1>0, <3>2
  <2>3. CASE w.rval # 0 /\ w.attempt = 0
    <3>1. Attempt(w.piece, 1)
      BY <1>3, <2>3 DEF Scanned
    <3>2. Waits \/ Allots(w.piece, next)
      BY <1>0, <2>1, <3>1, Attempts
    <3>3. QED
      BY <1>0, <3>2
  <2>4. CASE w.rval # 0 /\ w.attempt # 0
    <3>1. w' = [w EXCEPT !.pc = "idle"] /\ UNCHANGED <<map, inv, next, total>>
      BY <1>3, <2>4 DEF Scanned, mem
    <3>2. w' \in WriteRec /\ w'.pc = "idle" /\ w'.ok = FALSE
      BY <1>0, <2>1, <3>1 DEF WriteRec, WritePc
    <3>3. QED
      BY <1>0, <2>1, <3>1, <3>2, Sizes DEF Waits
  <2>5. QED
    BY <2>2, <2>3, <2>4
<1>4. CASE CacheClear
  <2>1. /\ w.pc = "idle" /\ w' = w /\ UNCHANGED <<map, inv, next, total, file, dmap, store, faults, orphans>>
    BY <1>4 DEF CacheClear, mem
  <2>2. PICK left \in 0 .. inactive : inactive' = left
    BY <1>4 DEF CacheClear
  <2>3. inactive' \in 0 .. MaxInactive /\ inactive' <= inactive
    BY <1>0, <2>2, Sizes
  <2>4. QED
    BY <1>0, <2>1, <2>3 DEF Waits
<1>5. QED
  BY <1>1, <1>2, <1>3, <1>4

LEMMA WaitsBasic ==
  ASSUME Basic, Waits
  PROVE  Basic'
<1>0. TypeOK /\ InvMap /\ MapBelow /\ FileSound /\ WithinLimit
  BY DEF Basic
<1>1. /\ UNCHANGED <<map, inv, next, total, file, dmap, store, faults, orphans>> /\ inactive' \in 0 .. MaxInactive
      /\ inactive' <= inactive /\ w' \in WriteRec /\ w'.pc \in {"idle", "scan", "scanned"}
      /\ w'.pc # "idle" => w'.ok = FALSE
  BY DEF Waits
<1>2. TypeOK'
  BY <1>0, <1>1 DEF TypeOK
<1>3. WriteSound' /\ Fresh'
  BY <1>1 DEF WriteSound, Writing, Fresh, Shut
<1>4. InvMap' /\ MapBelow'
  BY <1>0, <1>1 DEF InvMap, MapBelow
<1>40. FileSound'
  <2> SUFFICES ASSUME NEW i \in Pieces
               PROVE  /\ file.size <= i => dmap[i] = None
                      /\ dmap[i] <= 0 \/ dmap[i] + 1 + inactive' < Limit
    BY <1>1 DEF FileSound
  <2>1. inactive \in Nat /\ inactive' \in Nat /\ inactive' <= inactive /\ dmap[i] \in Int
    <3>1. Slots \cup {None} \subseteq Int
      BY Sizes DEF Slots, None
    <3>2. QED
      BY <1>0, <1>1, <3>1, Sizes DEF TypeOK
  <2>2. /\ file.size <= i => dmap[i] = None
        /\ dmap[i] <= 0 \/ dmap[i] + 1 + inactive < Limit
    BY <1>0 DEF FileSound
  <2>3. QED
    BY <2>1, <2>2, Sizes
<1>5. WithinLimit'
  <2>1. total \in Nat /\ inactive \in Nat /\ inactive' \in Nat /\ total' = total
    BY <1>0, <1>1, Sizes DEF TypeOK
  <2>2. inactive' <= inactive
    BY <1>1
  <2>3. total <= 1 \/ total + inactive < Limit
    BY <1>0 DEF WithinLimit
  <2>4. \A t, a, b, l \in Nat : b <= a /\ t + a < l => t + b < l
    OBVIOUS
  <2>5. total + inactive < Limit => total + inactive' < Limit
    BY <2>1, <2>2, <2>4, Sizes
  <2>6. QED
    BY <2>1, <2>3, <2>5 DEF WithinLimit
<1>6. QED
  BY <1>2, <1>3, <1>4, <1>40, <1>5 DEF Basic

\* The file operations stay with the piece, its slot and the piece that had it.
SameWrite == w'.piece = w.piece /\ w'.loc = w.loc /\ w'.old = w.old

LEMMA FaultIs ==
  ASSUME TypeOK, NEW failed \in BOOLEAN, Fault(failed)
  PROVE  /\ faults \in Nat /\ faults' \in 0 .. MaxFaults
         /\ failed => faults' = faults + 1
         /\ ~failed => faults' = faults
<1>1. faults \in Nat /\ MaxFaults \in Nat
  BY CacheConstants DEF TypeOK
<1>2. CASE failed
  BY <1>1, <1>2 DEF Fault
<1>3. CASE ~failed
  BY <1>1, <1>3 DEF Fault
<1>4. QED
  BY <1>2, <1>3

LEMMA WriteAt ==
  ASSUME Basic, Writing
  PROVE  /\ w.loc \in Slots /\ w.piece \in Pieces /\ w.old \in Pieces \cup {None} /\ w.loc # None /\ w.piece # None
         /\ map[w.piece] = w.loc /\ inv[w.loc] = w.piece /\ w.loc < total
<1>1. /\ w.loc \in Slots /\ map[w.piece] = w.loc /\ inv[w.loc] = w.piece /\ w.loc < total
  BY DEF Basic, WriteSound
<1>2. w.piece \in Pieces /\ w.old \in Pieces \cup {None}
  BY DEF Basic, TypeOK, WriteRec
<1>3. QED
  BY <1>1, <1>2, Sizes DEF Pieces, Slots, None

LEMMA CreditIs ==
  ASSUME TypeOK
  PROVE  Credit \in Nat /\ faults \in Nat /\ orphans \in Nat
<1>1. faults \in Nat /\ orphans \in Nat
  BY Sizes, CacheConstants DEF TypeOK
<1>2. QED
  BY <1>1 DEF Credit

LEMMA FaultCredit ==
  ASSUME TypeOK, NEW failed \in BOOLEAN, Fault(failed), orphans' = orphans
  PROVE  /\ failed => faults' = faults + 1 /\ Credit' = Credit + 1
         /\ ~failed => faults' = faults /\ Credit' = Credit
         /\ faults' \in 0 .. MaxFaults
<1>1. faults \in Nat /\ orphans \in Nat
  BY CreditIs
<1>2. /\ faults' \in 0 .. MaxFaults
      /\ failed => faults' = faults + 1
      /\ ~failed => faults' = faults
  BY FaultIs
<1>3. Credit' = faults' + orphans /\ Credit = faults + orphans
  BY DEF Credit
<1>4. CASE failed
  BY <1>1, <1>2, <1>3, <1>4
<1>5. CASE ~failed
  BY <1>2, <1>3, <1>5
<1>6. QED
  BY <1>2, <1>4, <1>5

LEMMA EffType ==
  ASSUME TypeOK
  PROVE  /\ Eff \in [Pieces -> Slots \cup {None}]
         /\ file.size = NumPieces => Eff = dmap
<1>1. 0 \in Slots /\ dmap \in [Pieces -> Slots \cup {None}] /\ file.size \in Int
  BY Sizes DEF Slots, TypeOK, FileRec
<1>2. Eff \in [Pieces -> Slots \cup {None}]
  BY <1>1 DEF Eff
<1>3. ASSUME file.size = NumPieces
      PROVE  Eff = dmap
  <2>1. \A i \in Pieces : ~(file.size <= i)
    BY <1>3, Sizes DEF Pieces
  <2>2. \A i \in Pieces : Eff[i] = dmap[i]
    BY <2>1 DEF Eff
  <2>3. QED
    BY <1>1, <1>2, <2>2
<1>4. QED
  BY <1>2, <1>3

\* A file that gets longer, with zeroes in the gap.
LEMMA Lengthened ==
  ASSUME TypeOK, NEW k \in 0 .. NumPieces
  PROVE  /\ Filled(k) \in [Pieces -> Slots \cup {None}]
         /\ Extended(k) \in FileRec /\ Extended(k).head = file.head
         /\ Extended(k).size \in {file.size, k} /\ Extended(k).size >= file.size /\ Extended(k).size >= k
         /\ \A i \in Pieces : /\ (IF Extended(k).size <= i THEN 0 ELSE Filled(k)[i]) = Eff[i]
                              /\ Filled(k)[i] \in {0, dmap[i]}
                              /\ Extended(k).size <= i => Filled(k)[i] = dmap[i] /\ file.size <= i
<1>1. /\ 0 \in Slots /\ dmap \in [Pieces -> Slots \cup {None}] /\ file \in FileRec /\ file.size \in 0 .. NumPieces
      /\ file.size \in Int /\ k \in Int /\ NumPieces \in Nat
  BY Sizes DEF Slots, TypeOK, FileRec
<1>2. /\ Max({file.size, k}) \in {file.size, k} /\ Max({file.size, k}) >= file.size /\ Max({file.size, k}) >= k
  BY <1>1, MaxTwo
<1>3. /\ Extended(k) \in FileRec /\ Extended(k).head = file.head /\ Extended(k).size = Max({file.size, k})
  <2>1. Max({file.size, k}) \in 0 .. NumPieces
    BY <1>1, <1>2
  <2>2. QED
    BY <1>1, <2>1 DEF Extended, FileRec
<1>4. Filled(k) \in [Pieces -> Slots \cup {None}]
  BY <1>1 DEF Filled
<1>5. ASSUME NEW i \in Pieces
      PROVE  /\ (IF Extended(k).size <= i THEN 0 ELSE Filled(k)[i]) = Eff[i]
             /\ Filled(k)[i] \in {0, dmap[i]}
             /\ Extended(k).size <= i => Filled(k)[i] = dmap[i] /\ file.size <= i
  <2> DEFINE m == Max({file.size, k})
  <2>1. i \in Int /\ m \in Int /\ m >= file.size /\ m >= k /\ m \in {file.size, k} /\ Extended(k).size = m
    BY <1>1, <1>2, <1>3, Sizes DEF Pieces
  <2>2. /\ Filled(k)[i] = IF file.size <= i /\ i < k THEN 0 ELSE dmap[i]
        /\ Eff[i] = IF file.size <= i THEN 0 ELSE dmap[i]
    BY DEF Filled, Eff
  <2> HIDE DEF m
  <2>3. m <= i => file.size <= i /\ ~(i < k)
    BY <1>1, <2>1
  <2>4. ~(m <= i) => ~(file.size <= i) \/ (file.size <= i /\ i < k)
    BY <1>1, <2>1
  <2>5. QED
    BY <2>1, <2>2, <2>3, <2>4
<1>6. QED
  BY <1>2, <1>3, <1>4, <1>5

LEMMA DataIs ==
  ASSUME Basic, NEW ok \in BOOLEAN, WriteData(ok)
  PROVE  /\ Writing /\ w.pc = "data" /\ SameWrite /\ w' \in WriteRec /\ w'.ok = FALSE
         /\ ok => w'.pc = "map" /\ store'[w.loc] = w.piece /\ faults' = faults /\ Credit' = Credit
                  /\ file'.size = NumPieces
         /\ ~ok => w'.pc = "clear" /\ faults' = faults + 1 /\ Credit' = Credit + 1
         /\ store' \in [Slots -> Pieces \cup {None}] /\ faults' \in 0 .. MaxFaults
         /\ \A s \in Slots : s # w.loc => store'[s] = store[s]
         /\ file' \in FileRec /\ dmap' \in [Pieces -> Slots \cup {None}] /\ FileSound'
         /\ file.size = NumPieces => file'.size = NumPieces
         /\ UNCHANGED <<map, inv, next, total, Eff, inactive, orphans>>
<1>0. TypeOK /\ WriteSound /\ FileSound /\ w.pc = "data" /\ Writing /\ w \in WriteRec /\ Fault(~ok)
  BY DEF Basic, TypeOK, WriteData, Writing
<1>1. w.loc \in Slots /\ w.piece \in Pieces
  BY <1>0, WriteAt
<1>8. UNCHANGED <<map, inv, next, total, inactive, orphans>>
  BY DEF WriteData, mem
<1>2. /\ ok => faults' = faults /\ Credit' = Credit
      /\ ~ok => faults' = faults + 1 /\ Credit' = Credit + 1
      /\ faults' \in 0 .. MaxFaults
  BY <1>0, <1>8, FaultCredit
<1>4. store \in [Slots -> Pieces \cup {None}] /\ dmap \in [Pieces -> Slots \cup {None}] /\ file \in FileRec
  BY <1>0 DEF TypeOK
<1>6. w.ok = FALSE
  BY <1>0 DEF WriteSound
<1>7. /\ SameWrite /\ w' \in WriteRec /\ w'.ok = FALSE
      /\ ok => w'.pc = "map"
      /\ ~ok => w'.pc = "clear"
  <2>1. CASE ok
    <3>1. w' = [w EXCEPT !.pc = "map"]
      BY <2>1 DEF WriteData
    <3>2. QED
      BY <1>0, <1>6, <2>1, <3>1 DEF WriteRec, WritePc, SameWrite
  <2>2. CASE ~ok
    <3>1. w' = [w EXCEPT !.pc = "clear"]
      BY <2>2 DEF WriteData
    <3>2. QED
      BY <1>0, <1>6, <2>2, <3>1 DEF WriteRec, WritePc, SameWrite
  <2>3. QED
    BY <2>1, <2>2
<1>9. CASE ~ok /\ UNCHANGED <<store, dmap, file>>
  <2>1. Eff' = Eff
    BY <1>9 DEF Eff
  <2>2. FileSound'
    BY <1>0, <1>8, <1>9 DEF FileSound
  <2>3. QED
    BY <1>0, <1>2, <1>4, <1>7, <1>8, <1>9, <2>1, <2>2
<1>10. CASE /\ store' = [store EXCEPT ![w.loc] = IF ok THEN w.piece ELSE None]
            /\ dmap' = Filled(NumPieces) /\ file' = Extended(NumPieces)
  <2>1. NumPieces \in 0 .. NumPieces
    BY Sizes
  <2>2. /\ dmap' \in [Pieces -> Slots \cup {None}]
        /\ file' \in FileRec /\ file'.size \in {file.size, NumPieces} /\ file'.size >= NumPieces
        /\ \A i \in Pieces : /\ (IF file'.size <= i THEN 0 ELSE dmap'[i]) = Eff[i]
                             /\ dmap'[i] \in {0, dmap[i]}
                             /\ file'.size <= i => dmap'[i] = dmap[i] /\ file.size <= i
    BY <1>0, <1>10, <2>1, Lengthened
  <2>3. file'.size = NumPieces
    BY <2>2, Sizes DEF FileRec
  <2>4. Eff' = Eff
    BY <2>2 DEF Eff
  <2>5. FileSound'
    <3> SUFFICES ASSUME NEW i \in Pieces
                 PROVE  /\ file'.size <= i => dmap'[i] = None
                        /\ dmap'[i] <= 0 \/ dmap'[i] + 1 + inactive < Limit
      BY <1>8 DEF FileSound
    <3>1. /\ file.size <= i => dmap[i] = None
          /\ dmap[i] <= 0 \/ dmap[i] + 1 + inactive < Limit
      BY <1>0 DEF FileSound
    <3>2. QED
      BY <2>2, <3>1
  <2>6. /\ store' \in [Slots -> Pieces \cup {None}] /\ (ok => store'[w.loc] = w.piece)
        /\ \A s \in Slots : s # w.loc => store'[s] = store[s]
    BY <1>1, <1>4, <1>10
  <2>7. QED
    BY <1>0, <1>2, <1>7, <1>8, <2>2, <2>3, <2>4, <2>5, <2>6
<1>11. QED
  BY <1>9, <1>10 DEF WriteData

LEMMA MapIs ==
  ASSUME Basic, NEW ok \in BOOLEAN, WriteMap(ok)
  PROVE  /\ Writing /\ w.pc = "map" /\ SameWrite /\ w' \in WriteRec /\ w'.pc = "clear" /\ w'.ok = ok
         /\ ok => Eff'[w.piece] = w.loc /\ faults' = faults /\ Credit' = Credit
         /\ ~ok => Eff' = Eff /\ faults' = faults + 1 /\ Credit' = Credit + 1
         /\ dmap' \in [Pieces -> Slots \cup {None}] /\ faults' \in 0 .. MaxFaults
         /\ \A i \in Pieces : i # w.piece => Eff'[i] = Eff[i]
         /\ FileSound'
         /\ UNCHANGED <<map, inv, next, total, file, store, inactive, orphans>>
<1>0. /\ TypeOK /\ WithinLimit /\ FileSound /\ w.pc = "map" /\ Writing /\ w \in WriteRec /\ Fault(~ok)
      /\ file.size = NumPieces
  BY DEF Basic, TypeOK, WriteMap, Writing, WriteSound
<1>1. w.loc \in Slots /\ w.piece \in Pieces /\ w.loc < total
  BY <1>0, WriteAt
<1>5. w' = [w EXCEPT !.pc = "clear", !.ok = ok] /\ UNCHANGED <<map, inv, next, total, file, store, inactive, orphans>>
  BY DEF WriteMap, mem
<1>2. /\ ok => faults' = faults /\ Credit' = Credit
      /\ ~ok => faults' = faults + 1 /\ Credit' = Credit + 1
      /\ faults' \in 0 .. MaxFaults
  BY <1>0, <1>5, FaultCredit
<1>3. dmap \in [Pieces -> Slots \cup {None}]
  BY <1>0 DEF TypeOK
<1>4. dmap' = IF ok THEN [dmap EXCEPT ![w.piece] = w.loc] ELSE dmap
  BY DEF WriteMap
<1>6. SameWrite /\ w' \in WriteRec /\ w'.pc = "clear" /\ w'.ok = ok
  BY <1>0, <1>5 DEF WriteRec, WritePc, SameWrite
<1>7. /\ ok => dmap'[w.piece] = w.loc
      /\ \A i \in Pieces : i # w.piece => dmap'[i] = dmap[i]
      /\ dmap' \in [Pieces -> Slots \cup {None}]
  BY <1>1, <1>3, <1>4
<1>8. \A i \in Pieces : ~(NumPieces <= i)
  BY Sizes DEF Pieces
<1>9. \A i \in Pieces : Eff[i] = dmap[i] /\ Eff'[i] = dmap'[i]
  BY <1>0, <1>5, <1>8 DEF Eff
<1>10. ~ok => Eff' = Eff
  BY <1>4, <1>5 DEF Eff
<1>11. FileSound'
  <2> SUFFICES ASSUME NEW i \in Pieces
               PROVE  dmap'[i] <= 0 \/ dmap'[i] + 1 + inactive < Limit
    BY <1>0, <1>5, <1>8 DEF FileSound
  <2>1. dmap[i] <= 0 \/ dmap[i] + 1 + inactive < Limit
    BY <1>0 DEF FileSound
  <2>2. w.loc <= 0 \/ w.loc + 1 + inactive < Limit
    <3>1. w.loc \in Nat /\ total \in Nat /\ inactive \in Nat /\ w.loc < total
      BY <1>0, <1>1, Sizes DEF TypeOK, Slots
    <3>2. total <= 1 \/ total + inactive < Limit
      BY <1>0 DEF WithinLimit
    <3>3. QED
      BY <3>1, <3>2, Sizes
  <2>3. CASE i = w.piece
    BY <1>1, <1>3, <1>4, <2>1, <2>2, <2>3
  <2>4. CASE i # w.piece
    BY <1>7, <2>1, <2>4
  <2>5. QED
    BY <2>3, <2>4
<1>12. QED
  BY <1>0, <1>1, <1>2, <1>5, <1>6, <1>7, <1>9, <1>10, <1>11

LEMMA ClearIs ==
  ASSUME Basic, NEW ok \in BOOLEAN, ClearOld(ok)
  PROVE  /\ Writing /\ w.pc = "clear" /\ SameWrite /\ w' \in WriteRec /\ w'.pc = "idle" /\ w'.ok = w.ok
         /\ ok => faults' = faults /\ Credit' = Credit /\ (w.old # None => Eff'[w.old] = None)
         /\ ~ok => Eff' = Eff /\ faults' = faults + 1 /\ Credit' = Credit + 1
         /\ dmap' \in [Pieces -> Slots \cup {None}] /\ faults' \in 0 .. MaxFaults
         /\ \A i \in Pieces : i # w.old => Eff'[i] = Eff[i]
         /\ file' \in FileRec /\ FileSound'
         /\ file.size = NumPieces => file'.size = NumPieces
         /\ UNCHANGED <<map, inv, next, total, store, inactive, orphans>>
<1>0. TypeOK /\ FileSound /\ w.pc = "clear" /\ Writing /\ w \in WriteRec /\ Fault(~ok)
  BY DEF Basic, TypeOK, ClearOld, Writing
<1>1. w.old \in Pieces \cup {None}
  BY <1>0, WriteAt
<1>5. w' = [w EXCEPT !.pc = "idle"] /\ UNCHANGED <<map, inv, next, total, store, inactive, orphans>>
  BY DEF ClearOld, mem
<1>2. /\ ok => faults' = faults /\ Credit' = Credit
      /\ ~ok => faults' = faults + 1 /\ Credit' = Credit + 1
      /\ faults' \in 0 .. MaxFaults
  BY <1>0, <1>5, FaultCredit
<1>3. dmap \in [Pieces -> Slots \cup {None}] /\ file \in FileRec
  BY <1>0 DEF TypeOK
<1>6. SameWrite /\ w' \in WriteRec /\ w'.pc = "idle" /\ w'.ok = w.ok
  BY <1>0, <1>5 DEF WriteRec, WritePc, SameWrite
<1>7. CASE ~(ok /\ w.old # None)
  <2>1. UNCHANGED <<dmap, file>>
    BY <1>7 DEF ClearOld
  <2>2. Eff' = Eff
    BY <2>1 DEF Eff
  <2>3. FileSound'
    BY <1>0, <1>5, <2>1 DEF FileSound
  <2>4. QED
    BY <1>0, <1>2, <1>3, <1>5, <1>6, <1>7, <2>1, <2>2, <2>3
<1>8. CASE ok /\ w.old # None
  <2> DEFINE k == w.old + 1
  <2>1. w.old \in Pieces /\ k \in 0 .. NumPieces /\ w.old \in Int /\ k \in Int
    BY <1>1, <1>8, Sizes DEF Pieces
  <2>2. dmap' = [Filled(k) EXCEPT ![w.old] = None] /\ file' = Extended(k)
    BY <1>8 DEF ClearOld
  <2>12. /\ Filled(k) \in [Pieces -> Slots \cup {None}]
        /\ file' \in FileRec /\ file'.size \in {file.size, k} /\ file'.size >= k /\ file'.size >= file.size
        /\ \A i \in Pieces : /\ (IF file'.size <= i THEN 0 ELSE Filled(k)[i]) = Eff[i]
                             /\ Filled(k)[i] \in {0, dmap[i]}
                             /\ file'.size <= i => Filled(k)[i] = dmap[i] /\ file.size <= i
    <3> HIDE DEF k
    <3>1. QED
      BY <1>0, <2>1, <2>2, Lengthened
  <2>3. ~(file'.size <= w.old) /\ (file.size = NumPieces => file'.size = NumPieces)
    <3>1. file.size \in Nat /\ file'.size \in Nat /\ file'.size <= NumPieces
      BY <1>3, <2>12, Sizes DEF FileRec
    <3>2. QED
      BY <2>1, <2>12, <3>1, Sizes
  <2> DEFINE F == Filled(k)
  <2>4. F \in [Pieces -> Slots \cup {None}] /\ dmap' = [F EXCEPT ![w.old] = None]
    BY <2>2, <2>12
  <2>5. \A i \in Pieces : /\ (IF file'.size <= i THEN 0 ELSE F[i]) = Eff[i]
                          /\ F[i] \in {0, dmap[i]}
                          /\ file'.size <= i => F[i] = dmap[i] /\ file.size <= i
    BY <2>12
  <2> HIDE DEF F, k
  <2>6. dmap' \in [Pieces -> Slots \cup {None}] /\ dmap'[w.old] = None /\ \A i \in Pieces : i # w.old => dmap'[i] = F[i]
    BY <2>1, <2>4
  <2>7. Eff'[w.old] = None /\ \A i \in Pieces : i # w.old => Eff'[i] = Eff[i]
    <3>1. \A i \in Pieces : Eff'[i] = IF file'.size <= i THEN 0 ELSE dmap'[i]
      BY DEF Eff
    <3>2. QED
      BY <2>1, <2>3, <2>5, <2>6, <3>1
  <2>8. FileSound'
    <3> SUFFICES ASSUME NEW i \in Pieces
                 PROVE  /\ file'.size <= i => dmap'[i] = None
                        /\ dmap'[i] <= 0 \/ dmap'[i] + 1 + inactive < Limit
      BY <1>5 DEF FileSound
    <3>1. /\ file.size <= i => dmap[i] = None
          /\ dmap[i] <= 0 \/ dmap[i] + 1 + inactive < Limit
      BY <1>0 DEF FileSound
    <3>2. CASE i = w.old
      BY <2>6, <3>2 DEF None
    <3>3. CASE i # w.old
      BY <2>5, <2>6, <3>1, <3>3
    <3>4. QED
      BY <3>2, <3>3
  <2>9. QED
    BY <1>0, <1>2, <1>5, <1>6, <1>8, <2>3, <2>12, <2>6, <2>7, <2>8
<1>9. QED
  BY <1>7, <1>8

\* The file operations, one by one.
LEMMA FileBasic ==
  ASSUME Basic, NEW ok \in BOOLEAN, WriteData(ok) \/ WriteMap(ok) \/ ClearOld(ok)
  PROVE  Basic'
<1>0. TypeOK /\ WriteSound /\ InvMap /\ MapBelow /\ WithinLimit
  BY DEF Basic
<1>1. CASE WriteData(ok)
  <2>1. /\ Writing /\ SameWrite /\ w' \in WriteRec /\ w'.ok = FALSE
        /\ ok => w'.pc = "map" /\ store'[w.loc] = w.piece /\ file'.size = NumPieces
        /\ ~ok => w'.pc = "clear"
        /\ store' \in [Slots -> Pieces \cup {None}] /\ faults' \in 0 .. MaxFaults
        /\ file' \in FileRec /\ dmap' \in [Pieces -> Slots \cup {None}] /\ FileSound'
        /\ UNCHANGED <<map, inv, next, total, inactive, orphans>>
    BY <1>1, DataIs
  <2>2. TypeOK'
    BY <1>0, <2>1 DEF TypeOK
  <2>3. WriteSound' /\ Fresh'
    BY <1>0, <2>1 DEF WriteSound, Writing, SameWrite, Fresh, Shut
  <2>4. InvMap' /\ MapBelow' /\ WithinLimit'
    BY <1>0, <2>1 DEF InvMap, MapBelow, WithinLimit
  <2>5. QED
    BY <2>1, <2>2, <2>3, <2>4 DEF Basic
<1>2. CASE WriteMap(ok)
  <2>1. /\ Writing /\ SameWrite /\ w' \in WriteRec /\ w'.pc = "clear"
        /\ dmap' \in [Pieces -> Slots \cup {None}] /\ faults' \in 0 .. MaxFaults
        /\ FileSound'
        /\ UNCHANGED <<map, inv, next, total, file, store, inactive, orphans>>
    BY <1>2, MapIs
  <2>2. TypeOK'
    BY <1>0, <2>1 DEF TypeOK
  <2>3. WriteSound' /\ Fresh'
    BY <1>0, <2>1 DEF WriteSound, Writing, SameWrite, Fresh, Shut
  <2>4. InvMap' /\ MapBelow' /\ WithinLimit'
    BY <1>0, <2>1 DEF InvMap, MapBelow, WithinLimit
  <2>5. QED
    BY <2>1, <2>2, <2>3, <2>4 DEF Basic
<1>3. CASE ClearOld(ok)
  <2>1. /\ w' \in WriteRec /\ w'.pc = "idle"
        /\ dmap' \in [Pieces -> Slots \cup {None}] /\ faults' \in 0 .. MaxFaults
        /\ file' \in FileRec /\ FileSound'
        /\ UNCHANGED <<map, inv, next, total, store, inactive, orphans>>
    BY <1>3, ClearIs
  <2>2. TypeOK'
    BY <1>0, <2>1 DEF TypeOK
  <2>3. WriteSound' /\ Fresh'
    BY <2>1 DEF WriteSound, Writing, Fresh, Shut
  <2>4. InvMap' /\ MapBelow' /\ WithinLimit'
    BY <1>0, <2>1 DEF InvMap, MapBelow, WithinLimit
  <2>5. QED
    BY <2>1, <2>2, <2>3, <2>4 DEF Basic
<1>4. QED
  BY <1>1, <1>2, <1>3

\* torrent_diskio_verify finds the map of the file, and an inverse that belongs to it.
LEMMA WholeIs ==
  ASSUME Basic, OpenWhole
  PROVE  /\ w.pc = "closed" /\ file.head /\ file.size = NumPieces
         /\ map' = dmap /\ Eff = dmap /\ Eff' = dmap /\ w' = At("idle")
         /\ inv' \in [Slots -> Pieces \cup {None}]
         /\ \A s \in Slots : inv'[s] # None => inv'[s] \in Pieces /\ dmap[inv'[s]] = s
         /\ \A i \in Pieces : dmap[i] # None => inv'[dmap[i]] # None
         /\ next' = total' /\ total' \in Nat
         /\ total' = 0 \/ \E i \in Pieces : dmap[i] = total' - 1
         /\ \A i \in Pieces : dmap[i] < total'
         /\ UNCHANGED <<file, dmap, store, inactive, faults, orphans>>
<1>0. TypeOK /\ dmap \in [Pieces -> Slots \cup {None}]
  BY DEF Basic, TypeOK
<1>1. \A i \in Pieces : dmap[i] \in Int /\ dmap[i] <= NumPieces
  <2>1. \A x \in Slots \cup {None} : x \in Int /\ x <= NumPieces
    BY Sizes DEF Slots, None
  <2>2. QED
    BY <1>0, <2>1
<1>2. Verified = dmap
  <2>1. None \notin Slots
    BY Sizes DEF Slots, None
  <2>2. \A i \in Pieces : Verified[i] = dmap[i]
    BY <1>0, <2>1 DEF Verified
  <2>3. QED
    BY <1>0, <2>2 DEF Verified
<1>3. /\ w.pc = "closed" /\ file.head /\ file.size = NumPieces
      /\ map' = dmap /\ w' = At("idle") /\ UNCHANGED <<file, dmap, store, inactive, faults, orphans>>
      /\ next' = NextFree /\ total' = NextFree
      /\ inv' = [s \in Slots |-> Max({i \in Pieces : dmap[i] = s} \cup {None})]
  BY <1>2 DEF OpenWhole
<1>4. Eff = dmap /\ Eff' = dmap
  <2>1. Eff = dmap
    BY <1>0, <1>3, EffType
  <2>2. Eff' = Eff
    BY <1>3 DEF Eff
  <2>3. QED
    BY <2>1, <2>2
<1>5. /\ total' \in Nat /\ \A i \in Pieces : dmap[i] < total'
      /\ total' = 0 \/ \E i \in Pieces : dmap[i] = total' - 1
  <2> DEFINE S == {dmap[i] : i \in Pieces} \cup {None}
  <2>1. S \subseteq Int /\ S # {} /\ None \in S /\ None \in Int
    BY <1>1 DEF None
  <2>2. \A y \in S : y <= NumPieces
    BY <1>1, Sizes DEF None
  <2>3. /\ \A i \in Pieces : dmap[i] \in S
        /\ \A y \in S : y = None \/ \E i \in Pieces : dmap[i] = y
    OBVIOUS
  <2>4. total' = Max(S) + 1
    BY <1>2, <1>3 DEF NextFree
  <2> HIDE DEF S
  <2>5. Max(S) \in S /\ \A y \in S : Max(S) >= y
    <3>1. NumPieces \in Int
      BY Sizes
    <3>2. QED
      BY <2>1, <2>2, <3>1, MaxBelow
  <2> DEFINE m == Max(S)
  <2>6. m \in Int /\ m >= -1
    BY <2>1, <2>5 DEF None
  <2>7. \A i \in Pieces : m >= dmap[i]
    BY <2>3, <2>5
  <2>8. total' = m + 1 /\ (m = -1 \/ \E i \in Pieces : dmap[i] = m)
    BY <2>3, <2>4, <2>5 DEF None
  <2> HIDE DEF m
  <2>9. total' \in Nat /\ total' - 1 = m /\ (m = -1 => total' = 0)
    BY <2>6, <2>8
  <2>10. QED
    BY <1>1, <2>6, <2>7, <2>8, <2>9
<1>6. ASSUME NEW s \in Slots
      PROVE  /\ inv'[s] \in Pieces \cup {None}
             /\ inv'[s] # None => dmap[inv'[s]] = s
             /\ \A i \in Pieces : dmap[i] = s => inv'[s] # None
  <2> DEFINE S == {i \in Pieces : dmap[i] = s} \cup {None}
  <2>1. S \subseteq Int /\ S # {} /\ \A y \in S : y <= NumPieces
    BY Sizes DEF Pieces, None
  <2>2. inv'[s] = Max(S)
    BY <1>3
  <2>3. /\ \A y \in S : y \in Pieces \cup {None} /\ (y # None => dmap[y] = s)
        /\ \A i \in Pieces : dmap[i] = s => i \in S
    OBVIOUS
  <2> HIDE DEF S
  <2>4. Max(S) \in S /\ \A y \in S : Max(S) >= y
    <3>1. NumPieces \in Int
      BY Sizes
    <3>2. QED
      BY <2>1, <3>1, MaxBelow
  <2>5. \A i \in Pieces : i >= 0 /\ i \in Int
    BY Sizes DEF Pieces
  <2>6. ASSUME NEW i \in Pieces, dmap[i] = s
        PROVE  inv'[s] # None
    <3>1. Max(S) >= i
      BY <2>3, <2>4, <2>6
    <3>2. QED
      BY <2>2, <2>5, <3>1 DEF None
  <2>7. QED
    BY <2>2, <2>3, <2>4, <2>6
<1>7. inv' \in [Slots -> Pieces \cup {None}]
  BY <1>3, <1>6
<1>8. \A s \in Slots : inv'[s] # None => inv'[s] \in Pieces /\ dmap[inv'[s]] = s
  BY <1>6
<1>9. \A i \in Pieces : dmap[i] # None => inv'[dmap[i]] # None
  BY <1>0, <1>6
<1>10. QED
  BY <1>3, <1>4, <1>5, <1>7, <1>8, <1>9

LEMMA WholeBasic ==
  ASSUME Basic, OpenWhole
  PROVE  Basic'
<1>0. TypeOK /\ FileSound
  BY DEF Basic
<1>1. /\ map' = dmap /\ w' = At("idle") /\ inv' \in [Slots -> Pieces \cup {None}]
      /\ \A s \in Slots : inv'[s] # None => inv'[s] \in Pieces /\ dmap[inv'[s]] = s
      /\ next' = total' /\ total' \in Nat
      /\ total' = 0 \/ \E i \in Pieces : dmap[i] = total' - 1
      /\ \A i \in Pieces : dmap[i] < total'
      /\ UNCHANGED <<file, dmap, store, inactive, faults, orphans>>
  BY WholeIs
<1>2. w' \in WriteRec /\ w'.pc = "idle" /\ w'.ok = FALSE
  BY <1>1, AtIs DEF WritePc
<1>3. TypeOK'
  BY <1>0, <1>1, <1>2 DEF TypeOK
<1>4. WriteSound' /\ Fresh'
  BY <1>1, <1>2 DEF WriteSound, Writing, Fresh, Shut
<1>5. InvMap' /\ MapBelow'
  BY <1>1 DEF InvMap, MapBelow
<1>6. FileSound'
  BY <1>0, <1>1 DEF FileSound
<1>7. WithinLimit'
  <2>1. inactive \in Nat /\ total' \in Nat /\ inactive' = inactive
    BY <1>0, <1>1, Sizes DEF TypeOK
  <2>2. CASE total' = 0
    BY <2>2 DEF WithinLimit
  <2>3. CASE total' # 0
    <3>1. PICK i \in Pieces : dmap[i] = total' - 1
      BY <1>1, <2>3
    <3>2. dmap[i] <= 0 \/ dmap[i] + 1 + inactive < Limit
      BY <1>0 DEF FileSound
    <3>21. \A t, u, l \in Nat : (t - 1 <= 0 \/ (t - 1) + 1 + u < l) => t <= 1 \/ t + u < l
      OBVIOUS
    <3>22. total' - 1 <= 0 \/ (total' - 1) + 1 + inactive < Limit
      BY <3>1, <3>2
    <3>3. total' <= 1 \/ total' + inactive < Limit
      BY <2>1, <3>21, <3>22, Sizes
    <3>4. QED
      BY <2>1, <3>3 DEF WithinLimit
  <2>4. QED
    BY <2>2, <2>3
<1>8. QED
  BY <1>3, <1>4, <1>5, <1>6, <1>7 DEF Basic

\* The other ways to open the file, and the steps that make a new one.
Opens(ok) == OpenShort(ok) \/ OpenNew(ok) \/ CreateHead(ok) \/ CreateMap(ok) \/ (OpenFails /\ ~ok)

LEMMA OpensIs ==
  ASSUME Basic, NEW ok \in BOOLEAN, Opens(ok)
  PROVE  /\ Shut /\ Fault(~ok) /\ w' \in WriteRec /\ w'.ok = FALSE
         /\ w'.pc \in {"head", "init", "nocache", "idle"} /\ w'.pc # w.pc
         /\ file' \in FileRec /\ dmap' \in [Pieces -> Slots \cup {None}] /\ FileSound'
         /\ orphans' \in 0 .. NumPieces
         /\ \A i \in Pieces : dmap'[i] \in {None, dmap[i]}
         /\ ok /\ w'.pc = "idle" => /\ OpenShort(ok) => file.head /\ file.size < NumPieces
                                    /\ ~OpenShort(ok) => /\ file'.size = NumPieces /\ w.pc = "init"
                                                         /\ \A i \in Pieces : dmap'[i] = None
         /\ ~ok => w'.pc \in {"head", "nocache"} \/ OpenShort(ok)
         /\ ok => w'.pc # "nocache"
         /\ UNCHANGED <<map, inv, next, total, store, inactive>>
<1>0. TypeOK /\ FileSound /\ file \in FileRec /\ dmap \in [Pieces -> Slots \cup {None}]
      /\ orphans \in 0 .. NumPieces
  BY DEF Basic, TypeOK
<1>1. Fault(~ok) /\ UNCHANGED <<map, inv, next, total, store, inactive>>
  BY DEF Opens, OpenShort, OpenNew, CreateHead, CreateMap, OpenFails, mem
<1>2. CASE OpenShort(ok)
  <2> DEFINE U == {i \in Pieces : file.size <= i \/ dmap[i] # None}
  <2>1. /\ w.pc = "closed" /\ w' = At("idle") /\ UNCHANGED <<file, dmap>> /\ orphans' = Cardinality(U)
        /\ file.head /\ (ok => file.size < NumPieces)
    BY <1>2 DEF OpenShort
  <2>2. w' \in WriteRec /\ w'.pc = "idle" /\ w'.ok = FALSE
    BY <2>1, AtIs DEF WritePc
  <2>3. Cardinality(U) \in 0 .. NumPieces
    <3>1. IsFiniteSet(Pieces) /\ Cardinality(Pieces) = NumPieces
      <4>1. IsFiniteSet(0 .. NumPieces - 1) /\ Cardinality(0 .. NumPieces - 1) =
                IF 0 > NumPieces - 1 THEN 0 ELSE (NumPieces - 1) - 0 + 1
        BY Sizes, FS_Interval
      <4>2. QED
        BY <4>1, Sizes DEF Pieces
    <3>2. U \subseteq Pieces
      OBVIOUS
    <3> HIDE DEF U
    <3>3. IsFiniteSet(U) /\ Cardinality(U) <= NumPieces /\ Cardinality(U) \in Nat
      BY <3>1, <3>2, FS_Subset, FS_CardinalityType
    <3>4. QED
      BY <3>3, Sizes
  <2>4. FileSound'
    BY <1>0, <1>1, <2>1 DEF FileSound
  <2> HIDE DEF U
  <2>5. QED
    BY <1>0, <1>1, <1>2, <2>1, <2>2, <2>3, <2>4 DEF Shut
<1>3. CASE ~OpenShort(ok) /\ (OpenNew(ok) \/ (OpenFails /\ ~ok))
  <2>1. /\ w.pc = "closed" /\ w' \in {At("head"), At("nocache")} /\ UNCHANGED <<file, dmap, orphans>>
        /\ ok => w' = At("head")
    BY <1>3 DEF OpenNew, OpenFails
  <2>2. w' \in WriteRec /\ w'.pc \in {"head", "nocache"} /\ w'.ok = FALSE /\ (ok => w'.pc = "head")
    BY <2>1, AtIs DEF WritePc
  <2>3. FileSound'
    BY <1>0, <1>1, <2>1 DEF FileSound
  <2>4. QED
    BY <1>0, <1>1, <1>3, <2>1, <2>2, <2>3 DEF Shut
<1>4. CASE ~OpenShort(ok) /\ CreateHead(ok)
  <2>1. /\ w.pc = "head" /\ UNCHANGED <<dmap, orphans>> /\ file' = [file EXCEPT !.head = @ \/ ok]
        /\ w' = At(IF ok THEN "init" ELSE "nocache")
    BY <1>4 DEF CreateHead
  <2>2. w' \in WriteRec /\ w'.pc = (IF ok THEN "init" ELSE "nocache") /\ w'.ok = FALSE
    BY <2>1, AtIs DEF WritePc
  <2>3. file' \in FileRec /\ file'.size = file.size
    BY <1>0, <2>1 DEF FileRec
  <2>4. FileSound'
    BY <1>0, <1>1, <2>1, <2>3 DEF FileSound
  <2>5. QED
    BY <1>0, <1>1, <1>4, <2>1, <2>2, <2>3, <2>4 DEF Shut
<1>5. CASE ~OpenShort(ok) /\ CreateMap(ok)
  <2>1. /\ w.pc = "init" /\ UNCHANGED orphans /\ w' = At(IF ok THEN "idle" ELSE "nocache")
    BY <1>5 DEF CreateMap
  <2>2. PICK k \in 0 .. NumPieces : /\ ok <=> k = NumPieces
                                    /\ dmap' = [i \in Pieces |-> IF i < k THEN None ELSE dmap[i]]
                                    /\ file' = Extended(k)
    BY <1>5 DEF CreateMap
  <2>3. /\ file' \in FileRec /\ file'.size \in {file.size, k} /\ file'.size >= file.size /\ file'.size >= k
    BY <1>0, <2>2, Lengthened
  <2>4. w' \in WriteRec /\ w'.pc = (IF ok THEN "idle" ELSE "nocache") /\ w'.ok = FALSE
    BY <2>1, AtIs DEF WritePc
  <2>5. /\ dmap' \in [Pieces -> Slots \cup {None}]
        /\ \A i \in Pieces : dmap'[i] \in {None, dmap[i]} /\ (i < k => dmap'[i] = None)
    BY <1>0, <2>2
  <2>6. FileSound'
    <3> SUFFICES ASSUME NEW i \in Pieces
                 PROVE  /\ file'.size <= i => dmap'[i] = None
                        /\ dmap'[i] <= 0 \/ dmap'[i] + 1 + inactive < Limit
      BY <1>1 DEF FileSound
    <3>1. /\ file.size <= i => dmap[i] = None
          /\ dmap[i] <= 0 \/ dmap[i] + 1 + inactive < Limit
      BY <1>0 DEF FileSound
    <3>2. file'.size <= i => file.size <= i
      BY <1>0, <2>3, Sizes DEF FileRec, Pieces
    <3>3. QED
      BY <2>5, <3>1, <3>2 DEF None
  <2>7. ok => file'.size = NumPieces /\ \A i \in Pieces : dmap'[i] = None
    <3> SUFFICES ASSUME ok
                 PROVE  file'.size = NumPieces /\ \A i \in Pieces : dmap'[i] = None
      OBVIOUS
    <3>1. k = NumPieces
      BY <2>2
    <3>2. file'.size = NumPieces
      BY <2>3, <3>1, Sizes DEF FileRec
    <3>3. \A i \in Pieces : i < k
      BY <3>1, Sizes DEF Pieces
    <3>4. QED
      BY <2>5, <3>2, <3>3
  <2>8. QED
    BY <1>0, <1>1, <1>5, <2>1, <2>3, <2>4, <2>5, <2>6, <2>7 DEF Shut
<1>6. QED
  BY <1>2, <1>3, <1>4, <1>5 DEF Opens

LEMMA OpensBasic ==
  ASSUME Basic, NEW ok \in BOOLEAN, Opens(ok)
  PROVE  Basic'
<1>0. TypeOK /\ InvMap /\ MapBelow /\ Fresh /\ WithinLimit
  BY DEF Basic
<1>1. /\ Shut /\ Fault(~ok) /\ w' \in WriteRec /\ w'.ok = FALSE
      /\ w'.pc \in {"head", "init", "nocache", "idle"}
      /\ file' \in FileRec /\ dmap' \in [Pieces -> Slots \cup {None}] /\ FileSound'
      /\ orphans' \in 0 .. NumPieces
      /\ UNCHANGED <<map, inv, next, total, store, inactive>>
  BY OpensIs
<1>2. faults' \in 0 .. MaxFaults
  BY <1>0, <1>1, FaultIs
<1>3. TypeOK'
  BY <1>0, <1>1, <1>2 DEF TypeOK
<1>4. WriteSound' /\ Fresh'
  BY <1>0, <1>1 DEF WriteSound, Writing, Fresh
<1>5. InvMap' /\ MapBelow' /\ WithinLimit'
  BY <1>0, <1>1 DEF InvMap, MapBelow, WithinLimit
<1>6. QED
  BY <1>1, <1>3, <1>4, <1>5 DEF Basic

LEMMA StopBasic ==
  ASSUME Basic, Stop
  PROVE  Basic'
<1>0. TypeOK /\ FileSound
  BY DEF Basic
<1>1. /\ map' = NoEntries /\ inv' = [s \in Slots |-> None] /\ next' = 0 /\ total' = 0 /\ w' = At("closed")
      /\ UNCHANGED <<file, dmap, store, inactive, orphans>> /\ Fault(w.pc \notin {"idle", "nocache", "overrun"})
  BY DEF Stop
<1>2. w' \in WriteRec /\ w'.pc = "closed"
  BY <1>1, AtIs DEF WritePc
<1>3. faults' \in 0 .. MaxFaults
  BY <1>0, <1>1, FaultIs
<1>4. TypeOK'
  BY <1>0, <1>1, <1>2, <1>3 DEF TypeOK, NoEntries
<1>5. WriteSound' /\ Fresh' /\ WithinLimit'
  BY <1>1, <1>2 DEF WriteSound, Writing, Fresh, WithinLimit
<1>6. InvMap' /\ MapBelow'
  BY <1>1 DEF InvMap, MapBelow, NoEntries, None
<1>7. FileSound'
  BY <1>0, <1>1 DEF FileSound
<1>8. QED
  BY <1>4, <1>5, <1>6, <1>7 DEF Basic

\* A step of the cache is one of these.
LEMMA StepIs ==
  ASSUME Basic, Next
  PROVE  \/ Waits
         \/ \E i \in Pieces : \E loc : Allots(i, loc)
         \/ \E ok \in BOOLEAN : WriteData(ok) \/ WriteMap(ok) \/ ClearOld(ok)
         \/ \E ok \in BOOLEAN : Opens(ok)
         \/ OpenWhole
         \/ Stop
<1>1. CASE \/ \E i \in Pieces : WriteBegin(i)
           \/ \E freed, stuck \in 0 .. MaxInactive : Scan(freed, stuck)
           \/ Scanned
           \/ CacheClear
  BY <1>1, Outside
<1>2. CASE OpenFails
  <2>1. Opens(FALSE)
    BY <1>2 DEF Opens
  <2>2. QED
    BY <2>1
<1>3. CASE \E ok \in BOOLEAN : OpenShort(ok) \/ OpenNew(ok) \/ CreateHead(ok) \/ CreateMap(ok)
  BY <1>3 DEF Opens
<1>4. QED
  BY <1>1, <1>2, <1>3 DEF Next

LEMMA BasicStep ==
  ASSUME Basic, Next
  PROVE  Basic'
<1>1. CASE Waits
  BY <1>1, WaitsBasic
<1>2. ASSUME NEW i \in Pieces, NEW loc, Allots(i, loc)
      PROVE  Basic'
  BY <1>2, AssignBasic DEF Allots
<1>3. QED
  BY <1>1, <1>2, FileBasic, OpensBasic, WholeBasic, StopBasic, StepIs

-----------------------------------------------------------------------------
(* What holds as long as nothing fails.                                     *)

\* Slots without gaps, and a piece that has none: there is one left.
LEMMA RoomLeft ==
  ASSUME TypeOK, InvMap, total <= NumPieces, \A s \in Slots : s < total => inv[s] # None,
         NEW i \in Pieces, map[i] = None
  PROVE  total < NumPieces
<1> SUFFICES ASSUME total = NumPieces
             PROVE  FALSE
  BY Sizes DEF TypeOK
<1>1. inv \in [Slots -> Pieces \cup {None}] /\ NumPieces \in Nat
  BY Sizes DEF TypeOK
<1>2. \A s \in Slots : inv[s] # None /\ inv[s] \in Pieces /\ map[inv[s]] = s /\ s # None
  <2>1. \A s \in Slots : s < total /\ s # None
    BY Sizes DEF Slots, None
  <2>2. QED
    BY <1>1, <2>1 DEF InvMap
<1> DEFINE T == Pieces \ {i}
<1>3. inv \in [Slots -> T]
  BY <1>1, <1>2
<1>4. IsFiniteSet(Pieces) /\ Cardinality(Pieces) = NumPieces
  <2>1. IsFiniteSet(0 .. NumPieces - 1) /\ Cardinality(0 .. NumPieces - 1) =
            IF 0 > NumPieces - 1 THEN 0 ELSE (NumPieces - 1) - 0 + 1
    BY Sizes, FS_Interval
  <2>2. QED
    BY <2>1, Sizes DEF Pieces
<1>5. Slots = Pieces
  BY DEF Slots, Pieces
<1>6. IsFiniteSet(T) /\ Cardinality(T) = NumPieces - 1
  BY <1>4, FS_RemoveElement
<1> HIDE DEF T
<1>7. \E x, y \in Slots : x # y /\ inv[x] = inv[y]
  <2>1. Cardinality(T) < Cardinality(Slots)
    BY <1>1, <1>4, <1>5, <1>6
  <2>2. QED
    BY <1>3, <1>4, <1>5, <1>6, <2>1, FS_PigeonHole
<1>8. QED
  BY <1>2, <1>7

LEMMA WaitsFree ==
  ASSUME Basic, FaultFree, Waits
  PROVE  FaultFree'
<1> SUFFICES ASSUME faults' = 0
             PROVE  Agreed'
  BY DEF FaultFree
<1>1. /\ w.pc \in {"idle", "scan", "scanned"} /\ w'.pc \in {"idle", "scan", "scanned"} /\ w' \in WriteRec
      /\ w'.pc # "idle" => /\ w.pc = "idle" => NeedsWrite(w'.piece)
                           /\ w.pc # "idle" => w'.piece = w.piece
      /\ w'.pc = "idle" => w'.ok = FALSE \/ w' = w
      /\ UNCHANGED <<map, inv, next, total, file, dmap, store, faults>>
  BY DEF Waits
<1>2. Agreed
  BY <1>1 DEF FaultFree
<1>3. w'.piece \in Pieces
  BY <1>1 DEF WriteRec
<1>4. w'.pc \in {"scan", "scanned"} => map[w'.piece] = None
  BY <1>1, <1>2, <1>3 DEF Agreed, NeedsWrite
<1>5. w'.pc = "idle" /\ w'.ok => Eff[w'.piece] = w'.loc
  BY <1>1, <1>2 DEF Agreed
<1>6. Eff' = Eff
  BY <1>1 DEF Eff
<1>7. QED
  BY <1>1, <1>2, <1>4, <1>5, <1>6 DEF Agreed, Writing, Shut

LEMMA AllotsFree ==
  ASSUME Basic, FaultFree, NEW i \in Pieces, NEW loc, Allots(i, loc)
  PROVE  FaultFree'
<1> SUFFICES ASSUME faults' = 0
             PROVE  Agreed'
  BY DEF FaultFree
<1>0. TypeOK /\ InvMap
  BY DEF Basic
<1>1. /\ w.pc \in {"idle", "scan", "scanned"} /\ Assign(i, loc) /\ UNCHANGED <<file, dmap, store, inactive, faults, orphans>>
      /\ w.pc = "idle" => NeedsWrite(i)
      /\ w.pc # "idle" => i = w.piece
  BY DEF Allots
<1>2. Agreed
  BY <1>1 DEF FaultFree
<1>3. map[i] = None /\ Eff = map /\ Eff' = Eff
  <2>1. Eff' = Eff
    BY <1>1 DEF Eff
  <2>2. QED
    BY <1>1, <1>2, <2>1 DEF Agreed, NeedsWrite, Writing
<1>30. /\ loc \in Slots /\ total' <= NumPieces /\ total \in Nat /\ loc \in Nat /\ file'.size = NumPieces
       /\ total' \in {total, loc + 1} /\ loc <= total
  <2>1. total \in Nat /\ loc \in Nat /\ loc <= total /\ total' = Grown(loc)
    BY <1>0, <1>1 DEF Allots, Slot, TypeOK, Assign
  <2>2. Grown(loc) \in {total, loc + 1}
    BY <2>1, GrownIs
  <2>3. total < NumPieces
    BY <1>0, <1>2, <1>3, RoomLeft DEF Agreed
  <2>4. file'.size = NumPieces
    BY <1>1, <1>2 DEF Agreed, Shut
  <2>5. QED
    BY <2>1, <2>2, <2>3, <2>4, Sizes DEF Slots
<1>4. CASE loc \in Slots
  <2>1. /\ w'.pc = "data" /\ w'.piece = i /\ w'.loc = loc /\ w'.old = inv[loc] /\ w'.ok = FALSE
        /\ map'[i] = loc /\ inv'[loc] = i
        /\ \A p \in Pieces : p # i => /\ p = inv[loc] => map'[p] = None
                                      /\ p # inv[loc] => map'[p] = map[p]
        /\ \A s \in Slots : s # loc => /\ s = map[i] /\ inv[loc] # i => inv'[s] = None
                                       /\ ~(s = map[i] /\ inv[loc] # i) => inv'[s] = inv[s]
    BY <1>0, <1>1, <1>4, AssignIs, ZenonT(60)
  <2>2. loc # None /\ None \notin Slots /\ i # None
    BY <1>4, Sizes DEF Slots, Pieces, None
  <2>3. inv[loc] # None => map[inv[loc]] = loc
    BY <1>0, <1>4 DEF InvMap
  <2>4. inv[loc] # i
    BY <1>3, <2>2, <2>3
  <2>5. map \in [Pieces -> Slots \cup {None}]
    BY <1>0 DEF TypeOK
  <2>6. ASSUME NEW p \in Pieces, map'[p] # None
        PROVE  inv'[map'[p]] = p /\ (p # i => store'[map'[p]] = p)
    <3>1. CASE p = i
      BY <2>1, <3>1
    <3>2. CASE p # i
      <4>1. p # inv[loc] /\ map'[p] = map[p] /\ map[p] \in Slots
        BY <2>1, <2>5, <2>6, <3>2
      <4>2. inv[map[p]] = p
        BY <1>2, <2>6, <4>1 DEF Agreed
      <4>3. map[p] # loc
        BY <4>1, <4>2
      <4>4. inv'[map[p]] = p
        BY <1>3, <2>1, <2>2, <4>1, <4>2, <4>3
      <4>5. store[map[p]] = p
        BY <1>1, <1>2, <2>6, <4>1 DEF Agreed
      <4>6. QED
        BY <1>1, <4>1, <4>4, <4>5
    <3>3. QED
      BY <3>1, <3>2
  <2>7. Writing' /\ w'.old # i /\ (w'.old # None => Eff'[w'.old] = loc)
    BY <1>1, <1>3, <2>1, <2>3, <2>4 DEF Writing
  <2>8. \A p \in Pieces \ {w'.piece, w'.old} : Eff'[p] = map'[p]
    BY <1>1, <1>3, <2>1
  <2>9. Eff'[w'.piece] = None
    BY <1>1, <1>3, <2>1
  <2>10. \A s \in Slots : s < total' => inv'[s] # None
    <3> SUFFICES ASSUME NEW s \in Slots, s < total'
                 PROVE  inv'[s] # None
      OBVIOUS
    <3>1. CASE s = loc
      BY <2>1, <2>2, <3>1
    <3>2. CASE s # loc
      <4>1. inv'[s] = inv[s]
        <5>1. s # map[i]
          BY <1>3, <2>2
        <5>2. QED
          BY <2>1, <3>2, <5>1
      <4>2. s < total
        BY <1>30, <3>2, Sizes DEF Slots
      <4>3. QED
        BY <1>2, <4>1, <4>2 DEF Agreed
    <3>3. QED
      BY <3>1, <3>2
  <2>11. QED
    BY <1>30, <2>1, <2>6, <2>7, <2>8, <2>9, <2>10 DEF Agreed, Shut
<1>5. QED
  BY <1>30, <1>4

LEMMA FileFree ==
  ASSUME Basic, FaultFree, NEW ok \in BOOLEAN, WriteData(ok) \/ WriteMap(ok) \/ ClearOld(ok)
  PROVE  FaultFree'
<1> SUFFICES ASSUME faults' = 0
             PROVE  Agreed'
  BY DEF FaultFree
<1>0. TypeOK /\ WriteSound
  BY DEF Basic
<1>00. /\ map \in [Pieces -> Slots \cup {None}] /\ Eff \in [Pieces -> Slots \cup {None}] /\ faults \in Nat
  BY <1>0, EffType, CacheConstants DEF TypeOK
<1>1. CASE WriteData(ok)
  <2>1. /\ Writing /\ w.pc = "data" /\ SameWrite
        /\ ok => w'.pc = "map" /\ store'[w.loc] = w.piece /\ faults' = faults
        /\ ~ok => faults' = faults + 1
        /\ \A s \in Slots : s # w.loc => store'[s] = store[s]
        /\ file.size = NumPieces => file'.size = NumPieces
        /\ UNCHANGED <<map, inv, total, Eff>>
    BY <1>1, DataIs
  <2>2. ok /\ faults = 0 /\ w'.pc = "map"
    BY <1>00, <2>1
  <2>3. Agreed
    BY <2>2 DEF FaultFree
  <2>4. w.piece \in Pieces /\ map[w.piece] = w.loc /\ inv[w.loc] = w.piece
    BY <2>1, WriteAt
  <2>5. ASSUME NEW p \in Pieces, map[p] # None
        PROVE  store'[map[p]] = p
    <3>1. CASE p = w.piece
      BY <2>1, <2>2, <2>4, <3>1
    <3>2. CASE p # w.piece
      <4>1. inv[map[p]] = p /\ store[map[p]] = p /\ map[p] \in Slots
        BY <1>00, <2>3, <2>5, <3>2 DEF Agreed
      <4>2. QED
        BY <2>1, <2>4, <3>2, <4>1
    <3>3. QED
      BY <3>1, <3>2
  <2>6. QED
    BY <2>1, <2>2, <2>3, <2>5 DEF Agreed, Writing, SameWrite, Shut
<1>2. CASE WriteMap(ok)
  <2>1. /\ Writing /\ w.pc = "map" /\ SameWrite /\ w'.pc = "clear"
        /\ ok => Eff'[w.piece] = w.loc /\ faults' = faults
        /\ ~ok => faults' = faults + 1
        /\ \A i \in Pieces : i # w.piece => Eff'[i] = Eff[i]
        /\ UNCHANGED <<map, inv, total, file, store>>
    BY <1>2, MapIs
  <2>2. ok /\ faults = 0
    BY <1>00, <2>1
  <2>3. Agreed
    BY <2>2 DEF FaultFree
  <2>4. w.piece \in Pieces /\ w.old \in Pieces \cup {None}
    BY <2>1, WriteAt
  <2>5. /\ w.old # w.piece
        /\ w.old # None => Eff'[w.old] = w.loc
        /\ \A i \in Pieces \ {w.piece, w.old} : Eff'[i] = map[i]
    BY <2>1, <2>3, <2>4 DEF Agreed
  <2>6. QED
    BY <2>1, <2>2, <2>3, <2>5 DEF Agreed, Writing, SameWrite, Shut
<1>3. CASE ClearOld(ok)
  <2>1. /\ Writing /\ w.pc = "clear" /\ SameWrite /\ w'.pc = "idle"
        /\ ok => faults' = faults /\ (w.old # None => Eff'[w.old] = None)
        /\ ~ok => faults' = faults + 1
        /\ \A i \in Pieces : i # w.old => Eff'[i] = Eff[i]
        /\ file.size = NumPieces => file'.size = NumPieces
        /\ UNCHANGED <<map, inv, total, store>>
    BY <1>3, ClearIs
  <2>2. ok /\ faults = 0
    BY <1>00, <2>1
  <2>3. Agreed
    BY <2>2 DEF FaultFree
  <2>4. w.piece \in Pieces /\ w.old \in Pieces \cup {None} /\ map[w.piece] = w.loc
    BY <2>1, WriteAt
  <2>5. Eff'[w.piece] = w.loc
    BY <2>1, <2>3, <2>4 DEF Agreed
  <2>6. \A p \in Pieces : Eff'[p] = map[p]
    <3> SUFFICES ASSUME NEW p \in Pieces
                 PROVE  Eff'[p] = map[p]
      OBVIOUS
    <3>1. CASE p = w.piece
      BY <2>4, <2>5, <3>1
    <3>2. CASE p # w.piece /\ p = w.old
      <4>1. p # None
        BY Sizes DEF Pieces, None
      <4>2. map[p] = None
        BY <1>0, <2>1, <3>2, <4>1 DEF WriteSound
      <4>3. QED
        BY <2>1, <2>2, <3>2, <4>1, <4>2
    <3>3. CASE p # w.piece /\ p # w.old
      BY <2>1, <2>3, <3>3 DEF Agreed
    <3>4. QED
      BY <3>1, <3>2, <3>3
  <2>7. Eff' = map
    BY <1>00, <2>6 DEF Eff
  <2>8. QED
    BY <2>1, <2>3, <2>5, <2>7 DEF Agreed, Writing, SameWrite, Shut
<1>4. QED
  BY <1>1, <1>2, <1>3

LEMMA WholeFree ==
  ASSUME Basic, FaultFree, OpenWhole
  PROVE  FaultFree'
<1> SUFFICES ASSUME faults' = 0
             PROVE  Agreed'
  BY DEF FaultFree
<1>0. faults \in Nat /\ dmap \in [Pieces -> Slots \cup {None}]
  BY CacheConstants DEF Basic, TypeOK
<1>1. /\ w.pc = "closed" /\ file.head /\ file.size = NumPieces
      /\ map' = dmap /\ Eff' = dmap /\ w' = At("idle")
      /\ \A s \in Slots : inv'[s] # None => inv'[s] \in Pieces /\ dmap[inv'[s]] = s
      /\ \A i \in Pieces : dmap[i] # None => inv'[dmap[i]] # None
      /\ total' \in Nat
      /\ total' = 0 \/ \E i \in Pieces : dmap[i] = total' - 1
      /\ UNCHANGED <<file, dmap, store, faults>>
  BY WholeIs
<1>2. Agreed
  BY <1>1 DEF FaultFree
<1>3. OnDisk
  BY <1>1, <1>2 DEF Agreed
<1>4. w'.pc = "idle" /\ w'.ok = FALSE
  BY <1>1, AtIs DEF WritePc
<1>5. ASSUME NEW i \in Pieces, dmap[i] # None
      PROVE  inv'[dmap[i]] = i /\ store[dmap[i]] = i
  <2>1. dmap[i] \in Slots /\ store[dmap[i]] = i
    BY <1>0, <1>3, <1>5 DEF OnDisk
  <2>2. inv'[dmap[i]] \in Pieces /\ dmap[inv'[dmap[i]]] = dmap[i]
    BY <1>1, <1>5, <2>1
  <2>3. store[dmap[inv'[dmap[i]]]] = inv'[dmap[i]]
    BY <1>3, <1>5, <2>2 DEF OnDisk
  <2>4. QED
    BY <2>1, <2>2, <2>3
<1>6. total' <= NumPieces
  <2>1. CASE total' = 0
    BY <2>1, Sizes
  <2>2. CASE total' # 0
    <3>1. PICK i \in Pieces : dmap[i] = total' - 1
      BY <1>1, <2>2
    <3>2. dmap[i] \in Slots \cup {None}
      BY <1>0
    <3>3. \A t \in Nat : t - 1 \in Slots \cup {None} => t <= NumPieces
      BY Sizes DEF Slots, None
    <3>4. QED
      BY <1>1, <3>1, <3>2, <3>3
  <2>3. QED
    BY <2>1, <2>2
<1>7. ASSUME NEW s \in Slots, s < total'
      PROVE  inv'[s] # None
  <2>0. s \in Nat
    BY Sizes DEF Slots
  <2>1. PICK i \in Pieces : dmap[i] = total' - 1
    BY <1>1, <1>7, <2>0
  <2>2. PICK j \in Pieces : dmap[j] = s
    <3>1. CASE s = dmap[i]
      BY <3>1
    <3>2. CASE s # dmap[i]
      <4>1. s < dmap[i]
        <5>1. \A t, x \in Nat : x < t /\ x # t - 1 => x < t - 1
          OBVIOUS
        <5>2. s < total' - 1
          BY <1>1, <1>7, <2>0, <2>1, <3>2, <5>1
        <5>3. QED
          BY <2>1, <5>2
      <4>2. QED
        BY <1>3, <4>1 DEF OnDisk
    <3>3. QED
      BY <3>1, <3>2
  <2>3. s # None
    BY <2>0 DEF None
  <2>4. QED
    BY <1>1, <2>2, <2>3
<1>8. QED
  BY <1>1, <1>4, <1>5, <1>6, <1>7 DEF Agreed, Writing, Shut

LEMMA OpensFree ==
  ASSUME Basic, FaultFree, NEW ok \in BOOLEAN, Opens(ok)
  PROVE  FaultFree'
<1> SUFFICES ASSUME faults' = 0
             PROVE  Agreed'
  BY DEF FaultFree
<1>0. TypeOK /\ Fresh /\ faults \in Nat
  BY CacheConstants DEF Basic, TypeOK
<1>1. /\ Shut /\ Fault(~ok) /\ w'.ok = FALSE
      /\ w'.pc \in {"head", "init", "nocache", "idle"} /\ w'.pc # w.pc
      /\ ok /\ w'.pc = "idle" => /\ OpenShort(ok) => file.head /\ file.size < NumPieces
                                 /\ ~OpenShort(ok) => /\ file'.size = NumPieces /\ w.pc = "init"
                                                      /\ \A i \in Pieces : dmap'[i] = None
      /\ ok => w'.pc # "nocache"
      /\ dmap' \in [Pieces -> Slots \cup {None}]
      /\ UNCHANGED <<map, inv, next, total, store, inactive>>
  BY OpensIs
<1>2. ok /\ faults = 0
  <2>1. (~ok => faults' = faults + 1) /\ (ok => faults' = faults)
    BY <1>0, <1>1, FaultIs
  <2>2. QED
    BY <1>0, <2>1
<1>3. Agreed
  BY <1>2 DEF FaultFree
<1>4. ~OpenShort(ok)
  <2> SUFFICES ASSUME OpenShort(ok)
               PROVE  FALSE
    OBVIOUS
  <2>1. w.pc = "closed" /\ file.head /\ file.size < NumPieces
    BY <1>2 DEF OpenShort
  <2>2. file.size = NumPieces
    BY <1>3, <2>1 DEF Agreed, OnDisk
  <2>3. QED
    BY <2>1, <2>2, Sizes
<1>5. /\ map' = NoEntries /\ inv' = [s \in Slots |-> None] /\ total' = 0
  BY <1>0, <1>1 DEF Fresh
<1>6. \A i \in Pieces : map'[i] = None
  BY <1>5 DEF NoEntries
<1>7. \A s \in Slots : ~(s < total')
  BY <1>5, Sizes DEF Slots
<1>8. CASE w'.pc = "idle"
  <2>1. file'.size = NumPieces /\ \A i \in Pieces : dmap'[i] = None
    BY <1>1, <1>2, <1>4, <1>8
  <2>2. \A i \in Pieces : ~(NumPieces <= i)
    BY Sizes DEF Pieces
  <2>3. Eff' = map'
    <3>1. \A i \in Pieces : Eff'[i] = None
      BY <2>1, <2>2 DEF Eff
    <3>2. QED
      BY <1>5, <3>1 DEF Eff, NoEntries
  <2>4. QED
    BY <1>1, <1>5, <1>6, <1>7, <1>8, <2>1, <2>3, Sizes DEF Agreed, Writing, Shut
<1>9. CASE w'.pc \in {"head", "init"}
  BY <1>1, <1>5, <1>6, <1>7, <1>9, Sizes DEF Agreed, Writing, Shut
<1>10. QED
  BY <1>1, <1>2, <1>8, <1>9

LEMMA StopFree ==
  ASSUME Basic, FaultFree, Stop
  PROVE  FaultFree'
<1> SUFFICES ASSUME faults' = 0
             PROVE  Agreed'
  BY DEF FaultFree
<1>0. /\ TypeOK /\ MapBelow /\ faults \in Nat /\ map \in [Pieces -> Slots \cup {None}] /\ InvMap /\ total \in Nat
      /\ inv \in [Slots -> Pieces \cup {None}]
  BY CacheConstants DEF Basic, TypeOK
<1>1. /\ map' = NoEntries /\ inv' = [s \in Slots |-> None] /\ next' = 0 /\ total' = 0 /\ w' = At("closed")
      /\ UNCHANGED <<file, dmap, store, inactive, orphans>> /\ Fault(w.pc \notin {"idle", "nocache", "overrun"})
  BY DEF Stop
<1>2. w.pc \in {"idle", "nocache", "overrun"} /\ faults = 0
  <2> DEFINE failed == w.pc \notin {"idle", "nocache", "overrun"}
  <2>1. failed \in BOOLEAN /\ Fault(failed)
    BY <1>1
  <2> HIDE DEF failed
  <2>2. (failed => faults' = faults + 1) /\ (~failed => faults' = faults)
    BY <1>0, <2>1, FaultIs
  <2>3. ~failed /\ faults = 0
    BY <1>0, <2>2
  <2>4. QED
    BY <2>3 DEF failed
<1>3. Agreed
  BY <1>2 DEF FaultFree
<1>4. w.pc = "idle" /\ file.size = NumPieces /\ Eff = map
  BY <1>2, <1>3 DEF Agreed, Shut
<1>5. dmap = map
  BY <1>0, <1>4, EffType
<1>6. OnDisk
  <2>1. \A i \in Pieces : dmap[i] # None => store[dmap[i]] = i
    BY <1>3, <1>4, <1>5 DEF Agreed
  <2>2. ASSUME NEW i \in Pieces, NEW s \in Slots, s < dmap[i]
        PROVE  \E j \in Pieces : dmap[j] = s
    <3>1. s < total
      <4>1. map[i] < total /\ map[i] \in Int /\ s \in Int
        <5>1. Slots \cup {None} \subseteq Int
          BY Sizes DEF Slots, None
        <5>2. QED
          BY <1>0, <5>1 DEF MapBelow
      <4>2. QED
        BY <1>0, <1>5, <2>2, <4>1
    <3>2. inv[s] # None
      BY <1>3, <3>1 DEF Agreed
    <3>3. inv[s] \in Pieces /\ map[inv[s]] = s
      BY <1>0, <3>2 DEF InvMap
    <3>4. QED
      BY <1>5, <3>3
  <2>3. QED
    BY <1>4, <2>1, <2>2 DEF OnDisk
<1>7. OnDisk'
  BY <1>1, <1>6 DEF OnDisk
<1>8. w'.pc = "closed" /\ w'.ok = FALSE
  BY <1>1, AtIs DEF WritePc
<1>9. \A i \in Pieces : map'[i] = None
  BY <1>1 DEF NoEntries
<1>10. \A s \in Slots : ~(s < total')
  BY <1>1, Sizes DEF Slots
<1>11. QED
  BY <1>1, <1>7, <1>8, <1>9, <1>10, Sizes DEF Agreed, Writing, Shut

-----------------------------------------------------------------------------
(* How many pieces the map in the file can be wrong about.                  *)

LEMMA FinitePieces ==
  ASSUME NEW S, S \subseteq Pieces
  PROVE  IsFiniteSet(S) /\ Cardinality(S) \in Nat
<1>1. IsFiniteSet(Pieces)
  BY Sizes, FS_Interval DEF Pieces
<1>2. QED
  BY <1>1, FS_Subset, FS_CardinalityType

LEMMA Fewer ==
  ASSUME NEW T, T \subseteq Pieces, NEW S, S \subseteq T
  PROVE  Cardinality(S) <= Cardinality(T)
  BY FinitePieces, FS_Subset

LEMMA OneMore ==
  ASSUME NEW T, T \subseteq Pieces, NEW b, NEW S, S \subseteq T \cup {b}
  PROVE  Cardinality(S) <= Cardinality(T) + 1
<1>1. IsFiniteSet(T) /\ Cardinality(T) \in Nat
  BY FinitePieces
<1>2. /\ IsFiniteSet(T \cup {b})
      /\ Cardinality(T \cup {b}) = IF b \in T THEN Cardinality(T) ELSE Cardinality(T) + 1
  BY <1>1, FS_AddElement
<1>3. Cardinality(S) <= Cardinality(T \cup {b}) /\ IsFiniteSet(S)
  BY <1>2, FS_Subset
<1>4. Cardinality(S) \in Nat
  BY <1>3, FS_CardinalityType
<1>5. QED
  BY <1>1, <1>2, <1>3, <1>4

\* One piece for another.
Traded(S, a, b) == IF a \in S THEN (S \ {a}) \cup {b} ELSE S

LEMMA Trade ==
  ASSUME NEW S, IsFiniteSet(S), NEW a, NEW b
  PROVE  /\ IsFiniteSet(Traded(S, a, b)) /\ Cardinality(Traded(S, a, b)) <= Cardinality(S)
         /\ a \in S => b \in Traded(S, a, b)
         /\ \A p \in S : p # a => p \in Traded(S, a, b)
<1>1. CASE a \in S
  <2> DEFINE R == S \ {a}
             n == Cardinality(S)
  <2>1. IsFiniteSet(R) /\ Cardinality(R) = n - 1 /\ n \in Nat
    BY <1>1, FS_RemoveElement, FS_CardinalityType
  <2>2. IsFiniteSet(R \cup {b}) /\ Cardinality(R \cup {b}) = IF b \in R THEN Cardinality(R) ELSE Cardinality(R) + 1
    <3> HIDE DEF R
    <3>1. QED
      BY <2>1, FS_AddElement
  <2>3. Traded(S, a, b) = R \cup {b}
    BY <1>1 DEF Traded
  <2> HIDE DEF n
  <2>4. Cardinality(R \cup {b}) <= n
    BY <2>1, <2>2
  <2>5. QED
    BY <2>2, <2>3, <2>4 DEF n
<1>2. CASE a \notin S
  <2>1. Traded(S, a, b) = S
    BY <1>2 DEF Traded
  <2>2. Cardinality(S) \in Nat
    BY FS_CardinalityType
  <2>3. QED
    BY <1>2, <2>1, <2>2
<1>3. QED
  BY <1>1, <1>2

LEMMA InPieces == /\ Stale \subseteq Suspect /\ Suspect \subseteq Pieces /\ Pending \subseteq Pieces
                  /\ Wrong \subseteq Pieces
                  /\ Suspect \subseteq Pending \cup {w.old}
  BY DEF Wrong, Stale, Suspect, Doubtful, Ghosts, Pending

\* The account kept of the faults bounds what is wrong in the file.
LEMMA StaleIsBounded ==
  ASSUME Basic, Accounts, ~Shut
  PROVE  /\ w.pc \in {"map", "clear"} => Cardinality(Stale) <= Credit + 1
         /\ w.pc \notin {"map", "clear"} => Cardinality(Stale) <= Credit
<1>0. Credit \in Nat
  BY CreditIs DEF Basic
<1>1. /\ Cardinality(Stale) \in Nat /\ Cardinality(Suspect) \in Nat /\ Cardinality(Pending) \in Nat
      /\ Cardinality(Stale) <= Cardinality(Suspect)
      /\ Cardinality(Suspect) <= Cardinality(Pending) + 1
  <2>1. Cardinality(Stale) \in Nat /\ Cardinality(Suspect) \in Nat /\ Cardinality(Pending) \in Nat
    BY InPieces, FinitePieces
  <2>2. Cardinality(Stale) <= Cardinality(Suspect)
    BY InPieces, Fewer
  <2>3. Cardinality(Suspect) <= Cardinality(Pending) + 1
    BY InPieces, OneMore
  <2>4. QED
    BY <2>1, <2>2, <2>3
<1>2. CASE ~Writing
  <2>1. Cardinality(Suspect) <= Credit /\ w.pc \notin {"map", "clear"}
    BY <1>2 DEF Accounts, Writing
  <2>2. QED
    BY <1>0, <1>1, <2>1
<1>3. CASE w.pc = "clear"
  <2>1. Cardinality(Pending) <= Credit
    BY <1>3 DEF Accounts
  <2>2. QED
    BY <1>0, <1>1, <1>3, <2>1
<1>4. CASE w.pc \in {"data", "map"}
  BY <1>4 DEF Accounts
<1>5. QED
  BY <1>2, <1>3, <1>4 DEF Writing

LEMMA WrongIsBounded ==
  ASSUME Basic, Accounts
  PROVE  /\ w.pc \in {"map", "clear"} => Cardinality(Wrong) <= Credit + 1
         /\ w.pc \notin {"map", "clear"} => Cardinality(Wrong) <= Credit
<1>0. Credit \in Nat /\ Cardinality(Stale) \in Nat /\ Cardinality(Wrong) \in Nat
  BY CreditIs, InPieces, FinitePieces DEF Basic
<1>1. CASE Shut
  BY <1>1 DEF Accounts, Shut
<1>2. CASE ~Shut
  <2>1. Wrong \subseteq Stale
    BY DEF Basic, FileSound, Wrong, Stale, Eff
  <2>2. Cardinality(Wrong) <= Cardinality(Stale)
    BY <2>1, InPieces, Fewer
  <2>3. /\ w.pc \in {"map", "clear"} => Cardinality(Stale) <= Credit + 1
        /\ w.pc \notin {"map", "clear"} => Cardinality(Stale) <= Credit
    BY <1>2, StaleIsBounded
  <2>4. CASE w.pc \in {"map", "clear"}
    BY <1>0, <2>2, <2>3, <2>4
  <2>5. CASE w.pc \notin {"map", "clear"}
    BY <1>0, <2>2, <2>3, <2>5
  <2>6. QED
    BY <2>4, <2>5
<1>3. QED
  BY <1>1, <1>2

\* Handing out a slot trades at most two suspects for two others: the piece written, if it
\* leaves a slot behind, and the piece that loses the slot.
LEMMA AllotTrades ==
  ASSUME Basic, NEW i \in Pieces, NEW loc \in Slots, Assign(i, loc), UNCHANGED <<file, dmap, store, inactive, faults, orphans>>,
         NEW b, map[i] # None => b = IF Eff[inv[map[i]]] = map[i] THEN store[map[i]] ELSE inv[map[i]],
         NEW p \in Pieces, p \in Pending', p # i
  PROVE  p \in Traded(Traded(Suspect, i, b), inv[loc], store[loc])
<1>0. TypeOK /\ InvMap
  BY DEF Basic
<1>1. /\ w'.piece = i /\ w'.loc = loc /\ w'.old = inv[loc]
      /\ map'[i] = loc /\ inv'[loc] = i
      /\ \A q \in Pieces : q # i => /\ q = inv[loc] => map'[q] = None
                                    /\ q # inv[loc] => map'[q] = map[q]
      /\ \A s \in Slots : s # loc => /\ s = map[i] /\ inv[loc] # i => inv'[s] = None
                                     /\ ~(s = map[i] /\ inv[loc] # i) => inv'[s] = inv[s]
  BY <1>0, AssignIs
<1>2. /\ map \in [Pieces -> Slots \cup {None}] /\ Eff \in [Pieces -> Slots \cup {None}]
      /\ inv \in [Slots -> Pieces \cup {None}] /\ store \in [Slots -> Pieces \cup {None}]
  BY <1>0, EffType DEF TypeOK
<1>20. Eff' = Eff
  BY DEF Eff
<1>3. p # inv[loc] /\ (p \in Suspect' \/ Eff[p] = loc)
  BY <1>1, <1>20 DEF Pending
<1>4. None \notin Slots /\ None \notin Pieces
  BY Sizes DEF Slots, Pieces, None
<1> DEFINE X1 == Traded(Suspect, i, b)
           X2 == Traded(X1, inv[loc], store[loc])
<1>5. IsFiniteSet(Suspect) /\ IsFiniteSet(X1)
  BY InPieces, FinitePieces, Trade
<1>6. p \in Suspect => p \in X2
  <2>1. p \in Suspect => p \in X1
    BY <1>5, Trade
  <2> HIDE DEF X1
  <2>2. QED
    BY <1>3, <1>5, <2>1, Trade
<1>7. i \in Suspect /\ inv[loc] # i /\ p = b => p \in X2
  <2>1. i \in Suspect => b \in X1
    BY <1>5, Trade
  <2> HIDE DEF X1
  <2>2. QED
    BY <1>3, <1>5, <2>1, Trade
<1>8. inv[loc] \in Suspect /\ p = store[loc] => p \in X2
  <2>1. inv[loc] \in Suspect => inv[loc] \in X1 \/ inv[loc] = i
    BY <1>5, Trade
  <2>2. CASE inv[loc] # i
    <3> HIDE DEF X1
    <3>1. QED
      BY <1>5, <2>1, <2>2, Trade
  <2>3. CASE inv[loc] = i
    <3>1. i = None \/ map[i] = loc
      BY <1>0, <2>3 DEF InvMap
    <3>2. map[i] = loc
      BY <1>4, <3>1
    <3>3. b = store[loc] \/ b = i
      BY <1>4, <2>3, <3>2
    <3>4. inv[loc] \in Suspect => b \in X1
      BY <1>5, <2>3, Trade
    <3> HIDE DEF X1
    <3>5. CASE b = store[loc] /\ b # i
      <4>1. inv[loc] \in Suspect /\ p = store[loc] => p \in X1
        BY <3>4, <3>5
      <4>2. QED
        BY <1>3, <1>5, <4>1, Trade
    <3>6. CASE b = i
      BY <1>5, <2>3, <3>4, <3>6, Trade
    <3>7. QED
      BY <3>3, <3>5, <3>6
  <2>4. QED
    BY <2>2, <2>3
<1> SUFFICES p \in X2
  OBVIOUS
<1> HIDE DEF X1, X2
<1>9. CASE Eff[p] = loc
  <2>1. CASE p \in Doubtful
    BY <1>6, <2>1 DEF Suspect
  <2>2. CASE p \notin Doubtful
    <3>1. store[loc] = p /\ inv[loc] # None /\ Eff[inv[loc]] = loc
      BY <1>4, <1>9, <2>2 DEF Doubtful
    <3>2. inv[loc] \in Doubtful
      BY <1>2, <1>3, <1>4, <3>1 DEF Doubtful
    <3>3. QED
      BY <1>8, <3>1, <3>2 DEF Suspect
  <2>3. QED
    BY <2>1, <2>2
<1>10. CASE Eff[p] # loc /\ p \in Doubtful' /\ p \notin Suspect
  <2> DEFINE t == Eff[p]
  <2>1. /\ t # None /\ t \in Slots /\ t # loc
        /\ ~(/\ store[t] = p /\ inv'[t] # None /\ Eff[inv'[t]] = t)
        /\ store[t] = p /\ inv[t] # None /\ Eff[inv[t]] = t
    BY <1>2, <1>10, <1>20 DEF Doubtful, Suspect
  <2> HIDE DEF t
  <2>2. t = map[i] /\ inv[loc] # i
    BY <1>1, <2>1
  <2>3. p = b
    BY <2>1, <2>2
  <2>4. i \in Suspect
    <3>1. CASE Eff[i] = t
      BY <2>1, <3>1 DEF Suspect, Doubtful
    <3>2. CASE Eff[i] # t
      <4>1. inv[t] # i
        BY <2>1, <3>2
      <4>2. QED
        BY <2>1, <2>2, <3>2, <4>1 DEF Suspect, Ghosts
    <3>3. QED
      BY <3>1, <3>2
  <2>5. QED
    BY <1>7, <2>2, <2>3, <2>4
<1>11. CASE p \in Ghosts' /\ p \notin Suspect
  <2> DEFINE t == map[p]
  <2>1. t # None /\ t \in Slots /\ inv'[t] # p /\ Eff[p] # t
    BY <1>1, <1>2, <1>3, <1>11, <1>20 DEF Ghosts
  <2>2. inv[t] = p
    BY <1>11, <2>1 DEF Ghosts, Suspect
  <2> HIDE DEF t
  <2>3. t # loc /\ t = map[i] /\ inv[loc] # i
    BY <1>1, <1>3, <2>1, <2>2
  <2>4. p = b
    BY <2>1, <2>2, <2>3
  <2>5. i \in Suspect
    <3>1. CASE Eff[i] = t
      BY <2>1, <2>2, <3>1 DEF Suspect, Doubtful
    <3>2. CASE Eff[i] # t
      BY <2>1, <2>2, <2>3, <3>2 DEF Suspect, Ghosts
    <3>3. QED
      BY <3>1, <3>2
  <2>6. QED
    BY <1>7, <2>3, <2>4, <2>5
<1>12. Suspect' = Doubtful' \cup Ghosts'
  BY DEF Suspect
<1>13. QED
  BY <1>3, <1>6, <1>9, <1>10, <1>11, <1>12

LEMMA AllotsAccounts ==
  ASSUME Basic, Accounts, NEW i \in Pieces, NEW loc, Allots(i, loc)
  PROVE  Accounts'
<1>0. TypeOK /\ Credit \in Nat
  BY CreditIs DEF Basic
<1>1. /\ w.pc \in {"idle", "scan", "scanned"} /\ Assign(i, loc) /\ UNCHANGED <<file, dmap, store, inactive, faults, orphans>>
  BY DEF Allots
<1>10. Credit' = Credit /\ Eff' = Eff
  BY <1>1 DEF Credit, Eff
<1>2. Cardinality(Suspect) <= Credit
  BY <1>1 DEF Accounts, Writing, Shut
<1>3. Cardinality(Suspect) \in Nat /\ IsFiniteSet(Suspect)
  BY InPieces, FinitePieces
<1>4. CASE loc \in Slots
  <2>1. w'.pc = "data" /\ w'.piece = i
    BY <1>0, <1>1, <1>4, AssignIs
  <2>2. Cardinality(Stale') <= Credit'
    <3>1. Stale' = Stale
      BY <1>1, <1>10 DEF Stale
    <3>2. Cardinality(Stale) <= Credit
      BY <1>1, StaleIsBounded DEF Shut
    <3>3. QED
      BY <1>10, <3>1, <3>2
  <2>3. Cardinality(Pending' \ {i}) <= Credit'
    <3>1. PICK b : map[i] # None => b = IF Eff[inv[map[i]]] = map[i] THEN store[map[i]] ELSE inv[map[i]]
      OBVIOUS
    <3> DEFINE X == Traded(Traded(Suspect, i, b), inv[loc], store[loc])
    <3>2. Pending' \ {i} \subseteq X
      <4> SUFFICES ASSUME NEW p \in Pending', p # i
                   PROVE  p \in X
        OBVIOUS
      <4>1. p \in Pieces
        BY DEF Pending, Suspect, Doubtful, Ghosts
      <4>2. QED
        BY <1>1, <1>4, <3>1, <4>1, AllotTrades
    <3>3. IsFiniteSet(X) /\ Cardinality(X) <= Cardinality(Suspect)
      <4> DEFINE Y == Traded(Suspect, i, b)
      <4>1. IsFiniteSet(Y) /\ Cardinality(Y) <= Cardinality(Suspect)
        BY <1>3, Trade
      <4> HIDE DEF Y
      <4>2. IsFiniteSet(Traded(Y, inv[loc], store[loc])) /\ Cardinality(Traded(Y, inv[loc], store[loc])) <= Cardinality(Y)
        BY <4>1, Trade
      <4> DEFINE Z == Traded(Y, inv[loc], store[loc])
      <4>3. IsFiniteSet(Z) /\ Cardinality(Z) <= Cardinality(Y)
        BY <4>2
      <4>4. Z = X
        BY DEF Y
      <4> HIDE DEF Z, X
      <4>5. Cardinality(Y) \in Nat /\ Cardinality(Z) \in Nat
        BY <4>1, <4>3, FS_CardinalityType
      <4>6. QED
        BY <1>3, <4>1, <4>3, <4>4, <4>5
    <3> HIDE DEF X
    <3>4. Cardinality(Pending' \ {i}) <= Cardinality(X) /\ IsFiniteSet(Pending' \ {i})
      BY <3>2, <3>3, FS_Subset
    <3>5. Cardinality(X) \in Nat /\ Cardinality(Pending' \ {i}) \in Nat
      BY <3>3, <3>4, FS_CardinalityType
    <3>6. QED
      BY <1>0, <1>10, <1>2, <1>3, <3>3, <3>4, <3>5
  <2>4. QED
    BY <2>1, <2>2, <2>3 DEF Accounts, Writing, Shut
<1>5. CASE loc \notin Slots
  <2>1. UNCHANGED <<map, inv>> /\ w' = [At("overrun") EXCEPT !.piece = i, !.loc = loc]
    BY <1>1, <1>5 DEF Assign
  <2>2. w'.pc = "overrun"
    BY <2>1 DEF At
  <2>3. Suspect' = Suspect
    BY <1>1, <1>10, <2>1 DEF Suspect, Doubtful, Ghosts
  <2>4. QED
    BY <1>10, <1>2, <2>2, <2>3 DEF Accounts, Writing, Shut
<1>6. QED
  BY <1>4, <1>5

LEMMA WaitsAccounts ==
  ASSUME Basic, Accounts, Waits
  PROVE  Accounts'
<1>1. /\ w.pc \in {"idle", "scan", "scanned"} /\ w'.pc \in {"idle", "scan", "scanned"}
      /\ UNCHANGED <<map, inv, next, total, file, dmap, store, faults, orphans>>
  BY DEF Waits
<1>2. Cardinality(Suspect) <= Credit
  BY <1>1 DEF Accounts, Writing, Shut
<1>3. Suspect' = Suspect /\ Credit' = Credit
  <2>1. Eff' = Eff
    BY <1>1 DEF Eff
  <2>2. QED
    BY <1>1, <2>1 DEF Suspect, Doubtful, Ghosts, Credit
<1>4. QED
  BY <1>1, <1>2, <1>3 DEF Accounts, Writing, Shut

LEMMA DataAccounts ==
  ASSUME Basic, Accounts, NEW ok \in BOOLEAN, WriteData(ok)
  PROVE  Accounts'
<1>0. Credit \in Nat
  BY CreditIs DEF Basic
<1>00. Eff \in [Pieces -> Slots \cup {None}]
  BY EffType DEF Basic
<1>1. /\ Writing /\ w.pc = "data" /\ SameWrite
      /\ ok => w'.pc = "map" /\ store'[w.loc] = w.piece /\ Credit' = Credit
      /\ ~ok => w'.pc = "clear" /\ Credit' = Credit + 1
      /\ \A s \in Slots : s # w.loc => store'[s] = store[s]
      /\ UNCHANGED <<map, inv, next, total, Eff, inactive>>
  BY DataIs
<1>2. Cardinality(Pending \ {w.piece}) <= Credit /\ Cardinality(Stale) <= Credit
  BY <1>1 DEF Accounts
<1>3. Pending' \ {w.piece} \subseteq Pending \ {w.piece}
  <2> SUFFICES ASSUME NEW p \in Pending', p # w.piece
               PROVE  p \in Pending
    OBVIOUS
  <2>1. p \in Pieces /\ p # w.old /\ (p \in Doubtful' \/ p \in Ghosts' \/ Eff[p] = w.loc)
    BY <1>1 DEF Pending, Suspect, Doubtful, Ghosts, SameWrite
  <2>2. CASE Eff[p] = w.loc
    BY <2>1, <2>2 DEF Pending
  <2>3. CASE p \in Ghosts'
    <3>1. p \in Ghosts
      BY <1>1, <2>3 DEF Ghosts
    <3>2. QED
      BY <2>1, <3>1 DEF Pending, Suspect
  <2>4. CASE Eff[p] # w.loc /\ p \in Doubtful'
    <3>1. p \in Doubtful
      BY <1>00, <1>1, <2>1, <2>4 DEF Doubtful
    <3>2. QED
      BY <2>1, <3>1 DEF Pending, Suspect
  <2>5. QED
    BY <2>1, <2>2, <2>3, <2>4
<1>4. /\ Pending \ {w.piece} \subseteq Pieces /\ Cardinality(Pending \ {w.piece}) \in Nat
      /\ Stale \subseteq Pieces /\ Cardinality(Stale) \in Nat
  BY InPieces, FinitePieces
<1>5. CASE ok
  <2>1. Cardinality(Pending' \ {w.piece}) <= Credit
    <3>1. Cardinality(Pending' \ {w.piece}) <= Cardinality(Pending \ {w.piece})
      BY <1>3, <1>4, Fewer
    <3>2. Cardinality(Pending' \ {w.piece}) \in Nat
      BY <1>3, <1>4, FinitePieces
    <3>3. QED
      BY <1>0, <1>2, <1>4, <3>1, <3>2
  <2>2. Stale' \subseteq Stale \cup {store[w.loc]}
    BY <1>00, <1>1 DEF Stale
  <2>3. Cardinality(Stale') <= Credit + 1
    <3>1. Cardinality(Stale') <= Cardinality(Stale) + 1
      BY <1>4, <2>2, OneMore
    <3>2. Cardinality(Stale') \in Nat
      <4>1. Stale' \subseteq Pieces
        BY DEF Stale
      <4>2. QED
        BY <4>1, FinitePieces
    <3>3. QED
      BY <1>0, <1>2, <1>4, <3>1, <3>2
  <2>4. QED
    BY <1>1, <1>5, <2>1, <2>3 DEF Accounts, Writing, Shut, SameWrite
<1>6. CASE ~ok
  <2>1. Pending' \subseteq (Pending \ {w.piece}) \cup {w.piece}
    BY <1>3
  <2>2. Cardinality(Pending') <= Cardinality(Pending \ {w.piece}) + 1
    BY <1>4, <2>1, OneMore
  <2>3. Cardinality(Pending') \in Nat
    <3>1. Pending' \subseteq Pieces
      BY DEF Pending, Suspect, Doubtful, Ghosts
    <3>2. QED
      BY <3>1, FinitePieces
  <2>4. Cardinality(Pending') <= Credit'
    BY <1>0, <1>1, <1>2, <1>4, <1>6, <2>2, <2>3
  <2>5. QED
    BY <1>1, <1>6, <2>4 DEF Accounts, Writing, Shut
<1>7. QED
  BY <1>5, <1>6

LEMMA MapAccounts ==
  ASSUME Basic, Accounts, NEW ok \in BOOLEAN, WriteMap(ok)
  PROVE  Accounts'
<1>0. Credit \in Nat /\ InvMap /\ Eff \in [Pieces -> Slots \cup {None}] /\ store[w.loc] = w.piece
  BY CreditIs, EffType DEF Basic, WriteSound, WriteMap
<1>1. /\ Writing /\ w.pc = "map" /\ SameWrite /\ w'.pc = "clear"
      /\ ok => Eff'[w.piece] = w.loc /\ Credit' = Credit
      /\ ~ok => Eff' = Eff /\ Credit' = Credit + 1
      /\ \A i \in Pieces : i # w.piece => Eff'[i] = Eff[i]
      /\ UNCHANGED <<map, inv, next, total, store, inactive>>
  BY MapIs
<1>2. Cardinality(Pending \ {w.piece}) <= Credit
  BY <1>1 DEF Accounts
<1>3. /\ w.piece \in Pieces /\ map[w.piece] = w.loc /\ inv[w.loc] = w.piece /\ w.piece # None
  BY <1>1, WriteAt
<1>4. Pending \ {w.piece} \subseteq Pieces /\ Cardinality(Pending \ {w.piece}) \in Nat
  BY InPieces, FinitePieces
<1>5. Cardinality(Pending') \in Nat
  <2>1. Pending' \subseteq Pieces
    BY DEF Pending, Suspect, Doubtful, Ghosts
  <2>2. QED
    BY <2>1, FinitePieces
<1>6. CASE ok
  <2>1. Pending' \subseteq Pending \ {w.piece}
    <3> SUFFICES ASSUME NEW p \in Pending'
                 PROVE  p \in Pending /\ p # w.piece
      OBVIOUS
    <3>1. p \in Pieces /\ p # w.old
          /\ (p \in Doubtful' \/ p \in Ghosts' \/ (Eff'[p] = w.loc /\ p # w.piece))
      BY <1>1 DEF Pending, Suspect, Doubtful, Ghosts, SameWrite
    <3>2. w.piece \notin Doubtful'
      BY <1>0, <1>1, <1>3, <1>6 DEF Doubtful
    <3>3. w.piece \notin Ghosts'
      BY <1>1, <1>3 DEF Ghosts
    <3>4. p # w.piece /\ Eff'[p] = Eff[p]
      BY <1>1, <3>1, <3>2, <3>3
    <3>5. CASE Eff[p] = w.loc
      BY <3>1, <3>4, <3>5 DEF Pending
    <3>6. CASE p \in Ghosts'
      <4>1. p \in Ghosts
        BY <1>1, <3>4, <3>6 DEF Ghosts
      <4>2. QED
        BY <3>1, <3>4, <4>1 DEF Pending, Suspect
    <3>7. CASE p \in Doubtful' /\ Eff[p] # w.loc
      <4> DEFINE t == Eff[p]
      <4>1. t # None /\ t \in Slots /\ ~(store[t] = p /\ inv[t] # None /\ Eff'[inv[t]] = t)
        BY <1>0, <1>1, <3>1, <3>4, <3>7 DEF Doubtful
      <4>2. inv[t] # w.piece
        BY <1>0, <1>3, <3>7, <4>1 DEF InvMap
      <4>3. inv[t] # None => inv[t] \in Pieces
        BY <4>1 DEF Basic, TypeOK
      <4>4. inv[t] # None => Eff'[inv[t]] = Eff[inv[t]]
        BY <1>1, <4>2, <4>3
      <4>5. p \in Doubtful
        BY <3>1, <4>1, <4>4 DEF Doubtful
      <4>6. QED
        BY <3>1, <3>4, <4>5 DEF Pending, Suspect
    <3>8. QED
      BY <3>1, <3>4, <3>5, <3>6, <3>7
  <2>2. Cardinality(Pending') <= Cardinality(Pending \ {w.piece})
    BY <1>4, <2>1, Fewer
  <2>3. Cardinality(Pending') <= Credit'
    BY <1>0, <1>1, <1>2, <1>4, <1>5, <1>6, <2>2
  <2>4. QED
    BY <1>1, <2>3 DEF Accounts, Writing, Shut
<1>7. CASE ~ok
  <2>1. Pending' \subseteq (Pending \ {w.piece}) \cup {w.piece}
    BY <1>1, <1>7 DEF Pending, Suspect, Doubtful, Ghosts, SameWrite
  <2>2. Cardinality(Pending') <= Cardinality(Pending \ {w.piece}) + 1
    BY <1>4, <2>1, OneMore
  <2>3. Cardinality(Pending') <= Credit'
    BY <1>0, <1>1, <1>2, <1>4, <1>5, <1>7, <2>2
  <2>4. QED
    BY <1>1, <2>3 DEF Accounts, Writing, Shut
<1>8. QED
  BY <1>6, <1>7

LEMMA ClearAccounts ==
  ASSUME Basic, Accounts, NEW ok \in BOOLEAN, ClearOld(ok)
  PROVE  Accounts'
<1>0. Credit \in Nat /\ InvMap /\ WriteSound /\ Eff \in [Pieces -> Slots \cup {None}]
  BY CreditIs, EffType DEF Basic
<1>1. /\ Writing /\ w.pc = "clear" /\ w'.pc = "idle"
      /\ ok => Credit' = Credit /\ (w.old # None => Eff'[w.old] = None)
      /\ ~ok => Eff' = Eff /\ Credit' = Credit + 1
      /\ \A i \in Pieces : i # w.old => Eff'[i] = Eff[i]
      /\ UNCHANGED <<map, inv, next, total, store, inactive>>
  BY ClearIs
<1>2. Cardinality(Pending) <= Credit
  BY <1>1 DEF Accounts
<1>3. w.piece \in Pieces /\ w.old \in Pieces \cup {None} /\ map[w.piece] = w.loc /\ inv[w.loc] = w.piece
  BY <1>1, WriteAt
<1>4. Pending \subseteq Pieces /\ Cardinality(Pending) \in Nat
  BY InPieces, FinitePieces
<1>5. Cardinality(Suspect') \in Nat
  <2>1. Suspect' \subseteq Pieces
    BY DEF Suspect, Doubtful, Ghosts
  <2>2. QED
    BY <2>1, FinitePieces
<1>6. CASE ok
  <2>1. Suspect' \subseteq Pending
    <3> SUFFICES ASSUME NEW p \in Suspect'
                 PROVE  p \in Pending
      OBVIOUS
    <3>1. p \in Pieces /\ (p \in Doubtful' \/ p \in Ghosts')
      BY DEF Suspect, Doubtful, Ghosts
    <3>2. p # None
      BY <3>1, Sizes DEF Pieces, None
    <3>3. w.old # None /\ w.old # w.piece => map[w.old] = None
      BY <1>0, <1>1 DEF WriteSound
    <3>4. p # w.old
      <4> SUFFICES ASSUME p = w.old
                   PROVE  FALSE
        OBVIOUS
      <4>1. Eff'[p] = None
        BY <1>1, <1>6, <3>2
      <4>2. p \notin Doubtful'
        BY <4>1 DEF Doubtful
      <4>3. map[p] = None \/ inv[map[p]] = p
        BY <1>3, <3>2, <3>3
      <4>4. p \notin Ghosts'
        BY <1>1, <4>3 DEF Ghosts
      <4>5. QED
        BY <3>1, <4>2, <4>4
    <3>5. Eff'[p] = Eff[p]
      BY <1>1, <3>1, <3>4
    <3>6. CASE p \in Ghosts'
      <4>1. p \in Ghosts
        BY <1>1, <3>5, <3>6 DEF Ghosts
      <4>2. QED
        BY <3>1, <3>4, <4>1 DEF Pending, Suspect
    <3>7. CASE p \in Doubtful' /\ p \notin Doubtful
      <4> DEFINE t == Eff[p]
      <4>1. /\ t # None /\ t \in Slots /\ ~(store[t] = p /\ inv[t] # None /\ Eff'[inv[t]] = t)
            /\ store[t] = p /\ inv[t] # None /\ Eff[inv[t]] = t
        BY <1>0, <1>1, <3>1, <3>5, <3>7 DEF Doubtful
      <4>2. inv[t] \in Pieces
        BY <4>1 DEF Basic, TypeOK
      <4>3. inv[t] = w.old /\ w.old # None
        BY <1>1, <4>1, <4>2
      <4>4. map[w.old] = t
        BY <1>0, <4>1, <4>3 DEF InvMap
      <4>5. w.old = w.piece /\ t = w.loc
        BY <1>3, <3>3, <4>1, <4>3, <4>4
      <4>6. QED
        BY <3>1, <3>4, <4>5 DEF Pending
    <3>8. CASE p \in Doubtful
      BY <3>1, <3>4, <3>8 DEF Pending, Suspect
    <3>9. QED
      BY <3>1, <3>6, <3>7, <3>8
  <2>2. Cardinality(Suspect') <= Cardinality(Pending)
    BY <1>4, <2>1, Fewer
  <2>3. Cardinality(Suspect') <= Credit'
    BY <1>0, <1>1, <1>2, <1>4, <1>5, <1>6, <2>2
  <2>4. QED
    BY <1>1, <2>3 DEF Accounts, Writing, Shut
<1>7. CASE ~ok
  <2>1. Suspect' = Suspect
    BY <1>1, <1>7 DEF Suspect, Doubtful, Ghosts
  <2>2. Cardinality(Suspect') <= Cardinality(Pending) + 1
    BY <1>4, <2>1, InPieces, OneMore
  <2>3. Cardinality(Suspect') <= Credit'
    BY <1>0, <1>1, <1>2, <1>4, <1>5, <1>7, <2>2
  <2>4. QED
    BY <1>1, <2>3 DEF Accounts, Writing, Shut
<1>8. QED
  BY <1>6, <1>7

LEMMA WholeAccounts ==
  ASSUME Basic, Accounts, OpenWhole
  PROVE  Accounts'
<1>0. Credit \in Nat /\ dmap \in [Pieces -> Slots \cup {None}]
  BY CreditIs DEF Basic, TypeOK
<1>1. /\ w.pc = "closed" /\ map' = dmap /\ Eff' = dmap /\ w' = At("idle")
      /\ \A s \in Slots : inv'[s] # None => inv'[s] \in Pieces /\ dmap[inv'[s]] = s
      /\ \A i \in Pieces : dmap[i] # None => inv'[dmap[i]] # None
      /\ UNCHANGED <<dmap, store, faults, orphans>>
  BY WholeIs
<1>2. w'.pc = "idle" /\ Credit' = Credit
  BY <1>1, AtIs DEF WritePc, Credit
<1>3. Suspect' \subseteq Wrong
  <2>1. Ghosts' = {}
    BY <1>1 DEF Ghosts
  <2>2. Doubtful' \subseteq Wrong
    BY <1>0, <1>1 DEF Doubtful, Wrong
  <2>3. QED
    BY <2>1, <2>2 DEF Suspect
<1>4. Cardinality(Wrong) <= Credit
  BY <1>1 DEF Accounts, Shut
<1>5. Cardinality(Suspect') <= Cardinality(Wrong) /\ Cardinality(Suspect') \in Nat /\ Cardinality(Wrong) \in Nat
  BY <1>3, InPieces, Fewer, FinitePieces
<1>6. Cardinality(Suspect') <= Credit'
  BY <1>0, <1>2, <1>4, <1>5
<1>7. QED
  BY <1>2, <1>6 DEF Accounts, Writing, Shut

LEMMA OpensAccounts ==
  ASSUME Basic, Basic', Accounts, NEW ok \in BOOLEAN, Opens(ok)
  PROVE  Accounts'
<1>0. /\ TypeOK /\ Fresh /\ Credit \in Nat /\ Credit' \in Nat /\ orphans' \in Nat /\ faults' \in Nat
  <2>1. TypeOK /\ TypeOK' /\ Fresh
    BY DEF Basic
  <2>2. orphans' \in Nat /\ faults' \in Nat
    BY <2>1, CacheConstants, Sizes DEF TypeOK
  <2>3. Credit' = faults' + orphans'
    BY DEF Credit
  <2>31. \A a, b \in Nat : a + b \in Nat
    OBVIOUS
  <2>4. Credit' \in Nat
    BY <2>2, <2>3, <2>31, Zenon
  <2>5. QED
    BY <2>1, <2>2, <2>4, CreditIs
<1>1. /\ Shut /\ Fault(~ok)
      /\ w'.pc \in {"head", "init", "nocache", "idle"} /\ w'.pc # w.pc
      /\ \A i \in Pieces : dmap'[i] \in {None, dmap[i]}
      /\ ok /\ w'.pc = "idle" /\ ~OpenShort(ok) => file'.size = NumPieces /\ \A i \in Pieces : dmap'[i] = None
      /\ ~ok => w'.pc \in {"head", "nocache"} \/ OpenShort(ok)
      /\ UNCHANGED <<map, inv, next, total, store, inactive>>
  BY OpensIs
<1>2. \A i \in Pieces : map'[i] = None
  BY <1>0, <1>1 DEF Fresh, NoEntries
<1>3. CASE OpenShort(ok)
  <2> DEFINE U == {i \in Pieces : file.size <= i \/ dmap[i] # None}
  <2>1. /\ orphans' = Cardinality(U) /\ w' = At("idle") /\ UNCHANGED <<file, dmap>>
    BY <1>3 DEF OpenShort
  <2>2. w'.pc = "idle"
    BY <2>1, AtIs DEF WritePc
  <2>3. Suspect' \subseteq U
    <3>1. Eff' = Eff
      BY <2>1 DEF Eff
    <3>2. Ghosts' = {}
      BY <1>2 DEF Ghosts
    <3>3. Doubtful' \subseteq U
      BY <3>1 DEF Doubtful, Eff
    <3>4. QED
      BY <3>2, <3>3 DEF Suspect
  <2>4. U \subseteq Pieces
    OBVIOUS
  <2> HIDE DEF U
  <2>5. Cardinality(Suspect') <= Cardinality(U) /\ Cardinality(Suspect') \in Nat
    BY <2>3, <2>4, Fewer, FinitePieces
  <2>6. Credit' = faults' + orphans'
    BY DEF Credit
  <2>7. Cardinality(Suspect') <= Credit'
    BY <1>0, <2>1, <2>5, <2>6
  <2>8. QED
    BY <2>2, <2>7 DEF Accounts, Writing, Shut
<1>4. CASE ~OpenShort(ok) /\ w'.pc = "idle"
  <2>1. Eff' = [i \in Pieces |-> None]
    <3>1. file'.size = NumPieces /\ \A i \in Pieces : dmap'[i] = None
      BY <1>1, <1>4
    <3>2. \A i \in Pieces : ~(NumPieces <= i)
      BY Sizes DEF Pieces
    <3>3. QED
      BY <3>1, <3>2 DEF Eff
  <2>2. Suspect' = {}
    BY <1>2, <2>1 DEF Suspect, Doubtful, Ghosts
  <2>3. Cardinality(Suspect') = 0
    BY <2>2, FS_EmptySet
  <2>4. Cardinality(Suspect') <= Credit'
    BY <1>0, <2>3
  <2>5. QED
    BY <1>4, <2>4 DEF Accounts, Writing, Shut
<1>5. CASE ~OpenShort(ok) /\ w'.pc # "idle"
  <2>1. orphans' = orphans
    BY <1>5 DEF Opens, OpenNew, CreateHead, CreateMap, OpenFails
  <2>2. Credit' = Credit \/ Credit' = Credit + 1
    BY <1>0, <1>1, <2>1, FaultCredit
  <2>3. Wrong' \subseteq Wrong
    BY <1>1 DEF Wrong
  <2>4. Cardinality(Wrong') <= Cardinality(Wrong) /\ Cardinality(Wrong') \in Nat /\ Cardinality(Wrong) \in Nat
    BY <2>3, InPieces, Fewer, FinitePieces
  <2>5. Cardinality(Wrong) <= Credit
    BY <1>1 DEF Accounts
  <2>6. Cardinality(Wrong') <= Credit'
    BY <1>0, <2>2, <2>4, <2>5
  <2>7. QED
    BY <1>1, <1>5, <2>6 DEF Accounts, Writing, Shut
<1>6. QED
  BY <1>3, <1>4, <1>5

LEMMA StopAccounts ==
  ASSUME Basic, Accounts, Stop
  PROVE  Accounts'
<1>0. TypeOK /\ Credit \in Nat
  BY CreditIs DEF Basic
<1>1. /\ w' = At("closed") /\ UNCHANGED <<file, dmap, store, inactive, orphans>>
      /\ Fault(w.pc \notin {"idle", "nocache", "overrun"})
  BY DEF Stop
<1>2. w'.pc = "closed" /\ Wrong' = Wrong
  BY <1>1, AtIs DEF WritePc, Wrong
<1>3. /\ w.pc \in {"map", "clear"} => Credit' = Credit + 1
      /\ Credit' \in {Credit, Credit + 1}
  <2> DEFINE failed == w.pc \notin {"idle", "nocache", "overrun"}
  <2>1. failed \in BOOLEAN /\ Fault(failed) /\ (w.pc \in {"map", "clear"} => failed)
    BY <1>1
  <2> HIDE DEF failed
  <2>2. (failed => Credit' = Credit + 1) /\ (~failed => Credit' = Credit)
    BY <1>0, <1>1, <2>1, FaultCredit
  <2>3. QED
    BY <2>1, <2>2
<1>4. /\ w.pc \in {"map", "clear"} => Cardinality(Wrong) <= Credit + 1
      /\ w.pc \notin {"map", "clear"} => Cardinality(Wrong) <= Credit
  BY WrongIsBounded
<1>5. Cardinality(Wrong) \in Nat
  BY InPieces, FinitePieces
<1>6. Cardinality(Wrong) <= Credit'
  <2>1. CASE w.pc \in {"map", "clear"}
    BY <1>3, <1>4, <2>1
  <2>2. CASE w.pc \notin {"map", "clear"}
    <3>1. Cardinality(Wrong) <= Credit
      BY <1>4, <2>2
    <3>2. QED
      BY <1>0, <1>3, <1>5, <3>1
  <2>3. QED
    BY <2>1, <2>2
<1>7. QED
  BY <1>2, <1>6 DEF Accounts, Writing, Shut

-----------------------------------------------------------------------------
(* The theorems.                                                            *)

LEMMA InitIInv ==
  ASSUME Init
  PROVE  IInv
<1>1. Basic
  BY InitBasic
<1>2. w.pc = "closed" /\ w.ok = FALSE
  BY AtIs DEF Init, WritePc
<1>3. Agreed
  BY <1>2, Sizes DEF Init, Agreed, Writing, Shut, NoEntries, Slots
<1>4. Wrong = {}
  BY DEF Init, Wrong, NoEntries
<1>5. Cardinality(Wrong) = 0
  BY <1>4, FS_EmptySet
<1>6. Credit = 0
  BY DEF Init, Credit
<1>7. Accounts
  BY <1>2, <1>5, <1>6 DEF Accounts, Writing, Shut
<1>8. QED
  BY <1>1, <1>3, <1>7 DEF IInv, FaultFree

LEMMA IInvStep ==
  ASSUME IInv, Next
  PROVE  IInv'
<1>0. Basic /\ FaultFree /\ Accounts
  BY DEF IInv
<1>1. Basic'
  BY <1>0, BasicStep
<1>2. CASE Waits
  BY <1>0, <1>1, <1>2, WaitsFree, WaitsAccounts DEF IInv
<1>3. ASSUME NEW i \in Pieces, NEW loc, Allots(i, loc)
      PROVE  IInv'
  BY <1>0, <1>1, <1>3, AllotsFree, AllotsAccounts DEF IInv
<1>4. ASSUME NEW ok \in BOOLEAN, WriteData(ok) \/ WriteMap(ok) \/ ClearOld(ok)
      PROVE  IInv'
  <2>1. FaultFree'
    BY <1>0, <1>4, FileFree
  <2>2. Accounts'
    BY <1>0, <1>4, DataAccounts, MapAccounts, ClearAccounts
  <2>3. QED
    BY <1>1, <2>1, <2>2 DEF IInv
<1>5. CASE OpenWhole
  BY <1>0, <1>1, <1>5, WholeFree, WholeAccounts DEF IInv
<1>6. ASSUME NEW ok \in BOOLEAN, Opens(ok)
      PROVE  IInv'
  BY <1>0, <1>1, <1>6, OpensFree, OpensAccounts DEF IInv
<1>7. CASE Stop
  BY <1>0, <1>1, <1>7, StopFree, StopAccounts DEF IInv
<1>8. QED
  BY <1>0, <1>2, <1>3, <1>4, <1>5, <1>6, <1>7, StepIs

LEMMA IInvStutter ==
  ASSUME IInv, UNCHANGED vars
  PROVE  IInv'
  BY DEF IInv, vars, Basic, TypeOK, WriteSound, Writing, InvMap, MapBelow, Fresh, Shut, FileSound, WithinLimit,
         FaultFree, Agreed, OnDisk, Eff, Accounts, Credit, Wrong, Stale, Suspect, Doubtful, Ghosts, Pending

\* The inductive invariant: what the disk thread has in its hands belongs to the maps, memory
\* and file agree until something fails, and every fault is answerable for one piece at most.
THEOREM CacheInductive == Spec => []IInv
<1>1. Init => IInv
  BY InitIInv
<1>2. IInv /\ [Next]_vars => IInv'
  BY IInvStep, IInvStutter
<1>3. QED
  BY <1>1, <1>2, PTL DEF Spec

\* As long as no file operation fails and the program is not killed, every piece the map in
\* memory has is in its slot of the file, through evictions, rewrites and reopening.
THEOREM CacheHolds == Spec => []CachedIsThere
<1>1. IInv => CachedIsThere
  BY DEF IInv, FaultFree, Agreed, CachedIsThere
<1>2. QED
  BY <1>1, CacheInductive, PTL

\* As long as nothing has failed, a piece written with success is in the file's map when
\* torrent_write_to_disk is over: clearing the entry of the slot's old piece does not undo it.
THEOREM CacheFinds == Spec => []WrittenIsFound
<1>1. IInv => WrittenIsFound
  <2> SUFFICES ASSUME IInv, faults = 0, w.pc = "idle", w.ok
               PROVE  dmap[w.piece] = w.loc
    BY DEF WrittenIsFound
  <2>1. Agreed /\ TypeOK
    BY DEF IInv, FaultFree, Basic
  <2>2. Eff[w.piece] = w.loc /\ file.size = NumPieces
    BY <2>1 DEF Agreed, Shut
  <2>3. Eff = dmap
    BY <2>1, <2>2, EffType
  <2>4. QED
    BY <2>2, <2>3
<1>2. QED
  BY <1>1, CacheInductive, PTL

\* Whatever fails, wherever the program is killed, and however little of the file was made: the
\* map in the file is wrong about one piece per fault at most, about the entries that were in the
\* file when its map was last read in part, and about one more while a slot changes hands.
THEOREM CacheStaleBounded == Spec => []StaleBounded
<1>1. IInv => StaleBounded
  <2> SUFFICES ASSUME IInv
               PROVE  StaleBounded
    OBVIOUS
  <2>1. /\ w.pc \in {"map", "clear"} => Cardinality(Wrong) <= Credit + 1
        /\ w.pc \notin {"map", "clear"} => Cardinality(Wrong) <= Credit
        /\ Credit \in Nat
    BY WrongIsBounded, CreditIs DEF IInv, Basic
  <2> DEFINE stale == {i \in Pieces : dmap[i] # None /\ store[dmap[i]] # i}
             c == Cardinality(stale)
             k == faults + orphans
  <2>2. Wrong = stale /\ Credit = k
    BY DEF Wrong, Credit
  <2>3. /\ w.pc \in {"map", "clear"} => c <= k + 1
        /\ w.pc \notin {"map", "clear"} => c <= k
        /\ k \in Nat
    BY <2>1, <2>2
  <2>4. StaleBounded <=> c <= k + (IF w.pc \in {"map", "clear"} THEN 1 ELSE 0)
    BY DEF StaleBounded
  <2> HIDE DEF c, k
  <2>5. QED
    BY <2>3, <2>4
<1>2. QED
  BY <1>1, CacheInductive, PTL

\* Whatever the limit and the size of the torrent: every slot handed out is one of the inverse
\* table until something fails, the file stays within the limit, and a slot's piece has that slot.
THEOREM CacheSafe == Spec => []CacheInv
<1>1. IInv => CacheInv
  BY DEF IInv, Basic, InBounds, FaultFree, Agreed, InvMap, CacheInv, InverseAgrees
<1>2. QED
  BY <1>1, CacheInductive, PTL
=============================================================================
