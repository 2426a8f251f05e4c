------------------------- MODULE TorrentPieceProofs -------------------------
(***************************************************************************)
(* Proofs about TorrentPiece, for any number of pieces, readers, blocks    *)
(* and addresses, with or without a full cache.                            *)
(***************************************************************************)
EXTENDS TorrentPiece, TLAPS

\* The parts of IInv that look at the pieces but not at the readers.
PieceInv ==
    /\ RefcountExact
    /\ OnePerIndex
    /\ FlagsConsistent
    /\ ThreadsConsistent
    /\ NoLimbo

\* The parts that look at the readers.
ReaderInv == ReaderPieceKept /\ ReaderHoldsMutex

\* IInv is its type part and these two.
LEMMA InvParts == IInv <=> TypeOK /\ PieceInv /\ ReaderInv
  BY DEF IInv, PieceInv, ReaderInv

\* torrent_create: the invariant holds of a torrent just opened.
LEMMA InitInv == Init => IInv
<1> SUFFICES ASSUME Init PROVE IInv
    OBVIOUS
<1>1. TypeOK
  BY PieceConstants DEF Init, TypeOK, PieceRec, FreePiece, IdleReader, Pieces,
     CacheState, HashPc, DiskPc, ReaderPc, ReaderRec, HashRec, DiskRec, PendRec, Thread
<1>2. RefcountExact
  BY DEF Init, RefcountExact, FreePiece, Holds, Thread
<1>3. QED
  BY <1>1, <1>2 DEF Init, IInv, OnePerIndex, ReaderPieceKept, ReaderHoldsMutex,
     FlagsConsistent, ThreadsConsistent, NoLimbo, FreePiece, IdleReader, Thread

-----------------------------------------------------------------------------
(* Facts about single records.                                              *)

\* Waking a thread leaves its piece alone and only ends a wait.
LEMMA WakeHash ==
  ASSUME NEW th \in HashRec
  PROVE  /\ Wake(th) \in HashRec
         /\ Wake(th).obj = th.obj
         /\ Wake(th).pc = th.pc \/ (th.pc \in {"none", "wait"} /\ Wake(th).pc = "scan")
         /\ Wake(th).pc \in {"scan", "hash"} \/ Wake(th).missed
  BY DEF Wake, Deaf, HashRec, HashPc

\* The same for bt_diskio_thread.
LEMMA WakeDisk ==
  ASSUME NEW th \in DiskRec
  PROVE  /\ Wake(th) \in DiskRec
         /\ Wake(th).obj = th.obj
         /\ Wake(th).pc = th.pc \/ (th.pc \in {"none", "wait"} /\ Wake(th).pc = "scan")
         /\ Wake(th).pc \in {"scan", "read", "space", "write", "abort"} \/ Wake(th).missed
  BY DEF Wake, Deaf, DiskRec, DiskPc

\* torrent_piece_release takes one reference, or frees.
LEMMA ReleaseRec ==
  ASSUME NEW rec \in PieceRec, rec.refcount >= 1
  PROVE  /\ Release(rec) \in PieceRec
         /\ Release(rec).refcount = rec.refcount - 1
         /\ rec.refcount > 1 => Release(rec) = [rec EXCEPT !.refcount = rec.refcount - 1]
         /\ rec.refcount = 1 => Release(rec) = FreePiece
  BY PieceConstants DEF Release, PieceRec, FreePiece, Pieces

\* tp_refcount++ changes nothing else.
LEMMA RetainedRec ==
  ASSUME NEW rec \in PieceRec, rec.refcount < 3
  PROVE  /\ Retained(rec) \in PieceRec
         /\ Retained(rec).refcount = rec.refcount + 1
         /\ Retained(rec).index = rec.index
         /\ Retained(rec).load_req = rec.load_req
         /\ Retained(rec).complete = rec.complete
         /\ Retained(rec).hash_computed = rec.hash_computed
         /\ Retained(rec).hash_ok = rec.hash_ok
         /\ Retained(rec).blocks = rec.blocks
         /\ Retained(rec).bad = rec.bad
  BY DEF Retained, PieceRec

\* The flags of one piece (a conjunct of FlagsConsistent).
Flags(rec) ==
    /\ rec.load_req => ~rec.complete /\ ~rec.hash_computed /\ rec.blocks = {}
    /\ rec.complete => rec.blocks = {}
    /\ rec.hash_computed => rec.blocks = {}
    /\ rec.hash_ok => rec.hash_computed /\ rec.bad = {}
    /\ rec.complete /\ rec.hash_computed => rec.hash_ok

\* A freed torrent_piece_t has its type and its flags in order.
LEMMA FlagsFree == FreePiece \in PieceRec /\ Flags(FreePiece)
  BY PieceConstants DEF Flags, FreePiece, PieceRec, Pieces

-----------------------------------------------------------------------------
(* The readers.                                                             *)

\* Reader steps that leave pieces and threads alone.
LEMMA ReaderSteps ==
  ASSUME IInv, NEW r \in Readers,
         \/ \E lo, hi \in Pieces : LoadBegin(r, lo, hi)
         \/ LoadWoken(r)
         \/ LoadCopy(r)
  PROVE  IInv'
<1>0. TypeOK /\ PieceInv /\ ReaderInv
  BY InvParts
<1>1. reader[r] \in ReaderRec
  BY <1>0 DEF TypeOK
<1>2. UNCHANGED <<tp, active, cached, hasher, diskio, pend, nbad>>
  BY DEF LoadBegin, LoadWoken, LoadCopy
<1>3. PieceInv'
  BY <1>0, <1>2 DEF PieceInv, RefcountExact, Holds, OnePerIndex, FlagsConsistent,
     ThreadsConsistent, NoLimbo, NeedsHash
<1>4. CASE \E lo, hi \in Pieces : LoadBegin(r, lo, hi)
  <2>1. TypeOK'
    BY <1>0, <1>4 DEF TypeOK, LoadBegin, ReaderRec, ReaderPc
  <2>2. ReaderInv'
    BY <1>0, <1>4, PieceConstants DEF TypeOK, LoadBegin, ReaderInv, ReaderPieceKept,
       ReaderHoldsMutex
  <2>3. QED
    BY <1>3, <2>1, <2>2 DEF IInv, PieceInv, ReaderInv
<1>5. CASE LoadWoken(r)
  <2>0. /\ [reader[r] EXCEPT !.pc = "copy"] \in ReaderRec
        /\ [reader[r] EXCEPT !.pc = "wait"] \in ReaderRec
    BY <1>1 DEF ReaderRec, ReaderPc
  <2>1. TypeOK'
    BY <1>0, <1>5, <2>0 DEF TypeOK, LoadWoken
  <2>2. ReaderInv'
    <3>1. /\ owner = NoOne /\ reader[r].pc = "woken"
          /\ \/ owner' = r
             \/ owner' = NoOne /\ reader'[r].pc = "wait"
          /\ reader'[r].obj = reader[r].obj /\ reader'[r].first = reader[r].first
          /\ \A q \in Readers : q # r => reader'[q] = reader[q]
      BY <1>0, <1>1, <1>5 DEF TypeOK, LoadWoken, ReaderRec
    <3>2. \A q \in Readers : reader[q].pc \notin {"ahead", "find", "copy"}
      BY <1>0, <3>1, PieceConstants DEF ReaderInv, ReaderHoldsMutex
    <3>3. ReaderPieceKept'
      BY <1>0, <1>2, <3>1 DEF ReaderInv, ReaderPieceKept
    <3>4. ReaderHoldsMutex'
      BY <3>1, <3>2 DEF ReaderHoldsMutex
    <3>5. QED
      BY <3>3, <3>4 DEF ReaderInv
  <2>3. QED
    BY <1>3, <2>1, <2>2 DEF IInv, PieceInv, ReaderInv
<1>6. CASE LoadCopy(r)
  <2>0. /\ IdleReader \in ReaderRec
        /\ reader[r].first < reader[r].last =>
             [reader[r] EXCEPT !.pc = "find", !.first = reader[r].first + 1] \in ReaderRec
    <3>1. IdleReader \in ReaderRec
      BY PieceConstants DEF ReaderRec, ReaderPc, IdleReader, Pieces
    <3>2. reader[r].first < reader[r].last => reader[r].first + 1 \in Pieces
      BY <1>1, PieceConstants DEF ReaderRec, Pieces
    <3>3. QED
      BY <1>1, <3>1, <3>2 DEF ReaderRec, ReaderPc
  <2>9. PICK n \in ReaderRec :
          /\ reader' = [reader EXCEPT ![r] = n]
          /\ owner = r
          /\ \/ owner' = r /\ n.pc = "find"
             \/ owner' = NoOne /\ n.pc = "idle"
    <3>0. owner = r
      BY <1>6 DEF LoadCopy
    <3> DEFINE n == [reader[r] EXCEPT !.pc = "find", !.first = reader[r].first + 1]
    <3>1. CASE /\ reader[r].first < reader[r].last
               /\ reader' = [reader EXCEPT ![r] = n]
               /\ UNCHANGED owner
      <4>1. n \in ReaderRec /\ n.pc = "find"
        BY <1>1, <2>0, <3>1 DEF ReaderRec
      <4> HIDE DEF n
      <4>2. QED
        BY <3>0, <3>1, <4>1
    <3>2. CASE reader' = [reader EXCEPT ![r] = IdleReader] /\ owner' = NoOne
      <4>1. IdleReader.pc = "idle"
        BY DEF IdleReader
      <4>2. QED
        BY <2>0, <3>0, <3>2, <4>1
    <3>3. QED
      BY <1>6, <3>1, <3>2, Zenon DEF LoadCopy
  <2>1. TypeOK'
    BY <1>0, <1>2, <2>9, PieceConstants DEF TypeOK
  <2>2. ReaderInv'
    <3>1. /\ owner = r
          /\ \/ owner' = r /\ reader'[r].pc = "find"
             \/ owner' = NoOne /\ reader'[r].pc = "idle"
          /\ \A q \in Readers : q # r => reader'[q] = reader[q]
      BY <1>0, <2>9 DEF TypeOK
    <3>2. QED
      BY <1>0, <1>2, <3>1 DEF ReaderInv, ReaderPieceKept, ReaderHoldsMutex
  <2>3. QED
    BY <1>3, <2>1, <2>2 DEF IInv, PieceInv, ReaderInv
<1>7. QED
  BY <1>4, <1>5, <1>6

-----------------------------------------------------------------------------
(* torrent_piece_find.                                                      *)

\* A new piece is consistent and has something to wait for.
LEMMA NewPieceRec ==
  ASSUME TypeOK, NEW i \in Pieces
  PROVE  /\ NewPiece(i) \in PieceRec
         /\ NewPiece(i).index = i /\ NewPiece(i).refcount = 1
         /\ ~NewPiece(i).hash_computed
         /\ Flags(NewPiece(i))
         /\ NewPiece(i).blocks # {} \/ NewPiece(i).load_req
<1>1. CASE cached[i] # "absent"
  <2>1. NewPiece(i) =
          [index |-> i, refcount |-> 1, load_req |-> TRUE,
           complete |-> FALSE, hash_computed |-> FALSE, hash_ok |-> FALSE,
           on_disk |-> FALSE, disk_fail |-> FALSE, blocks |-> {}, bad |-> Blocks]
    BY <1>1, Zenon DEF NewPiece
  <2>2. QED
    BY <2>1, PieceConstants DEF PieceRec, Flags
<1>2. CASE cached[i] = "absent"
  <2>1. NewPiece(i) =
          [index |-> i, refcount |-> 1, load_req |-> FALSE,
           complete |-> FALSE, hash_computed |-> FALSE, hash_ok |-> FALSE,
           on_disk |-> FALSE, disk_fail |-> FALSE, blocks |-> Blocks, bad |-> Blocks]
    BY <1>2, Zenon DEF NewPiece
  <2>2. QED
    BY <2>1, PieceConstants DEF PieceRec, Flags
<1>3. QED
  BY <1>1, <1>2

\* torrent_piece_find keeps the invariant of the pieces; it returns a piece
\* of the right index that is on the list, and moves no other piece.
LEMMA PieceFindInv ==
  ASSUME IInv, NEW i \in Pieces, NEW o \in Objs, NEW sig \in BOOLEAN,
         PieceFind(i, o, sig), UNCHANGED <<cached, hasher>>
  PROVE  /\ PieceInv'
         /\ tp' \in [Objs -> PieceRec] /\ active' \subseteq Objs
         /\ diskio' \in DiskRec /\ pend' \in PendRec
         /\ o \in active' /\ tp'[o].index = i
         /\ active \subseteq active'
         /\ \A q \in active : tp'[q] = tp[q]
<1>0. TypeOK /\ PieceInv /\ ReaderInv
  BY InvParts
<1> DEFINE ask == ActiveOf(i) = {} /\ cached[i] = "absent"
<1>1. /\ pend' \in PendRec
      /\ pend'.corrupt = pend.corrupt
      /\ pend.signal => pend'.signal
  BY <1>0 DEF PieceFind, TypeOK, PendRec
<1>2. CASE ActiveOf(i) # {}
  <2>1. o \in active /\ tp[o].index = i
    BY <1>2 DEF PieceFind, Found, ActiveOf
  <2>2. tp' = tp /\ active' = active /\ diskio' = diskio
    BY <1>2, <2>1 DEF PieceFind
  <2>3. PieceInv'
    BY <1>0, <1>1, <2>2 DEF TypeOK, PieceInv, RefcountExact, Holds, OnePerIndex,
       FlagsConsistent, ThreadsConsistent, NoLimbo, NeedsHash, PendRec
  <2>4. QED
    BY <1>0, <1>1, <2>1, <2>2, <2>3 DEF TypeOK
<1>3. CASE ActiveOf(i) = {}
  <2>1. o \in Objs /\ tp[o].refcount = 0
    BY <1>3 DEF PieceFind, Found, FreeObjs
  <2>2. o \notin active /\ Holds(hasher, o) = 0 /\ Holds(diskio, o) = 0
    BY <1>0, <2>1 DEF PieceInv, RefcountExact, Holds
  <2>3. /\ NewPiece(i) \in PieceRec
        /\ NewPiece(i).index = i /\ NewPiece(i).refcount = 1
        /\ ~NewPiece(i).hash_computed
        /\ Flags(NewPiece(i))
        /\ NewPiece(i).blocks # {} \/ NewPiece(i).load_req
    BY <1>0, NewPieceRec
  <2>4. tp' = [tp EXCEPT ![o] = NewPiece(i)] /\ active' = active \cup {o}
    BY <1>3 DEF PieceFind
  <2>5. /\ tp' \in [Objs -> PieceRec] /\ tp'[o] = NewPiece(i)
        /\ \A q \in Objs : q # o => tp'[q] = tp[q]
    BY <1>0, <2>3, <2>4 DEF TypeOK
  <2>6. /\ diskio' \in DiskRec /\ diskio'.obj = diskio.obj
        /\ diskio'.pc = diskio.pc \/ (diskio.pc \in {"none", "wait"} /\ diskio'.pc = "scan")
    BY <1>0, <1>3, WakeDisk DEF PieceFind, TypeOK
  <2>7. RefcountExact'
    BY <1>0, <2>2, <2>3, <2>4, <2>5, <2>6 DEF PieceInv, RefcountExact, Holds, TypeOK
  <2>8. OnePerIndex'
    BY <1>0, <1>3, <2>3, <2>4, <2>5 DEF PieceInv, OnePerIndex, ActiveOf, TypeOK
  <2>9. FlagsConsistent'
    BY <1>0, <2>3, <2>5 DEF PieceInv, FlagsConsistent, Flags
  <2>10. ThreadsConsistent'
    BY <1>0, <2>2, <2>4, <2>5, <2>6 DEF PieceInv, ThreadsConsistent, NeedsHash, Holds, TypeOK
  <2>11. NoLimbo'
    BY <1>0, <1>1, <2>3, <2>4, <2>5 DEF PieceInv, NoLimbo, NeedsHash, TypeOK, PendRec
  <2>12. QED
    BY <1>0, <1>1, <2>2, <2>3, <2>4, <2>5, <2>6, <2>7, <2>8, <2>9, <2>10, <2>11
       DEF PieceInv, TypeOK
<1>4. QED
  BY <1>2, <1>3

\* The two steps of torrent_load that look a piece up.
LEMMA LookupSteps ==
  ASSUME IInv, NEW r \in Readers,
         ReadAhead(r) \/ \E o \in Objs : LoadFind(r, o)
  PROVE  IInv'
<1>0. TypeOK /\ PieceInv /\ ReaderInv
  BY InvParts
<1>1. reader[r] \in ReaderRec
  BY <1>0 DEF TypeOK
<1>2. CASE ReadAhead(r)
  <2> DEFINE i == reader[r].first + reader[r].step
  <2>1. /\ PieceInv'
        /\ tp' \in [Objs -> PieceRec] /\ active' \subseteq Objs
        /\ diskio' \in DiskRec /\ pend' \in PendRec
        /\ active \subseteq active'
        /\ \A q \in active : tp'[q] = tp[q]
    <3>1. UNCHANGED <<cached, hasher>>
      BY <1>2 DEF ReadAhead
    <3>2. CASE i < NumPieces /\ \E o \in Objs : PieceFind(i, o, FALSE)
      <4>1. i \in Pieces
        BY <1>1, <3>2, PieceConstants DEF ReaderRec, Pieces
      <4>2. PICK o \in Objs : PieceFind(i, o, FALSE)
        BY <3>2
      <4>3. QED
        BY <3>1, <4>1, <4>2, PieceFindInv
    <3>3. CASE UNCHANGED <<tp, active, diskio, pend>>
      BY <1>0, <3>1, <3>3 DEF TypeOK, PieceInv, RefcountExact, Holds, OnePerIndex,
         FlagsConsistent, ThreadsConsistent, NoLimbo, NeedsHash
    <3>4. QED
      BY <1>2, <3>2, <3>3 DEF ReadAhead
  <2>2. /\ [reader[r] EXCEPT !.step = 2] \in ReaderRec
        /\ [reader[r] EXCEPT !.step = 1, !.pc = "find"] \in ReaderRec
    BY <1>1 DEF ReaderRec, ReaderPc
  <2>3. TypeOK'
    BY <1>0, <1>2, <2>1, <2>2 DEF TypeOK, ReadAhead
  <2>4. /\ owner = r /\ owner' = r
        /\ reader'[r].pc \in {"ahead", "find"}
        /\ \A q \in Readers : q # r => reader'[q] = reader[q]
    BY <1>0, <1>1, <1>2 DEF TypeOK, ReadAhead, ReaderRec
  <2>5. ReaderInv'
    BY <1>0, <2>1, <2>4 DEF ReaderInv, ReaderPieceKept, ReaderHoldsMutex
  <2>6. QED
    BY <2>1, <2>3, <2>5 DEF IInv, PieceInv, ReaderInv
<1>3. CASE \E o \in Objs : LoadFind(r, o)
  <2>1. PICK o \in Objs : LoadFind(r, o)
    BY <1>3
  <2> DEFINE i == reader[r].first
             computed == o \in active /\ tp[o].hash_computed
  <2>2. /\ PieceInv'
        /\ tp' \in [Objs -> PieceRec] /\ active' \subseteq Objs
        /\ diskio' \in DiskRec /\ pend' \in PendRec
        /\ o \in active' /\ tp'[o].index = i
        /\ active \subseteq active'
        /\ \A q \in active : tp'[q] = tp[q]
    <3>1. i \in Pieces
      BY <1>1 DEF ReaderRec
    <3>2. PICK sig \in BOOLEAN : PieceFind(i, o, sig)
      <4>1. PieceFind(i, o, ~computed)
        BY <2>1 DEF LoadFind
      <4>2. QED
        BY <4>1, Zenon
    <3>3. UNCHANGED <<cached, hasher>>
      BY <2>1 DEF LoadFind
    <3>4. QED
      BY <3>1, <3>2, <3>3, PieceFindInv
  <2>3. \A p \in ReaderPc : [reader[r] EXCEPT !.obj = o, !.pc = p] \in ReaderRec
    BY <1>1 DEF ReaderRec
  <2>4. PICK p \in {"copy", "wait"} :
          /\ reader' = [reader EXCEPT ![r] = [@ EXCEPT !.obj = o, !.pc = p]]
          /\ owner' = IF p = "copy" THEN r ELSE NoOne
    BY <2>1 DEF LoadFind
  <2>5. TypeOK'
    <3>1. reader' \in [Readers -> ReaderRec]
      BY <1>0, <2>3, <2>4 DEF TypeOK, ReaderPc
    <3>2. UNCHANGED <<cached, hasher, nbad>>
      BY <2>1 DEF LoadFind
    <3>3. QED
      BY <1>0, <2>2, <2>4, <3>1, <3>2 DEF TypeOK
  <2>6. /\ reader'[r].pc = p /\ reader'[r].obj = o /\ reader'[r].first = i
        /\ \A q \in Readers : q # r => reader'[q] = reader[q]
    BY <1>0, <1>1, <2>4 DEF TypeOK, ReaderRec
  <2>7. owner = r
    BY <2>1 DEF LoadFind
  <2>8. ReaderInv'
    BY <1>0, <2>2, <2>4, <2>6, <2>7 DEF ReaderInv, ReaderPieceKept, ReaderHoldsMutex
  <2>9. QED
    BY <2>2, <2>5, <2>8 DEF IInv, PieceInv, ReaderInv
<1>4. QED
  BY <1>2, <1>3

-----------------------------------------------------------------------------
(* The asyncio thread.                                                      *)

\* What torrent_receive_block does to the piece.
LEMMA ReceivedRec ==
  ASSUME NEW rec \in PieceRec, NEW b \in rec.blocks, NEW good \in BOOLEAN
  PROVE  /\ Received(rec, b, good) \in PieceRec
         /\ Received(rec, b, good).index = rec.index
         /\ Received(rec, b, good).refcount = rec.refcount
         /\ Received(rec, b, good).load_req = rec.load_req
         /\ Received(rec, b, good).hash_computed = rec.hash_computed
         /\ Received(rec, b, good).hash_ok = rec.hash_ok
         /\ Received(rec, b, good).blocks = rec.blocks \ {b}
         /\ Received(rec, b, good).complete = (rec.complete \/ rec.blocks = {b})
<1>1. b \in Blocks
  BY DEF PieceRec
<1>2. (IF good THEN rec.bad \ {b} ELSE rec.bad \cup {b}) \in SUBSET Blocks
  BY <1>1 DEF PieceRec
<1>3. (rec.complete \/ rec.blocks = {b}) \in BOOLEAN
  OBVIOUS
<1>4. QED
  BY <1>2, <1>3 DEF Received, PieceRec

-----------------------------------------------------------------------------
(* Steps that change one piece, or no piece.                                *)

\* Nothing but a wakeup happens to the readers.
ReadersKept ==
    /\ owner' = owner
    /\ \A r \in Readers :
         /\ reader'[r].obj = reader[r].obj /\ reader'[r].first = reader[r].first
         /\ \/ reader'[r].pc = reader[r].pc
            \/ reader[r].pc = "wait" /\ reader'[r].pc = "woken"

\* Where a piece of the list is on its way to (the disjuncts of NoLimbo).
OnItsWay(rec, pd) ==
    \/ rec.blocks # {}
    \/ rec.load_req
    \/ rec.complete /\ ~rec.hash_computed
    \/ rec.hash_ok
    \/ rec.hash_computed /\ pd.corrupt /\ pd.signal

\* A step that replaces the record of piece o and leaves the list alone keeps
\* the invariant when the new record is consistent and the references, the
\* index and the threads' expectations are those of the new record.
LEMMA OnePieceStep ==
  ASSUME IInv, TypeOK', ReadersKept, active' = active,
         NEW o \in Objs, NEW n \in PieceRec,
         tp' = [tp EXCEPT ![o] = n],
         Flags(n),
         o \in active => n.index = tp[o].index /\ OnItsWay(n, pend'),
         pend.corrupt /\ pend.signal => pend'.corrupt /\ pend'.signal,
         n.refcount = (IF o \in active THEN 1 ELSE 0)
                      + Holds(hasher', o) + Holds(diskio', o),
         \A q \in Objs : q # o => /\ Holds(hasher', q) = Holds(hasher, q)
                                  /\ Holds(diskio', q) = Holds(diskio, q),
         ThreadsConsistent'
  PROVE  IInv'
<1>0. TypeOK /\ PieceInv /\ ReaderInv
  BY InvParts
<1>1. tp'[o] = n /\ \A q \in Objs : q # o => tp'[q] = tp[q]
  BY <1>0 DEF TypeOK
<1>2. active \subseteq Objs
  BY <1>0 DEF TypeOK
<1>3. RefcountExact'
  <2> SUFFICES ASSUME NEW q \in Objs
               PROVE  tp'[q].refcount = (IF q \in active' THEN 1 ELSE 0)
                                        + Holds(hasher', q) + Holds(diskio', q)
    BY DEF RefcountExact, Holds
  <2>1. CASE q = o
    BY <1>1, <2>1
  <2>2. CASE q # o
    BY <1>0, <1>1, <2>2 DEF PieceInv, RefcountExact
  <2>3. QED
    BY <2>1, <2>2
<1>4. OnePerIndex'
  BY <1>0, <1>1, <1>2 DEF PieceInv, OnePerIndex
<1>5. FlagsConsistent'
  BY <1>0, <1>1 DEF PieceInv, FlagsConsistent, Flags
<1>6. NoLimbo'
  BY <1>0, <1>1, <1>2 DEF PieceInv, NoLimbo, NeedsHash, OnItsWay
<1>7. ReaderPieceKept'
  BY <1>0, <1>1, <1>2 DEF ReaderInv, ReaderPieceKept, ReadersKept
<1>8. ReaderHoldsMutex'
  BY <1>0 DEF ReaderInv, ReaderHoldsMutex, ReadersKept
<1>9. QED
  BY <1>3, <1>4, <1>5, <1>6, <1>7, <1>8 DEF IInv

\* A step of a thread that keeps its piece, if it has one.
LEMMA NoPieceStep ==
  ASSUME IInv, TypeOK', UNCHANGED <<tp, active, reader, pend>>,
         owner' = owner \/ owner \notin Readers,
         \A q \in Objs : /\ Holds(hasher', q) = Holds(hasher, q)
                         /\ Holds(diskio', q) = Holds(diskio, q),
         ThreadsConsistent'
  PROVE  IInv'
<1>0. TypeOK /\ PieceInv /\ ReaderInv
  BY InvParts
<1>1. RefcountExact'
  BY <1>0 DEF PieceInv, RefcountExact
<1>2. OnePerIndex' /\ FlagsConsistent' /\ NoLimbo'
  BY <1>0 DEF PieceInv, OnePerIndex, FlagsConsistent, NoLimbo, NeedsHash
<1>3. ReaderPieceKept' /\ ReaderHoldsMutex'
  BY <1>0, PieceConstants DEF ReaderInv, ReaderPieceKept, ReaderHoldsMutex
<1>4. QED
  BY <1>1, <1>2, <1>3 DEF IInv

\* torrent_receive_block.
LEMMA RecvBlockStep ==
  ASSUME IInv, NEW o \in Objs, NEW b \in Blocks, NEW good \in BOOLEAN,
         RecvBlock(o, b, good)
  PROVE  IInv'
<1>0. TypeOK /\ PieceInv /\ ReaderInv
  BY InvParts
<1> DEFINE n == Received(tp[o], b, good)
<1>1. /\ o \in active /\ b \in tp[o].blocks
      /\ tp' = [tp EXCEPT ![o] = n]
      /\ UNCHANGED <<active, cached, owner, reader, diskio, pend>>
  BY DEF RecvBlock
<1>2. tp[o] \in PieceRec
  BY <1>0 DEF TypeOK
<1>3. /\ n \in PieceRec /\ n.index = tp[o].index /\ n.refcount = tp[o].refcount
      /\ n.load_req = tp[o].load_req /\ n.hash_computed = tp[o].hash_computed
      /\ n.hash_ok = tp[o].hash_ok /\ n.blocks = tp[o].blocks \ {b}
      /\ n.complete = (tp[o].complete \/ tp[o].blocks = {b})
  BY <1>1, <1>2, ReceivedRec
<1> HIDE DEF n
<1>4. ~tp[o].load_req /\ ~tp[o].complete /\ ~tp[o].hash_computed /\ ~tp[o].hash_ok
  BY <1>0, <1>1 DEF PieceInv, FlagsConsistent
<1>5. /\ hasher' \in HashRec /\ hasher'.obj = hasher.obj
      /\ hasher'.pc = hasher.pc \/ (hasher.pc \in {"none", "wait"} /\ hasher'.pc = "scan")
  BY <1>0, WakeHash DEF RecvBlock, TypeOK
<1>6. nbad' \in 0 .. MaxBad
  BY <1>0, PieceConstants DEF RecvBlock, TypeOK
<1>7. TypeOK'
  BY <1>0, <1>1, <1>3, <1>5, <1>6 DEF TypeOK
<1>8. Flags(n)
  BY <1>3, <1>4 DEF Flags
<1>9. OnItsWay(n, pend')
  BY <1>3, <1>4, <1>1 DEF OnItsWay
<1>10. \A q \in Objs : Holds(hasher', q) = Holds(hasher, q) /\ Holds(diskio', q) = Holds(diskio, q)
  BY <1>1, <1>5 DEF Holds
<1>11. ThreadsConsistent'
  BY <1>0, <1>1, <1>3, <1>4, <1>5 DEF PieceInv, ThreadsConsistent, NeedsHash, TypeOK
<1>12. ReadersKept
  BY <1>1 DEF ReadersKept
<1>13. n.refcount = (IF o \in active THEN 1 ELSE 0) + Holds(hasher', o) + Holds(diskio', o)
  BY <1>0, <1>3, <1>10 DEF PieceInv, RefcountExact
<1>14. QED
  BY <1>1, <1>3, <1>7, <1>8, <1>9, <1>10, <1>11, <1>12, <1>13, OnePieceStep

\* torrent_reload_corrupt_pieces on one piece.
LEMMA ReloadRec ==
  ASSUME NEW rec \in PieceRec, Flags(rec)
  PROVE  /\ ReloadCorrupt(rec) \in PieceRec
         /\ ReloadCorrupt(rec).index = rec.index
         /\ ReloadCorrupt(rec).refcount = rec.refcount
         /\ ReloadCorrupt(rec).load_req = rec.load_req
         /\ ReloadCorrupt(rec).complete = rec.complete
         /\ ReloadCorrupt(rec).hash_ok = rec.hash_ok
         /\ \/ ReloadCorrupt(rec) = rec /\ (rec.hash_computed => rec.hash_ok)
            \/ /\ rec.hash_computed /\ ~rec.hash_ok
               /\ ~ReloadCorrupt(rec).hash_computed
               /\ ReloadCorrupt(rec).blocks = Blocks
<1>1. CASE rec.hash_computed /\ ~rec.hash_ok
  <2>1. ReloadCorrupt(rec) =
          [rec EXCEPT !.hash_computed = FALSE, !.on_disk = FALSE, !.blocks = Blocks]
    BY <1>1 DEF ReloadCorrupt, EnqueueRequests, PieceRec
  <2>2. QED
    BY <1>1, <2>1 DEF PieceRec
<1>2. CASE ~(rec.hash_computed /\ ~rec.hash_ok)
  BY <1>2 DEF ReloadCorrupt
<1>3. QED
  BY <1>1, <1>2

\* torrent_check_pendings.  A piece the hash thread found corrupt is neither
\* complete nor to be loaded, so its blocks can be asked for again.
LEMMA CheckPendingsStep ==
  ASSUME IInv, CheckPendings
  PROVE  IInv'
<1>0. TypeOK /\ PieceInv /\ ReaderInv
  BY InvParts
<1>1. \A o \in Objs : tp[o] \in PieceRec /\ Flags(tp[o])
  BY <1>0 DEF TypeOK, PieceInv, FlagsConsistent, Flags
<1>2. /\ UNCHANGED <<active, cached, owner, reader, hasher, diskio, nbad>>
      /\ active \subseteq Objs
  BY <1>0 DEF CheckPendings, TypeOK
<1>3. pend' \in PendRec
  BY <1>0, Zenon DEF CheckPendings, TypeOK, PendRec
<1>4. tp' = [o \in Objs |-> IF pend.corrupt /\ o \in active THEN ReloadCorrupt(tp[o])
                            ELSE tp[o]]
  <2>1. tp = [o \in Objs |-> tp[o]]
    BY <1>0 DEF TypeOK
  <2>2. QED
    BY <2>1 DEF CheckPendings
<1>5. \A o \in Objs :
        /\ tp'[o] \in PieceRec
        /\ tp'[o].index = tp[o].index /\ tp'[o].refcount = tp[o].refcount
        /\ tp'[o].load_req = tp[o].load_req
        /\ tp'[o].complete = tp[o].complete /\ tp'[o].hash_ok = tp[o].hash_ok
        /\ \/ tp'[o] = tp[o]
           \/ /\ o \in active
              /\ tp[o].hash_computed /\ ~tp[o].hash_ok
              /\ ~tp'[o].hash_computed /\ tp'[o].blocks = Blocks
  BY <1>1, <1>4, ReloadRec
<1>6. \A o \in active : pend.corrupt /\ tp[o].hash_computed /\ ~tp[o].hash_ok
                          => ~tp'[o].hash_computed /\ tp'[o].blocks = Blocks
  BY <1>1, <1>2, <1>4, ReloadRec
<1>7. TypeOK'
  <2>1. tp' \in [Objs -> PieceRec]
    BY <1>4, <1>5
  <2>2. QED
    BY <1>0, <1>2, <1>3, <2>1 DEF TypeOK
<1>8. RefcountExact'
  BY <1>0, <1>2, <1>5 DEF PieceInv, RefcountExact, Holds
<1>9. OnePerIndex'
  BY <1>0, <1>2, <1>5 DEF PieceInv, OnePerIndex
<1>10. \A o \in Objs : tp[o].hash_computed /\ ~tp[o].hash_ok /\ o \in active
                         => ~tp[o].load_req /\ ~tp[o].complete
  BY <1>1 DEF Flags
<1>11. FlagsConsistent'
  BY <1>0, <1>5, <1>10 DEF PieceInv, FlagsConsistent
<1>12. ThreadsConsistent'
  BY <1>0, <1>2, <1>5 DEF PieceInv, ThreadsConsistent, NeedsHash, TypeOK
<1>13. NoLimbo'
  BY <1>0, <1>2, <1>5, <1>6, PieceConstants DEF PieceInv, NoLimbo, NeedsHash
<1>14. ReaderPieceKept' /\ ReaderHoldsMutex'
  BY <1>0, <1>2, <1>5 DEF ReaderInv, ReaderPieceKept, ReaderHoldsMutex
<1>15. QED
  BY <1>7, <1>8, <1>9, <1>11, <1>12, <1>13, <1>14 DEF IInv

\* torrent_piece_release of a piece somebody else still holds keeps its flags.
LEMMA ReleaseKeeps ==
  ASSUME NEW rec \in PieceRec, rec.refcount > 1
  PROVE  /\ Release(rec).index = rec.index
         /\ Release(rec).load_req = rec.load_req
         /\ Release(rec).complete = rec.complete
         /\ Release(rec).hash_computed = rec.hash_computed
         /\ Release(rec).hash_ok = rec.hash_ok
         /\ Release(rec).blocks = rec.blocks
         /\ Release(rec).bad = rec.bad
  BY DEF Release, PieceRec

\* ... and of any piece, its consistency.
LEMMA ReleaseFlags ==
  ASSUME NEW rec \in PieceRec, rec.refcount >= 1, Flags(rec)
  PROVE  Flags(Release(rec))
<1>1. CASE rec.refcount = 1
  BY <1>1, ReleaseRec, FlagsFree
<1>2. CASE rec.refcount > 1
  BY <1>2, ReleaseKeeps DEF Flags
<1>3. QED
  BY <1>1, <1>2 DEF PieceRec

\* flush_active_pieces.
LEMMA PeriodicStep ==
  ASSUME IInv, NEW drop \in SUBSET active, Periodic(drop)
  PROVE  IInv'
<1>0. TypeOK /\ PieceInv /\ ReaderInv
  BY InvParts
<1>1. /\ drop \subseteq active /\ active \subseteq Objs
      /\ active' = active \ drop
      /\ UNCHANGED <<cached, owner, reader, hasher, diskio, pend, nbad>>
      /\ owner = NoOne
      /\ \A o \in drop : Flushable(o)
  BY <1>0 DEF Periodic, TypeOK
<1>2. \A o \in Objs : tp[o] \in PieceRec /\ Flags(tp[o])
  BY <1>0 DEF TypeOK, PieceInv, FlagsConsistent, Flags
<1>3. \A o \in Objs : Holds(hasher, o) \in {0, 1} /\ Holds(diskio, o) \in {0, 1}
  BY DEF Holds
<1>4. \A o \in drop : tp[o].refcount = 1 + Holds(hasher, o) + Holds(diskio, o)
  BY <1>0, <1>1 DEF PieceInv, RefcountExact
<1>5. \A o \in drop : tp[o].refcount >= 1
  BY <1>1, <1>3, <1>4
<1>6. tp' = [o \in Objs |-> IF o \in drop THEN Release(tp[o]) ELSE tp[o]]
  BY DEF Periodic
<1>7. /\ \A o \in drop : tp'[o] = Release(tp[o])
      /\ \A o \in Objs : o \notin drop => tp'[o] = tp[o]
  BY <1>1, <1>6
<1>8. \A o \in drop : /\ tp'[o] \in PieceRec /\ Flags(tp'[o])
                      /\ tp'[o].refcount = tp[o].refcount - 1
  BY <1>1, <1>2, <1>5, <1>7, ReleaseRec, ReleaseFlags
<1>9. TypeOK'
  <2>1. tp' \in [Objs -> PieceRec]
    BY <1>2, <1>6, <1>7, <1>8
  <2>2. QED
    BY <1>0, <1>1, <2>1 DEF TypeOK
<1>10. RefcountExact'
  <2> SUFFICES ASSUME NEW o \in Objs
               PROVE  tp'[o].refcount = (IF o \in active' THEN 1 ELSE 0)
                                        + Holds(hasher', o) + Holds(diskio', o)
    BY DEF RefcountExact, Holds
  <2>1. CASE o \in drop
    BY <1>1, <1>3, <1>4, <1>8, <2>1
  <2>2. CASE o \notin drop
    BY <1>0, <1>1, <1>7, <2>2 DEF PieceInv, RefcountExact
  <2>3. QED
    BY <2>1, <2>2
<1>11. OnePerIndex' /\ NoLimbo'
  BY <1>0, <1>1, <1>7 DEF PieceInv, OnePerIndex, NoLimbo, NeedsHash
<1>12. FlagsConsistent'
  BY <1>2, <1>7, <1>8 DEF FlagsConsistent, Flags
<1>13. ThreadsConsistent'
  <2>1. \A o \in drop : Holds(hasher, o) = 1 \/ Holds(diskio, o) = 1 =>
          tp[o].refcount > 1
    BY <1>1, <1>3, <1>4
  <2>2. \A o \in Objs : Holds(hasher, o) = 1 \/ Holds(diskio, o) = 1 =>
          /\ tp'[o].complete = tp[o].complete
          /\ tp'[o].hash_computed = tp[o].hash_computed
          /\ tp'[o].hash_ok = tp[o].hash_ok
    BY <1>1, <1>2, <1>7, <2>1, ReleaseKeeps
  <2>3. diskio.pc = "read" => diskio.obj \notin drop
    BY <1>0, <1>1 DEF PieceInv, ThreadsConsistent, Flushable
  <2>4. hasher.pc = "hash" => hasher.obj \in Objs /\ Holds(hasher, hasher.obj) = 1
    BY <1>0 DEF PieceInv, ThreadsConsistent, Holds
  <2>5. diskio.pc \in {"space", "write"} => diskio.obj \in Objs /\ Holds(diskio, diskio.obj) = 1
    BY <1>0 DEF PieceInv, ThreadsConsistent, Holds
  <2>6. QED
    BY <1>0, <1>1, <1>7, <2>2, <2>3, <2>4, <2>5 DEF PieceInv, ThreadsConsistent, NeedsHash
<1>14. ReaderPieceKept'
  <2>1. \A r \in Readers : reader[r].pc # "copy"
    BY <1>0, <1>1, PieceConstants DEF ReaderInv, ReaderHoldsMutex
  <2>2. \A r \in Readers : reader[r].pc \in {"wait", "woken"} => reader[r].obj \notin drop
    BY <1>1 DEF Flushable, ActiveFh
  <2>3. QED
    BY <1>0, <1>1, <1>7, <2>1, <2>2 DEF ReaderInv, ReaderPieceKept
<1>15. ReaderHoldsMutex'
  BY <1>0, <1>1 DEF ReaderInv, ReaderHoldsMutex
<1>16. QED
  BY <1>9, <1>10, <1>11, <1>12, <1>13, <1>14, <1>15 DEF IInv

-----------------------------------------------------------------------------
(* The hash thread.                                                         *)

\* torrent_piece_verify_hash takes a complete piece and drops the mutex.
LEMMA HashPickStep ==
  ASSUME IInv, NEW o \in Objs, HashPick(o)
  PROVE  IInv'
<1>0. TypeOK /\ PieceInv /\ ReaderInv
  BY InvParts
<1> DEFINE n == Retained(tp[o])
<1>1. /\ hasher.pc = "scan" /\ o \in active /\ NeedsHash(o)
      /\ tp' = [tp EXCEPT ![o] = n]
      /\ hasher' = ThreadOn("hash", o)
      /\ UNCHANGED <<active, cached, owner, reader, diskio, pend, nbad>>
  BY DEF HashPick
<1>2. tp[o] \in PieceRec /\ Flags(tp[o])
  BY <1>0 DEF TypeOK, PieceInv, FlagsConsistent, Flags
<1>3. tp[o].refcount = 1 + Holds(diskio, o) /\ Holds(diskio, o) \in {0, 1}
  BY <1>0, <1>1 DEF PieceInv, RefcountExact, Holds
<1>4. /\ n \in PieceRec /\ n.refcount = tp[o].refcount + 1
      /\ n.index = tp[o].index /\ n.load_req = tp[o].load_req
      /\ n.complete = tp[o].complete /\ n.hash_computed = tp[o].hash_computed
      /\ n.hash_ok = tp[o].hash_ok /\ n.blocks = tp[o].blocks /\ n.bad = tp[o].bad
  BY <1>2, <1>3, RetainedRec
<1> HIDE DEF n
<1>5. hasher' \in HashRec
  BY <1>1 DEF HashRec, HashPc, Thread, ThreadOn
<1>6. TypeOK'
  BY <1>0, <1>1, <1>4, <1>5 DEF TypeOK
<1>7. Flags(n) /\ OnItsWay(n, pend')
  BY <1>1, <1>2, <1>4 DEF Flags, OnItsWay, NeedsHash
<1>8. /\ Holds(hasher', o) = 1
      /\ \A q \in Objs : q # o => Holds(hasher', q) = Holds(hasher, q)
      /\ \A q \in Objs : Holds(diskio', q) = Holds(diskio, q)
  BY <1>1 DEF Holds, Thread, ThreadOn
<1>9. ThreadsConsistent'
  BY <1>0, <1>1, <1>4 DEF PieceInv, ThreadsConsistent, NeedsHash, TypeOK, Thread, ThreadOn
<1>10. ReadersKept
  BY <1>1 DEF ReadersKept
<1>11. n.refcount = (IF o \in active THEN 1 ELSE 0) + Holds(hasher', o) + Holds(diskio', o)
  BY <1>1, <1>3, <1>4, <1>8
<1>12. QED
  BY <1>1, <1>4, <1>6, <1>7, <1>8, <1>9, <1>10, <1>11, OnePieceStep

\* The outcome of a check.
LEMMA HashedRec ==
  ASSUME NEW rec \in PieceRec, NEW ok \in BOOLEAN, rec.blocks = {}, ~rec.load_req,
         ok => rec.bad = {}
  PROVE  /\ Hashed(rec, ok) \in PieceRec
         /\ Hashed(rec, ok).index = rec.index
         /\ Hashed(rec, ok).refcount = rec.refcount
         /\ Hashed(rec, ok).hash_computed
         /\ Hashed(rec, ok).hash_ok = ok
         /\ Hashed(rec, ok).load_req = rec.load_req
         /\ Flags(Hashed(rec, ok))
<1>1. CASE ok = TRUE
  <2>1. Hashed(rec, ok) = [rec EXCEPT !.hash_computed = TRUE, !.hash_ok = TRUE,
                                      !.complete = rec.complete]
    BY <1>1 DEF Hashed, PieceRec
  <2>2. QED
    BY <1>1, <2>1 DEF PieceRec, Flags
<1>2. CASE ok = FALSE
  <2>1. Hashed(rec, ok) = [rec EXCEPT !.hash_computed = TRUE, !.hash_ok = FALSE,
                                      !.complete = FALSE]
    BY <1>2 DEF Hashed, PieceRec
  <2>2. QED
    BY <1>2, <2>1 DEF PieceRec, Flags
<1>3. QED
  BY <1>1, <1>2

\* Nobody but the hash thread holds a piece it is hashing.
LEMMA HashAlone ==
  ASSUME IInv, hasher.pc = "hash"
  PROVE  /\ hasher.obj \in Objs /\ NeedsHash(hasher.obj)
         /\ Holds(hasher, hasher.obj) = 1
         /\ Holds(diskio, hasher.obj) = 0
         /\ tp[hasher.obj].refcount = (IF hasher.obj \in active THEN 2 ELSE 1)
         /\ tp[hasher.obj].blocks = {} /\ ~tp[hasher.obj].load_req
<1>0. TypeOK /\ PieceInv /\ ReaderInv
  BY InvParts
<1>1. hasher.obj \in Objs /\ NeedsHash(hasher.obj)
  BY <1>0 DEF PieceInv, ThreadsConsistent
<1>2. tp[hasher.obj].blocks = {} /\ ~tp[hasher.obj].load_req /\ ~tp[hasher.obj].hash_ok
  BY <1>0, <1>1 DEF PieceInv, FlagsConsistent, NeedsHash
<1>3. Holds(hasher, hasher.obj) = 1
  BY DEF Holds
<1>4. Holds(diskio, hasher.obj) = 0
  <2>1. diskio.pc # "hash"
    BY <1>0 DEF TypeOK, DiskRec, DiskPc
  <2>2. QED
    BY <1>0, <1>2, <2>1 DEF Holds, PieceInv, ThreadsConsistent
<1>5. QED
  BY <1>0, <1>1, <1>2, <1>3, <1>4 DEF PieceInv, RefcountExact

\* The end of torrent_piece_verify_hash.
LEMMA HashDoneStep ==
  ASSUME IInv, HashDone
  PROVE  IInv'
<1>0. TypeOK /\ PieceInv /\ ReaderInv
  BY InvParts
<1> DEFINE o  == hasher.obj
           ok == tp[o].bad = {}
           h  == Hashed(tp[o], ok)
           n  == Release(h)
<1>1. /\ hasher.pc = "hash" /\ hasher' = Thread("scan")
      /\ tp' = [tp EXCEPT ![o] = n]
      /\ UNCHANGED <<active, cached, owner, nbad>>
      /\ diskio' = diskio \/ diskio' = Wake(diskio)
  BY DEF HashDone
<1>2. /\ o \in Objs /\ NeedsHash(o)
      /\ Holds(hasher, o) = 1 /\ Holds(diskio, o) = 0
      /\ tp[o].refcount = (IF o \in active THEN 2 ELSE 1)
      /\ tp[o].blocks = {} /\ ~tp[o].load_req
  BY <1>1, HashAlone
<1>3. tp[o] \in PieceRec
  BY <1>0, <1>2 DEF TypeOK
<1>4. ok \in BOOLEAN
  OBVIOUS
<1>5. /\ h \in PieceRec /\ h.index = tp[o].index /\ h.refcount = tp[o].refcount
      /\ h.hash_computed /\ h.hash_ok = ok /\ Flags(h)
  BY <1>2, <1>3, <1>4, HashedRec
<1>6. /\ pend' \in PendRec /\ pend'.signal
      /\ ok \/ pend'.corrupt
      /\ pend.corrupt => pend'.corrupt
  BY <1>0 DEF HashDone, TypeOK, PendRec
<1>7. /\ \A r \in Readers : reader'[r] \in ReaderRec
      /\ reader' \in [Readers -> ReaderRec]
      /\ ReadersKept
  <2>1. reader' = [r \in Readers |->
                     IF reader[r].pc = "wait" THEN [reader[r] EXCEPT !.pc = "woken"]
                     ELSE reader[r]]
    BY DEF HashDone
  <2>2. \A r \in Readers : reader[r] \in ReaderRec /\ [reader[r] EXCEPT !.pc = "woken"] \in ReaderRec
    BY <1>0 DEF TypeOK, ReaderRec, ReaderPc
  <2>3. \A r \in Readers : LET w == [reader[r] EXCEPT !.pc = "woken"]
                           IN  w.pc = "woken" /\ w.obj = reader[r].obj /\ w.first = reader[r].first
    BY <2>2 DEF ReaderRec
  <2>4. QED
    BY <1>1, <2>1, <2>2, <2>3 DEF ReadersKept
<1>8. /\ diskio' \in DiskRec /\ diskio'.obj = diskio.obj
      /\ diskio'.pc = diskio.pc \/ (diskio.pc \in {"none", "wait"} /\ diskio'.pc = "scan")
  BY <1>0, <1>1, WakeDisk DEF TypeOK
<1> HIDE DEF h, ok
<1>9. /\ n \in PieceRec /\ n.refcount = tp[o].refcount - 1 /\ Flags(n)
      /\ o \in active => n.index = tp[o].index /\ n.hash_computed /\ n.hash_ok = ok
  <2>1. h.refcount >= 1 /\ (o \in active => h.refcount > 1)
    BY <1>2, <1>5
  <2>2. QED
    BY <1>5, <2>1, ReleaseRec, ReleaseFlags, ReleaseKeeps
<1> HIDE DEF n
<1>10. TypeOK'
  <2>1. hasher' \in HashRec
    BY <1>1 DEF HashRec, HashPc, Thread, ThreadOn
  <2>2. QED
    BY <1>0, <1>1, <1>6, <1>7, <1>8, <1>9, <2>1 DEF TypeOK
<1>11. o \in active => n.index = tp[o].index /\ OnItsWay(n, pend')
  BY <1>6, <1>9 DEF OnItsWay
<1>12. /\ Holds(hasher', o) = 0 /\ Holds(diskio', o) = 0
       /\ \A q \in Objs : q # o => /\ Holds(hasher', q) = Holds(hasher, q)
                                   /\ Holds(diskio', q) = Holds(diskio, q)
  BY <1>1, <1>2, <1>8 DEF Holds, Thread, ThreadOn
<1>13. n.refcount = (IF o \in active THEN 1 ELSE 0) + Holds(hasher', o) + Holds(diskio', o)
  BY <1>2, <1>9, <1>12
<1>14. ThreadsConsistent'
  <2>1. diskio.pc \in {"read", "space", "write"} => diskio.obj # o
    BY <1>2 DEF Holds
  <2>2. \A q \in Objs : q # o => tp'[q] = tp[q]
    BY <1>0, <1>1 DEF TypeOK
  <2>3. QED
    BY <1>0, <1>1, <1>8, <2>1, <2>2 DEF PieceInv, ThreadsConsistent, TypeOK, Thread, ThreadOn
<1>15. QED
  BY <1>1, <1>2, <1>6, <1>7, <1>9, <1>10, <1>11, <1>12, <1>13, <1>14, OnePieceStep

\* The hash thread going to sleep, timing out and leaving.
LEMMA HashRestSteps ==
  ASSUME IInv, HashIdle \/ HashWait \/ HashTimeout \/ HashExit
  PROVE  IInv'
<1>0. TypeOK /\ PieceInv /\ ReaderInv
  BY InvParts
<1>1. /\ UNCHANGED <<tp, active, cached, reader, diskio, pend, nbad>>
      /\ owner' = owner \/ (owner = NoOne /\ owner' = "hasher") \/ (owner = "hasher" /\ owner' = NoOne)
      /\ hasher' \in HashRec /\ hasher'.obj = hasher.obj
      /\ hasher.pc # "hash" /\ hasher'.pc \in {"scanned", "wait", "late", "none"}
      /\ hasher.pc \in {"scan", "scanned", "wait", "late"}
  BY <1>0 DEF HashIdle, HashWait, HashTimeout, HashExit, TypeOK, HashRec, HashPc
<1>6. owner' = owner \/ owner \notin Readers
  BY <1>1, PieceConstants
<1>2. TypeOK'
  BY <1>0, <1>1 DEF TypeOK
<1>3. \A q \in Objs : Holds(hasher', q) = Holds(hasher, q) /\ Holds(diskio', q) = Holds(diskio, q)
  BY <1>1 DEF Holds
<1>4. ThreadsConsistent'
  BY <1>0, <1>1 DEF PieceInv, ThreadsConsistent, NeedsHash
<1>5. QED
  BY <1>1, <1>2, <1>3, <1>4, <1>6, NoPieceStep

-----------------------------------------------------------------------------
(* The disk thread.                                                         *)

\* torrent_read_from_disk and torrent_write_to_disk taking their reference.
LEMMA DiskTakes ==
  ASSUME IInv, NEW o \in Objs, o \in active, diskio.pc = "scan",
         NEW p \in {"read", "space", "write"},
         p = "read" => tp[o].load_req,
         p \in {"space", "write"} => tp[o].hash_ok,
         diskio' = ThreadOn(p, o),
         tp' = [tp EXCEPT ![o] = Retained(tp[o])],
         cached' \in [Pieces -> CacheState],
         UNCHANGED <<active, owner, reader, hasher, pend, nbad>>
  PROVE  IInv'
<1>0. TypeOK /\ PieceInv /\ ReaderInv
  BY InvParts
<1> DEFINE n == Retained(tp[o])
<1>2. tp[o] \in PieceRec /\ Flags(tp[o])
  BY <1>0 DEF TypeOK, PieceInv, FlagsConsistent, Flags
<1>3. tp[o].refcount = 1 + Holds(hasher, o) /\ Holds(hasher, o) \in {0, 1}
  BY <1>0 DEF PieceInv, RefcountExact, Holds
<1>4. /\ n \in PieceRec /\ n.refcount = tp[o].refcount + 1
      /\ n.index = tp[o].index /\ n.load_req = tp[o].load_req
      /\ n.complete = tp[o].complete /\ n.hash_computed = tp[o].hash_computed
      /\ n.hash_ok = tp[o].hash_ok /\ n.blocks = tp[o].blocks /\ n.bad = tp[o].bad
  BY <1>2, <1>3, RetainedRec
<1> HIDE DEF n
<1>1. tp' = [tp EXCEPT ![o] = n]
  BY DEF n
<1>5. diskio' \in DiskRec
  BY DEF DiskRec, DiskPc, Thread, ThreadOn
<1>6. TypeOK'
  BY <1>0, <1>1, <1>4, <1>5 DEF TypeOK
<1>7. Flags(n) /\ OnItsWay(n, pend')
  BY <1>0, <1>2, <1>4 DEF Flags, OnItsWay
<1>8. /\ Holds(diskio', o) = 1
      /\ \A q \in Objs : q # o => Holds(diskio', q) = Holds(diskio, q)
      /\ \A q \in Objs : Holds(hasher', q) = Holds(hasher, q)
  BY DEF Holds, Thread, ThreadOn
<1>9. ThreadsConsistent'
  BY <1>0, <1>1, <1>4 DEF PieceInv, ThreadsConsistent, NeedsHash, TypeOK, Thread, ThreadOn
<1>10. ReadersKept
  BY DEF ReadersKept
<1>11. n.refcount = (IF o \in active THEN 1 ELSE 0) + Holds(hasher', o) + Holds(diskio', o)
  BY <1>3, <1>4, <1>8
<1>12. QED
  BY <1>1, <1>4, <1>6, <1>7, <1>8, <1>9, <1>10, <1>11, OnePieceStep

\* The disk thread giving a piece back, with its record changed to m.
LEMMA DiskGivesBack ==
  ASSUME IInv, diskio.pc \in {"read", "space", "write"},
         NEW m \in PieceRec, Flags(m),
         m.index = tp[diskio.obj].index,
         m.refcount = tp[diskio.obj].refcount,
         OnItsWay(m, pend),
         tp' = [tp EXCEPT ![diskio.obj] = Release(m)],
         diskio' = Thread("scan"),
         hasher' = hasher \/ hasher' = Wake(hasher),
         cached' \in [Pieces -> CacheState],
         UNCHANGED <<active, owner, reader, pend, nbad>>
  PROVE  IInv'
<1>0. TypeOK /\ PieceInv /\ ReaderInv
  BY InvParts
<1> DEFINE o == diskio.obj
           n == Release(m)
<1>1. o \in Objs
  BY <1>0 DEF PieceInv, ThreadsConsistent, TypeOK
<1>2. Holds(diskio, o) = 1
  BY DEF Holds
<1>3. Holds(hasher, o) = 0
  <2>1. CASE hasher.pc = "hash"
    BY <1>2, <2>1, HashAlone DEF Holds
  <2>2. CASE hasher.pc # "hash"
    BY <1>0, <2>2 DEF Holds, TypeOK, HashRec, HashPc
  <2>3. QED
    BY <2>1, <2>2
<1>4. m.refcount = (IF o \in active THEN 2 ELSE 1)
  BY <1>0, <1>1, <1>2, <1>3 DEF PieceInv, RefcountExact
<1>5. /\ n \in PieceRec /\ n.refcount = m.refcount - 1 /\ Flags(n)
  BY <1>4, ReleaseRec, ReleaseFlags
<1>6. o \in active => n.index = tp[o].index /\ OnItsWay(n, pend')
  BY <1>4, ReleaseKeeps DEF OnItsWay
<1> HIDE DEF n
<1>7. /\ hasher' \in HashRec /\ hasher'.obj = hasher.obj
      /\ hasher'.pc = hasher.pc \/ (hasher.pc \in {"none", "wait"} /\ hasher'.pc = "scan")
  BY <1>0, WakeHash DEF TypeOK
<1>8. tp' = [tp EXCEPT ![o] = n]
  BY DEF n
<1>9. TypeOK'
  <2>1. diskio' \in DiskRec
    BY DEF DiskRec, DiskPc, Thread, ThreadOn
  <2>2. QED
    BY <1>0, <1>5, <1>7, <1>8, <2>1 DEF TypeOK
<1>10. /\ Holds(hasher', o) = 0 /\ Holds(diskio', o) = 0
       /\ \A q \in Objs : q # o => /\ Holds(hasher', q) = Holds(hasher, q)
                                   /\ Holds(diskio', q) = Holds(diskio, q)
  BY <1>3, <1>7 DEF Holds, Thread, ThreadOn
<1>11. n.refcount = (IF o \in active THEN 1 ELSE 0) + Holds(hasher', o) + Holds(diskio', o)
  BY <1>4, <1>5, <1>10
<1>12. ThreadsConsistent'
  <2>1. hasher.pc = "hash" => hasher.obj # o
    BY <1>3 DEF Holds
  <2>2. \A q \in Objs : q # o => tp'[q] = tp[q]
    BY <1>0, <1>8 DEF TypeOK
  <2>3. QED
    BY <1>0, <1>7, <2>1, <2>2 DEF PieceInv, ThreadsConsistent, NeedsHash, Thread, ThreadOn
<1>13. ReadersKept
  BY DEF ReadersKept
<1>14. QED
  BY <1>1, <1>5, <1>6, <1>8, <1>9, <1>10, <1>11, <1>12, <1>13, OnePieceStep

\* The records the disk thread gives back.
LEMMA LoadedRec ==
  ASSUME NEW rec \in PieceRec, NEW data \in SUBSET Blocks, Flags(rec), rec.load_req
  PROVE  /\ Loaded(rec, data) \in PieceRec /\ Flags(Loaded(rec, data))
         /\ Loaded(rec, data).index = rec.index
         /\ Loaded(rec, data).refcount = rec.refcount
         /\ Loaded(rec, data).complete /\ ~Loaded(rec, data).hash_computed
  BY DEF Loaded, PieceRec, Flags

\* What torrent_write_to_disk notes of its result.
LEMMA WrittenRec ==
  ASSUME NEW rec \in PieceRec, NEW ok \in BOOLEAN, Flags(rec)
  PROVE  /\ Written(rec, ok) \in PieceRec /\ Flags(Written(rec, ok))
         /\ Written(rec, ok).index = rec.index
         /\ Written(rec, ok).refcount = rec.refcount
         /\ Written(rec, ok).hash_ok = rec.hash_ok
  BY DEF Written, PieceRec, Flags

\* Handing out a slot keeps the map's type.
LEMMA AssignSlotType ==
  ASSUME TypeOK, NEW i, NEW v, AssignSlot(i, v)
  PROVE  cached' \in [Pieces -> CacheState]
  BY DEF TypeOK, AssignSlot, CacheState

\* torrent_read_from_disk.
LEMMA DiskReadSteps ==
  ASSUME IInv,
         (\E o \in Objs : DiskReadBegin(o)) \/ \E ok \in BOOLEAN : DiskReadEnd(ok)
  PROVE  IInv'
<1>0. TypeOK /\ PieceInv /\ ReaderInv
  BY InvParts
<1>1. ASSUME NEW o \in Objs, DiskReadBegin(o)
      PROVE  IInv'
  <2>1. /\ diskio.pc = "scan" /\ owner = NoOne /\ o \in active /\ tp[o].load_req
        /\ UNCHANGED <<active, cached, reader, hasher, pend, nbad>>
    BY <1>1 DEF DiskReadBegin
  <2>2. CASE cached[tp[o].index] = "absent"
    <3>1. diskio' = ThreadOn("abort", o) /\ owner' = "diskio" /\ tp' = tp
      BY <1>1, <2>2 DEF DiskReadBegin
    <3>2. TypeOK'
      BY <1>0, <2>1, <3>1 DEF TypeOK, DiskRec, DiskPc, Thread, ThreadOn
    <3>3. \A q \in Objs : Holds(hasher', q) = Holds(hasher, q) /\ Holds(diskio', q) = Holds(diskio, q)
      BY <2>1, <3>1 DEF Holds, Thread, ThreadOn
    <3>4. ThreadsConsistent'
      BY <1>0, <2>1, <3>1 DEF PieceInv, ThreadsConsistent, NeedsHash, Thread, ThreadOn
    <3>5. QED
      BY <2>1, <3>1, <3>2, <3>3, <3>4, NoPieceStep, PieceConstants
  <2>3. CASE cached[tp[o].index] # "absent"
    <3>1. /\ diskio' = ThreadOn("read", o) /\ owner' = owner
          /\ tp' = [tp EXCEPT ![o] = Retained(tp[o])]
      BY <1>1, <2>3 DEF DiskReadBegin
    <3>2. cached' \in [Pieces -> CacheState]
      BY <1>0, <2>1 DEF TypeOK
    <3>3. QED
      BY <2>1, <3>1, <3>2, DiskTakes
  <2>4. QED
    BY <2>2, <2>3
<1>2. ASSUME NEW ok \in BOOLEAN, DiskReadEnd(ok)
      PROVE  IInv'
  <2> DEFINE o == diskio.obj
             data == IF ok /\ cached[tp[o].index] = "good" THEN {} ELSE Blocks
             m == Loaded(tp[o], data)
  <2>1. /\ diskio.pc = "read" /\ tp' = [tp EXCEPT ![o] = Release(m)]
        /\ hasher' = Wake(hasher) /\ diskio' = Thread("scan")
        /\ UNCHANGED <<active, cached, owner, reader, pend, nbad>>
    BY <1>2 DEF DiskReadEnd
  <2>2. o \in Objs /\ tp[o].load_req
    BY <1>0, <2>1 DEF PieceInv, ThreadsConsistent, TypeOK
  <2>3. tp[o] \in PieceRec /\ Flags(tp[o])
    BY <1>0, <2>2 DEF TypeOK, PieceInv, FlagsConsistent, Flags
  <2>4. data \in SUBSET Blocks
    OBVIOUS
  <2> HIDE DEF data
  <2>5. /\ m \in PieceRec /\ Flags(m) /\ m.index = tp[o].index
        /\ m.refcount = tp[o].refcount /\ m.complete /\ ~m.hash_computed
    BY <2>2, <2>3, <2>4, LoadedRec
  <2> HIDE DEF m
  <2>6. OnItsWay(m, pend)
    BY <2>5 DEF OnItsWay
  <2>7. cached' \in [Pieces -> CacheState]
    BY <1>0, <2>1 DEF TypeOK
  <2>8. QED
    BY <2>1, <2>5, <2>6, <2>7, DiskGivesBack
<1>3. QED
  BY <1>1, <1>2

\* torrent_write_to_disk.
LEMMA DiskWriteSteps ==
  ASSUME IInv,
         \/ \E o \in Objs, v \in SUBSET Pieces : DiskWriteBegin(o, v)
         \/ \E v \in SUBSET Pieces : DiskSpace(v)
         \/ DiskGiveUp
         \/ \E ok \in BOOLEAN, c \in CacheState : DiskWriteEnd(ok, c)
  PROVE  IInv'
<1>0. TypeOK /\ PieceInv /\ ReaderInv
  BY InvParts
<1>1. ASSUME NEW o \in Objs, NEW v \in SUBSET Pieces, DiskWriteBegin(o, v)
      PROVE  IInv'
  <2>1. /\ diskio.pc = "scan" /\ o \in active /\ tp[o].hash_ok
        /\ tp' = [tp EXCEPT ![o] = Retained(tp[o])]
        /\ UNCHANGED <<active, owner, reader, hasher, pend, nbad>>
    BY <1>1 DEF DiskWriteBegin, NeedsWrite
  <2>2. PICK p \in {"space", "write"} : diskio' = ThreadOn(p, o)
    BY <1>1 DEF DiskWriteBegin
  <2>3. cached' \in [Pieces -> CacheState]
    BY <1>0, <1>1, AssignSlotType DEF DiskWriteBegin, TypeOK
  <2>4. QED
    BY <2>1, <2>2, <2>3, DiskTakes
<1>2. ASSUME NEW v \in SUBSET Pieces, DiskSpace(v)
      PROVE  IInv'
  <2>1. /\ diskio.pc = "space" /\ diskio' \in DiskRec
        /\ diskio'.pc = "write" /\ diskio'.obj = diskio.obj
        /\ UNCHANGED <<tp, active, owner, reader, hasher, pend, nbad>>
    BY <1>0, <1>2 DEF DiskSpace, TypeOK, DiskRec, DiskPc
  <2>2. cached' \in [Pieces -> CacheState]
    BY <1>0, <1>2, AssignSlotType DEF DiskSpace
  <2>3. TypeOK'
    BY <1>0, <2>1, <2>2 DEF TypeOK
  <2>4. \A q \in Objs : Holds(hasher', q) = Holds(hasher, q) /\ Holds(diskio', q) = Holds(diskio, q)
    BY <2>1 DEF Holds
  <2>5. ThreadsConsistent'
    BY <1>0, <2>1 DEF PieceInv, ThreadsConsistent, NeedsHash
  <2>6. QED
    BY <2>1, <2>3, <2>4, <2>5, NoPieceStep
<1>3. ASSUME NEW ok \in BOOLEAN, diskio.pc \in {"space", "write"},
             tp' = [tp EXCEPT ![diskio.obj] = Release(Written(tp[diskio.obj], ok))],
             diskio' = Thread("scan"),
             cached' \in [Pieces -> CacheState],
             UNCHANGED <<active, owner, reader, hasher, pend, nbad>>
      PROVE  IInv'
  <2> DEFINE o == diskio.obj
             m == Written(tp[o], ok)
  <2>1. o \in Objs /\ tp[o].hash_ok
    BY <1>0, <1>3 DEF PieceInv, ThreadsConsistent
  <2>2. tp[o] \in PieceRec /\ Flags(tp[o])
    BY <1>0, <2>1 DEF TypeOK, PieceInv, FlagsConsistent, Flags
  <2>3. /\ m \in PieceRec /\ Flags(m) /\ m.index = tp[o].index
        /\ m.refcount = tp[o].refcount /\ m.hash_ok
    BY <2>1, <2>2, WrittenRec
  <2>4. tp' = [tp EXCEPT ![o] = Release(m)]
    BY <1>3
  <2> HIDE DEF m
  <2>5. OnItsWay(m, pend)
    BY <2>3 DEF OnItsWay
  <2>6. QED
    BY <1>3, <2>3, <2>4, <2>5, DiskGivesBack
<1>4. CASE DiskGiveUp
  <2>1. cached' \in [Pieces -> CacheState]
    BY <1>0, <1>4 DEF DiskGiveUp, TypeOK
  <2>2. QED
    BY <1>3, <1>4, <2>1 DEF DiskGiveUp
<1>5. ASSUME NEW ok \in BOOLEAN, NEW c \in CacheState, DiskWriteEnd(ok, c)
      PROVE  IInv'
  <2>1. cached' \in [Pieces -> CacheState]
    BY <1>0, <1>5 DEF DiskWriteEnd, TypeOK
  <2>2. QED
    BY <1>3, <1>5, <2>1 DEF DiskWriteEnd
<1>6. QED
  BY <1>1, <1>2, <1>4, <1>5

\* The disk thread going to sleep, timing out and leaving.
LEMMA DiskRestSteps ==
  ASSUME IInv, DiskIdle \/ DiskTimeout \/ DiskExit
  PROVE  IInv'
<1>0. TypeOK /\ PieceInv /\ ReaderInv
  BY InvParts
<1>1. /\ UNCHANGED <<tp, active, cached, owner, reader, hasher, pend, nbad>>
      /\ diskio' \in DiskRec /\ diskio'.obj = diskio.obj
      /\ diskio'.pc \in {"wait", "late", "none"}
      /\ diskio.pc \in {"scan", "wait", "late"}
  BY <1>0 DEF DiskIdle, DiskTimeout, DiskExit, TypeOK, DiskRec, DiskPc
<1>2. TypeOK'
  BY <1>0, <1>1 DEF TypeOK
<1>3. \A q \in Objs : Holds(hasher', q) = Holds(hasher, q) /\ Holds(diskio', q) = Holds(diskio, q)
  BY <1>1 DEF Holds
<1>4. ThreadsConsistent'
  BY <1>0, <1>1 DEF PieceInv, ThreadsConsistent, NeedsHash
<1>5. QED
  BY <1>1, <1>2, <1>3, <1>4, NoPieceStep

-----------------------------------------------------------------------------
(* The theorems.                                                            *)

\* Every step of every thread keeps the invariant.
LEMMA NextInv == IInv /\ [Next]_vars => IInv'
<1> SUFFICES ASSUME IInv, [Next]_vars PROVE IInv'
    OBVIOUS
<1>1. CASE \E r \in Readers : Load(r)
  BY <1>1, ReaderSteps, LookupSteps DEF Load
<1>2. CASE \E o \in Objs, b \in Blocks, good \in BOOLEAN : RecvBlock(o, b, good)
  BY <1>2, RecvBlockStep
<1>3. CASE CheckPendings
  BY <1>3, CheckPendingsStep
<1>4. CASE \E drop \in SUBSET active : Periodic(drop)
  BY <1>4, PeriodicStep
<1>5. CASE Hash \/ HashTimeout
  BY <1>5, HashPickStep, HashDoneStep, HashRestSteps DEF Hash
<1>6. CASE Disk \/ DiskTimeout
  BY <1>6, DiskReadSteps, DiskWriteSteps, DiskRestSteps DEF Disk
<1>7. CASE UNCHANGED vars
  BY <1>7 DEF vars, IInv, TypeOK, RefcountExact, Holds, OnePerIndex, ReaderPieceKept,
     ReaderHoldsMutex, FlagsConsistent, ThreadsConsistent, NoLimbo, NeedsHash
<1>8. QED
  BY <1>1, <1>2, <1>3, <1>4, <1>5, <1>6, <1>7 DEF Next

\* IInv is an invariant of the four threads.
THEOREM Invariance == Spec => []IInv
  BY InitInv, NextInv, PTL DEF Spec

\* The variables keep their types.
THEOREM TypeCorrect == Spec => []TypeOK
  BY Invariance, PTL DEF IInv

\* tp_refcount is exact, so torrent_piece_release never frees a piece that is
\* on the list or in a thread's hands, and frees every other.
THEOREM RefcountsExact == Spec => []RefcountExact
  BY Invariance, PTL DEF IInv

\* flush_active_pieces and torrent_reload_corrupt_pieces never take a piece
\* from under a reader in torrent_load.
THEOREM ReaderKeepsPiece == Spec => []ReaderPieceKept
  BY Invariance, PTL DEF IInv

\* torrent_piece_find never puts a second piece of an index on the list.
THEOREM OnePiecePerIndex == Spec => []OnePerIndex
  BY Invariance, PTL DEF IInv

\* No interleaving leaves an active piece without a next step.
THEOREM NoPieceInLimbo == Spec => []NoLimbo
  BY Invariance, PTL DEF IInv

\* Verified bytes stay what they were when they were verified.
THEOREM VerifiedStaysIntact == Spec => []VerifiedIntact
<1>1. IInv => VerifiedIntact
  BY DEF IInv, FlagsConsistent, VerifiedIntact
<1>2. QED
  BY <1>1, Invariance, PTL

\* The assertions of torrent_piece_enqueue_requests never fail.
THEOREM EnqueuedOnce == Spec => []NoDoubleEnqueue
<1>1. IInv => NoDoubleEnqueue
  BY DEF IInv, TypeOK, FlagsConsistent, NoDoubleEnqueue
<1>2. QED
  BY <1>1, Invariance, PTL

\* What StableWhileHashed says of one step.
StableStep == hasher.pc = "hash" => tp[hasher.obj].bad = tp'[hasher.obj].bad
                                    \/ hasher'.pc # "hash"

\* Each action that changes the piece being hashed is ruled out: its blocks are
\* all in, the disk thread has another one, its address is not free, and the
\* flush leaves the hash thread's reference.
LEMMA NextStable == IInv /\ [Next]_vars => StableStep
<1> SUFFICES ASSUME IInv, [Next]_vars, hasher.pc = "hash", hasher'.pc = "hash"
             PROVE  tp'[hasher.obj].bad = tp[hasher.obj].bad
    BY DEF StableStep
<1>0. TypeOK /\ PieceInv /\ ReaderInv
  BY InvParts
<1> DEFINE h == hasher.obj
<1>1. /\ h \in Objs /\ NeedsHash(h)
      /\ Holds(hasher, h) = 1 /\ Holds(diskio, h) = 0
      /\ tp[h].refcount = (IF h \in active THEN 2 ELSE 1)
      /\ tp[h].blocks = {} /\ ~tp[h].load_req
  BY HashAlone
<1>2. tp[h] \in PieceRec /\ tp \in [Objs -> PieceRec]
  BY <1>0, <1>1 DEF TypeOK
<1>3. tp[h].refcount # 0
  BY <1>1
<1> HIDE DEF h
<1> SUFFICES tp'[h].bad = tp[h].bad
    BY DEF h
<1>4. ASSUME NEW i, NEW o \in Objs, NEW sig, PieceFind(i, o, sig)
      PROVE  tp'[h].bad = tp[h].bad
  BY <1>1, <1>2, <1>3, <1>4 DEF PieceFind, Found, FreeObjs
<1>5. CASE \E r \in Readers : Load(r)
  <2>1. PICK r \in Readers : Load(r)
    BY <1>5
  <2>2. CASE ReadAhead(r)
    BY <1>4, <2>2 DEF ReadAhead
  <2>3. CASE \E o \in Objs : LoadFind(r, o)
    BY <1>4, <2>3 DEF LoadFind
  <2>4. QED
    BY <2>1, <2>2, <2>3 DEF Load, LoadBegin, LoadWoken, LoadCopy
<1>6. CASE \E o \in Objs, b \in Blocks, good \in BOOLEAN : RecvBlock(o, b, good)
  BY <1>1, <1>2, <1>6 DEF RecvBlock
<1>7. CASE CheckPendings
  <2>1. ReloadCorrupt(tp[h]) = tp[h]
    BY <1>1 DEF ReloadCorrupt, NeedsHash
  <2>2. tp'[h] = tp[h]
    BY <1>1, <1>7, <2>1 DEF CheckPendings
  <2>3. QED
    BY <2>2
<1>8. CASE \E drop \in SUBSET active : Periodic(drop)
  <2>1. PICK drop \in SUBSET active : Periodic(drop)
    BY <1>8
  <2>2. CASE h \in drop
    <3>1. tp[h].refcount > 1
      BY <1>1, <2>2
    <3>2. tp'[h] = Release(tp[h])
      BY <1>1, <2>1, <2>2 DEF Periodic
    <3>3. QED
      BY <1>2, <3>1, <3>2, ReleaseKeeps
  <2>3. CASE h \notin drop
    BY <1>1, <2>1, <2>3 DEF Periodic
  <2>4. QED
    BY <2>2, <2>3
<1>9. CASE Hash \/ HashTimeout
  BY <1>9 DEF Hash, HashTimeout, HashPick, HashDone, HashIdle, HashWait, HashExit, Thread
<1>10. CASE Disk \/ DiskTimeout
  <2>1. ASSUME NEW o \in Objs, tp' = [tp EXCEPT ![o] = Retained(tp[o])]
        PROVE  tp'[h].bad = tp[h].bad
    BY <1>1, <1>2, <2>1 DEF Retained, PieceRec
  <2>2. CASE \E o \in Objs : DiskReadBegin(o)
    BY <2>1, <2>2 DEF DiskReadBegin
  <2>3. CASE \E o \in Objs, v \in SUBSET Pieces : DiskWriteBegin(o, v)
    BY <2>1, <2>3 DEF DiskWriteBegin
  <2>4. diskio.pc \in {"read", "space", "write"} => diskio.obj # h
    BY <1>1 DEF Holds
  <2>5. CASE \/ \E ok \in BOOLEAN : DiskReadEnd(ok)
             \/ DiskGiveUp
             \/ \E ok \in BOOLEAN, c \in CacheState : DiskWriteEnd(ok, c)
    BY <1>1, <1>2, <2>4, <2>5 DEF DiskReadEnd, DiskGiveUp, DiskWriteEnd
  <2>6. CASE (\E v \in SUBSET Pieces : DiskSpace(v)) \/ DiskIdle \/ DiskExit \/ DiskTimeout
    BY <2>6 DEF DiskSpace, DiskIdle, DiskExit, DiskTimeout
  <2>7. QED
    BY <1>10, <2>2, <2>3, <2>5, <2>6 DEF Disk
<1>11. CASE UNCHANGED vars
  BY <1>11 DEF vars
<1>12. QED
  BY <1>5, <1>6, <1>7, <1>8, <1>9, <1>10, <1>11 DEF Next

\* The bytes being hashed with the mutex dropped are nobody else's to write.
THEOREM HashedBytesStable == Spec => StableWhileHashed
<1>1. IInv /\ [Next]_vars => [StableStep]_vars
  BY NextStable
<1>2. QED
  BY <1>1, Invariance, PTL DEF Spec, StableWhileHashed, StableStep

-----------------------------------------------------------------------------
(* Work is forgotten only with a wakeup that was missed.                    *)

HashWork == \E o \in active : NeedsHash(o)
LoadWork == \E o \in active : tp[o].load_req
HashAwake == hasher.pc \in {"scan", "hash"} \/ hasher.missed
DiskAwake == diskio.pc \in {"scan", "read", "space", "write", "abort"} \/ diskio.missed

\* WorkNotForgotten by these names.
WorkSeen ==
    /\ HashWork => HashAwake
    /\ LoadWork => DiskAwake

\* A step that raises no work.
NoNewWork ==
    /\ \A o \in active' : NeedsHash(o)' => o \in active /\ NeedsHash(o)
    /\ \A o \in active' : tp'[o].load_req => o \in active /\ tp[o].load_req

\* What a release leaves of a piece's needs.
LEMMA ReleaseNeeds ==
  ASSUME NEW rec \in PieceRec, rec.refcount >= 1
  PROVE  /\ Release(rec).complete => rec.complete
         /\ Release(rec).load_req => rec.load_req
         /\ Release(rec).complete => (Release(rec).hash_computed <=> rec.hash_computed)
<1>1. CASE rec.refcount = 1
  <2>1. Release(rec).complete = FALSE /\ Release(rec).load_req = FALSE
    BY <1>1 DEF Release, FreePiece
  <2>2. QED
    BY <2>1
<1>2. CASE rec.refcount > 1
  BY <1>2, ReleaseKeeps
<1>3. QED
  BY <1>1, <1>2 DEF PieceRec

\* One piece changes, and its needs do not grow.
LEMMA OneChange ==
  ASSUME TypeOK, NEW q \in Objs, NEW rec, tp' = [tp EXCEPT ![q] = rec], active' = active,
         rec.complete /\ ~rec.hash_computed => tp[q].complete /\ ~tp[q].hash_computed,
         rec.load_req => tp[q].load_req
  PROVE  NoNewWork
<1>1. tp \in [Objs -> PieceRec] /\ active \subseteq Objs
  BY DEF TypeOK
<1>2. tp'[q] = rec /\ \A o \in Objs : o # q => tp'[o] = tp[o]
  BY <1>1
<1>3. QED
  BY <1>1, <1>2 DEF NoNewWork, NeedsHash

LEMMA StaysSeen ==
  ASSUME WorkSeen, NoNewWork,
         HashAwake => HashAwake' \/ ~HashWork, DiskAwake => DiskAwake' \/ ~LoadWork
  PROVE  WorkSeen'
<1>1. HashWork' => HashWork
  BY DEF NoNewWork, HashWork
<1>2. LoadWork' => LoadWork
  BY DEF NoNewWork, LoadWork
<1>3. QED
  BY <1>1, <1>2 DEF WorkSeen

LEMMA FindSeen ==
  ASSUME IInv, WorkSeen, NEW i \in Pieces, NEW o \in Objs, NEW sig \in BOOLEAN,
         PieceFind(i, o, sig), UNCHANGED <<cached, hasher>>
  PROVE  WorkSeen'
<1>0. TypeOK /\ tp \in [Objs -> PieceRec] /\ active \subseteq Objs /\ diskio \in DiskRec
  BY DEF IInv, TypeOK
<1>1. CASE ActiveOf(i) # {}
  <2>1. o \in active /\ active' = active /\ tp' = tp /\ diskio' = diskio
    BY <1>1 DEF PieceFind, Found, ActiveOf
  <2>2. NoNewWork
    BY <2>1 DEF NoNewWork, NeedsHash
  <2>3. QED
    BY <2>1, <2>2, StaysSeen DEF WorkSeen, HashAwake, DiskAwake
<1>2. CASE ActiveOf(i) = {}
  <2>1. /\ tp' = [tp EXCEPT ![o] = NewPiece(i)] /\ active' = active \cup {o}
        /\ cached[i] # "absent" => diskio' = Wake(diskio)
        /\ cached[i] = "absent" => diskio' = diskio
    BY <1>2 DEF PieceFind
  <2>2. NewPiece(i).complete = FALSE
    BY DEF NewPiece
  <2>3. NewPiece(i).load_req = (cached[i] # "absent")
    BY DEF NewPiece
  <2>4. tp'[o] = NewPiece(i) /\ \A q \in Objs : q # o => tp'[q] = tp[q]
    BY <1>0, <2>1
  <2>5. HashWork' => HashWork
    BY <1>0, <2>1, <2>2, <2>4 DEF HashWork, NeedsHash
  <2>6. DiskAwake => DiskAwake'
    BY <1>0, <2>1, WakeDisk DEF DiskAwake
  <2>7. LoadWork' => DiskAwake'
    <3>1. CASE cached[i] = "absent"
      <4>1. LoadWork' => LoadWork
        BY <1>0, <2>1, <2>3, <2>4, <3>1 DEF LoadWork
      <4>2. QED
        BY <2>6, <4>1 DEF WorkSeen
    <3>2. CASE cached[i] # "absent"
      BY <1>0, <2>1, <3>2, WakeDisk DEF DiskAwake
    <3>3. QED
      BY <3>1, <3>2
  <2>8. QED
    BY <2>5, <2>6, <2>7 DEF WorkSeen, HashAwake
<1>3. QED
  BY <1>1, <1>2

LEMMA NextSeen ==
  ASSUME IInv, WorkSeen, [Next]_vars
  PROVE  WorkSeen'
<1>0. /\ TypeOK /\ PieceInv /\ ReaderInv /\ tp \in [Objs -> PieceRec] /\ active \subseteq Objs
      /\ hasher \in HashRec /\ diskio \in DiskRec
  BY InvParts DEF TypeOK
<1>1. CASE \E r \in Readers : Load(r)
  <2>1. PICK r \in Readers : Load(r)
    BY <1>1
  <2>0. reader[r].first \in Nat /\ reader[r].step \in Nat /\ reader[r].first \in Pieces
    <3>1. reader[r] \in ReaderRec
      BY <1>0 DEF TypeOK
    <3>2. reader[r].first \in Pieces /\ reader[r].step \in {1, 2}
      BY <3>1 DEF ReaderRec
    <3>3. QED
      BY <3>2, PieceConstants DEF Pieces
  <2>2. CASE ReadAhead(r)
    <3> DEFINE i == reader[r].first + reader[r].step
    <3>1. CASE i < NumPieces /\ \E o \in Objs : PieceFind(i, o, FALSE)
      <4>1. i \in Pieces
        BY <2>0, <3>1, PieceConstants DEF Pieces
      <4>2. UNCHANGED <<cached, hasher>>
        BY <2>2 DEF ReadAhead
      <4>3. QED
        BY <3>1, <4>1, <4>2, FindSeen
    <3>2. CASE UNCHANGED <<tp, active, diskio, pend>>
      <4>1. UNCHANGED <<tp, active, diskio, hasher>>
        BY <2>2, <3>2 DEF ReadAhead
      <4>2. QED
        BY <4>1 DEF WorkSeen, HashWork, LoadWork, HashAwake, DiskAwake, NeedsHash
    <3>3. QED
      BY <2>2, <3>1, <3>2 DEF ReadAhead
  <2>3. CASE \E o \in Objs : LoadFind(r, o)
    <3>1. PICK o \in Objs : LoadFind(r, o)
      BY <2>3
    <3> DEFINE c == ~(o \in active /\ tp[o].hash_computed)
    <3>2. c \in BOOLEAN
      OBVIOUS
    <3>3. PieceFind(reader[r].first, o, c) /\ UNCHANGED <<cached, hasher>>
      BY <3>1 DEF LoadFind
    <3> HIDE DEF c
    <3>4. QED
      BY <2>0, <3>2, <3>3, FindSeen
  <2>4. CASE ~ReadAhead(r) /\ ~\E o \in Objs : LoadFind(r, o)
    <3>1. UNCHANGED <<tp, active, diskio, hasher>>
      BY <2>1, <2>4 DEF Load, LoadBegin, LoadWoken, LoadCopy
    <3>2. QED
      BY <3>1 DEF WorkSeen, HashWork, LoadWork, HashAwake, DiskAwake, NeedsHash
  <2>5. QED
    BY <2>2, <2>3, <2>4
<1>2. CASE \E o \in Objs, b \in Blocks, good \in BOOLEAN : RecvBlock(o, b, good)
  <2>1. PICK o \in Objs, b \in Blocks, good \in BOOLEAN : RecvBlock(o, b, good)
    BY <1>2
  <2> DEFINE rec == Received(tp[o], b, good)
  <2>2. /\ o \in active /\ b \in tp[o].blocks /\ tp' = [tp EXCEPT ![o] = rec]
        /\ UNCHANGED <<active, diskio>>
        /\ tp[o].blocks = {b} => hasher' = Wake(hasher)
        /\ tp[o].blocks # {b} => hasher' = hasher
    BY <2>1 DEF RecvBlock
  <2>3. /\ rec.load_req = tp[o].load_req /\ rec.hash_computed = tp[o].hash_computed
        /\ rec.complete = (tp[o].complete \/ tp[o].blocks = {b})
    BY <1>0, <2>2, ReceivedRec
  <2> HIDE DEF rec
  <2>4. tp'[o] = rec /\ \A q \in Objs : q # o => tp'[q] = tp[q]
    BY <1>0, <2>2
  <2>5. LoadWork' => LoadWork
    BY <1>0, <2>2, <2>3, <2>4 DEF LoadWork
  <2>6. HashAwake => HashAwake'
    BY <1>0, <2>2, WakeHash DEF HashAwake
  <2>7. HashWork' => HashAwake'
    <3>1. CASE tp[o].blocks # {b}
      <4>1. HashWork' => HashWork
        BY <1>0, <2>2, <2>3, <2>4, <3>1 DEF HashWork, NeedsHash
      <4>2. QED
        BY <2>6, <4>1 DEF WorkSeen
    <3>2. CASE tp[o].blocks = {b}
      BY <1>0, <2>2, <3>2, WakeHash DEF HashAwake
    <3>3. QED
      BY <3>1, <3>2
  <2>8. QED
    BY <2>2, <2>5, <2>6, <2>7 DEF WorkSeen, DiskAwake
<1>3. CASE CheckPendings
  <2>1. UNCHANGED <<active, hasher, diskio>>
    BY <1>3 DEF CheckPendings
  <2>2. ASSUME NEW o \in active
        PROVE  /\ tp'[o].load_req => tp[o].load_req
               /\ NeedsHash(o)' => NeedsHash(o)
    <3>0. o \in Objs /\ tp[o] \in PieceRec
      BY <1>0
    <3>1. CASE tp'[o] = tp[o]
      BY <3>1 DEF NeedsHash
    <3>2. CASE tp'[o] # tp[o]
      <4>1. tp'[o] = ReloadCorrupt(tp[o]) /\ tp[o].hash_computed /\ ~tp[o].hash_ok
        BY <1>0, <1>3, <3>0, <3>2 DEF CheckPendings, ReloadCorrupt
      <4>2. tp'[o] = EnqueueRequests([tp[o] EXCEPT !.hash_computed = FALSE, !.on_disk = FALSE])
        BY <4>1 DEF ReloadCorrupt
      <4>3. ~tp[o].complete
        BY <3>0, <4>1 DEF IInv, FlagsConsistent
      <4>4. tp'[o].complete = tp[o].complete /\ tp'[o].load_req = tp[o].load_req
        BY <3>0, <4>2 DEF EnqueueRequests, PieceRec
      <4>5. QED
        BY <4>3, <4>4 DEF NeedsHash
    <3>3. QED
      BY <3>1, <3>2
  <2>3. NoNewWork
    BY <2>1, <2>2 DEF NoNewWork
  <2>4. QED
    BY <2>1, <2>3, StaysSeen DEF WorkSeen, HashAwake, DiskAwake
<1>4. CASE \E drop \in SUBSET active : Periodic(drop)
  <2>1. PICK drop \in SUBSET active : Periodic(drop)
    BY <1>4
  <2>2. active' = active \ drop /\ UNCHANGED <<hasher, diskio>>
    BY <2>1 DEF Periodic
  <2>3. \A o \in active' : tp'[o] = tp[o]
    BY <1>0, <2>1, <2>2 DEF Periodic
  <2>4. NoNewWork
    BY <2>2, <2>3 DEF NoNewWork, NeedsHash
  <2>5. QED
    BY <2>2, <2>4, StaysSeen DEF WorkSeen, HashAwake, DiskAwake
<1>5. CASE UNCHANGED vars
  BY <1>5 DEF vars, WorkSeen, HashWork, LoadWork, HashAwake, DiskAwake, NeedsHash
<1>6. ASSUME NEW o \in active, tp' = [tp EXCEPT ![o] = Retained(tp[o])], active' = active
      PROVE  NoNewWork
  <2>1. /\ Retained(tp[o]).complete = tp[o].complete /\ Retained(tp[o]).load_req = tp[o].load_req
        /\ Retained(tp[o]).hash_computed = tp[o].hash_computed
    BY <1>0 DEF Retained, PieceRec
  <2>2. QED
    BY <1>0, <1>6, <2>1, OneChange
<1>7. CASE Hash \/ HashTimeout
  <2>1. CASE \E o \in Objs : HashPick(o)
    <3>1. PICK o \in Objs : HashPick(o)
      BY <2>1
    <3>2. o \in active /\ tp' = [tp EXCEPT ![o] = Retained(tp[o])] /\ UNCHANGED <<active, diskio>> /\ hasher'.pc = "hash"
      BY <3>1 DEF HashPick, Thread, ThreadOn
    <3>3. NoNewWork
      BY <1>6, <3>2
    <3>4. QED
      BY <3>2, <3>3, StaysSeen DEF WorkSeen, HashAwake, DiskAwake
  <2>2. CASE HashDone
    <3> DEFINE o == hasher.obj
               ok == tp[o].bad = {}
               rec == Hashed(tp[o], ok)
    <3>1. /\ hasher.pc = "hash" /\ tp' = [tp EXCEPT ![o] = Release(rec)] /\ active' = active
          /\ diskio' \in {diskio, Wake(diskio)} /\ hasher'.pc = "scan"
      BY <2>2 DEF HashDone, Thread, ThreadOn
    <3>2. o \in Objs /\ tp[o].refcount >= 1 /\ tp[o] \in PieceRec /\ NeedsHash(o)
      <4>1. /\ o \in Objs /\ tp[o].refcount = (IF o \in active THEN 2 ELSE 1) /\ NeedsHash(o)
        BY <3>1, HashAlone
      <4>2. QED
        BY <1>0, <4>1
    <3>3. rec \in PieceRec /\ rec.refcount = tp[o].refcount /\ rec.hash_computed = TRUE /\ rec.load_req = tp[o].load_req
      BY <3>2 DEF Hashed, PieceRec
    <3> HIDE DEF rec
    <3>4. NoNewWork
      <4>1. Release(rec).complete => (Release(rec).hash_computed <=> rec.hash_computed)
        BY <3>2, <3>3, ReleaseNeeds
      <4>2. Release(rec).load_req => rec.load_req
        BY <3>2, <3>3, ReleaseNeeds
      <4>3. QED
        BY <1>0, <3>1, <3>2, <3>3, <4>1, <4>2, OneChange
    <3>5. DiskAwake => DiskAwake'
      BY <1>0, <3>1, WakeDisk DEF DiskAwake
    <3>6. QED
      BY <3>1, <3>4, <3>5, StaysSeen DEF HashAwake
  <2>3. CASE HashIdle
    <3>1. UNCHANGED <<tp, active, diskio>> /\ ~HashWork
      BY <1>0, <2>3 DEF HashIdle, HashWork, HashRec
    <3>2. NoNewWork
      BY <3>1 DEF NoNewWork, NeedsHash
    <3>3. QED
      BY <3>1, <3>2, StaysSeen DEF WorkSeen, DiskAwake
  <2>4. CASE HashWait \/ HashTimeout \/ HashExit
    <3>1. /\ UNCHANGED <<tp, active, diskio>> /\ hasher'.missed = hasher.missed
          /\ hasher.pc \in {"scanned", "wait", "late"}
      BY <1>0, <2>4 DEF HashWait, HashTimeout, HashExit, HashRec
    <3>2. NoNewWork
      BY <3>1 DEF NoNewWork, NeedsHash
    <3>3. QED
      BY <3>1, <3>2, StaysSeen DEF WorkSeen, HashAwake, DiskAwake
  <2>5. QED
    BY <1>7, <2>1, <2>2, <2>3, <2>4 DEF Hash
<1>8. CASE Disk \/ DiskTimeout
  <2>1. CASE \E o \in Objs : DiskReadBegin(o)
    <3>1. PICK o \in Objs : DiskReadBegin(o)
      BY <2>1
    <3>2. o \in active /\ UNCHANGED <<active, hasher>> /\ diskio'.pc \in {"abort", "read"}
          /\ (tp' = tp \/ tp' = [tp EXCEPT ![o] = Retained(tp[o])])
      BY <3>1 DEF DiskReadBegin, Thread, ThreadOn
    <3>3. CASE tp' = tp
      <4>1. NoNewWork
        BY <3>2, <3>3 DEF NoNewWork, NeedsHash
      <4>2. QED
        BY <3>2, <4>1, StaysSeen DEF WorkSeen, HashAwake, DiskAwake
    <3>4. CASE tp' = [tp EXCEPT ![o] = Retained(tp[o])]
      <4>1. NoNewWork
        BY <1>6, <3>2, <3>4
      <4>2. QED
        BY <3>2, <4>1, StaysSeen DEF WorkSeen, HashAwake, DiskAwake
    <3>5. QED
      BY <3>2, <3>3, <3>4
  <2>2. CASE \E o \in Objs, v \in SUBSET Pieces : DiskWriteBegin(o, v)
    <3>1. PICK o \in Objs, v \in SUBSET Pieces : DiskWriteBegin(o, v)
      BY <2>2
    <3>2. /\ o \in active /\ UNCHANGED <<active, hasher>> /\ diskio'.pc \in {"space", "write"}
          /\ tp' = [tp EXCEPT ![o] = Retained(tp[o])]
      BY <3>1 DEF DiskWriteBegin, Thread, ThreadOn
    <3>3. NoNewWork
      BY <1>6, <3>2
    <3>4. QED
      BY <3>2, <3>3, StaysSeen DEF WorkSeen, HashAwake, DiskAwake
  <2>3. CASE \E ok \in BOOLEAN : DiskReadEnd(ok)
    <3>1. hasher' = Wake(hasher) /\ diskio'.pc = "scan"
      BY <2>3 DEF DiskReadEnd, Thread, ThreadOn
    <3>2. HashAwake'
      BY <1>0, <3>1, WakeHash DEF HashAwake
    <3>3. QED
      BY <3>1, <3>2 DEF WorkSeen, DiskAwake
  <2>4. CASE \E v \in SUBSET Pieces : DiskSpace(v)
    <3>1. UNCHANGED <<tp, active, hasher>> /\ diskio'.pc = "write"
      BY <1>0, <2>4 DEF DiskSpace, DiskRec
    <3>2. NoNewWork
      BY <3>1 DEF NoNewWork, NeedsHash
    <3>3. QED
      BY <3>1, <3>2, StaysSeen DEF WorkSeen, HashAwake, DiskAwake
  <2>5. ASSUME NEW ok \in BOOLEAN, diskio.pc \in {"space", "write"},
               tp' = [tp EXCEPT ![diskio.obj] = Release(Written(tp[diskio.obj], ok))],
               diskio' = Thread("scan"), UNCHANGED <<active, hasher>>
        PROVE  WorkSeen'
    <3> DEFINE o == diskio.obj
               rec == Written(tp[o], ok)
    <3>1. o \in Objs /\ tp[o] \in PieceRec
      BY <1>0, <2>5 DEF IInv, ThreadsConsistent
    <3>2. tp[o].refcount >= 1
      <4>1. tp[o].refcount = (IF o \in active THEN 1 ELSE 0) + Holds(hasher, o) + 1
        BY <2>5, <3>1 DEF IInv, RefcountExact, Holds
      <4>2. Holds(hasher, o) \in {0, 1}
        BY DEF Holds
      <4>3. QED
        BY <4>1, <4>2
    <3>3. /\ rec \in PieceRec /\ rec.refcount = tp[o].refcount /\ rec.hash_computed = tp[o].hash_computed
          /\ rec.load_req = tp[o].load_req /\ rec.complete = tp[o].complete
      BY <3>1 DEF Written, PieceRec
    <3> HIDE DEF rec
    <3>4. /\ Release(rec).complete => rec.complete
          /\ Release(rec).load_req => rec.load_req
          /\ Release(rec).complete => (Release(rec).hash_computed <=> rec.hash_computed)
      BY <3>2, <3>3, ReleaseNeeds
    <3>5. tp' = [tp EXCEPT ![o] = Release(rec)] /\ active' = active
      BY <2>5 DEF rec
    <3> HIDE DEF o
    <3>6. NoNewWork
      BY <1>0, <3>1, <3>3, <3>4, <3>5, OneChange
    <3>7. diskio'.pc = "scan" /\ hasher' = hasher
      BY <2>5 DEF Thread
    <3>8. QED
      BY <3>6, <3>7, StaysSeen DEF WorkSeen, HashAwake, DiskAwake
  <2>6. CASE DiskGiveUp \/ \E ok \in BOOLEAN, c \in CacheState : DiskWriteEnd(ok, c)
    BY <2>5, <2>6 DEF DiskGiveUp, DiskWriteEnd
  <2>7. CASE DiskIdle
    <3>1. UNCHANGED <<tp, active, hasher>> /\ ~LoadWork
      BY <1>0, <2>7 DEF DiskIdle, LoadWork, DiskRec
    <3>2. NoNewWork
      BY <3>1 DEF NoNewWork, NeedsHash
    <3>3. QED
      BY <3>1, <3>2, StaysSeen DEF WorkSeen, HashAwake
  <2>8. CASE DiskTimeout \/ DiskExit
    <3>1. /\ UNCHANGED <<tp, active, hasher>> /\ diskio'.missed = diskio.missed
          /\ diskio.pc \in {"wait", "late"}
      BY <1>0, <2>8 DEF DiskTimeout, DiskExit, DiskRec
    <3>2. NoNewWork
      BY <3>1 DEF NoNewWork, NeedsHash
    <3>3. QED
      BY <3>1, <3>2, StaysSeen DEF WorkSeen, HashAwake, DiskAwake
  <2>9. QED
    BY <1>8, <2>1, <2>2, <2>3, <2>4, <2>6, <2>7, <2>8 DEF Disk
<1>9. QED
  BY <1>1, <1>2, <1>3, <1>4, <1>5, <1>7, <1>8 DEF Next

\* A complete piece has a hash thread and a load request a disk thread that is going to look
\* at the list, but for a wakeup in the gap between scan and wait (torrent_receive_block signals
\* without the mutex) or between timeout and exit: there is no third way to forget work.
THEOREM WorkIsSeen == Spec => []WorkNotForgotten
<1>1. Init => WorkSeen
  BY DEF Init, WorkSeen, HashWork, LoadWork
<1>2. IInv /\ WorkSeen /\ [Next]_vars => WorkSeen'
  BY NextSeen
<1>3. WorkSeen => WorkNotForgotten
  BY DEF WorkSeen, WorkNotForgotten, HashWork, LoadWork, HashAwake, DiskAwake
<1>4. QED
  BY <1>1, <1>2, <1>3, Invariance, PTL DEF Spec
=============================================================================
