---------------------------- MODULE TorrentPiece ----------------------------
(***************************************************************************)
(* The life of a torrent_piece_t of one torrent: created by a reader       *)
(* (torrent_load), filled by the network or by the disk cache, hashed by   *)
(* the hash thread, written to the cache by the disk thread, dropped by    *)
(* the once-a-second flush (torrent.c, diskio.c).                          *)
(*                                                                         *)
(* Four kinds of thread share the pieces: the readers, the asyncio thread, *)
(* bt_hash_thread and bt_diskio_thread.  All but the peer callbacks of the *)
(* asyncio thread work under bittorrent_mutex; `owner' is the thread that  *)
(* holds it between two of its steps, any other critical section is one    *)
(* action.  The peer callbacks take no lock, so RecvBlock does not look at *)
(* `owner'.  Which peer a block is asked from, and the serve order, belong *)
(* to PeerRequests.                                                        *)
(***************************************************************************)
EXTENDS Integers, FiniteSets

CONSTANTS
    NumPieces,     \* to_num_pieces
    Objs,          \* addresses a torrent_piece_t can be allocated at
    Readers,       \* threads calling torrent_load
    Blocks,        \* the TORRENT_REQ_SIZE blocks of a piece
    MaxActive,     \* flush_active_pieces keeps this many pieces (20)
    MaxBad,        \* bound: corrupt blocks the network delivers in a run
    CacheFull,     \* whether the disk cache can reach its size limit
    NoOne          \* the mutex has no owner / the thread has no piece

Pieces == 0 .. NumPieces - 1

\* There is always a free address: an active piece per index, and the two
\* threads hold at most one dropped piece each.  Every piece has a block (a last
\* piece of length 0, when the total is an exact multiple, would have none).
ASSUME PieceConstants ==
    /\ NumPieces \in Nat \ {0}
    /\ IsFiniteSet(Objs) /\ Cardinality(Objs) >= NumPieces + 2
    /\ Blocks # {}
    /\ MaxActive \in Nat /\ MaxBad \in Nat
    /\ CacheFull \in BOOLEAN
    /\ NoOne \notin Objs /\ NoOne \notin Readers
    /\ "diskio" \notin Readers /\ NoOne # "diskio"
    /\ "hasher" \notin Readers /\ NoOne # "hasher"

VARIABLES
    tp,       \* [Objs -> PieceRec]: the heap of torrent_piece_t
    active,   \* to_active_pieces
    cached,   \* what to_cachefile_piece_map points at, by piece index
    owner,    \* who holds bittorrent_mutex between two steps: a reader, the
              \* hash thread, NoOne, or "diskio" for good once its assertion has
              \* failed
    reader,   \* the readers' place in torrent_load
    hasher,   \* bt_hash_thread
    diskio,   \* bt_diskio_thread
    pend,     \* flags torrent_check_pendings looks at, and its signal
    nbad      \* corrupt blocks delivered so far (bounded by MaxBad)

vars == <<tp, active, cached, owner, reader, hasher, diskio, pend, nbad>>

\* `blocks': the blocks on tp_waiting_blocks or tp_sent_blocks.  `bad': the
\* blocks whose bytes in tp_data are not the torrent's.
PieceRec ==
    [index : Pieces, refcount : 0 .. 3, load_req : BOOLEAN,
     complete : BOOLEAN, hash_computed : BOOLEAN, hash_ok : BOOLEAN,
     on_disk : BOOLEAN, disk_fail : BOOLEAN,
     blocks : SUBSET Blocks, bad : SUBSET Blocks]

\* "absent": the map entry is -1.  "junk": it is a location whose bytes are
\* not (or not yet) the piece's.
CacheState == {"absent", "good", "junk"}

\* "scan": runs through the list, or is about to.  "scanned": has found nothing
\* to do and is not in the wait yet, the mutex still held.  "wait": in
\* hts_cond_wait_timeout.  "late": the wait has timed out and the thread has
\* not got the mutex back yet.  "none": there is no thread.
HashPc == {"none", "scan", "hash", "scanned", "wait", "late"}

\* "space": in torrent_diskio_scan, mutex dropped.  "read", "write": in the
\* file operation, mutex dropped.  "abort": assert(idx >= 0) failed.
DiskPc == {"none", "scan", "read", "space", "write", "wait", "late", "abort"}

\* "ahead": about to look up the read-ahead piece first + step.  "find": at the
\* top of the loop for piece `first'.  "wait": asleep on
\* torrent_piece_verified_cond.  "woken": signalled, wants the mutex back.
\* "copy": at the memcpy.
ReaderPc == {"idle", "ahead", "find", "wait", "woken", "copy"}

FreePiece ==
    [index |-> 0, refcount |-> 0, load_req |-> FALSE, complete |-> FALSE,
     hash_computed |-> FALSE, hash_ok |-> FALSE, on_disk |-> FALSE,
     disk_fail |-> FALSE, blocks |-> {}, bad |-> {}]

IdleReader == [pc |-> "idle", first |-> 0, last |-> 0, step |-> 1, obj |-> NoOne]

ReaderRec == [pc : ReaderPc, first : Pieces, last : Pieces, step : {1, 2},
              obj : Objs \cup {NoOne}]

\* `missed' is not in the code: a wakeup has met the thread past its last look
\* at the list and outside the wait, and none has reached it since.
HashRec == [pc : HashPc, obj : Objs \cup {NoOne}, missed : BOOLEAN]

DiskRec == [pc : DiskPc, obj : Objs \cup {NoOne}, missed : BOOLEAN]

\* A thread that holds no piece and has missed nothing.
Thread(pc) == [pc |-> pc, obj |-> NoOne, missed |-> FALSE]

\* A thread at work on piece o.
ThreadOn(pc, o) == [pc |-> pc, obj |-> o, missed |-> FALSE]

PendRec == [valid : BOOLEAN, interest : BOOLEAN, corrupt : BOOLEAN, signal : BOOLEAN]

\* Every variable has its type.
TypeOK ==
    /\ tp \in [Objs -> PieceRec]
    /\ active \subseteq Objs
    /\ cached \in [Pieces -> CacheState]
    /\ owner \in Readers \cup {NoOne, "diskio", "hasher"}
    /\ reader \in [Readers -> ReaderRec]
    /\ hasher \in HashRec
    /\ diskio \in DiskRec
    /\ pend \in PendRec
    /\ nbad \in 0 .. MaxBad

\* A torrent just opened, with whatever map torrent_diskio_verify loaded: it
\* checks locations, never the bytes they hold.
Init ==
    /\ tp = [o \in Objs |-> FreePiece]
    /\ active = {}
    /\ cached \in [Pieces -> CacheState]
    /\ owner = NoOne
    /\ reader = [r \in Readers |-> IdleReader]
    /\ hasher = Thread("none")
    /\ diskio = Thread("none")
    /\ pend = [valid |-> FALSE, interest |-> FALSE, corrupt |-> FALSE,
               signal |-> FALSE]
    /\ nbad = 0

-----------------------------------------------------------------------------
(* Helpers shared by the threads.                                          *)

\* The thread is past its look at the list and not in the wait.
Deaf(th) == th.pc \in {"scanned", "late"}

\* Slip: the thread is signalled but never started again.
WakeNoStart(th) ==
    IF th.pc = "wait" THEN [th EXCEPT !.pc = "scan", !.missed = FALSE]
    ELSE [th EXCEPT !.missed = th.missed \/ Deaf(th)]

\* torrent_hash_wakeup and torrent_diskio_wakeup: start the thread unless the
\* running flag is set, then signal.  A thread that is not waiting misses the
\* signal; one that is going to look at the list anyhow does not need it.
Wake(th) ==
    IF th.pc \in {"none", "wait"} THEN [th EXCEPT !.pc = "scan", !.missed = FALSE]
    ELSE [th EXCEPT !.missed = th.missed \/ Deaf(th)]

\* tp->tp_refcount++
Retained(rec) == [rec EXCEPT !.refcount = rec.refcount + 1]

\* Slip: the count is only looked at when it is about to reach zero.
ReleaseLeak(rec) == IF rec.refcount = 1 THEN FreePiece ELSE rec

\* torrent_piece_release
Release(rec) ==
    IF rec.refcount = 1 THEN FreePiece
    ELSE [rec EXCEPT !.refcount = rec.refcount - 1]

\* The readers on tp_active_fh of a piece.
ActiveFh(o) == {r \in Readers : /\ reader[r].obj = o
                                /\ reader[r].pc \in {"wait", "woken"}}

\* Slip: the lookup steps over pieces that are complete.
ActiveIncomplete(i) == {o \in active : tp[o].index = i /\ ~tp[o].complete}

ActiveOf(i) == {o \in active : tp[o].index = i}

FreeObjs == {o \in Objs : tp[o].refcount = 0}

\* What torrent_piece_find can return for index i: the piece on the list, or a
\* newly allocated one.
Found(i) == IF ActiveOf(i) # {} THEN ActiveOf(i) ELSE FreeObjs

\* torrent_piece_enqueue_requests
EnqueueRequests(rec) == [rec EXCEPT !.blocks = Blocks]

\* Slip: no return after the load request.
NewPieceNoReturn(i) ==
    [FreePiece EXCEPT !.index = i, !.refcount = 1, !.blocks = Blocks, !.bad = Blocks,
                      !.load_req = cached[i] # "absent"]

\* A fresh piece: loaded from the cache when the map has it, asked from the
\* peers otherwise.  Its malloc'ed data is nobody's.
NewPiece(i) ==
    [index |-> i, refcount |-> 1, load_req |-> cached[i] # "absent",
     complete |-> FALSE, hash_computed |-> FALSE, hash_ok |-> FALSE,
     on_disk |-> FALSE, disk_fail |-> FALSE,
     blocks |-> IF cached[i] # "absent" THEN {} ELSE Blocks, bad |-> Blocks]

\* torrent_piece_find returning o: its effect on the heap, the list, the disk
\* thread and the pending flags.  `sig': the caller raises
\* torrent_pendings_signal too.
PieceFind(i, o, sig) ==
    LET new == ActiveOf(i) = {}
        ask == new /\ cached[i] = "absent"
    IN
    /\ o \in Found(i)
    /\ tp' = IF new THEN [tp EXCEPT ![o] = NewPiece(i)] ELSE tp
    /\ active' = active \cup {o}
    /\ diskio' = IF new /\ ~ask THEN Wake(diskio) ELSE diskio
    /\ pend' = [pend EXCEPT !.interest = @ \/ ask, !.signal = @ \/ ask \/ sig]

-----------------------------------------------------------------------------
(* Readers: torrent_load, entered with the mutex held by torrent_read.      *)

\* Bytes of pieces lo .. hi are wanted.
LoadBegin(r, lo, hi) ==
    /\ reader[r].pc = "idle" /\ owner = NoOne /\ lo <= hi
    /\ owner' = r
    /\ reader' = [reader EXCEPT ![r] = [pc |-> "ahead", first |-> lo, last |-> hi,
                                        step |-> 1, obj |-> NoOne]]
    /\ UNCHANGED <<tp, active, cached, hasher, diskio, pend, nbad>>

\* "Poor mans read-ahead": pieces lo + 1 and lo + 2, when they exist.
ReadAhead(r) ==
    LET i == reader[r].first + reader[r].step IN
    /\ reader[r].pc = "ahead" /\ owner = r
    /\ \/ i < NumPieces /\ \E o \in Objs : PieceFind(i, o, FALSE)
       \/ i >= NumPieces /\ UNCHANGED <<tp, active, diskio, pend>>
    /\ reader' = IF reader[r].step = 1
                 THEN [reader EXCEPT ![r].step = 2]
                 ELSE [reader EXCEPT ![r] = [@ EXCEPT !.step = 1, !.pc = "find"]]
    /\ UNCHANGED <<cached, owner, hasher, nbad>>

\* The top of the loop, up to the hts_cond_wait (which releases the mutex) or
\* to the memcpy.
LoadFind(r, o) ==
    LET i == reader[r].first
        computed == o \in active /\ tp[o].hash_computed
    IN
    /\ reader[r].pc = "find" /\ owner = r
    /\ PieceFind(i, o, ~computed)
    /\ reader' = [reader EXCEPT ![r] =
                    [@ EXCEPT !.obj = o, !.pc = IF computed THEN "copy" ELSE "wait"]]
    /\ owner' = IF computed THEN r ELSE NoOne
    /\ UNCHANGED <<cached, hasher, nbad>>

\* Back from hts_cond_wait: while(!tp->tp_hash_ok).
LoadWoken(r) ==
    /\ reader[r].pc = "woken" /\ owner = NoOne
    /\ IF tp[reader[r].obj].hash_ok
       THEN /\ owner' = r
            /\ reader' = [reader EXCEPT ![r].pc = "copy"]
       ELSE /\ reader' = [reader EXCEPT ![r].pc = "wait"]
            /\ UNCHANGED owner
    /\ UNCHANGED <<tp, active, cached, hasher, diskio, pend, nbad>>

\* memcpy out of tp_data; then the next piece, or torrent_read unlocks.
LoadCopy(r) ==
    /\ reader[r].pc = "copy" /\ owner = r
    /\ \/ /\ reader[r].first < reader[r].last
          /\ reader' = [reader EXCEPT ![r] = [@ EXCEPT !.pc = "find", !.first = reader[r].first + 1]]
          /\ UNCHANGED owner
       \/ /\ reader[r].first = reader[r].last
          /\ reader' = [reader EXCEPT ![r] = IdleReader]
          /\ owner' = NoOne
    /\ UNCHANGED <<tp, active, cached, hasher, diskio, pend, nbad>>

-----------------------------------------------------------------------------
(* The asyncio thread.                                                     *)

\* torrent_receive_block on its piece: the piece is complete with the last block.
Received(rec, b, good) ==
    [rec EXCEPT !.blocks = rec.blocks \ {b},
                !.bad = IF good THEN rec.bad \ {b} ELSE rec.bad \cup {b},
                !.complete = rec.complete \/ rec.blocks = {b}]

\* torrent_receive_block, called from peer_read_cb: no mutex.
RecvBlock(o, b, good) ==
    /\ o \in active /\ b \in tp[o].blocks
    /\ diskio.pc # "abort"
    /\ IF good THEN UNCHANGED nbad ELSE nbad < MaxBad /\ nbad' = nbad + 1
    /\ tp' = [tp EXCEPT ![o] = Received(tp[o], b, good)]
    /\ hasher' = IF tp[o].blocks = {b} THEN Wake(hasher) ELSE hasher
    /\ UNCHANGED <<active, cached, owner, reader, diskio, pend>>

\* Slip: verified pieces are reloaded too.
ReloadAll(rec) ==
    IF rec.hash_computed
    THEN EnqueueRequests([rec EXCEPT !.hash_computed = FALSE, !.on_disk = FALSE])
    ELSE rec

\* Slip: a piece that came from the disk is not asked from the peers.
ReloadNetworkOnly(rec) ==
    IF rec.hash_computed /\ ~rec.hash_ok
    THEN IF rec.on_disk
         THEN [rec EXCEPT !.hash_computed = FALSE, !.on_disk = FALSE]
         ELSE EnqueueRequests([rec EXCEPT !.hash_computed = FALSE])
    ELSE rec

\* torrent_reload_corrupt_pieces on one piece.
ReloadCorrupt(rec) ==
    IF rec.hash_computed /\ ~rec.hash_ok
    THEN EnqueueRequests([rec EXCEPT !.hash_computed = FALSE, !.on_disk = FALSE])
    ELSE rec

\* torrent_check_pendings.  Announcing (torrent_send_have), interest and
\* requests change the peers only.  Re-enqueuing raises the signal and the
\* interest flag again.
CheckPendings ==
    LET reload == pend.corrupt /\ \E o \in active : /\ tp[o].hash_computed
                                                    /\ ~tp[o].hash_ok
    IN
    /\ pend.signal /\ owner = NoOne
    /\ pend' = [valid |-> FALSE, interest |-> reload, corrupt |-> FALSE,
                signal |-> reload]
    /\ tp' = IF pend.corrupt
             THEN [o \in Objs |-> IF o \in active THEN ReloadCorrupt(tp[o])
                                  ELSE tp[o]]
             ELSE tp
    /\ UNCHANGED <<active, cached, owner, reader, hasher, diskio, nbad>>

\* Slip: pieces with readers are not stepped over.
FlushableUnderReader(o) == ~tp[o].load_req /\ tp[o].blocks = {}

\* The pieces flush_active_pieces does not step over.
Flushable(o) ==
    /\ ~tp[o].load_req
    /\ ActiveFh(o) = {}
    /\ tp[o].blocks = {}

\* flush_active_pieces, from torrent_periodic: destroys flushable pieces until
\* MaxActive are left.  Which ones go first (the list is in order of last use)
\* is left open.
Periodic(drop) ==
    /\ owner = NoOne /\ drop # {}
    /\ drop \subseteq {o \in active : Flushable(o)}
    /\ Cardinality(active) - Cardinality(drop) >= MaxActive
    /\ \/ Cardinality(active) - Cardinality(drop) = MaxActive
       \/ drop = {o \in active : Flushable(o)}
    /\ active' = active \ drop
    /\ tp' = [o \in Objs |-> IF o \in drop THEN Release(tp[o]) ELSE tp[o]]
    /\ UNCHANGED <<cached, owner, reader, hasher, diskio, pend, nbad>>

-----------------------------------------------------------------------------
(* bt_hash_thread and torrent_piece_verify_hash.                            *)

NeedsHash(o) == tp[o].complete /\ ~tp[o].hash_computed

HashPick(o) ==
    /\ hasher.pc = "scan" /\ owner = NoOne
    /\ o \in active /\ NeedsHash(o)
    /\ tp' = [tp EXCEPT ![o] = Retained(tp[o])]
    /\ hasher' = ThreadOn("hash", o)
    /\ UNCHANGED <<active, cached, owner, reader, diskio, pend, nbad>>

\* The outcome of the check on the piece.
Hashed(rec, ok) ==
    [rec EXCEPT !.hash_computed = TRUE, !.hash_ok = ok,
                !.complete = rec.complete /\ ok]

\* The mutex is back.  torrent_piece_release may free the piece, and tp_hash_ok
\* is read after it: of freed memory either value is possible.
HashDone ==
    LET o  == hasher.obj
        ok == tp[o].bad = {}
    IN
    /\ hasher.pc = "hash" /\ owner = NoOne
    /\ tp' = [tp EXCEPT ![o] = Release(Hashed(tp[o], ok))]
    /\ pend' = IF ok THEN [pend EXCEPT !.valid = TRUE, !.signal = TRUE]
               ELSE [pend EXCEPT !.corrupt = TRUE, !.signal = TRUE]
    /\ reader' = [r \in Readers |->
                    IF reader[r].pc = "wait" THEN [reader[r] EXCEPT !.pc = "woken"]
                    ELSE reader[r]]
    /\ \/ ok /\ diskio' = Wake(diskio)
       \/ ~ok /\ diskio' = diskio
       \/ tp[o].refcount = 1 /\ diskio' \in {diskio, Wake(diskio)}
    /\ hasher' = Thread("scan")
    /\ UNCHANGED <<active, cached, owner, nbad>>

\* The scan has found nothing.  The mutex is kept, which does not keep out
\* torrent_receive_block: its signal finds nobody in the wait ...
HashIdle ==
    /\ hasher.pc = "scan" /\ owner = NoOne
    /\ \A o \in active : ~NeedsHash(o)
    /\ hasher' = [hasher EXCEPT !.pc = "scanned"]
    /\ owner' = "hasher"
    /\ UNCHANGED <<tp, active, cached, reader, diskio, pend, nbad>>

\* ... until hts_cond_wait_timeout has been entered, which releases the mutex.
HashWait ==
    /\ hasher.pc = "scanned" /\ owner = "hasher"
    /\ hasher' = [hasher EXCEPT !.pc = "wait"]
    /\ owner' = NoOne
    /\ UNCHANGED <<tp, active, cached, reader, diskio, pend, nbad>>

\* hts_cond_wait_timeout gives up after 60 s, without the mutex ...
HashTimeout ==
    /\ hasher.pc = "wait" /\ diskio.pc # "abort"
    /\ hasher' = [hasher EXCEPT !.pc = "late"]
    /\ UNCHANGED <<tp, active, cached, owner, reader, diskio, pend, nbad>>

\* ... takes it, clears torrent_hash_thread_running and leaves, without a look
\* at the list.
HashExit ==
    /\ hasher.pc = "late" /\ owner = NoOne
    /\ hasher' = [hasher EXCEPT !.pc = "none"]
    /\ UNCHANGED <<tp, active, cached, owner, reader, diskio, pend, nbad>>

-----------------------------------------------------------------------------
(* bt_diskio_thread.                                                        *)

NeedsWrite(o) == tp[o].hash_ok /\ ~tp[o].on_disk /\ ~tp[o].disk_fail

\* torrent_read_from_disk up to the unlock.  A failed assertion ends the program.
DiskReadBegin(o) ==
    /\ diskio.pc = "scan" /\ owner = NoOne
    /\ o \in active /\ tp[o].load_req
    /\ IF cached[tp[o].index] = "absent"
       THEN /\ diskio' = ThreadOn("abort", o)
            /\ owner' = "diskio"
            /\ UNCHANGED tp
       ELSE /\ tp' = [tp EXCEPT ![o] = Retained(tp[o])]
            /\ diskio' = ThreadOn("read", o)
            /\ UNCHANGED owner
    /\ UNCHANGED <<active, cached, reader, hasher, pend, nbad>>

\* A load request is over; `data': the blocks that did not come in right.
Loaded(rec, data) ==
    [rec EXCEPT !.load_req = FALSE, !.complete = TRUE, !.on_disk = TRUE,
                !.bad = data]

\* ... and after it: a short read is not told from a whole one, the hash
\* check is left to find out.
DiskReadEnd(ok) ==
    LET o == diskio.obj
        data == IF ok /\ cached[tp[o].index] = "good" THEN {} ELSE Blocks
    IN
    /\ diskio.pc = "read" /\ owner = NoOne
    /\ tp' = [tp EXCEPT ![o] = Release(Loaded(tp[o], data))]
    /\ hasher' = Wake(hasher)
    /\ diskio' = Thread("scan")
    /\ UNCHANGED <<active, cached, owner, reader, pend, nbad>>

\* The end of torrent_write_to_disk.
Written(rec, ok) ==
    IF ok THEN [rec EXCEPT !.on_disk = TRUE] ELSE [rec EXCEPT !.disk_fail = TRUE]

\* The map side of torrent_write_to_disk: piece i gets a slot, the piece that
\* had it (if any) loses its entry.  Slots are TorrentDiskCache's business.
AssignSlot(i, victims) ==
    cached' = [p \in Pieces |-> IF p = i THEN "junk"
                                ELSE IF p \in victims THEN "absent" ELSE cached[p]]

\* Only a cache that has wrapped around hands out slots in use.
Victims == {{}} \cup (IF CacheFull THEN {{p} : p \in {q \in Pieces : cached[q] # "absent"}}
                      ELSE {})

\* torrent_write_to_disk up to its first unlock: in torrent_diskio_scan when
\* the cache is full, at the file operations otherwise.
DiskWriteBegin(o, victims) ==
    /\ diskio.pc = "scan" /\ owner = NoOne
    /\ o \in active /\ ~tp[o].load_req /\ NeedsWrite(o) /\ victims \in Victims
    /\ tp' = [tp EXCEPT ![o] = Retained(tp[o])]
    /\ \/ /\ CacheFull /\ victims = {}
          /\ diskio' = ThreadOn("space", o)
          /\ UNCHANGED cached
       \/ /\ AssignSlot(tp[o].index, victims)
          /\ diskio' = ThreadOn("write", o)
    /\ UNCHANGED <<active, owner, reader, hasher, pend, nbad>>

\* Back from torrent_diskio_scan: take a slot, or try once more.
DiskSpace(victims) ==
    /\ diskio.pc = "space" /\ owner = NoOne /\ victims \in Victims
    /\ AssignSlot(tp[diskio.obj].index, victims)
    /\ diskio' = [diskio EXCEPT !.pc = "write"]
    /\ UNCHANGED <<tp, active, owner, reader, hasher, pend, nbad>>

\* Both attempts ended in `continue': the piece stays out of the cache.
DiskGiveUp ==
    LET o == diskio.obj IN
    /\ diskio.pc = "space" /\ owner = NoOne
    /\ tp' = [tp EXCEPT ![o] = Release(Written(tp[o], FALSE))]
    /\ diskio' = Thread("scan")
    /\ UNCHANGED <<active, cached, owner, reader, hasher, pend, nbad>>

\* The file operations are over.  `ok': all of them worked.  When they did not,
\* the map keeps its entry, whether the data got there or not.
DiskWriteEnd(ok, content) ==
    LET o == diskio.obj IN
    /\ diskio.pc = "write" /\ owner = NoOne
    /\ content \in IF tp[o].bad # {} THEN {"junk"}
                   ELSE IF ok THEN {"good"} ELSE {"good", "junk"}
    /\ cached' = [cached EXCEPT ![tp[o].index] = content]
    /\ tp' = [tp EXCEPT ![o] = Release(Written(tp[o], ok))]
    /\ diskio' = Thread("scan")
    /\ UNCHANGED <<active, owner, reader, hasher, pend, nbad>>

\* Scan and wait are one step here: torrent_diskio_wakeup is only called with the
\* mutex held.
DiskIdle ==
    /\ diskio.pc = "scan" /\ owner = NoOne
    /\ \A o \in active : ~tp[o].load_req /\ ~NeedsWrite(o)
    /\ diskio' = [diskio EXCEPT !.pc = "wait"]
    /\ UNCHANGED <<tp, active, cached, owner, reader, hasher, pend, nbad>>

DiskTimeout ==
    /\ diskio.pc = "wait"
    /\ diskio' = [diskio EXCEPT !.pc = "late"]
    /\ UNCHANGED <<tp, active, cached, owner, reader, hasher, pend, nbad>>

DiskExit ==
    /\ diskio.pc = "late" /\ owner = NoOne
    /\ diskio' = [diskio EXCEPT !.pc = "none"]
    /\ UNCHANGED <<tp, active, cached, owner, reader, hasher, pend, nbad>>

-----------------------------------------------------------------------------

Load(r) ==
    \/ \E lo, hi \in Pieces : LoadBegin(r, lo, hi)
    \/ ReadAhead(r)
    \/ \E o \in Objs : LoadFind(r, o)
    \/ LoadWoken(r)
    \/ LoadCopy(r)

Hash == (\E o \in Objs : HashPick(o)) \/ HashDone \/ HashIdle \/ HashWait \/ HashExit

Disk ==
    \/ \E o \in Objs : DiskReadBegin(o)
    \/ \E o \in Objs, v \in SUBSET Pieces : DiskWriteBegin(o, v)
    \/ \E ok \in BOOLEAN : DiskReadEnd(ok)
    \/ \E v \in SUBSET Pieces : DiskSpace(v)
    \/ DiskGiveUp
    \/ \E ok \in BOOLEAN, c \in CacheState : DiskWriteEnd(ok, c)
    \/ DiskIdle \/ DiskExit

Next ==
    \/ \E r \in Readers : Load(r)
    \/ \E o \in Objs, b \in Blocks, good \in BOOLEAN : RecvBlock(o, b, good)
    \/ CheckPendings
    \/ \E drop \in SUBSET active : Periodic(drop)
    \/ Hash \/ HashTimeout
    \/ Disk \/ DiskTimeout

Spec == Init /\ [][Next]_vars

\* The asyncio loop, the two threads and a reader that has been called keep
\* running; a thread that keeps asking for the mutex gets it (SF: other readers
\* may hold it now and then); a block that has been asked for arrives sooner or
\* later.  Nothing is assumed of the readers' next calls, of the flush or of
\* the idle timeouts.
Fairness ==
    /\ \A r \in Readers :
         /\ WF_vars(ReadAhead(r) \/ LoadCopy(r) \/ \E o \in Objs : LoadFind(r, o))
         /\ SF_vars(LoadWoken(r))
    /\ WF_vars(\E o \in Objs, b \in Blocks, good \in BOOLEAN : RecvBlock(o, b, good))
    /\ SF_vars(CheckPendings)
    /\ SF_vars(Hash)
    /\ SF_vars(Disk)

FairSpec == Spec /\ Fairness

-----------------------------------------------------------------------------
(* Properties.                                                             *)

Holds(th, o) == IF th.obj = o /\ th.pc \in {"hash", "read", "space", "write"}
                THEN 1 ELSE 0

\* tp_refcount counts the list membership and the threads working on the piece
\* with the mutex dropped (torrent_piece_verify_hash, torrent_read_from_disk,
\* torrent_write_to_disk): the flush frees no piece under a thread's hands, and
\* leaks none.
RefcountExact ==
    \A o \in Objs :
        tp[o].refcount = (IF o \in active THEN 1 ELSE 0)
                         + Holds(hasher, o) + Holds(diskio, o)

\* The piece a reader sleeps on in torrent_load stays on to_active_pieces under
\* the index the reader asked for, whatever is flushed or reloaded meanwhile.
ReaderPieceKept ==
    \A r \in Readers :
        reader[r].pc \in {"wait", "woken", "copy"} =>
            reader[r].obj \in active /\ tp[reader[r].obj].index = reader[r].first

\* A piece is on to_active_pieces at most once, although a dropped one may
\* still be in the hands of the hash or the disk thread.
OnePerIndex ==
    \A o, q \in active : tp[o].index = tp[q].index => o = q

\* Bytes that passed the SHA-1 check are never overwritten afterwards by a late
\* block or by a read from the cache file.
VerifiedIntact ==
    \A o \in Objs : tp[o].hash_ok => tp[o].bad = {} /\ tp[o].blocks = {}

\* An active piece is always on its way: blocks to fetch, a load request, a
\* hash to compute, verified, or corrupt with torrent_check_pendings signalled.
\* No interleaving of the four threads leaves it in none of these states, which
\* would put its readers to sleep for ever.
NoLimbo ==
    \A o \in active :
        \/ tp[o].blocks # {}
        \/ tp[o].load_req
        \/ NeedsHash(o)
        \/ tp[o].hash_ok
        \/ tp[o].hash_computed /\ pend.corrupt /\ pend.signal

\* "We have this piece on disk, signal that we want to load it / and wakeup
\* diskio thread" (torrent_piece_find): a load request has a disk thread that is
\* going to look at the list, and a complete piece a hash thread, unless the last
\* wakeup fell into one of the two windows where nobody hears it: between the hash
\* thread's scan and its wait, which torrent_receive_block's missing lock opens, and
\* between a thread's timeout and its end.
WorkNotForgotten ==
    /\ (\E o \in active : NeedsHash(o)) =>
           hasher.pc \in {"scan", "hash"} \/ hasher.missed
    /\ (\E o \in active : tp[o].load_req) =>
           diskio.pc \in {"scan", "read", "space", "write", "abort"} \/ diskio.missed

\* The assertions of torrent_piece_enqueue_requests when a corrupt piece is
\* reloaded, and a load request is never mixed with block requests.
NoDoubleEnqueue ==
    \A o \in active :
        (tp[o].load_req \/ tp[o].hash_computed \/ tp[o].complete) => tp[o].blocks = {}

\* While the hash thread has the mutex dropped, nobody touches the bytes it is
\* hashing.
StableWhileHashed ==
    [][hasher.pc = "hash" => tp[hasher.obj].bad = tp'[hasher.obj].bad
                             \/ hasher'.pc # "hash"]_vars

\* "Setting hash_computed to 0 again basically means that the piece is not
\* verified": what torrent_load copies to a reader has been verified.
ReaderGetsVerifiedData ==
    \A r \in Readers : reader[r].pc = "copy" => tp[reader[r].obj].hash_ok

\* A reader asleep in torrent_load gets its piece in the end, through corrupt
\* blocks, corrupt cache contents, concurrent flushing and worker threads that come
\* and go, if every missed wakeup is made up for by a later one.  (Nothing in the
\* code sees to that: a piece whose wakeup was missed waits for the next one.)
ReaderServed ==
    ([]<>~(hasher.missed \/ diskio.missed)) =>
        \A r \in Readers : reader[r].pc = "wait" ~> reader[r].pc = "copy"

-----------------------------------------------------------------------------
(* The inductive invariant behind the safety properties.                   *)

\* A reader between the lookup and the memcpy holds the mutex, except asleep.
ReaderHoldsMutex ==
    \A r \in Readers : reader[r].pc \in {"ahead", "find", "copy"} => owner = r

\* The flags of a piece go together in few ways.
FlagsConsistent ==
    \A o \in Objs :
        /\ tp[o].load_req => /\ ~tp[o].complete /\ ~tp[o].hash_computed
                             /\ tp[o].blocks = {}
        /\ tp[o].complete => tp[o].blocks = {}
        /\ tp[o].hash_computed => tp[o].blocks = {}
        /\ tp[o].hash_ok => /\ tp[o].hash_computed /\ tp[o].bad = {}
        /\ tp[o].complete /\ tp[o].hash_computed => tp[o].hash_ok

\* What a thread that has dropped the mutex may rely on when it is back.
ThreadsConsistent ==
    /\ hasher.pc = "hash" => hasher.obj \in Objs /\ NeedsHash(hasher.obj)
    /\ diskio.pc = "read" => diskio.obj \in active /\ tp[diskio.obj].load_req
    /\ diskio.pc \in {"space", "write"} => diskio.obj \in Objs /\ tp[diskio.obj].hash_ok

\* What the code relies on at every release of the mutex: the properties above, the
\* exclusion of flush and readers, and what the flags of a piece mean to the thread
\* that comes next.  It is inductive (TorrentPieceProofs).
IInv ==
    /\ TypeOK
    /\ RefcountExact
    /\ OnePerIndex
    /\ ReaderPieceKept
    /\ ReaderHoldsMutex
    /\ FlagsConsistent
    /\ ThreadsConsistent
    /\ NoLimbo
=============================================================================
