------------------------------ MODULE BlobCache ------------------------------
(***************************************************************************)
(* The cache of downloaded files (blobcache_file.c).  An index in memory,   *)
(* saved to disk now and then, says what is in the cache.  The contents are *)
(* queued by blobcache_put and written by a thread of their own, one file   *)
(* per key, outside the lock; blobcache_get opens a file inside the lock    *)
(* and reads it outside.  The program may crash at any point.               *)
(*                                                                         *)
(* A content, its etag, its times and the hash the index keeps of it are    *)
(* one value.  The content type belongs to the content, bi_content_type_len *)
(* to its length.                                                           *)
(***************************************************************************)
EXTENDS Integers, Sequences, FiniteSets, FiniteSetsExt

CONSTANTS
    Keys, Values,
    Contents,     \* [Keys -> the contents put under the key]
    Size,         \* [Values -> length of the content]
    Ages,         \* the values of maxage
    Important,    \* the keys put with BLOBCACHE_IMPORTANT_ITEM
    MaxSize,      \* what blobcache_compute_maxsize yields
    MaxTime,      \* bound: the clock
    MaxQueue,     \* bound: contents waiting to be written
    MaxPuts,      \* bound: calls of blobcache_put with something new
    MaxFaults,    \* bound: errors of the disk
    MaxBoots,     \* bound: starts of the program
    None,         \* no item, no file, no value
    Partial,      \* a file cut short
    Corrupt       \* an index file that does not pass its checksum

ASSUME BlobConstants ==
    /\ IsFiniteSet(Keys) /\ IsFiniteSet(Values) /\ Important \subseteq Keys
    /\ Contents \in [Keys -> SUBSET Values]
    /\ Size \in [Values -> Nat \ {0}] /\ MaxSize \in Nat /\ Ages \subseteq Nat
    /\ {MaxTime, MaxQueue, MaxPuts, MaxFaults, MaxBoots} \subseteq Nat
    /\ None \notin Values /\ Partial \notin Values \cup {None}

VARIABLES
    items,   \* hashvector: [Keys -> Item or None]
    queue,   \* flush_queue
    file,    \* the files of the keys: [Keys -> Values, Partial or None]
    index,   \* index.dat: a copy of items, or Corrupt
    dirty,   \* index_dirty
    total,   \* current_cache_size
    bcstate, \* "clock" while the clock is bad, "run", "stopping"; "down" without a process
    fl,      \* where flushthread is
    reader,  \* a blobcache_get that reads its file
    now,     \* time(NULL)
    latest,  \* history: the value last put since the start, None after a disk error
    past,    \* history: the values ever put
    puts, faults, boots  \* what is used of the bounds

cache == <<items, queue, file, index, dirty, total>>
hist == <<latest, past>>
bounds == <<puts, faults, boots>>
vars == <<cache, bcstate, fl, reader, now, hist, bounds>>

Item == [content : Values, expiry : Nat, last : 0 .. MaxTime]

\* What stands for no item, a bad index and an open file is nothing else.
ASSUME BlobMarkers ==
    /\ None \notin Item /\ Corrupt \notin [Keys -> Item \cup {None}]
    /\ "live" \notin Values \cup {Partial}

Idle == [st |-> "idle"]

\* A reader has the file open: fh is "live" while the file is still the one of
\* that name, else what the unlinked file holds.  p is the item it goes on to
\* look at: "same", "changed" by a put, or "freed"; sizes are the values p->bi_size
\* has had since the lock was left.
Reader == [st : {"reading"}, key : Keys, want : Values,
           fh : {"live", Partial} \cup Values, p : {"same", "changed", "freed"},
           sizes : SUBSET Nat]

\* Every variable has its type.
TypeOK ==
    /\ items \in [Keys -> Item \cup {None}]
    /\ queue \in Seq([key : Keys, content : Values])
    /\ file \in [Keys -> Values \cup {Partial, None}]
    /\ index = Corrupt \/ index \in [Keys -> Item \cup {None}]
    /\ dirty \in BOOLEAN /\ total \in Nat
    /\ bcstate \in {"clock", "run", "stopping", "down"}
    /\ fl \in {"loop", "sleep", "timed", "open", "write", "done", "none"}
    /\ reader \in Reader \cup {Idle}
    /\ now \in 0 .. MaxTime
    /\ latest \in [Keys -> Values \cup {None}] /\ past \in [Keys -> SUBSET Values]
    /\ puts \in 0 .. MaxPuts /\ faults \in 0 .. MaxFaults /\ boots \in 0 .. MaxBoots

Nothing == [k \in Keys |-> None]

Init ==
    /\ items = Nothing /\ queue = <<>> /\ file = Nothing /\ index = Nothing
    /\ dirty = FALSE /\ total = 0 /\ bcstate = "down" /\ fl = "none"
    /\ reader = Idle /\ now = 0
    /\ latest = Nothing /\ past = [k \in Keys |-> {}]
    /\ puts = 0 /\ faults = 0 /\ boots = 0

-----------------------------------------------------------------------------
(* Files and the index.                                                     *)

Up == bcstate # "down"

Present(it) == {k \in Keys : it[k] # None}

\* The sum of bi_size over the items of ks.
SizeOf(it, ks) == MapThenSumSet(LAMBDA k : Size[it[k].content], ks)

Without(it, ks) == [k \in Keys |-> IF k \in ks THEN None ELSE it[k]]

\* The reader after the files of us are unlinked and the items of fs freed.
ReaderAfter(us, fs) ==
    IF reader = Idle THEN Idle
    ELSE [reader EXCEPT
            !.fh = IF @ = "live" /\ reader.key \in us THEN file[reader.key] ELSE @,
            !.p = IF reader.key \in fs THEN "freed" ELSE @]

\* An operation on the disk fails.
Fault == faults < MaxFaults /\ faults' = faults + 1

\* Slip: index_dirty is cleared before the file is written.
SaveIndexOnce(it, d) ==
    /\ dirty' = FALSE
    /\ \/ index' = (IF d THEN it ELSE index) /\ UNCHANGED faults
       \/ d /\ Fault /\ index' \in {index, Corrupt}

\* save_index, when the items are `it' and index_dirty is d.  The file is cut to
\* nothing before it is written.
SaveIndex(it, d) ==
    \/ ~d /\ dirty' = FALSE /\ UNCHANGED <<index, faults>>
    \/ d /\ index' = it /\ dirty' = FALSE /\ UNCHANGED faults
    \/ d /\ Fault /\ index' \in {index, Corrupt} /\ dirty' = TRUE

\* accesstimecmp: an item with a lower rank is pruned first.
Rank(it, k) == it[k].last + IF k \in Important THEN MaxTime + 1 ELSE 0

\* prune_to_size: the sets of items that may be left.  Items go in the order of their
\* rank, those of one rank in any order, until the rest is smaller than the limit.
Kept(it) ==
    {ks \in SUBSET Present(it) :
        LET gone == Present(it) \ ks IN
        /\ \A a \in gone, b \in ks : Rank(it, a) <= Rank(it, b)
        /\ ks = {} \/ SizeOf(it, ks) < MaxSize
        /\ gone = {} \/ \E a \in gone :
                            /\ \A b \in gone : Rank(it, b) <= Rank(it, a)
                            /\ SizeOf(it, ks \cup {a}) >= MaxSize}

\* prune_stale: the files that are left.
Unstale(it) == Without(file, Keys \ Present(it))

\* load_index: what an index file gives; one that fails its checksum is thrown away.
Loaded == IF index = Corrupt THEN Nothing ELSE index

\* blobcache_init: load_index, prune_stale, prune_to_size; the thread is started.
Boot ==
    /\ bcstate = "down" /\ boots < MaxBoots
    /\ \E ks \in Kept(Loaded) :
          /\ items' = Without(Loaded, Keys \ ks)
          /\ file' = Without(Unstale(Loaded), Present(Loaded) \ ks)
          /\ total' = SizeOf(Loaded, ks)
          /\ SaveIndex(items', ks # Present(Loaded))
    /\ bcstate' = "clock" /\ fl' = "loop" /\ boots' = boots + 1
    /\ UNCHANGED <<queue, reader, now, hist, puts>>

\* The process is gone.
Gone ==
    /\ items' = Nothing /\ queue' = <<>> /\ dirty' = FALSE /\ total' = 0
    /\ bcstate' = "down" /\ fl' = "none" /\ reader' = Idle
    /\ latest' = Nothing

\* A crash.  In the middle of save_index it leaves half an index.
Crash ==
    /\ Up /\ Gone
    /\ index' = index \/ (dirty /\ fl = "timed" /\ index' = Corrupt)
    /\ UNCHANGED <<file, now, past, bounds>>

Tick ==
    /\ now < MaxTime /\ now' = now + 1
    /\ UNCHANGED <<cache, bcstate, fl, reader, hist, bounds>>

-----------------------------------------------------------------------------
(* blobcache_put and blobcache_get.                                         *)

\* Slip: nobody is woken.
SignalLost == fl' = fl

\* hts_cond_signal(&cache_cond)
Signal == fl' = IF fl \in {"sleep", "timed"} THEN "loop" ELSE fl

CanPut(k, v) == v \in Contents[k] /\ bcstate = "run" /\ Signal

AlreadyIn(k, v) == items[k] # None /\ items[k].content = v

\* blobcache_put of what the index has already: nothing is written.
PutAgain(k, v, age) ==
    /\ CanPut(k, v) /\ AlreadyIn(k, v)
    /\ items' = [items EXCEPT ![k] = [content |-> v, expiry |-> now + age, last |-> now]]
    /\ dirty' = TRUE
    /\ past' = [past EXCEPT ![k] = @ \cup {v}]
    /\ UNCHANGED <<queue, file, index, total, bcstate, reader, now, latest, bounds>>

\* Slip: the newest content is at the head.
QueuedFirst(k, v) == <<[key |-> k, content |-> v]>> \o queue

\* The queue with a new content.
Queued(k, v) == Append(queue, [key |-> k, content |-> v])

\* Slip: the old size is taken off after it was overwritten.
ResizedLate(k, v) == total

\* current_cache_size with v in place of what k has.
Resized(k, v) == total - (IF items[k] = None THEN 0 ELSE Size[items[k].content]) + Size[v]

\* blobcache_put of something new.
Put(k, v, age) ==
    /\ CanPut(k, v) /\ Len(queue) < MaxQueue /\ ~AlreadyIn(k, v)
    /\ puts < MaxPuts /\ puts' = puts + 1
    /\ queue' = Queued(k, v)
    /\ items' = [items EXCEPT ![k] = [content |-> v, expiry |-> now + age, last |-> now]]
    /\ total' = Resized(k, v)
    /\ dirty' = TRUE
    /\ reader' = IF reader # Idle /\ reader.key = k /\ reader.p # "freed"
                 THEN [reader EXCEPT !.p = "changed", !.sizes = @ \cup {Size[v]}]
                 ELSE reader
    /\ latest' = [latest EXCEPT ![k] = v]
    /\ past' = [past EXCEPT ![k] = @ \cup {v}]
    /\ UNCHANGED <<file, index, bcstate, now, faults, boots>>

\* Slip: the queue is not looked at.
PendingNever(k) == {}

\* Where the queue has contents of k.
Pending(k) == {i \in DOMAIN queue : queue[i].key = k}

\* The file of k has the length the item says.
Complete(k) == file[k] \in Values /\ Size[file[k]] = Size[items[k].content]

Expired(k) == bcstate = "run" /\ now > items[k].expiry

CanGet(k) == bcstate \in {"clock", "run"} /\ items[k] # None

\* blobcache_get drops the item: it has expired, its file is not there or has
\* not the length the item says.
GetBad(k, ignore) ==
    /\ CanGet(k)
    /\ LET mismatch == file[k] # None /\ ~Complete(k)
           expired == Expired(k) /\ ~ignore IN
       /\ expired \/ (Pending(k) = {} /\ (file[k] = None \/ mismatch))
       /\ file' = [file EXCEPT ![k] = IF mismatch /\ ~expired THEN None ELSE @]
       /\ reader' = ReaderAfter(IF mismatch /\ ~expired THEN {k} ELSE {}, {k})
    /\ items' = [items EXCEPT ![k] = None]
    /\ UNCHANGED <<queue, index, dirty, total, bcstate, fl, now, hist, bounds>>

\* blobcache_get finds the content in the queue, or opens the file (one reader at
\* a time is followed to the end).
GetHit(k, ignore) ==
    /\ CanGet(k) /\ (ignore \/ ~Expired(k))
    /\ IF Pending(k) # {}
       THEN UNCHANGED reader
       ELSE /\ reader = Idle /\ Complete(k)
            /\ reader' = [st |-> "reading", key |-> k, want |-> file[k],
                          fh |-> "live", p |-> "same",
                          sizes |-> {Size[items[k].content]}]
    /\ items' = [items EXCEPT ![k].last = IF bcstate = "run" THEN now ELSE @]
    /\ dirty' = TRUE
    /\ UNCHANGED <<queue, file, index, total, bcstate, fl, now, hist, bounds>>

\* What p->bi_size may be when the reader looks at it, outside the lock.
SizesSeen == IF reader.p = "freed" THEN {Size[v] : v \in Values} ELSE reader.sizes

\* What a read of a file that holds c leaves in the buffer, when it finds three sizes:
\* the one the buffer is made with, the one it reads and the one after which it pads.
\* A content, Partial for parts of contents or a buffer that is not filled, None when
\* there is not enough to read, "overrun" beyond the end of the buffer.
ReadOf(c, room, asked, end) ==
    IF room < asked \/ room < end THEN "overrun"
    ELSE IF c \notin Values \/ asked > Size[c] THEN None
    ELSE IF {room, asked, end} = {Size[c]} THEN c ELSE Partial

\* What the reader may return.
ReadResults ==
    LET c == IF reader.fh = "live" THEN file[reader.key] ELSE reader.fh IN
    {ReadOf(c, room, asked, end) : room, asked, end \in SizesSeen}

\* blobcache_get returns.  Its looks at the item and at the file come at different
\* times; what is true of each of them is true of a read at any time.
GetRead ==
    /\ reader # Idle /\ reader' = Idle
    /\ UNCHANGED <<cache, bcstate, fl, now, hist, bounds>>

\* cache_clear
Clear ==
    /\ Up
    /\ LET ks == Present(items) IN
       /\ items' = Nothing /\ total' = 0
       /\ file' = Without(file, ks)
       /\ reader' = ReaderAfter(ks, ks)
       /\ SaveIndex(Nothing, dirty \/ ks # {})
    /\ UNCHANGED <<queue, bcstate, fl, now, hist, puts, boots>>

\* blobcache_fini
Fini ==
    /\ bcstate \in {"clock", "run"} /\ bcstate' = "stopping" /\ Signal
    /\ UNCHANGED <<cache, reader, now, hist, bounds>>

-----------------------------------------------------------------------------
(* flushthread.                                                             *)

\* The clock is found to be set.
FlushClock ==
    /\ fl = "loop" /\ bcstate = "clock" /\ bcstate' = "run"
    /\ UNCHANGED <<cache, fl, reader, now, hist, bounds>>

\* The top of the loop.
FlushLoop ==
    /\ fl = "loop" /\ bcstate = "run"
    /\ fl' = IF queue # <<>> THEN "open" ELSE IF dirty THEN "timed" ELSE "sleep"
    /\ UNCHANGED <<cache, bcstate, reader, now, hist, bounds>>

\* hts_cond_wait_timeout times out.
FlushTimeout ==
    /\ fl = "timed" /\ fl' = "loop"
    /\ SaveIndex(items, dirty)
    /\ UNCHANGED <<items, queue, file, total, bcstate, reader, now, hist, puts, boots>>

\* The file is opened, which empties it, or cannot be.
FlushOpen ==
    /\ fl = "open"
    /\ LET k == Head(queue).key IN
       \/ /\ file' = [file EXCEPT ![k] = Partial]
          /\ fl' = "write" /\ UNCHANGED <<faults, latest>>
       \/ /\ Fault /\ fl' = "done" /\ UNCHANGED file
          /\ latest' = IF Pending(k) = {1} THEN [latest EXCEPT ![k] = None] ELSE latest
    /\ UNCHANGED <<items, queue, index, dirty, total, bcstate, reader, now, past, puts, boots>>

\* bf_buf
Flushed == Head(queue).content

\* The file is written, unless it was unlinked since; when that fails it is unlinked.
FlushWrite ==
    /\ fl = "write" /\ fl' = "done"
    /\ LET k == Head(queue).key IN
       \/ /\ file' = [file EXCEPT ![k] = IF @ = None THEN None ELSE Flushed]
          /\ UNCHANGED <<faults, latest, reader>>
       \/ /\ Fault
          /\ file' = [file EXCEPT ![k] = None]
          /\ reader' = ReaderAfter({k}, {})
          /\ latest' = IF Pending(k) = {1} THEN [latest EXCEPT ![k] = None] ELSE latest
    /\ UNCHANGED <<items, queue, index, dirty, total, bcstate, now, past, puts, boots>>

TooLarge == MaxSize < total

\* Back in the lock: the content leaves the queue and the cache is pruned.
FlushDone ==
    /\ fl = "done" /\ fl' = "loop"
    /\ queue' = Tail(queue)
    /\ IF TooLarge
       THEN \E ks \in Kept(items) :
              LET gone == Present(items) \ ks IN
              /\ items' = Without(items, gone)
              /\ file' = Without(file, gone)
              /\ total' = SizeOf(items, ks)
              /\ reader' = ReaderAfter(gone, gone)
              /\ SaveIndex(items', dirty \/ gone # {})
       ELSE UNCHANGED <<items, file, index, dirty, total, reader, faults>>
    /\ UNCHANGED <<bcstate, now, hist, puts, boots>>

\* The thread saves the index and ends, and with it the program; what is in the
\* queue is not written.
FlushExit ==
    /\ fl = "loop" /\ bcstate = "stopping"
    /\ \/ dirty /\ index' = items /\ UNCHANGED faults
       \/ dirty /\ Fault /\ index' \in {index, Corrupt}
       \/ ~dirty /\ UNCHANGED <<index, faults>>
    /\ Gone
    /\ UNCHANGED <<file, now, past, puts, boots>>

Flush == FlushClock \/ FlushLoop \/ FlushTimeout \/ FlushOpen \/ FlushWrite \/ FlushDone \/ FlushExit

Next ==
    \/ Boot \/ Crash \/ Tick
    \/ \E k \in Keys, v \in Values, age \in Ages : Put(k, v, age) \/ PutAgain(k, v, age)
    \/ \E k \in Keys, ignore \in BOOLEAN : GetHit(k, ignore) \/ GetBad(k, ignore)
    \/ GetRead \/ Clear \/ Fini
    \/ FlushClock \/ FlushLoop \/ FlushTimeout \/ FlushOpen \/ FlushWrite \/ FlushDone \/ FlushExit

Spec == Init /\ [][Next]_vars

\* The thread runs when it can; a timed wait that nobody ends times out.
FairSpec == Spec /\ WF_vars(Flush)

-----------------------------------------------------------------------------
(* Properties.                                                              *)

\* What blobcache_get would yield for k, were the read done at once.
Lookup(k) ==
    IF items[k] = None THEN None
    ELSE IF Pending(k) # {} THEN queue[Max(Pending(k))].content
    ELSE IF Complete(k) THEN file[k] ELSE None

\* The cache keeps its contract (CacheContract): whatever puts, prunings, clearings,
\* disk errors, restarts and crashes do to one another, a lookup yields the last
\* value put since the start or none, and where a disk error or a restart voids
\* that, a value that was put under the same key.
Contract == INSTANCE CacheContract WITH store <- [k \in Keys |-> Lookup(k)]
ContractSpec == Contract!Spec

\* The size that decides on pruning is never less than what the items add up to:
\* whatever goes on, the cache does not outgrow its limit unnoticed.
SizeNotUnderestimated == total >= SizeOf(items, Present(items))

\* When the thread has nothing to write and waits, the cache is within its limit.
WithinLimitAtRest == fl \in {"sleep", "timed"} => total <= MaxSize

\* While index_dirty is clear every item is in the index file as it is in memory: a
\* crash then costs nothing.
CleanIndexIsSaved ==
    Up /\ ~dirty => \A k \in Present(items) : index # Corrupt /\ index[k] = items[k]

\* A reader outside the lock gets the content it found inside, with every look at the
\* item and the file, as long as nobody has put another one or dropped the item: the
\* thread does not write under its hands.
UndisturbedRead == reader # Idle /\ reader.p = "same" => ReadResults = {reader.want}

\* Every blobcache_put wakes the thread and so ends its wait of five seconds for
\* quiet; the puts leave it that time now and then.
PutsPause == []<>(fl = "timed") => []<><<FlushTimeout>>_vars

\* What is put gets into the index file, unless it is dropped or replaced or the
\* program ends first, if only the puts pause: no wakeup of the thread is lost.
PutReachesIndex ==
    PutsPause => \A k \in Keys :
        (latest[k] # None /\ items[k] # None) ~>
            \/ index # Corrupt /\ index[k] # None /\ index[k].content = latest[k]
            \/ latest[k] = None \/ items[k] = None

\* The size that decides on pruning errs upwards only and is within the limit when the
\* thread rests.
BlobInv == TypeOK /\ SizeNotUnderestimated /\ WithinLimitAtRest
=============================================================================
