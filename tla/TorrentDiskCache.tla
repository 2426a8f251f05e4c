-------------------------- MODULE TorrentDiskCache --------------------------
(***************************************************************************)
(* The cache file of a torrent (diskio.c): a map from pieces to slots, kept *)
(* in memory in both directions and on disk in one, and the slots           *)
(* themselves.  The disk thread writes a piece in three file operations     *)
(* with bittorrent_mutex dropped; each may fail, and the program may be      *)
(* killed between them.  torrent_diskio_open makes the file in two steps     *)
(* that may fail as well, or finds what was left of it.                      *)
(*                                                                         *)
(* Sizes are counted in slots: piece_length is 1, headers are 0, and so is  *)
(* what other programs do to the volume, which makes btg_cache_limit a      *)
(* constant.  The other torrents' cache files have the size of one slot.    *)
(* The file of this torrent is not removed while the torrent is closed.     *)
(* Which piece is loaded or written when belongs to TorrentPiece.           *)
(***************************************************************************)
EXTENDS Integers, FiniteSets, FiniteSetsExt

CONSTANTS
    NumPieces,    \* to_num_pieces
    Limit,        \* btg_cache_limit
    MaxInactive,  \* bound: cache files of torrents that are not open
    MaxFaults,    \* bound: failed file operations and kills in a run
    UnlinkFails   \* whether fa_unlink can fail

ASSUME CacheConstants ==
    /\ NumPieces \in Nat \ {0} /\ Limit \in Nat \ {0}
    /\ MaxInactive \in Nat /\ MaxFaults \in Nat /\ UnlinkFails \in BOOLEAN

VARIABLES
    map,       \* to_cachefile_piece_map
    inv,       \* to_cachefile_piece_map_inv
    next,      \* to_next_disk_block
    total,     \* to_total_disk_blocks
    file,      \* how much of the cache file there is
    dmap,      \* the map in the file; entries that it does not have yet are None
    store,     \* whose bytes a slot of the file holds
    inactive,  \* how many cache files torrent_diskio_scan could remove
    w,         \* the place in torrent_diskio_open or torrent_write_to_disk
    faults,    \* failures and kills so far
    orphans    \* ghost: entries in the file when its map was last read in part

mem == <<map, inv, next, total>>

vars == <<map, inv, next, total, file, dmap, store, inactive, w, faults, orphans>>

Pieces == 0 .. NumPieces - 1

Slots == 0 .. NumPieces - 1

\* No slot, no piece, bytes of no piece.
None == -1

\* "closed": the torrent is not open.  "head", "init": before torrent_diskio_open writes the header and the
\* empty map.  "nocache": to_cachefile is NULL.
\* "scan": in torrent_diskio_scan.  "scanned": back from it, with `rval'.  "data", "map", "clear": before the three file
\* operations.  "overrun": `loc' is past the end of to_cachefile_piece_map_inv.
WritePc == {"closed", "head", "init", "nocache", "idle", "scan", "scanned", "data", "map", "clear", "overrun"}

WriteRec == [pc : WritePc, piece : Pieces, attempt : 0 .. 1, rval : 0 .. 1,
             loc : Nat, old : Pieces \cup {None}, ok : BOOLEAN]

\* head: magic, size and metainfo are there.  size: so many entries of the map.
FileRec == [head : BOOLEAN, size : 0 .. NumPieces]

\* Every variable has its type.
TypeOK ==
    /\ map \in [Pieces -> Slots \cup {None}]
    /\ inv \in [Slots -> Pieces \cup {None}]
    /\ next \in Nat /\ total \in Nat /\ next <= total
    /\ file \in FileRec
    /\ dmap \in [Pieces -> Slots \cup {None}]
    /\ store \in [Slots -> Pieces \cup {None}]
    /\ inactive \in 0 .. MaxInactive
    /\ w \in WriteRec
    /\ faults \in 0 .. MaxFaults
    /\ orphans \in 0 .. NumPieces

At(pc) == [pc |-> pc, piece |-> 0, attempt |-> 0, rval |-> 0,
           loc |-> 0, old |-> None, ok |-> FALSE]

NoEntries == [i \in Pieces |-> None]

\* A torrent that was never open.
Init ==
    /\ map = NoEntries /\ inv = [s \in Slots |-> None]
    /\ next = 0 /\ total = 0
    /\ file = [head |-> FALSE, size |-> 0]
    /\ dmap = NoEntries /\ store = [s \in Slots |-> None]
    /\ inactive \in 0 .. MaxInactive
    /\ w = At("closed")
    /\ faults = 0 /\ orphans = 0

-----------------------------------------------------------------------------
(* torrent_write_to_disk.                                                   *)

\* A verified piece that is not on disk: new, or redownloaded because its slot
\* turned out to hold something else.
NeedsWrite(i) == map[i] # None => store[map[i]] # i

Growth == Max({next + 1 - total, 0})

\* The write keeps the cache under its limit.
Fits == total + inactive + Growth < Limit

\* Slip: the slot's old piece keeps its entry.
ReassignedKeep(i, loc) == [map EXCEPT ![i] = loc]

\* to_cachefile_piece_map once slot loc is given to piece i.
Reassigned(i, loc) ==
    [p \in Pieces |-> IF p = i THEN loc ELSE IF p = inv[loc] THEN None ELSE map[p]]

\* to_cachefile_piece_map_inv then: the slot the piece had before is let go.
InvReassigned(i, loc) ==
    [s \in Slots |-> IF s = loc THEN i
                     ELSE IF s = map[i] /\ inv[loc] # i THEN None ELSE inv[s]]

\* to_total_disk_blocks once slot loc is used.
Grown(loc) == Max({total, loc + 1})

\* The part under the mutex: slot `loc' is next.
Assign(i, loc) ==
    /\ next' = loc + 1
    /\ total' = Grown(loc)
    /\ IF loc \in Slots
       THEN /\ map' = Reassigned(i, loc) /\ inv' = InvReassigned(i, loc)
            /\ w' = [At("data") EXCEPT !.piece = i, !.loc = loc,
                               !.old = inv[loc]]
       ELSE /\ UNCHANGED <<map, inv>>
            /\ w' = [At("overrun") EXCEPT !.piece = i, !.loc = loc]

\* The top of the loop.
Attempt(i, n) ==
    IF Fits THEN Assign(i, next)
    ELSE /\ w' = [At("scan") EXCEPT !.piece = i, !.attempt = n]
         /\ UNCHANGED mem

WriteBegin(i) ==
    /\ w.pc = "idle" /\ NeedsWrite(i)
    /\ Attempt(i, 0)
    /\ UNCHANGED <<file, dmap, store, inactive, faults, orphans>>

\* What torrent_diskio_scan can do: it tries the files one after the other as
\* long as the cache is at its limit, removes `freed' and fails on `stuck'.
ScanResult(freed, stuck) ==
    LET excess == Max({total + inactive - (Limit - 1), 0}) IN
    /\ freed + stuck <= inactive
    /\ stuck > 0 => UnlinkFails /\ excess > 0
    /\ freed = excess \/ (freed < excess /\ freed + stuck = inactive)

\* torrent_diskio_scan returns 1 if a file could not be removed (its caller takes
\* that for "Managed to clean up something").
Scan(freed, stuck) ==
    /\ w.pc = "scan" /\ ScanResult(freed, stuck)
    /\ inactive' = inactive - freed
    /\ w' = [w EXCEPT !.pc = "scanned",
                      !.rval = IF stuck > 0 THEN 1 ELSE 0]
    /\ UNCHANGED <<mem, file, dmap, store, faults, orphans>>

\* "Otherwise, just restart in our file 50% back".
Restart == next \div 2

\* Back in the loop: a second attempt, giving up, or 50% back in the file.
Scanned ==
    /\ w.pc = "scanned"
    /\ IF w.rval = 0 THEN Assign(w.piece, Restart)
       ELSE IF w.attempt = 0 THEN Attempt(w.piece, 1)
       ELSE w' = [w EXCEPT !.pc = "idle"] /\ UNCHANGED mem
    /\ UNCHANGED <<file, dmap, store, inactive, faults, orphans>>

Fault(failed) == faults' = faults + (IF failed THEN 1 ELSE 0) /\ faults' <= MaxFaults

\* The map in the file once the file reaches up to entry k: the gap reads as zeroes.
Filled(k) == [i \in Pieces |-> IF file.size <= i /\ i < k THEN 0 ELSE dmap[i]]

Extended(k) == [file EXCEPT !.size = Max({file.size, k})]

\* The data, behind the map.  A failed write leaves a part of it, a failed seek
\* nothing; the map is not written then.
WriteData(ok) ==
    /\ w.pc = "data" /\ Fault(~ok)
    /\ \/ /\ store' = [store EXCEPT ![w.loc] = IF ok THEN w.piece ELSE None]
          /\ dmap' = Filled(NumPieces) /\ file' = Extended(NumPieces)
       \/ ~ok /\ UNCHANGED <<store, dmap, file>>
    /\ w' = [w EXCEPT !.pc = IF ok THEN "map" ELSE "clear"]
    /\ UNCHANGED <<mem, inactive, orphans>>

\* Slip: the entry is made up after to_next_disk_block++.
WriteMapLate(ok) ==
    /\ w.pc = "map" /\ Fault(~ok)
    /\ dmap' = IF ok THEN [dmap EXCEPT ![w.piece] = next] ELSE dmap
    /\ w' = [w EXCEPT !.pc = "clear", !.ok = ok]
    /\ UNCHANGED <<mem, file, store, inactive, orphans>>

\* The piece's entry of the map, which the data made whole.
WriteMap(ok) ==
    /\ w.pc = "map" /\ Fault(~ok)
    /\ dmap' = IF ok THEN [dmap EXCEPT ![w.piece] = w.loc] ELSE dmap
    /\ w' = [w EXCEPT !.pc = "clear", !.ok = ok]
    /\ UNCHANGED <<mem, file, store, inactive, orphans>>

\* Slip: the entry is left in the file.
ClearOldNever(ok) ==
    /\ w.pc = "clear" /\ Fault(~ok)
    /\ w' = [w EXCEPT !.pc = "idle"]
    /\ UNCHANGED <<mem, file, dmap, store, inactive, orphans>>

\* The entry of the piece that had the slot, 0xffffffff from now on.
ClearOld(ok) ==
    /\ w.pc = "clear" /\ Fault(~ok)
    /\ IF ok /\ w.old # None
       THEN /\ dmap' = [Filled(w.old + 1) EXCEPT ![w.old] = None]
            /\ file' = Extended(w.old + 1)
       ELSE UNCHANGED <<dmap, file>>
    /\ w' = [w EXCEPT !.pc = "idle"]
    /\ UNCHANGED <<mem, store, inactive, orphans>>

-----------------------------------------------------------------------------
(* torrent_diskio_open, torrent_diskio_close, torrent_diskio_cache_clear.   *)

\* The map torrent_diskio_verify reads: locations out of range are dropped.
Verified == [i \in Pieces |-> IF dmap[i] \in Slots THEN dmap[i] ELSE None]

\* to_next_disk_block then.
NextFree == Max({Verified[i] : i \in Pieces} \cup {None}) + 1

\* torrent_diskio_verify reads the whole map.
OpenWhole ==
    /\ w.pc = "closed" /\ file.head /\ file.size = NumPieces
    /\ map' = Verified
    /\ inv' = [s \in Slots |-> Max({i \in Pieces : Verified[i] = s} \cup {None})]
    /\ next' = NextFree /\ total' = NextFree
    /\ w' = At("idle")
    /\ UNCHANGED <<file, dmap, store, inactive, faults, orphans>>

\* "Unable to read piece flags, clearing all on-disk pieces": a read error, or a
\* file that was never finished.  The map is cleared in memory; the file keeps the
\* entries it has, and gets zeroes for the ones it lacks.
OpenShort(ok) ==
    /\ w.pc = "closed" /\ file.head /\ Fault(~ok)
    /\ ok => file.size < NumPieces
    /\ orphans' = Cardinality({i \in Pieces : file.size <= i \/ dmap[i] # None})
    /\ w' = At("idle")
    /\ UNCHANGED <<mem, file, dmap, store, inactive>>

\* There is no valid header, or it cannot be read: a new file is made.
OpenNew(ok) ==
    /\ w.pc = "closed" /\ Fault(~ok)
    /\ ok => ~file.head
    /\ w' = At("head")
    /\ UNCHANGED <<mem, file, dmap, store, inactive, orphans>>

\* "Unable to open cache file".
OpenFails ==
    /\ w.pc = "closed" /\ Fault(TRUE)
    /\ w' = At("nocache")
    /\ UNCHANGED <<mem, file, dmap, store, inactive, orphans>>

\* Magic, size and metainfo; over the same bytes if they were there.
CreateHead(ok) ==
    /\ w.pc = "head" /\ Fault(~ok)
    /\ file' = [file EXCEPT !.head = @ \/ ok]
    /\ w' = At(IF ok THEN "init" ELSE "nocache")
    /\ UNCHANGED <<mem, dmap, store, inactive, orphans>>

\* The empty map, or the first k entries of it.
CreateMap(ok) ==
    /\ w.pc = "init" /\ Fault(~ok)
    /\ \E k \in 0 .. NumPieces :
         /\ ok <=> k = NumPieces
         /\ dmap' = [i \in Pieces |-> IF i < k THEN None ELSE dmap[i]]
         /\ file' = Extended(k)
    /\ w' = At(IF ok THEN "idle" ELSE "nocache")
    /\ UNCHANGED <<mem, store, inactive, orphans>>

\* The torrent is closed and freed, or the program is killed in the middle of
\* something; after the overrun, where the array's end is left, it is followed no further.
Stop ==
    /\ w.pc # "closed" /\ Fault(w.pc \notin {"idle", "nocache", "overrun"})
    /\ map' = NoEntries /\ inv' = [s \in Slots |-> None]
    /\ next' = 0 /\ total' = 0
    /\ w' = At("closed")
    /\ UNCHANGED <<file, dmap, store, inactive, orphans>>

\* The user clears the cache.
CacheClear ==
    /\ w.pc = "idle" /\ inactive > 0
    /\ \E left \in 0 .. inactive : (left > 0 => UnlinkFails) /\ inactive' = left
    /\ UNCHANGED <<mem, file, dmap, store, w, faults, orphans>>

Next ==
    \/ \E i \in Pieces : WriteBegin(i)
    \/ \E freed, stuck \in 0 .. MaxInactive : Scan(freed, stuck)
    \/ Scanned
    \/ \E ok \in BOOLEAN : WriteData(ok) \/ WriteMap(ok) \/ ClearOld(ok)
    \/ \E ok \in BOOLEAN : OpenShort(ok) \/ OpenNew(ok) \/ CreateHead(ok) \/ CreateMap(ok)
    \/ OpenWhole \/ OpenFails \/ Stop \/ CacheClear

Spec == Init /\ [][Next]_vars

-----------------------------------------------------------------------------
(* Properties.                                                             *)

\* A slot's piece has that slot, whatever fails; and as long as nothing has failed,
\* the two maps in memory are inverses of each other: no slot is given to a second
\* piece without the first one losing its entry.
InverseAgrees ==
    /\ \A s \in Slots : inv[s] # None => map[inv[s]] = s
    /\ faults = 0 => \A i \in Pieces : map[i] # None => inv[map[i]] = i

\* A piece that is announced to peers and loaded for readers because it is in
\* the map is in its slot, through evictions and reopening, as long as nothing
\* has failed.
CachedIsThere ==
    faults = 0 => \A i \in Pieces : map[i] # None /\ ~(w.pc = "data" /\ w.piece = i) => store[map[i]] = i

\* "Some other block already occupied this slot in the file / We need to clear
\* that out": a piece written with success (tp_on_disk) is still in the file's
\* map when the write is over.  (Once something has failed, a piece can be
\* written again to the slot it has, and clears its own entry.)
WrittenIsFound ==
    faults = 0 /\ w.pc = "idle" /\ w.ok => dmap[w.piece] = w.loc

\* Whatever fails, and wherever the program is killed, the map in the file is wrong
\* about one piece per fault at most, and about the entries there were in the file when
\* its map was last read in part and forgotten; the hash check finds all of them out.
StaleBounded ==
    LET stale == {i \in Pieces : dmap[i] # None /\ store[dmap[i]] # i}
    IN  Cardinality(stale) <= faults + orphans + (IF w.pc \in {"map", "clear"} THEN 1 ELSE 0)

\* The cache grows beyond its first slot only below the limit.
WithinLimit == total <= 1 \/ total + inactive < Limit

\* to_cachefile_piece_map_inv has an entry for every slot that is handed out, however
\* much space the limit leaves, as long as nothing has failed.  (After a fault a piece
\* whose entry is wrong gets a second slot, and there may be more slots than pieces.)
InBounds == faults = 0 => w.pc # "overrun"

\* The slots and the two maps in memory belong together: slot numbers stay inside the
\* inverse table, the file within its limit, and a slot has one piece.
CacheInv == TypeOK /\ InBounds /\ WithinLimit /\ InverseAgrees
=============================================================================
