# Showtime: TLA+ models of its concurrent core

Showtime is a media player.  This directory models the parts of it that are
hard to test because several threads, an unreliable network or a disk that
fails take part: the BitTorrent backend, which plays a file while it is being
downloaded; the media pipe between the player, the decoders and the user; the
cache of downloaded files; and the task pool with the asynchronous HTTP requests
on top of it.  The models are checked with TLC.  The safety properties of all of
them, and the refinement of the cache's contract, are also proved with TLAPS, for
every value of the constants.

## 1. Inventory

### 1.1 The system

| Part | State | Operations | Talks to |
|---|---|---|---|
| pieces, readers, hash and disk thread (`torrent.c`, `diskio.c`) | `to_active_pieces`, flags and reference count of each `torrent_piece_t`, two worker threads, `torrent_pendings_signal` | `torrent_load`, `torrent_piece_find`, `torrent_receive_block`, `torrent_check_pendings`, `torrent_periodic`, `torrent_piece_verify_hash`, `torrent_read_from_disk`, `torrent_write_to_disk` | readers sleep on `torrent_piece_verified_cond`; the threads on condition variables of their own; the asyncio thread is woken through a worker |
| block scheduler (`torrent.c`, `peer.c`) | `tp_waiting_blocks`, `tp_sent_blocks`, `p_requests`, `tb_requests`, delays and queue depths, counters of outstanding requests | `torrent_io_do_requests`, `recv_piece`, `recv_reject`, choke, unchoke, have, `peer_shutdown` | callbacks of the asyncio thread, without `bittorrent_mutex`; pieces are added by readers |
| peer set (`peer.c`, `torrent.c`) | peer states and queues, connection counters per torrent and global | `peer_add`, `peer_connect`, `peer_shutdown`, `torrent_attempt_more_peers` | trackers add peers, sockets come and go |
| torrent cache file (`diskio.c`) | map of pieces to slots, its inverse, the map in the file, the slots | write in three file operations, read, open and verify, removal of other torrents' files | disk thread; killed and restarted programs |
| UDP trackers (`tracker.c`, `tracker_udp.c`) | connection state, transaction ids, timers | connect, announce, stop, error, DNS | lossy network; asyncio timers and workers |
| HTTP trackers (`tracker.c`, `tracker_http.c`, `asyncio_http.c`) | one request per torrent, list of completed requests | announce, complete, deliver, cancel | task pool, wakeup pipe of the asyncio thread |
| task pool (`task.c`) | queue, threads, number of threads and of those that wait | `task_run`, `task_thread` | HTTP requests, plugins, SMB |
| blob cache (`blobcache_file.c`) | items in memory, queue to be written, files, index file, `index_dirty`, size | put, get, clear, prune, save and load the index | users on any thread, a writing thread, crashes and restarts |
| media pipe (`media/`, `audio2/audio.c`, `video/video_decoder.c`, `fa_video.c`) | data and control queues, epoch, byte and packet counters, `mp_eq`, hold | enqueue, dequeue, flush, seek, pause, close | player, audio and video thread, sound server, codec, UI |
| magnet metadata (`magnet.c`) | metainfo requests per peer | request, receive, reject, timeout | a thread polling under the mutex, peers freeing requests |
| callouts, cancellables (`misc/`) | a sorted timer list | arm, disarm | every other part |
| asyncio (`networking/asyncio_posix.c`) | sockets, timers, workers | one loop on one thread | trackers, peers |
| bencode, settings, statistics, property tree, file access, network protocols, other backends, databases, scripting, UI, platform | | | |

`PROJECT.json` ("components") lists all of them with the files concerned and,
for what is not modelled, the reason.  Most of the repository is vendored
libraries (SQLite, Duktape, SpiderMonkey and others), tables and platform code.

### 1.2 Threads and locks

* Readers call `torrent_load` from a demuxer thread under `bittorrent_mutex`,
  which `hts_cond_wait` releases.
* The asyncio thread runs `torrent_periodic` and `torrent_check_pendings` under
  the mutex.  The peer callbacks (`peer_read_cb` and everything below it) take
  no lock, nor do `tracker_torrent_periodic` and `tracker_new_torrent`.  The
  comment at the mutex only says it protects "most of these data structures".
* `bt_hash_thread` and `bt_diskio_thread` hold the mutex except while they hash
  or do file I/O; they start on demand and end after 60 idle seconds.
* The media pipe has one mutex, `mp_mutex`, which the decoder threads release to
  decode and to handle control packets, and three condition variables.
* The blob cache has one mutex, released for writing a file and for reading one.
* `task_mutex` protects the pool, `asyncio_http_mutex` the completed requests.

### 1.3 What is hard

Pieces change hands between four kinds of thread, each with a window in which
the mutex is dropped; a wakeup missed anywhere puts a player to sleep for good.
A block can be asked from several peers at once and its requests end by
delivery, rejection, choke, disconnection or cancellation in any order.  The
torrent's cache file and the blob cache are updated in steps that fail or are cut
off separately.  Trackers are reached over UDP, or by requests whose answer may
find their torrent gone.  A seek or the end of a video cuts into queues of which
three threads hold packets.  `PROJECT.json` ("hazards") lists each at its line
with the properties that cover it; those without a property say why.

### 1.4 What makes each part correct

* Pieces: no piece is freed in the hands of a thread or leaked; a reader's piece
  stays; verified bytes stay; no piece is in a state nobody will move it out of;
  every wakeup finds somebody; readers get verified data, and get it in the end.
* Scheduler: blocks and requests refer to each other consistently, no request
  points at a freed block, counters are exact, depths stay in their array, and
  no block waits while the peers that have it idle.
* Peer set: lists and counters agree with the states, connection slots are
  neither lost nor left empty while a peer waits.
* Torrent cache file: the two maps are inverses, what is in the map is in the
  slot, what was written is found again, faults stay contained, limits are kept.
* Trackers: something always goes on, an answer is taken for what it answers,
  torrents are announced in the end and removed ones freed.
* Task pool: no task is left in the queue while all threads sleep.
* Blob cache: a lookup yields what was put last or nothing; a saved index is a
  true one; its size is not underestimated; what is put gets to the disk.
* Media pipe: counters are exact, packets follow each other whatever is sought and
  are presented from a place sought on, nothing stale survives a flush, no two
  threads wait for each other, and closing ends.

## 2. Modules

| Module | Models | Checked by | Proved in |
|---|---|---|---|
| `TorrentPiece` | pieces, readers, hash and disk thread | `MCTorrentPiece`, 3 runs | `TorrentPieceProofs` |
| `PeerRequests` | block scheduler and peer messages | `MCPeerRequests`, 2 runs | `PeerRequestsProofs` |
| `PeerSet` | peers, connections and their limits | `MCPeerSet`, 1 run | `PeerSetProofs` |
| `TorrentDiskCache` | torrent cache file | `MCTorrentDiskCache`, 1 run | `TorrentDiskCacheProofs` |
| `TrackerUdp` | UDP trackers | `MCTrackerUdp`, 1 run | `TrackerUdpProofs` |
| `TaskPool` | task pool | through `HttpAnnounce` | `HttpAnnounceProofs` |
| `HttpAnnounce` (extends `TaskPool`) | HTTP trackers, asyncio HTTP requests, wakeup pipe | `MCHttpAnnounce`, 1 run | `HttpAnnounceProofs` |
| `CacheContract` | what a cache promises (abstract) | as a property of `BlobCache` | `BlobCacheProofs` |
| `BlobCache` | blob cache | `MCBlobCache`, 1 run | `BlobCacheProofs` |
| `MediaQueue` | media pipe, player, decoders, user | `MCMediaQueue`, 2 runs | `MediaQueueProofs` |

Operators commented with "Slip:" are wrong variants of the operator that
follows them, one for each property.  No specification uses them: putting one in
the place of its original must make TLC report the property violated
(`PROJECT.json`, "mutants").

Most modules end with an invariant that conjoins their type invariant and the
named parts of their bookkeeping (`RequestsInv`, `CacheInv`, `TrackerInv`,
`PeerSetInv`, `BlobInv`, `MediaInv`).  `IInv` is the inductive invariant of a
specification: in `TorrentPiece` itself, for the others in the module with the
proofs.

### 2.1 TorrentPiece

State: the heap of `torrent_piece_t` (`tp`, by address, so that a freed and
reused address and two objects for one index can happen), the list `active`,
what the cache map says of each piece (`cached`), who holds the mutex between
two steps (`owner`), the places of the readers and the two threads, the pending
flags.  Each section under the mutex is one action; `RecvBlock`, which runs in a
peer callback, does not wait for the mutex.  It can therefore fall between the hash
thread's look at the list and its wait, which are two steps (`HashIdle` keeps the
mutex, `HashWait` gives it up); testing and setting the running flag in
`torrent_hash_wakeup` is one.  `missed` is a history variable of each thread: a wakeup
has come when the thread had looked at the list and was not waiting, and none
has reached it since.

| Actions | Code |
|---|---|
| `LoadBegin`, `ReadAhead`, `LoadFind`, `LoadWoken`, `LoadCopy` | `torrent_load`, with its read-ahead and the wait |
| `PieceFind`, `NewPiece`, `EnqueueRequests` | `torrent_piece_find`, `torrent_piece_enqueue_requests` |
| `RecvBlock` | `torrent_receive_block` |
| `CheckPendings`, `ReloadCorrupt` | `torrent_check_pendings`, `torrent_reload_corrupt_pieces` |
| `Periodic` | `torrent_periodic`, `flush_active_pieces` |
| `HashPick`, `HashDone`, `HashIdle`, `HashWait`, `HashTimeout`, `HashExit` | `bt_hash_thread`, `torrent_piece_verify_hash` |
| `DiskReadBegin/End`, `DiskWriteBegin/Space/End/GiveUp`, `DiskIdle`, `DiskTimeout`, `DiskExit` | `bt_diskio_thread` and the two transfers |

Abstracted: bytes (a block is the torrent's or `bad`), which peer delivers
(PeerRequests), which slot is used (TorrentDiskCache; here a write may evict any
other piece when `CacheFull`), deadlines and rates.

### 2.2 PeerRequests

State: peers with their `p_requests`, the heap of `torrent_block_t`, the state of
each piece as far as blocks depend on it, who contributed to it and was marked
bad, and the place of the asyncio thread in `torrent_io_do_requests`.  The loop
is not one step: `Duplicate` and `CheckEnd` are `check_active_requests`,
`ServeWaiting`, `ServeBreak` and `RoundEnd` the two rounds of
`serve_waiting_blocks`, `Finish` what the caller does afterwards (for
`recv_piece`, `peer_destroy_request`; for `torrent_periodic`, the flush).  Readers
and the hash thread run in between when the caller is a peer callback, which does
not take `bittorrent_mutex`; beside `torrent_periodic`, which does, they wait.
`Names` are the blocks by piece and offset, as many for each piece as one likes.
`aio.late` is a history variable: the blocks that readers have enqueued since the
loop made its list of waiting blocks.
`RecvPiece`, `RecvReject`, `RecvChoke`, `RecvUnchoke`, `RecvHave`, `PeerUp`,
`PeerShutdown` are the messages and connection events.  A delay is one of
`1 .. MaxDelay`, a deadline may or may not be in danger.

### 2.3 TorrentDiskCache

State: both maps in memory, how much of the file there is (its header, and so many
entries of the map), the map and the slots in it, the next and the total number of
slots, other torrents' files, and the place in `torrent_diskio_open` or
`torrent_write_to_disk`.  `WriteData`, `WriteMap` and `ClearOld` are the three
file operations of a write, each of which may fail; `Scan` and `Scanned` are
`torrent_diskio_scan` and what its caller makes of the result.  `Stop` is a close or,
in the middle of something, a kill (it costs a fault).  A file is found whole
(`OpenWhole`), with a map that cannot be read to its end (`OpenShort`), without a
valid header (`OpenNew`), or cannot be opened (`OpenFails`); a new one is made by
`CreateHead` and `CreateMap`, each of which may fail or be cut off.  What a map lacks
reads as slot 0 once data lies behind it.  `orphans` is a history variable: the
entries in the file when its map was last read in part.  The file is not removed by
others while the torrent is closed.

### 2.4 TrackerUdp

State: the tracker's connection, its torrents, the pending signal, the packets
under way and which torrents the tracker has heard of since they were added (`reg`;
a torrent that is destroyed and added again starts anew).  A packet carries whether its
transaction id is still the current one of its receiver.  The tracker and the
network (`Answer...`, `Lose`, `Put`) are external: modelled from what the code
sends and expects.  All handlers run on the asyncio thread.

### 2.5 PeerSet

State: for every torrent its peers (state, failures, whether they choke us), the
three queues, the lists of running and unchoked peers and both counters; the
global counter.  `peer_shutdown` is the composition of `Attempt`
(`torrent_attempt_more_peers`, which may connect another peer first), `Unlisted`
and `Settled`, in the order of the code, applied in one step: the callbacks run
on the asyncio thread.  `capped` is a history variable: the torrents that the
global limit has denied a connection.  `GiveUp` stands for the 5 attempts after
which a peer is dropped.

### 2.6 TaskPool and HttpAnnounce

`TaskPool` has the queue and the threads of `task.c`.  A thread that has been
signalled but has not run yet ("woken") is a state of its own, because it still
counts as available.  `HttpAnnounce` adds the torrents of an HTTP tracker and
the requests, both by address, so that memory can be reused; the list of
completed requests; the pipe through which the asyncio thread is woken; and the
place of that thread.  `NewTorrent` walks the torrents one at a time while
others add some; `HttpDone` and `HttpWake` are the two halves of
`asyncio_http_cb`.  Other users of the pool appear as tasks without effect.  The
bounds on the pipe and on cancelled requests delay a user or a timer, never a
thread that is on its way.

### 2.7 CacheContract and BlobCache

`CacheContract` says what the users of a cache may count on: a lookup yields the
value put last since the start of the program, or nothing; where a disk error or
a restart makes that void, a value that was put under that key.  `BlobCache` is
`blobcache_file.c`: `Put` and `PutAgain` (`blobcache_put`), `GetHit`, `GetBad` and
`GetRead` (`blobcache_get` up to the unlock and after it), `Clear`, the writing
thread from `FlushClock` to `FlushExit`, `Boot` and `Fini`, and `Crash` at any
point.  It is shown to implement the contract with `store` mapped to what a lookup
would yield (`Contract`).  A file is a content, `Partial` or absent; its handle
stays valid when it is unlinked, as on a Unix file system.  One reader at a time
is followed outside the lock; other calls of `blobcache_get` run beside it under
the lock.  After the unlock the code looks at `p->bi_size` three times (lines 589,
605 and 610): `sizes` has the values it has had since, and `ReadOf` takes each look
at any of them.  The length of the content type counts as part of the size.
`MaxPuts` bounds new contents; the same content may be put again for ever.

The contract is weaker than one may expect, and the weak points are the code's:
a file is checked only for its length (the sum of content and content type), so that after a crash, a stop (which does
not write the queue) or a disk error an older content of the same length passes for
the newer one the index describes; and a put of what the index has already writes
nothing (`PutAgain`), so that it does not repair this.

### 2.8 MediaQueue

State: the data and control queue of each stream with their counters, the pipe's
byte counter, epoch, `mp_satisfied`, `mp_eof` and hold gate, the event queue, and
the places of player, audio thread, video thread, sound server and user.  A step
is what a thread does between two points where `mp_mutex` is free.

| Actions | Code |
|---|---|
| `PlayerFetch`, `PlayerEof`, `PlayerSend`, `PlayerDrain`, `PlayerEvent` | `video_player_loop`, `mb_enqueue_with_events`, `mp_wait_for_empty_queues`, `video_seek` |
| `PlayerShutdown`, `PlayerStopAudio`, `PlayerJoin`, `PlayerIdle` | `mp_shutdown`, `audio_decoder_destroy`, `mp_dequeue_event` |
| `AudioAccepted/Refused/Blocked`, `AudioCtrl/Take/Wait/Partial/Done` | `audio_decode_thread` and `pulseaudio_audio_deliver` |
| `DeviceWritable`, `CodecReady` | `stream_write_callback` of the sound server, `oc_empty_buffer_done` of the hardware codec |
| `VideoCtrl/Take/Switch/Retry/Wait/Done` | `vd_thread` |
| `UiSeek`, `UiHold`, `UiClose`, `UiStopVideo`, `UiJoin` | `mp_direct_seek`, `mp_set_playstatus_by_hold_locked`, `video_playback_destroy`, `video_decoder_stop` |

A packet is its time stamp, its size and its mark `mb_skip`; the file has one video
and one audio packet for each time stamp.  After a seek by the player packets from
before `mq_seektarget` are marked as they are read (`WithPacket`), a seek in the
queues marks the video packets from the key frame to the place sought
(`DropBefore`), and no mark is ever taken away.  A marked audio packet is dropped
undecoded, a marked video packet decoded and not shown.  `flushed`, `seen` and
`dmx.marked` are history variables: what a decoder did last, and the place up to which
packets have been marked since the file was repositioned.

## 3. Runs

| Run | Question | Bounds |
|---|---|---|
| `piece_threads` | safety of the piece life cycle, evictions, failed writes, corrupt data and idle timeouts included | 1 reader, 2 pieces of 2 blocks, 4 addresses, 1 corrupt block |
| `piece_progress` | which wakeups are missed, and is every sleeping reader served if missed ones are made up for | 2 readers, 1 piece, flushed as soon as allowed, idle timeouts |
| `piece_unverified_read` | violation: a reader is handed data known to be corrupt | 1 reader |
| `requests_unlocked` | consistency of blocks, requests and counters, full queues and no stall, with readers in the middle of the loop | 2 peers, a piece of 2 blocks and one of 1, 3 addresses, queue of 2, 1 delay |
| `requests_lost_block` | violation: a block on `tp_sent_blocks` that nobody was asked for | the same |
| `cache_file` | maps, slots and limit through evictions, making and reopening the file, failed operations and kills | 4 pieces, 2 other files, a limit of 6 that all must stay below (3 slots beside the other files, 5 without), 2 faults |
| `tracker_lossy` | timers and transaction ids against loss, duplication, reordering; announced and freed in the end | 2 torrents, 2 packets, 2 stop attempts |
| `http_announce` | does every announcement come back to its torrent, however busy the pool is | 2 torrents at a time, 3 requests, 2 threads of which 1 may idle, 1 other task |
| `peer_set` | lists, counters and slots while peers come, fail, choke and go and torrents are closed | 2 torrents, 3 addresses, 2 connections per torrent, 3 in all, dropped after 2 failures |
| `blobcache` | contract, accounting, index and progress through faults, stops and crashes | 2 keys, 3 contents of one key (two of one length) and 1 of the other, 2 new contents, 2 faults, 3 starts, 2 clock values |
| `media_seek` | two seeks at any time while a file plays | 2 time stamps, 1 key frame, both kinds of codec, packets decoded in two parts |
| `media_close` | pausing, continuing and closing at any time | 2 time stamps, 2 pauses, refusing sound server and codec |

Why the bounds are enough.  Races on a piece need two readers or a reader and
the two threads, and a second piece to be flushed or evicted; there is always a
free address (`Cardinality(Objs) >= NumPieces + 2`), so dropped pieces still held
by a thread are covered.  A block has interesting requests at two peers; a queue
of two is the smallest that can be neither empty nor full, and a piece of two blocks
beside another piece lets a new block take the address of one that is being
finished.  A cache with less room than its torrent wraps around and evicts, one with
more (once the other files are gone) can hand out too many slots.  Two torrents on a tracker are enough for one
to leave while the other stays, and two torrents that together want more than the
global limit for one to stand in the other's way; a third address makes a peer
wait behind a failed one.  Two threads and three tasks are the smallest pool in
which a signal is lost on a thread already woken.  In the blob cache two contents
of one length are needed for a stale file to pass, a longer one for a size to be
wrong and for the looks at a size to differ, and a limit below their sum for pruning;
its safety properties were also checked with three new contents, one fault and two
starts, `tracker_lossy` with three packets, and `media_seek` with three seeks.  Two seeks are needed for one to
overtake the other or to find its marks, a packet decoded in two parts for one to be put back.  For
the safety properties of all modules the proofs remove the bounds altogether.

Deadlock is checked in `requests_unlocked`, `cache_file`, `tracker_lossy`,
`http_announce` and the two runs that end in a violation.  It is not
where the system may come to rest: in `blobcache`, `peer_set` and the two
`media` runs when the bounds are used up or all threads have ended; in
`piece_progress`, where `ReaderServed` is the stronger question; and in
`piece_threads`, where the disk thread's failed assertion or a missed wakeup (below)
stops it.

### 3.1 Findings

Both are quoted in `PROJECT.json`.

* `torrent_load` copies a piece whose hash was computed and found wrong, until the
  asyncio thread has reloaded it (`torrent.c:843`; run `piece_unverified_read`).
* `assert(cur != NULL)` in `check_active_requests` (`torrent.c:1119`) can fail (run
  `requests_lost_block`).  `recv_piece` frees its block and keeps the request, with
  `tr_block` set, until `torrent_io_do_requests` is over; a reader's new block may
  get the freed address meanwhile, `add_request` takes the old request for one of it
  (`torrent.c:890`), and the block is on `tp_sent_blocks` although nobody was asked.

### 3.2 What the code does and the models show

Behaviours that the models have as the code has them, without a run that calls
them violations; each explains a constant, a guard or the wording of a property.

In the BitTorrent engine:

* A write into a recycled slot forgets the location of a piece with a pending
  load request; `assert(idx >= 0)` fails (`diskio.c:252`; state `abort` of the disk
  thread, with `CacheFull`).
* A wakeup is missed in two places: `torrent_receive_block` signals without the
  mutex, possibly between the hash thread's scan and its wait (`torrent.c:1530-1544`,
  with `torrent.c:476`), and a wakeup may come between the idle timeout of a worker thread
  and its exit (`diskio.c:315`, likewise the hash thread).  Neither is made up for: the
  hash thread that wakes up 60 seconds later ends without another look.  The piece waits
  for the next wakeup, and the reader with it.  `WorkNotForgotten` says that these are
  the only places, and `ReaderServed` supposes that missed wakeups are followed by
  others.
* Slot numbers can grow past the inverse table when pieces are rewritten after a
  fault and the limit leaves more room than the torrent needs (`diskio.c:169`; state
  `overrun`, reached in the run `cache_file`).  `InBounds`, a part of `CacheInv`, is
  therefore stated up to the first fault, for any limit.
* "Clearing all on-disk pieces" after a map that could not be read to its end
  (`diskio.c:408`) clears the map in memory only.  The file keeps its old entries and
  counts as valid.  A kill before the empty map is written (`diskio.c:494`) leaves the file
  without one, and the first piece written fills the gap with zeroes, each an entry for slot
  0.  `StaleBounded` counts them (`orphans`); the hash check finds them out one by one.
* A piece rewritten after a fault to the slot it already has removes itself from
  the map in the file (`diskio.c:214`; `WrittenIsFound` is therefore stated for
  writes before the first fault).
* `torrent_diskio_scan` returns 1 on failure, which its caller reads as "Managed
  to clean up something" (`diskio.c:656`, actions `Scan` and `Scanned`).
* "Resend stop request" is a comment without the request (`tracker.c:172`), and an
  HTTP tracker is never told that a torrent stops (`tracker.c:104`).
* `torrent_announce_all` is never called, and the cancelling of a request by the
  next announcement never happens: the timer runs only when no request does.
* Destroying a torrent lowers `btg_active_peers` for disconnected and failed peers
  too (`peer.c:302`): the global limit is not kept afterwards, but no slot is lost
  (`NoSlotLeaks`).  `p_disconnected` is reset by the handshake that precedes every
  disconnection, so that its limit of 5 is never reached.
* A peer that fails when no other is known is not tried again until a tracker
  names another (`AtMostOneStranded`), and a slot freed under the global limit
  is offered to its own torrent only (`capped` in `NoSlotWasted`).

In the blob cache: what 2.7 says of stale files; `blobcache_get` looks at the size of
the item three times after the unlock (`blobcache_file.c:589`, 605, 610), so that a
put, a pruning or a clearing meanwhile makes them disagree: the buffer is too small
for what is read into it, or is returned partly unread (`ReadOf`; `UndisturbedRead` is
about reads whose item nobody touches); each put wakes the writing thread, which saves
the index only when its wait of 5 seconds ends without that (line 876), so that puts at
shorter intervals keep the index unsaved for as long as they go on (`PutsPause` in
`PutReachesIndex`); dropping an item neither lowers the size nor marks
the index (`:555`), so that the size errs upwards until the next pruning; stopping
the program saves the index but not the queue.

In the media pipe: a flush drops `MB_CTRL_PAUSE` and `MB_CTRL_PLAY` (a decoder can
miss a change of hold that `mp_hold_gate` has seen); the audio packet being decoded
during a flush is put back behind it and played (`audio.c:661`; `OneStalePacket`
says one at most), without its time stamp, so that a seek in the queues always drops it;
marks stay: after a seek to P, a seek back in the queues to t before P finds the packets
from t to P marked, the audio is dropped (`audio.c:330`) and the video not shown, and
playback goes on at P (`StreamContinuous` says how far marks can reach, not that there are none
behind the place sought last); a seek done in the queues does not replace a pending `EVENT_SEEK`, which is carried out later
(`media_event.c:144`); `mp_wait_for_empty_queues` sees empty queues while the last
packets are in the decoders' hands; `mp_eof` is set without `mq_update_stats`, so
that the pipe stays hungry until a decoder takes a packet; `mb_enqueue_no_block`
has its condition the other way round than its comment (`media_queue.c:260`).

In the task pool: a task queued while a signalled thread has not run yet may
wait for that thread to finish another task although a further thread could be
launched; it is served in the end (`NoTaskStranded`, `AnnounceAnswered`).

### 3.3 Fairness

* `TorrentPiece`: a reader that runs goes on (weak); threads that compete for
  the mutex, the hash and the disk thread, the asyncio worker and a woken reader, get
  it if it becomes free again and again (strong), which a mutex used in short
  sections by few threads gives in practice.  Blocks asked for arrive (weak):
  `PeerRequests` is about why they are asked for.  Corrupt blocks are bounded by
  `MaxBad`: a swarm that sends only corrupt data never completes a piece.  That a
  missed wakeup is followed by another is not assumed of the code but is the antecedent
  of `ReaderServed`; with the one piece of the run it is the disk thread's missed
  wakeups that others make up for.
* `TrackerUdp`: armed timers fire, workers run, DNS answers (weak); a request
  repeated without end is answered, and the answer arrives, at some time
  (strong, for the connection and for the current announcement of each torrent).
  Nothing is assumed of stop requests, which are sent only once, and
  of errors.
* `HttpAnnounce`: the asyncio loop and each thread of the pool run (weak), and a
  request ends, with an answer or an error, as `http_req` has timeouts.  Nothing is
  assumed of timers, users and other tasks.
* `BlobCache`: the writing thread runs and its timed wait ends (weak).  That it ends
  by its timeout, and not each time by another put, is the antecedent of
  `PutReachesIndex` (`PutsPause`).
* `MediaQueue`: player and decoders run, the sound server and the codec make room
  in the end (weak), and take what they are offered again and again (strong: both
  may refuse any number of times, not for ever).  A user who has begun to close a
  video goes on (weak); nothing else is assumed of the user.
* The other specifications have no fairness and no liveness property: their runs
  check safety.

## 4. Proofs

Each module with proofs shows, for every value of the constants that its
assumptions allow, `Spec => []IInv` for an inductive invariant `IInv`, and derives
the properties of the runs from it.  The properties are not inductive by
themselves; what follows says what `IInv` adds and why.  Every `IInv` was checked
with TLC on the instances of section 3 before it was proved (`IInv` of
`TorrentPiece` is a property of the run `piece_threads`).  The
proofs have lemmas on the operators of the model, one lemma per action, and one
that puts the actions together.

The assumptions are those of the models: finite sets of names, names distinct from
the markers beside them (`None`, `Null`, `Conn`, 0 for no task), positive limits,
and enough addresses that the allocator finds a free one.  No theorem has a further
condition.

The library's theorems on induction have an operator as parameter, which the
provers cannot use.  Where a proof needs induction (sums over a set of peers or
items, a list that gets shorter, the largest of a set of slots) it is made from the
least element of a set of naturals (`LeastNatural`).  `BlobCacheProofs` derives from it
that `MapThenSumSet` of the community modules adds up the same in any order.
Elsewhere sums are avoided: what is counted is the cardinality of a set, of
connections in `PeerSet` and of bytes, each by its packet and its place there, in
`MediaQueue`.  `SelectSeq` has no definition the provers know, so that the packets a
flush leaves are those at the positions kept, in their order (`At`).

| Theorem | States | |
|---|---|---|
| `Invariance`, `TypeCorrect` | `IInv`, `TypeOK` | `TorrentPieceProofs` |
| `RefcountsExact`, `ReaderKeepsPiece`, `OnePiecePerIndex`, `NoPieceInLimbo`, `VerifiedStaysIntact`, `EnqueuedOnce` | `RefcountExact`, `ReaderPieceKept`, `OnePerIndex`, `NoLimbo`, `VerifiedIntact`, `NoDoubleEnqueue` | |
| `HashedBytesStable` | `StableWhileHashed` (action property) | |
| `WorkIsSeen` | `WorkNotForgotten` | |
| `RequestsSafe`, `NothingDangles`, `KeepsBusy` | `RequestsInv`, `NoDangling`, `NoIdleSwarm` | `PeerRequestsProofs` |
| `ListsAndCounters`, `NoSlotIsLost`, `SlotsAreUsed`, `OneStranded` | `PeerSetInv`, `NoSlotLeaks`, `NoSlotWasted`, `AtMostOneStranded` | `PeerSetProofs` |
| `CacheHolds`, `CacheFinds`, `CacheStaleBounded` | `CachedIsThere`, `WrittenIsFound`, `StaleBounded` | `TorrentDiskCacheProofs` |
| `CacheSafe` | `CacheInv` | |
| `TrackerSafe` | `TrackerInv` | `TrackerUdpProofs` |
| `EndsProperly` | `EndsByItsOwnAnswer` (action property) | |
| `PoolNeverStrands`, `CallbackFindsItsTorrent`, `NobodyForgotten` | `NoTaskStranded`, `RequestOwned`, `InTouch` | `HttpAnnounceProofs` |
| `SizeHolds`, `CleanIsSaved`, `ReadUndisturbed` | `BlobInv`, `CleanIndexIsSaved`, `UndisturbedRead` | `BlobCacheProofs` |
| `KeepsContract` | `BlobCache` implements `CacheContract` (`ContractSpec`) | |
| `MediaInductive`, `MediaAccounting` | `IInv`, `MediaInv` | `MediaQueueProofs` |
| `StreamHolds`, `StaleIsDiscarded`, `OneUnblock` | `StreamContinuous`, `OneStalePacket`, `OneUnblockPerRefusal` | |

### 4.1 TorrentPiece

`IInv` adds to the properties

* `ReaderHoldsMutex`: between lookup and copy a reader owns the mutex unless
  asleep, so that the flush cannot run under its feet (`ReaderPieceKept`);
* `FlagsConsistent`: which of a piece's flags go together.  `NoLimbo` needs it
  because every hand-over clears one reason to be moved on and sets another;
* `ThreadsConsistent`: what is still true of the piece in a thread's hands when
  it gets the mutex back.  `RefcountExact` and `VerifiedIntact` need it: the
  result of a hash is only stored in a piece nobody has reloaded meanwhile.

It is split into a part about pieces and threads and one about readers
(`InvParts`).  There is a lemma for each operator on a piece record (`Release`,
`Received`, `Hashed`, `Loaded`, `Written`, `ReloadCorrupt`), and two frame lemmas
(`OnePieceStep`, `NoPieceStep`: a step that changes one piece, or none, keeps what
is said of the others).

`WorkIsSeen`: every step that makes work (a last block, a load request) wakes the
thread; a thread ends its scan only when there is nothing for it on the whole list; and
from there to the wait, or from a timeout to the exit, a wakeup that comes with new work
sets `missed`, which only a later wakeup clears.

### 4.2 PeerRequests

`IInv` is `Base /\ Tidy /\ AioSound /\ Passed`.  `Base` says of every
peer that its counter is exact, that it has at most one request for a block and one
in all until it is measured, and that a request on a block is on a sent block of its
name; of the torrent, that the counter of peers with requests is exact and a piece
has blocks as long as it is fetched.  `Tidy`: a request points at a block it is not on
only while `recv_piece` finishes it.  `AioSound` is about what
`torrent_io_do_requests` has in its hands while readers may run.  `Passed`: a block that
the rounds of `serve_waiting_blocks` have passed over, and that no reader has enqueued
beside them (`late`), is one for which some able peer has a request besides the one that
is being finished.  All of it holds with readers at work in the middle of the loop;
that every sent block has a request does not (3.1).

### 4.3 PeerSet

`peer_shutdown` and `torrent_attempt_more_peers` call each other within one step.
Each function of the code is an operator on one torrent and the global counter, and
the lemmas are about these operators: `Sound` says of one torrent that queues, lists
and counters agree with the states; a relaxed form, `Counted` without the peer
that is being shut down, holds between two calls.  `Busy` (a torrent with a peer to try
has all its connections) holds for the torrents that are not `capped`.  For the
global counter the connections are a set of pairs of a torrent and an address: a step
takes no more of them away than it takes from the counter.

### 4.4 TorrentDiskCache

`IInv` has three parts.  `Basic` holds whatever fails: types, what the write under way
may count on, one direction of the inverse, how the file ends, the limit.  `FaultFree`
says that until the first fault memory and file agree except for the write under way,
and gives `CachedIsThere` and `WrittenIsFound`.  It also says that slots are taken without
gaps, so that a piece without a slot leaves one of them free (`RoomLeft`, by counting):
this keeps the slots inside the inverse table for any limit (`InBounds`).  `Accounts` is
the argument for `StaleBounded`, which is far from inductive: an entry of the file's map may
be right and still become wrong without another fault.  `Suspect` are the pieces that are
wrong or may become so in the map as it will be with its gap filled (`Eff`); every fault is
answerable for one of them at most, and a map read in part for its entries (`Credit`), in
the middle of a write counted without the piece to be cleared (`Pending`).  A slot handed
out again adds none: the piece that loses it takes the place of the one that gets it.

### 4.5 TrackerUdp

`IInv` adds to `NoSilence` that packets of the connection and of torrents are not
mixed up (`Addressed`), that a torrent on the tentative list is not gone, and
`FreshIsStop`: what carries the current transaction id of a torrent that is gone is
about its stop request.  The last one gives the action property: an answer is taken
only if its id is current, so the late answer to an earlier announcement ends
nothing.

### 4.6 TaskPool and HttpAnnounce

For the pool `IInv` has the meaning of the two counters: threads "available" are those
that wait or have been signalled since.  For the requests it has `Located`: a request is
in exactly one place, the queue, a thread or the completed list, as long as it is not
freed.  A request freed by its delivery is therefore
nowhere else, and its address can be used again; `HttpHeard` says that a completed
list that is not empty has a byte in the pipe, or somebody on the way to write one.

### 4.7 BlobCache and its contract

`IInv` adds `Flow` (where the writing thread is, and what that says of the queue and
the size), `Provenance` (what is in a file, the queue or an open handle was put under
its key), `ReaderOpen` and `ReaderUndisturbed` (what a reader outside the lock may
count on), and `LatestKept`, which connects the memory of the specification to what a
lookup would yield.  The refinement `KeepsContract` takes the steps one by one
(`StepContract`): a put is a put of the contract (`PutContract`, `PutAgainContract`), a
failed write is `Fail`, an end of the program `Restart`, and whatever else
changes what a lookup yields is `Drift`: an entry is dropped, or replaced where the
contract promises nothing of it (`DriftStep`).

### 4.8 MediaQueue

`IInv` has a formula for each side of the pipe, a queue and its thread
(`AudioSide`, `VideoSide`), one for the player (`PlayerOK`), one for how the packets of
a side follow each other up to what the player sends next (`Chains`), and one for the
counters (`Accounts`).  The lemmas are about what the operations of `media_queue.c` and
of the threads do to one side; the lemma of an action puts the two sides together.

* Flushes are in order (`InOrder`): handled, in hand, queued.  A packet in the queue is
  from after all of them (`After`), except the first audio packet while the thread has
  no other in hand: that one may have been put back.  What the video thread holds is
  from before every flush still due (`Before`), and no older than the last it handled.
  So the newest flush (`Frontier`) separates the queue from the hand, which gives
  `OneStalePacket`.
* `Chains` is the first part of `StreamContinuous` without the search for the next
  waiting packet:
  in the queue the follower of a packet is its neighbour; the packet in hand, or the
  current one, is followed by the head of the queue, and the packet decoded last by
  these, as long as no flush is due.  It is inductive because a seek in the queues keeps an
  end of each queue, a flush leaves nothing, and a packet is sent only when it is the next
  in the file (`PlayerOK`: the player's place is behind the packet in its hand).  It is
  claimed of a decoder that has not ended and a player that plays.
* `Marks`, which is inductive relative to `IInv`, is the second part: marked packets in a
  queue, in the player's hand and, as long as no flush is due, in the video thread's
  hands lie before `dmx.marked`, and `mq_seektarget` does not reach past it.  A flush
  leaves nothing in the queues and makes what the decoder holds irrelevant, which is
  why a seek by the player may start a new `marked`.
* `Refusals`: at most one `MB_CTRL_UNBLOCK` is queued, none while the sound server's
  callback is still to come, and one or the other exactly when the audio thread is
  blocked or about to be.  A flush keeps it because it keeps `MB_CTRL_UNBLOCK`.
* `Accounts`: `media_buffer_hungry` is 1 exactly when the pipe is not satisfied, and
  then there are bytes, or the audio thread holds the packet it took without
  `mq_update_stats`.

### 4.9 Only model-checked

* The liveness properties `ReaderServed`, `AnnouncedInTheEnd`, `StoppedIsFreed`,
  `PutReachesIndex`, `AnnounceAnswered`, `PlayerGoesOn` and `CloseCompletes`: liveness
  under fairness is out of the prover's reach.
* `ReaderGetsVerifiedData` is false (3.1).

## 5. Not modelled

Upload to peers and the extension protocol, magnet metadata, the arithmetic of
piece and file offsets, bencode; live streams, subtitles, DVD, pre-buffering and
the primary pipe; callouts and cancellables; the property tree, the protocol
drivers, the other backends, databases, scripting and the user interface.  Times
are abstracted to their order.  `peer_read_cb` taking the next message of a peer
that was just freed, the tracker freed by a timer while another thread has found
it, and the timer of a tracker's torrent used before its initialisation are
listed as hazards: each is a use of memory whose outcome nothing in the code
determines, and the models take the callback or the registration as one step.

Vendored libraries (`ext/`), tables and platform code are most of the repository's
lines and carry no logic of the program's own.

## 6. Plan

1. `TorrentGeometry`: pieces, blocks and files as functions of the lengths,
   against a reference definition; the last piece at an exact multiple.
2. `MagnetMetadata`: the metainfo loader against peers that leave.
3. `Callout`: timers disarmed by other threads.
4. Live streams on `MediaQueue`: `mb_enqueue_no_block` and the HTSP client.
