----------------------------- MODULE MediaQueue -----------------------------
(***************************************************************************)
(* The media pipe of a video file: the player thread that demultiplexes    *)
(* the file (fileaccess/fa_video.c), the two packet queues and the events  *)
(* between it and the rest (media/media_queue.c, media_event.c, media.c),  *)
(* the audio and the video decoder threads (audio2/audio.c,                *)
(* video/video_decoder.c), the sound server's callback                     *)
(* (arch/linux/pulseaudio.c) and the user, who seeks, pauses and closes.   *)
(*                                                                         *)
(* A step is what a thread does between two points where mp_mutex is free. *)
(* hts_cond_wait is a program counter of its own; a signal moves the one   *)
(* thread that can wait there back into its loop.                          *)
(*                                                                         *)
(* A packet is its time stamp, and the file holds one video and one audio  *)
(* packet for each; both streams are selected.  Left out: subtitles, DVD,  *)
(* EVENT_CURRENT_TIME (it would only wake the player more often) and       *)
(* pre-buffering, which no backend turns on.  mp_max_realtime_delay has    *)
(* the value mp_configure gives it, no limit.                              *)
(***************************************************************************)
EXTENDS Integers, Sequences, Functions, FiniteSets, FiniteSetsExt

CONSTANTS
    LastPts,       \* the last time stamp of the file
    Keyframes,    \* the time stamps whose video packet is a key frame
    Hardware,     \* those whose video packet goes to a codec with decode_locked
    VideoSize,    \* the size of a video packet
    AudioSize,    \* the size of an audio packet, decoded a unit at a time or at once
    Limit,        \* mp_buffer_limit
    MinPackets,   \* the number of packets below which a queue is always fed (5)
    MaxSeeks,     \* bound: seeks by the user
    MaxHolds,     \* bound: times the user pauses or continues
    MayClose,     \* bound: whether the user closes the video
    None

Pts == 1 .. LastPts
Queues == {"audio", "video"}
Commands == {"FLUSH", "PAUSE", "PLAY", "EXIT", "UNBLOCK"}

\* media_buf_t and event_t.  A pts of 0 is PTS_UNSET; skip is mb_skip, set on what is not
\* to be presented: audio is dropped, video decoded without being shown.
Mb == [type : Commands \cup {"DATA"}, pts : 0 .. LastPts, epoch : Nat, size : Nat,
       skip : BOOLEAN]
Event == [type : {"SEEK"}, ts : Pts] \cup [type : {"HOLD", "EXIT"}, ts : {0}]

ASSUME MediaConstants ==
    /\ LastPts \in Nat \ {0} /\ Keyframes \subseteq Pts /\ 1 \in Keyframes
    /\ Hardware \subseteq Pts
    /\ VideoSize \in Nat \ {0} /\ AudioSize \in Nat \ {0}
    /\ Limit \in Nat /\ MinPackets \in Nat /\ MaxSeeks \in Nat /\ MaxHolds \in Nat
    /\ MayClose \in BOOLEAN /\ None \notin Mb /\ None \notin Event

VARIABLES
    mq,      \* per queue: mq_q_data, mq_q_ctrl, mq_packets_current
    noint,   \* mq_no_data_interest of the video queue
    mp,      \* mp_buffer_current, mp_epoch, mp_satisfied, mp_eof, mp_hold_gate
    hungry,  \* media_buffer_hungry
    eq,      \* mp_eq, the events for the player
    dmx,     \* the player thread: pc, the packet mb, the event, the file position, per
             \* queue mq_seektarget (0 if unset) and, as history, the place up to which
             \* packets were marked since the file was last repositioned
    aud,     \* the audio thread: pc, mb, blocked, ad_paused, samples left to deliver
    vid,     \* the video thread: pc, mb, cur, vd_hold, mc_current
    devblk,  \* decoder_t.blocked of the sound server's client
    ui       \* the user: pc, and the seeks and holds so far

vars == <<mq, noint, mp, hungry, eq, dmx, aud, vid, devblk, ui>>

----------------------------------------------------------------------------
(* Packets, and the queues.                                                 *)

Data(q, t, skip) == [type |-> "DATA", pts |-> t, epoch |-> 0,
                     size |-> IF q = "video" THEN VideoSize ELSE AudioSize, skip |-> skip]
Ctrl(cmd) == [type |-> cmd, pts |-> 0, epoch |-> 0, size |-> 0, skip |-> FALSE]

\* The bytes of a list, each by its packet and its place there.
Bytes(pkts) == Cardinality(UNION {{i} \X (1 .. pkts[i].size) : i \in DOMAIN pkts})

\* mq_update_stats after the buffer came to hold n bytes: satisfied when nothing more
\* is needed, hungry otherwise.  mp_satisfied is only ever compared with 0, so that
\* its initial -1 is as good as 1.
Satisfied(n) == mp.eof \/ n = 0 \/ n * 8 > Limit * 7

SetHungry(sat) == hungry' = CASE sat /\ ~mp.satisfied -> hungry - 1
                              [] ~sat /\ mp.satisfied -> hungry + 1
                              [] OTHER -> hungry

mq_update_stats(n, epoch) ==
    /\ mp' = [mp EXCEPT !.current = n, !.epoch = epoch, !.satisfied = Satisfied(n)]
    /\ SetHungry(Satisfied(n))

\* A list with a packet more, which gets the epoch: mb_enq on a queue ...
Queued(queue, mb, epoch) ==
    LET m == [mb EXCEPT !.epoch = epoch]
    IN  [data    |-> IF m.type = "DATA" THEN Append(queue.data, m) ELSE queue.data,
         ctrl    |-> IF m.type = "DATA" THEN queue.ctrl ELSE Append(queue.ctrl, m),
         packets |-> queue.packets + 1]

\* ... and as a whole; the signal is part of the callers' steps.
mb_enq(q, mb) ==
    /\ mq' = [mq EXCEPT ![q] = Queued(@, mb, mp.epoch)]
    /\ mq_update_stats(mp.current + mb.size, mp.epoch)

\* What mq_flush_q leaves in a queue.
\* Slips: MB_CTRL_UNBLOCK, or MB_CTRL_EXIT, is flushed with the rest.
SurvivesExitOnly(mb, full) == mb.type = "EXIT"
SurvivesUnblockOnly(mb, full) == mb.type = "UNBLOCK" /\ ~full
Survives(mb, full) == mb.type = "EXIT" \/ (mb.type = "UNBLOCK" /\ ~full)

\* The packets of a list at the positions P, in their order: what TAILQ_REMOVE of the
\* others leaves.
Rank(P, i) == Cardinality({j \in P : j <= i})
At(pkts, P) == [n \in 1 .. Cardinality(P) |-> pkts[CHOOSE i \in P : Rank(P, i) = n]]

mq_flush_q(queue, full) ==
    LET kept == At(queue.ctrl, {i \in DOMAIN queue.ctrl : Survives(queue.ctrl[i], full)})
    IN  [data |-> <<>>, ctrl |-> kept,
         packets |-> queue.packets - Len(queue.data) - (Len(queue.ctrl) - Len(kept))]

\* Both queues are flushed, both decoders are told, and the pipe is satisfied.
mp_flush_locked ==
    /\ mq' = [q \in Queues |-> Queued(mq_flush_q(mq[q], FALSE), Ctrl("FLUSH"), mp.epoch + 1)]
    /\ mp' = [mp EXCEPT !.current = @ - Bytes(mq["audio"].data) - Bytes(mq["video"].data),
                        !.epoch = @ + 1, !.satisfied = TRUE]
    /\ SetHungry(TRUE)

\* A decoder takes the head of a list.
CtrlTaken(queue) == [queue EXCEPT !.ctrl = Tail(@), !.packets = @ - 1]
DataTaken(queue) == [queue EXCEPT !.data = Tail(@), !.packets = @ - 1]

\* The audio thread puts a packet back that it has decoded a part of.
\* Slip: it is not counted again.
PutBackUncounted(queue, mb) == [queue EXCEPT !.data = <<mb>> \o @]
PutBack(queue, mb) == [queue EXCEPT !.data = <<mb>> \o @, !.packets = @ + 1]

\* hts_cond_signal of mp_backpressure and of the two mq_avail.
WokenPlayer(d) == CASE d.pc = "blocked"  -> [d EXCEPT !.pc = "send"]
                    [] d.pc = "draining" -> [d EXCEPT !.pc = "drain"]
                    [] OTHER -> d
Woken(th) == IF th.pc = "wait" THEN [th EXCEPT !.pc = "run"] ELSE th

----------------------------------------------------------------------------
Init ==
    /\ mq = [q \in Queues |-> [data |-> <<>>, ctrl |-> <<>>, packets |-> 0]]
    /\ noint = FALSE
    /\ mp = [current |-> 0, epoch |-> 1, satisfied |-> TRUE, eof |-> FALSE, gate |-> FALSE]
    /\ hungry = 0
    /\ eq = <<>>
    /\ dmx = [pc |-> "fetch", mb |-> None, q |-> "video", ev |-> None, pos |-> 1,
              target |-> [q \in Queues |-> 0], marked |-> [q \in Queues |-> 0]]
    /\ aud = [pc |-> "run", mb |-> None, blocked |-> FALSE, paused |-> FALSE,
              avail |-> FALSE, flushed |-> 0]
    /\ vid = [pc |-> "run", mb |-> None, cur |-> None, hold |-> FALSE, codec |-> None,
              flushed |-> 0, seen |-> None]
    /\ devblk = FALSE
    /\ ui = [pc |-> "open", seeks |-> 0, holds |-> 0]

----------------------------------------------------------------------------
(* The player: video_player_loop and what video_player_idle does after it.  *)

\* The file's packets, two for each time stamp, by their position.
QueueAt(p) == IF p % 2 = 1 THEN "video" ELSE "audio"
PtsAt(p) == (p + 1) \div 2
\* av_seek_frame with AVSEEK_FLAG_BACKWARD: the key frame at or before t.
SeekPos(t) == 2 * Max({k \in Keyframes : k <= t}) - 1

\* av_read_frame touches nothing shared: the packet it returns is the player's at
\* once, and how long it takes is when the player's next step is taken.  A packet from
\* before the place sought is marked; the first from there on ends that.
WithPacket(d) ==
    IF d.pos <= 2 * LastPts
    THEN LET q == QueueAt(d.pos)
             skip == PtsAt(d.pos) < d.target[q]
         IN  [d EXCEPT !.pc = "send", !.mb = Data(q, PtsAt(d.pos), skip),
                       !.q = q, !.pos = @ + 1, !.target[q] = IF skip THEN @ ELSE 0]
    ELSE [d EXCEPT !.pc = "eof", !.mb = None]

\* mp_eof is cleared before a packet is read (it may be set after a seek) ...
PlayerFetch ==
    /\ dmx.pc = "fetch"
    /\ mp' = [mp EXCEPT !.eof = FALSE]
    /\ dmx' = WithPacket(dmx)
    /\ UNCHANGED <<mq, noint, hungry, eq, aud, vid, devblk, ui>>

\* ... and set when there is none.
PlayerEof ==
    /\ dmx.pc = "eof"
    /\ mp' = [mp EXCEPT !.eof = TRUE]
    /\ dmx' = [dmx EXCEPT !.pc = "drain"]
    /\ UNCHANGED <<mq, noint, hungry, eq, aud, vid, devblk, ui>>

\* mb_enqueue_with_events: an event comes first, then the limit, then the two
\* safeguards against an empty queue.
Room == \/ mp.current + dmx.mb.size < Limit
        \/ mq["video"].packets < MinPackets
        \/ mq["audio"].packets < MinPackets

TakeEvent == /\ eq # <<>>
             /\ dmx' = [dmx EXCEPT !.pc = "event", !.ev = Head(eq)]
             /\ eq' = Tail(eq)
             /\ UNCHANGED <<mq, noint, mp, hungry, aud, vid, devblk, ui>>

PlayerSend ==
    /\ dmx.pc = "send"
    /\ \/ TakeEvent
       \/ /\ eq = <<>> /\ Room
          /\ mb_enq(dmx.q, dmx.mb)
          /\ dmx' = WithPacket(dmx)
          /\ aud' = IF dmx.q = "audio" THEN Woken(aud) ELSE aud
          /\ vid' = IF dmx.q = "video" /\ ~noint THEN Woken(vid) ELSE vid
          /\ UNCHANGED <<noint, eq, devblk, ui>>
       \/ /\ eq = <<>> /\ ~Room
          /\ dmx' = [dmx EXCEPT !.pc = "blocked"]
          /\ UNCHANGED <<mq, noint, mp, hungry, eq, aud, vid, devblk, ui>>

\* mp_wait_for_empty_queues at the end of the file; EVENT_EOF ends the loop.
Drained == mq["audio"].data = <<>> /\ mq["video"].data = <<>>

PlayerDrain ==
    /\ dmx.pc = "drain"
    /\ \/ TakeEvent
       \/ /\ eq = <<>>
          /\ dmx' = [dmx EXCEPT !.pc = IF Drained THEN "shutdown" ELSE "draining"]
          /\ UNCHANGED <<mq, noint, mp, hungry, eq, aud, vid, devblk, ui>>

\* The file is repositioned, the queues are flushed and the packet in hand is dropped.
video_seek(t) ==
    /\ mp_flush_locked
    /\ dmx' = [dmx EXCEPT !.pc = "fetch", !.mb = None, !.ev = None, !.pos = SeekPos(t),
                          !.target = [q \in Queues |-> t], !.marked = [q \in Queues |-> t]]
    /\ aud' = Woken(aud) /\ vid' = Woken(vid)

\* The event taken: a seek, the end, or nothing to do for EVENT_HOLD.
PlayerEvent ==
    /\ dmx.pc = "event"
    /\ \/ dmx.ev.type = "SEEK" /\ video_seek(dmx.ev.ts)
       \/ /\ dmx.ev.type = "EXIT"
          /\ dmx' = [dmx EXCEPT !.pc = "shutdown", !.mb = None]
          /\ UNCHANGED <<mq, mp, hungry, aud, vid>>
       \/ /\ dmx.ev.type = "HOLD"
          /\ dmx' = [dmx EXCEPT !.pc = IF dmx.mb = None THEN "drain" ELSE "send",
                                !.ev = None]
          /\ UNCHANGED <<mq, mp, hungry, aud, vid>>
    /\ UNCHANGED <<noint, eq, devblk, ui>>

\* mp_shutdown flushes, then audio_decoder_destroy sends MB_CTRL_EXIT ...
PlayerShutdown ==
    /\ dmx.pc = "shutdown"
    /\ mp_flush_locked
    /\ dmx' = [dmx EXCEPT !.pc = "stop"]
    /\ aud' = Woken(aud) /\ vid' = Woken(vid)
    /\ UNCHANGED <<noint, eq, devblk, ui>>

PlayerStopAudio ==
    /\ dmx.pc = "stop"
    /\ mb_enq("audio", Ctrl("EXIT"))
    /\ dmx' = [dmx EXCEPT !.pc = "join"]
    /\ aud' = Woken(aud)
    /\ UNCHANGED <<noint, eq, vid, devblk, ui>>

\* ... joins the thread and flushes everything; mp_bump_epoch follows.
PlayerJoin ==
    /\ dmx.pc = "join" /\ aud.pc = "exit"
    /\ mq' = [mq EXCEPT !["audio"] = mq_flush_q(@, TRUE)]
    /\ mq_update_stats(mp.current - Bytes(mq["audio"].data), mp.epoch + 1)
    /\ dmx' = [dmx EXCEPT !.pc = IF dmx.ev # None /\ dmx.ev.type = "EXIT"
                                 THEN "end" ELSE "idle", !.ev = None]
    /\ UNCHANGED <<noint, eq, aud, vid, devblk, ui>>

\* mp_dequeue_event: nothing plays; only EVENT_EXIT matters.
PlayerIdle ==
    /\ dmx.pc = "idle" /\ eq # <<>>
    /\ eq' = Tail(eq)
    /\ dmx' = [dmx EXCEPT !.pc = IF Head(eq).type = "EXIT" THEN "end" ELSE "idle"]
    /\ UNCHANGED <<mq, noint, mp, hungry, aud, vid, devblk, ui>>

----------------------------------------------------------------------------
(* audio_decode_thread, with a driver that delivers without the lock.       *)

Deliverable == aud.avail /\ ~aud.blocked /\ ~aud.paused /\ mq["audio"].ctrl = <<>>

\* pulseaudio_audio_deliver, without the lock: the samples are written, or there is
\* no room for them.
AudioAccepted ==
    /\ aud.pc = "run" /\ Deliverable
    /\ aud' = [aud EXCEPT !.avail = FALSE]
    /\ UNCHANGED <<mq, noint, mp, hungry, eq, dmx, vid, devblk, ui>>

AudioRefused ==
    /\ aud.pc = "run" /\ Deliverable
    /\ aud' = [aud EXCEPT !.pc = "refused"]
    /\ devblk' = TRUE
    /\ UNCHANGED <<mq, noint, mp, hungry, eq, dmx, vid, ui>>

AudioBlocked ==
    /\ aud.pc = "refused"
    /\ aud' = [aud EXCEPT !.pc = "run", !.blocked = TRUE]
    /\ UNCHANGED <<mq, noint, mp, hungry, eq, dmx, vid, devblk, ui>>

\* MB_CTRL_UNBLOCK is handled under the lock, the other commands without it.
AudioCtrl ==
    /\ aud.pc = "run" /\ mq["audio"].ctrl # <<>>
    /\ mq' = [mq EXCEPT !["audio"] = CtrlTaken(@)]
    /\ LET mb == Head(mq["audio"].ctrl)
       IN  IF mb.type = "UNBLOCK"
           THEN /\ aud' = [aud EXCEPT !.blocked = FALSE]
                /\ mq_update_stats(mp.current, mp.epoch)
                /\ dmx' = WokenPlayer(dmx)
           ELSE /\ aud' = [aud EXCEPT !.pc = "process", !.mb = mb]
                /\ UNCHANGED <<mp, hungry, dmx>>
    /\ UNCHANGED <<noint, eq, vid, devblk, ui>>

AudioTake ==
    /\ aud.pc = "run" /\ mq["audio"].ctrl = <<>> /\ mq["audio"].data # <<>> /\ ~aud.avail
    /\ aud' = [aud EXCEPT !.pc = "process", !.mb = Head(mq["audio"].data)]
    /\ mq' = [mq EXCEPT !["audio"] = DataTaken(@)]
    /\ mp' = [mp EXCEPT !.current = @ - Head(mq["audio"].data).size]
    /\ UNCHANGED <<noint, hungry, eq, dmx, vid, devblk, ui>>

AudioWait ==
    /\ aud.pc = "run" /\ ~Deliverable /\ mq["audio"].ctrl = <<>>
    /\ aud.avail \/ mq["audio"].data = <<>>
    /\ aud' = [aud EXCEPT !.pc = "wait"]
    /\ UNCHANGED <<mq, noint, mp, hungry, eq, dmx, vid, devblk, ui>>

\* audio_process_audio decoded a frame and bytes are left: mb_size is what is left, and
\* the time stamp is used up.
AudioPartial(more) ==
    /\ aud.pc = "process" /\ aud.mb.type = "DATA" /\ ~aud.mb.skip /\ aud.mb.size > 1
    /\ mq' = [mq EXCEPT !["audio"] = PutBack(@, [aud.mb EXCEPT !.size = @ - 1, !.pts = 0])]
    /\ mp' = [mp EXCEPT !.current = @ + (aud.mb.size - 1)]
    /\ aud' = [aud EXCEPT !.pc = "run", !.mb = None, !.avail = more]
    /\ UNCHANGED <<noint, hungry, eq, dmx, vid, devblk, ui>>

\* What a packet handled to its end does to the thread.
AudioAfter(mb, more) ==
    LET a == [aud EXCEPT !.pc = "run", !.mb = None]
    IN  CASE mb.type = "DATA"  -> [a EXCEPT !.avail = more]
          [] mb.type = "PAUSE" -> [a EXCEPT !.paused = TRUE]
          [] mb.type = "PLAY"  -> [a EXCEPT !.paused = FALSE]
          [] mb.type = "FLUSH" -> [a EXCEPT !.avail = FALSE, !.flushed = mb.epoch]
          [] mb.type = "EXIT"  -> [a EXCEPT !.pc = "exit"]

AudioDone(more) ==
    /\ aud.pc = "process"
    /\ aud.mb.type # "DATA" \/ aud.mb.skip => ~more
    /\ aud' = AudioAfter(aud.mb, more)
    /\ mq_update_stats(mp.current, mp.epoch)
    /\ dmx' = WokenPlayer(dmx)
    /\ UNCHANGED <<mq, noint, eq, vid, devblk, ui>>

\* stream_write_callback of the sound server (external; its use is pulseaudio.c's).
DeviceWritable ==
    /\ devblk
    /\ devblk' = FALSE
    /\ mb_enq("audio", Ctrl("UNBLOCK"))
    /\ aud' = Woken(aud)
    /\ UNCHANGED <<noint, eq, dmx, vid, ui>>

----------------------------------------------------------------------------
(* vd_thread.                                                               *)

VideoCtrl ==
    /\ vid.pc = "run" /\ mq["video"].ctrl # <<>>
    /\ vid' = [vid EXCEPT !.pc = "process", !.mb = Head(mq["video"].ctrl)]
    /\ mq' = [mq EXCEPT !["video"] = CtrlTaken(@)]
    /\ mq_update_stats(mp.current, mp.epoch)
    /\ dmx' = WokenPlayer(dmx)
    /\ UNCHANGED <<noint, eq, aud, devblk, ui>>

\* decode_locked takes the packet, or has no room: it stays the current one.
\* Slips: a packet that was not taken is lost; the interest in data does not return.
DecodeLockedLoses(v, mb, busy) ==
    /\ vid' = IF busy THEN [v EXCEPT !.pc = "wait", !.mb = None]
              ELSE [v EXCEPT !.pc = "run", !.mb = None, !.cur = None, !.seen = mb]
    /\ noint' = busy
DecodeLockedNoInterest(v, mb, busy) ==
    /\ vid' = IF busy THEN [v EXCEPT !.pc = "wait", !.mb = None, !.cur = mb]
              ELSE [v EXCEPT !.pc = "run", !.mb = None, !.cur = None, !.seen = mb]
    /\ noint' = (busy \/ noint)
DecodeLocked(v, mb, busy) ==
    /\ vid' = IF busy THEN [v EXCEPT !.pc = "wait", !.mb = None, !.cur = mb]
              ELSE [v EXCEPT !.pc = "run", !.mb = None, !.cur = None, !.seen = mb]
    /\ noint' = busy

VideoRetry(busy) ==
    /\ vid.pc = "run" /\ mq["video"].ctrl = <<>> /\ vid.cur # None /\ ~vid.hold
    /\ DecodeLocked(vid, vid.cur, busy)
    /\ UNCHANGED <<mq, mp, hungry, eq, dmx, aud, devblk, ui>>

\* The lock is only given up before decode_locked when the codec changes.
VideoTake(busy) ==
    /\ vid.pc = "run" /\ mq["video"].ctrl = <<>> /\ vid.cur = None /\ ~vid.hold
    /\ mq["video"].data # <<>>
    /\ mq' = [mq EXCEPT !["video"] = DataTaken(@)]
    /\ mq_update_stats(mp.current - Head(mq["video"].data).size, mp.epoch)
    /\ dmx' = WokenPlayer(dmx)
    /\ LET mb == Head(mq["video"].data)
           hw == mb.pts \in Hardware
       IN  IF hw /\ vid.codec = "hardware"
           THEN DecodeLocked(vid, mb, busy)
           ELSE /\ ~busy
                /\ vid' = [vid EXCEPT !.pc = IF hw THEN "switch" ELSE "process", !.mb = mb]
                /\ noint' = noint
    /\ UNCHANGED <<eq, aud, devblk, ui>>

VideoSwitch(busy) ==
    /\ vid.pc = "switch"
    /\ DecodeLocked([vid EXCEPT !.codec = "hardware"], vid.mb, busy)
    /\ UNCHANGED <<mq, mp, hungry, eq, dmx, aud, devblk, ui>>

VideoWait ==
    /\ vid.pc = "run" /\ mq["video"].ctrl = <<>>
    /\ vid.hold \/ (vid.cur = None /\ mq["video"].data = <<>>)
    /\ vid' = [vid EXCEPT !.pc = "wait"]
    /\ UNCHANGED <<mq, noint, mp, hungry, eq, dmx, aud, devblk, ui>>

\* What a packet handled without the lock does to the thread.
\* Slip: MB_CTRL_FLUSH leaves the current packet alone.
VideoAfterKeeps(mb) ==
    LET v == [vid EXCEPT !.pc = "run", !.mb = None]
    IN  CASE mb.type = "DATA"  -> [v EXCEPT !.codec = "software", !.seen = mb]
          [] mb.type = "PAUSE" -> [v EXCEPT !.hold = TRUE]
          [] mb.type = "PLAY"  -> [v EXCEPT !.hold = FALSE]
          [] mb.type = "FLUSH" -> [v EXCEPT !.flushed = mb.epoch]
          [] mb.type = "EXIT"  -> [v EXCEPT !.pc = "exit", !.cur = None]
VideoAfter(mb) ==
    LET v == [vid EXCEPT !.pc = "run", !.mb = None]
    IN  CASE mb.type = "DATA"  -> [v EXCEPT !.codec = "software", !.seen = mb]
          [] mb.type = "PAUSE" -> [v EXCEPT !.hold = TRUE]
          [] mb.type = "PLAY"  -> [v EXCEPT !.hold = FALSE]
          [] mb.type = "FLUSH" -> [v EXCEPT !.cur = None, !.flushed = mb.epoch]
          [] mb.type = "EXIT"  -> [v EXCEPT !.pc = "exit", !.cur = None]

\* The current packet is gone, and with it the lack of interest in data.
InterestAfter(mb) == IF mb.type \in {"FLUSH", "EXIT"} THEN FALSE ELSE noint

VideoDone ==
    /\ vid.pc = "process"
    /\ vid' = VideoAfter(vid.mb)
    /\ noint' = InterestAfter(vid.mb)
    /\ UNCHANGED <<mq, mp, hungry, eq, dmx, aud, devblk, ui>>

\* oc_empty_buffer_done: the codec returns a buffer and signals mq_avail, whether the
\* thread waits for that or for something else.
CodecReady ==
    /\ vid.pc = "wait" /\ vid.codec = "hardware"
    /\ vid' = Woken(vid)
    /\ UNCHANGED <<mq, noint, mp, hungry, eq, dmx, aud, devblk, ui>>

----------------------------------------------------------------------------
(* The user.                                                                *)

FirstAt(pkts, t) == {i \in 1 .. Len(pkts) : pkts[i].pts >= t}
KeysUpTo(pkts, i) == {k \in 1 .. i : pkts[k].pts \in Keyframes}

\* mp_seek_in_queues can do it when both queues hold the place and a key frame.
SeekableInQueues(t) ==
    /\ FirstAt(mq["audio"].data, t) # {}
    /\ FirstAt(mq["video"].data, t) # {}
    /\ KeysUpTo(mq["video"].data, Min(FirstAt(mq["video"].data, t))) # {}

\* The first packet of a queue that is kept.
KeptFrom(q, t) ==
    IF q = "audio" THEN Min(FirstAt(mq[q].data, t))
    ELSE Max(KeysUpTo(mq[q].data, Min(FirstAt(mq[q].data, t))))

\* The packets before the n-th are dropped, those before the m-th are marked (an old
\* mark stays), and all get the new epoch.
DropBefore(queue, n, m, epoch) ==
    LET Kept(i) == [queue.data[i] EXCEPT !.epoch = epoch, !.skip = @ \/ i < m]
    IN  [queue EXCEPT !.data = [i \in 1 .. Len(@) - n + 1 |-> Kept(i + n - 1)],
                      !.packets = @ - (n - 1)]

mp_seek_in_queues(t, epoch) ==
    /\ mq' = [q \in Queues |->
                 Queued(DropBefore(mq[q], KeptFrom(q, t), Min(FirstAt(mq[q].data, t)), epoch),
                        Ctrl("FLUSH"), epoch)]
    /\ mq_update_stats(mp.current
                         - Bytes(SubSeq(mq["audio"].data, 1, KeptFrom("audio", t) - 1))
                         - Bytes(SubSeq(mq["video"].data, 1, KeptFrom("video", t) - 1)),
                       epoch)

SeekEvents == {i \in DOMAIN eq : eq[i].type = "SEEK"}

\* mp_direct_seek: in the queues, or by an event of which there is one at most.
UiSeek(t) ==
    /\ ui.pc = "open" /\ ui.seeks < MaxSeeks
    /\ ui' = [ui EXCEPT !.seeks = @ + 1]
    /\ \/ /\ SeekableInQueues(t)
          /\ mp_seek_in_queues(t, mp.epoch + 1)
          /\ dmx' = [dmx EXCEPT !.marked["video"] = Max({@, t})]
          /\ aud' = Woken(aud) /\ vid' = Woken(vid)
          /\ UNCHANGED eq
       \/ /\ ~SeekableInQueues(t)
          /\ mp' = [mp EXCEPT !.epoch = @ + 1]
          /\ IF SeekEvents # {}
             THEN /\ eq' = [eq EXCEPT ![Min(SeekEvents)].ts = t]
                  /\ dmx' = dmx
             ELSE /\ eq' = Append(eq, [type |-> "SEEK", ts |-> t])
                  /\ dmx' = WokenPlayer(dmx)
          /\ UNCHANGED <<mq, hungry, aud, vid>>
    /\ UNCHANGED <<noint, devblk>>

\* mp_set_playstatus_by_hold_locked: the gate changes, both queues are told.
UiHold ==
    /\ ui.pc = "open" /\ ui.holds < MaxHolds
    /\ LET cmd == Ctrl(IF mp.gate THEN "PLAY" ELSE "PAUSE")
       IN  mq' = [q \in Queues |-> Queued(mq[q], cmd, mp.epoch)]
    /\ mp' = [mp EXCEPT !.gate = ~@, !.satisfied = Satisfied(mp.current)]
    /\ SetHungry(Satisfied(mp.current))
    /\ eq' = Append(eq, [type |-> "HOLD", ts |-> 0])
    /\ dmx' = WokenPlayer(dmx) /\ aud' = Woken(aud) /\ vid' = Woken(vid)
    /\ ui' = [ui EXCEPT !.holds = @ + 1]
    /\ UNCHANGED <<noint, devblk>>

\* The widget goes away: EVENT_EXIT for the player, then MB_CTRL_EXIT for vd_thread,
\* which is joined while the player may still be at work.
UiClose ==
    /\ ui.pc = "open" /\ MayClose
    /\ eq' = Append(eq, [type |-> "EXIT", ts |-> 0])
    /\ dmx' = WokenPlayer(dmx)
    /\ ui' = [ui EXCEPT !.pc = "stop"]
    /\ UNCHANGED <<mq, noint, mp, hungry, aud, vid, devblk>>

UiStopVideo ==
    /\ ui.pc = "stop"
    /\ mb_enq("video", Ctrl("EXIT"))
    /\ vid' = Woken(vid)
    /\ ui' = [ui EXCEPT !.pc = "join"]
    /\ UNCHANGED <<noint, eq, dmx, aud, devblk>>

UiJoin ==
    /\ ui.pc = "join" /\ vid.pc = "exit"
    /\ ui' = [ui EXCEPT !.pc = "closed"]
    /\ UNCHANGED <<mq, noint, mp, hungry, eq, dmx, aud, vid, devblk>>

----------------------------------------------------------------------------
Player == \/ PlayerFetch \/ PlayerEof \/ PlayerSend \/ PlayerDrain \/ PlayerEvent
          \/ PlayerShutdown \/ PlayerStopAudio \/ PlayerJoin \/ PlayerIdle
Audio == \/ AudioAccepted \/ AudioRefused \/ AudioBlocked
         \/ AudioCtrl \/ AudioTake \/ AudioWait
         \/ \E more \in BOOLEAN : AudioPartial(more) \/ AudioDone(more)
Video == \/ VideoCtrl \/ VideoWait \/ VideoDone
         \/ \E busy \in BOOLEAN : VideoRetry(busy) \/ VideoTake(busy) \/ VideoSwitch(busy)
User == (\E t \in Pts : UiSeek(t)) \/ UiHold \/ UiClose \/ UiStopVideo \/ UiJoin

Next == Player \/ Audio \/ Video \/ DeviceWritable \/ CodecReady \/ User

Spec == Init /\ [][Next]_vars

\* Threads run; the sound server and the codec make room in the end, and take what
\* they are given when they are offered it again and again.
FairSpec == /\ Spec
            /\ WF_vars(Player) /\ WF_vars(Audio) /\ WF_vars(Video)
            /\ WF_vars(DeviceWritable) /\ WF_vars(vid.cur # None /\ ~vid.hold /\ CodecReady)
            /\ SF_vars(AudioAccepted) /\ SF_vars(VideoRetry(FALSE))
            /\ WF_vars(UiStopVideo) /\ WF_vars(UiJoin)

----------------------------------------------------------------------------
(* Properties.                                                              *)

Threads == {"run", "wait", "process", "exit"}

TypeOK ==
    /\ \A q \in Queues : /\ mq[q].data \in Seq(Mb) /\ mq[q].ctrl \in Seq(Mb)
                         /\ mq[q].packets \in Nat
    /\ noint \in BOOLEAN /\ devblk \in BOOLEAN /\ hungry \in {0, 1}
    /\ mp \in [current : Nat, epoch : Nat, satisfied : BOOLEAN, eof : BOOLEAN,
               gate : BOOLEAN]
    /\ aud.pc \in Threads \cup {"refused"} /\ vid.pc \in Threads \cup {"switch"}
    /\ dmx.pc \in {"fetch", "send", "blocked", "eof", "drain", "draining", "event",
                   "shutdown", "stop", "join", "idle", "end"}

\* mq_packets_current and mp_buffer_current are what the lists hold: a packet is
\* taken, put back with fewer bytes, dropped by a seek or flushed with its share.
CountsExact ==
    /\ \A q \in Queues : mq[q].packets = Len(mq[q].data) + Len(mq[q].ctrl)
    /\ mp.current = Bytes(mq["audio"].data) + Bytes(mq["video"].data)

\* The directory scanner stands still as long as a pipe is hungry: a pipe with
\* nothing queued is not hungry, but for the audio thread's last packet.
HungryHoldsPackets ==
    hungry = 1 => mp.current > 0 \/ aud.pc = "process"

\* A driver that refused samples gets one MB_CTRL_UNBLOCK, which the thread's
\* assert(blocked) relies on, and which no flush takes away.
Unblocks == Cardinality({i \in DOMAIN mq["audio"].ctrl : mq["audio"].ctrl[i].type = "UNBLOCK"})
OneUnblockPerRefusal ==
    aud.pc # "exit" => Unblocks + (IF devblk THEN 1 ELSE 0)
                         = (IF aud.blocked \/ aud.pc = "refused" THEN 1 ELSE 0)

\* The epoch of the newest MB_CTRL_FLUSH sent to a decoder, handled or not yet.
Hand(q) == IF q = "audio" THEN <<aud.mb>> ELSE <<vid.mb, vid.cur>>
Thread(q) == IF q = "audio" THEN aud ELSE vid
InHand(q) == {Hand(q)[i] : i \in DOMAIN Hand(q)} \ {None}
Flushes(q) == {mb \in Range(mq[q].ctrl) \cup InHand(q) : mb.type = "FLUSH"}
Frontier(q) == Max({mb.epoch : mb \in Flushes(q)} \cup {Thread(q).flushed})

\* The packets on their way to a thread: to the video thread the last one decoded, the
\* one in hand, and the queue, as far as no flush is about to discard them; to the audio
\* thread the queue, but for a packet put back, which may be from before a seek.
Line(q) == IF q = "audio" THEN mq[q].data ELSE <<vid.seen, vid.cur, vid.mb>> \o mq[q].data
Waiting(q) ==
    {i \in DOMAIN Line(q) :
        LET mb == Line(q)[i]
        IN  IF q = "audio" THEN mb.size = AudioSize
            ELSE mb # None /\ mb.type = "DATA" /\ mb.epoch >= Frontier(q)}
\* The packet the player sends next.
NextPts(q) ==
    IF dmx.mb # None /\ dmx.q = q THEN dmx.mb.pts
    ELSE PtsAt(IF QueueAt(dmx.pos) = q THEN dmx.pos ELSE dmx.pos + 1)

Playing == dmx.pc \in {"fetch", "send", "blocked", "eof", "drain", "draining", "event"}

\* The time stamp that comes after the i-th.
Follower(q, i) == LET later == {j \in Waiting(q) : j > i}
                  IN  IF later = {} THEN NextPts(q) ELSE Line(q)[Min(later)].pts

\* Whatever was sought, in the queues or by the player, the packets a decoder is to
\* handle after the newest flush follow each other, and the player's next follows
\* them: none is missing, repeated or out of order.  What the decoder does not present
\* of them lies before the place the file was repositioned to or, for video, before a
\* place sought in the queues since.  (A seek back in the queues finds the marks where
\* they were.)
StreamContinuous ==
    Playing => \A q \in {r \in Queues : Thread(r).pc # "exit"} :
        \A i \in Waiting(q) :
            /\ Follower(q, i) = Line(q)[i].pts + 1
            /\ Line(q)[i].skip => Line(q)[i].pts < dmx.marked[q]

\* A packet from before the newest flush is not queued behind it: none for video,
\* and one for audio, which the thread was decoding and puts back.  Video that has
\* handled a flush decodes nothing older.
OneStalePacket ==
    /\ \A q \in Queues :
         LET stale == {i \in DOMAIN mq[q].data : mq[q].data[i].epoch < Frontier(q)}
         IN  stale \subseteq (IF q = "audio" THEN {1} ELSE {})
    /\ \A mb \in InHand("video") : mb.type = "DATA" => mb.epoch >= vid.flushed

\* A player that waits for room goes on, unless the decoders are paused.
Paused == vid.hold \/ aud.paused
PlayerGoesOn == dmx.pc \in {"blocked", "draining"}
                  ~> (dmx.pc \notin {"blocked", "draining"} \/ Paused)

\* Closing the widget ends the video thread, the player and the audio thread, even
\* when the player's last flush comes after the video thread's MB_CTRL_EXIT.
CloseCompletes == (ui.pc = "stop") ~> (ui.pc = "closed" /\ dmx.pc = "end" /\ aud.pc = "exit")

\* The accounting behind backpressure and media_buffer_hungry survives every seek, flush
\* and packet put back.
MediaInv == TypeOK /\ CountsExact /\ HungryHoldsPackets
=============================================================================
