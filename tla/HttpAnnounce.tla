---------------------------- MODULE HttpAnnounce ----------------------------
(***************************************************************************)
(* Announcements to HTTP trackers (backend/bittorrent/tracker.c and        *)
(* tracker_http.c), through the requests of networking/asyncio_http.c, the *)
(* task pool that carries them out and the pipe that wakes the asyncio     *)
(* thread up (networking/asyncio_posix.c).                                 *)
(*                                                                         *)
(* tracker_torrent_t and asyncio_http_req_t have addresses, which calloc   *)
(* may give out again once they are free: a request may come back when the *)
(* torrent it was made for is gone and another one has its place.          *)
(*                                                                         *)
(* What a tracker answers only decides how long the timer runs and which   *)
(* peers are added; the timer is armed on every path, and is here armed or *)
(* not.  tracker_http_torrent_destroy follows at once when a torrent goes: *)
(* an HTTP tracker never is TRACKER_STATE_CONNECTED.                       *)
(***************************************************************************)
EXTENDS TaskPool

CONSTANTS
    TTs,            \* the addresses of tracker_torrent_t
    Reqs,           \* the addresses of asyncio_http_req_t
    MaxOther,       \* bound: tasks of others (plugins, SMB) in the pool
    MaxCancelled,   \* bound: cancelled requests still under way
    MaxPipe,        \* bound: bytes unread when a torrent is added or a timer fires
    Other, None

ASSUME HttpConstants ==
    /\ MaxOther \in Nat /\ MaxCancelled \in Nat /\ MaxPipe \in Nat
    /\ Cardinality(Reqs) >= Cardinality(TTs) + MaxCancelled
    /\ Other \notin Reqs /\ None \notin Reqs /\ None \notin TTs
    /\ 0 \notin Reqs \cup {Other}

VARIABLES
    tt,          \* per address: alive, tt_tentative, tt_http_req, tt_timer
    ahr,         \* per address: alive, ahr_cancelled, ahr_opaque
    completed,   \* asyncio_http_completed
    pipe,        \* asyncio_pipe
    aio          \* the asyncio thread: in poll, tracker_new_torrent or ahr_deliver_cb

httpVars == <<tt, ahr, completed, pipe, aio>>
vars == <<poolVars, httpVars>>

NoTT == [alive |-> FALSE, tentative |-> FALSE, req |-> None, armed |-> FALSE]
NoReq == [alive |-> FALSE, cancelled |-> FALSE, opaque |-> None]

Init ==
    /\ PoolInit
    /\ tt = [x \in TTs |-> NoTT]
    /\ ahr = [a \in Reqs |-> NoReq]
    /\ completed = <<>>
    /\ pipe = <<>>
    /\ aio = [pc |-> "poll", todo |-> {}]

Tentative == {x \in TTs : tt[x].alive /\ tt[x].tentative}

----------------------------------------------------------------------------
(* The asyncio thread.                                                      *)

\* The requests once x has no use for its own.
\* Slip: the request is not cancelled.
UncancelledOf(x) == ahr
CancelledOf(x) == IF tt[x].req = None THEN ahr
                  ELSE [ahr EXCEPT ![tt[x].req].cancelled = TRUE]

\* tracker_http_torrent_announce, asyncio_http_req and http_reqv, with the timers as
\* they are in `now'.
tracker_http_torrent_announce(x, now) ==
    \E a \in Reqs :
        /\ ~ahr[a].alive
        /\ ahr' = [CancelledOf(x) EXCEPT ![a] = [alive |-> TRUE, cancelled |-> FALSE,
                                                 opaque |-> x]]
        /\ tt' = [now EXCEPT ![x].tentative = FALSE, ![x].req = a]
        /\ task_run(a)

\* asyncio_handle_pipe: a byte names a worker.
HandlePipe ==
    /\ aio.pc = "poll" /\ pipe # <<>>
    /\ pipe' = Tail(pipe)
    /\ aio' = [pc |-> Head(pipe), todo |-> IF Head(pipe) = "new" THEN Tentative ELSE {}]
    /\ UNCHANGED <<poolVars, tt, ahr, completed>>

\* tracker_new_torrent walks lists that grow at their heads meanwhile: a torrent
\* added during the walk may be announced by it or not.
NewTorrent(x) ==
    /\ aio.pc = "new" /\ x \in Tentative
    /\ tracker_http_torrent_announce(x, tt)
    /\ aio' = [aio EXCEPT !.todo = @ \ {x}]
    /\ UNCHANGED <<completed, pipe>>

NewTorrentEnd ==
    /\ aio.pc = "new" /\ aio.todo = {}
    /\ aio' = [aio EXCEPT !.pc = "poll"]
    /\ UNCHANGED <<poolVars, tt, ahr, completed, pipe>>

\* http_callback: the request is over, the timer runs.
\* Slip: it returns without arming the timer.
CallbackReturns(x) == [tt EXCEPT ![x].req = None]
http_callback(x) == [tt EXCEPT ![x].req = None, ![x].armed = TRUE]

\* ahr_deliver_cb takes the request that completed last first.
Deliver ==
    /\ aio.pc = "http" /\ completed # <<>>
    /\ LET a == Head(completed)
       IN  /\ tt' = IF ahr[a].cancelled THEN tt ELSE http_callback(ahr[a].opaque)
           /\ ahr' = [ahr EXCEPT ![a] = NoReq]
    /\ completed' = Tail(completed)
    /\ UNCHANGED <<poolVars, pipe, aio>>

DeliverEnd ==
    /\ aio.pc = "http" /\ completed = <<>>
    /\ aio' = [aio EXCEPT !.pc = "poll"]
    /\ UNCHANGED <<poolVars, tt, ahr, completed, pipe>>

\* The timer fires: tracker_torrent_periodic announces again.
Periodic(x) ==
    /\ aio.pc = "poll" /\ tt[x].armed /\ Len(pipe) < MaxPipe
    /\ tracker_http_torrent_announce(x, [tt EXCEPT ![x].armed = FALSE])
    /\ UNCHANGED <<completed, pipe, aio>>

\* torrent_periodic destroys a torrent without users: tracker_remove_torrent.
Remove(x) ==
    /\ aio.pc = "poll" /\ tt[x].alive
    /\ Cardinality({a \in Reqs : ahr[a].cancelled}) < MaxCancelled
    /\ ahr' = CancelledOf(x)
    /\ tt' = [tt EXCEPT ![x] = NoTT]
    /\ UNCHANGED <<poolVars, completed, pipe, aio>>

----------------------------------------------------------------------------
(* Other threads.                                                           *)

\* tracker_add_torrent, on the thread that opens the torrent.
\* Slip: the worker is not woken when it has something to do already.
AddTorrentQuiet(x) ==
    /\ ~tt[x].alive /\ Len(pipe) < MaxPipe
    /\ tt' = [tt EXCEPT ![x] = [NoTT EXCEPT !.alive = TRUE, !.tentative = TRUE]]
    /\ pipe' = IF aio.pc = "new" THEN pipe ELSE Append(pipe, "new")
    /\ UNCHANGED <<poolVars, ahr, completed, aio>>
AddTorrent(x) ==
    /\ ~tt[x].alive /\ Len(pipe) < MaxPipe
    /\ tt' = [tt EXCEPT ![x] = [NoTT EXCEPT !.alive = TRUE, !.tentative = TRUE]]
    /\ pipe' = Append(pipe, "new")
    /\ UNCHANGED <<poolVars, ahr, completed, aio>>

\* http_req_async: the request is done, asyncio_http_cb hands it over ...
HttpDone(w) ==
    /\ worker[w].pc = "run" /\ worker[w].task # Other
    /\ completed' = <<worker[w].task>> \o completed
    /\ worker' = [worker EXCEPT ![w] = [pc |-> "wake", task |-> 0]]
    /\ UNCHANGED <<tasks, num_task_threads, num_task_threads_avail, tt, ahr, pipe, aio>>

\* ... and wakes the asyncio thread, which may have found it already.
HttpWake(w) ==
    /\ worker[w].pc = "wake"
    /\ pipe' = Append(pipe, "http")
    /\ TaskReturns(w)
    /\ UNCHANGED <<tasks, num_task_threads, num_task_threads_avail, tt, ahr, completed, aio>>

OtherDone(w) ==
    /\ worker[w].pc = "run" /\ worker[w].task = Other
    /\ TaskReturns(w)
    /\ UNCHANGED <<tasks, num_task_threads, num_task_threads_avail, httpVars>>

\* A plugin's HTTP request, or a query for an SMB master browser.
Others == Cardinality({i \in DOMAIN tasks : tasks[i] = Other})
            + Cardinality({w \in Workers : worker[w].task = Other})

RunOther ==
    /\ Others < MaxOther
    /\ task_run(Other)
    /\ UNCHANGED httpVars

Thread(w) == TaskThread(w) /\ UNCHANGED httpVars

----------------------------------------------------------------------------
Asyncio == HandlePipe \/ NewTorrentEnd \/ Deliver \/ DeliverEnd \/ \E x \in TTs : NewTorrent(x)
Worker(w) == Thread(w) \/ HttpDone(w) \/ HttpWake(w) \/ OtherDone(w)

Next ==
    \/ Asyncio
    \/ \E x \in TTs : Periodic(x) \/ Remove(x) \/ AddTorrent(x)
    \/ \E w \in Workers : Worker(w)
    \/ RunOther

Spec == Init /\ [][Next]_vars

\* The asyncio loop and the pool's threads run, and what a task does comes to an
\* end.  Nothing is assumed of timers, users and other tasks.
FairSpec == Spec /\ WF_vars(Asyncio) /\ \A w \in Workers : WF_vars(Worker(w))

----------------------------------------------------------------------------
(* Properties.                                                              *)

\* A request that will be answered belongs to the tracker_torrent_t it was made for,
\* alive and waiting for this very request, so that http_callback touches no freed
\* memory and its assertion holds; and a tracker_torrent_t waits for no other.
RequestOwned ==
    /\ \A a \in Reqs : ahr[a].alive /\ ~ahr[a].cancelled =>
           tt[ahr[a].opaque].alive /\ tt[ahr[a].opaque].req = a
    /\ \A x \in TTs : tt[x].req # None =>
           /\ ahr[tt[x].req].alive /\ ~ahr[tt[x].req].cancelled
           /\ ahr[tt[x].req].opaque = x

\* Where a request can be: queued, run by a thread, or done.
Places(a) == {<<"queue", i>> : i \in {i \in DOMAIN tasks : tasks[i] = a}}
             \cup {<<"thread", w>> : w \in {w \in Workers : worker[w].task = a}}
             \cup {<<"done", i>> : i \in {i \in DOMAIN completed : completed[i] = a}}
Coming(id) == aio.pc = id \/ \E i \in DOMAIN pipe : pipe[i] = id

\* A tracker is not forgotten between the threads: a torrent on its list is about to
\* be announced, has one request under way, of which the asyncio thread will hear, or
\* has its timer running.
InTouch ==
    /\ \A x \in TTs : tt[x].alive =>
           \/ tt[x].tentative /\ (x \in aio.todo \/ "new" \in {pipe[i] : i \in DOMAIN pipe})
           \/ tt[x].req # None
           \/ tt[x].armed
    /\ \A a \in Reqs : ahr[a].alive => Cardinality(Places(a)) = 1
    /\ completed # <<>> => Coming("http") \/ At("wake") # {}

\* Every torrent hears from its tracker, however busy the pool is with other tasks,
\* and its timer is set for the next announcement.
AnnounceAnswered ==
    \A x \in TTs : (tt[x].alive /\ ~tt[x].armed) ~> (tt[x].armed \/ ~tt[x].alive)
=============================================================================
