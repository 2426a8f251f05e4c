----------------------------- MODULE TrackerUdp -----------------------------
(***************************************************************************)
(* A UDP tracker and the torrents announced to it (tracker.c,               *)
(* tracker_udp.c).  Packets are lost, duplicated and reordered; what the    *)
(* client has against that are its timers and its transaction ids.          *)
(*                                                                         *)
(* A transaction id matters only by being, or no longer being, the current  *)
(* one of its tracker_torrent_t (tt_txid) or tracker_t (t_conn_txid): a     *)
(* packet is `fresh' or not, and a new id makes the packets of the old one  *)
(* stale.  The lengths of the timeouts are left out.                        *)
(***************************************************************************)
EXTENDS Integers, FiniteSets

CONSTANTS
    TTs,        \* addresses of tracker_torrent_t, each for one torrent at a time
    MaxNet,     \* bound: packets under way
    MaxAttempt, \* timeouts after which a stop request is given up (5)
    Conn        \* in place of a torrent in the packets that set up the connection

ASSUME TrackerConstants ==
    /\ IsFiniteSet(TTs) /\ MaxNet \in Nat \ {0} /\ Cardinality(TTs) <= MaxNet /\ MaxAttempt \in Nat \ {0}
    /\ Conn \notin TTs

VARIABLES
    st,      \* t_state; "none" when there is no tracker_t
    timer,   \* t_timer is armed
    tt,      \* [TTs -> TTRec]
    signal,  \* tracker_new_torrent_signal is pending
    net,     \* packets under way
    reg      \* the torrents the tracker has heard of since they were added

vars == <<st, timer, tt, signal, net, reg>>

States == {"none", "dns", "connecting", "connected", "error"}

\* `live': tt_torrent is not NULL.
TTRec == [here : BOOLEAN, live : BOOLEAN, tentative : BOOLEAN, timer : BOOLEAN,
          attempt : 0 .. MaxAttempt - 1]

\* `event' is 2 to start, 3 to stop.
Packet == [kind : {"connect", "connected", "announce", "announced", "failed"},
           x : TTs \cup {Conn}, event : {2, 3}, fresh : BOOLEAN]

\* Every variable has its type.
TypeOK ==
    /\ st \in States /\ timer \in BOOLEAN
    /\ tt \in [TTs -> TTRec]
    /\ signal \in BOOLEAN
    /\ net \subseteq Packet /\ Cardinality(net) <= MaxNet
    /\ reg \subseteq TTs

FreeTT == [here |-> FALSE, live |-> FALSE, tentative |-> FALSE, timer |-> FALSE,
           attempt |-> 0]

Init ==
    /\ st = "none" /\ timer = FALSE
    /\ tt = [x \in TTs |-> FreeTT]
    /\ signal = FALSE /\ net = {} /\ reg = {}

-----------------------------------------------------------------------------
(* Packets.                                                                 *)

\* The packets n after the ids of `xs' have changed.
Aged(n, xs) == {[m EXCEPT !.fresh = m.fresh /\ m.x \notin xs] : m \in n}

\* More packets go out; where they are too many for the bound the old ones are lost.
Put(n, more) == IF Cardinality(n \cup more) <= MaxNet THEN n \cup more ELSE more

Request(kind, x, event) == [kind |-> kind, x |-> x, event |-> event, fresh |-> TRUE]

\* tracker_udp_send_connect
SendConnect ==
    /\ st' = "connecting" /\ timer' = TRUE
    /\ net' = Put(Aged(net, {Conn}), {Request("connect", Conn, 2)})

\* Slip: the announcements of a torrent share one transaction id.
AnnouncesReuse(xs, event) ==
    Put(net, {Request("announce", x, event) : x \in xs})

\* tracker_udp_torrent_announce on a connected tracker, for all of xs: the
\* network ...
Announces(xs, event) ==
    Put(Aged(net, xs), {Request("announce", x, event) : x \in xs})

\* ... and the tracker_torrent_t.
Announced(xs) ==
    [x \in TTs |->
       IF x \in xs THEN [tt[x] EXCEPT !.tentative = FALSE, !.timer = TRUE]
       ELSE tt[x]]

\* tracker_torrent_destroy, and tracker_destroy with the last one.
Destroy(x) ==
    LET last == \A y \in TTs \ {x} : ~tt[y].here IN
    /\ tt' = [tt EXCEPT ![x] = FreeTT]
    /\ net' = Aged(net, IF last THEN {x, Conn} ELSE {x})
    /\ st' = IF last THEN "none" ELSE st
    /\ timer' = (timer /\ ~last)
    /\ reg' = reg \ {x}
    /\ UNCHANGED signal

-----------------------------------------------------------------------------
(* Torrents come and go.                                                    *)

\* tracker_add_torrent, and tracker_create for the first one.
AddTorrent(x) ==
    /\ ~tt[x].here
    /\ tt' = [tt EXCEPT ![x] = [FreeTT EXCEPT !.here = TRUE, !.live = TRUE,
                                              !.tentative = TRUE]]
    /\ st' = IF st = "none" THEN "dns" ELSE st
    /\ signal' = TRUE
    /\ UNCHANGED <<timer, net, reg>>

\* Slip: a torrent added to a connected tracker is left to the next connection.
NewTorrentLater ==
    /\ signal /\ signal' = FALSE
    /\ UNCHANGED <<st, timer, tt, net, reg>>

\* tracker_new_torrent: the worker behind tracker_new_torrent_signal.
NewTorrent ==
    LET xs == {x \in TTs : tt[x].here /\ tt[x].tentative} IN
    /\ signal /\ signal' = FALSE
    /\ IF st = "connected" THEN net' = Announces(xs, 2) /\ tt' = Announced(xs)
       ELSE UNCHANGED <<net, tt>>
    /\ UNCHANGED <<st, timer, reg>>

\* tracker_remove_torrent
Remove(x) ==
    /\ tt[x].here /\ tt[x].live
    /\ IF st = "connected"
       THEN /\ net' = Announces({x}, 3)
            /\ tt' = [Announced({x}) EXCEPT ![x].live = FALSE]
            /\ UNCHANGED <<st, timer, signal, reg>>
       ELSE Destroy(x)

-----------------------------------------------------------------------------
(* Timers and packets (tracker_udp_input).                                  *)

\* tracker_udp_got_dns
GotDns(ok) ==
    /\ st = "dns"
    /\ IF ok THEN SendConnect ELSE st' = "error" /\ UNCHANGED <<timer, net>>
    /\ UNCHANGED <<tt, signal, reg>>

\* tracker_udp_timer_cb
ConnTimer ==
    /\ timer
    /\ IF st = "connecting" THEN SendConnect ELSE timer' = FALSE /\ UNCHANGED <<st, net>>
    /\ UNCHANGED <<tt, signal, reg>>

\* Slip: a stop request that timed out is waited for again without counting.
StopTimerForever(x) ==
    UNCHANGED <<st, timer, tt, signal, net, reg>>

\* tracker_torrent_periodic of a torrent that is gone.  ("Resend stop request"
\* says a comment, but only the timer is armed again.)
StopTimer(x) ==
    IF tt[x].attempt + 1 = MaxAttempt THEN Destroy(x)
    ELSE /\ tt' = [tt EXCEPT ![x].attempt = @ + 1]
         /\ UNCHANGED <<st, timer, signal, net, reg>>

\* tracker_torrent_periodic: an announcement on a tracker that is not connected
\* does not arm the timer again.
TorrentTimer(x) ==
    /\ tt[x].here /\ tt[x].timer
    /\ IF ~tt[x].live THEN StopTimer(x)
       ELSE /\ IF st = "connected"
               THEN net' = Announces({x}, 2) /\ tt' = Announced({x})
               ELSE tt' = [tt EXCEPT ![x].timer = FALSE] /\ UNCHANGED net
            /\ UNCHANGED <<st, timer, signal, reg>>

\* Slip: the torrents that are gone are announced too.
LiveOrNot == {x \in TTs : tt[x].here}

\* Whom tracker_udp_announce_all announces.
Live == {x \in TTs : tt[x].here /\ tt[x].live}

\* tracker_udp_handle_connect_reply.  (`m' stays under way if it is duplicated.)
RecvConnected(m) ==
    /\ m \in net /\ m.kind = "connected" /\ m.fresh
    /\ st' = "connected" /\ timer' = FALSE
    /\ net' = Announces(Live, 2) /\ tt' = Announced(Live)
    /\ UNCHANGED <<signal, reg>>

\* tracker_udp_handle_announce_reply.  The peers it lists are peer_add's business.
RecvAnnounced(m) ==
    /\ m \in net /\ m.kind = "announced" /\ m.fresh
    /\ IF tt[m.x].live
       THEN /\ tt' = [tt EXCEPT ![m.x].timer = TRUE]
            /\ UNCHANGED <<st, timer, signal, net, reg>>
       ELSE Destroy(m.x)

\* tracker_udp_handle_error: connect again.
RecvFailed(m) ==
    /\ m \in net /\ m.kind = "failed" /\ m.fresh
    /\ IF tt[m.x].live THEN SendConnect /\ UNCHANGED <<tt, signal, reg>>
       ELSE Destroy(m.x)

\* The tracker answers a request, which may be delivered once more.
Answer(m, kind, dup) ==
    /\ m \in net
    /\ net' = Put(IF dup THEN net ELSE net \ {m}, {[m EXCEPT !.kind = kind]})
    /\ UNCHANGED <<st, timer, tt, signal>>

AnswerConnect(m, dup) ==
    /\ m.kind = "connect" /\ Answer(m, "connected", dup)
    /\ UNCHANGED reg

AnswerAnnounce(m, dup) ==
    /\ m.kind = "announce" /\ Answer(m, "announced", dup)
    /\ reg' = IF m.event = 3 THEN reg \ {m.x}
              ELSE IF m.fresh THEN reg \cup {m.x} ELSE reg

\* It does not know the connection id any more.
AnswerFailed(m, dup) ==
    /\ m.kind = "announce" /\ Answer(m, "failed", dup)
    /\ UNCHANGED reg

\* A packet is lost, or its last copy delivered.
Lose(m) ==
    /\ m \in net /\ net' = net \ {m}
    /\ UNCHANGED <<st, timer, tt, signal, reg>>

Recv(m) == RecvConnected(m) \/ RecvAnnounced(m) \/ RecvFailed(m)

Next ==
    \/ \E x \in TTs : AddTorrent(x) \/ Remove(x) \/ TorrentTimer(x)
    \/ NewTorrent \/ ConnTimer
    \/ \E ok \in BOOLEAN : GotDns(ok)
    \/ \E m \in net :
         \/ Recv(m) \/ Lose(m)
         \/ \E dup \in BOOLEAN :
              AnswerConnect(m, dup) \/ AnswerAnnounce(m, dup) \/ AnswerFailed(m, dup)

Spec == Init /\ [][Next]_vars

\* The asyncio loop fires armed timers and runs its workers, DNS answers, and a
\* packet that is sent again and again gets through in the end: the connection
\* request before its timeout, which doubles from one attempt to the next.
Fairness ==
    /\ WF_vars(NewTorrent) /\ WF_vars(ConnTimer)
    /\ WF_vars(\E ok \in BOOLEAN : GotDns(ok))
    /\ \A x \in TTs : WF_vars(TorrentTimer(x))
    /\ SF_vars(\E m \in net : m.fresh /\ AnswerConnect(m, FALSE))
    /\ SF_vars(\E m \in net : RecvConnected(m))
    /\ \A x \in TTs :
         SF_vars(\E m \in net : m.x = x /\ m.event = 2 /\ m.fresh /\ AnswerAnnounce(m, FALSE))

FairSpec == Spec /\ Fairness

-----------------------------------------------------------------------------
(* Properties.                                                             *)

\* Whatever is lost, something is armed that goes on: the connection attempt,
\* the announcements of every torrent on a connected tracker, and the end of
\* every stop request.
NoSilence ==
    /\ st = "connecting" => timer
    /\ \A x \in TTs : tt[x].here =>
         /\ ~tt[x].live => tt[x].timer
         /\ tt[x].live /\ st = "connected" => tt[x].timer \/ (tt[x].tentative /\ signal)

\* Of a torrent that is gone nothing but the stop request is sent any more
\* (tracker_udp_torrent_announce would read through tt_torrent).
StoppedStaysStopped ==
    \A m \in net : m.kind = "announce" /\ m.fresh /\ ~tt[m.x].live => m.event = 3

\* "We have successfully stopped our announcement, this is the end": the late
\* answer to an earlier announcement is never taken for the answer to the stop.
EndsByItsOwnAnswer ==
    [][\A x \in TTs : tt[x].here /\ ~tt[x].live /\ ~tt'[x].here =>
          \/ tt[x].attempt + 1 = MaxAttempt
          \/ \E m \in net : m.x = x /\ m.event = 3 /\ m.kind \in {"announced", "failed"}]_vars

\* A torrent that is added, to a new tracker or beside others, is announced in the
\* end, whatever is lost on the way, unless it is removed first or the tracker has
\* no address.  (What the tracker heard of it in an earlier life does not count.)
AnnouncedInTheEnd ==
    \A x \in TTs : x \in Live ~> (x \in reg \/ x \notin Live \/ st = "error")

\* What is left of a torrent that is gone is freed in the end.
StoppedIsFreed ==
    \A x \in TTs : (tt[x].here /\ ~tt[x].live) ~> ~tt[x].here

\* What the callbacks of timers, sockets and workers leave to each other: something to
\* go on, and nothing that speaks for a torrent that is gone.
TrackerInv == TypeOK /\ NoSilence /\ StoppedStaysStopped
=============================================================================
