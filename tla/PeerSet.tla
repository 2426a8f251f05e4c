------------------------------- MODULE PeerSet -------------------------------
(***************************************************************************)
(* The peers of the open torrents and their connections (peer.c, and        *)
(* torrent_attempt_more_peers of torrent.c): which peers are connected,     *)
(* which wait for a slot, which are to be tried again, and the counters     *)
(* that keep the connections within the limits of a torrent and of the      *)
(* program.  All of it runs in the asyncio thread.  Requests for blocks are *)
(* in PeerRequests.                                                         *)
(***************************************************************************)
EXTENDS Integers, Sequences, FiniteSets

CONSTANTS
    Torrents, Addrs,
    MaxTorrent,   \* btg_max_peers_torrent (50)
    MaxGlobal,    \* btg_max_peers_global (200)
    GiveUp,       \* failures after which a peer is given up (5)
    MaxOpens      \* bound: torrents opened

ASSUME PeerSetConstants ==
    /\ IsFiniteSet(Torrents) /\ IsFiniteSet(Addrs)
    /\ {MaxTorrent, MaxGlobal, GiveUp} \subseteq Nat \ {0} /\ MaxOpens \in Nat

VARIABLES
    to,      \* [Torrents -> TorrentRec]
    global,  \* btg_active_peers
    capped,  \* history: the torrents a connection was denied for the global limit
    opens    \* torrents opened

vars == <<to, global, capped, opens>>

\* The states in which a peer is in a queue, and the queues.
Queues == {"inactive", "disconnected", "failed"}

Linked == {"connecting", "handshake", "running"}

\* "none": no such peer.
PeerRec == [st : Queues \cup Linked \cup {"none"}, fails : 0 .. GiveUp, discs : 0 .. GiveUp,
            choking : BOOLEAN]

TorrentRec == [open : BOOLEAN, peer : [Addrs -> PeerRec], q : [Queues -> Seq(Addrs)],
               running : SUBSET Addrs, unchoked : SUBSET Addrs, active : Int, num : Int]

\* Every variable has its type, and no peer stays that has failed GiveUp times.
TypeOK ==
    /\ to \in [Torrents -> TorrentRec]
    /\ \A t \in Torrents, a \in Addrs : to[t].peer[a].fails < GiveUp /\ to[t].peer[a].discs < GiveUp
    /\ global \in Int /\ capped \subseteq Torrents /\ opens \in 0 .. MaxOpens

NoPeer == [st |-> "none", fails |-> 0, discs |-> 0, choking |-> TRUE]

Fresh == [open |-> FALSE, peer |-> [a \in Addrs |-> NoPeer], q |-> [x \in Queues |-> <<>>],
          running |-> {}, unchoked |-> {}, active |-> 0, num |-> 0]

Init ==
    /\ to = [t \in Torrents |-> Fresh]
    /\ global = 0 /\ capped = {} /\ opens = 0

-----------------------------------------------------------------------------
(* What the functions do to a torrent T and to the global counter g.        *)

Result(T, g) == [T |-> T, g |-> g]

Full(T, g) == T.active >= MaxTorrent \/ g >= MaxGlobal

\* peer_connect
Connect(T, g, a) ==
    Result([T EXCEPT !.peer[a].st = "connecting", !.active = @ + 1], g + 1)

\* Slip: the peers that could not be connected are left out.
FirstQueueShort(T) == IF T.q["inactive"] # <<>> THEN "inactive" ELSE "disconnected"

\* The queue torrent_attempt_more_peers takes a peer from.
FirstQueue(T) ==
    IF T.q["inactive"] # <<>> THEN "inactive"
    ELSE IF T.q["disconnected"] # <<>> THEN "disconnected" ELSE "failed"

\* torrent_attempt_more_peers
Attempt(T, g) ==
    LET x == FirstQueue(T) IN
    IF Full(T, g) \/ T.q[x] = <<>> THEN Result(T, g)
    ELSE Connect([T EXCEPT !.q[x] = Tail(@)], g, Head(T.q[x]))

\* Slip: a peer that does not choke us stays on its list.
UnlistedOnce(T, a) == [T EXCEPT !.running = @ \ {a}, !.peer[a].choking = TRUE]

\* The lists peer_shutdown takes a peer off that has a connection.
Unlisted(T, a) ==
    [T EXCEPT !.running = @ \ {a}, !.unchoked = @ \ {a}, !.peer[a].choking = TRUE]

\* The peer is not tried again.
GivenUp(p, next) ==
    \/ next = "none"
    \/ next = "failed" /\ p.fails = GiveUp
    \/ next = "disconnected" /\ p.discs = GiveUp

\* The end of peer_shutdown: the peer goes into the queue of its new state, or is freed.
Settled(T, a, next) ==
    LET p == [T.peer[a] EXCEPT !.st = next,
                !.fails = IF next = "failed" THEN @ + 1 ELSE @,
                !.discs = IF next = "disconnected" THEN @ + 1 ELSE @] IN
    IF GivenUp(p, next) THEN [T EXCEPT !.peer[a] = NoPeer, !.num = @ - 1]
    ELSE [T EXCEPT !.peer[a] = p, !.q[next] = Append(@, a)]

\* Slip: the slot is given back too late.
ShutdownLate(T, g, a, next) ==
    LET r == Attempt(T, g) IN
    Result(Settled(Unlisted([r.T EXCEPT !.active = @ - 1], a), a, next), r.g - 1)

\* peer_shutdown, with resched, of a peer that has a connection: another peer takes
\* its place before it is put into a queue itself.
Shutdown(T, g, a, next) ==
    LET r == Attempt([T EXCEPT !.active = @ - 1], g - 1) IN
    Result(Settled(Unlisted(r.T, a), a, next), r.g)

\* Slip: the global counter is left alone.
ShutdownAllLocal(T, g) == Result(Fresh, g)

\* peer_shutdown_all: every peer that is not in state INACTIVE lowers the counters.
ShutdownAll(T, g) ==
    Result(Fresh, g - Cardinality({a \in Addrs : T.peer[a].st \notin {"none", "inactive"}}))

\* The torrent t becomes r.T and the counter r.g; denied says whether the global limit
\* stood in the way of a connection.
Becomes(t, r, denied) ==
    /\ to' = [to EXCEPT ![t] = r.T] /\ global' = r.g
    /\ capped' = IF denied THEN capped \cup {t} ELSE capped
    /\ UNCHANGED opens

-----------------------------------------------------------------------------
(* Torrents.                                                                *)

\* torrent_create
Open(t) ==
    /\ ~to[t].open /\ opens < MaxOpens
    /\ to' = [to EXCEPT ![t].open = TRUE] /\ opens' = opens + 1
    /\ UNCHANGED <<global, capped>>

\* torrent_destroy
Close(t) ==
    /\ to[t].open
    /\ LET r == ShutdownAll(to[t], global) IN to' = [to EXCEPT ![t] = r.T] /\ global' = r.g
    /\ capped' = capped \ {t}
    /\ UNCHANGED opens

\* peer_add: a tracker names a peer.
Add(t, a) ==
    /\ to[t].open /\ to[t].peer[a].st = "none"
    /\ LET T == [to[t] EXCEPT !.num = @ + 1] IN
       Becomes(t,
           IF Full(T, global)
           THEN Result([T EXCEPT !.peer[a].st = "inactive", !.q["inactive"] = Append(@, a)], global)
           ELSE Connect(T, global, a),
           T.active < MaxTorrent /\ global >= MaxGlobal)

-----------------------------------------------------------------------------
(* Connections.                                                             *)

St(t, a) == to[t].peer[a].st

\* peer_error_cb without an error: the connection is there.
Connected(t, a) ==
    /\ St(t, a) = "connecting"
    /\ Becomes(t, Result([to[t] EXCEPT !.peer[a].st = "handshake", !.peer[a].choking = TRUE],
                         global), FALSE)

\* peer_read_cb: the handshake of the peer is good.
Handshake(t, a) ==
    /\ St(t, a) = "handshake"
    /\ Becomes(t, Result([to[t] EXCEPT !.running = @ \cup {a},
                            !.peer[a] = [@ EXCEPT !.st = "running", !.fails = 0, !.discs = 0]],
                         global), FALSE)

\* recv_message: the peer unchokes us.
Unchoke(t, a) ==
    /\ St(t, a) = "running" /\ to[t].peer[a].choking
    /\ Becomes(t, Result([to[t] EXCEPT !.peer[a].choking = FALSE, !.unchoked = @ \cup {a}],
                         global), FALSE)

\* recv_message: the peer chokes us.
Choke(t, a) ==
    /\ St(t, a) = "running" /\ ~to[t].peer[a].choking
    /\ Becomes(t, Result([to[t] EXCEPT !.peer[a].choking = TRUE, !.unchoked = @ \ {a}],
                         global), FALSE)

\* A connection ends: the peer goes into state `next'.
Ends(t, a, next) ==
    Becomes(t, Shutdown(to[t], global, a, next), global - 1 >= MaxGlobal)

\* peer_error_cb: the connection failed, broke or timed out.
Error(t, a) ==
    /\ St(t, a) \in Linked
    /\ Ends(t, a, IF St(t, a) = "running" THEN "disconnected" ELSE "failed")

\* peer_disconnect: the peer does not follow the protocol.
Disconnect(t, a) ==
    /\ St(t, a) \in {"handshake", "running"}
    /\ Ends(t, a, "none")

Next ==
    \/ \E t \in Torrents : Open(t) \/ Close(t)
    \/ \E t \in Torrents, a \in Addrs :
          \/ Add(t, a) \/ Connected(t, a) \/ Handshake(t, a) \/ Unchoke(t, a) \/ Choke(t, a)
          \/ Error(t, a) \/ Disconnect(t, a)

Spec == Init /\ [][Next]_vars

-----------------------------------------------------------------------------
(* Properties.                                                              *)

LinkedPeers(t) == {a \in Addrs : St(t, a) \in Linked}

\* A peer is once in the queue of its state and in no other queue; running peers are on
\* to_running_peers, and those of them that do not choke us on to_unchoked_peers.
ListsFitStates ==
    \A t \in Torrents :
        /\ \A x \in Queues, a \in Addrs :
              Cardinality({i \in DOMAIN to[t].q[x] : to[t].q[x][i] = a}) = IF St(t, a) = x THEN 1 ELSE 0
        /\ to[t].running = {a \in Addrs : St(t, a) = "running"}
        /\ to[t].unchoked = {a \in to[t].running : ~to[t].peer[a].choking}

\* to_active_peers counts the connections and to_num_peers the peers of a torrent.
TorrentCountsExact ==
    \A t \in Torrents : /\ to[t].active = Cardinality(LinkedPeers(t))
                        /\ to[t].num = Cardinality({a \in Addrs : St(t, a) # "none"})

\* No torrent has more connections than a torrent may have.
TorrentLimitKept == \A t \in Torrents : Cardinality(LinkedPeers(t)) <= MaxTorrent

\* btg_active_peers never exceeds the number of connections: a slot that is free is
\* never lost for good, whatever peers fail and torrents are closed.
NoSlotLeaks ==
    global <= Cardinality({c \in Torrents \X Addrs : c[2] \in LinkedPeers(c[1])})

\* While the global limit has denied a torrent nothing, a peer waits for its first
\* connection only if the torrent has all the connections it may have.
NoSlotWasted ==
    \A t \in Torrents \ capped : to[t].q["inactive"] # <<>> => to[t].active >= MaxTorrent

\* And a torrent without a connection has at most one peer left to try: every connection
\* that ends starts another as long as there is one to start.  (The one is the peer that
\* failed last.  Nothing tries it again until a tracker names a new one.)
AtMostOneStranded ==
    \A t \in Torrents \ capped :
        to[t].active = 0 =>
            Len(to[t].q["inactive"]) + Len(to[t].q["disconnected"]) + Len(to[t].q["failed"]) <= 1

\* The bookkeeping of the peers: the lists agree with the states, the counters with the
\* lists, and no torrent exceeds its limit, whatever connections do.
PeerSetInv == TypeOK /\ ListsFitStates /\ TorrentCountsExact /\ TorrentLimitKept
=============================================================================
