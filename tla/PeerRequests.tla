---------------------------- MODULE PeerRequests ----------------------------
(***************************************************************************)
(* Blocks, the requests sent for them and the peers they are sent to: the  *)
(* download scheduler of one torrent (torrent_io_do_requests and what it   *)
(* calls, torrent.c) and the peer messages that drive it (peer.c).         *)
(*                                                                         *)
(* All of this runs on the asyncio thread.  torrent_io_do_requests is not  *)
(* one step here but a loop with a place in it (`aio'), because the peer   *)
(* callbacks that run it do not hold bittorrent_mutex: a reader's          *)
(* torrent_piece_find enqueues the blocks of a new piece in the middle of  *)
(* it.  Only torrent_periodic and torrent_check_pendings run it under the  *)
(* mutex.                                                                  *)
(*                                                                         *)
(* Time is left out: a deadline may or may not be in danger, a response    *)
(* takes any of the delays 1 .. MaxDelay.                                  *)
(***************************************************************************)
EXTENDS Integers, FiniteSets

CONSTANTS
    Peers,     \* addresses of peers
    Pieces,    \* piece indices
    Names,     \* the blocks: <<piece, tb_begin>>, a last piece may have fewer
    Addrs,     \* addresses a torrent_block_t can be allocated at
    MaxQ,      \* p_maxq of a peer that has delivered (10)
    MaxDelay,  \* bound: p_block_delay is 0 (not known) .. MaxDelay
    Null       \* NULL

\* A block address is there for every block that can be outstanding.
ASSUME RequestConstants ==
    /\ IsFiniteSet(Peers) /\ IsFiniteSet(Addrs)
    /\ IsFiniteSet(Names) /\ Names \subseteq Pieces \X Nat
    /\ Pieces # {} /\ \A i \in Pieces : \E n \in Names : n[1] = i
    /\ Cardinality(Addrs) >= Cardinality(Names)
    /\ MaxQ \in Nat /\ MaxQ >= 2 /\ MaxDelay \in Nat \ {0}
    /\ Null \notin Addrs /\ Null \notin Peers

VARIABLES
    peer,         \* [Peers -> PeerRec]
    blk,          \* [Addrs -> BlockRec]: the heap of torrent_block_t
    piece,        \* the pieces' places between request and verification
    contrib,      \* tp_peers: <<peer, piece>> that delivered
    bad,          \* the ones of those with pp_bad
    outstanding,  \* to_peers_with_outstanding_requests
    aio           \* the asyncio thread's place in torrent_io_do_requests

vars == <<peer, blk, piece, contrib, bad, outstanding, aio>>

\* The blocks of some pieces.
BlocksOf(is) == {n \in Names : n[1] \in is}

\* tr_block may point at a block (`linked': on its tb_requests too) or be NULL.
ReqRec == [name : Names, block : Addrs \cup {Null}, linked : BOOLEAN,
           qdepth : Nat]

\* `active' is p_active_requests, `delay' p_block_delay, `have' the PIECE_HAVE
\* bits of p_piece_flags.
PeerRec == [running : BOOLEAN, choking : BOOLEAN, have : SUBSET Pieces,
            delay : 0 .. MaxDelay, maxq : {0, 1, MaxQ}, active : Int,
            requests : SUBSET ReqRec]

BlockRec == [list : {"free", "waiting", "sent"}, name : Names]

\* "corrupt": hashed and found bad, to be reloaded by torrent_check_pendings.
PieceState == {"none", "fetch", "complete", "corrupt", "ok"}

\* "check": in check_active_requests.  "optimal", "any": in the two rounds of
\* serve_waiting_blocks; `todo' holds the blocks still to be looked at, `late' (not in
\* the code) the ones a reader has enqueued since the first round began.
\* "finish": back in the caller; recv_piece has the request `tr' of peer `p' to
\* destroy.  `by' is the caller; the two that are not peer callbacks hold
\* bittorrent_mutex.
Callers == {"peer", "pendings", "periodic"}

AioPc == {"idle", "check", "optimal", "any", "finish"}

AioRec == [pc : AioPc, todo : SUBSET Addrs, late : SUBSET Addrs, by : Callers,
           p : Peers \cup {Null}, tr : ReqRec \cup {Null}]

\* Every variable has its type.
TypeOK ==
    /\ peer \in [Peers -> PeerRec]
    /\ blk \in [Addrs -> BlockRec]
    /\ piece \in [Pieces -> PieceState]
    /\ contrib \subseteq Peers \X Pieces
    /\ bad \subseteq contrib
    /\ outstanding \in Int
    /\ aio \in AioRec

NewPeer == [running |-> FALSE, choking |-> TRUE, have |-> {}, delay |-> 0,
            maxq |-> 0, active |-> 0, requests |-> {}]

FreeBlock == [list |-> "free", name |-> CHOOSE n \in Names : TRUE]

IdleAio == [pc |-> "idle", todo |-> {}, late |-> {}, by |-> "peer", p |-> Null, tr |-> Null]

Init ==
    /\ peer = [p \in Peers |-> NewPeer]
    /\ blk = [a \in Addrs |-> FreeBlock]
    /\ piece = [i \in Pieces |-> "none"]
    /\ contrib = {} /\ bad = {}
    /\ outstanding = 0
    /\ aio = IdleAio

-----------------------------------------------------------------------------
(* Blocks and requests.                                                    *)

Waiting == {a \in Addrs : blk[a].list = "waiting"}

Sent == {a \in Addrs : blk[a].list = "sent"}

PieceOf(a) == blk[a].name[1]

\* The requests of peer p on tb_requests of block a.
At(a, p) == {tr \in peer[p].requests : tr.linked /\ tr.block = a}

\* add_request: the peers afterwards.  A peer that has a request with this
\* tr_block is left alone.
Added(a, p) ==
    IF \E tr \in peer[p].requests : tr.block = a THEN peer
    ELSE [peer EXCEPT
            ![p].requests = @ \cup {[name |-> blk[a].name, block |-> a, linked |-> TRUE,
                                     qdepth |-> peer[p].active]},
            ![p].active = @ + 1]

\* peer_destroy_request on the requests `gone' of a peer.
Without(rec, gone) ==
    [rec EXCEPT !.requests = @ \ gone, !.active = @ - Cardinality(gone)]

Busy(pm) == {p \in Peers : pm[p].requests # {}}

\* The peers become pm: to_peers_with_outstanding_requests counts a first request
\* and the end of a last one.
PeersBecome(pm) ==
    /\ peer' = pm
    /\ outstanding' = outstanding + Cardinality(Busy(pm) \ Busy(peer))
                                  - Cardinality(Busy(peer) \ Busy(pm))

\* The requests `gone' of p are off their blocks.  A block without any other
\* request goes back to the waiting list.
PutBack(p, gone) ==
    blk' = [a \in Addrs |->
              IF At(a, p) \cap gone # {} /\ \A q \in Peers \ {p} : At(a, q) = {}
              THEN [blk[a] EXCEPT !.list = "waiting"] ELSE blk[a]]

\* peer_abort_requests; `rec' is the rest of the peer's new record.
AbortRequests(p, rec) ==
    /\ PeersBecome([peer EXCEPT ![p] = [rec EXCEPT !.requests = {}, !.active = 0]])
    /\ PutBack(p, peer[p].requests)

\* Where calloc can place the blocks of some pieces.
Placements(is) ==
    {at \in [BlocksOf(is) -> {a \in Addrs : blk[a].list = "free"}] :
        \A m, n \in BlocksOf(is) : at[m] = at[n] => m = n}

\* torrent_piece_enqueue_requests for each of some pieces.
Enqueue(at) ==
    blk' = [a \in Addrs |->
              IF \E n \in DOMAIN at : at[n] = a
              THEN [list |-> "waiting", name |-> CHOOSE n \in DOMAIN at : at[n] = a]
              ELSE blk[a]]

\* torrent_io_do_requests is entered; request `tr' of `p' waits for its return.
Serve(by, p, tr) ==
    aio' = [pc |-> "check", todo |-> {a \in Addrs : blk'[a].list = "sent"},
            late |-> {}, by |-> by, p |-> p, tr |-> tr]

\* When a thread that takes the mutex can run.
OthersRun == aio.pc = "idle" \/ aio.by = "peer"

-----------------------------------------------------------------------------
(* Peer messages and connections (peer_read_cb, peer_error_cb).             *)

\* The handshake is over.
PeerUp(p) ==
    /\ aio.pc = "idle" /\ ~peer[p].running
    /\ peer' = [peer EXCEPT ![p].running = TRUE]
    /\ UNCHANGED <<blk, piece, contrib, bad, outstanding, aio>>

\* peer_shutdown of a peer that is connected or about to be; it is kept for
\* another attempt (an error, a timeout) or freed (peer_disconnect, too many).
PeerShutdown(p, destroy) ==
    /\ aio.pc = "idle"
    /\ AbortRequests(p, IF destroy THEN NewPeer
                        ELSE [peer[p] EXCEPT !.running = FALSE, !.choking = TRUE,
                                             !.have = {}])
    /\ contrib' = {c \in contrib : destroy => c[1] # p}
    /\ bad' = {c \in bad : destroy => c[1] # p}
    /\ Serve("peer", Null, Null)
    /\ UNCHANGED piece

\* BT_MSGID_BITFIELD, BT_MSGID_HAVE, BT_MSGID_HAVE_ALL.
RecvHave(p, is) ==
    /\ aio.pc = "idle" /\ peer[p].running /\ is # {}
    /\ peer' = [peer EXCEPT ![p].have = @ \cup is]
    /\ UNCHANGED <<blk, piece, contrib, bad, outstanding>>
    /\ IF peer[p].choking THEN UNCHANGED aio ELSE Serve("peer", Null, Null)

RecvUnchoke(p) ==
    /\ aio.pc = "idle" /\ peer[p].running /\ peer[p].choking
    /\ peer' = [peer EXCEPT ![p] = [@ EXCEPT !.choking = FALSE, !.maxq = 1]]
    /\ UNCHANGED <<blk, piece, contrib, bad, outstanding>>
    /\ Serve("peer", Null, Null)

RecvChoke(p) ==
    /\ aio.pc = "idle" /\ peer[p].running /\ ~peer[p].choking
    /\ AbortRequests(p, [peer[p] EXCEPT !.choking = TRUE])
    /\ Serve("peer", Null, Null)
    /\ UNCHANGED <<piece, contrib, bad>>

\* Slip: a request kept for measurement keeps its tr_block.
CancelledDangling(q, a) ==
    IF peer[q].delay # 0 THEN Without(peer[q], At(a, q))
    ELSE [peer[q] EXCEPT !.requests = (@ \ At(a, q)) \cup
            {[tr EXCEPT !.linked = FALSE] : tr \in At(a, q)}]

\* block_cancel_requests at peer q: a request to a peer of unknown delay is kept
\* for the measurement, without its block.
Cancelled(q, a) ==
    IF peer[q].delay # 0 THEN Without(peer[q], At(a, q))
    ELSE [peer[q] EXCEPT !.requests = (@ \ At(a, q)) \cup
            {[tr EXCEPT !.block = Null, !.linked = FALSE] : tr \in At(a, q)}]

\* The first part of recv_piece: the delay is known now, so the requests kept for
\* its measurement are cancelled, and the queue is opened.
Measured(rec, tr, d) ==
    LET orphans == {t \in rec.requests : t.block = Null /\ t # tr}
    IN  [Without(rec, IF rec.delay = 0 THEN orphans ELSE {})
           EXCEPT !.delay = d, !.maxq = MaxQ]

\* recv_piece, up to the torrent_io_do_requests in torrent_receive_block.  The
\* request is off the block, which is freed, but still on the peer's list.
RecvPiece(p, tr, d) ==
    LET a == tr.block
        rec == Measured(peer[p], tr, d)
        off == [tr EXCEPT !.linked = FALSE]
        i == tr.name[1]
    IN
    /\ aio.pc = "idle" /\ tr \in peer[p].requests
    /\ IF a = Null
       THEN /\ PeersBecome([peer EXCEPT ![p] = Without(rec, {tr})])
            /\ UNCHANGED <<blk, piece, contrib, aio>>
       ELSE /\ PeersBecome([q \in Peers |->
                  IF q = p THEN [rec EXCEPT !.requests = (@ \ {tr}) \cup {off}]
                  ELSE Cancelled(q, a)])
            /\ blk' = [blk EXCEPT ![a] = FreeBlock]
            /\ contrib' = contrib \cup {<<p, i>>}
            /\ piece' = IF \E b \in (Waiting \cup Sent) \ {a} : PieceOf(b) = i THEN piece
                        ELSE [piece EXCEPT ![i] = "complete"]
            /\ Serve("peer", p, off)
    /\ UNCHANGED bad

RecvReject(p, tr) ==
    /\ aio.pc = "idle" /\ tr \in peer[p].requests
    /\ PeersBecome([peer EXCEPT ![p] = Without(@, {tr})])
    /\ PutBack(p, {tr})
    /\ UNCHANGED <<piece, contrib, bad, aio>>

-----------------------------------------------------------------------------
(* torrent_io_do_requests.                                                  *)

\* The peers of to_unchoked_peers with piece i; for the first two searches of a
\* peer, without the ones that delivered a corrupt piece i.
Having(i) == {p \in Peers : ~peer[p].choking /\ i \in peer[p].have}

Eligible(i) == {p \in Having(i) : <<p, i>> \notin bad}

\* find_faster_peer
Faster(a) == {p \in Having(PieceOf(a)) : /\ peer[p].delay # 0
                                         /\ peer[p].active < peer[p].maxq
                                         /\ At(a, p) = {}}

\* check_active_requests asks a second peer for block a.  `cur' is the peer
\* that was asked last; it may be taken for slower from now on.
Duplicate(a, cur, p, d) ==
    /\ aio.pc = "check" /\ a \in aio.todo
    /\ At(a, cur) # {} /\ p \in Faster(a) /\ d >= peer[cur].delay
    /\ PeersBecome([Added(a, p) EXCEPT ![cur].delay = d])
    /\ aio' = [aio EXCEPT !.todo = @ \ {a}]
    /\ UNCHANGED <<blk, piece, contrib, bad>>

\* No (other) sent block is in danger of missing its deadline.
CheckEnd ==
    /\ aio.pc = "check"
    /\ aio' = [aio EXCEPT !.pc = "optimal", !.todo = Waiting]
    /\ UNCHANGED <<peer, blk, piece, contrib, bad, outstanding>>

\* Slip: a peer of unknown delay is passed over.
OptimalKnown(i) ==
    {p \in Eligible(i) : peer[p].delay # 0 /\ \A q \in Eligible(i) :
                             peer[q].delay # 0 => peer[p].delay <= peer[q].delay}

\* find_optimal_peer: an unknown delay counts as 0, but not for a peer that has
\* a request already.  (Of several best ones it is the first of the list.)
Optimal(i) ==
    LET fresh == {p \in Eligible(i) : peer[p].delay = 0 /\ peer[p].active = 0}
        known == {p \in Eligible(i) : peer[p].delay # 0}
    IN  IF fresh # {} THEN fresh
        ELSE {p \in known : \A q \in known : peer[p].delay <= peer[q].delay}

\* find_any_peer
AnyPeer(i) == {p \in Eligible(i) : peer[p].active < peer[p].maxq \div 2}

\* Slip: the best peer gets the block however long its queue is.
MayAskDeep(i) == IF aio.pc = "optimal" THEN Optimal(i) ELSE AnyPeer(i)

\* Whom serve_waiting_blocks may ask for a block of piece i ...
MayAsk(i) ==
    IF aio.pc = "optimal" THEN {p \in Optimal(i) : peer[p].active < peer[p].maxq}
    ELSE AnyPeer(i)

\* ... and whether it may break off.
MayBreak(i) ==
    IF aio.pc = "optimal"
    THEN Optimal(i) = {} \/ \E p \in Optimal(i) : peer[p].active >= peer[p].maxq
    ELSE AnyPeer(i) = {}

ServeWaiting(a, p) ==
    /\ aio.pc \in {"optimal", "any"} /\ a \in aio.todo
    /\ p \in MayAsk(PieceOf(a))
    /\ PeersBecome(Added(a, p))
    /\ blk' = [blk EXCEPT ![a].list = "sent"]
    /\ aio' = [aio EXCEPT !.todo = @ \ {a}]
    /\ UNCHANGED <<piece, contrib, bad>>

ServeBreak(i) ==
    /\ aio.pc \in {"optimal", "any"} /\ \E a \in aio.todo : PieceOf(a) = i
    /\ MayBreak(i)
    /\ aio' = [aio EXCEPT !.todo = {a \in @ : PieceOf(a) # i}]
    /\ UNCHANGED <<peer, blk, piece, contrib, bad, outstanding>>

RoundEnd ==
    /\ aio.pc \in {"optimal", "any"} /\ aio.todo = {}
    /\ aio' = IF aio.pc = "optimal" THEN [aio EXCEPT !.pc = "any", !.todo = Waiting]
              ELSE [aio EXCEPT !.pc = "finish"]
    /\ UNCHANGED <<peer, blk, piece, contrib, bad, outstanding>>

Of(is, cs) == {c \in cs : c[2] \in is}

\* What flush_active_pieces may drop: pieces without blocks.
Droppable == {i \in Pieces : piece[i] \in {"complete", "corrupt", "ok"}}

\* Back in the caller: recv_piece destroys its request, torrent_periodic drops the
\* pieces `gone', which depend on the readers and on how many pieces there are.
Finish(gone) ==
    /\ aio.pc = "finish"
    /\ gone # {} => aio.by = "periodic" /\ gone \subseteq Droppable
    /\ IF aio.p = Null THEN UNCHANGED <<peer, outstanding>>
       ELSE PeersBecome([peer EXCEPT ![aio.p] = Without(@, {aio.tr})])
    /\ piece' = [i \in Pieces |-> IF i \in gone THEN "none" ELSE piece[i]]
    /\ contrib' = contrib \ Of(gone, contrib)
    /\ bad' = bad \ Of(gone, bad)
    /\ aio' = IdleAio
    /\ UNCHANGED blk

-----------------------------------------------------------------------------
(* The pieces.                                                              *)

\* torrent_piece_find on a reader's thread: a new piece.  Blocks that come up
\* in the middle of a round may or may not be met by it.
ReaderFind(i) ==
    /\ piece[i] = "none" /\ OthersRun
    /\ piece' = [piece EXCEPT ![i] = "fetch"]
    /\ \E at \in Placements({i}) :
         LET new == {at[n] : n \in DOMAIN at} IN
         /\ Enqueue(at)
         /\ \/ aio.pc \in {"idle", "check"} /\ UNCHANGED aio
            \/ aio.pc \notin {"idle", "check"} /\ aio' = [aio EXCEPT !.late = @ \cup new]
            \/ /\ aio.pc \in {"optimal", "any"}
               /\ aio' = [aio EXCEPT !.todo = @ \cup new, !.late = @ \cup new]
    /\ UNCHANGED <<peer, contrib, bad, outstanding>>

\* torrent_piece_verify_hash on the hash thread.
HashDone(i, ok) ==
    /\ piece[i] = "complete" /\ OthersRun
    /\ piece' = [piece EXCEPT ![i] = IF ok THEN "ok" ELSE "corrupt"]
    /\ contrib' = IF ok THEN contrib \ Of({i}, contrib) ELSE contrib
    /\ bad' = IF ok THEN bad \ Of({i}, bad) ELSE bad \cup Of({i}, contrib)
    /\ UNCHANGED <<peer, blk, outstanding, aio>>

\* torrent_periodic; its end is Finish.
Periodic ==
    /\ aio.pc = "idle"
    /\ UNCHANGED <<peer, blk, piece, contrib, bad, outstanding>>
    /\ Serve("periodic", Null, Null)

\* torrent_check_pendings.
CheckPendings ==
    LET corrupt == {i \in Pieces : piece[i] = "corrupt"} IN
    /\ aio.pc = "idle"
    /\ \E at \in Placements(corrupt) : Enqueue(at)
    /\ piece' = [i \in Pieces |-> IF i \in corrupt THEN "fetch" ELSE piece[i]]
    /\ Serve("pendings", Null, Null)
    /\ UNCHANGED <<peer, contrib, bad, outstanding>>

\* torrent_destroy.
Destroy ==
    /\ aio.pc = "idle"
    /\ PeersBecome([p \in Peers |-> NewPeer])
    /\ blk' = [a \in Addrs |-> FreeBlock]
    /\ piece' = [i \in Pieces |-> "none"]
    /\ contrib' = {} /\ bad' = {}
    /\ UNCHANGED aio

-----------------------------------------------------------------------------

Next ==
    \/ \E p \in Peers :
         \/ PeerUp(p) \/ RecvUnchoke(p) \/ RecvChoke(p)
         \/ \E destroy \in BOOLEAN : PeerShutdown(p, destroy)
         \/ \E is \in SUBSET Pieces : RecvHave(p, is)
         \/ \E tr \in peer[p].requests :
              \/ \E d \in 1 .. MaxDelay : RecvPiece(p, tr, d)
              \/ RecvReject(p, tr)
    \/ \E a \in aio.todo, p \in Peers :
         \/ \E cur \in Peers, d \in 0 .. MaxDelay : Duplicate(a, cur, p, d)
         \/ ServeWaiting(a, p)
    \/ \E i \in Pieces :
         \/ ServeBreak(i)
         \/ ReaderFind(i)
         \/ \E ok \in BOOLEAN : HashDone(i, ok)
    \/ CheckEnd \/ RoundEnd \/ Periodic \/ Destroy
    \/ \E gone \in SUBSET Pieces : Finish(gone)
    \/ CheckPendings

Spec == Init /\ [][Next]_vars

-----------------------------------------------------------------------------
(* Properties.                                                             *)

\* "assert(cur != NULL)" in check_active_requests: a block on tp_sent_blocks it comes
\* to has a request out for it, so that it is not waited for in vain.
SentBlockHasRequest ==
    aio.pc = "check" => \A a \in aio.todo : \E p \in Peers : At(a, p) # {}

\* A block on tp_waiting_blocks has no request, and block_destroy never meets
\* one (its assertion): what is put back or freed is nobody's.
OnlySentRequested ==
    \A p \in Peers : \A tr \in peer[p].requests :
        tr.linked => /\ tr.block \in Sent
                     /\ blk[tr.block].name = tr.name

\* No request points at a freed block, except the one recv_piece is busy with.
NoDangling ==
    \A p \in Peers : \A tr \in peer[p].requests :
        tr.block # Null /\ ~tr.linked => p = aio.p /\ tr = aio.tr

\* p_active_requests is the length of p_requests and
\* to_peers_with_outstanding_requests the number of peers with any, whatever is
\* received, rejected, cancelled, orphaned or aborted (the assertion of
\* peer_destroy_request among them).
CountsExact ==
    /\ \A p \in Peers : peer[p].active = Cardinality(peer[p].requests)
    /\ outstanding = Cardinality(Busy(peer))

\* assert(tr->tr_qdepth < 10) in recv_piece: p_bd is never indexed past its end.
QueueDepthBounded ==
    \A p \in Peers : \A tr \in peer[p].requests : tr.qdepth < MaxQ

\* A peer whose delay is not known is asked for one block at a time.
OneUntilMeasured ==
    \A p \in Peers : peer[p].delay = 0 => Cardinality(peer[p].requests) <= 1

\* Requests are out at running, unchoked peers only: what torrent_destroy and a
\* choke rely on.
RequestsAtUnchoked ==
    \A p \in Peers : peer[p].requests # {} => peer[p].running /\ ~peer[p].choking

\* torrent_io_do_requests leaves no block waiting while every peer that could
\* deliver it has nothing to do: a download does not stall.  Blocks that a reader
\* enqueues beside it are not its business: torrent_piece_enqueue_requests has
\* raised torrent_pendings_signal for them, which brings another pass.
NoIdleSwarm ==
    aio.pc = "finish" =>
        \A a \in Waiting \ aio.late :
            Eligible(PieceOf(a)) = {} \/
            \E p \in Eligible(PieceOf(a)) :
                peer[p].requests \ (IF p = aio.p THEN {aio.tr} ELSE {}) # {}

\* A piece that is being fetched has blocks, the others have none.
BlocksOfFetched ==
    \A i \in Pieces : piece[i] = "fetch" <=> \E a \in Waiting \cup Sent : PieceOf(a) = i

\* What every handler finds and leaves, also without the lock: a block is asked for
\* only when it is marked so, at peers that may be asked, within their depth and once
\* until they are measured; the counters are exact, and a piece has blocks as long as
\* it is fetched.
RequestsInv ==
    /\ TypeOK
    /\ OnlySentRequested
    /\ RequestsAtUnchoked
    /\ QueueDepthBounded
    /\ OneUntilMeasured
    /\ CountsExact
    /\ BlocksOfFetched
=============================================================================
