-------------------------- MODULE PeerRequestsProofs --------------------------
(***************************************************************************)
(* Proofs about PeerRequests, for any peers, pieces, blocks and limits, with *)
(* readers and the hash thread running in the middle of                      *)
(* torrent_io_do_requests when a peer callback has called it.                *)
(***************************************************************************)
EXTENDS PeerRequests, FiniteSetTheorems, WellFoundedInduction, TLAPS

\* A set of naturals that is not empty has a least element.
LEMMA LeastNatural ==
  ASSUME NEW T, T \subseteq Nat, T # {}
  PROVE  \E n \in T : \A m \in T : n <= m
<1> DEFINE R == {ss \in Nat \X Nat : ss[1] < ss[2]}
<1>1. IsWellFoundedOn(R, Nat)
  BY NatLessThanWellFounded DEF OpToRel
<1>2. \E n \in T : \A m \in T : <<m, n>> \notin R
  <2> HIDE DEF R
  <2> QED
    BY <1>1, WFMin
<1>3. \A m, n \in Nat : <<m, n>> \notin R => n <= m
  OBVIOUS
<1> HIDE DEF R
<1>4. QED
  BY <1>2, <1>3

\* The requests of a peer that are on block a, and those that point at a block they are
\* not on.
AtOf(rec, a) == {tr \in rec.requests : tr.linked /\ tr.block = a}
Loose(rec) == {tr \in rec.requests : tr.block # Null /\ ~tr.linked}

\* A peer: its counter is exact, it has requests only if it may, few of them until its
\* delay is known, and one at most for a block.
Sound(rec) ==
    /\ rec \in PeerRec /\ IsFiniteSet(rec.requests) /\ rec.active = Cardinality(rec.requests)
    /\ rec.requests # {} => rec.choking = FALSE
    /\ \A tr \in rec.requests : tr.qdepth < MaxQ
    /\ rec.delay = 0 => rec.active <= 1 /\ rec.maxq <= 1
    /\ rec.choking = FALSE => rec.running = TRUE /\ rec.maxq >= 1
    /\ \A tr, u \in rec.requests : tr.block = u.block /\ tr.block # Null => tr = u

\* The requests of a peer on blocks are on sent blocks of their name.
OnSent(rec, B) ==
    \A tr \in rec.requests : tr.linked =>
        tr.block \in Addrs /\ B[tr.block].list = "sent" /\ B[tr.block].name = tr.name

\* The request recv_piece of peer p is busy with.
Held(x, p) == IF p = x.p THEN {x.tr} ELSE {}

\* The block lists fit the places of the pieces.
Fetched(P, B) ==
    \A i \in Pieces : P[i] = "fetch" <=> \E a \in Addrs : B[a].list # "free" /\ B[a].name[1] = i

\* What holds wherever the asyncio thread is.
Base ==
    /\ peer \in [Peers -> PeerRec] /\ blk \in [Addrs -> BlockRec] /\ piece \in [Pieces -> PieceState]
    /\ contrib \subseteq Peers \X Pieces /\ bad \subseteq contrib
    /\ outstanding = Cardinality(Busy(peer))
    /\ \A p \in Peers : Sound(peer[p]) /\ OnSent(peer[p], blk)
    /\ Fetched(piece, blk)

\* No request points at a block it is not on, but the one recv_piece has.
Tidy == \A p \in Peers : Loose(peer[p]) \subseteq Held(aio, p)

\* What torrent_io_do_requests has in its hands.
AioSound ==
    /\ aio \in AioRec
    /\ aio.pc = "idle" => aio = IdleAio
    /\ aio.pc = "check" => \A a \in aio.todo : blk[a].list = "sent"
    /\ aio.pc \in {"optimal", "any"} => \A a \in aio.todo : blk[a].list = "waiting"
    /\ aio.p # Null => /\ aio.tr \in peer[aio.p].requests /\ aio.tr.block # Null /\ aio.tr.linked = FALSE
                       /\ peer[aio.p].delay # 0 /\ peer[aio.p].maxq = MaxQ

\* Some peer that can deliver piece i has a request besides the one that is finished.
Able(pm, bd, i) == {p \in Peers : pm[p].choking = FALSE /\ i \in pm[p].have /\ <<p, i>> \notin bd}
Served(pm, bd, x, i) ==
    Able(pm, bd, i) = {} \/ \E p \in Able(pm, bd, i) : pm[p].requests \ Held(x, p) # {}

\* The blocks the rounds of serve_waiting_blocks have passed are served, but for the ones a
\* reader has enqueued beside them.
Passed ==
    \A a \in Addrs : blk[a].list = "waiting" /\ a \notin aio.late =>
        /\ aio.pc = "optimal" /\ a \notin aio.todo => Served(peer, bad, aio, blk[a].name[1])
        /\ aio.pc \in {"any", "finish"} => Served(peer, bad, aio, blk[a].name[1])

IInv == Base /\ Tidy /\ AioSound /\ Passed

-----------------------------------------------------------------------------
(* One peer.                                                                *)

LEMMA Limits ==
  /\ MaxQ \in Nat /\ MaxQ >= 2 /\ MaxDelay \in Nat /\ MaxDelay >= 1 /\ Null \notin Addrs
  /\ Null \notin Peers /\ IsFiniteSet(Peers)
  BY RequestConstants

\* Every piece has blocks, and those are all there are.
LEMMA BlocksAre ==
  ASSUME NEW is \in SUBSET Pieces
  PROVE  /\ BlocksOf(is) \subseteq Names /\ \A n \in BlocksOf(is) : n[1] \in is
         /\ \A i \in is : \E n \in BlocksOf(is) : n[1] = i
  BY RequestConstants DEF BlocksOf

LEMMA Fields ==
  ASSUME NEW rec \in PeerRec
  PROVE  /\ rec.running \in BOOLEAN /\ rec.choking \in BOOLEAN /\ rec.have \in SUBSET Pieces
         /\ rec.delay \in 0 .. MaxDelay /\ rec.maxq \in {0, 1, MaxQ} /\ rec.active \in Int
         /\ rec.requests \in SUBSET ReqRec
  BY DEF PeerRec

\* A peer with other requests and measurements.
Patch(rec, s, n, d, m) == [rec EXCEPT !.requests = s, !.active = n, !.delay = d, !.maxq = m]

LEMMA PatchIs ==
  ASSUME NEW rec \in PeerRec, NEW s \in SUBSET ReqRec, NEW n \in Int, NEW d \in 0 .. MaxDelay,
         NEW m \in {0, 1, MaxQ}
  PROVE  LET R == Patch(rec, s, n, d, m) IN
         /\ R \in PeerRec /\ R.running = rec.running /\ R.choking = rec.choking /\ R.have = rec.have
         /\ R.delay = d /\ R.maxq = m /\ R.active = n /\ R.requests = s
  BY DEF PeerRec, Patch

\* The requests and measurements that make a peer sound.
Fit(rec, s, n, d, m) ==
    /\ s \in SUBSET ReqRec /\ IsFiniteSet(s) /\ d \in 0 .. MaxDelay /\ m \in {0, 1, MaxQ}
    /\ n = Cardinality(s)
    /\ s # {} => rec.choking = FALSE
    /\ \A tr \in s : tr.qdepth < MaxQ
    /\ d = 0 => n <= 1 /\ m <= 1
    /\ rec.choking = FALSE => rec.running = TRUE /\ m >= 1
    /\ \A tr, u \in s : tr.block = u.block /\ tr.block # Null => tr = u

LEMMA SoundPatch ==
  ASSUME NEW rec \in PeerRec, NEW s, NEW n, NEW d, NEW m, Fit(rec, s, n, d, m)
  PROVE  LET R == Patch(rec, s, n, d, m) IN
         /\ Sound(R) /\ R.running = rec.running /\ R.choking = rec.choking /\ R.have = rec.have
         /\ R.delay = d /\ R.maxq = m /\ R.active = n /\ R.requests = s
<1> DEFINE R == Patch(rec, s, n, d, m)
<1>1. s \in SUBSET ReqRec /\ d \in 0 .. MaxDelay /\ m \in {0, 1, MaxQ} /\ IsFiniteSet(s) /\ n = Cardinality(s)
  BY DEF Fit
<1>2. n \in Int
  BY <1>1, FS_CardinalityType
<1>3. /\ R \in PeerRec /\ R.running = rec.running /\ R.choking = rec.choking /\ R.have = rec.have
      /\ R.delay = d /\ R.maxq = m /\ R.active = n /\ R.requests = s
  BY <1>1, <1>2, PatchIs
<1> HIDE DEF R
<1>4. Sound(R)
  BY <1>3 DEF Sound, Fit
<1>5. QED
  BY <1>3, <1>4 DEF R

\* peer_destroy_request.
LEMMA WithoutIs ==
  ASSUME NEW rec, Sound(rec), NEW gone \in SUBSET rec.requests
  PROVE  LET R == Without(rec, gone) IN
         /\ Sound(R) /\ R.running = rec.running /\ R.choking = rec.choking /\ R.have = rec.have
         /\ R.delay = rec.delay /\ R.maxq = rec.maxq /\ R.requests = rec.requests \ gone
<1> DEFINE s == rec.requests \ gone
           n == rec.active - Cardinality(gone)
           d == rec.delay
           m == rec.maxq
           R == Without(rec, gone)
<1>1. /\ rec \in PeerRec /\ rec.requests \in SUBSET ReqRec /\ IsFiniteSet(rec.requests)
      /\ rec.active = Cardinality(rec.requests) /\ d \in 0 .. MaxDelay /\ m \in {0, 1, MaxQ}
  BY Fields DEF Sound
<1>2. IsFiniteSet(s) /\ IsFiniteSet(gone) /\ s \in SUBSET ReqRec
  BY <1>1, FS_Subset
<1>3. n = Cardinality(s) /\ Cardinality(s) \in Nat /\ Cardinality(s) <= rec.active /\ rec.active \in Nat
  <2>1. Cardinality(rec.requests) \in Nat /\ Cardinality(s) \in Nat /\ Cardinality(gone) \in Nat
    BY <1>1, <1>2, FS_CardinalityType
  <2>2. Cardinality(s) = Cardinality(rec.requests) - Cardinality(rec.requests \cap gone)
    BY <1>1, FS_Difference
  <2>3. rec.requests \cap gone = gone
    OBVIOUS
  <2> HIDE DEF s
  <2>4. Cardinality(s) = Cardinality(rec.requests) - Cardinality(gone)
    BY <2>2, <2>3 DEF s
  <2>5. QED
    BY <1>1, <2>1, <2>4
<1>4. R = Patch(rec, s, n, d, m)
  <2> HIDE DEF s, n
  <2>1. R = [rec EXCEPT !.requests = s, !.active = n]
    BY DEF Without, s, n
  <2>2. QED
    BY <1>1, <2>1 DEF Patch, PeerRec
<1>5. /\ s # {} => rec.choking = FALSE
      /\ \A tr \in s : tr.qdepth < MaxQ
      /\ rec.choking = FALSE => rec.running = TRUE /\ m >= 1
      /\ \A tr, u \in s : tr.block = u.block /\ tr.block # Null => tr = u
  BY DEF Sound
<1>6. d = 0 => n <= 1 /\ m <= 1
  BY <1>3 DEF Sound
<1>f. Fit(rec, s, n, d, m)
  <2> HIDE DEF s, n, d, m
  <2>1. QED
    BY <1>1, <1>2, <1>3, <1>5, <1>6 DEF Fit
<1> HIDE DEF s, n, d, m, R
<1>7. /\ Sound(R) /\ R.running = rec.running /\ R.choking = rec.choking /\ R.have = rec.have
      /\ R.delay = d /\ R.maxq = m /\ R.requests = s
  BY <1>1, <1>4, <1>f, SoundPatch
<1>8. QED
  BY <1>7 DEF s, d, m, R

\* add_request to a peer without a request for the block.
Askable(rec, a) ==
    /\ rec.choking = FALSE /\ rec.active < rec.maxq
    /\ rec.delay = 0 => rec.active = 0
    /\ \A tr \in rec.requests : tr.block # a

Request(nm, a, n) == [name |-> nm, block |-> a, linked |-> TRUE, qdepth |-> n]
Asked(rec, u) == [rec EXCEPT !.requests = @ \cup {u}, !.active = @ + 1]
Extended(rec, u, R, nm, a) ==
    /\ u.name = nm /\ u.block = a /\ u.linked = TRUE
    /\ Sound(R) /\ R.running = rec.running /\ R.choking = rec.choking /\ R.have = rec.have
    /\ R.delay = rec.delay /\ R.maxq = rec.maxq /\ R.requests = rec.requests \cup {u}

LEMMA AddIs ==
  ASSUME NEW rec, Sound(rec), NEW a \in Addrs, NEW nm \in Names, Askable(rec, a)
  PROVE  Extended(rec, Request(nm, a, rec.active), Asked(rec, Request(nm, a, rec.active)), nm, a)
<1> DEFINE u == Request(nm, a, rec.active)
           s == rec.requests \cup {u}
           n == rec.active + 1
           d == rec.delay
           m == rec.maxq
           R == Asked(rec, u)
<1>1. /\ rec \in PeerRec /\ rec.requests \in SUBSET ReqRec /\ IsFiniteSet(rec.requests)
      /\ rec.active = Cardinality(rec.requests) /\ d \in 0 .. MaxDelay /\ m \in {0, 1, MaxQ}
  BY Fields DEF Sound
<1>2. rec.active \in Nat
  BY <1>1, FS_CardinalityType
<1>a. /\ rec.choking = FALSE /\ rec.active < rec.maxq /\ (rec.delay = 0 => rec.active = 0)
      /\ \A tr \in rec.requests : tr.block # a
  BY DEF Askable
<1>3. u \in ReqRec /\ u.name = nm /\ u.block = a /\ u.linked = TRUE /\ u.qdepth = rec.active
  BY <1>2 DEF ReqRec, Request
<1> HIDE DEF u
<1>4. /\ s \in SUBSET ReqRec /\ IsFiniteSet(s) /\ u \notin rec.requests
  BY <1>1, <1>3, <1>a, FS_AddElement
<1>5. Cardinality(s) = n
  BY <1>1, <1>4, FS_AddElement
<1>6. R = Patch(rec, s, n, d, m)
  <2> HIDE DEF s, n
  <2>1. R = [rec EXCEPT !.requests = s, !.active = n]
    BY DEF s, n, Asked
  <2>2. QED
    BY <1>1, <2>1 DEF Patch, PeerRec
<1>7. \A tr \in s : tr.qdepth < MaxQ
  <2>1. rec.active < MaxQ
    BY <1>1, <1>2, <1>a, Limits
  <2>2. QED
    BY <1>3, <2>1 DEF Sound
<1>8. /\ d = 0 => n <= 1 /\ m <= 1
      /\ rec.choking = FALSE => rec.running = TRUE /\ m >= 1
  BY <1>2, <1>a DEF Sound
<1>9. \A tr, v \in s : tr.block = v.block /\ tr.block # Null => tr = v
  BY <1>3, <1>a DEF Sound
<1>f. Fit(rec, s, n, d, m)
  <2> HIDE DEF s, n, d, m
  <2>1. QED
    BY <1>1, <1>4, <1>5, <1>7, <1>8, <1>9, <1>a DEF Fit
<1> HIDE DEF s, n, d, m, R
<1>10. /\ Sound(R) /\ R.running = rec.running /\ R.choking = rec.choking /\ R.have = rec.have
       /\ R.delay = d /\ R.maxq = m /\ R.requests = s
  BY <1>1, <1>6, <1>f, SoundPatch
<1>11. QED
  BY <1>3, <1>10 DEF s, d, m, R, u, Extended

\* peer_abort_requests, of a peer that chokes us from now on.
LEMMA AbortedIs ==
  ASSUME NEW rec \in PeerRec, rec.choking = TRUE, rec.delay = 0 => rec.maxq <= 1
  PROVE  LET R == [rec EXCEPT !.requests = {}, !.active = 0] IN
         Sound(R) /\ R.requests = {}
<1> DEFINE d == rec.delay
           m == rec.maxq
<1>1. d \in 0 .. MaxDelay /\ m \in {0, 1, MaxQ}
  BY Fields
<1>2. IsFiniteSet({}) /\ Cardinality({}) = 0
  BY FS_EmptySet
<1>3. Fit(rec, {}, 0, d, m)
  BY <1>1, <1>2 DEF Fit
<1>4. [rec EXCEPT !.requests = {}, !.active = 0] = Patch(rec, {}, 0, d, m)
  BY DEF Patch, PeerRec
<1> HIDE DEF d, m
<1>5. QED
  BY <1>3, <1>4, SoundPatch

\* The first part of recv_piece.
LEMMA MeasuredIs ==
  ASSUME NEW rec, Sound(rec), NEW tr \in rec.requests, NEW d \in 1 .. MaxDelay
  PROVE  LET R == Measured(rec, tr, d) IN
         /\ Sound(R) /\ R.running = rec.running /\ R.choking = rec.choking /\ R.have = rec.have
         /\ R.delay = d /\ R.maxq = MaxQ /\ R.requests \subseteq rec.requests /\ tr \in R.requests
         /\ \A u \in rec.requests : u.block # Null => u \in R.requests
<1> DEFINE orphans == {t \in rec.requests : t.block = Null /\ t # tr}
           X == IF rec.delay = 0 THEN orphans ELSE {}
           W == Without(rec, X)
           R == Measured(rec, tr, d)
           s == W.requests
           n == W.active
<1>1. X \in SUBSET rec.requests /\ tr \notin X /\ \A u \in X : u.block = Null
  OBVIOUS
<1>2. R = [W EXCEPT !.delay = d, !.maxq = MaxQ]
  BY DEF Measured
<1> HIDE DEF X
<1>3. /\ Sound(W) /\ W.running = rec.running /\ W.choking = rec.choking /\ W.have = rec.have
      /\ W.requests = rec.requests \ X
  BY <1>1, WithoutIs
<1> HIDE DEF W, R
<1>4. W \in PeerRec /\ s \in SUBSET ReqRec /\ IsFiniteSet(s) /\ n = Cardinality(s)
  BY <1>3, Fields DEF Sound
<1>5. R = Patch(W, s, n, d, MaxQ)
  BY <1>2, <1>4 DEF Patch, PeerRec
<1>6. Fit(W, s, n, d, MaxQ)
  <2>1. d \in 0 .. MaxDelay /\ d # 0 /\ MaxQ >= 1
    BY Limits
  <2>2. QED
    BY <1>3, <1>4, <2>1 DEF Sound, Fit
<1> HIDE DEF s, n
<1>7. /\ Sound(R) /\ R.running = W.running /\ R.choking = W.choking /\ R.have = W.have
      /\ R.delay = d /\ R.maxq = MaxQ /\ R.requests = s
  BY <1>4, <1>5, <1>6, SoundPatch
<1>8. R.requests = rec.requests \ X
  BY <1>3, <1>7 DEF s
<1>9. QED
  BY <1>1, <1>3, <1>7, <1>8 DEF R

\* The request recv_piece is busy with leaves its block.
LEMMA OffIs ==
  ASSUME NEW rec, Sound(rec), NEW tr \in rec.requests, tr.linked, tr.block # Null, rec.delay # 0
  PROVE  LET off == [tr EXCEPT !.linked = FALSE]
             R == [rec EXCEPT !.requests = (@ \ {tr}) \cup {off}] IN
         /\ off \in ReqRec /\ off.block = tr.block /\ off.linked = FALSE /\ off.name = tr.name
         /\ Sound(R) /\ R.running = rec.running /\ R.choking = rec.choking /\ R.have = rec.have
         /\ R.delay = rec.delay /\ R.maxq = rec.maxq /\ R.requests = (rec.requests \ {tr}) \cup {off}
<1> DEFINE off == [tr EXCEPT !.linked = FALSE]
           s == (rec.requests \ {tr}) \cup {off}
           n == rec.active
           d == rec.delay
           m == rec.maxq
           R == [rec EXCEPT !.requests = (@ \ {tr}) \cup {off}]
<1>1. /\ rec \in PeerRec /\ rec.requests \in SUBSET ReqRec /\ IsFiniteSet(rec.requests)
      /\ rec.active = Cardinality(rec.requests) /\ d \in 0 .. MaxDelay /\ m \in {0, 1, MaxQ}
      /\ tr \in ReqRec
  BY Fields DEF Sound
<1>2. /\ off \in ReqRec /\ off.block = tr.block /\ off.linked = FALSE /\ off.name = tr.name
      /\ off.qdepth = tr.qdepth
  BY <1>1 DEF ReqRec
<1>3. off \notin rec.requests
  BY <1>2 DEF Sound
<1> HIDE DEF off
<1>4. IsFiniteSet(rec.requests \ {tr}) /\ Cardinality(rec.requests \ {tr}) = Cardinality(rec.requests) - 1
      /\ Cardinality(rec.requests) \in Nat
  BY <1>1, FS_RemoveElement, FS_CardinalityType
<1>5. IsFiniteSet(s) /\ Cardinality(s) = Cardinality(rec.requests \ {tr}) + 1
  BY <1>3, <1>4, FS_AddElement
<1>6. R = Patch(rec, s, n, d, m)
  BY <1>1 DEF Patch, PeerRec
<1>7. Fit(rec, s, n, d, m)
  <2>1. s \in SUBSET ReqRec
    BY <1>1, <1>2
  <2>2. \A t \in s : t.qdepth < MaxQ
    BY <1>2 DEF Sound
  <2>3. \A t, u \in s : t.block = u.block /\ t.block # Null => t = u
    BY <1>2 DEF Sound
  <2>4. /\ d # 0 /\ rec.running = TRUE /\ rec.choking = FALSE /\ m >= 1
    BY DEF Sound
  <2>5. n = Cardinality(s)
    <3> HIDE DEF s
    <3>1. QED
      BY <1>1, <1>4, <1>5
  <2> HIDE DEF s, n, d, m
  <2>6. QED
    BY <1>1, <1>5, <2>1, <2>2, <2>3, <2>4, <2>5 DEF Fit
<1> HIDE DEF s, n, d, m, R
<1>8. /\ Sound(R) /\ R.running = rec.running /\ R.choking = rec.choking /\ R.have = rec.have
      /\ R.delay = d /\ R.maxq = m /\ R.requests = s
  BY <1>1, <1>6, <1>7, SoundPatch
<1>9. QED
  BY <1>2, <1>8 DEF s, d, m, R, off

\* block_cancel_requests at one peer.
LEMMA CancelledIs ==
  ASSUME NEW q \in Peers, Sound(peer[q]), NEW a \in Addrs
  PROVE  LET rec == peer[q]
             R == Cancelled(q, a) IN
         /\ Sound(R) /\ R.running = rec.running /\ R.choking = rec.choking /\ R.have = rec.have
         /\ R.delay = rec.delay /\ R.maxq = rec.maxq
         /\ \A u \in R.requests : u \in rec.requests \ AtOf(rec, a) \/ (u.block = Null /\ u.linked = FALSE)
         /\ rec.requests \ AtOf(rec, a) \subseteq R.requests
<1> DEFINE rec == peer[q]
           G == AtOf(rec, a)
           R == Cancelled(q, a)
           Strip(t) == [t EXCEPT !.block = Null, !.linked = FALSE]
           N == {Strip(t) : t \in G}
           s == (rec.requests \ G) \cup N
           n == rec.active
           d == rec.delay
           m == rec.maxq
<1>0. At(a, q) = G /\ G \in SUBSET rec.requests
  BY DEF At, AtOf
<1>1. /\ rec \in PeerRec /\ rec.requests \in SUBSET ReqRec /\ IsFiniteSet(rec.requests)
      /\ rec.active = Cardinality(rec.requests) /\ d \in 0 .. MaxDelay /\ m \in {0, 1, MaxQ}
  BY Fields DEF Sound
<1>2. CASE rec.delay # 0
  <2>1. R = Without(rec, G)
    BY <1>0, <1>2 DEF Cancelled
  <2> HIDE DEF rec, G, R
  <2>2. /\ Sound(R) /\ R.running = rec.running /\ R.choking = rec.choking /\ R.have = rec.have
        /\ R.delay = rec.delay /\ R.maxq = rec.maxq /\ R.requests = rec.requests \ G
    BY <1>0, <2>1, WithoutIs DEF rec
  <2>3. QED
    BY <2>2 DEF rec, G, R
<1>3. CASE rec.delay = 0
  <2>1. R = [rec EXCEPT !.requests = s]
    BY <1>0, <1>3 DEF Cancelled
  <2>2. \A t \in rec.requests : /\ Strip(t) \in ReqRec /\ Strip(t).block = Null /\ Strip(t).linked = FALSE
                                /\ Strip(t).qdepth = t.qdepth
    BY <1>1 DEF ReqRec
  <2>3. Cardinality(rec.requests) \in Nat /\ Cardinality(rec.requests) <= 1 /\ m <= 1
    BY <1>1, <1>3, FS_CardinalityType DEF Sound
  <2>4. rec.requests = {} \/ \E t : rec.requests = {t}
    <3>1. Cardinality(rec.requests) = 0 \/ Cardinality(rec.requests) = 1
      BY <2>3
    <3>2. Cardinality(rec.requests) = 0 => rec.requests = {}
      BY <1>1, FS_EmptySet
    <3>3. Cardinality(rec.requests) = 1 => \E t : rec.requests = {t}
      BY <1>1, FS_Singleton
    <3>4. QED
      BY <3>1, <3>2, <3>3
  <2>5. (s = {} /\ rec.requests = {}) \/ \E t, u : rec.requests = {t} /\ s = {u}
    <3>1. CASE rec.requests = {}
      BY <1>0, <3>1
    <3>2. CASE \E t : rec.requests = {t}
      <4>1. PICK t : rec.requests = {t}
        BY <3>2
      <4>2. CASE t \in G
        <5>1. G = {t}
          BY <1>0, <4>1, <4>2
        <5>2. N = {Strip(t)}
          BY <5>1
        <5>3. s = {Strip(t)}
          BY <4>1, <5>1, <5>2
        <5>4. QED
          BY <4>1, <5>3
      <4>3. CASE t \notin G
        <5>1. G = {}
          BY <1>0, <4>1, <4>3
        <5>2. N = {}
          BY <5>1
        <5>3. s = {t}
          BY <4>1, <5>1, <5>2
        <5>4. QED
          BY <4>1, <5>3
      <4>4. QED
        BY <4>2, <4>3
    <3>3. QED
      BY <2>4, <3>1, <3>2
  <2>6. IsFiniteSet(s) /\ Cardinality(s) = n
    <3> HIDE DEF s
    <3>1. CASE s = {} /\ rec.requests = {}
      BY <1>1, <3>1, FS_EmptySet
    <3>2. CASE \E t, u : rec.requests = {t} /\ s = {u}
      <4>1. PICK t, u : rec.requests = {t} /\ s = {u}
        BY <3>2
      <4>2. IsFiniteSet({u}) /\ Cardinality({u}) = 1 /\ Cardinality({t}) = 1
        BY FS_Singleton
      <4>3. QED
        BY <1>1, <4>1, <4>2
    <3>3. QED
      BY <2>5, <3>1, <3>2
  <2>7. R = Patch(rec, s, n, d, m)
    BY <1>1, <2>1 DEF Patch, PeerRec
  <2>8. /\ s \in SUBSET ReqRec /\ \A t \in s : t.qdepth < MaxQ
        /\ \A u \in s : u \in rec.requests \ G \/ (u.block = Null /\ u.linked = FALSE)
        /\ rec.requests \ G \subseteq s
    <3>1. N \in SUBSET ReqRec /\ \A u \in N : u.qdepth < MaxQ /\ u.block = Null /\ u.linked = FALSE
      BY <1>0, <2>2, ZenonT(60) DEF Sound
    <3> HIDE DEF N, G
    <3>2. QED
      BY <1>1, <3>1 DEF Sound
  <2>9. \A t, u \in s : t.block = u.block /\ t.block # Null => t = u
    BY <2>8 DEF Sound
  <2>10. s # {} => rec.choking = FALSE
    <3>1. s # {} => rec.requests # {}
      BY <2>5
    <3>2. QED
      BY <3>1 DEF Sound
  <2>11. Fit(rec, s, n, d, m)
    <3>1. rec.choking = FALSE => rec.running = TRUE /\ m >= 1
      BY DEF Sound
    <3>2. n <= 1
      BY <1>1, <2>3
    <3> HIDE DEF s, n, d, m, rec
    <3>3. QED
      BY <1>1, <2>3, <2>6, <2>8, <2>9, <2>10, <3>1, <3>2 DEF Fit
  <2> HIDE DEF s, n, d, m, R, rec, G
  <2>12. /\ Sound(R) /\ R.running = rec.running /\ R.choking = rec.choking /\ R.have = rec.have
         /\ R.delay = d /\ R.maxq = m /\ R.requests = s
    BY <1>1, <2>7, <2>11, SoundPatch
  <2>13. QED
    BY <2>8, <2>12 DEF d, m, R, rec, G
<1>4. QED
  BY <1>2, <1>3

-----------------------------------------------------------------------------
(* All peers.                                                               *)

\* to_peers_with_outstanding_requests stays exact.
LEMMA BusyCount ==
  ASSUME outstanding = Cardinality(Busy(peer)), NEW pm, PeersBecome(pm)
  PROVE  outstanding' = Cardinality(Busy(peer'))
<1> DEFINE S == Busy(peer)
           T == Busy(pm)
<1>1. peer' = pm /\ outstanding' = outstanding + Cardinality(T \ S) - Cardinality(S \ T)
  BY DEF PeersBecome
<1>2. IsFiniteSet(S) /\ IsFiniteSet(T) /\ IsFiniteSet(S \cap T)
  BY Limits, FS_Subset DEF Busy
<1> HIDE DEF S, T
<1>3. /\ Cardinality(S) \in Nat /\ Cardinality(T) \in Nat /\ Cardinality(S \cap T) \in Nat
  BY <1>2, FS_CardinalityType
<1>4. /\ Cardinality(S \ T) = Cardinality(S) - Cardinality(S \cap T)
      /\ Cardinality(T \ S) = Cardinality(T) - Cardinality(T \cap S)
  BY <1>2, FS_Difference
<1>5. T \cap S = S \cap T
  OBVIOUS
<1>s. outstanding = Cardinality(S)
  BY DEF S
<1>6. outstanding' = Cardinality(T)
  <2> DEFINE c == Cardinality(S)
             d == Cardinality(T)
             e == Cardinality(S \cap T)
  <2>1. Cardinality(T \ S) = d - e /\ Cardinality(S \ T) = c - e
    BY <1>4, <1>5
  <2>2. c \in Nat /\ d \in Nat /\ e \in Nat
    BY <1>3
  <2>3. outstanding' = c + (d - e) - (c - e)
    BY <1>1, <1>s, <2>1
  <2> HIDE DEF c, d, e
  <2>4. c + (d - e) - (c - e) = d
    BY <2>2
  <2>5. QED
    BY <2>3, <2>4 DEF d
<1>7. QED
  BY <1>1, <1>6 DEF T

\* What holds when torrent_io_do_requests does not run.
Still == \A p \in Peers : Loose(peer[p]) = {}
Calm == Base /\ Still

LEMMA IdleIs ==
  ASSUME IInv, aio.pc = "idle"
  PROVE  Calm /\ aio = IdleAio
<1>1. aio = IdleAio /\ aio.p = Null
  BY DEF IInv, AioSound, IdleAio
<1>2. \A p \in Peers : Held(aio, p) = {}
  BY <1>1, Limits DEF Held
<1>3. Still
  BY <1>2 DEF IInv, Tidy, Still
<1>4. QED
  BY <1>1, <1>3 DEF IInv, Calm

\* torrent_io_do_requests is entered, with nothing in hand, or is not.
Entered == aio' = IdleAio \/ \E by \in Callers : Serve(by, Null, Null)

LEMMA Entry ==
  ASSUME Calm', Entered
  PROVE  IInv'
<1>1. /\ aio' \in AioRec /\ aio'.p = Null
      /\ aio'.pc \in {"idle", "check"}
      /\ aio'.pc = "idle" => aio' = IdleAio
  <2>1. CASE aio' = IdleAio
    BY <2>1 DEF IdleAio, AioRec, AioPc, Callers
  <2>2. CASE \E by \in Callers : Serve(by, Null, Null)
    BY <2>2 DEF Serve, AioRec, AioPc
  <2>3. QED
    BY <2>1, <2>2 DEF Entered
<1>2. aio'.pc = "check" => \A a \in aio'.todo : blk'[a].list = "sent"
  BY DEF Entered, Serve, IdleAio
<1>3. Tidy'
  BY DEF Calm, Still, Tidy
<1>4. AioSound'
  BY <1>1, <1>2 DEF AioSound
<1>5. Passed'
  BY <1>1 DEF Passed
<1>6. QED
  BY <1>3, <1>4, <1>5 DEF Calm, IInv

\* The peers change, but neither their requests nor the blocks and pieces.
LEMMA SameRequests ==
  ASSUME Calm, UNCHANGED <<blk, piece, contrib, bad, outstanding>>, peer' \in [Peers -> PeerRec],
         \A p \in Peers : Sound(peer'[p]) /\ peer'[p].requests = peer[p].requests
  PROVE  Calm'
<1>1. Busy(peer') = Busy(peer)
  BY DEF Busy
<1>2. \A p \in Peers : OnSent(peer'[p], blk')
  BY DEF Calm, Base, OnSent
<1>3. Fetched(piece', blk')
  BY DEF Calm, Base
<1>4. Base'
  BY <1>1, <1>2, <1>3 DEF Calm, Base
<1>5. \A p \in Peers : Loose(peer'[p]) = {}
  BY DEF Calm, Still, Loose
<1>6. QED
  BY <1>4, <1>5 DEF Calm, Still

LEMMA PeerUpInv ==
  ASSUME IInv, NEW p \in Peers, PeerUp(p)
  PROVE  IInv'
<1> DEFINE R == [peer[p] EXCEPT !.running = TRUE]
<1>1. Calm /\ aio = IdleAio
  BY IdleIs DEF PeerUp
<1>2. Sound(peer[p]) /\ peer[p] \in PeerRec
  BY <1>1 DEF Calm, Base, Sound
<1>3. /\ R \in PeerRec /\ R.running = TRUE /\ R.choking = peer[p].choking /\ R.delay = peer[p].delay
      /\ R.maxq = peer[p].maxq /\ R.active = peer[p].active /\ R.requests = peer[p].requests
  BY <1>2 DEF PeerRec
<1> HIDE DEF R
<1>4. Sound(R)
  BY <1>2, <1>3 DEF Sound
<1>5. peer' = [peer EXCEPT ![p] = R] /\ UNCHANGED <<blk, piece, contrib, bad, outstanding, aio>>
  BY DEF PeerUp, R
<1>6. peer \in [Peers -> PeerRec] /\ \A q \in Peers : Sound(peer[q])
  BY <1>1 DEF Calm, Base
<1>7. Calm'
  BY <1>1, <1>3, <1>4, <1>5, <1>6, SameRequests
<1>8. QED
  BY <1>1, <1>5, <1>7, Entry DEF Entered

LEMMA RecvHaveInv ==
  ASSUME IInv, NEW p \in Peers, NEW is \in SUBSET Pieces, RecvHave(p, is)
  PROVE  IInv'
<1> DEFINE R == [peer[p] EXCEPT !.have = @ \cup is]
<1>1. Calm /\ aio = IdleAio
  BY IdleIs DEF RecvHave
<1>2. Sound(peer[p]) /\ peer[p] \in PeerRec
  BY <1>1 DEF Calm, Base, Sound
<1>3. /\ R \in PeerRec /\ R.running = peer[p].running /\ R.choking = peer[p].choking /\ R.delay = peer[p].delay
      /\ R.maxq = peer[p].maxq /\ R.active = peer[p].active /\ R.requests = peer[p].requests
  BY <1>2 DEF PeerRec
<1> HIDE DEF R
<1>4. Sound(R)
  BY <1>2, <1>3 DEF Sound
<1>5. peer' = [peer EXCEPT ![p] = R] /\ UNCHANGED <<blk, piece, contrib, bad, outstanding>>
  BY DEF RecvHave, R
<1>6. peer \in [Peers -> PeerRec] /\ \A q \in Peers : Sound(peer[q])
  BY <1>1 DEF Calm, Base
<1>7. Calm'
  BY <1>1, <1>3, <1>4, <1>5, <1>6, SameRequests
<1>8. Entered
  BY <1>1 DEF Entered, RecvHave, Callers
<1>9. QED
  BY <1>7, <1>8, Entry

LEMMA RecvUnchokeInv ==
  ASSUME IInv, NEW p \in Peers, RecvUnchoke(p)
  PROVE  IInv'
<1> DEFINE R == [peer[p] EXCEPT !.choking = FALSE, !.maxq = 1]
<1>1. Calm /\ aio = IdleAio
  BY IdleIs DEF RecvUnchoke
<1>2. Sound(peer[p]) /\ peer[p] \in PeerRec
  BY <1>1 DEF Calm, Base, Sound
<1>3. /\ R \in PeerRec /\ R.running = peer[p].running /\ R.choking = FALSE /\ R.delay = peer[p].delay
      /\ R.maxq = 1 /\ R.active = peer[p].active /\ R.requests = peer[p].requests
  BY <1>2 DEF PeerRec
<1> HIDE DEF R
<1>a. peer[p].running = TRUE
  BY <1>2, Fields DEF RecvUnchoke
<1>4. Sound(R)
  BY <1>2, <1>3, <1>a DEF Sound
<1>5. peer' = [peer EXCEPT ![p] = R] /\ UNCHANGED <<blk, piece, contrib, bad, outstanding>>
  BY DEF RecvUnchoke, R
<1>6. peer \in [Peers -> PeerRec] /\ \A q \in Peers : Sound(peer[q])
  BY <1>1 DEF Calm, Base
<1>7. Calm'
  BY <1>1, <1>3, <1>4, <1>5, <1>6, SameRequests
<1>8. Entered
  BY DEF Entered, RecvUnchoke, Callers
<1>9. QED
  BY <1>7, <1>8, Entry

LEMMA PeriodicInv ==
  ASSUME IInv, Periodic
  PROVE  IInv'
<1>1. Calm /\ aio = IdleAio
  BY IdleIs DEF Periodic
<1>2. UNCHANGED <<peer, blk, piece, contrib, bad, outstanding>> /\ Entered
  BY DEF Periodic, Entered, Callers
<1>3. Calm'
  BY <1>1, <1>2, SameRequests DEF Calm, Base
<1>4. QED
  BY <1>2, <1>3, Entry

-----------------------------------------------------------------------------
(* Requests that end.                                                       *)

\* One peer has another record.
LEMMA OnePeer ==
  ASSUME Base, NEW p \in Peers, NEW R, Sound(R), PeersBecome([peer EXCEPT ![p] = R])
  PROVE  /\ peer' \in [Peers -> PeerRec] /\ outstanding' = Cardinality(Busy(peer'))
         /\ peer'[p] = R /\ \A q \in Peers : Sound(peer'[q]) /\ (q # p => peer'[q] = peer[q])
<1>1. peer \in [Peers -> PeerRec] /\ R \in PeerRec /\ \A q \in Peers : Sound(peer[q])
  BY DEF Base, Sound
<1>2. peer' = [peer EXCEPT ![p] = R]
  BY DEF PeersBecome
<1>3. outstanding' = Cardinality(Busy(peer'))
  BY BusyCount DEF Base
<1>4. QED
  BY <1>1, <1>2, <1>3

\* The requests `gone' of p end, and their blocks are put back.
LEMMA PutBackInv ==
  ASSUME Calm, NEW p \in Peers, NEW gone \in SUBSET peer[p].requests, NEW R, Sound(R),
         R.requests = peer[p].requests \ gone, PeersBecome([peer EXCEPT ![p] = R]), PutBack(p, gone),
         piece' = piece, contrib' \subseteq contrib, bad' \subseteq contrib'
  PROVE  Calm'
<1> DEFINE Moved(a) == At(a, p) \cap gone # {} /\ \A q \in Peers \ {p} : At(a, q) = {}
<1>1. Base /\ Still
  BY DEF Calm
<1>2. /\ peer' \in [Peers -> PeerRec] /\ outstanding' = Cardinality(Busy(peer'))
      /\ peer'[p] = R /\ \A q \in Peers : Sound(peer'[q]) /\ (q # p => peer'[q] = peer[q])
  BY <1>1, OnePeer
<1>3. /\ blk \in [Addrs -> BlockRec] /\ \A q \in Peers : OnSent(peer[q], blk) /\ Sound(peer[q])
  BY <1>1 DEF Base
<1>4. \A a \in Addrs : Moved(a) => blk[a].list = "sent"
  BY <1>3 DEF At, OnSent
<1>5. /\ blk' \in [Addrs -> BlockRec]
      /\ \A a \in Addrs : /\ blk'[a].name = blk[a].name
                          /\ Moved(a) => blk'[a].list = "waiting"
                          /\ ~Moved(a) => blk'[a].list = blk[a].list
  <2> DEFINE w(a) == [blk[a] EXCEPT !.list = "waiting"]
  <2>1. \A a \in Addrs : w(a) \in BlockRec /\ w(a).name = blk[a].name /\ w(a).list = "waiting"
    BY <1>3 DEF BlockRec
  <2>2. blk' = [a \in Addrs |-> IF Moved(a) THEN w(a) ELSE blk[a]]
    BY DEF PutBack
  <2> HIDE DEF w, Moved
  <2>3. QED
    BY <1>3, <2>1, <2>2
<1>6. Fetched(piece', blk')
  <2>1. Fetched(piece, blk)
    BY <1>1 DEF Base
  <2>2. \A a \in Addrs : (blk'[a].list # "free" <=> blk[a].list # "free") /\ blk'[a].name = blk[a].name
    <3> HIDE DEF Moved
    <3>1. QED
      BY <1>4, <1>5
  <2> HIDE DEF Moved
  <2>3. QED
    BY <2>1, <2>2 DEF Fetched
<1>7. \A q \in Peers : peer'[q].requests \subseteq peer[q].requests
  BY <1>2
<1>8. \A q \in Peers : \A tr \in peer'[q].requests : tr.linked => tr.block \in Addrs /\ ~Moved(tr.block)
  <2> SUFFICES ASSUME NEW q \in Peers, NEW tr \in peer'[q].requests, tr.linked
               PROVE  tr.block \in Addrs /\ ~Moved(tr.block)
    OBVIOUS
  <2>1. tr \in peer[q].requests /\ tr.block \in Addrs
    BY <1>3, <1>7 DEF OnSent
  <2>2. CASE q # p
    BY <2>1, <2>2 DEF At
  <2>3. CASE q = p
    <3>1. tr \notin gone
      BY <1>2, <2>3
    <3>2. tr.block # Null
      BY <2>1, Limits
    <3>3. \A u \in peer[p].requests : u.block = tr.block => u = tr
      BY <1>3, <2>1, <2>3, <3>2 DEF Sound
    <3>4. QED
      BY <2>1, <3>1, <3>3 DEF At
  <2>4. QED
    BY <2>2, <2>3
<1>9. \A q \in Peers : OnSent(peer'[q], blk')
  <2> HIDE DEF Moved
  <2>1. QED
    BY <1>3, <1>5, <1>7, <1>8 DEF OnSent
<1>10. Base'
  <2>1. contrib' \subseteq Peers \X Pieces /\ piece' \in [Pieces -> PieceState]
    BY <1>1 DEF Base
  <2>2. QED
    BY <1>2, <1>5, <1>6, <1>9, <2>1 DEF Base
<1>11. Still'
  BY <1>1, <1>7 DEF Still, Loose
<1>12. QED
  BY <1>10, <1>11 DEF Calm

LEMMA RecvRejectInv ==
  ASSUME IInv, NEW p \in Peers, NEW tr \in peer[p].requests, RecvReject(p, tr)
  PROVE  IInv'
<1> DEFINE R == Without(peer[p], {tr})
<1>1. Calm /\ aio = IdleAio
  BY IdleIs DEF RecvReject
<1>2. Sound(peer[p]) /\ bad \subseteq contrib
  BY <1>1 DEF Calm, Base
<1>3. Sound(R) /\ R.requests = peer[p].requests \ {tr}
  BY <1>2, WithoutIs
<1>4. PeersBecome([peer EXCEPT ![p] = R]) /\ PutBack(p, {tr}) /\ UNCHANGED <<piece, contrib, bad, aio>>
  BY <1>1 DEF RecvReject, Calm, Base
<1> HIDE DEF R
<1>5. Calm'
  BY <1>1, <1>2, <1>3, <1>4, PutBackInv
<1>6. QED
  BY <1>1, <1>4, <1>5, Entry DEF Entered

LEMMA RecvChokeInv ==
  ASSUME IInv, NEW p \in Peers, RecvChoke(p)
  PROVE  IInv'
<1> DEFINE rec == [peer[p] EXCEPT !.choking = TRUE]
           R == [rec EXCEPT !.requests = {}, !.active = 0]
           gone == peer[p].requests
<1>1. Calm /\ aio = IdleAio
  BY IdleIs DEF RecvChoke
<1>2. Sound(peer[p]) /\ peer[p] \in PeerRec /\ bad \subseteq contrib
  BY <1>1 DEF Calm, Base, Sound
<1>3. rec \in PeerRec /\ rec.choking = TRUE /\ rec.delay = peer[p].delay /\ rec.maxq = peer[p].maxq
  BY <1>2 DEF PeerRec
<1>4. PeersBecome([peer EXCEPT ![p] = R]) /\ PutBack(p, gone) /\ UNCHANGED <<piece, contrib, bad>> /\ Entered
  BY DEF RecvChoke, AbortRequests, Entered, Callers
<1> HIDE DEF rec
<1>5. Sound(R) /\ R.requests = {}
  <2>1. rec.delay = 0 => rec.maxq <= 1
    BY <1>2, <1>3 DEF Sound
  <2>2. QED
    BY <1>3, <2>1, AbortedIs
<1> HIDE DEF R
<1>6. Calm'
  BY <1>1, <1>2, <1>4, <1>5, PutBackInv
<1>7. QED
  BY <1>4, <1>6, Entry

LEMMA PeerShutdownInv ==
  ASSUME IInv, NEW p \in Peers, NEW destroy \in BOOLEAN, PeerShutdown(p, destroy)
  PROVE  IInv'
<1> DEFINE rec == IF destroy THEN NewPeer
                  ELSE [peer[p] EXCEPT !.running = FALSE, !.choking = TRUE, !.have = {}]
           R == [rec EXCEPT !.requests = {}, !.active = 0]
           gone == peer[p].requests
<1>1. Calm /\ aio = IdleAio
  BY IdleIs DEF PeerShutdown
<1>2. Sound(peer[p]) /\ peer[p] \in PeerRec /\ bad \subseteq contrib
  BY <1>1 DEF Calm, Base, Sound
<1>3. rec \in PeerRec /\ rec.choking = TRUE /\ (rec.delay = 0 => rec.maxq <= 1)
  <2>1. CASE destroy
    BY <2>1, Limits DEF NewPeer, PeerRec
  <2>2. CASE ~destroy
    <3>1. rec \in PeerRec /\ rec.choking = TRUE /\ rec.delay = peer[p].delay /\ rec.maxq = peer[p].maxq
      BY <1>2, <2>2 DEF PeerRec
    <3>2. QED
      BY <1>2, <3>1 DEF Sound
  <2>3. QED
    BY <2>1, <2>2
<1>4. PeersBecome([peer EXCEPT ![p] = R]) /\ PutBack(p, gone) /\ piece' = piece /\ Entered
  BY DEF PeerShutdown, AbortRequests, Entered, Callers
<1>a. contrib' \subseteq contrib /\ bad' \subseteq contrib'
  BY <1>2 DEF PeerShutdown
<1> HIDE DEF rec
<1>5. Sound(R) /\ R.requests = {}
  BY <1>3, AbortedIs
<1> HIDE DEF R
<1>6. Calm'
  BY <1>1, <1>2, <1>4, <1>a, <1>5, PutBackInv
<1>7. QED
  BY <1>4, <1>6, Entry

\* recv_piece of a request without a block.
LEMMA RecvOrphanInv ==
  ASSUME IInv, NEW p \in Peers, NEW tr \in peer[p].requests, NEW d \in 1 .. MaxDelay,
         RecvPiece(p, tr, d), tr.block = Null
  PROVE  IInv'
<1> DEFINE rec == Measured(peer[p], tr, d)
           R == Without(rec, {tr})
           gone == peer[p].requests \ R.requests
<1>1. Calm /\ aio = IdleAio
  BY IdleIs DEF RecvPiece
<1>2. Sound(peer[p]) /\ OnSent(peer[p], blk) /\ bad \subseteq contrib /\ blk \in [Addrs -> BlockRec]
  BY <1>1 DEF Calm, Base
<1>3. /\ Sound(rec) /\ tr \in rec.requests /\ rec.requests \subseteq peer[p].requests
      /\ \A u \in peer[p].requests : u.block # Null => u \in rec.requests
  BY <1>2, MeasuredIs
<1>4. PeersBecome([peer EXCEPT ![p] = R]) /\ UNCHANGED <<blk, piece, contrib, bad, aio>>
  BY DEF RecvPiece
<1> HIDE DEF rec
<1>5. Sound(R) /\ R.requests = rec.requests \ {tr}
  BY <1>3, WithoutIs
<1> HIDE DEF R
<1>6. /\ \A u \in gone : u.block = Null
      /\ R.requests = peer[p].requests \ gone
  BY <1>3, <1>5
<1>7. PutBack(p, gone)
  <2>1. \A a \in Addrs : At(a, p) \cap gone = {}
    BY <1>6, Limits DEF At
  <2> HIDE DEF gone
  <2>2. QED
    BY <1>2, <1>4, <2>1 DEF PutBack
<1>8. gone \in SUBSET peer[p].requests
  OBVIOUS
<1> HIDE DEF gone
<1>9. Calm'
  BY <1>1, <1>2, <1>4, <1>5, <1>6, <1>7, <1>8, PutBackInv
<1>10. QED
  BY <1>1, <1>4, <1>9, Entry DEF Entered

\* recv_piece of a request on a block: the block is freed, the other requests for it are
\* cancelled, and torrent_io_do_requests is entered with the request in hand.
LEMMA RecvBlockInv ==
  ASSUME IInv, NEW p \in Peers, NEW tr \in peer[p].requests, NEW d \in 1 .. MaxDelay,
         RecvPiece(p, tr, d), tr.block # Null
  PROVE  IInv'
<1> DEFINE a == tr.block
           i == tr.name[1]
           rec == Measured(peer[p], tr, d)
           off == [tr EXCEPT !.linked = FALSE]
           R == [rec EXCEPT !.requests = (@ \ {tr}) \cup {off}]
           pm == [q \in Peers |-> IF q = p THEN R ELSE Cancelled(q, a)]
<1>1. Calm /\ aio = IdleAio
  BY IdleIs DEF RecvPiece
<1>2. /\ \A q \in Peers : Sound(peer[q]) /\ OnSent(peer[q], blk) /\ Loose(peer[q]) = {}
      /\ bad \subseteq contrib /\ contrib \subseteq Peers \X Pieces /\ blk \in [Addrs -> BlockRec]
      /\ piece \in [Pieces -> PieceState] /\ Fetched(piece, blk) /\ outstanding = Cardinality(Busy(peer))
  BY <1>1 DEF Calm, Base, Still
<1>3. tr \in ReqRec /\ tr.name \in Names /\ i \in Pieces /\ tr.linked \in BOOLEAN
  <2>1. tr \in ReqRec
    BY <1>2, Fields DEF Sound
  <2>2. QED
    BY <2>1, RequestConstants DEF ReqRec
<1>4. tr.linked /\ a \in Addrs /\ blk[a].list = "sent" /\ blk[a].name = tr.name
  <2>1. tr.linked
    BY <1>2 DEF Loose
  <2>2. QED
    BY <1>2, <2>1 DEF OnSent
<1>5. /\ PeersBecome(pm) /\ blk' = [blk EXCEPT ![a] = FreeBlock] /\ contrib' = contrib \cup {<<p, i>>}
      /\ piece' = IF \E b \in (Waiting \cup Sent) \ {a} : PieceOf(b) = i THEN piece
                  ELSE [piece EXCEPT ![i] = "complete"]
      /\ Serve("peer", p, off) /\ bad' = bad
  BY DEF RecvPiece
<1>6. /\ Sound(rec) /\ rec.delay = d /\ rec.maxq = MaxQ /\ rec.requests \subseteq peer[p].requests
      /\ tr \in rec.requests /\ \A u \in peer[p].requests : u.block # Null => u \in rec.requests
  BY <1>2, MeasuredIs
<1> HIDE DEF rec
<1>7. /\ off \in ReqRec /\ off.block = a /\ off.linked = FALSE
      /\ Sound(R) /\ R.delay = d /\ R.maxq = MaxQ /\ R.requests = (rec.requests \ {tr}) \cup {off}
  <2>1. rec.delay # 0
    BY <1>6
  <2>2. QED
    BY <1>4, <1>6, <2>1, OffIs
<1> HIDE DEF R, off
<1>8. \A q \in Peers : q # p =>
        /\ Sound(Cancelled(q, a))
        /\ \A u \in Cancelled(q, a).requests :
              u \in peer[q].requests \ AtOf(peer[q], a) \/ (u.block = Null /\ u.linked = FALSE)
        /\ peer[q].requests \ AtOf(peer[q], a) \subseteq Cancelled(q, a).requests
  BY <1>2, <1>4, CancelledIs
<1>9. peer' = pm /\ peer'[p] = R /\ \A q \in Peers : q # p => peer'[q] = Cancelled(q, a)
  BY <1>5 DEF PeersBecome
<1>10. outstanding' = Cardinality(Busy(peer'))
  <2> HIDE DEF pm
  <2>1. QED
    BY <1>2, <1>5, BusyCount
<1>11. peer' \in [Peers -> PeerRec] /\ \A q \in Peers : Sound(peer'[q])
  <2>1. \A q \in Peers : Sound(peer'[q]) /\ peer'[q] \in PeerRec
    BY <1>7, <1>8, <1>9, ZenonT(60) DEF Sound
  <2>2. QED
    BY <1>9, <2>1
<1> HIDE DEF a, i, pm
<1>12. /\ \A u \in peer'[p].requests : u = off \/ (u \in peer[p].requests /\ u # tr)
       /\ \A u \in peer[p].requests : u.block # Null /\ u # tr => u \in peer'[p].requests
       /\ off \in peer'[p].requests
  BY <1>6, <1>7, <1>9
<1>13. \A q \in Peers : q # p =>
        /\ \A u \in peer'[q].requests : (u \in peer[q].requests /\ u \notin AtOf(peer[q], a))
                                        \/ (u.block = Null /\ u.linked = FALSE)
        /\ \A u \in peer[q].requests : u \notin AtOf(peer[q], a) => u \in peer'[q].requests
  BY <1>8, <1>9
<1>14. \A u \in peer[p].requests : u # tr => u.block # a
  BY <1>2, <1>4, Limits DEF Sound, a
<1>15. /\ blk' \in [Addrs -> BlockRec] /\ blk'[a].list = "free"
       /\ \A b \in Addrs : b # a => blk'[b] = blk[b]
  <2>1. FreeBlock \in BlockRec /\ FreeBlock.list = "free"
    <3>1. (CHOOSE n \in Names : TRUE) \in Names
      BY <1>3
    <3>2. QED
      BY <3>1 DEF FreeBlock, BlockRec
  <2>2. QED
    BY <1>2, <1>4, <1>5, <2>1
<1>16. \A q \in Peers : OnSent(peer'[q], blk')
  <2> SUFFICES ASSUME NEW q \in Peers, NEW u \in peer'[q].requests, u.linked
               PROVE  u.block \in Addrs /\ blk'[u.block].list = "sent" /\ blk'[u.block].name = u.name
    BY DEF OnSent
  <2>1. u \in peer[q].requests /\ u.block # a
    <3>1. CASE q = p
      BY <1>7, <1>12, <1>14, <3>1
    <3>2. CASE q # p
      BY <1>13, <3>2 DEF AtOf
    <3>3. QED
      BY <3>1, <3>2
  <2>2. QED
    BY <1>2, <1>15, <2>1 DEF OnSent
<1>17. Fetched(piece', blk') /\ piece' \in [Pieces -> PieceState]
  <2>1. \A b \in Addrs : b \in Waiting \cup Sent <=> blk[b].list # "free"
    BY <1>2 DEF Waiting, Sent, BlockRec
  <2>2. blk[a].name[1] = i /\ i \in Pieces
    BY <1>3, <1>4 DEF i, a
  <2>3. \A j \in Pieces : j # i =>
          ((\E b \in Addrs : blk'[b].list # "free" /\ blk'[b].name[1] = j)
           <=> \E b \in Addrs : blk[b].list # "free" /\ blk[b].name[1] = j)
    BY <1>15, <2>2
  <2>4. (\E b \in Addrs : blk'[b].list # "free" /\ blk'[b].name[1] = i)
        <=> \E b \in (Waiting \cup Sent) \ {a} : PieceOf(b) = i
    BY <1>15, <2>1 DEF PieceOf, Waiting, Sent
  <2>5. CASE \E b \in (Waiting \cup Sent) \ {a} : PieceOf(b) = i
    <3>1. piece' = piece
      BY <1>5, <2>5
    <3>2. piece[i] = "fetch"
      BY <1>2, <1>4, <2>2 DEF Fetched, a
    <3>3. QED
      BY <1>2, <2>2, <2>3, <2>4, <2>5, <3>1, <3>2 DEF Fetched
  <2>6. CASE ~\E b \in (Waiting \cup Sent) \ {a} : PieceOf(b) = i
    <3>1. piece' = [piece EXCEPT ![i] = "complete"]
      BY <1>5, <2>6
    <3>2. piece' \in [Pieces -> PieceState]
      BY <1>2, <2>2, <3>1 DEF PieceState
    <3>3. piece'[i] # "fetch" /\ \A j \in Pieces : j # i => piece'[j] = piece[j]
      BY <1>2, <2>2, <3>1
    <3>4. QED
      BY <1>2, <2>2, <2>3, <2>4, <2>6, <3>2, <3>3 DEF Fetched
  <2>7. QED
    BY <2>5, <2>6
<1>18. Base'
  <2>1. contrib' \subseteq Peers \X Pieces /\ bad' \subseteq contrib'
    BY <1>2, <1>3, <1>5 DEF i
  <2>2. QED
    BY <1>10, <1>11, <1>15, <1>16, <1>17, <2>1 DEF Base
<1>19. /\ aio' \in AioRec /\ aio'.pc = "check" /\ aio'.p = p /\ aio'.tr = off
       /\ \A b \in aio'.todo : blk'[b].list = "sent"
  BY <1>5, <1>7 DEF Serve, AioRec, AioPc, Callers
<1>20. Tidy'
  <2> SUFFICES ASSUME NEW q \in Peers, NEW u \in peer'[q].requests, u.block # Null, ~u.linked
               PROVE  u \in Held(aio', q)
    BY DEF Tidy, Loose
  <2>1. CASE q = p
    BY <1>2, <1>12, <1>19, <2>1 DEF Held, Loose
  <2>2. CASE q # p
    BY <1>2, <1>13, <2>2 DEF Loose
  <2>3. QED
    BY <2>1, <2>2
<1>21. AioSound'
  <2>1. peer'[p].delay # 0 /\ peer'[p].maxq = MaxQ
    BY <1>7, <1>9
  <2>2. off.block # Null
    BY <1>7 DEF a
  <2>3. QED
    BY <1>7, <1>12, <1>19, <2>1, <2>2 DEF AioSound
<1>22. Passed'
  BY <1>19 DEF Passed
<1>23. QED
  BY <1>18, <1>20, <1>21, <1>22 DEF IInv

-----------------------------------------------------------------------------
(* Blocks that come up, pieces that are hashed or dropped.                  *)

LEMMA FreeIs == FreeBlock \in BlockRec /\ FreeBlock.list = "free"
<1>1. Names # {}
  BY RequestConstants
<1>2. (CHOOSE n \in Names : TRUE) \in Names
  BY <1>1
<1>3. QED
  BY <1>2 DEF FreeBlock, BlockRec

\* torrent_piece_enqueue_requests takes free addresses only.
LEMMA EnqueueIs ==
  ASSUME blk \in [Addrs -> BlockRec], NEW is \in SUBSET Pieces, NEW at \in Placements(is), Enqueue(at)
  PROVE  /\ blk' \in [Addrs -> BlockRec]
         /\ \A a \in Addrs : blk[a].list # "free" => blk'[a] = blk[a]
         /\ \A a \in Addrs : blk'[a] = blk[a] \/ (blk'[a].list = "waiting" /\ blk'[a].name[1] \in is)
         /\ \A n \in BlocksOf(is) : at[n] \in Addrs /\ blk'[at[n]].list = "waiting" /\ blk'[at[n]].name = n
<1> DEFINE T == BlocksOf(is)
           New(a) == \E n \in T : at[n] = a
           nm(a) == CHOOSE n \in T : at[n] = a
           w(a) == [list |-> "waiting", name |-> nm(a)]
<1>1. /\ DOMAIN at = T /\ \A n \in T : at[n] \in Addrs /\ blk[at[n]].list = "free"
      /\ \A m, n \in T : at[m] = at[n] => m = n
  BY DEF Placements
<1>2. \A a \in Addrs : New(a) => nm(a) \in T /\ at[nm(a)] = a
  OBVIOUS
<1>3. blk' = [a \in Addrs |-> IF New(a) THEN w(a) ELSE blk[a]]
  BY <1>1 DEF Enqueue
<1>4. \A n \in T : n \in Names /\ n[1] \in is
  BY BlocksAre
<1> HIDE DEF T, nm
<1>5. \A a \in Addrs : New(a) => w(a) \in BlockRec /\ w(a).list = "waiting" /\ w(a).name = nm(a)
  BY <1>2, <1>4 DEF BlockRec
<1> HIDE DEF w
<1>6. blk' \in [Addrs -> BlockRec]
  BY <1>3, <1>5
<1>7. \A a \in Addrs : blk[a].list # "free" => blk'[a] = blk[a]
  BY <1>1, <1>3
<1>8. \A a \in Addrs : blk'[a] = blk[a] \/ (blk'[a].list = "waiting" /\ blk'[a].name[1] \in is)
  BY <1>2, <1>3, <1>4, <1>5
<1>9. \A n \in T : at[n] \in Addrs /\ blk'[at[n]].list = "waiting" /\ blk'[at[n]].name = n
  BY <1>1, <1>2, <1>3, <1>5
<1>10. QED
  BY <1>6, <1>7, <1>8, <1>9 DEF T

LEMMA EnqueueBase ==
  ASSUME Base, NEW is \in SUBSET Pieces, NEW at \in Placements(is), Enqueue(at),
         UNCHANGED <<peer, contrib, bad, outstanding>>,
         piece' = [i \in Pieces |-> IF i \in is THEN "fetch" ELSE piece[i]]
  PROVE  /\ Base'
         /\ \A a \in Addrs : blk[a].list # "free" => blk'[a] = blk[a]
         /\ \A n \in BlocksOf(is) : at[n] \in Addrs /\ blk'[at[n]].list = "waiting"
<1>1. /\ blk' \in [Addrs -> BlockRec]
      /\ \A a \in Addrs : blk[a].list # "free" => blk'[a] = blk[a]
      /\ \A a \in Addrs : blk'[a] = blk[a] \/ (blk'[a].list = "waiting" /\ blk'[a].name[1] \in is)
      /\ \A n \in BlocksOf(is) : at[n] \in Addrs /\ blk'[at[n]].list = "waiting" /\ blk'[at[n]].name = n
  BY EnqueueIs DEF Base
<1>2. piece' \in [Pieces -> PieceState]
  BY DEF Base, PieceState
<1>3. Fetched(piece', blk')
  <2> SUFFICES ASSUME NEW i \in Pieces
               PROVE  piece'[i] = "fetch" <=> \E a \in Addrs : blk'[a].list # "free" /\ blk'[a].name[1] = i
    BY DEF Fetched
  <2>1. CASE i \in is
    <3>1. PICK n \in BlocksOf(is) : n[1] = i
      BY <2>1, BlocksAre
    <3>2. at[n] \in Addrs /\ blk'[at[n]].list = "waiting" /\ blk'[at[n]].name = n
      BY <1>1, <3>1
    <3>3. piece'[i] = "fetch"
      BY <2>1
    <3>4. QED
      BY <3>1, <3>2, <3>3
  <2>2. CASE i \notin is
    <3>1. piece'[i] = piece[i]
      BY <2>2
    <3>2. piece[i] = "fetch" <=> \E a \in Addrs : blk[a].list # "free" /\ blk[a].name[1] = i
      BY DEF Base, Fetched
    <3>3. QED
      BY <1>1, <2>2, <3>1, <3>2
  <2>3. QED
    BY <2>1, <2>2
<1>4. \A p \in Peers : Sound(peer'[p]) /\ OnSent(peer'[p], blk')
  BY <1>1 DEF Base, OnSent
<1>5. Busy(peer') = Busy(peer)
  BY DEF Busy
<1>6. Base'
  BY <1>1, <1>2, <1>3, <1>4, <1>5 DEF Base
<1>7. QED
  BY <1>1, <1>6

LEMMA CheckPendingsInv ==
  ASSUME IInv, CheckPendings
  PROVE  IInv'
<1> DEFINE is == {i \in Pieces : piece[i] = "corrupt"}
<1>0. PICK at \in Placements(is) : Enqueue(at)
  BY DEF CheckPendings
<1>1. Calm /\ aio = IdleAio
  BY IdleIs DEF CheckPendings
<1>2. /\ at \in Placements(is) /\ Enqueue(at) /\ UNCHANGED <<peer, contrib, bad, outstanding>>
      /\ piece' = [i \in Pieces |-> IF i \in is THEN "fetch" ELSE piece[i]] /\ Entered
  BY <1>0 DEF CheckPendings, Entered, Callers
<1>3. is \in SUBSET Pieces
  OBVIOUS
<1> HIDE DEF is
<1>4. Base'
  BY <1>1, <1>2, <1>3, EnqueueBase DEF Calm
<1>5. Calm'
  BY <1>1, <1>2, <1>4 DEF Calm, Still
<1>6. QED
  BY <1>2, <1>5, Entry

LEMMA ReaderFindInv ==
  ASSUME IInv, NEW i \in Pieces, ReaderFind(i)
  PROVE  IInv'
<1> DEFINE New(at) == {at[n] : n \in DOMAIN at}
<1>0. PICK at \in Placements({i}) :
        /\ Enqueue(at)
        /\ \/ aio.pc \in {"idle", "check"} /\ UNCHANGED aio
           \/ aio.pc \notin {"idle", "check"} /\ aio' = [aio EXCEPT !.late = @ \cup New(at)]
           \/ /\ aio.pc \in {"optimal", "any"}
              /\ aio' = [aio EXCEPT !.todo = @ \cup New(at), !.late = @ \cup New(at)]
  BY DEF ReaderFind
<1>1. /\ Enqueue(at) /\ UNCHANGED <<peer, contrib, bad, outstanding>>
      /\ piece' = [piece EXCEPT ![i] = "fetch"] /\ DOMAIN at = BlocksOf({i})
  BY <1>0 DEF ReaderFind, Placements
<1>2. piece' = [j \in Pieces |-> IF j \in {i} THEN "fetch" ELSE piece[j]]
  BY <1>1 DEF IInv, Base
<1>3. /\ Base'
      /\ \A a \in Addrs : blk[a].list # "free" => blk'[a] = blk[a]
      /\ \A n \in BlocksOf({i}) : at[n] \in Addrs /\ blk'[at[n]].list = "waiting"
  <2> DEFINE is == {i}
  <2>1. is \in SUBSET Pieces /\ at \in Placements(is) /\ Enqueue(at) /\ Base
    BY <1>1 DEF IInv
  <2>2. piece' = [j \in Pieces |-> IF j \in is THEN "fetch" ELSE piece[j]]
    BY <1>2
  <2> HIDE DEF is
  <2>3. /\ Base'
        /\ \A a \in Addrs : blk[a].list # "free" => blk'[a] = blk[a]
        /\ \A n \in BlocksOf(is) : at[n] \in Addrs /\ blk'[at[n]].list = "waiting"
    BY <1>1, <2>1, <2>2, EnqueueBase
  <2>4. QED
    BY <2>3 DEF is
<1>4. CASE aio.pc = "idle"
  <2>1. Calm /\ aio = IdleAio
    BY <1>4, IdleIs
  <2>2. Calm'
    BY <1>1, <1>3, <2>1 DEF Calm, Still
  <2>3. Entered
    BY <1>0, <1>4, <2>1 DEF Entered
  <2>4. QED
    BY <2>2, <2>3, Entry
<1>5. CASE aio.pc # "idle"
  <2> DEFINE N == New(at)
  <2>1. /\ aio'.pc = aio.pc /\ aio'.p = aio.p /\ aio'.tr = aio.tr /\ aio' \in AioRec
        /\ aio'.late = aio.late \cup N \/ (aio.pc = "check" /\ aio' = aio)
        /\ aio'.todo = aio.todo \/ (aio.pc \in {"optimal", "any"} /\ aio'.todo = aio.todo \cup N)
    <3>1. aio \in AioRec
      BY DEF IInv, AioSound
    <3>2. N \subseteq Addrs
      BY <1>1, <1>3
    <3>3. CASE aio' = [aio EXCEPT !.late = @ \cup N]
      <4> HIDE DEF N
      <4>1. QED
        BY <3>1, <3>2, <3>3 DEF AioRec
    <3>4. CASE aio.pc \in {"optimal", "any"} /\ aio' = [aio EXCEPT !.todo = @ \cup N, !.late = @ \cup N]
      <4> HIDE DEF N
      <4>1. QED
        BY <3>1, <3>2, <3>4 DEF AioRec
    <3>5. CASE aio.pc = "check" /\ aio' = aio
      BY <3>1, <3>5
    <3>6. QED
      BY <1>0, <1>5, <3>3, <3>4, <3>5
  <2>2. \A a \in N : blk'[a].list = "waiting"
    BY <1>1, <1>3
  <2>3. \A a \in Addrs : a \notin N => blk'[a] = blk[a]
    BY <1>1 DEF Enqueue
  <2> HIDE DEF N
  <2>4. Tidy'
    BY <1>1, <2>1 DEF IInv, Tidy, Held
  <2>5. aio.todo \subseteq Addrs
    BY DEF IInv, AioSound, AioRec
  <2>6. AioSound'
    BY <1>1, <1>3, <1>5, <2>1, <2>2, <2>5 DEF IInv, AioSound
  <2>7. Passed'
    <3> SUFFICES ASSUME NEW a \in Addrs, blk'[a].list = "waiting", a \notin aio'.late,
                        (aio'.pc = "optimal" /\ a \notin aio'.todo) \/ aio'.pc \in {"any", "finish"}
                 PROVE  Served(peer', bad', aio', blk'[a].name[1])
      BY DEF Passed
    <3>1. a \notin N /\ a \notin aio.late /\ blk'[a] = blk[a] /\ (a \in aio.todo => a \in aio'.todo)
      BY <2>1, <2>3
    <3>2. Served(peer, bad, aio, blk[a].name[1])
      BY <2>1, <3>1 DEF IInv, Passed
    <3>3. QED
      BY <1>1, <2>1, <3>1, <3>2 DEF Served, Held
  <2>8. QED
    BY <1>3, <2>4, <2>6, <2>7 DEF IInv
<1>6. QED
  BY <1>4, <1>5

LEMMA HashDoneInv ==
  ASSUME IInv, NEW i \in Pieces, NEW ok \in BOOLEAN, HashDone(i, ok)
  PROVE  IInv'
<1>1. Base /\ UNCHANGED <<peer, blk, outstanding, aio>> /\ OthersRun /\ piece[i] = "complete"
  BY DEF HashDone, IInv
<1>2. /\ piece' \in [Pieces -> PieceState] /\ piece'[i] # "fetch"
      /\ \A j \in Pieces : j # i => piece'[j] = piece[j]
  BY <1>1 DEF HashDone, Base, PieceState
<1>3. Fetched(piece', blk')
  BY <1>1, <1>2 DEF Base, Fetched
<1>4. contrib' \subseteq Peers \X Pieces /\ bad' \subseteq contrib'
  <2>1. contrib \subseteq Peers \X Pieces /\ bad \subseteq contrib
    BY <1>1 DEF Base
  <2>2. CASE ok
    BY <2>1, <2>2 DEF HashDone, Of
  <2>3. CASE ~ok
    BY <2>1, <2>3 DEF HashDone, Of
  <2>4. QED
    BY <2>2, <2>3
<1>5. Base'
  <2>1. Busy(peer') = Busy(peer)
    BY <1>1 DEF Busy
  <2>2. QED
    BY <1>1, <1>2, <1>3, <1>4, <2>1 DEF Base
<1>6. Tidy' /\ AioSound'
  BY <1>1 DEF IInv, Tidy, AioSound
<1>7. Passed'
  <2> SUFFICES ASSUME NEW a \in Addrs, blk[a].list = "waiting", a \notin aio.late,
                      (aio.pc = "optimal" /\ a \notin aio.todo) \/ aio.pc \in {"any", "finish"}
               PROVE  Served(peer, bad', aio, blk[a].name[1])
    BY <1>1 DEF Passed
  <2> DEFINE j == blk[a].name[1]
  <2>1. Served(peer, bad, aio, j)
    BY DEF IInv, Passed
  <2>2. j # i
    BY <1>1 DEF Base, Fetched
  <2> HIDE DEF j
  <2>3. \A q \in Peers : <<q, j>> \in bad' <=> <<q, j>> \in bad
    BY <2>2 DEF HashDone, Of
  <2>4. Able(peer, bad', j) = Able(peer, bad, j)
    BY <2>3 DEF Able
  <2>5. QED
    BY <2>1, <2>4 DEF Served, j
<1>8. QED
  BY <1>5, <1>6, <1>7 DEF IInv

LEMMA NewPeerIs == Sound(NewPeer) /\ NewPeer.requests = {} /\ NewPeer \in PeerRec
<1>1. IsFiniteSet({}) /\ Cardinality({}) = 0
  BY FS_EmptySet
<1>2. /\ NewPeer.running = FALSE /\ NewPeer.choking = TRUE /\ NewPeer.delay = 0 /\ NewPeer.maxq = 0
      /\ NewPeer.active = 0 /\ NewPeer.requests = {} /\ NewPeer \in PeerRec
  BY Limits DEF NewPeer, PeerRec
<1> HIDE DEF NewPeer
<1>3. QED
  BY <1>1, <1>2 DEF Sound

\* No peers' requests, no blocks, no pieces.
LEMMA EmptyIs ==
  ASSUME peer = [p \in Peers |-> NewPeer], blk = [a \in Addrs |-> FreeBlock],
         piece = [i \in Pieces |-> "none"], contrib = {}, bad = {}
  PROVE  Busy(peer) = {} /\ (outstanding = 0 => Calm)
<1>1. /\ peer \in [Peers -> PeerRec] /\ \A p \in Peers : Sound(peer[p]) /\ peer[p].requests = {}
      /\ blk \in [Addrs -> BlockRec] /\ \A a \in Addrs : blk[a].list = "free"
  BY NewPeerIs, FreeIs
<1>2. Busy(peer) = {} /\ Cardinality({}) = 0
  BY <1>1, FS_EmptySet DEF Busy
<1>3. \A p \in Peers : OnSent(peer[p], blk) /\ Loose(peer[p]) = {}
  BY <1>1 DEF OnSent, Loose
<1>4. Fetched(piece, blk) /\ piece \in [Pieces -> PieceState]
  BY <1>1 DEF Fetched, PieceState
<1>5. outstanding = 0 => Base
  BY <1>1, <1>2, <1>3, <1>4 DEF Base
<1>6. QED
  BY <1>2, <1>3, <1>5 DEF Calm, Still

LEMMA DestroyInv ==
  ASSUME IInv, Destroy
  PROVE  IInv'
<1>1. Calm /\ aio = IdleAio
  BY IdleIs DEF Destroy
<1>2. /\ peer' = [p \in Peers |-> NewPeer] /\ blk' = [a \in Addrs |-> FreeBlock]
      /\ piece' = [i \in Pieces |-> "none"] /\ contrib' = {} /\ bad' = {} /\ aio' = aio
      /\ PeersBecome([p \in Peers |-> NewPeer])
  BY DEF Destroy, PeersBecome
<1>3. (/\ peer = [p \in Peers |-> NewPeer] /\ blk = [a \in Addrs |-> FreeBlock]
       /\ piece = [i \in Pieces |-> "none"] /\ contrib = {} /\ bad = {}
       => Busy(peer) = {} /\ (outstanding = 0 => Calm))'
  BY EmptyIs, PTL
<1>4. outstanding' = Cardinality(Busy(peer'))
  BY <1>1, <1>2, BusyCount DEF Calm, Base
<1>5. Busy(peer') = {} /\ (outstanding' = 0 => Calm')
  BY <1>2, <1>3
<1>6. outstanding' = 0
  BY <1>4, <1>5, FS_EmptySet
<1>7. QED
  BY <1>1, <1>2, <1>5, <1>6, Entry DEF Entered

-----------------------------------------------------------------------------
(* torrent_io_do_requests.                                                  *)

\* The peers are those there were, with requests for block a besides their own.
Grown(pm, a) ==
    \A q \in Peers :
        /\ pm[q].choking = peer[q].choking /\ pm[q].have = peer[q].have /\ pm[q].maxq = peer[q].maxq
        /\ peer[q].requests \subseteq pm[q].requests
        /\ \A u \in pm[q].requests : u \in peer[q].requests \/
              (u.block = a /\ u.linked = TRUE /\ u.name = blk[a].name)

\* add_request: a request that points at the block already is what prevents another.
LEMMA AddedIs ==
  ASSUME Base, NEW a \in Addrs, NEW p \in Peers, peer[p].choking = FALSE, peer[p].active < peer[p].maxq,
         peer[p].delay = 0 => peer[p].active = 0, AtOf(peer[p], a) = {}
  PROVE  /\ Added(a, p) \in [Peers -> PeerRec] /\ Grown(Added(a, p), a)
         /\ \A q \in Peers : Sound(Added(a, p)[q]) /\ Added(a, p)[q].delay = peer[q].delay
         /\ (\A tr \in peer[p].requests : tr.block # a) => AtOf(Added(a, p)[p], a) # {}
<1> DEFINE A == Added(a, p)
           u == Request(blk[a].name, a, peer[p].active)
           R == Asked(peer[p], u)
<1>1. /\ peer \in [Peers -> PeerRec] /\ \A q \in Peers : Sound(peer[q])
      /\ blk \in [Addrs -> BlockRec]
  BY DEF Base
<1>2. CASE \E tr \in peer[p].requests : tr.block = a
  <2>1. A = peer
    BY <1>2 DEF Added
  <2> HIDE DEF A
  <2>2. Grown(A, a)
    BY <2>1 DEF Grown
  <2>3. QED
    BY <1>1, <1>2, <2>1, <2>2 DEF A
<1>3. CASE \A tr \in peer[p].requests : tr.block # a
  <2>1. A = [peer EXCEPT ![p] = R]
    <3>1. ~\E tr \in peer[p].requests : tr.block = a
      BY <1>3
    <3>2. QED
      BY <1>1, <3>1 DEF Added, Asked, Request
  <2>2. blk[a].name \in Names
    BY <1>1 DEF BlockRec
  <2>3. /\ u.name = blk[a].name /\ u.block = a /\ u.linked = TRUE
        /\ Sound(R) /\ R.choking = peer[p].choking /\ R.have = peer[p].have
        /\ R.delay = peer[p].delay /\ R.maxq = peer[p].maxq /\ R.requests = peer[p].requests \cup {u}
    <3> DEFINE rec == peer[p]
               nm == blk[a].name
    <3>1. Sound(rec) /\ Askable(rec, a) /\ nm \in Names
      BY <1>1, <1>3, <2>2 DEF Askable
    <3> HIDE DEF rec, nm
    <3>2. Extended(rec, Request(nm, a, rec.active), Asked(rec, Request(nm, a, rec.active)), nm, a)
      BY <3>1, AddIs
    <3>3. QED
      BY <3>2 DEF rec, nm, Extended
  <2> HIDE DEF A, R, u
  <2>4. A \in [Peers -> PeerRec] /\ A[p] = R /\ \A q \in Peers : q # p => A[q] = peer[q]
    BY <1>1, <2>1, <2>3 DEF Sound
  <2>5. Grown(A, a)
    <3> SUFFICES ASSUME NEW q \in Peers
                 PROVE  /\ A[q].choking = peer[q].choking /\ A[q].have = peer[q].have
                        /\ A[q].maxq = peer[q].maxq /\ peer[q].requests \subseteq A[q].requests
                        /\ \A v \in A[q].requests : v \in peer[q].requests \/
                              (v.block = a /\ v.linked = TRUE /\ v.name = blk[a].name)
      BY DEF Grown
    <3>1. CASE q = p
      BY <2>3, <2>4, <3>1
    <3>2. CASE q # p
      BY <2>4, <3>2
    <3>3. QED
      BY <3>1, <3>2
  <2>6. \A q \in Peers : Sound(A[q]) /\ A[q].delay = peer[q].delay
    BY <1>1, <2>3, <2>4
  <2>7. u \in AtOf(A[p], a)
    BY <2>3, <2>4 DEF AtOf
  <2>8. QED
    BY <2>4, <2>5, <2>6, <2>7 DEF A
<1>4. QED
  BY <1>2, <1>3

LEMMA ServedGrows ==
  ASSUME NEW pm, NEW a, Grown(pm, a), NEW x, NEW i, Served(peer, bad, x, i)
  PROVE  Served(pm, bad, x, i)
<1>1. Able(pm, bad, i) = Able(peer, bad, i)
  BY DEF Able, Grown
<1>2. \A p \in Peers : peer[p].requests \ Held(x, p) # {} => pm[p].requests \ Held(x, p) # {}
  BY DEF Grown
<1>3. \A p \in Able(peer, bad, i) : p \in Peers
  BY DEF Able
<1>4. QED
  BY <1>1, <1>2, <1>3 DEF Served

\* Somebody is asked for block a of the ones torrent_io_do_requests goes through.
LEMMA GrownInv ==
  ASSUME IInv, aio.pc \in {"check", "optimal", "any"}, NEW a \in aio.todo, Grown(peer', a),
         peer' \in [Peers -> PeerRec], outstanding' = Cardinality(Busy(peer')),
         \A q \in Peers : Sound(peer'[q]) /\ peer'[q].delay >= peer[q].delay,
         blk' = [blk EXCEPT ![a].list = "sent"], UNCHANGED <<piece, contrib, bad>>,
         aio' = [aio EXCEPT !.todo = @ \ {a}]
  PROVE  IInv'
<1>1. /\ Base /\ Tidy /\ AioSound /\ aio \in AioRec /\ aio.todo \subseteq Addrs /\ a \in Addrs
      /\ blk \in [Addrs -> BlockRec] /\ blk[a].list # "free"
  BY DEF IInv, AioSound, AioRec, Base
<1>2. /\ blk' \in [Addrs -> BlockRec] /\ blk'[a].list = "sent" /\ blk'[a].name = blk[a].name
      /\ \A b \in Addrs : b # a => blk'[b] = blk[b]
  BY <1>1 DEF BlockRec
<1>3. /\ aio' \in AioRec /\ aio'.pc = aio.pc /\ aio'.todo = aio.todo \ {a}
      /\ aio'.p = aio.p /\ aio'.tr = aio.tr /\ aio'.late = aio.late
  BY <1>1 DEF AioRec
<1>4. \A q \in Peers : OnSent(peer'[q], blk')
  <2> SUFFICES ASSUME NEW q \in Peers, NEW u \in peer'[q].requests, u.linked
               PROVE  u.block \in Addrs /\ blk'[u.block].list = "sent" /\ blk'[u.block].name = u.name
    BY DEF OnSent
  <2>1. CASE u \in peer[q].requests
    BY <1>1, <1>2, <2>1 DEF Base, OnSent
  <2>2. CASE u.block = a /\ u.name = blk[a].name
    BY <1>1, <1>2, <2>2
  <2>3. QED
    BY <2>1, <2>2 DEF Grown
<1>5. Fetched(piece', blk')
  <2>1. \A b \in Addrs : (blk'[b].list # "free" <=> blk[b].list # "free") /\ blk'[b].name = blk[b].name
    BY <1>1, <1>2
  <2>2. QED
    BY <1>1, <2>1 DEF Base, Fetched
<1>6. Base'
  BY <1>1, <1>2, <1>4, <1>5 DEF Base
<1>7. Tidy'
  <2>1. \A q \in Peers : Loose(peer'[q]) \subseteq Loose(peer[q])
    BY DEF Grown, Loose
  <2>2. \A q \in Peers : Held(aio', q) = Held(aio, q)
    BY <1>3 DEF Held
  <2>3. QED
    BY <1>1, <2>1, <2>2 DEF Tidy
<1>8. AioSound'
  <2>1. /\ aio'.pc = "check" => \A b \in aio'.todo : blk'[b].list = "sent"
        /\ aio'.pc \in {"optimal", "any"} => \A b \in aio'.todo : blk'[b].list = "waiting"
    BY <1>1, <1>2, <1>3 DEF AioSound
  <2>2. ASSUME aio.p # Null
        PROVE  /\ aio.tr \in peer'[aio.p].requests /\ aio.tr.block # Null /\ aio.tr.linked = FALSE
               /\ peer'[aio.p].delay # 0 /\ peer'[aio.p].maxq = MaxQ
    <3>1. aio.p \in Peers
      BY <1>1, <2>2 DEF AioRec
    <3>2. /\ aio.tr \in peer[aio.p].requests /\ aio.tr.block # Null /\ aio.tr.linked = FALSE
          /\ peer[aio.p].delay # 0 /\ peer[aio.p].maxq = MaxQ
      BY <1>1, <2>2 DEF AioSound
    <3>3. peer[aio.p].delay \in Nat /\ peer'[aio.p].delay \in Nat /\ peer'[aio.p].delay >= peer[aio.p].delay
      BY <1>1, <3>1, Limits, Fields DEF Base
    <3>4. QED
      BY <3>1, <3>2, <3>3 DEF Grown
  <2>3. QED
    BY <1>3, <2>1, <2>2 DEF AioSound
<1>9. Passed'
  <2> SUFFICES ASSUME NEW b \in Addrs, blk'[b].list = "waiting", b \notin aio'.late,
                      (aio'.pc = "optimal" /\ b \notin aio'.todo) \/ aio'.pc \in {"any", "finish"}
               PROVE  Served(peer', bad', aio', blk'[b].name[1])
    BY DEF Passed
  <2>1. b # a /\ blk'[b] = blk[b]
    BY <1>2
  <2>2. Served(peer, bad, aio, blk[b].name[1])
    BY <1>3, <2>1 DEF IInv, Passed
  <2>3. Served(peer', bad, aio, blk[b].name[1])
    BY <2>2, ServedGrows
  <2>4. QED
    BY <1>3, <2>1, <2>3 DEF Served, Held
<1>10. QED
  BY <1>6, <1>7, <1>8, <1>9 DEF IInv

LEMMA DuplicateInv ==
  ASSUME IInv, NEW a \in Addrs, NEW cur \in Peers, NEW p \in Peers, NEW d \in 0 .. MaxDelay,
         Duplicate(a, cur, p, d)
  PROVE  IInv'
<1> DEFINE A == Added(a, p)
           R == [A[cur] EXCEPT !.delay = d]
<1>1. Base /\ aio.pc = "check" /\ a \in aio.todo /\ blk[a].list = "sent" /\ blk \in [Addrs -> BlockRec]
  BY DEF IInv, AioSound, Duplicate, Base
<1>2. \A q \in Peers : Sound(peer[q]) /\ peer[q] \in PeerRec /\ peer[q].active \in Int /\ peer[q].delay \in Nat
  BY <1>1, Limits, Fields DEF Base, Sound
<1>3. /\ peer[p].choking = FALSE /\ peer[p].active < peer[p].maxq /\ peer[p].delay # 0
      /\ AtOf(peer[p], a) = {}
  <2>1. peer[p].choking \in BOOLEAN
    BY <1>2, Fields
  <2>2. QED
    BY <2>1 DEF Duplicate, Faster, Having, At, AtOf
<1>4. /\ A \in [Peers -> PeerRec] /\ Grown(A, a)
      /\ \A q \in Peers : Sound(A[q]) /\ A[q].delay = peer[q].delay
  BY <1>1, <1>3, AddedIs
<1>5. /\ PeersBecome([A EXCEPT ![cur].delay = d]) /\ d >= peer[cur].delay /\ AtOf(peer[cur], a) # {}
      /\ aio' = [aio EXCEPT !.todo = @ \ {a}] /\ UNCHANGED <<blk, piece, contrib, bad>>
  BY DEF Duplicate, At, AtOf
<1> HIDE DEF A
<1>6. A[cur].delay = 0 => A[cur].active <= 1 /\ A[cur].maxq <= 1
  BY <1>4 DEF Sound
<1>7. Sound(R) /\ R.delay = d /\ R.choking = A[cur].choking /\ R.have = A[cur].have
      /\ R.maxq = A[cur].maxq /\ R.requests = A[cur].requests
  <2>1. /\ R \in PeerRec /\ R.delay = d /\ R.choking = A[cur].choking /\ R.have = A[cur].have
        /\ R.maxq = A[cur].maxq /\ R.requests = A[cur].requests /\ R.active = A[cur].active
        /\ R.running = A[cur].running
    BY <1>4 DEF PeerRec
  <2>2. d = 0 => A[cur].delay = 0
    BY <1>2, <1>4, <1>5
  <2> HIDE DEF R
  <2>3. QED
    BY <1>4, <1>6, <2>1, <2>2 DEF Sound
<1> HIDE DEF R
<1>8. peer' = [A EXCEPT ![cur] = R]
  BY <1>4, <1>5 DEF PeersBecome, R
<1>9. /\ peer' \in [Peers -> PeerRec] /\ peer'[cur] = R /\ \A q \in Peers : q # cur => peer'[q] = A[q]
  BY <1>4, <1>7, <1>8 DEF Sound
<1>10. Grown(peer', a)
  <2> SUFFICES ASSUME NEW q \in Peers
               PROVE  /\ peer'[q].choking = peer[q].choking /\ peer'[q].have = peer[q].have
                      /\ peer'[q].maxq = peer[q].maxq /\ peer[q].requests \subseteq peer'[q].requests
                      /\ \A v \in peer'[q].requests : v \in peer[q].requests \/
                            (v.block = a /\ v.linked = TRUE /\ v.name = blk[a].name)
    BY DEF Grown
  <2>1. /\ peer'[q].choking = A[q].choking /\ peer'[q].have = A[q].have
        /\ peer'[q].maxq = A[q].maxq /\ peer'[q].requests = A[q].requests
    BY <1>7, <1>9
  <2>2. QED
    BY <1>4, <2>1 DEF Grown
<1>11. \A q \in Peers : Sound(peer'[q]) /\ peer'[q].delay >= peer[q].delay
  <2> TAKE q \in Peers
  <2>1. CASE q = cur
    BY <1>5, <1>7, <1>9, <2>1
  <2>2. CASE q # cur
    BY <1>2, <1>4, <1>9, <2>2
  <2>3. QED
    BY <2>1, <2>2
<1>12. outstanding' = Cardinality(Busy(peer'))
  <2> DEFINE pm == [A EXCEPT ![cur].delay = d]
  <2>1. outstanding = Cardinality(Busy(peer)) /\ PeersBecome(pm)
    BY <1>1, <1>5 DEF Base
  <2> HIDE DEF pm
  <2>2. QED
    BY <2>1, BusyCount
<1>13. blk' = [blk EXCEPT ![a].list = "sent"]
  BY <1>1, <1>5 DEF BlockRec
<1>14. QED
  BY <1>1, <1>5, <1>9, <1>10, <1>11, <1>12, <1>13, GrownInv

LEMMA ServeWaitingInv ==
  ASSUME IInv, NEW a \in Addrs, NEW p \in Peers, ServeWaiting(a, p)
  PROVE  IInv'
<1> DEFINE A == Added(a, p)
<1>1. /\ Base /\ Tidy /\ AioSound /\ aio.pc \in {"optimal", "any"} /\ a \in aio.todo /\ blk[a].list = "waiting"
  BY DEF IInv, AioSound, ServeWaiting
<1>2. \A q \in Peers : Sound(peer[q]) /\ peer[q] \in PeerRec /\ peer[q].active \in Nat /\ peer[q].delay \in Nat
  <2>1. \A q \in Peers : Sound(peer[q]) /\ peer[q] \in PeerRec /\ peer[q].delay \in Nat
    BY <1>1, Limits, Fields DEF Base, Sound
  <2>2. \A q \in Peers : peer[q].active \in Nat
    BY <2>1, FS_CardinalityType DEF Sound
  <2>3. QED
    BY <2>1, <2>2
<1>3. peer[p].choking = FALSE /\ peer[p].active < peer[p].maxq /\ (peer[p].delay = 0 => peer[p].active = 0)
  <2> DEFINE i == PieceOf(a)
  <2>1. p \in MayAsk(i)
    BY DEF ServeWaiting
  <2>2. \A q \in Eligible(i) : q \in Peers /\ peer[q].choking = FALSE
    <3>1. \A q \in Peers : peer[q].choking \in BOOLEAN
      BY <1>2, Fields
    <3>2. QED
      BY <3>1 DEF Eligible, Having
  <2>3. CASE aio.pc = "optimal"
    <3>1. p \in Optimal(i) /\ peer[p].active < peer[p].maxq
      BY <2>1, <2>3 DEF MayAsk
    <3>2. p \in Eligible(i) /\ (peer[p].delay = 0 => peer[p].active = 0)
      BY <3>1 DEF Optimal
    <3>3. QED
      BY <2>2, <3>1, <3>2
  <2>4. CASE aio.pc = "any"
    <3>1. p \in Eligible(i) /\ peer[p].active < peer[p].maxq \div 2
      BY <2>1, <2>4 DEF MayAsk, AnyPeer
    <3>2. peer[p].maxq \in Nat
      BY <1>2, Fields, Limits
    <3>3. \A m \in Nat : m \div 2 <= m /\ (m <= 1 => m \div 2 <= 0) /\ m \div 2 \in Int
      OBVIOUS
    <3>4. peer[p].active < peer[p].maxq
      BY <1>2, <3>1, <3>2, <3>3
    <3>5. peer[p].maxq > 1
      BY <1>2, <3>1, <3>2, <3>3
    <3>6. peer[p].delay # 0
      BY <1>2, <3>2, <3>5 DEF Sound
    <3>7. QED
      BY <2>2, <3>1, <3>4, <3>6
  <2>5. QED
    BY <1>1, <2>3, <2>4
<1>4. AtOf(peer[p], a) = {}
  BY <1>1 DEF Base, OnSent, AtOf
<1>5. /\ A \in [Peers -> PeerRec] /\ Grown(A, a)
      /\ \A q \in Peers : Sound(A[q]) /\ A[q].delay = peer[q].delay
      /\ (\A tr \in peer[p].requests : tr.block # a) => AtOf(A[p], a) # {}
  BY <1>1, <1>3, <1>4, AddedIs
<1>6. PeersBecome(A) /\ blk' = [blk EXCEPT ![a].list = "sent"] /\ UNCHANGED <<piece, contrib, bad>>
      /\ aio' = [aio EXCEPT !.todo = @ \ {a}]
  BY DEF ServeWaiting
<1> HIDE DEF A
<1>7. peer' = A /\ outstanding' = Cardinality(Busy(peer'))
  BY <1>1, <1>6, BusyCount DEF Base, PeersBecome
<1>8. \A q \in Peers : Sound(peer'[q]) /\ peer'[q].delay >= peer[q].delay
  BY <1>2, <1>5, <1>7
<1>9. QED
  BY <1>1, <1>5, <1>6, <1>7, <1>8, GrownInv

\* Only the thread's place changes: its blocks must fit.
LEMMA OnlyAio ==
  ASSUME IInv, UNCHANGED <<peer, blk, piece, contrib, bad, outstanding>>, aio' \in AioRec,
         aio'.p = aio.p, aio'.tr = aio.tr, aio'.pc \in {"optimal", "any", "finish"},
         aio'.pc \in {"optimal", "any"} => \A a \in aio'.todo : blk[a].list = "waiting",
         Passed'
  PROVE  IInv'
<1>1. Base' 
  <2>1. Busy(peer') = Busy(peer)
    BY DEF Busy
  <2>2. QED
    BY <2>1 DEF IInv, Base
<1>2. Tidy'
  <2>1. \A p \in Peers : Held(aio', p) = Held(aio, p)
    BY DEF Held
  <2>2. QED
    BY <2>1 DEF IInv, Tidy
<1>3. AioSound'
  BY DEF IInv, AioSound
<1>4. QED
  BY <1>1, <1>2, <1>3 DEF IInv

LEMMA CheckEndInv ==
  ASSUME IInv, CheckEnd
  PROVE  IInv'
<1>1. /\ UNCHANGED <<peer, blk, piece, contrib, bad, outstanding>>
      /\ aio' = [aio EXCEPT !.pc = "optimal", !.todo = Waiting]
  BY DEF CheckEnd
<1>2. /\ aio' \in AioRec /\ aio'.p = aio.p /\ aio'.tr = aio.tr /\ aio'.pc = "optimal" /\ aio'.todo = Waiting
  <2>1. aio \in AioRec /\ Waiting \subseteq Addrs
    BY DEF IInv, AioSound, Waiting
  <2>2. QED
    BY <1>1, <2>1 DEF AioRec, AioPc
<1>3. Passed'
  BY <1>1, <1>2 DEF Passed, Waiting
<1>4. \A a \in aio'.todo : blk[a].list = "waiting"
  BY <1>2 DEF Waiting
<1>5. QED
  BY <1>1, <1>2, <1>3, <1>4, OnlyAio

LEMMA RoundEndInv ==
  ASSUME IInv, RoundEnd
  PROVE  IInv'
<1>1. /\ UNCHANGED <<peer, blk, piece, contrib, bad, outstanding>> /\ aio.todo = {} /\ aio.pc \in {"optimal", "any"}
      /\ aio' = IF aio.pc = "optimal" THEN [aio EXCEPT !.pc = "any", !.todo = Waiting]
                ELSE [aio EXCEPT !.pc = "finish"]
  BY DEF RoundEnd
<1>2. aio \in AioRec /\ Waiting \subseteq Addrs
  BY DEF IInv, AioSound, Waiting
<1>3. /\ aio' \in AioRec /\ aio'.p = aio.p /\ aio'.tr = aio.tr /\ aio'.pc \in {"any", "finish"}
      /\ aio'.late = aio.late
      /\ aio'.pc = "any" => aio'.todo = Waiting
  <2>1. CASE aio.pc = "optimal"
    BY <1>1, <1>2, <2>1 DEF AioRec, AioPc
  <2>2. CASE aio.pc # "optimal"
    BY <1>1, <1>2, <2>2 DEF AioRec, AioPc
  <2>3. QED
    BY <2>1, <2>2
<1>4. Passed'
  <2> SUFFICES ASSUME NEW a \in Addrs, blk[a].list = "waiting", a \notin aio.late
               PROVE  Served(peer', bad', aio', blk'[a].name[1])
    BY <1>1, <1>3 DEF Passed
  <2>1. Served(peer, bad, aio, blk[a].name[1])
    BY <1>1 DEF IInv, Passed
  <2>2. QED
    BY <1>1, <1>3, <2>1 DEF Served, Held
<1>5. aio'.pc \in {"optimal", "any"} => \A a \in aio'.todo : blk[a].list = "waiting"
  BY <1>3 DEF Waiting
<1>6. aio'.pc \in {"optimal", "any", "finish"}
  BY <1>3
<1>7. QED
  BY <1>1, <1>3, <1>4, <1>5, <1>6, OnlyAio

\* find_optimal_peer finds nobody, or one with a full queue, only if some peer that can
\* deliver the piece has something to do: of the peers whose delay is known one is the
\* fastest, and a peer of unknown delay is passed over only when it has a request.
LEMMA BreakServed ==
  ASSUME IInv, aio.pc = "optimal", NEW i, MayBreak(i)
  PROVE  Served(peer, bad, aio, i)
<1>1. \A q \in Peers : /\ Sound(peer[q]) /\ peer[q] \in PeerRec /\ peer[q].active \in Nat /\ peer[q].delay \in Nat
                       /\ peer[q].choking \in BOOLEAN /\ peer[q].maxq \in Nat
                       /\ IsFiniteSet(peer[q].requests) /\ peer[q].active = Cardinality(peer[q].requests)
  <2>1. \A q \in Peers : /\ Sound(peer[q]) /\ peer[q] \in PeerRec /\ peer[q].delay \in Nat
                         /\ peer[q].choking \in BOOLEAN /\ peer[q].maxq \in Nat
    BY Limits, Fields DEF IInv, Base, Sound
  <2>2. \A q \in Peers : /\ IsFiniteSet(peer[q].requests) /\ peer[q].active = Cardinality(peer[q].requests)
                         /\ peer[q].active \in Nat
    BY <2>1, FS_CardinalityType DEF Sound
  <2>3. QED
    BY <2>1, <2>2
<1>2. Able(peer, bad, i) = Eligible(i) /\ Eligible(i) \subseteq Peers
  BY <1>1 DEF Able, Eligible, Having
<1>3. \A q \in Peers : peer[q].active >= 1 => peer[q].requests # {}
  BY <1>1, FS_EmptySet
<1>4. ASSUME NEW p \in Eligible(i), peer[p].active >= 1, p # aio.p
      PROVE  Served(peer, bad, aio, i)
  BY <1>2, <1>3, <1>4 DEF Served, Held
<1>5. aio.p # Null => aio.p \in Peers /\ peer[aio.p].delay # 0 /\ peer[aio.p].maxq = MaxQ
  BY DEF IInv, AioSound, AioRec
<1>6. CASE Optimal(i) = {} /\ Eligible(i) # {}
  <2> DEFINE fresh == {p \in Eligible(i) : peer[p].delay = 0 /\ peer[p].active = 0}
             known == {p \in Eligible(i) : peer[p].delay # 0}
  <2>1. fresh = {} /\ {p \in known : \A q \in known : peer[p].delay <= peer[q].delay} = {}
    BY <1>6 DEF Optimal
  <2>2. known = {}
    <3> SUFFICES ASSUME known # {}
                 PROVE  FALSE
      OBVIOUS
    <3> DEFINE T == {peer[p].delay : p \in known}
    <3>1. T \subseteq Nat /\ T # {}
      BY <1>1, <1>2
    <3>2. PICK n \in T : \A m \in T : n <= m
      <4> HIDE DEF T
      <4>1. QED
        BY <3>1, LeastNatural
    <3>3. PICK p \in known : peer[p].delay = n
      BY <3>2
    <3>4. \A q \in known : peer[p].delay <= peer[q].delay
      BY <3>2, <3>3
    <3>5. QED
      BY <2>1, <3>3, <3>4
  <2>3. PICK p \in Eligible(i) : TRUE
    BY <1>6
  <2>4. peer[p].delay = 0 /\ peer[p].active # 0
    BY <2>1, <2>2, <2>3
  <2>5. p \in Peers /\ p # aio.p /\ peer[p].active >= 1
    BY <1>1, <1>2, <1>5, <2>4, Limits
  <2>6. QED
    BY <1>4, <2>5
<1>7. CASE \E p \in Optimal(i) : peer[p].active >= peer[p].maxq
  <2>1. PICK p \in Optimal(i) : peer[p].active >= peer[p].maxq
    BY <1>7
  <2>2. p \in Eligible(i) /\ p \in Peers /\ peer[p].choking = FALSE
    BY <1>1, <1>2, <2>1 DEF Optimal, Eligible, Having
  <2>3. peer[p].maxq >= 1 /\ peer[p].active >= 1
    BY <1>1, <2>1, <2>2 DEF Sound
  <2>4. CASE p # aio.p
    BY <1>4, <2>2, <2>3, <2>4
  <2>5. CASE p = aio.p
    <3> DEFINE S == peer[p].requests
    <3>1. Cardinality(S) >= 2 /\ Cardinality(S) \in Nat /\ IsFiniteSet(S)
      BY <1>1, <1>5, <2>1, <2>2, <2>5, Limits
    <3>2. aio.tr \in S
      BY <2>2, <2>5, Limits DEF IInv, AioSound
    <3> HIDE DEF S
    <3>3. Cardinality(S \ {aio.tr}) = Cardinality(S) - 1
      BY <3>1, <3>2, FS_RemoveElement
    <3>4. S \ {aio.tr} # {}
      <4>1. Cardinality({}) = 0
        BY FS_EmptySet
      <4>2. QED
        BY <3>1, <3>3, <4>1
    <3>5. QED
      BY <1>2, <2>2, <2>5, <3>4 DEF Served, Held, S
  <2>6. QED
    BY <2>4, <2>5
<1>8. CASE Eligible(i) = {}
  BY <1>2, <1>8 DEF Served
<1>9. QED
  BY <1>6, <1>7, <1>8 DEF MayBreak

LEMMA ServeBreakInv ==
  ASSUME IInv, NEW i \in Pieces, ServeBreak(i)
  PROVE  IInv'
<1>1. /\ UNCHANGED <<peer, blk, piece, contrib, bad, outstanding>> /\ aio.pc \in {"optimal", "any"}
      /\ aio' = [aio EXCEPT !.todo = {a \in @ : PieceOf(a) # i}] /\ MayBreak(i)
  BY DEF ServeBreak
<1>2. aio \in AioRec
  BY DEF IInv, AioSound
<1>3. /\ aio' \in AioRec /\ aio'.p = aio.p /\ aio'.tr = aio.tr /\ aio'.pc = aio.pc
      /\ aio'.late = aio.late /\ aio'.todo = {a \in aio.todo : PieceOf(a) # i}
  BY <1>1, <1>2 DEF AioRec
<1>4. Passed'
  <2> SUFFICES ASSUME NEW a \in Addrs, blk[a].list = "waiting", a \notin aio.late,
                      aio'.pc = "optimal" => a \notin aio'.todo
               PROVE  Served(peer', bad', aio', blk'[a].name[1])
    BY <1>1, <1>3 DEF Passed
  <2>1. Served(peer, bad, aio, blk[a].name[1])
    <3>1. CASE aio.pc = "any" \/ a \notin aio.todo
      BY <1>1, <3>1 DEF IInv, Passed
    <3>2. CASE aio.pc = "optimal" /\ a \in aio.todo
      <4>1. blk[a].name[1] = i
        BY <1>3, <3>2 DEF PieceOf
      <4>2. QED
        BY <1>1, <3>2, <4>1, BreakServed
    <3>3. QED
      BY <1>1, <3>1, <3>2
  <2>2. QED
    BY <1>1, <1>3, <2>1 DEF Served, Held
<1>5. \A a \in aio'.todo : blk[a].list = "waiting"
  BY <1>1, <1>3 DEF IInv, AioSound
<1>6. aio'.pc \in {"optimal", "any", "finish"}
  BY <1>1, <1>3
<1>7. QED
  BY <1>1, <1>3, <1>4, <1>5, <1>6, OnlyAio

LEMMA FinishInv ==
  ASSUME IInv, NEW gone \in SUBSET Pieces, Finish(gone)
  PROVE  IInv'
<1>1. Base /\ Tidy /\ AioSound
  BY DEF IInv
<1>2. /\ aio' = IdleAio /\ blk' = blk /\ gone \subseteq Droppable
      /\ piece' = [i \in Pieces |-> IF i \in gone THEN "none" ELSE piece[i]]
      /\ contrib' = contrib \ Of(gone, contrib) /\ bad' = bad \ Of(gone, bad)
  BY DEF Finish
<1>3. Fetched(piece', blk') /\ piece' \in [Pieces -> PieceState]
  <2>1. piece \in [Pieces -> PieceState] /\ Fetched(piece, blk)
    BY <1>1 DEF Base
  <2>2. \A i \in Pieces : piece'[i] = "fetch" <=> piece[i] = "fetch"
    BY <1>2 DEF Droppable
  <2>3. QED
    BY <1>2, <2>1, <2>2 DEF Fetched, PieceState
<1>4. contrib' \subseteq Peers \X Pieces /\ bad' \subseteq contrib'
  <2>1. contrib \subseteq Peers \X Pieces /\ bad \subseteq contrib
    BY <1>1 DEF Base
  <2>2. QED
    BY <1>2, <2>1 DEF Of
<1>5. /\ peer' \in [Peers -> PeerRec] /\ outstanding' = Cardinality(Busy(peer'))
      /\ \A q \in Peers : /\ Sound(peer'[q]) /\ peer'[q].requests \subseteq peer[q].requests
                          /\ Loose(peer'[q]) = {}
                          /\ \A u \in peer[q].requests : u.linked => u \in peer'[q].requests
  <2>1. CASE aio.p = Null
    <3>1. peer' = peer /\ outstanding' = outstanding
      BY <2>1 DEF Finish
    <3>2. \A q \in Peers : Loose(peer[q]) = {}
      BY <1>1, <2>1, Limits DEF Tidy, Held
    <3>3. Busy(peer') = Busy(peer)
      BY <3>1 DEF Busy
    <3>4. QED
      BY <1>1, <3>1, <3>2, <3>3 DEF Base
  <2>2. CASE aio.p # Null
    <3> DEFINE p == aio.p
               R == Without(peer[p], {aio.tr})
    <3>1. p \in Peers /\ aio.tr \in peer[p].requests /\ aio.tr.linked = FALSE
      BY <1>1, <2>2 DEF AioSound, AioRec
    <3>2. PeersBecome([peer EXCEPT ![p] = R])
      BY <1>1, <2>2 DEF Finish, Base
    <3>3. Sound(R) /\ R.requests = peer[p].requests \ {aio.tr}
      BY <1>1, <3>1, WithoutIs DEF Base
    <3> HIDE DEF R
    <3>4. /\ peer' \in [Peers -> PeerRec] /\ outstanding' = Cardinality(Busy(peer'))
          /\ peer'[p] = R /\ \A q \in Peers : Sound(peer'[q]) /\ (q # p => peer'[q] = peer[q])
      BY <1>1, <3>1, <3>2, <3>3, OnePeer
    <3>5. \A q \in Peers : Loose(peer'[q]) = {}
      BY <1>1, <3>3, <3>4 DEF Tidy, Held, Loose
    <3>6. \A q \in Peers : /\ peer'[q].requests \subseteq peer[q].requests
                           /\ \A u \in peer[q].requests : u.linked => u \in peer'[q].requests
      BY <3>1, <3>3, <3>4
    <3>7. QED
      BY <3>4, <3>5, <3>6
  <2>3. QED
    BY <2>1, <2>2
<1>6. \A q \in Peers : OnSent(peer'[q], blk')
  BY <1>1, <1>2, <1>5 DEF Base, OnSent
<1>7. Base'
  BY <1>1, <1>2, <1>3, <1>4, <1>5, <1>6 DEF Base
<1>8. Calm'
  BY <1>1, <1>5, <1>7 DEF Calm, Still
<1>9. QED
  BY <1>2, <1>8, Entry DEF Entered

-----------------------------------------------------------------------------
(* The theorems.                                                            *)

LEMMA InitInv == Init => IInv
<1> SUFFICES ASSUME Init
             PROVE  IInv
  OBVIOUS
<1>1. Calm /\ aio = IdleAio
  BY EmptyIs DEF Init
<1>2. aio \in AioRec /\ aio.pc = "idle" /\ aio.p = Null
  BY <1>1 DEF IdleAio, AioRec, AioPc, Callers
<1>3. Tidy
  BY <1>1 DEF Calm, Still, Tidy
<1>4. AioSound
  BY <1>1, <1>2 DEF AioSound
<1>5. Passed
  BY <1>2 DEF Passed
<1>6. QED
  BY <1>1, <1>2, <1>3, <1>4, <1>5 DEF IInv, Calm

LEMMA StutterInv ==
  ASSUME IInv, UNCHANGED vars
  PROVE  IInv'
<1>1. Base'
  <2>1. Busy(peer') = Busy(peer)
    BY DEF vars, Busy
  <2>2. QED
    BY <2>1 DEF vars, IInv, Base
<1>2. Tidy' /\ AioSound' /\ Passed'
  BY DEF vars, IInv, Tidy, AioSound, Passed
<1>3. QED
  BY <1>1, <1>2 DEF IInv

LEMMA NextInv == IInv /\ [Next]_vars => IInv'
<1> SUFFICES ASSUME IInv, [Next]_vars
             PROVE  IInv'
  OBVIOUS
<1>1. CASE \E p \in Peers :
             \/ PeerUp(p) \/ RecvUnchoke(p) \/ RecvChoke(p)
             \/ \E destroy \in BOOLEAN : PeerShutdown(p, destroy)
             \/ \E is \in SUBSET Pieces : RecvHave(p, is)
             \/ \E tr \in peer[p].requests :
                  \/ \E d \in 1 .. MaxDelay : RecvPiece(p, tr, d)
                  \/ RecvReject(p, tr)
  <2>1. PICK p \in Peers :
             \/ PeerUp(p) \/ RecvUnchoke(p) \/ RecvChoke(p)
             \/ \E destroy \in BOOLEAN : PeerShutdown(p, destroy)
             \/ \E is \in SUBSET Pieces : RecvHave(p, is)
             \/ \E tr \in peer[p].requests :
                  \/ \E d \in 1 .. MaxDelay : RecvPiece(p, tr, d)
                  \/ RecvReject(p, tr)
    BY <1>1
  <2>2. CASE PeerUp(p) \/ RecvUnchoke(p) \/ RecvChoke(p)
    BY <2>2, PeerUpInv, RecvUnchokeInv, RecvChokeInv
  <2>3. CASE \E destroy \in BOOLEAN : PeerShutdown(p, destroy)
    BY <2>3, PeerShutdownInv
  <2>4. CASE \E is \in SUBSET Pieces : RecvHave(p, is)
    BY <2>4, RecvHaveInv
  <2>5. CASE \E tr \in peer[p].requests :
                  \/ \E d \in 1 .. MaxDelay : RecvPiece(p, tr, d)
                  \/ RecvReject(p, tr)
    BY <2>5, RecvOrphanInv, RecvBlockInv, RecvRejectInv
  <2>6. QED
    BY <2>1, <2>2, <2>3, <2>4, <2>5
<1>2. CASE \E a \in aio.todo, p \in Peers :
             \/ \E cur \in Peers, d \in 0 .. MaxDelay : Duplicate(a, cur, p, d)
             \/ ServeWaiting(a, p)
  <2>1. aio.todo \subseteq Addrs
    BY DEF IInv, AioSound, AioRec
  <2>2. QED
    BY <1>2, <2>1, DuplicateInv, ServeWaitingInv
<1>3. CASE \E i \in Pieces :
             \/ ServeBreak(i)
             \/ ReaderFind(i)
             \/ \E ok \in BOOLEAN : HashDone(i, ok)
  BY <1>3, ServeBreakInv, ReaderFindInv, HashDoneInv
<1>4. CASE CheckEnd \/ RoundEnd \/ Periodic \/ Destroy
  BY <1>4, CheckEndInv, RoundEndInv, PeriodicInv, DestroyInv
<1>5. CASE \E gone \in SUBSET Pieces : Finish(gone)
  BY <1>5, FinishInv
<1>6. CASE CheckPendings
  BY <1>6, CheckPendingsInv
<1>7. CASE UNCHANGED vars
  BY <1>7, StutterInv
<1>8. QED
  BY <1>1, <1>2, <1>3, <1>4, <1>5, <1>6, <1>7 DEF Next

\* The inductive invariant holds, with readers in the middle of torrent_io_do_requests.
THEOREM RequestsInductive == Spec => []IInv
  BY InitInv, NextInv, PTL DEF Spec

LEMMA InvSafe == IInv => RequestsInv
<1> SUFFICES ASSUME IInv
             PROVE  RequestsInv
  OBVIOUS
<1>1. Base /\ aio \in AioRec /\ \A p \in Peers : Sound(peer[p]) /\ OnSent(peer[p], blk)
  BY DEF IInv, AioSound, Base
<1>2. outstanding = Cardinality(Busy(peer)) /\ outstanding \in Int
  <2>1. IsFiniteSet(Busy(peer))
    BY Limits, FS_Subset DEF Busy
  <2>2. Cardinality(Busy(peer)) \in Int
    BY <2>1, FS_CardinalityType
  <2>3. QED
    BY <1>1, <2>2 DEF Base
<1>3. TypeOK
  BY <1>1, <1>2 DEF Base, TypeOK
<1>4. OnlySentRequested
  BY <1>1 DEF OnlySentRequested, OnSent, Sent
<1>5. RequestsAtUnchoked /\ QueueDepthBounded
  BY <1>1 DEF RequestsAtUnchoked, QueueDepthBounded, Sound
<1>6. OneUntilMeasured /\ CountsExact
  BY <1>1, <1>2 DEF OneUntilMeasured, CountsExact, Sound
<1>7. BlocksOfFetched
  <2>1. Waiting \cup Sent = {a \in Addrs : blk[a].list # "free"}
    BY <1>1 DEF Base, BlockRec, Waiting, Sent
  <2>2. QED
    BY <1>1, <2>1 DEF Base, Fetched, BlocksOfFetched, PieceOf
<1>8. QED
  BY <1>3, <1>4, <1>5, <1>6, <1>7 DEF RequestsInv

\* Requests are for sent blocks, at peers that may be asked, within the depth recv_piece
\* indexes by, once until the peer is measured; the counters are exact, and a piece has
\* blocks as long as it is fetched: whatever the peers send and the readers do.
THEOREM RequestsSafe == Spec => []RequestsInv
  BY RequestsInductive, InvSafe, PTL

\* No request points at a freed block, except the one recv_piece is busy with.
THEOREM NothingDangles == Spec => []NoDangling
<1>1. IInv => NoDangling
  BY DEF IInv, Tidy, Loose, Held, NoDangling
<1>2. QED
  BY <1>1, RequestsInductive, PTL

\* torrent_io_do_requests leaves no block it found waiting while every peer that could
\* deliver it has nothing to do, whatever readers enqueue and the hash thread finds corrupt
\* beside it.
THEOREM KeepsBusy == Spec => []NoIdleSwarm
<1>1. IInv => NoIdleSwarm
  <2> SUFFICES ASSUME IInv, aio.pc = "finish", NEW a \in Waiting \ aio.late
               PROVE  Eligible(PieceOf(a)) = {} \/
                      \E p \in Eligible(PieceOf(a)) :
                        peer[p].requests \ (IF p = aio.p THEN {aio.tr} ELSE {}) # {}
    BY DEF NoIdleSwarm
  <2> DEFINE i == PieceOf(a)
  <2>1. Served(peer, bad, aio, i)
    BY DEF IInv, Passed, Waiting, PieceOf
  <2>2. \A q \in Peers : peer[q].choking \in BOOLEAN
    BY Fields DEF IInv, Base
  <2>3. Able(peer, bad, i) = Eligible(i)
    BY <2>2 DEF Able, Eligible, Having
  <2> HIDE DEF i
  <2>4. QED
    BY <2>1, <2>3 DEF Served, Held, i
<1>2. QED
  BY <1>1, RequestsInductive, PTL
=============================================================================
