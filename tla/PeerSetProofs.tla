---------------------------- MODULE PeerSetProofs ----------------------------
(***************************************************************************)
(* Proofs about PeerSet, for any torrents, peers and limits.                *)
(*                                                                         *)
(* What the functions of peer.c do is a function of one torrent and of the  *)
(* global counter; the lemmas are about these functions, and the last part  *)
(* puts the torrents together.                                              *)
(***************************************************************************)
EXTENDS PeerSet, FiniteSetTheorems, TLAPS

\* The subsets of a finite set, and one of them less an element.
LEMMA OneLess ==
  ASSUME NEW S, IsFiniteSet(S), NEW x \in S
  PROVE  /\ IsFiniteSet(S \ {x}) /\ Cardinality(S) \in Nat /\ Cardinality(S \ {x}) \in Nat
         /\ Cardinality(S) = Cardinality(S \ {x}) + 1
  BY FS_RemoveElement, FS_CardinalityType

\* The peers of a torrent with a connection, and all of them.
LinkedIn(T) == {a \in Addrs : T.peer[a].st \in Linked}
Known(T) == {a \in Addrs : T.peer[a].st # "none"}

\* A torrent has its type and no peer failed too often.
Typed(T) == T \in TorrentRec /\ \A a \in Addrs : T.peer[a].fails < GiveUp /\ T.peer[a].discs < GiveUp

\* A peer is once in the queue of its state and in no other, and on the lists it belongs to.
Listed(T) ==
    /\ \A x \in Queues : \A i, j \in 1 .. Len(T.q[x]) : T.q[x][i] = T.q[x][j] => i = j
    /\ \A x \in Queues : \A i \in 1 .. Len(T.q[x]) : T.peer[T.q[x][i]].st = x
    /\ \A a \in Addrs : T.peer[a].st \in Queues =>
          \E i \in 1 .. Len(T.q[T.peer[a].st]) : T.q[T.peer[a].st][i] = a
    /\ T.running = {a \in Addrs : T.peer[a].st = "running"}
    /\ T.unchoked = {a \in T.running : ~T.peer[a].choking}
    /\ \A a \in Addrs : T.peer[a].st # "running" => T.peer[a].choking = TRUE

\* The counters, when the peers of X no longer count as connected.
Counted(T, X) ==
    /\ T.active = Cardinality(LinkedIn(T) \ X) /\ T.active <= MaxTorrent
    /\ T.num = Cardinality(Known(T))

Sound(T) == Typed(T) /\ Listed(T) /\ Counted(T, {})

Waiting(T) == Len(T.q["inactive"]) + Len(T.q["disconnected"]) + Len(T.q["failed"])

\* No slot is wasted, and at most one peer stranded, in a torrent the global limit never
\* denied a connection.
Busy(T) ==
    /\ T.q["inactive"] # <<>> => T.active >= MaxTorrent
    /\ T.active = 0 => Waiting(T) <= 1

\* The connections of all torrents.
Links(tos) == {c \in Torrents \X Addrs : c[2] \in LinkedIn(tos[c[1]])}
LinkSum(tos) == Cardinality(Links(tos))

IInv ==
    /\ DOMAIN to = Torrents /\ to = [t \in Torrents |-> to[t]]
    /\ \A t \in Torrents : Sound(to[t])
    /\ \A t \in Torrents \ capped : Busy(to[t])
    /\ global \in Int /\ NoSlotLeaks
    /\ capped \subseteq Torrents /\ opens \in 0 .. MaxOpens

-----------------------------------------------------------------------------
(* One torrent.                                                             *)

LEMMA Limits ==
  /\ MaxTorrent \in Nat /\ MaxTorrent >= 1 /\ MaxGlobal \in Nat /\ GiveUp \in Nat /\ GiveUp >= 1
  /\ MaxOpens \in Nat
  BY PeerSetConstants

LEMMA FinitePeers ==
  \A S \in SUBSET Addrs : IsFiniteSet(S) /\ Cardinality(S) \in Nat
<1>1. \A S \in SUBSET Addrs : IsFiniteSet(S)
  BY PeerSetConstants, FS_Subset
<1>2. QED
  BY <1>1, FS_CardinalityType

\* Two sets of peers that differ in one peer.
LEMMA OnePeer ==
  ASSUME NEW S \in SUBSET Addrs, NEW T \in SUBSET Addrs, NEW a, S \ {a} = T \ {a}
  PROVE  Cardinality(T) = Cardinality(S) + (IF a \in T THEN 1 ELSE 0) - (IF a \in S THEN 1 ELSE 0)
<1>1. /\ IsFiniteSet(S) /\ Cardinality(S) \in Nat
      /\ IsFiniteSet(T) /\ Cardinality(T) \in Nat
  BY FinitePeers
<1>2. Cardinality(S \ {a}) = IF a \in S THEN Cardinality(S) - 1 ELSE Cardinality(S)
  BY <1>1, FS_RemoveElement
<1>3. Cardinality(T \ {a}) = IF a \in T THEN Cardinality(T) - 1 ELSE Cardinality(T)
  BY <1>1, FS_RemoveElement
<1>4. QED
  BY <1>1, <1>2, <1>3

LEMMA Fields ==
  ASSUME NEW T, Typed(T)
  PROVE  /\ T \in TorrentRec /\ T.open \in BOOLEAN /\ T.peer \in [Addrs -> PeerRec]
         /\ T.q \in [Queues -> Seq(Addrs)] /\ T.running \in SUBSET Addrs
         /\ T.unchoked \in SUBSET Addrs /\ T.active \in Int /\ T.num \in Int
  BY DEF Typed, TorrentRec

LEMMA SameTorrent ==
  ASSUME NEW T \in TorrentRec, NEW R \in TorrentRec, R.open = T.open, R.peer = T.peer, R.q = T.q,
         R.running = T.running, R.unchoked = T.unchoked, R.active = T.active, R.num = T.num
  PROVE  R = T
  BY DEF TorrentRec

LEMMA WaitingIs ==
  ASSUME NEW T, NEW i \in Nat, NEW j \in Nat, NEW k \in Nat,
         Len(T.q["inactive"]) = i, Len(T.q["disconnected"]) = j, Len(T.q["failed"]) = k
  PROVE  Waiting(T) \in Nat /\ Waiting(T) = i + j + k
  BY DEF Waiting

\* peer_connect of a peer that is in no queue.
LEMMA ConnectIs ==
  ASSUME NEW T, Typed(T), NEW a \in Addrs, NEW g \in Int
  PROVE  LET R == Connect(T, g, a).T IN
         /\ Connect(T, g, a).g = g + 1 /\ Typed(R)
         /\ R.open = T.open /\ R.q = T.q /\ R.running = T.running /\ R.unchoked = T.unchoked
         /\ R.active = T.active + 1 /\ R.num = T.num
         /\ R.peer[a].st = "connecting" /\ R.peer[a].choking = T.peer[a].choking
         /\ \A b \in Addrs \ {a} : R.peer[b] = T.peer[b]
<1> DEFINE R == [T EXCEPT !.peer[a].st = "connecting", !.active = @ + 1]
           p == [T.peer[a] EXCEPT !.st = "connecting"]
<1>1. Connect(T, g, a).g = g + 1 /\ Connect(T, g, a).T = R
  BY DEF Connect, Result
<1>2. /\ T \in TorrentRec /\ T.peer \in [Addrs -> PeerRec] /\ T.active \in Int
      /\ T.peer[a] \in PeerRec
  BY Fields
<1>3. /\ p \in PeerRec /\ p.st = "connecting" /\ p.choking = T.peer[a].choking
      /\ p.fails = T.peer[a].fails /\ p.discs = T.peer[a].discs
  BY <1>2 DEF PeerRec, Linked
<1>4. /\ R.peer = [T.peer EXCEPT ![a] = p] /\ R.active = T.active + 1
      /\ R.open = T.open /\ R.q = T.q /\ R.running = T.running /\ R.unchoked = T.unchoked
      /\ R.num = T.num
  BY <1>2 DEF TorrentRec
<1> HIDE DEF p
<1>5. R.peer \in [Addrs -> PeerRec] /\ R.peer[a] = p /\ \A b \in Addrs \ {a} : R.peer[b] = T.peer[b]
  BY <1>2, <1>3, <1>4
<1>6. R \in TorrentRec
  <2> DEFINE P == R.peer
             n == R.active
  <2>1. R = [T EXCEPT !.peer = P, !.active = n]
    BY <1>2 DEF TorrentRec
  <2>2. P \in [Addrs -> PeerRec] /\ n \in Int
    BY <1>2, <1>4, <1>5
  <2> HIDE DEF P, n, R
  <2>3. QED
    BY <1>2, <2>1, <2>2 DEF TorrentRec
<1> HIDE DEF R
<1>7. Typed(R)
  BY <1>3, <1>5, <1>6 DEF Typed
<1>8. QED
  BY <1>1, <1>3, <1>4, <1>5, <1>7

\* The head leaves a queue.
LEMMA DequeueIs ==
  ASSUME NEW T, Typed(T), NEW x \in Queues, T.q[x] # <<>>
  PROVE  LET R == [T EXCEPT !.q[x] = Tail(@)] IN
         /\ Typed(R) /\ R.open = T.open /\ R.peer = T.peer /\ R.running = T.running
         /\ R.unchoked = T.unchoked /\ R.active = T.active /\ R.num = T.num
         /\ \A y \in Queues \ {x} : R.q[y] = T.q[y]
         /\ Head(T.q[x]) = T.q[x][1] /\ Head(T.q[x]) \in Addrs
         /\ Len(T.q[x]) \in Nat /\ Len(T.q[x]) >= 1 /\ Len(R.q[x]) = Len(T.q[x]) - 1
         /\ \A i \in 1 .. Len(R.q[x]) : R.q[x][i] = T.q[x][i + 1]
<1> DEFINE R == [T EXCEPT !.q[x] = Tail(@)]
           Q == [T.q EXCEPT ![x] = Tail(T.q[x])]
<1>1. T \in TorrentRec /\ T.q \in [Queues -> Seq(Addrs)] /\ T.q[x] \in Seq(Addrs)
  BY Fields
<1>2. /\ Tail(T.q[x]) \in Seq(Addrs) /\ Head(T.q[x]) = T.q[x][1] /\ Head(T.q[x]) \in Addrs
      /\ Len(T.q[x]) \in Nat /\ Len(T.q[x]) >= 1 /\ Len(Tail(T.q[x])) = Len(T.q[x]) - 1
      /\ \A i \in 1 .. Len(Tail(T.q[x])) : Tail(T.q[x])[i] = T.q[x][i + 1]
  BY <1>1
<1>3. /\ Q \in [Queues -> Seq(Addrs)] /\ Q[x] = Tail(T.q[x])
      /\ \A y \in Queues \ {x} : Q[y] = T.q[y]
  BY <1>1, <1>2
<1>4. R = [T EXCEPT !.q = Q]
  BY <1>1 DEF TorrentRec
<1> HIDE DEF Q
<1>5. /\ R \in TorrentRec /\ R.open = T.open /\ R.peer = T.peer /\ R.running = T.running
      /\ R.unchoked = T.unchoked /\ R.active = T.active /\ R.num = T.num /\ R.q = Q
  BY <1>1, <1>3, <1>4 DEF TorrentRec
<1> HIDE DEF R
<1>6. Typed(R)
  BY <1>5 DEF Typed
<1>7. QED
  BY <1>2, <1>3, <1>5, <1>6 DEF R

\* The queue torrent_attempt_more_peers takes a peer from is empty if they all are.
LEMMA FirstQueueIs ==
  ASSUME NEW T, Typed(T)
  PROVE  /\ FirstQueue(T) \in Queues
         /\ T.q[FirstQueue(T)] = <<>> => Waiting(T) = 0
         /\ \A x \in Queues : Len(T.q[x]) \in Nat /\ (T.q[x] # <<>> => Len(T.q[x]) >= 1)
<1>1. T.q["inactive"] \in Seq(Addrs) /\ T.q["disconnected"] \in Seq(Addrs) /\ T.q["failed"] \in Seq(Addrs)
  BY Fields DEF Queues
<1>2. Queues = {"inactive", "disconnected", "failed"}
  BY DEF Queues
<1>3. FirstQueue(T) \in Queues
  BY DEF Queues, FirstQueue
<1>4. T.q[FirstQueue(T)] = <<>> =>
          T.q["inactive"] = <<>> /\ T.q["disconnected"] = <<>> /\ T.q["failed"] = <<>>
  BY DEF FirstQueue
<1>5. Len(<<>>) = 0
  OBVIOUS
<1>6. \A s \in Seq(Addrs) : Len(s) \in Nat /\ (s # <<>> => Len(s) >= 1)
  OBVIOUS
<1>7. T.q[FirstQueue(T)] = <<>> => Waiting(T) = 0
  <2> SUFFICES ASSUME T.q[FirstQueue(T)] = <<>>
               PROVE  Waiting(T) = 0
    OBVIOUS
  <2>1. Len(T.q["inactive"]) = 0 /\ Len(T.q["disconnected"]) = 0 /\ Len(T.q["failed"]) = 0
    BY <1>4, <1>5
  <2>2. QED
    BY <2>1 DEF Waiting
<1>8. \A x \in Queues : T.q[x] \in Seq(Addrs)
  BY <1>1, <1>2
<1>9. QED
  BY <1>3, <1>6, <1>7, <1>8

\* torrent_attempt_more_peers
LEMMA AttemptIs ==
  ASSUME NEW T, Typed(T), Listed(T), NEW X \in SUBSET LinkedIn(T), Counted(T, X), NEW g \in Int
  PROVE  LET r == Attempt(T, g) IN
         /\ Typed(r.T) /\ Listed(r.T) /\ Counted(r.T, X) /\ r.g \in Int
         /\ \A a \in LinkedIn(T) : r.T.peer[a] = T.peer[a]
         /\ r.g = g + Cardinality(LinkedIn(r.T)) - Cardinality(LinkedIn(T))
         /\ r.T.q["inactive"] # <<>> => T.q["inactive"] # <<>>
         /\ r.T.open = T.open
         /\ \/ r.T = T /\ (Full(T, g) \/ Waiting(T) = 0)
            \/ r.T.active = T.active + 1
<1> DEFINE x == FirstQueue(T)
           r == Attempt(T, g)
<1>0. LinkedIn(T) \in SUBSET Addrs /\ Cardinality(LinkedIn(T)) \in Nat
  BY FinitePeers DEF LinkedIn
<1>1. CASE Full(T, g) \/ T.q[x] = <<>>
  <2>1. r.T = T /\ r.g = g
    BY <1>1 DEF Attempt, Result
  <2>2. Full(T, g) \/ Waiting(T) = 0
    BY <1>1, FirstQueueIs
  <2>3. QED
    BY <1>0, <2>1, <2>2
<1>2. CASE ~(Full(T, g) \/ T.q[x] = <<>>)
  <2> DEFINE b == Head(T.q[x])
             S == [T EXCEPT !.q[x] = Tail(@)]
             R == Connect(S, g, b).T
  <2>1. x \in Queues
    BY FirstQueueIs
  <2>2. /\ Typed(S) /\ S.open = T.open /\ S.peer = T.peer /\ S.running = T.running
        /\ S.unchoked = T.unchoked /\ S.active = T.active /\ S.num = T.num
        /\ \A y \in Queues \ {x} : S.q[y] = T.q[y]
        /\ b = T.q[x][1] /\ b \in Addrs
        /\ Len(T.q[x]) \in Nat /\ Len(T.q[x]) >= 1 /\ Len(S.q[x]) = Len(T.q[x]) - 1
        /\ \A i \in 1 .. Len(S.q[x]) : S.q[x][i] = T.q[x][i + 1]
    BY <1>2, <2>1, DequeueIs
  <2>3. r = Connect(S, g, b)
    BY <1>2 DEF Attempt
  <2> HIDE DEF S, b, x, r
  <2>a. LET C == Connect(S, g, b).T IN
        /\ Connect(S, g, b).g = g + 1 /\ Typed(C)
        /\ C.open = S.open /\ C.q = S.q /\ C.running = S.running /\ C.unchoked = S.unchoked
        /\ C.active = S.active + 1 /\ C.num = S.num
        /\ C.peer[b].st = "connecting" /\ C.peer[b].choking = S.peer[b].choking
        /\ \A c \in Addrs \ {b} : C.peer[c] = S.peer[c]
    <3> HIDE DEF R
    <3>1. Typed(S) /\ b \in Addrs
      BY <2>2
    <3>2. QED
      BY <3>1, ConnectIs
  <2>4. /\ Connect(S, g, b).g = g + 1 /\ Typed(R)
        /\ R.open = S.open /\ R.q = S.q /\ R.running = S.running /\ R.unchoked = S.unchoked
        /\ R.active = S.active + 1 /\ R.num = S.num
        /\ R.peer[b].st = "connecting" /\ R.peer[b].choking = S.peer[b].choking
        /\ \A c \in Addrs \ {b} : R.peer[c] = S.peer[c]
    BY <2>a
  <2> HIDE DEF R
  <2>5. T.peer[b].st = x /\ b \notin LinkedIn(T) /\ x # "running" /\ x # "none"
    <3>1. 1 \in 1 .. Len(T.q[x])
      BY <2>2
    <3>2. T.peer[b].st = x
      BY <2>1, <2>2, <3>1 DEF Listed
    <3>3. QED
      BY <2>1, <3>2 DEF LinkedIn, Queues, Linked
  <2>6. /\ LinkedIn(R) = LinkedIn(T) \cup {b} /\ Known(R) = Known(T)
        /\ \A a \in LinkedIn(T) : R.peer[a] = T.peer[a]
    BY <2>2, <2>4, <2>5 DEF LinkedIn, Known, Linked
  <2>7. Cardinality(LinkedIn(R)) = Cardinality(LinkedIn(T)) + 1
    <3>1. /\ LinkedIn(R) \in SUBSET Addrs /\ LinkedIn(R) \ {b} = LinkedIn(T) \ {b}
          /\ b \in LinkedIn(R)
      BY <1>0, <2>2, <2>6
    <3>2. QED
      BY <1>0, <2>5, <3>1, OnePeer
  <2>8. Counted(R, X)
    <3>1. /\ LinkedIn(T) \ X \in SUBSET Addrs /\ LinkedIn(R) \ X \in SUBSET Addrs
          /\ (LinkedIn(R) \ X) \ {b} = (LinkedIn(T) \ X) \ {b}
          /\ b \in LinkedIn(R) \ X /\ b \notin LinkedIn(T) \ X
      BY <1>0, <2>2, <2>5, <2>6
    <3>2. Cardinality(LinkedIn(R) \ X) = Cardinality(LinkedIn(T) \ X) + 1
      <4>1. Cardinality(LinkedIn(T) \ X) \in Nat
        BY <3>1, FinitePeers
      <4>2. QED
        BY <3>1, <4>1, OnePeer
    <3>3. T.active < MaxTorrent
      BY <1>2, Fields, Limits DEF Full
    <3>4. T.active \in Int /\ MaxTorrent \in Nat
      BY Fields, Limits
    <3>5. QED
      BY <2>2, <2>4, <2>6, <3>2, <3>3, <3>4 DEF Counted
  <2>9. Listed(R)
    <3>1. \A y \in Queues \ {x} : R.q[y] = T.q[y]
      BY <2>2, <2>4
    <3>2. /\ Len(R.q[x]) = Len(T.q[x]) - 1
          /\ \A i \in 1 .. Len(R.q[x]) : R.q[x][i] = T.q[x][i + 1] /\ i + 1 \in 1 .. Len(T.q[x])
      <4>1. R.q[x] = S.q[x]
        BY <2>4
      <4>2. Len(R.q[x]) = Len(T.q[x]) - 1 /\ \A i \in 1 .. Len(R.q[x]) : R.q[x][i] = T.q[x][i + 1]
        BY <2>2, <4>1
      <4>3. ASSUME NEW n \in Nat, NEW m, m = n - 1, NEW i \in 1 .. m
            PROVE  i + 1 \in 1 .. n
        BY <4>3
      <4>4. QED
        BY <2>2, <4>2, <4>3
    <3>3. \A y \in Queues : \A i, j \in 1 .. Len(R.q[y]) : R.q[y][i] = R.q[y][j] => i = j
      <4>1. \A i, j \in 1 .. Len(T.q[x]) : T.q[x][i] = T.q[x][j] => i = j
        BY <2>1 DEF Listed
      <4>2. ASSUME NEW i \in 1 .. Len(R.q[x]), NEW j \in 1 .. Len(R.q[x]), R.q[x][i] = R.q[x][j]
            PROVE  i = j
        <5>1. i + 1 = j + 1
          BY <3>2, <4>1, <4>2
        <5>2. QED
          BY <5>1
      <4>3. QED
        BY <3>1, <4>2 DEF Listed
    <3>4. \A y \in Queues : \A i \in 1 .. Len(R.q[y]) : R.q[y][i] # b /\ R.q[y][i] \in Addrs
                                                        /\ T.peer[R.q[y][i]].st = y
      <4>1. 1 \in 1 .. Len(T.q[x])
        BY <2>2
      <4>2. \A i \in 1 .. Len(R.q[x]) : R.q[x][i] # b /\ T.peer[R.q[x][i]].st = x
        <5> SUFFICES ASSUME NEW i \in 1 .. Len(R.q[x])
                     PROVE  R.q[x][i] # b /\ T.peer[R.q[x][i]].st = x
          OBVIOUS
        <5>1. R.q[x][i] = T.q[x][i + 1] /\ i + 1 \in 1 .. Len(T.q[x])
          BY <3>2
        <5>2. i + 1 # 1
          OBVIOUS
        <5>3. T.q[x][i + 1] # T.q[x][1] /\ T.peer[T.q[x][i + 1]].st = x
          BY <2>1, <4>1, <5>1, <5>2 DEF Listed
        <5>4. QED
          BY <2>2, <5>1, <5>3
      <4>3. \A y \in Queues \ {x} : \A i \in 1 .. Len(R.q[y]) : R.q[y][i] # b /\ T.peer[R.q[y][i]].st = y
        BY <2>5, <3>1 DEF Listed
      <4>4. \A y \in Queues : R.q[y] \in Seq(Addrs)
        BY <2>4, Fields
      <4>5. \A y \in Queues : \A i \in 1 .. Len(R.q[y]) : R.q[y][i] \in Addrs
        BY <4>4
      <4>6. QED
        BY <4>2, <4>3, <4>5
    <3>5. \A y \in Queues : \A i \in 1 .. Len(R.q[y]) : R.peer[R.q[y][i]].st = y
      BY <2>2, <2>4, <3>4, SMTT(30)
    <3>6. ASSUME NEW a \in Addrs, R.peer[a].st \in Queues
          PROVE  \E i \in 1 .. Len(R.q[R.peer[a].st]) : R.q[R.peer[a].st][i] = a
      <4>1. a # b /\ R.peer[a] = T.peer[a] /\ T.peer[a].st \in Queues
        BY <2>2, <2>4, <3>6 DEF Queues
      <4>2. PICK i \in 1 .. Len(T.q[T.peer[a].st]) : T.q[T.peer[a].st][i] = a
        BY <4>1 DEF Listed
      <4>3. CASE T.peer[a].st = x
        <5>1. i # 1
          BY <2>2, <4>1, <4>2, <4>3
        <5>2. i - 1 \in 1 .. Len(R.q[x]) /\ (i - 1) + 1 = i
          BY <2>2, <3>2, <4>2, <4>3, <5>1
        <5>3. R.q[x][i - 1] = a
          BY <3>2, <4>2, <4>3, <5>2
        <5>4. QED
          BY <4>1, <4>3, <5>2, <5>3
      <4>4. CASE T.peer[a].st # x
        BY <3>1, <4>1, <4>2, <4>4
      <4>5. QED
        BY <4>3, <4>4
    <3>7. /\ R.running = {a \in Addrs : R.peer[a].st = "running"}
          /\ R.unchoked = {a \in R.running : ~R.peer[a].choking}
          /\ \A a \in Addrs : R.peer[a].st # "running" => R.peer[a].choking = TRUE
      <4>1. b \notin T.running
        BY <2>5 DEF Listed
      <4>2. T.peer[b].choking = TRUE
        BY <2>2, <2>5 DEF Listed
      <4>3. \A a \in Addrs : R.peer[a].st # "running" => R.peer[a].choking = TRUE
        BY <2>2, <2>4, <4>2 DEF Listed
      <4>4. /\ R.running = {a \in Addrs : R.peer[a].st = "running"}
            /\ R.unchoked = {a \in R.running : ~R.peer[a].choking}
        BY <2>2, <2>4, <2>5, <4>1 DEF Listed
      <4>5. QED
        BY <4>3, <4>4
    <3>8. QED
      BY <3>3, <3>5, <3>6, <3>7 DEF Listed
  <2>10. R.q["inactive"] # <<>> => T.q["inactive"] # <<>>
    <3>1. CASE x = "inactive"
      BY <1>2, <3>1 DEF x
    <3>2. CASE x # "inactive"
      BY <2>2, <2>4, <3>2 DEF Queues
    <3>3. QED
      BY <3>1, <3>2
  <2>11. r.T = R /\ r.g = g + 1
    BY <2>3, <2>4 DEF R
  <2>12. /\ Typed(r.T) /\ Listed(r.T) /\ Counted(r.T, X) /\ r.g \in Int
         /\ \A a \in LinkedIn(T) : r.T.peer[a] = T.peer[a]
         /\ r.T.q["inactive"] # <<>> => T.q["inactive"] # <<>>
         /\ r.T.open = T.open /\ r.T.active = T.active + 1
    BY <2>2, <2>4, <2>6, <2>8, <2>9, <2>10, <2>11
  <2>13. r.g = g + Cardinality(LinkedIn(r.T)) - Cardinality(LinkedIn(T))
    BY <1>0, <2>7, <2>11
  <2>14. QED
    BY <2>12, <2>13 DEF r
<1>3. QED
  BY <1>1, <1>2

\* A torrent in which peer a became p, its lists follow, and the rest is given.
Put(T, a, p, Q, n, m) ==
    [open |-> T.open, peer |-> [T.peer EXCEPT ![a] = p], q |-> Q,
     running |-> IF p.st = "running" THEN T.running \cup {a} ELSE T.running \ {a},
     unchoked |-> IF p.st = "running" /\ ~p.choking THEN T.unchoked \cup {a} ELSE T.unchoked \ {a},
     active |-> n, num |-> m]

\* The queues when a peer that was in none is now in the one of its state, at its end.
Queued(T, a, p, Q) ==
    IF p.st \in Queues THEN Q = [T.q EXCEPT ![p.st] = Append(@, a)] ELSE Q = T.q

LEMMA PutType ==
  ASSUME NEW T, Typed(T), NEW a \in Addrs, NEW p \in PeerRec, p.fails < GiveUp, p.discs < GiveUp,
         NEW Q, Queued(T, a, p, Q), NEW n \in Int, NEW m \in Int
  PROVE  LET R == Put(T, a, p, Q, n, m) IN
         /\ Typed(R) /\ R.open = T.open /\ R.q = Q /\ R.active = n /\ R.num = m
         /\ R.peer[a] = p /\ \A b \in Addrs \ {a} : R.peer[b] = T.peer[b]
<1> DEFINE P == [T.peer EXCEPT ![a] = p]
           R == Put(T, a, p, Q, n, m)
<1>1. /\ T.open \in BOOLEAN /\ T.peer \in [Addrs -> PeerRec] /\ T.q \in [Queues -> Seq(Addrs)]
      /\ T.running \in SUBSET Addrs /\ T.unchoked \in SUBSET Addrs
  BY Fields
<1>2. P \in [Addrs -> PeerRec] /\ P[a] = p /\ \A b \in Addrs \ {a} : P[b] = T.peer[b]
  BY <1>1
<1>3. Q \in [Queues -> Seq(Addrs)]
  <2>1. \A y \in Queues : T.q[y] \in Seq(Addrs) /\ Append(T.q[y], a) \in Seq(Addrs)
    BY <1>1
  <2>2. CASE p.st \in Queues
    BY <1>1, <2>1, <2>2 DEF Queued
  <2>3. CASE p.st \notin Queues
    BY <1>1, <2>3 DEF Queued
  <2>4. QED
    BY <2>2, <2>3
<1>4. /\ R.open = T.open /\ R.peer = P /\ R.q = Q /\ R.active = n /\ R.num = m
      /\ R \in TorrentRec
  <2> DEFINE ru == IF p.st = "running" THEN T.running \cup {a} ELSE T.running \ {a}
             un == IF p.st = "running" /\ ~p.choking THEN T.unchoked \cup {a} ELSE T.unchoked \ {a}
  <2>1. ru \in SUBSET Addrs /\ un \in SUBSET Addrs
    BY <1>1
  <2>2. R = [open |-> T.open, peer |-> P, q |-> Q, running |-> ru, unchoked |-> un,
             active |-> n, num |-> m]
    BY DEF Put
  <2> HIDE DEF P, R, ru, un
  <2>3. QED
    BY <1>1, <1>2, <1>3, <2>1, <2>2 DEF TorrentRec
<1> HIDE DEF P, R
<1>5. Typed(R)
  <2>1. \A b \in Addrs : R.peer[b].fails < GiveUp /\ R.peer[b].discs < GiveUp
    BY <1>2, <1>4 DEF Typed
  <2>2. QED
    BY <1>4, <2>1 DEF Typed
<1>6. QED
  BY <1>2, <1>4, <1>5 DEF R

\* A peer that is not running chokes us.
Quiet(p) == p.st # "running" => p.choking = TRUE

LEMMA PutListed ==
  ASSUME NEW T, Typed(T), Listed(T), NEW a \in Addrs, T.peer[a].st \notin Queues,
         NEW p \in PeerRec, p.fails < GiveUp, p.discs < GiveUp, Quiet(p),
         NEW Q, Queued(T, a, p, Q), NEW n \in Int, NEW m \in Int
  PROVE  Listed(Put(T, a, p, Q, n, m))
<1> DEFINE R == Put(T, a, p, Q, n, m)
           x == p.st
<1>1. /\ Typed(R) /\ R.q = Q /\ R.peer[a] = p /\ \A b \in Addrs \ {a} : R.peer[b] = T.peer[b]
  BY PutType
<1>2. /\ T.q \in [Queues -> Seq(Addrs)] /\ T.running \in SUBSET Addrs
      /\ \A y \in Queues : T.q[y] \in Seq(Addrs)
  BY Fields
<1>3. /\ R.running = (IF p.st = "running" THEN T.running \cup {a} ELSE T.running \ {a})
      /\ R.unchoked = (IF p.st = "running" /\ ~p.choking THEN T.unchoked \cup {a} ELSE T.unchoked \ {a})
  BY DEF Put
<1> SUFFICES Listed(R)
  OBVIOUS
<1> HIDE DEF R
<1>4. R.running = {b \in Addrs : R.peer[b].st = "running"}
  BY <1>1, <1>3 DEF Listed
<1>5. /\ R.unchoked = {b \in R.running : ~R.peer[b].choking}
      /\ \A b \in Addrs : R.peer[b].st # "running" => R.peer[b].choking = TRUE
  BY <1>1, <1>2, <1>3 DEF Listed, Quiet
<1>6. \A y \in Queues : \A i \in 1 .. Len(T.q[y]) :
          T.q[y][i] \in Addrs /\ T.q[y][i] # a /\ T.peer[T.q[y][i]].st = y
  <2>1. \A y \in Queues : \A i \in 1 .. Len(T.q[y]) : T.q[y][i] \in Addrs
    BY <1>2
  <2>2. QED
    BY <2>1 DEF Listed
<1>7. CASE x \notin Queues
  <2>1. Q = T.q
    BY <1>7 DEF Queued
  <2>2. \A y \in Queues : \A i, j \in 1 .. Len(R.q[y]) : R.q[y][i] = R.q[y][j] => i = j
    BY <1>1, <2>1 DEF Listed
  <2>3. \A y \in Queues : \A i \in 1 .. Len(R.q[y]) : R.peer[R.q[y][i]].st = y
    BY <1>1, <1>6, <2>1
  <2>4. \A b \in Addrs : R.peer[b].st \in Queues =>
            \E i \in 1 .. Len(R.q[R.peer[b].st]) : R.q[R.peer[b].st][i] = b
    BY <1>1, <1>7, <2>1 DEF Listed
  <2>5. QED
    BY <1>4, <1>5, <2>2, <2>3, <2>4 DEF Listed
<1>8. CASE x \in Queues
  <2> DEFINE k == Len(T.q[x])
             s == Append(T.q[x], a)
  <2>1. /\ R.q[x] = s /\ \A y \in Queues \ {x} : R.q[y] = T.q[y]
    <3>1. Q = [T.q EXCEPT ![x] = s]
      BY <1>8 DEF Queued
    <3>2. QED
      BY <1>1, <1>2, <1>8, <3>1
  <2>2. /\ k \in Nat /\ Len(s) = k + 1 /\ s[k + 1] = a
        /\ \A i \in 1 .. k : s[i] = T.q[x][i]
    BY <1>2, <1>8
  <2> HIDE DEF k, s, x
  <2>3. \A i \in 1 .. Len(s) : i \in 1 .. k \/ i = k + 1
    BY <2>2
  <2>3a. 1 .. k = 1 .. Len(T.q[x]) /\ k + 1 \in 1 .. Len(s) /\ \A i \in 1 .. k : i \in 1 .. Len(s)
    BY <2>2 DEF k
  <2>4. \A i, j \in 1 .. Len(s) : s[i] = s[j] => i = j
    <3> SUFFICES ASSUME NEW i \in 1 .. Len(s), NEW j \in 1 .. Len(s), s[i] = s[j]
                 PROVE  i = j
      OBVIOUS
    <3>1. CASE i \in 1 .. k /\ j \in 1 .. k
      BY <1>8, <2>2, <2>3a, <3>1 DEF Listed, x
    <3>2. CASE i = k + 1 \/ j = k + 1
      BY <1>6, <1>8, <2>2, <2>3, <2>3a, <3>2 DEF x
    <3>3. QED
      BY <2>3, <3>1, <3>2
  <2>5. \A y \in Queues : \A i, j \in 1 .. Len(R.q[y]) : R.q[y][i] = R.q[y][j] => i = j
    BY <2>1, <2>4 DEF Listed
  <2>6. \A i \in 1 .. Len(s) : R.peer[s[i]].st = x
    <3>1. ASSUME NEW i \in 1 .. k PROVE R.peer[s[i]].st = x
      BY <1>1, <1>6, <1>8, <2>2, <2>3a DEF x
    <3>2. R.peer[s[k + 1]].st = x
      BY <1>1, <2>2 DEF x
    <3>3. QED
      BY <2>3, <3>1, <3>2
  <2>7. \A y \in Queues : \A i \in 1 .. Len(R.q[y]) : R.peer[R.q[y][i]].st = y
    BY <1>1, <1>6, <2>1, <2>6
  <2>8. ASSUME NEW b \in Addrs, R.peer[b].st \in Queues
        PROVE  \E i \in 1 .. Len(R.q[R.peer[b].st]) : R.q[R.peer[b].st][i] = b
    <3>1. CASE b = a
      BY <1>1, <2>1, <2>2, <2>3a, <3>1 DEF x
    <3>2. CASE b # a
      <4>1. R.peer[b] = T.peer[b]
        BY <1>1, <3>2
      <4>2. PICK i \in 1 .. Len(T.q[T.peer[b].st]) : T.q[T.peer[b].st][i] = b
        BY <2>8, <4>1 DEF Listed
      <4>3. CASE T.peer[b].st = x
        BY <2>1, <2>2, <2>3a, <4>1, <4>2, <4>3
      <4>4. CASE T.peer[b].st # x
        BY <2>1, <2>8, <4>1, <4>2, <4>4
      <4>5. QED
        BY <4>3, <4>4
    <3>3. QED
      BY <3>1, <3>2
  <2>9. QED
    BY <1>4, <1>5, <2>5, <2>7, <2>8 DEF Listed
<1>9. QED
  BY <1>7, <1>8

\* What becomes of the numbers of connections and peers, and of the queues.
LEMMA PutCounts ==
  ASSUME NEW T, Typed(T), NEW a \in Addrs, NEW p \in PeerRec, p.fails < GiveUp, p.discs < GiveUp,
         NEW Q, Queued(T, a, p, Q), NEW n \in Int, NEW m \in Int
  PROVE  LET R == Put(T, a, p, Q, n, m) IN
         /\ LinkedIn(R) \ {a} = LinkedIn(T) \ {a} /\ (a \in LinkedIn(R) <=> p.st \in Linked)
         /\ Cardinality(LinkedIn(T)) \in Nat /\ Cardinality(Known(T)) \in Nat
         /\ Cardinality(LinkedIn(R)) = Cardinality(LinkedIn(T)) + (IF p.st \in Linked THEN 1 ELSE 0)
                                       - (IF T.peer[a].st \in Linked THEN 1 ELSE 0)
         /\ Cardinality(Known(R)) = Cardinality(Known(T)) + (IF p.st # "none" THEN 1 ELSE 0)
                                    - (IF T.peer[a].st # "none" THEN 1 ELSE 0)
<1> DEFINE R == Put(T, a, p, Q, n, m)
<1>1. R.peer[a] = p /\ \A b \in Addrs \ {a} : R.peer[b] = T.peer[b]
  BY PutType
<1> HIDE DEF R
<1>2. /\ LinkedIn(R) \in SUBSET Addrs /\ LinkedIn(T) \in SUBSET Addrs
      /\ Known(R) \in SUBSET Addrs /\ Known(T) \in SUBSET Addrs
      /\ a \in LinkedIn(R) <=> p.st \in Linked
      /\ a \in LinkedIn(T) <=> T.peer[a].st \in Linked
      /\ a \in Known(R) <=> p.st # "none"
      /\ a \in Known(T) <=> T.peer[a].st # "none"
      /\ LinkedIn(R) \ {a} = LinkedIn(T) \ {a} /\ Known(R) \ {a} = Known(T) \ {a}
  BY <1>1 DEF LinkedIn, Known
<1>3. Cardinality(LinkedIn(T)) \in Nat /\ Cardinality(Known(T)) \in Nat
  BY <1>2, FinitePeers
<1>4. Cardinality(LinkedIn(R)) = Cardinality(LinkedIn(T)) + (IF p.st \in Linked THEN 1 ELSE 0)
                                 - (IF T.peer[a].st \in Linked THEN 1 ELSE 0)
  BY <1>2, OnePeer
<1>5. Cardinality(Known(R)) = Cardinality(Known(T)) + (IF p.st # "none" THEN 1 ELSE 0)
                                    - (IF T.peer[a].st # "none" THEN 1 ELSE 0)
  BY <1>2, OnePeer
<1>6. QED
  BY <1>2, <1>3, <1>4, <1>5 DEF R

\* The connection of peer a has ended: it goes into its queue, or is forgotten.
LEMMA SettledIs ==
  ASSUME NEW T, Typed(T), Listed(T), NEW a \in LinkedIn(T), Counted(T, {a}),
         NEW next \in {"none", "failed", "disconnected"}
  PROVE  LET R == Settled(Unlisted(T, a), a, next) IN
         /\ Sound(R) /\ R.active = T.active /\ R.q["inactive"] = T.q["inactive"]
         /\ Waiting(R) <= Waiting(T) + 1 /\ Waiting(T) \in Nat
         /\ Cardinality(LinkedIn(R)) = Cardinality(LinkedIn(T)) - 1
<1> DEFINE U == Unlisted(T, a)
           o == T.peer[a]
           f == IF next = "failed" THEN o.fails + 1 ELSE o.fails
           d == IF next = "disconnected" THEN o.discs + 1 ELSE o.discs
           p == [o EXCEPT !.st = next, !.choking = TRUE, !.fails = f, !.discs = d]
           R == Settled(Unlisted(T, a), a, next)
<1>1. /\ a \in Addrs /\ T \in TorrentRec /\ T.peer \in [Addrs -> PeerRec] /\ o \in PeerRec
      /\ T.q \in [Queues -> Seq(Addrs)] /\ T.active \in Int /\ T.num \in Int
      /\ T.q["inactive"] \in Seq(Addrs) /\ T.q["disconnected"] \in Seq(Addrs)
      /\ T.q["failed"] \in Seq(Addrs)
  BY Fields DEF LinkedIn, Queues
<1>2. /\ o.st \in Linked /\ o.st \notin Queues /\ o.st # "none"
      /\ o.fails \in 0 .. GiveUp /\ o.discs \in 0 .. GiveUp /\ o.choking \in BOOLEAN
      /\ o.fails < GiveUp /\ o.discs < GiveUp /\ GiveUp \in Nat
  BY <1>1, Limits DEF LinkedIn, Linked, Queues, PeerRec, Typed
<1>3. /\ p \in PeerRec /\ p.st = next /\ p.choking = TRUE
      /\ p.fails = f /\ p.discs = d
  <2>1. f \in 0 .. GiveUp /\ d \in 0 .. GiveUp
    BY <1>2
  <2> HIDE DEF f, d, o
  <2>2. QED
    BY <1>1, <2>1 DEF PeerRec, Queues
<1>4. NoPeer \in PeerRec /\ NoPeer.st = "none" /\ NoPeer.fails = 0 /\ NoPeer.discs = 0 /\ NoPeer.choking = TRUE
  BY <1>2 DEF PeerRec, NoPeer
<1>5. /\ U \in TorrentRec /\ U.open = T.open /\ U.q = T.q /\ U.num = T.num /\ U.active = T.active
      /\ U.running = T.running \ {a} /\ U.unchoked = T.unchoked \ {a}
      /\ U.peer = [T.peer EXCEPT ![a] = [o EXCEPT !.choking = TRUE]]
      /\ U.peer[a] = [o EXCEPT !.choking = TRUE] /\ U.peer \in [Addrs -> PeerRec]
  <2> DEFINE ru == T.running \ {a}
             un == T.unchoked \ {a}
             P == [T.peer EXCEPT ![a] = [o EXCEPT !.choking = TRUE]]
  <2>1. U = [T EXCEPT !.running = ru, !.unchoked = un, !.peer = P]
    BY <1>1 DEF Unlisted, TorrentRec
  <2>2. [o EXCEPT !.choking = TRUE] \in PeerRec
    BY <1>1 DEF PeerRec
  <2>3. P \in [Addrs -> PeerRec] /\ P[a] = [o EXCEPT !.choking = TRUE]
    BY <1>1, <2>2
  <2>4. ru \in SUBSET Addrs /\ un \in SUBSET Addrs
    BY Fields
  <2> HIDE DEF ru, un, P, U
  <2>5. /\ U \in TorrentRec /\ U.open = T.open /\ U.q = T.q /\ U.num = T.num /\ U.active = T.active
        /\ U.running = ru /\ U.unchoked = un /\ U.peer = P
    BY <1>1, <2>1, <2>3, <2>4 DEF TorrentRec
  <2>6. QED
    BY <2>3, <2>5 DEF ru, un, P
<1>6. p = [U.peer[a] EXCEPT !.st = next,
                !.fails = IF next = "failed" THEN @ + 1 ELSE @,
                !.discs = IF next = "disconnected" THEN @ + 1 ELSE @]
  BY <1>1, <1>5 DEF PeerRec
<1>7. /\ Len(T.q["inactive"]) \in Nat /\ Len(T.q["disconnected"]) \in Nat
      /\ Len(T.q["failed"]) \in Nat /\ Waiting(T) \in Nat
  <2>1. \A s \in Seq(Addrs) : Len(s) \in Nat
    OBVIOUS
  <2>2. /\ Len(T.q["inactive"]) \in Nat /\ Len(T.q["disconnected"]) \in Nat
        /\ Len(T.q["failed"]) \in Nat
    BY <1>1, <2>1
  <2>3. QED
    BY <2>2, WaitingIs
<1>8. \A P : [[T.peer EXCEPT ![a] = [o EXCEPT !.choking = TRUE]] EXCEPT ![a] = P] = [T.peer EXCEPT ![a] = P]
  BY <1>1
<1>9. /\ LinkedIn(T) \in SUBSET Addrs /\ LinkedIn(T) \ {a} \in SUBSET Addrs
      /\ Cardinality(LinkedIn(T)) \in Nat
      /\ Cardinality(LinkedIn(T) \ {a}) = Cardinality(LinkedIn(T)) - 1
  <2>1. LinkedIn(T) \in SUBSET Addrs
    BY DEF LinkedIn
  <2>2. IsFiniteSet(LinkedIn(T)) /\ Cardinality(LinkedIn(T)) \in Nat
    BY <2>1, FinitePeers
  <2>3. QED
    BY <2>1, <2>2, OneLess
<1>10. /\ T.active = Cardinality(LinkedIn(T)) - 1 /\ T.active <= MaxTorrent
       /\ T.num = Cardinality(Known(T))
  BY <1>9 DEF Counted
<1>11. CASE GivenUp(p, next)
  <2>1. R = [U EXCEPT !.peer[a] = NoPeer, !.num = @ - 1]
    BY <1>6, <1>11 DEF Settled
  <2>2. R = Put(T, a, NoPeer, T.q, T.active, T.num - 1)
    <3> DEFINE P == [T.peer EXCEPT ![a] = NoPeer]
               n == T.num - 1
               W == Put(T, a, NoPeer, T.q, T.active, n)
    <3>1. R = [U EXCEPT !.peer = P, !.num = n]
      BY <1>5, <1>8, <2>1 DEF TorrentRec
    <3>2. P \in [Addrs -> PeerRec] /\ n \in Int
      BY <1>1, <1>4
    <3>3. W \in TorrentRec
      <4>1. NoPeer.fails < GiveUp /\ NoPeer.discs < GiveUp /\ Queued(T, a, NoPeer, T.q)
        BY <1>2, <1>4 DEF Queued, Queues
      <4>2. Typed(W)
        BY <1>1, <1>4, <3>2, <4>1, PutType
      <4>3. QED
        BY <4>2 DEF Typed
    <3>4. /\ W.open = T.open /\ W.peer = P /\ W.q = T.q /\ W.running = T.running \ {a}
          /\ W.unchoked = T.unchoked \ {a} /\ W.active = T.active /\ W.num = n
      BY <1>4 DEF Put
    <3> HIDE DEF P, n, R, U, W
    <3>5. /\ R \in TorrentRec /\ R.open = U.open /\ R.q = U.q /\ R.num = n /\ R.active = U.active
          /\ R.running = U.running /\ R.unchoked = U.unchoked /\ R.peer = P
      BY <1>5, <3>1, <3>2 DEF TorrentRec
    <3>6. R = W
      <4>1. /\ R.open = W.open /\ R.peer = W.peer /\ R.q = W.q /\ R.running = W.running
            /\ R.unchoked = W.unchoked /\ R.active = W.active /\ R.num = W.num
        BY <1>5, <3>4, <3>5
      <4>2. QED
        BY <3>3, <3>5, <4>1, SameTorrent
    <3>7. QED
      BY <3>6 DEF W, n
  <2>3. Queued(T, a, NoPeer, T.q)
    BY <1>4 DEF Queued, Queues
  <2> HIDE DEF R, U, p, o
  <2>4. /\ Typed(R) /\ R.q = T.q /\ R.active = T.active /\ R.num = T.num - 1
        /\ Cardinality(LinkedIn(R)) = Cardinality(LinkedIn(T)) - 1
        /\ Cardinality(Known(R)) = Cardinality(Known(T)) - 1
    <3>1. NoPeer.fails < GiveUp /\ NoPeer.discs < GiveUp /\ T.num - 1 \in Int
      BY <1>1, <1>4, Limits
    <3>2. /\ Typed(R) /\ R.q = T.q /\ R.active = T.active /\ R.num = T.num - 1
      BY <1>1, <1>4, <2>2, <2>3, <3>1, PutType
    <3>3. /\ Cardinality(LinkedIn(T)) \in Nat /\ Cardinality(Known(T)) \in Nat
          /\ Cardinality(LinkedIn(R)) = Cardinality(LinkedIn(T)) + (IF "none" \in Linked THEN 1 ELSE 0)
                                       - (IF o.st \in Linked THEN 1 ELSE 0)
          /\ Cardinality(Known(R)) = Cardinality(Known(T)) + (IF "none" # "none" THEN 1 ELSE 0)
                                       - (IF o.st # "none" THEN 1 ELSE 0)
      BY <1>1, <1>4, <2>2, <2>3, <3>1, PutCounts DEF o
    <3>4. "none" \notin Linked
      BY DEF Linked
    <3>5. QED
      BY <1>2, <3>2, <3>3, <3>4
  <2>5. Listed(R)
    <3>1. NoPeer.fails < GiveUp /\ NoPeer.discs < GiveUp /\ T.num - 1 \in Int
      BY <1>1, <1>4, Limits
    <3>2. Quiet(NoPeer)
      BY <1>4 DEF Quiet
    <3>3. QED
      BY <1>1, <1>2, <1>4, <2>2, <2>3, <3>1, <3>2, PutListed DEF o
  <2>6. R.active = Cardinality(LinkedIn(R) \ {}) /\ R.num = Cardinality(Known(R)) /\ R.active <= MaxTorrent
    BY <1>10, <2>4
  <2>7. Waiting(R) = Waiting(T)
    BY <2>4 DEF Waiting
  <2>8. QED
    BY <1>7, <2>4, <2>5, <2>6, <2>7 DEF Sound, Counted, R
<1>12. CASE ~GivenUp(p, next)
  <2> DEFINE Q == [T.q EXCEPT ![next] = Append(@, a)]
  <2>1. /\ R = [U EXCEPT !.peer[a] = p, !.q[next] = Append(@, a)]
        /\ next \in {"failed", "disconnected"}
    BY <1>6, <1>12 DEF Settled, GivenUp
  <2>2. Queued(T, a, p, Q)
    BY <1>3, <2>1 DEF Queued, Queues
  <2>3. p.fails < GiveUp /\ p.discs < GiveUp
    BY <1>2, <1>3, <1>12 DEF GivenUp
  <2>4. R = Put(T, a, p, Q, T.active, T.num)
    <3> DEFINE P == [T.peer EXCEPT ![a] = p]
               W == Put(T, a, p, Q, T.active, T.num)
    <3> HIDE DEF p
    <3>1. R = [U EXCEPT !.peer = P, !.q = Q]
      BY <1>5, <1>8, <2>1 DEF TorrentRec
    <3>2. P \in [Addrs -> PeerRec] /\ Q \in [Queues -> Seq(Addrs)]
      <4>1. T.q[next] \in Seq(Addrs) /\ Append(T.q[next], a) \in Seq(Addrs)
        BY <1>1, <2>1
      <4>2. QED
        BY <1>1, <1>3, <4>1
    <3>3. W \in TorrentRec
      <4>1. Typed(W)
        BY <1>1, <1>3, <2>2, <2>3, PutType
      <4>2. QED
        BY <4>1 DEF Typed
    <3>4. /\ W.open = T.open /\ W.peer = P /\ W.q = Q /\ W.running = T.running \ {a}
          /\ W.unchoked = T.unchoked \ {a} /\ W.active = T.active /\ W.num = T.num
      BY <1>3, <2>1 DEF Put
    <3> HIDE DEF P, R, U, W, Q
    <3>5. /\ R \in TorrentRec /\ R.open = U.open /\ R.q = Q /\ R.num = U.num /\ R.active = U.active
          /\ R.running = U.running /\ R.unchoked = U.unchoked /\ R.peer = P
      BY <1>5, <3>1, <3>2 DEF TorrentRec
    <3>6. R = W
      <4>1. /\ R.open = W.open /\ R.peer = W.peer /\ R.q = W.q /\ R.running = W.running
            /\ R.unchoked = W.unchoked /\ R.active = W.active /\ R.num = W.num
        BY <1>5, <3>4, <3>5
      <4>2. QED
        BY <3>3, <3>5, <4>1, SameTorrent
    <3>7. QED
      BY <3>6 DEF W
  <2> HIDE DEF R, U, p, o, Q
  <2>5. /\ Typed(R) /\ R.q = Q /\ R.active = T.active /\ R.num = T.num
    BY <1>1, <1>3, <2>2, <2>3, <2>4, PutType
  <2>6. /\ Cardinality(LinkedIn(R)) = Cardinality(LinkedIn(T)) - 1
        /\ Cardinality(Known(R)) = Cardinality(Known(T))
    <3>1. /\ Cardinality(LinkedIn(T)) \in Nat /\ Cardinality(Known(T)) \in Nat
          /\ Cardinality(LinkedIn(R)) = Cardinality(LinkedIn(T)) + (IF p.st \in Linked THEN 1 ELSE 0)
                                       - (IF o.st \in Linked THEN 1 ELSE 0)
          /\ Cardinality(Known(R)) = Cardinality(Known(T)) + (IF p.st # "none" THEN 1 ELSE 0)
                                       - (IF o.st # "none" THEN 1 ELSE 0)
      <4> DEFINE W == Put(T, a, p, Q, T.active, T.num)
      <4>1. /\ Cardinality(LinkedIn(T)) \in Nat /\ Cardinality(Known(T)) \in Nat
            /\ Cardinality(LinkedIn(W)) = Cardinality(LinkedIn(T)) + (IF p.st \in Linked THEN 1 ELSE 0)
                                         - (IF o.st \in Linked THEN 1 ELSE 0)
            /\ Cardinality(Known(W)) = Cardinality(Known(T)) + (IF p.st # "none" THEN 1 ELSE 0)
                                         - (IF o.st # "none" THEN 1 ELSE 0)
        BY <1>1, <1>3, <2>2, <2>3, PutCounts, SMTT(30) DEF o
      <4>2. QED
        BY <2>4, <4>1
    <3>2. p.st \notin Linked /\ p.st # "none"
      BY <1>3, <2>1 DEF Linked
    <3>3. QED
      BY <1>2, <3>1, <3>2
  <2>7. Listed(R)
    <3>1. Quiet(p)
      BY <1>3 DEF Quiet
    <3>2. QED
      BY <1>1, <1>2, <1>3, <2>2, <2>3, <2>4, <3>1, PutListed DEF o
  <2>8. R.active = Cardinality(LinkedIn(R) \ {}) /\ R.num = Cardinality(Known(R)) /\ R.active <= MaxTorrent
    BY <1>10, <2>5, <2>6
  <2>9. R.q["inactive"] = T.q["inactive"] /\ Waiting(R) <= Waiting(T) + 1
    <3>1. Len(Append(T.q[next], a)) = Len(T.q[next]) + 1
      <4>1. T.q[next] \in Seq(Addrs)
        BY <1>1, <2>1
      <4>2. QED
        BY <1>1, <4>1
    <3>2. CASE next = "failed"
      <4>1. /\ Q["inactive"] = T.q["inactive"] /\ Q["disconnected"] = T.q["disconnected"]
            /\ Q["failed"] = Append(T.q["failed"], a)
        BY <1>1, <3>2 DEF Q, Queues
      <4>2. QED
        <5>1. /\ R.q["inactive"] = T.q["inactive"] /\ Len(R.q["inactive"]) = Len(T.q["inactive"])
              /\ Len(R.q["disconnected"]) = Len(T.q["disconnected"])
              /\ Len(R.q["failed"]) = Len(T.q["failed"]) + 1
          BY <2>5, <3>1, <3>2, <4>1
        <5> DEFINE i == Len(T.q["inactive"])
                   j == Len(T.q["disconnected"])
                   k == Len(T.q["failed"])
        <5>2. i \in Nat /\ j \in Nat /\ k \in Nat /\ Waiting(T) = i + j + k /\ Waiting(R) = i + j + k + 1
          <6>1. i \in Nat /\ j \in Nat /\ k \in Nat
            BY <1>7
          <6>2. /\ Len(T.q["inactive"]) = i /\ Len(T.q["disconnected"]) = j /\ Len(T.q["failed"]) = k
                /\ Len(R.q["inactive"]) = i /\ Len(R.q["disconnected"]) = j
                /\ Len(R.q["failed"]) = k + 1
            BY <5>1
          <6> HIDE DEF i, j, k
          <6>3. Waiting(T) = i + j + k
            BY <6>1, <6>2, WaitingIs
          <6> DEFINE l == k + 1
          <6>4. l \in Nat /\ Len(R.q["failed"]) = l
            BY <6>1, <6>2
          <6> HIDE DEF l
          <6>5. Waiting(R) = i + j + l
            BY <6>1, <6>2, <6>4, WaitingIs
          <6>6. QED
            BY <6>1, <6>3, <6>5 DEF l
        <5> HIDE DEF i, j, k
        <5>3. QED
          BY <5>1, <5>2
    <3>3. CASE next = "disconnected"
      <4>1. /\ Q["inactive"] = T.q["inactive"] /\ Q["failed"] = T.q["failed"]
            /\ Q["disconnected"] = Append(T.q["disconnected"], a)
        BY <1>1, <3>3 DEF Q, Queues
      <4>2. QED
        <5>1. /\ R.q["inactive"] = T.q["inactive"] /\ Len(R.q["inactive"]) = Len(T.q["inactive"])
              /\ Len(R.q["failed"]) = Len(T.q["failed"])
              /\ Len(R.q["disconnected"]) = Len(T.q["disconnected"]) + 1
          BY <2>5, <3>1, <3>3, <4>1
        <5> DEFINE i == Len(T.q["inactive"])
                   j == Len(T.q["disconnected"])
                   k == Len(T.q["failed"])
        <5>2. i \in Nat /\ j \in Nat /\ k \in Nat /\ Waiting(T) = i + j + k /\ Waiting(R) = i + j + k + 1
          <6>1. i \in Nat /\ j \in Nat /\ k \in Nat
            BY <1>7
          <6>2. /\ Len(T.q["inactive"]) = i /\ Len(T.q["disconnected"]) = j /\ Len(T.q["failed"]) = k
                /\ Len(R.q["inactive"]) = i /\ Len(R.q["disconnected"]) = j + 1
                /\ Len(R.q["failed"]) = k
            BY <5>1
          <6> HIDE DEF i, j, k
          <6>3. Waiting(T) = i + j + k
            BY <6>1, <6>2, WaitingIs
          <6> DEFINE l == j + 1
          <6>4. l \in Nat /\ Len(R.q["disconnected"]) = l
            BY <6>1, <6>2
          <6> HIDE DEF l
          <6>5. Waiting(R) = i + l + k
            BY <6>1, <6>2, <6>4, WaitingIs
          <6>6. QED
            BY <6>1, <6>3, <6>5 DEF l
        <5> HIDE DEF i, j, k
        <5>3. QED
          BY <5>1, <5>2
    <3>4. QED
      BY <2>1, <3>2, <3>3
  <2>10. QED
    BY <1>7, <2>5, <2>6, <2>7, <2>8, <2>9 DEF Sound, Counted, R
<1>13. QED
  BY <1>11, <1>12

\* What a function of peer.c makes of a torrent and of the global counter: the torrent stays
\* sound, and the counter rises by at most the connections that are new.
Step(T, g, r) ==
    /\ Sound(r.T) /\ r.g \in Int
    /\ r.g <= g + Cardinality(LinkedIn(r.T)) - Cardinality(LinkedIn(T))

\* peer_shutdown of a peer with a connection, with another taking its place.
LEMMA ShutdownIs ==
  ASSUME NEW T, Sound(T), NEW a \in LinkedIn(T), NEW g \in Int,
         NEW next \in {"none", "failed", "disconnected"}
  PROVE  LET r == Shutdown(T, g, a, next) IN
         Step(T, g, r) /\ (Busy(T) /\ ~(g - 1 >= MaxGlobal) => Busy(r.T))
<1> DEFINE n == T.active - 1
           h == g - 1
           U == [T EXCEPT !.active = n]
           A == Attempt(U, h)
           V == A.T
           W == Settled(Unlisted(V, a), a, next)
           r == Shutdown(T, g, a, next)
<1>1. r.T = W /\ r.g = A.g
  BY DEF Shutdown, Result
<1>2. Typed(T) /\ Listed(T) /\ Counted(T, {})
  BY DEF Sound
<1>3. T \in TorrentRec /\ T.active \in Int /\ n \in Int /\ h \in Int
  BY <1>2, Fields
<1> HIDE DEF n, h
<1>4. /\ U \in TorrentRec /\ U.active = n /\ U.open = T.open /\ U.peer = T.peer /\ U.q = T.q
      /\ U.running = T.running /\ U.unchoked = T.unchoked /\ U.num = T.num
  BY <1>3 DEF TorrentRec
<1> HIDE DEF U
<1>5. Typed(U) /\ Listed(U) /\ LinkedIn(U) = LinkedIn(T) /\ Known(U) = Known(T) /\ Waiting(U) = Waiting(T)
  BY <1>2, <1>4 DEF Typed, Listed, LinkedIn, Known, Waiting
<1>6. /\ LinkedIn(T) \in SUBSET Addrs /\ Cardinality(LinkedIn(T)) \in Nat
      /\ Cardinality(LinkedIn(T) \ {a}) = Cardinality(LinkedIn(T)) - 1
      /\ Cardinality(LinkedIn(T) \ {a}) \in Nat
  <2>1. LinkedIn(T) \in SUBSET Addrs
    BY DEF LinkedIn
  <2>2. IsFiniteSet(LinkedIn(T))
    BY <2>1, FinitePeers
  <2>3. QED
    BY <2>1, <2>2, OneLess
<1>7. /\ T.active = Cardinality(LinkedIn(T)) /\ T.active <= MaxTorrent /\ T.num = Cardinality(Known(T))
      /\ MaxTorrent \in Nat /\ MaxTorrent >= 1 /\ MaxGlobal \in Nat
  <2>1. LinkedIn(T) \ {} = LinkedIn(T)
    OBVIOUS
  <2>2. QED
    BY <1>2, <2>1, Limits DEF Counted
<1>8. n \in Nat /\ n = Cardinality(LinkedIn(T) \ {a}) /\ n <= MaxTorrent /\ n = T.active - 1
  BY <1>3, <1>6, <1>7 DEF n
<1>9. Counted(U, {a}) /\ {a} \in SUBSET LinkedIn(U)
  BY <1>4, <1>5, <1>7, <1>8 DEF Counted
<1>10. /\ Typed(V) /\ Listed(V) /\ Counted(V, {a}) /\ A.g \in Int
       /\ \A b \in LinkedIn(U) : V.peer[b] = U.peer[b]
       /\ A.g = h + Cardinality(LinkedIn(V)) - Cardinality(LinkedIn(U))
       /\ V.q["inactive"] # <<>> => U.q["inactive"] # <<>>
       /\ \/ V = U /\ (Full(U, h) \/ Waiting(U) = 0)
          \/ V.active = U.active + 1
  BY <1>3, <1>5, <1>9, AttemptIs
<1> HIDE DEF A, V, W
<1>11. a \in LinkedIn(V)
  BY <1>5, <1>10 DEF LinkedIn
<1>12. /\ Sound(W) /\ W.active = V.active /\ W.q["inactive"] = V.q["inactive"]
       /\ Waiting(W) <= Waiting(V) + 1 /\ Waiting(V) \in Nat
       /\ Cardinality(LinkedIn(W)) = Cardinality(LinkedIn(V)) - 1
  BY <1>10, <1>11, SettledIs DEF W
<1>13. A.g = g + Cardinality(LinkedIn(W)) - Cardinality(LinkedIn(T))
  <2>1. Cardinality(LinkedIn(V)) \in Nat
    BY FinitePeers DEF LinkedIn
  <2>2. QED
    BY <1>5, <1>6, <1>10, <1>12, <2>1 DEF h
<1>14. ASSUME Busy(T), ~(g - 1 >= MaxGlobal)
       PROVE  Busy(W)
  <2>1. ~(h >= MaxGlobal)
    BY <1>14 DEF h
  <2>2. n < MaxTorrent /\ ~Full(U, h)
    <3>1. n < MaxTorrent
      BY <1>3, <1>7, <1>8
    <3>2. ~(U.active >= MaxTorrent)
      BY <1>4, <1>7, <1>8, <3>1
    <3>3. QED
      BY <2>1, <3>1, <3>2 DEF Full
  <2>3. (V = U /\ Waiting(U) = 0) \/ V.active = n + 1
    BY <1>4, <1>10, <2>2
  <2>4. W.q["inactive"] # <<>> => W.active >= MaxTorrent
    <3> SUFFICES ASSUME W.q["inactive"] # <<>>
                 PROVE  W.active >= MaxTorrent
      OBVIOUS
    <3>1. T.q["inactive"] # <<>>
      BY <1>4, <1>10, <1>12
    <3>2. T.active >= MaxTorrent
      BY <1>14, <3>1 DEF Busy
    <3>3. Waiting(U) # 0
      <4>1. T.q["inactive"] \in Seq(Addrs) /\ T.q["disconnected"] \in Seq(Addrs) /\ T.q["failed"] \in Seq(Addrs)
        BY <1>2, Fields DEF Queues
      <4>2. \A s \in Seq(Addrs) : Len(s) \in Nat /\ (s # <<>> => Len(s) # 0)
        OBVIOUS
      <4> DEFINE i == Len(T.q["inactive"])
                 j == Len(T.q["disconnected"])
                 k == Len(T.q["failed"])
      <4>3. i \in Nat /\ j \in Nat /\ k \in Nat /\ i # 0
        BY <3>1, <4>1, <4>2
      <4>4. Len(T.q["inactive"]) = i /\ Len(T.q["disconnected"]) = j /\ Len(T.q["failed"]) = k
        OBVIOUS
      <4> HIDE DEF i, j, k
      <4>5. Waiting(T) = i + j + k
        BY <4>3, <4>4, WaitingIs
      <4>6. QED
        BY <1>5, <4>3, <4>5
    <3>4. V.active = n + 1
      BY <2>3, <3>3
    <3>5. QED
      BY <1>3, <1>8, <1>12, <3>2, <3>4
  <2>5. W.active = 0 => Waiting(W) <= 1
    <3> SUFFICES ASSUME W.active = 0
                 PROVE  Waiting(W) <= 1
      OBVIOUS
    <3>1. Waiting(V) = 0
      BY <1>8, <1>12, <2>3
    <3>2. QED
      BY <1>12, <3>1
  <2>6. QED
    BY <2>4, <2>5 DEF Busy
<1>15. Step(T, g, r)
  <2>1. Cardinality(LinkedIn(W)) \in Nat
    BY FinitePeers DEF LinkedIn
  <2>2. A.g <= g + Cardinality(LinkedIn(W)) - Cardinality(LinkedIn(T))
    BY <1>6, <1>13, <2>1
  <2> HIDE DEF r
  <2>3. QED
    BY <1>1, <1>10, <1>12, <2>2 DEF Step
<1> HIDE DEF r
<1>16. QED
  BY <1>1, <1>14, <1>15 DEF r

\* The counters after peer a became p.
Recount(T, a, p, n, m, g, h) ==
    /\ n = T.active + (IF p.st \in Linked THEN 1 ELSE 0) - (IF T.peer[a].st \in Linked THEN 1 ELSE 0)
    /\ m = T.num + (IF p.st # "none" THEN 1 ELSE 0) - (IF T.peer[a].st # "none" THEN 1 ELSE 0)
    /\ h = g + n - T.active /\ n <= MaxTorrent

\* What Put makes of a sound torrent.
LEMMA PutStep ==
  ASSUME NEW T, Sound(T), NEW a \in Addrs, T.peer[a].st \notin Queues,
         NEW p \in PeerRec, p.fails < GiveUp, p.discs < GiveUp, Quiet(p),
         NEW Q, Queued(T, a, p, Q),
         NEW n \in Int, NEW m \in Int, NEW g \in Int, NEW h \in Int, Recount(T, a, p, n, m, g, h)
  PROVE  /\ Step(T, g, Result(Put(T, a, p, Q, n, m), h)) /\ Put(T, a, p, Q, n, m).q = Q
         /\ Put(T, a, p, Q, n, m).active = n
<1> DEFINE R == Put(T, a, p, Q, n, m)
<1>1. Typed(T) /\ Listed(T) /\ Counted(T, {})
  BY DEF Sound
<1>2. Typed(R) /\ R.q = Q /\ R.active = n /\ R.num = m
  BY <1>1, PutType
<1>3. Listed(R)
  BY <1>1, PutListed
<1>4. /\ Cardinality(LinkedIn(T)) \in Nat /\ Cardinality(Known(T)) \in Nat
      /\ Cardinality(LinkedIn(R)) = Cardinality(LinkedIn(T)) + (IF p.st \in Linked THEN 1 ELSE 0)
                                    - (IF T.peer[a].st \in Linked THEN 1 ELSE 0)
      /\ Cardinality(Known(R)) = Cardinality(Known(T)) + (IF p.st # "none" THEN 1 ELSE 0)
                                 - (IF T.peer[a].st # "none" THEN 1 ELSE 0)
  BY <1>1, PutCounts
<1>5. T.active = Cardinality(LinkedIn(T)) /\ T.num = Cardinality(Known(T))
  <2>1. LinkedIn(T) \ {} = LinkedIn(T)
    OBVIOUS
  <2>2. QED
    BY <1>1, <2>1 DEF Counted
<1> HIDE DEF R
<1>6. n = Cardinality(LinkedIn(R)) /\ m = Cardinality(Known(R)) /\ n <= MaxTorrent
  BY <1>4, <1>5 DEF Recount
<1>7. Counted(R, {})
  <2>1. LinkedIn(R) \ {} = LinkedIn(R)
    OBVIOUS
  <2>2. QED
    BY <1>2, <1>6, <2>1 DEF Counted
<1>8. h <= g + Cardinality(LinkedIn(R)) - Cardinality(LinkedIn(T))
  BY <1>4, <1>5, <1>6 DEF Recount
<1>9. Result(R, h).T = R /\ Result(R, h).g = h
  BY DEF Result
<1>10. Step(T, g, Result(R, h))
  BY <1>2, <1>3, <1>7, <1>8, <1>9 DEF Step, Sound
<1>11. QED
  BY <1>2, <1>9, <1>10 DEF R

\* The peers, and the lists of peer a, after it became p.
Follow(T, a, p, P, ru, un) ==
    /\ P = [T.peer EXCEPT ![a] = p]
    /\ ru = IF p.st = "running" THEN T.running \cup {a} ELSE T.running \ {a}
    /\ un = IF p.st = "running" /\ ~p.choking THEN T.unchoked \cup {a} ELSE T.unchoked \ {a}

Patched(T, P, Q, ru, un, n, m) ==
    [T EXCEPT !.peer = P, !.q = Q, !.running = ru, !.unchoked = un, !.active = n, !.num = m]

\* An EXCEPT that changes a peer, the queues, the lists and the counters is a Put.
LEMMA ExceptIsPut ==
  ASSUME NEW T, Typed(T), NEW a \in Addrs, NEW p \in PeerRec, p.fails < GiveUp, p.discs < GiveUp,
         NEW Q, Queued(T, a, p, Q), NEW n \in Int, NEW m \in Int,
         NEW P, NEW ru, NEW un, Follow(T, a, p, P, ru, un)
  PROVE  Patched(T, P, Q, ru, un, n, m) = Put(T, a, p, Q, n, m)
<1> DEFINE R == [T EXCEPT !.peer = P, !.q = Q, !.running = ru, !.unchoked = un, !.active = n, !.num = m]
           W == Put(T, a, p, Q, n, m)
<1>1. /\ W.open = T.open /\ W.peer = P /\ W.q = Q /\ W.running = ru /\ W.unchoked = un
      /\ W.active = n /\ W.num = m
  BY DEF Put, Follow
<1>2. W \in TorrentRec /\ T \in TorrentRec
  <2>1. Typed(W)
    BY PutType
  <2>2. QED
    BY <2>1 DEF Typed
<1> HIDE DEF W
<1>3. /\ P \in [Addrs -> PeerRec] /\ Q \in [Queues -> Seq(Addrs)] /\ ru \in SUBSET Addrs
      /\ un \in SUBSET Addrs
  BY <1>1, <1>2 DEF TorrentRec
<1>4. /\ R \in TorrentRec /\ R.open = T.open /\ R.peer = P /\ R.q = Q /\ R.running = ru
      /\ R.unchoked = un /\ R.active = n /\ R.num = m
  BY <1>2, <1>3 DEF TorrentRec
<1> HIDE DEF R
<1>5. /\ R.open = W.open /\ R.peer = W.peer /\ R.q = W.q /\ R.running = W.running
      /\ R.unchoked = W.unchoked /\ R.active = W.active /\ R.num = W.num
  BY <1>1, <1>4
<1>6. R = W
  BY <1>2, <1>4, <1>5, SameTorrent
<1>7. QED
  BY <1>6 DEF R, W, Patched

\* A connected peer stays connected, and its lists follow.
LEMMA LinkedStep ==
  ASSUME NEW T, Sound(T), NEW a \in Addrs, T.peer[a].st \in Linked, NEW g \in Int,
         NEW p \in PeerRec, p.st \in Linked, p.fails < GiveUp, p.discs < GiveUp,
         Quiet(p),
         NEW P, NEW ru, NEW un, Follow(T, a, p, P, ru, un)
  PROVE  LET r == Result([T EXCEPT !.peer = P, !.running = ru, !.unchoked = un], g) IN
         Step(T, g, r) /\ (Busy(T) => Busy(r.T))
<1> DEFINE R == [T EXCEPT !.peer = P, !.running = ru, !.unchoked = un]
           W == Put(T, a, p, T.q, T.active, T.num)
<1>1. /\ Typed(T) /\ T \in TorrentRec /\ T.active \in Int /\ T.num \in Int
      /\ T.active <= MaxTorrent
  BY Fields DEF Sound, Counted
<1>2. /\ Queued(T, a, p, T.q) /\ T.peer[a].st \notin Queues /\ T.peer[a].st # "none" /\ p.st # "none"
  BY DEF Queued, Queues, Linked
<1>3. [T EXCEPT !.peer = P, !.q = T.q, !.running = ru, !.unchoked = un, !.active = T.active, !.num = T.num] = W
  <2> DEFINE Q == T.q
             n == T.active
             m == T.num
  <2>1. Queued(T, a, p, Q) /\ n \in Int /\ m \in Int
    BY <1>1, <1>2
  <2> HIDE DEF Q, n, m
  <2>2. Patched(T, P, Q, ru, un, n, m) = Put(T, a, p, Q, n, m)
    BY <1>1, <2>1, ExceptIsPut
  <2>3. QED
    BY <2>2 DEF Q, n, m, Patched
<1>4. [T EXCEPT !.peer = P, !.q = T.q, !.running = ru, !.unchoked = un, !.active = T.active, !.num = T.num] = R
  BY <1>1 DEF TorrentRec
<1>5. R = W
  BY <1>3, <1>4
<1> DEFINE r == Result(W, g)
<1> HIDE DEF R, W
<1>6. Step(T, g, r) /\ r.T.q = T.q /\ r.T.active = T.active
  <2>1. /\ T.active = T.active + (IF p.st \in Linked THEN 1 ELSE 0) - (IF T.peer[a].st \in Linked THEN 1 ELSE 0)
        /\ T.num = T.num + (IF p.st # "none" THEN 1 ELSE 0) - (IF T.peer[a].st # "none" THEN 1 ELSE 0)
        /\ g = g + T.active - T.active
    BY <1>1, <1>2
  <2> DEFINE Q == T.q
             n == T.active
             m == T.num
  <2>2. /\ Queued(T, a, p, Q) /\ n \in Int /\ m \in Int /\ Recount(T, a, p, n, m, g, g)
    BY <1>1, <1>2, <2>1 DEF Recount
  <2> HIDE DEF Q, n, m
  <2>3. /\ Step(T, g, Result(Put(T, a, p, Q, n, m), g)) /\ Put(T, a, p, Q, n, m).q = Q
        /\ Put(T, a, p, Q, n, m).active = n
    <3>1. Sound(T) /\ T.peer[a].st \notin Queues
      BY <1>2
    <3>2. QED
      BY <2>2, <3>1, PutStep
  <2>4. r.T = W
    BY DEF Result
  <2>5. QED
    BY <2>3, <2>4 DEF W, Q, n, m
<1>7. Busy(T) => Busy(r.T)
  <2> HIDE DEF r
  <2>1. Waiting(r.T) = Waiting(T)
    BY <1>6 DEF Waiting
  <2>2. QED
    BY <1>6, <2>1 DEF Busy
<1>8. QED
  BY <1>5, <1>6, <1>7 DEF R

\* Connected, Handshake, Unchoke and Choke.
LEMMA PeerMoves ==
  ASSUME NEW T, Sound(T), NEW a \in Addrs, NEW g \in Int
  PROVE  LET Good(R) == Step(T, g, Result(R, g)) /\ (Busy(T) => Busy(R)) IN
         /\ T.peer[a].st = "connecting" =>
              Good([T EXCEPT !.peer[a].st = "handshake", !.peer[a].choking = TRUE])
         /\ T.peer[a].st = "handshake" =>
              Good([T EXCEPT !.running = @ \cup {a},
                             !.peer[a] = [@ EXCEPT !.st = "running", !.fails = 0, !.discs = 0]])
         /\ T.peer[a].st = "running" /\ T.peer[a].choking =>
              Good([T EXCEPT !.peer[a].choking = FALSE, !.unchoked = @ \cup {a}])
         /\ T.peer[a].st = "running" /\ ~T.peer[a].choking =>
              Good([T EXCEPT !.peer[a].choking = TRUE, !.unchoked = @ \ {a}])
<1> DEFINE Good(R) == Step(T, g, Result(R, g)) /\ (Busy(T) => Busy(R))
           o == T.peer[a]
<1>0. \A R : Result(R, g).T = R
  BY DEF Result
<1>1. /\ Typed(T) /\ T \in TorrentRec /\ T.peer \in [Addrs -> PeerRec] /\ o \in PeerRec
      /\ T.running = {b \in Addrs : T.peer[b].st = "running"}
      /\ T.unchoked = {b \in T.running : ~T.peer[b].choking}
      /\ o.fails < GiveUp /\ o.discs < GiveUp /\ 0 < GiveUp /\ GiveUp \in Nat
      /\ o.st # "running" => o.choking = TRUE
  BY Fields, Limits DEF Sound, Listed, Typed
<1>2. ASSUME o.st = "connecting"
      PROVE  Good([T EXCEPT !.peer[a].st = "handshake", !.peer[a].choking = TRUE])
  <2> DEFINE p == [o EXCEPT !.st = "handshake", !.choking = TRUE]
             P == [T.peer EXCEPT ![a] = p]
             ru == T.running
             un == T.unchoked
             R == [T EXCEPT !.peer[a].st = "handshake", !.peer[a].choking = TRUE]
  <2>1. /\ p \in PeerRec /\ p.st = "handshake" /\ p.fails = o.fails /\ p.discs = o.discs /\ p.choking = TRUE
    <3> HIDE DEF o
    <3>1. QED
      BY <1>1 DEF PeerRec, Linked
  <2>2. R = [T EXCEPT !.peer = P, !.running = ru, !.unchoked = un]
    BY <1>1 DEF TorrentRec
  <2>3. ru = T.running \ {a} /\ un = T.unchoked \ {a}
    BY <1>1, <1>2
  <2>4. p.st \in Linked /\ o.st \in Linked
    BY <1>2, <2>1 DEF Linked
  <2>5. Follow(T, a, p, P, ru, un) /\ Quiet(p)
    BY <2>1, <2>3 DEF Follow, Quiet
  <2> HIDE DEF p, R, ru, un, P
  <2>6. Step(T, g, Result(R, g)) /\ (Busy(T) => Busy(Result(R, g).T))
    BY <1>1, <2>1, <2>2, <2>3, <2>4, <2>5, LinkedStep
  <2>7. QED
    BY <1>0, <2>6 DEF R
<1>3. ASSUME o.st = "handshake"
      PROVE  Good([T EXCEPT !.running = @ \cup {a},
                             !.peer[a] = [@ EXCEPT !.st = "running", !.fails = 0, !.discs = 0]])
  <2> DEFINE p == [o EXCEPT !.st = "running", !.fails = 0, !.discs = 0]
             P == [T.peer EXCEPT ![a] = p]
             ru == T.running \cup {a}
             un == T.unchoked
             R == [T EXCEPT !.running = @ \cup {a},
                             !.peer[a] = [@ EXCEPT !.st = "running", !.fails = 0, !.discs = 0]]
  <2>1. /\ p \in PeerRec /\ p.st = "running" /\ p.fails = 0 /\ p.discs = 0 /\ p.choking = o.choking
    <3> HIDE DEF o
    <3>1. 0 \in 0 .. GiveUp /\ "running" \in Queues \cup Linked \cup {"none"}
      BY <1>1 DEF Linked
    <3>2. QED
      BY <1>1, <3>1 DEF PeerRec
  <2>2. R = [T EXCEPT !.peer = P, !.running = ru, !.unchoked = un]
    BY <1>1 DEF TorrentRec
  <2>3. un = T.unchoked \ {a} /\ p.choking = TRUE /\ p.fails < GiveUp /\ p.discs < GiveUp
    BY <1>1, <1>3, <2>1
  <2>4. p.st \in Linked /\ o.st \in Linked
    BY <1>3, <2>1 DEF Linked
  <2>5. Follow(T, a, p, P, ru, un) /\ Quiet(p)
    BY <2>1, <2>3 DEF Follow, Quiet
  <2> HIDE DEF p, R, ru, un, P
  <2>6. Step(T, g, Result(R, g)) /\ (Busy(T) => Busy(Result(R, g).T))
    BY <1>1, <2>1, <2>2, <2>3, <2>4, <2>5, LinkedStep
  <2>7. QED
    BY <1>0, <2>6 DEF R
<1>4. ASSUME o.st = "running", o.choking
      PROVE  Good([T EXCEPT !.peer[a].choking = FALSE, !.unchoked = @ \cup {a}])
  <2> DEFINE p == [o EXCEPT !.choking = FALSE]
             P == [T.peer EXCEPT ![a] = p]
             ru == T.running
             un == T.unchoked \cup {a}
             R == [T EXCEPT !.peer[a].choking = FALSE, !.unchoked = @ \cup {a}]
  <2>1. /\ p \in PeerRec /\ p.st = "running" /\ p.fails = o.fails /\ p.discs = o.discs /\ p.choking = FALSE
    BY <1>1, <1>4 DEF PeerRec, Linked
  <2>2. R = [T EXCEPT !.peer = P, !.running = ru, !.unchoked = un]
    BY <1>1 DEF TorrentRec
  <2>3. ru = T.running \cup {a}
    BY <1>1, <1>4
  <2>4. p.st \in Linked /\ o.st \in Linked
    BY <1>4, <2>1 DEF Linked
  <2>5. Follow(T, a, p, P, ru, un) /\ Quiet(p)
    BY <2>1, <2>3 DEF Follow, Quiet
  <2> HIDE DEF p, R, ru, un, P
  <2>6. Step(T, g, Result(R, g)) /\ (Busy(T) => Busy(Result(R, g).T))
    BY <1>1, <2>1, <2>2, <2>3, <2>4, <2>5, LinkedStep
  <2>7. QED
    BY <1>0, <2>6 DEF R
<1>5. ASSUME o.st = "running", ~o.choking
      PROVE  Good([T EXCEPT !.peer[a].choking = TRUE, !.unchoked = @ \ {a}])
  <2> DEFINE p == [o EXCEPT !.choking = TRUE]
             P == [T.peer EXCEPT ![a] = p]
             ru == T.running
             un == T.unchoked \ {a}
             R == [T EXCEPT !.peer[a].choking = TRUE, !.unchoked = @ \ {a}]
  <2>1. /\ p \in PeerRec /\ p.st = "running" /\ p.fails = o.fails /\ p.discs = o.discs /\ p.choking = TRUE
    BY <1>1, <1>5 DEF PeerRec, Linked
  <2>2. R = [T EXCEPT !.peer = P, !.running = ru, !.unchoked = un]
    BY <1>1 DEF TorrentRec
  <2>3. ru = T.running \cup {a}
    BY <1>1, <1>5
  <2>4. p.st \in Linked /\ o.st \in Linked
    BY <1>5, <2>1 DEF Linked
  <2>5. Follow(T, a, p, P, ru, un) /\ Quiet(p)
    BY <2>1, <2>3 DEF Follow, Quiet
  <2> HIDE DEF p, R, ru, un, P
  <2>6. Step(T, g, Result(R, g)) /\ (Busy(T) => Busy(Result(R, g).T))
    BY <1>1, <2>1, <2>2, <2>3, <2>4, <2>5, LinkedStep
  <2>7. QED
    BY <1>0, <2>6 DEF R
<1>6. QED
  BY <1>2, <1>3, <1>4, <1>5

\* peer_add of a peer that is not known yet.
LEMMA AddIs ==
  ASSUME NEW T, Sound(T), NEW a \in Addrs, T.peer[a].st = "none", NEW g \in Int
  PROVE  LET S == [T EXCEPT !.num = @ + 1]
             r == IF Full(S, g)
                  THEN Result([S EXCEPT !.peer[a].st = "inactive", !.q["inactive"] = Append(@, a)], g)
                  ELSE Connect(S, g, a) IN
         Step(T, g, r) /\ (Busy(T) /\ ~(S.active < MaxTorrent /\ g >= MaxGlobal) => Busy(r.T))
<1> DEFINE S == [T EXCEPT !.num = @ + 1]
           o == T.peer[a]
           ru == T.running
           un == T.unchoked
           m == T.num + 1
           r == IF Full(S, g)
                THEN Result([S EXCEPT !.peer[a].st = "inactive", !.q["inactive"] = Append(@, a)], g)
                ELSE Connect(S, g, a)
<1>1. /\ Typed(T) /\ T \in TorrentRec /\ T.peer \in [Addrs -> PeerRec] /\ o \in PeerRec
      /\ T.running = {b \in Addrs : T.peer[b].st = "running"}
      /\ T.unchoked = {b \in T.running : ~T.peer[b].choking}
      /\ o.fails < GiveUp /\ o.discs < GiveUp /\ o.choking = TRUE /\ o.st = "none"
      /\ T.active \in Int /\ T.num \in Int /\ T.active <= MaxTorrent /\ MaxTorrent \in Nat
      /\ MaxTorrent >= 1 /\ m \in Int /\ T.q \in [Queues -> Seq(Addrs)]
      /\ T.q["inactive"] \in Seq(Addrs)
  BY Fields, Limits DEF Sound, Listed, Typed, Counted, Queues
<1>2. /\ S.active = T.active /\ S \in TorrentRec /\ S.open = T.open /\ S.peer = T.peer
      /\ S.q = T.q /\ S.running = ru /\ S.unchoked = un /\ S.num = m
  <2> HIDE DEF m
  <2>1. S = [T EXCEPT !.num = m]
    BY DEF m
  <2> HIDE DEF S
  <2>2. QED
    BY <1>1, <2>1 DEF TorrentRec
<1>3. ru = T.running \ {a} /\ un = T.unchoked \ {a}
  BY <1>1
<1>4. T.active >= 0
  <2>1. LinkedIn(T) \ {} \in SUBSET Addrs
    BY DEF LinkedIn
  <2>2. Cardinality(LinkedIn(T) \ {}) \in Nat
    BY <2>1, FinitePeers
  <2>3. QED
    BY <2>2 DEF Sound, Counted
<1>5. CASE Full(S, g)
  <2> DEFINE p == [o EXCEPT !.st = "inactive"]
             P == [T.peer EXCEPT ![a] = p]
             Q == [T.q EXCEPT !["inactive"] = Append(@, a)]
             n == T.active
             R == [S EXCEPT !.peer[a].st = "inactive", !.q["inactive"] = Append(@, a)]
  <2>1. /\ p \in PeerRec /\ p.st = "inactive" /\ p.fails = o.fails /\ p.discs = o.discs /\ p.choking = TRUE
    <3> HIDE DEF o
    <3>1. QED
      BY <1>1 DEF PeerRec, Queues
  <2>2. R = [S EXCEPT !.peer = P, !.q = Q]
    BY <1>2 DEF TorrentRec
  <2>3. Patched(T, P, Q, ru, un, n, m) = [T EXCEPT !.peer = P, !.q = Q, !.num = m]
    <3> HIDE DEF P, Q, m
    <3>1. QED
      BY <1>1 DEF Patched, TorrentRec
  <2>4. [T EXCEPT !.peer = P, !.q = Q, !.num = m] = [S EXCEPT !.peer = P, !.q = Q]
    <3> HIDE DEF P, Q
    <3>1. QED
      BY <1>1 DEF TorrentRec
  <2>5. Follow(T, a, p, P, ru, un) /\ Quiet(p)
    BY <1>3, <2>1 DEF Follow, Quiet
  <2>6. Queued(T, a, p, Q)
    BY <2>1 DEF Queued, Queues
  <2>7. Recount(T, a, p, n, m, g, g) /\ o.st \notin Queues
    BY <1>1, <2>1 DEF Recount, Linked, Queues
  <2>8. r = Result(R, g)
    BY <1>5
  <2>9. n \in Int
    BY <1>1
  <2> HIDE DEF p, P, Q, ru, un, n, m, S, R, r
  <2>10. R = Put(T, a, p, Q, n, m)
    <3>1. Patched(T, P, Q, ru, un, n, m) = Put(T, a, p, Q, n, m)
      BY <1>1, <2>1, <2>5, <2>6, <2>9, ExceptIsPut
    <3>2. QED
      BY <2>2, <2>3, <2>4, <3>1
  <2>11. Step(T, g, Result(R, g)) /\ R.active = n
    BY <1>1, <2>1, <2>5, <2>6, <2>7, <2>9, <2>10, PutStep
  <2>12. r.T = R
    BY <2>8 DEF Result
  <2>13. ~(S.active < MaxTorrent /\ g >= MaxGlobal) => Busy(R)
    <3> SUFFICES ASSUME ~(S.active < MaxTorrent /\ g >= MaxGlobal)
                 PROVE  Busy(R)
      OBVIOUS
    <3>1. R.active >= MaxTorrent
      BY <1>1, <1>2, <1>5, <2>11 DEF Full, n
    <3>2. R.active # 0
      BY <1>1, <2>9, <2>11, <3>1
    <3>3. QED
      BY <3>1, <3>2 DEF Busy
  <2>14. QED
    BY <2>8, <2>11, <2>12, <2>13 DEF r, S
<1>6. CASE ~Full(S, g)
  <2> DEFINE p == [o EXCEPT !.st = "connecting"]
             P == [T.peer EXCEPT ![a] = p]
             Q == T.q
             n == T.active + 1
             h == g + 1
             R == [S EXCEPT !.peer[a].st = "connecting", !.active = @ + 1]
  <2>1. /\ p \in PeerRec /\ p.st = "connecting" /\ p.fails = o.fails /\ p.discs = o.discs /\ p.choking = TRUE
    <3> HIDE DEF o
    <3>1. QED
      BY <1>1 DEF PeerRec, Linked
  <2>2. R = [S EXCEPT !.peer = P, !.active = n]
    BY <1>2 DEF TorrentRec
  <2>3. Patched(T, P, Q, ru, un, n, m) = [T EXCEPT !.peer = P, !.active = n, !.num = m]
    <3> HIDE DEF P, n, m
    <3>1. QED
      BY <1>1 DEF Patched, TorrentRec
  <2>4. [T EXCEPT !.peer = P, !.active = n, !.num = m] = [S EXCEPT !.peer = P, !.active = n]
    <3> HIDE DEF P, n
    <3>1. QED
      BY <1>1 DEF TorrentRec
  <2>5. Follow(T, a, p, P, ru, un) /\ Quiet(p)
    BY <1>3, <2>1 DEF Follow, Quiet
  <2>6. Queued(T, a, p, Q)
    BY <2>1 DEF Queued, Queues
  <2>7. T.active < MaxTorrent
    BY <1>1, <1>2, <1>6 DEF Full
  <2>8. Recount(T, a, p, n, m, g, h) /\ o.st \notin Queues
    BY <1>1, <2>1, <2>7 DEF Recount, Linked, Queues
  <2>9. r = Result(R, h)
    BY <1>6 DEF Connect
  <2>10. n \in Int /\ h \in Int
    BY <1>1
  <2> HIDE DEF p, P, Q, ru, un, n, m, S, R, r, h
  <2>11. R = Put(T, a, p, Q, n, m)
    <3>1. Patched(T, P, Q, ru, un, n, m) = Put(T, a, p, Q, n, m)
      BY <1>1, <2>1, <2>5, <2>6, <2>10, ExceptIsPut
    <3>2. QED
      BY <2>2, <2>3, <2>4, <3>1
  <2>12. Step(T, g, Result(R, h)) /\ R.active = n /\ R.q = Q
    BY <1>1, <2>1, <2>5, <2>6, <2>8, <2>10, <2>11, PutStep
  <2>13. r.T = R
    BY <2>9 DEF Result
  <2>14. Busy(T) => Busy(R)
    <3> SUFFICES ASSUME Busy(T)
                 PROVE  Busy(R)
      OBVIOUS
    <3>1. ~(T.active >= MaxTorrent)
      BY <1>1, <2>7
    <3>2. R.q["inactive"] = <<>>
      BY <2>12, <3>1 DEF Busy, Q
    <3>3. R.active # 0
      BY <1>1, <1>4, <2>12 DEF n
    <3>4. QED
      BY <3>2, <3>3 DEF Busy
  <2>15. QED
    BY <2>9, <2>12, <2>13, <2>14 DEF r, S
<1>7. QED
  BY <1>5, <1>6

LEMMA FreshIs == Sound(Fresh) /\ Busy(Fresh) /\ Cardinality(LinkedIn(Fresh)) = 0
<1> DEFINE N == [a \in Addrs |-> NoPeer]
           E == [x \in Queues |-> <<>>]
<1>1. NoPeer \in PeerRec /\ NoPeer.st = "none" /\ NoPeer.fails = 0 /\ NoPeer.discs = 0 /\ NoPeer.choking = TRUE
  BY Limits DEF PeerRec, NoPeer
<1>2. N \in [Addrs -> PeerRec] /\ E \in [Queues -> Seq(Addrs)] /\ \A a \in Addrs : N[a] = NoPeer
  BY <1>1
<1>3. /\ Fresh.open = FALSE /\ Fresh.peer = N /\ Fresh.q = E /\ Fresh.running = {}
      /\ Fresh.unchoked = {} /\ Fresh.active = 0 /\ Fresh.num = 0
  BY DEF Fresh
<1>4. Fresh \in TorrentRec
  <2>1. Fresh = [open |-> FALSE, peer |-> N, q |-> E, running |-> {}, unchoked |-> {}, active |-> 0, num |-> 0]
    BY DEF Fresh
  <2> HIDE DEF N, E
  <2>2. QED
    BY <1>2, <2>1 DEF TorrentRec
<1>5. \A x \in Queues : Fresh.q[x] = <<>> /\ Len(Fresh.q[x]) = 0
  BY <1>3
<1> HIDE DEF N, E
<1>6. Typed(Fresh)
  BY <1>1, <1>2, <1>3, <1>4, Limits DEF Typed
<1>7. \A a \in Addrs : Fresh.peer[a].st = "none" /\ Fresh.peer[a].choking = TRUE
  BY <1>1, <1>2, <1>3
<1>8. Listed(Fresh)
  <2>1. \A x \in Queues : 1 .. Len(Fresh.q[x]) = {}
    BY <1>5
  <2>2. QED
    BY <1>3, <1>7, <2>1 DEF Listed, Queues
<1>9. LinkedIn(Fresh) = {} /\ Known(Fresh) = {}
  BY <1>7 DEF LinkedIn, Known, Linked
<1>10. Cardinality({}) = 0
  BY FS_EmptySet
<1>11. Counted(Fresh, {})
  <2>1. {} \ {} = {}
    OBVIOUS
  <2>2. QED
    BY <1>3, <1>9, <1>10, <2>1, Limits DEF Counted
<1>12. Busy(Fresh)
  <2>1. /\ Len(Fresh.q["inactive"]) = 0 /\ Len(Fresh.q["disconnected"]) = 0
        /\ Len(Fresh.q["failed"]) = 0 /\ Fresh.q["inactive"] = <<>>
    BY <1>5 DEF Queues
  <2>2. Waiting(Fresh) = 0
    BY <2>1 DEF Waiting
  <2>3. QED
    BY <2>1, <2>2 DEF Busy
<1>13. QED
  BY <1>6, <1>8, <1>9, <1>10, <1>11, <1>12 DEF Sound

\* peer_shutdown_all.
LEMMA ShutdownAllIs ==
  ASSUME NEW T, Sound(T), NEW g \in Int
  PROVE  LET r == ShutdownAll(T, g) IN Step(T, g, r) /\ r.T = Fresh
<1> DEFINE X == {a \in Addrs : T.peer[a].st \notin {"none", "inactive"}}
           r == ShutdownAll(T, g)
<1>1. r.T = Fresh /\ r.g = g - Cardinality(X)
  BY DEF ShutdownAll, Result
<1>2. X \in SUBSET Addrs /\ LinkedIn(T) \in SUBSET Addrs /\ LinkedIn(T) \subseteq X
  BY DEF LinkedIn, Linked
<1> HIDE DEF X, r
<1>3. /\ IsFiniteSet(X) /\ Cardinality(X) \in Nat /\ Cardinality(LinkedIn(T)) \in Nat
      /\ Cardinality(LinkedIn(T)) <= Cardinality(X)
  <2>1. IsFiniteSet(X) /\ Cardinality(X) \in Nat /\ Cardinality(LinkedIn(T)) \in Nat
    BY <1>2, FinitePeers
  <2>2. QED
    BY <1>2, <2>1, FS_Subset
<1>4. Sound(Fresh) /\ Cardinality(LinkedIn(Fresh)) = 0
  BY FreshIs
<1>5. g - Cardinality(X) <= g + 0 - Cardinality(LinkedIn(T)) /\ g - Cardinality(X) \in Int
  BY <1>3
<1>6. QED
  BY <1>1, <1>4, <1>5 DEF Step, r

-----------------------------------------------------------------------------
(* All torrents.                                                            *)

LEMMA LinksAre == {c \in Torrents \X Addrs : c[2] \in LinkedPeers(c[1])} = Links(to)
  BY DEF Links, LinkedPeers, LinkedIn, St

NoLeak == global <= LinkSum(to)

LEMMA LeakIs == NoSlotLeaks <=> NoLeak
  BY LinksAre DEF NoSlotLeaks, NoLeak, LinkSum

LEMMA FiniteLinks == \A f : IsFiniteSet(Links(f)) /\ LinkSum(f) \in Nat
<1>1. IsFiniteSet(Torrents \X Addrs)
  BY PeerSetConstants, FS_Product
<1>2. \A f : Links(f) \in SUBSET (Torrents \X Addrs)
  BY DEF Links
<1>3. QED
  BY <1>1, <1>2, FS_Subset, FS_CardinalityType DEF LinkSum

\* What a change of one torrent does to the number of connections.
LEMMA LinkSumChange ==
  ASSUME NEW f, NEW h, NEW t \in Torrents, h = [f EXCEPT ![t] = h[t]], DOMAIN f = Torrents
  PROVE  /\ LinkSum(f) \in Nat /\ LinkSum(h) \in Nat
         /\ Cardinality(LinkedIn(f[t])) \in Nat /\ Cardinality(LinkedIn(h[t])) \in Nat
         /\ LinkSum(h) = LinkSum(f) + Cardinality(LinkedIn(h[t])) - Cardinality(LinkedIn(f[t]))
<1> DEFINE Rest == {c \in Links(f) : c[1] # t}
           Mine(T) == {t} \X LinkedIn(T)
<1>1. \A T : IsFiniteSet(LinkedIn(T)) /\ Cardinality(LinkedIn(T)) \in Nat
  BY FinitePeers DEF LinkedIn
<1>2. \A T : IsFiniteSet(Mine(T)) /\ Cardinality(Mine(T)) = Cardinality(LinkedIn(T))
  <2> SUFFICES ASSUME NEW T
               PROVE  IsFiniteSet(Mine(T)) /\ Cardinality(Mine(T)) = Cardinality(LinkedIn(T))
    OBVIOUS
  <2>1. IsFiniteSet({t}) /\ Cardinality({t}) = 1
    BY FS_Singleton
  <2>2. IsFiniteSet(Mine(T)) /\ Cardinality(Mine(T)) = 1 * Cardinality(LinkedIn(T))
    BY <1>1, <2>1, FS_Product
  <2>3. QED
    BY <1>1, <2>2
<1>3. IsFiniteSet(Rest) /\ Cardinality(Rest) \in Nat
  BY FiniteLinks, FS_Subset, FS_CardinalityType
<1>4. Links(f) = Rest \cup Mine(f[t]) /\ Links(h) = Rest \cup Mine(h[t])
  <2>1. \A u \in Torrents \ {t} : h[u] = f[u]
    OBVIOUS
  <2>2. LinkedIn(f[t]) \subseteq Addrs /\ LinkedIn(h[t]) \subseteq Addrs
    BY DEF LinkedIn
  <2>3. QED
    BY <2>1, <2>2 DEF Links
<1>5. Rest \cap Mine(f[t]) = {} /\ Rest \cap Mine(h[t]) = {}
  OBVIOUS
<1> HIDE DEF Rest, Mine
<1>6. /\ Cardinality(Links(f)) = Cardinality(Rest) + Cardinality(Mine(f[t])) - Cardinality({})
      /\ Cardinality(Links(h)) = Cardinality(Rest) + Cardinality(Mine(h[t])) - Cardinality({})
  BY <1>2, <1>3, <1>4, <1>5, FS_Union
<1>7. QED
  BY <1>1, <1>2, <1>3, <1>6, FiniteLinks, FS_EmptySet DEF LinkSum

LEMMA StepInv ==
  ASSUME IInv, NEW t \in Torrents, NEW r, Step(to[t], global, r),
         to' = [to EXCEPT ![t] = r.T], global' = r.g, capped' \subseteq Torrents,
         capped \ {t} \subseteq capped', t \notin capped' => Busy(r.T), opens' \in 0 .. MaxOpens
  PROVE  IInv'
<1>1. /\ DOMAIN to = Torrents /\ to = [u \in Torrents |-> to[u]]
      /\ \A u \in Torrents : Sound(to[u])
      /\ \A u \in Torrents \ capped : Busy(to[u])
      /\ global \in Int /\ NoSlotLeaks
  BY DEF IInv
<1>2. /\ Sound(r.T) /\ r.g \in Int
      /\ r.g <= global + Cardinality(LinkedIn(r.T)) - Cardinality(LinkedIn(to[t]))
  BY DEF Step
<1>3. /\ DOMAIN to' = Torrents /\ to' = [u \in Torrents |-> to'[u]] /\ to'[t] = r.T
      /\ \A u \in Torrents \ {t} : to'[u] = to[u]
  BY <1>1
<1>4. \A u \in Torrents : Sound(to'[u])
  BY <1>1, <1>2, <1>3
<1>5. \A u \in Torrents \ capped' : Busy(to'[u])
  BY <1>1, <1>3
<1>6. /\ LinkSum(to) \in Nat /\ LinkSum(to') \in Nat
      /\ Cardinality(LinkedIn(to[t])) \in Nat /\ Cardinality(LinkedIn(to'[t])) \in Nat
      /\ LinkSum(to') = LinkSum(to) + Cardinality(LinkedIn(to'[t])) - Cardinality(LinkedIn(to[t]))
  <2>1. to' = [to EXCEPT ![t] = to'[t]]
    BY <1>3
  <2>2. QED
    BY <1>1, <2>1, LinkSumChange
<1>7. NoLeak
  BY <1>1, LeakIs
<1>8. global' <= LinkSum(to')
  BY <1>1, <1>2, <1>3, <1>6, <1>7 DEF NoLeak
<1>9. NoSlotLeaks'
  <2>1. NoLeak'
    BY <1>8 DEF NoLeak
  <2>2. (NoSlotLeaks <=> NoLeak)'
    BY LeakIs, PTL
  <2>3. QED
    BY <2>1, <2>2
<1>10. QED
  BY <1>2, <1>3, <1>4, <1>5, <1>9 DEF IInv

\* Becomes, with a step that denies a torrent a connection only when it says so.
LEMMA BecomesInv ==
  ASSUME IInv, NEW t \in Torrents, NEW r, NEW denied, Step(to[t], global, r),
         Busy(to[t]) /\ ~denied => Busy(r.T), Becomes(t, r, denied)
  PROVE  IInv'
<1>1. /\ to' = [to EXCEPT ![t] = r.T] /\ global' = r.g /\ opens' = opens
      /\ capped' = IF denied THEN capped \cup {t} ELSE capped
  BY DEF Becomes
<1>2. capped \subseteq Torrents /\ opens \in 0 .. MaxOpens /\ \A u \in Torrents \ capped : Busy(to[u])
  BY DEF IInv
<1>3. capped' \subseteq Torrents /\ capped \ {t} \subseteq capped'
  BY <1>1, <1>2
<1>4. t \notin capped' => Busy(r.T)
  BY <1>1, <1>2
<1>5. QED
  BY <1>1, <1>2, <1>3, <1>4, StepInv

LEMMA InitInv == Init => IInv
<1> SUFFICES ASSUME Init
             PROVE  IInv
  OBVIOUS
<1>1. /\ to = [t \in Torrents |-> Fresh] /\ global = 0 /\ capped = {} /\ opens = 0
  BY DEF Init
<1>2. \A t \in Torrents : to[t] = Fresh
  BY <1>1
<1>3. \A t \in Torrents : Sound(to[t]) /\ Busy(to[t])
  BY <1>2, FreshIs
<1>4. NoSlotLeaks
  <2>1. LinkSum(to) \in Nat
    BY FiniteLinks
  <2>2. NoLeak
    BY <1>1, <2>1 DEF NoLeak
  <2>3. QED
    BY <2>2, LeakIs
<1>5. QED
  BY <1>1, <1>3, <1>4, Limits DEF IInv

LEMMA NextInv == IInv /\ [Next]_vars => IInv'
<1> SUFFICES ASSUME IInv, [Next]_vars
             PROVE  IInv'
  OBVIOUS
<1>0. /\ \A t \in Torrents : Sound(to[t])
      /\ DOMAIN to = Torrents /\ global \in Int /\ opens \in 0 .. MaxOpens /\ capped \subseteq Torrents
      /\ \A t \in Torrents \ capped : Busy(to[t])
  BY DEF IInv
<1>1. ASSUME NEW t \in Torrents, Open(t)
      PROVE  IInv'
  <2> DEFINE T == to[t]
             R == [T EXCEPT !.open = TRUE]
             r == Result(R, global)
  <2>1. /\ to' = [to EXCEPT ![t] = R] /\ opens' = opens + 1 /\ opens < MaxOpens
        /\ global' = global /\ capped' = capped
    BY <1>0, <1>1 DEF Open
  <2>2. Sound(T) /\ Typed(T) /\ T \in TorrentRec
    BY <1>0 DEF Sound, Typed
  <2>3. /\ R \in TorrentRec /\ R.peer = T.peer /\ R.q = T.q /\ R.running = T.running
        /\ R.unchoked = T.unchoked /\ R.active = T.active /\ R.num = T.num
    BY <2>2 DEF TorrentRec
  <2>4. r.T = R /\ r.g = global
    BY DEF Result
  <2> HIDE DEF R, T, r
  <2>5. LinkedIn(R) = LinkedIn(T) /\ Known(R) = Known(T) /\ Waiting(R) = Waiting(T)
    BY <2>3 DEF LinkedIn, Known, Waiting
  <2>6. Typed(R) /\ Listed(R) /\ Counted(R, {}) /\ (Busy(T) => Busy(R))
    <3>1. Typed(R)
      BY <2>2, <2>3 DEF Typed
    <3>2. Listed(R)
      BY <2>2, <2>3 DEF Listed, Sound
    <3>3. Counted(R, {})
      BY <2>2, <2>3, <2>5 DEF Counted, Sound
    <3>4. Busy(T) => Busy(R)
      BY <2>3, <2>5 DEF Busy
    <3>5. QED
      BY <3>1, <3>2, <3>3, <3>4
  <2>7. Step(T, global, r)
    <3>1. Cardinality(LinkedIn(T)) \in Nat
      BY FinitePeers DEF LinkedIn
    <3>2. global <= global + Cardinality(LinkedIn(R)) - Cardinality(LinkedIn(T))
      BY <1>0, <2>5, <3>1
    <3>3. QED
      BY <1>0, <2>4, <2>6, <3>2 DEF Step, Sound
  <2>8. opens' \in 0 .. MaxOpens
    BY <1>0, <2>1, Limits
  <2>9. t \notin capped' => Busy(r.T)
    BY <1>0, <2>1, <2>4, <2>6 DEF T
  <2>10. Step(to[t], global, r) /\ to' = [to EXCEPT ![t] = r.T] /\ global' = r.g
    BY <2>1, <2>4, <2>7 DEF T
  <2>11. QED
    BY <1>0, <2>1, <2>8, <2>9, <2>10, StepInv
<1>2. ASSUME NEW t \in Torrents, Close(t)
      PROVE  IInv'
  <2> DEFINE r == ShutdownAll(to[t], global)
  <2>1. /\ to' = [to EXCEPT ![t] = r.T] /\ global' = r.g /\ opens' = opens /\ capped' = capped \ {t}
    BY <1>2 DEF Close
  <2>2. Step(to[t], global, r) /\ r.T = Fresh
    BY <1>0, ShutdownAllIs
  <2> HIDE DEF r
  <2>3. Busy(r.T)
    BY <2>2, FreshIs
  <2>4. QED
    BY <1>0, <2>1, <2>2, <2>3, StepInv
<1>3. ASSUME NEW t \in Torrents, NEW a \in Addrs, Add(t, a)
      PROVE  IInv'
  <2> DEFINE T == to[t]
             S == [T EXCEPT !.num = @ + 1]
             r == IF Full(S, global)
                  THEN Result([S EXCEPT !.peer[a].st = "inactive", !.q["inactive"] = Append(@, a)], global)
                  ELSE Connect(S, global, a)
             d == S.active < MaxTorrent /\ global >= MaxGlobal
  <2>1. T.peer[a].st = "none" /\ Becomes(t, r, d)
    BY <1>3 DEF Add
  <2>2. Step(T, global, r) /\ (Busy(T) /\ ~d => Busy(r.T))
    <3> HIDE DEF T
    <3>1. Sound(T)
      BY <1>0 DEF T
    <3>2. QED
      BY <1>0, <2>1, <3>1, AddIs
  <2> HIDE DEF r, d
  <2>3. QED
    BY <2>1, <2>2, BecomesInv
<1>4. ASSUME NEW t \in Torrents, NEW a \in Addrs,
             Connected(t, a) \/ Handshake(t, a) \/ Unchoke(t, a) \/ Choke(t, a)
      PROVE  IInv'
  <2> DEFINE T == to[t]
             Good(R) == Step(T, global, Result(R, global)) /\ (Busy(T) => Busy(R))
             R1 == [T EXCEPT !.peer[a].st = "handshake", !.peer[a].choking = TRUE]
             R2 == [T EXCEPT !.running = @ \cup {a},
                             !.peer[a] = [@ EXCEPT !.st = "running", !.fails = 0, !.discs = 0]]
             R3 == [T EXCEPT !.peer[a].choking = FALSE, !.unchoked = @ \cup {a}]
             R4 == [T EXCEPT !.peer[a].choking = TRUE, !.unchoked = @ \ {a}]
  <2>1. /\ T.peer[a].st = "connecting" => Good(R1)
        /\ T.peer[a].st = "handshake" => Good(R2)
        /\ T.peer[a].st = "running" /\ T.peer[a].choking => Good(R3)
        /\ T.peer[a].st = "running" /\ ~T.peer[a].choking => Good(R4)
    BY <1>0, PeerMoves
  <2>2. \/ T.peer[a].st = "connecting" /\ Becomes(t, Result(R1, global), FALSE)
        \/ T.peer[a].st = "handshake" /\ Becomes(t, Result(R2, global), FALSE)
        \/ T.peer[a].st = "running" /\ T.peer[a].choking /\ Becomes(t, Result(R3, global), FALSE)
        \/ T.peer[a].st = "running" /\ ~T.peer[a].choking /\ Becomes(t, Result(R4, global), FALSE)
    BY <1>4 DEF Connected, Handshake, Unchoke, Choke, St
  <2> HIDE DEF R1, R2, R3, R4
  <2>3. PICK R : Good(R) /\ Becomes(t, Result(R, global), FALSE)
    BY <2>1, <2>2
  <2>4. Result(R, global).T = R
    BY DEF Result
  <2> DEFINE r == Result(R, global)
  <2> HIDE DEF r
  <2>5. Step(to[t], global, r) /\ (Busy(to[t]) /\ ~FALSE => Busy(r.T)) /\ Becomes(t, r, FALSE)
    BY <2>3, <2>4 DEF r
  <2>6. QED
    BY <2>5, BecomesInv
<1>5. ASSUME NEW t \in Torrents, NEW a \in Addrs, Error(t, a) \/ Disconnect(t, a)
      PROVE  IInv'
  <2>1. PICK next \in {"none", "failed", "disconnected"} :
            a \in LinkedIn(to[t]) /\ Ends(t, a, next)
    <3>1. CASE Error(t, a)
      BY <3>1 DEF Error, St, LinkedIn
    <3>2. CASE Disconnect(t, a)
      BY <3>2 DEF Disconnect, St, LinkedIn, Linked
    <3>3. QED
      BY <1>5, <3>1, <3>2
  <2> DEFINE r == Shutdown(to[t], global, a, next)
             d == global - 1 >= MaxGlobal
  <2>2. Becomes(t, r, d)
    BY <2>1 DEF Ends
  <2>3. Step(to[t], global, r) /\ (Busy(to[t]) /\ ~d => Busy(r.T))
    BY <1>0, <2>1, ShutdownIs
  <2> HIDE DEF r, d
  <2>4. QED
    BY <2>2, <2>3, BecomesInv
<1>6. ASSUME UNCHANGED vars
      PROVE  IInv'
  <2>1. (NoSlotLeaks <=> NoLeak)'
    BY LeakIs, PTL
  <2>2. NoLeak
    BY LeakIs DEF IInv
  <2>3. to' = to /\ global' = global /\ capped' = capped /\ opens' = opens
    BY <1>6 DEF vars
  <2>4. NoSlotLeaks'
    BY <2>1, <2>2, <2>3 DEF NoLeak
  <2>5. QED
    BY <2>3, <2>4 DEF IInv
<1>7. QED
  BY <1>1, <1>2, <1>3, <1>4, <1>5, <1>6 DEF Next

\* The inductive invariant: every torrent is sound, the torrents the global limit never
\* denied a connection are busy, and the global counter is not above the connections.
THEOREM PeerSetInductive == Spec => []IInv
<1>1. QED
  BY InitInv, NextInv, PTL DEF Spec

\* The lists and counters of every torrent agree with the states of its peers, and no
\* torrent has more connections than it may.
THEOREM ListsAndCounters == Spec => []PeerSetInv
<1>1. IInv => PeerSetInv
  <2> SUFFICES ASSUME IInv
               PROVE  PeerSetInv
    OBVIOUS
  <2>1. /\ to = [t \in Torrents |-> to[t]] /\ \A t \in Torrents : Sound(to[t])
        /\ global \in Int /\ capped \subseteq Torrents /\ opens \in 0 .. MaxOpens
    BY DEF IInv
  <2>2. TypeOK
    <3>1. \A t \in Torrents : to[t] \in TorrentRec
      BY <2>1 DEF Sound, Typed
    <3>2. to \in [Torrents -> TorrentRec]
      BY <2>1, <3>1
    <3>3. QED
      BY <2>1, <3>2 DEF TypeOK, Sound, Typed
  <2>3. \A t \in Torrents : LinkedPeers(t) = LinkedIn(to[t])
                            /\ {a \in Addrs : St(t, a) # "none"} = Known(to[t])
    BY DEF LinkedPeers, LinkedIn, Known, St
  <2>4. TorrentCountsExact /\ TorrentLimitKept
    <3>1. \A t \in Torrents : LinkedIn(to[t]) \ {} = LinkedIn(to[t])
      OBVIOUS
    <3>2. QED
      BY <2>1, <2>3, <3>1 DEF TorrentCountsExact, TorrentLimitKept, Sound, Counted
  <2>5. ListsFitStates
    <3> SUFFICES ASSUME NEW t \in Torrents
                 PROVE  /\ \A x \in Queues, a \in Addrs :
                              Cardinality({i \in DOMAIN to[t].q[x] : to[t].q[x][i] = a})
                                 = IF St(t, a) = x THEN 1 ELSE 0
                        /\ to[t].running = {a \in Addrs : St(t, a) = "running"}
                        /\ to[t].unchoked = {a \in to[t].running : ~to[t].peer[a].choking}
      BY DEF ListsFitStates
    <3> DEFINE T == to[t]
    <3>1. Typed(T) /\ Listed(T)
      BY <2>1 DEF Sound
    <3>2. to[t].running = {a \in Addrs : St(t, a) = "running"}
      BY <3>1 DEF Listed, St
    <3>3. to[t].unchoked = {a \in to[t].running : ~to[t].peer[a].choking}
      BY <3>1 DEF Listed
    <3>4. ASSUME NEW x \in Queues, NEW a \in Addrs
          PROVE  Cardinality({i \in DOMAIN to[t].q[x] : to[t].q[x][i] = a}) = IF St(t, a) = x THEN 1 ELSE 0
      <4> DEFINE I == {i \in DOMAIN T.q[x] : T.q[x][i] = a}
      <4>1. T.q[x] \in Seq(Addrs)
        BY <3>1, Fields
      <4>2. DOMAIN T.q[x] = 1 .. Len(T.q[x])
        BY <4>1
      <4>3. St(t, a) = T.peer[a].st
        BY DEF St
      <4> HIDE DEF T
      <4>4. CASE T.peer[a].st = x
        <5>1. PICK i \in 1 .. Len(T.q[x]) : T.q[x][i] = a
          BY <3>1, <4>4 DEF Listed
        <5>2. I = {i}
          BY <3>1, <4>2, <5>1 DEF Listed
        <5>3. Cardinality({i}) = 1
          BY FS_Singleton
        <5>4. Cardinality(I) = 1
          BY <5>2, <5>3
        <5> HIDE DEF I
        <5>5. QED
          BY <4>3, <4>4, <5>4 DEF I, T
      <4>5. CASE T.peer[a].st # x
        <5>1. I = {}
          BY <3>1, <4>2, <4>5 DEF Listed
        <5>2. Cardinality({}) = 0
          BY FS_EmptySet
        <5>3. Cardinality(I) = 0
          BY <5>1, <5>2
        <5> HIDE DEF I
        <5>4. QED
          BY <4>3, <4>5, <5>3 DEF I, T
      <4>6. QED
        BY <4>4, <4>5
    <3>5. QED
      BY <3>2, <3>3, <3>4
  <2>6. QED
    BY <2>2, <2>4, <2>5 DEF PeerSetInv
<1>2. QED
  BY <1>1, PeerSetInductive, PTL

\* btg_active_peers never exceeds the number of connections.
THEOREM NoSlotIsLost == Spec => []NoSlotLeaks
<1>1. IInv => NoSlotLeaks
  BY DEF IInv
<1>2. QED
  BY <1>1, PeerSetInductive, PTL

\* A peer waits for its first connection only if the torrent, or the program once, had all
\* the connections it may have.
THEOREM SlotsAreUsed == Spec => []NoSlotWasted
<1>1. IInv => NoSlotWasted
  BY DEF IInv, NoSlotWasted, Busy
<1>2. QED
  BY <1>1, PeerSetInductive, PTL

\* A torrent without a connection has at most one peer left to try.
THEOREM OneStranded == Spec => []AtMostOneStranded
<1>1. IInv => AtMostOneStranded
  BY DEF IInv, AtMostOneStranded, Busy, Waiting
<1>2. QED
  BY <1>1, PeerSetInductive, PTL
=============================================================================
