-------------------------- MODULE MediaQueueProofs --------------------------
(***************************************************************************)
(* Proofs about MediaQueue, for files of any length, any key frames, packet *)
(* sizes, limits and numbers of seeks and pauses.                           *)
(*                                                                         *)
(* The pipe has an audio side and a video side, each a queue and a thread,  *)
(* and the player between them.  The invariant is a formula about each, and *)
(* the lemmas are about what the operations do to a side.                   *)
(***************************************************************************)
EXTENDS MediaQueue, FiniteSetTheorems, WellFoundedInduction, TLAPS

IsData(mb) == mb # None /\ mb.type = "DATA"
IsFlush(mb) == mb # None /\ mb.type = "FLUSH"

\* A counter of what is in two lists.
Counts(n, s, t) == n = Len(s) + Len(t)

\* A queue in the epoch e: what its lists hold, how much, and its flushes in their order.
QueueOK(Q, e) ==
    /\ Q \in [data : Seq(Mb), ctrl : Seq(Mb), packets : Nat]
    /\ Counts(Q.packets, Q.data, Q.ctrl)
    /\ \A i \in 1 .. Len(Q.data) : Q.data[i].type = "DATA" /\ Q.data[i].epoch <= e /\ Q.data[i].size >= 1
    /\ \A i \in 1 .. Len(Q.ctrl) : Q.ctrl[i].type \in Commands /\ Q.ctrl[i].epoch <= e
    /\ \A i, j \in 1 .. Len(Q.ctrl) :
          i <= j /\ Q.ctrl[i].type = "FLUSH" /\ Q.ctrl[j].type = "FLUSH" => Q.ctrl[i].epoch <= Q.ctrl[j].epoch

\* The flushes a thread has handled, has in hand (mb) and finds in the list c follow each
\* other, and x is from after the newest ...
InOrder(c, mb, flushed) ==
    /\ IsFlush(mb) => flushed <= mb.epoch
    /\ \A i \in 1 .. Len(c) : c[i].type = "FLUSH" =>
          flushed <= c[i].epoch /\ (IsFlush(mb) => mb.epoch <= c[i].epoch)
After(x, c, mb, flushed) ==
    /\ flushed <= x.epoch
    /\ IsFlush(mb) => mb.epoch <= x.epoch
    /\ \A i \in 1 .. Len(c) : c[i].type = "FLUSH" => c[i].epoch <= x.epoch
\* ... or from before all that the thread has not handled.
Before(x, c, mb) ==
    /\ IsFlush(mb) => x.epoch < mb.epoch
    /\ \A i \in 1 .. Len(c) : c[i].type = "FLUSH" => x.epoch < c[i].epoch
NoneDue(c, mb) == ~IsFlush(mb) /\ \A i \in 1 .. Len(c) : c[i].type # "FLUSH"

\* A refused delivery is followed by one MB_CTRL_UNBLOCK, sent or still to be sent.
UnblockAt(c) == {i \in 1 .. Len(c) : c[i].type = "UNBLOCK"}
Refusals(c, a, blk) ==
    a.pc # "exit" =>
        /\ \A i, j \in UnblockAt(c) : i = j
        /\ blk => UnblockAt(c) = {}
        /\ (blk \/ UnblockAt(c) # {}) <=> (a.blocked \/ a.pc = "refused")

AudioRec == [pc : Threads \cup {"refused"}, mb : Mb \cup {None}, blocked : BOOLEAN,
             paused : BOOLEAN, avail : BOOLEAN, flushed : Nat]
AudioSide(Q, a, e, blk) ==
    /\ QueueOK(Q, e) /\ a \in AudioRec
    /\ a.pc = "process" <=> a.mb # None
    /\ a.mb # None => a.mb.type # "UNBLOCK" /\ a.mb.epoch <= e
    /\ a.flushed <= e
    /\ InOrder(Q.ctrl, a.mb, a.flushed)
    /\ IsData(a.mb) => a.mb.size \in 1 .. AudioSize
    /\ \A i \in 1 .. Len(Q.data) :
          /\ Q.data[i].size <= AudioSize
          /\ i >= 2 \/ IsData(a.mb) => /\ Q.data[i].size = AudioSize
                                       /\ After(Q.data[i], Q.ctrl, a.mb, a.flushed)
    /\ Refusals(Q.ctrl, a, blk)

VideoRec == [pc : Threads \cup {"switch"}, mb : Mb \cup {None}, cur : Mb \cup {None},
             hold : BOOLEAN, codec : {None, "hardware", "software"}, flushed : Nat,
             seen : Mb \cup {None}]
VideoSide(Q, v, e) ==
    /\ QueueOK(Q, e) /\ v \in VideoRec
    /\ UnblockAt(Q.ctrl) = {}
    /\ v.pc \in {"process", "switch"} <=> v.mb # None
    /\ v.pc = "switch" => v.mb.type = "DATA"
    /\ v.mb # None => v.mb.type # "UNBLOCK" /\ v.mb.epoch <= e
    /\ IsData(v.mb) => v.cur = None
    /\ v.cur # None => v.cur.type = "DATA" /\ v.cur.epoch <= e
    /\ v.seen # None => v.seen.type = "DATA" /\ v.seen.epoch <= e
    /\ v.flushed <= e
    /\ InOrder(Q.ctrl, v.mb, v.flushed)
    /\ \A i \in 1 .. Len(Q.data) : After(Q.data[i], Q.ctrl, v.mb, v.flushed)
    /\ \A x \in {v.mb, v.cur, v.seen} : IsData(x) => Before(x, Q.ctrl, v.mb)
    /\ \A x \in {v.mb, v.cur} : IsData(x) => v.flushed <= x.epoch

\* The player: the packet in hand is the one before its place in the file.
Active(d) == d.pc \in {"fetch", "send", "blocked", "eof", "drain", "draining", "event"}
PlayerRec == [pc : {"fetch", "send", "blocked", "eof", "drain", "draining", "event",
                    "shutdown", "stop", "join", "idle", "end"},
              mb : Mb \cup {None}, q : Queues, ev : Event \cup {None}, pos : Nat,
              target : [Queues -> 0 .. LastPts], marked : [Queues -> 0 .. LastPts]]
PlayerOK(d) ==
    /\ d \in PlayerRec /\ d.pos \in 1 .. 2 * LastPts + 1
    /\ d.pc = "event" => d.ev # None
    /\ d.pc \in {"send", "blocked"} => d.mb # None
    /\ d.pc \in {"fetch", "eof", "drain", "draining"} => d.mb = None
    /\ Active(d) /\ d.mb # None =>
          d.pos >= 2 /\ d.q = QueueAt(d.pos - 1) /\ d.mb = Data(d.q, PtsAt(d.pos - 1), d.mb.skip)

\* The time stamp player d sends next to q, and the one after the i-th in a list.
Coming(d, q) ==
    IF d.mb # None /\ d.q = q THEN d.mb.pts
    ELSE PtsAt(IF QueueAt(d.pos) = q THEN d.pos ELSE d.pos + 1)
Behind(data, i, np) == IF i = Len(data) THEN np ELSE data[i + 1].pts

AudioChain(data, np) ==
    \A i \in 1 .. Len(data) : data[i].size = AudioSize => Behind(data, i, np) = data[i].pts + 1
VideoChain(Q, v, np) ==
    /\ \A i \in 1 .. Len(Q.data) : Behind(Q.data, i, np) = Q.data[i].pts + 1
    /\ NoneDue(Q.ctrl, v.mb) =>
          /\ \A x \in {v.mb, v.cur} : IsData(x) => Behind(Q.data, 0, np) = x.pts + 1
          /\ IsData(v.seen) /\ v.flushed <= v.seen.epoch =>
                (CASE IsData(v.cur) -> v.cur.pts
                   [] IsData(v.mb) -> v.mb.pts
                   [] OTHER -> Behind(Q.data, 0, np)) = v.seen.pts + 1
Chains(ma, mv, d, a, v) ==
    Active(d) => /\ a.pc # "exit" => AudioChain(ma.data, Coming(d, "audio"))
                 /\ v.pc # "exit" => VideoChain(mv, v, Coming(d, "video"))

\* The counters of the pipe.
PipeRec == [current : Nat, epoch : Nat, satisfied : BOOLEAN, eof : BOOLEAN, gate : BOOLEAN]
Accounts(ma, mv, m, h, a) ==
    /\ m \in PipeRec
    /\ m.current = Bytes(ma.data) + Bytes(mv.data)
    /\ h = IF m.satisfied THEN 0 ELSE 1
    /\ ~m.satisfied => m.current > 0 \/ a.pc = "process"

IInv ==
    /\ mq = [q \in Queues |-> mq[q]]
    /\ noint \in BOOLEAN /\ devblk \in BOOLEAN /\ eq \in Seq(Event)
    /\ AudioSide(mq["audio"], aud, mp.epoch, devblk)
    /\ VideoSide(mq["video"], vid, mp.epoch)
    /\ PlayerOK(dmx)
    /\ Chains(mq["audio"], mq["video"], dmx, aud, vid)
    /\ Accounts(mq["audio"], mq["video"], mp, hungry, aud)

-----------------------------------------------------------------------------
(* Naturals, packets and their bytes.                                       *)

\* A set of naturals that is not empty has a least element, and a greatest if it has a bound.
LEMMA LeastNatural ==
  ASSUME NEW T, T \subseteq Nat, T # {}
  PROVE  \E n \in T : \A m \in T : n <= m
<1> DEFINE R == {ss \in Nat \X Nat : ss[1] < ss[2]}
<1>1. IsWellFoundedOn(R, Nat)
  BY NatLessThanWellFounded DEF OpToRel
<1>2. \E n \in T : \A m \in T : <<m, n>> \notin R
  <2> HIDE DEF R
  <2> QED
    BY <1>1, WFMin
<1>3. \A m, n \in Nat : <<m, n>> \notin R => n <= m
  OBVIOUS
<1> HIDE DEF R
<1>4. QED
  BY <1>2, <1>3

\* The least element of a set of naturals is in it and below the others ...
LEMMA MinIs ==
  ASSUME NEW T, T \subseteq Nat, T # {}
  PROVE  Min(T) \in T /\ \A m \in T : Min(T) <= m
<1>1. PICK n \in T : \A m \in T : n <= m
  BY LeastNatural
<1>2. QED
  BY <1>1 DEF Min

\* ... and so is the greatest of one with a bound.
LEMMA MaxIs ==
  ASSUME NEW T, T \subseteq Nat, T # {}, NEW b \in Nat, \A m \in T : m <= b
  PROVE  Max(T) \in T /\ \A m \in T : m <= Max(T)
<1> DEFINE U == {n \in Nat : \A m \in T : m <= n}
<1>1. PICK n \in U : \A m \in U : n <= m
  BY LeastNatural
<1>2. n \in T
  <2> SUFFICES ASSUME n \notin T
               PROVE  FALSE
    OBVIOUS
  <2>1. PICK m \in T : TRUE
    OBVIOUS
  <2>2. n - 1 \in Nat
    BY <2>1
  <2>3. \A k \in T : k <= n - 1
    BY <2>2
  <2>4. QED
    BY <1>1, <2>2, <2>3
<1>3. QED
  BY <1>2 DEF Max

\* The greater of two.
LEMMA MaxOfTwo ==
  ASSUME NEW a \in Nat, NEW b \in Nat
  PROVE  Max({a, b}) \in {a, b} /\ a <= Max({a, b}) /\ b <= Max({a, b}) /\ Max({a, b}) \in Nat
<1> DEFINE T == {a, b}
           c == a + b
<1>1. T \subseteq Nat /\ T # {} /\ c \in Nat /\ \A m \in T : m <= c
  OBVIOUS
<1> HIDE DEF T, c
<1>2. Max(T) \in T /\ \A m \in T : m <= Max(T)
  BY <1>1, MaxIs
<1>3. QED
  BY <1>1, <1>2 DEF T

\* What is assumed of the constants.
LEMMA Sizes == /\ LastPts \in Nat /\ LastPts >= 1 /\ VideoSize \in Nat /\ VideoSize >= 1
               /\ AudioSize \in Nat /\ AudioSize >= 1 /\ Limit \in Nat
               /\ Keyframes \subseteq 1 .. LastPts /\ 1 \in Keyframes
               /\ None \notin Mb /\ None \notin Event
  BY MediaConstants DEF Pts

\* The fields of a packet.
LEMMA MbFields ==
  ASSUME NEW mb \in Mb
  PROVE  /\ mb.type \in Commands \cup {"DATA"} /\ mb.pts \in 0 .. LastPts
         /\ mb.epoch \in Nat /\ mb.size \in Nat /\ mb.skip \in BOOLEAN /\ mb # None
  BY Sizes DEF Mb

\* The bytes of a packet, and of a list.
ByteSet(s) == UNION {{i} \X (1 .. s[i].size) : i \in DOMAIN s}

\* A list has finitely many bytes.
LEMMA BytesFinite ==
  ASSUME NEW s \in Seq(Mb)
  PROVE  IsFiniteSet(ByteSet(s)) /\ Bytes(s) = Cardinality(ByteSet(s)) /\ Bytes(s) \in Nat
<1> DEFINE F == [i \in DOMAIN s |-> {i} \X (1 .. s[i].size)]
<1>1. DOMAIN s = 1 .. Len(s) /\ Len(s) \in Nat
  OBVIOUS
<1>2. IsFiniteSet(DOMAIN s)
  BY <1>1, FS_Interval
<1>3. \A i \in DOMAIN s : IsFiniteSet(F[i])
  <2> SUFFICES ASSUME NEW i \in DOMAIN s
               PROVE  IsFiniteSet(F[i])
    OBVIOUS
  <2>1. s[i] \in Mb
    BY <1>1
  <2>2. IsFiniteSet(1 .. s[i].size)
    BY <2>1, MbFields, FS_Interval
  <2>3. QED
    BY <2>2, FS_Singleton, FS_Product
<1>4. IsFiniteSet({F[i] : i \in DOMAIN s})
  <2> DEFINE R == {F[i] : i \in DOMAIN s}
  <2>1. F \in Surjection(DOMAIN s, R)
    BY DEF Surjection
  <2> HIDE DEF R
  <2>2. IsFiniteSet(R)
    BY <1>2, <2>1, FS_Surjection
  <2>3. QED
    BY <2>2 DEF R
<1>5. ByteSet(s) = UNION {F[i] : i \in DOMAIN s}
  BY DEF ByteSet
<1>6. IsFiniteSet(UNION {F[i] : i \in DOMAIN s})
  <2> DEFINE R == {F[i] : i \in DOMAIN s}
  <2>1. \A T \in R : IsFiniteSet(T)
    BY <1>3
  <2>2. IsFiniteSet(R)
    BY <1>4
  <2> HIDE DEF R
  <2>3. IsFiniteSet(UNION R)
    BY <2>1, <2>2, FS_UNION
  <2>4. QED
    BY <2>3 DEF R
<1>7. Bytes(s) = Cardinality(ByteSet(s))
  BY DEF Bytes, ByteSet
<1>8. QED
  BY <1>5, <1>6, <1>7, FS_CardinalityType

\* An empty list has none.
LEMMA BytesEmpty == Bytes(<<>>) = 0
<1>1. UNION {{i} \X (1 .. <<>>[i].size) : i \in DOMAIN <<>>} = {}
  OBVIOUS
<1>2. QED
  BY <1>1, FS_EmptySet DEF Bytes

\* A byte is its packet's place in the list and its place in the packet.
LEMMA InByteSet ==
  ASSUME NEW s \in Seq(Mb), NEW x
  PROVE  x \in ByteSet(s) <=> \E i, b : i \in 1 .. Len(s) /\ b \in 1 .. s[i].size /\ x = <<i, b>>
  BY DEF ByteSet

\* The bytes of a list are those of its two parts.
LEMMA BytesSplit ==
  ASSUME NEW s \in Seq(Mb), NEW t \in Seq(Mb), NEW u \in Seq(Mb), Len(s) = Len(t) + Len(u),
         \A i \in 1 .. Len(t) : s[i].size = t[i].size,
         \A i \in 1 .. Len(u) : s[Len(t) + i].size = u[i].size
  PROVE  Bytes(s) = Bytes(t) + Bytes(u)
<1> DEFINE n == Len(t)
           S == ByteSet(s)
           U == ByteSet(u)
           V == {x \in S : x[1] > n}
           f == [x \in U |-> <<x[1] + n, x[2]>>]
<1>0. n \in Nat /\ Len(u) \in Nat /\ Len(s) \in Nat
  OBVIOUS
<1>1. ByteSet(t) \cup V = S
  <2>1. ASSUME NEW x \in ByteSet(t)
        PROVE  x \in S
    <3>1. PICK i, b : i \in 1 .. Len(t) /\ b \in 1 .. t[i].size /\ x = <<i, b>>
      BY InByteSet
    <3>2. i \in 1 .. Len(s) /\ b \in 1 .. s[i].size
      BY <1>0, <3>1
    <3>3. QED
      BY <3>1, <3>2, InByteSet
  <2>2. ASSUME NEW x \in S, x \notin V
        PROVE  x \in ByteSet(t)
    <3>1. PICK i, b : i \in 1 .. Len(s) /\ b \in 1 .. s[i].size /\ x = <<i, b>>
      BY InByteSet
    <3>2. i \in 1 .. n
      BY <1>0, <2>2, <3>1
    <3>3. QED
      BY <3>1, <3>2, InByteSet
  <2>3. QED
    BY <2>1, <2>2
<1>2. ByteSet(t) \cap V = {}
  BY <1>0, InByteSet
<1>3. f \in Bijection(U, V)
  <2>1. ASSUME NEW x \in U
        PROVE  f[x] \in V
    <3>1. PICK i, b : i \in 1 .. Len(u) /\ b \in 1 .. u[i].size /\ x = <<i, b>>
      BY InByteSet
    <3>2. f[x] = <<n + i, b>> /\ n + i \in 1 .. Len(s) /\ b \in 1 .. s[n + i].size /\ n + i > n
      BY <1>0, <3>1
    <3> HIDE DEF f
    <3>3. f[x] \in S
      BY <3>2, InByteSet
    <3>4. QED
      BY <3>2, <3>3
  <2>2. ASSUME NEW x \in U, NEW y \in U, f[x] = f[y]
        PROVE  x = y
    <3>1. PICK i, b : i \in 1 .. Len(u) /\ b \in 1 .. u[i].size /\ x = <<i, b>>
      BY InByteSet
    <3>2. PICK j, c : j \in 1 .. Len(u) /\ c \in 1 .. u[j].size /\ y = <<j, c>>
      BY InByteSet
    <3>3. f[x] = <<i + n, b>> /\ f[y] = <<j + n, c>>
      BY <3>1, <3>2
    <3>4. QED
      BY <1>0, <2>2, <3>1, <3>2, <3>3
  <2>3. ASSUME NEW y \in V
        PROVE  \E x \in U : f[x] = y
    <3>1. PICK i, b : i \in 1 .. Len(s) /\ b \in 1 .. s[i].size /\ y = <<i, b>>
      BY InByteSet
    <3>2. i > n
      BY <3>1
    <3>3. i - n \in 1 .. Len(u) /\ b \in 1 .. u[i - n].size
      BY <1>0, <3>1, <3>2
    <3>4. <<i - n, b>> \in U
      BY <3>3, InByteSet
    <3>5. f[<<i - n, b>>] = y
      BY <1>0, <3>1, <3>4
    <3>6. QED
      BY <3>4, <3>5
  <2> HIDE DEF U, V
  <2>4. f \in [U -> V]
    BY <2>1
  <2>5. QED
    BY <2>2, <2>3, <2>4 DEF Bijection, Injection, Surjection, IsInjective
<1> HIDE DEF f
<1>4. IsFiniteSet(V) /\ Cardinality(V) = Cardinality(U)
  <2>1. ExistsBijection(U, V)
    BY <1>3 DEF ExistsBijection
  <2>2. IsFiniteSet(U)
    BY BytesFinite
  <2> HIDE DEF U, V
  <2>3. QED
    BY <2>1, <2>2, FS_Bijection
<1>5. Cardinality(S) = Cardinality(ByteSet(t)) + Cardinality(V) - Cardinality({})
  <2>1. IsFiniteSet(ByteSet(t))
    BY BytesFinite
  <2> HIDE DEF V, S
  <2>2. QED
    BY <1>1, <1>2, <1>4, <2>1, FS_Union
<1>6. QED
  BY <1>4, <1>5, FS_EmptySet, BytesFinite

\* A list of one packet has the packet's bytes.
LEMMA BytesOne ==
  ASSUME NEW mb \in Mb
  PROVE  <<mb>> \in Seq(Mb) /\ Bytes(<<mb>>) = mb.size
<1>1. <<mb>> \in Seq(Mb) /\ Len(<<mb>>) = 1 /\ <<mb>>[1] = mb
  OBVIOUS
<1>2. ByteSet(<<mb>>) = {1} \X (1 .. mb.size)
  <2>1. DOMAIN <<mb>> = {1}
    OBVIOUS
  <2>2. QED
    BY <1>1, <2>1 DEF ByteSet
<1>3. mb.size \in Nat /\ IsFiniteSet(1 .. mb.size) /\ Cardinality(1 .. mb.size) = mb.size
  <2> DEFINE n == mb.size
  <2>1. n \in Nat
    BY MbFields
  <2> HIDE DEF n
  <2>2. IsFiniteSet(1 .. n) /\ Cardinality(1 .. n) = IF 1 > n THEN 0 ELSE n - 1 + 1
    BY <2>1, FS_Interval
  <2>3. IsFiniteSet(1 .. n) /\ Cardinality(1 .. n) = n
    BY <2>1, <2>2
  <2>4. QED
    BY <2>1, <2>3 DEF n
<1>4. Cardinality({1} \X (1 .. mb.size)) = 1 * mb.size
  <2>1. IsFiniteSet({1}) /\ Cardinality({1}) = 1
    BY FS_Singleton
  <2>2. Cardinality({1} \X (1 .. mb.size)) = Cardinality({1}) * Cardinality(1 .. mb.size)
    BY <1>3, <2>1, FS_Product
  <2>3. QED
    BY <1>3, <2>1, <2>2
<1>5. Bytes(<<mb>>) = Cardinality({1} \X (1 .. mb.size))
  BY <1>1, <1>2, BytesFinite
<1> DEFINE n == mb.size
<1>6. n \in Nat /\ Bytes(<<mb>>) = 1 * n
  BY <1>3, <1>4, <1>5
<1> HIDE DEF n
<1>7. Bytes(<<mb>>) = n
  BY <1>6
<1>8. QED
  BY <1>1, <1>7 DEF n

\* A list that is not empty has bytes, a packet appended or put in front adds its own, and
\* the head takes its own.
LEMMA BytesOfLists ==
  ASSUME NEW s \in Seq(Mb), NEW mb \in Mb
  PROVE  /\ Bytes(Append(s, mb)) = Bytes(s) + mb.size
         /\ Bytes(<<mb>> \o s) = mb.size + Bytes(s)
         /\ s # <<>> => Bytes(s) = Head(s).size + Bytes(Tail(s)) /\ Bytes(Tail(s)) \in Nat
<1>1. Bytes(<<mb>>) = mb.size /\ <<mb>> \in Seq(Mb) /\ Len(<<mb>>) = 1
  BY BytesOne
<1>2. Bytes(s) \in Nat /\ mb.size \in Nat
  BY BytesFinite, MbFields
<1>3. Bytes(Append(s, mb)) = Bytes(s) + Bytes(<<mb>>)
  <2>1. /\ Append(s, mb) \in Seq(Mb) /\ Len(Append(s, mb)) = Len(s) + 1
        /\ \A i \in 1 .. Len(s) : Append(s, mb)[i] = s[i]
        /\ Append(s, mb)[Len(s) + 1] = mb /\ Len(s) \in Nat
    OBVIOUS
  <2>2. \A i \in 1 .. Len(<<mb>>) : Append(s, mb)[Len(s) + i].size = <<mb>>[i].size
    BY <1>1, <2>1
  <2>3. QED
    BY <1>1, <2>1, <2>2, BytesSplit
<1>4. Bytes(<<mb>> \o s) = Bytes(<<mb>>) + Bytes(s)
  <2>1. /\ <<mb>> \o s \in Seq(Mb) /\ Len(<<mb>> \o s) = 1 + Len(s)
        /\ \A i \in 1 .. Len(s) : (<<mb>> \o s)[1 + i] = s[i]
        /\ (<<mb>> \o s)[1] = mb
    OBVIOUS
  <2>2. \A i \in 1 .. Len(<<mb>>) : (<<mb>> \o s)[i].size = <<mb>>[i].size
    BY <1>1, <2>1
  <2>3. QED
    BY <1>1, <2>1, <2>2, BytesSplit
<1>5. ASSUME s # <<>>
      PROVE  Bytes(s) = Head(s).size + Bytes(Tail(s)) /\ Bytes(Tail(s)) \in Nat
  <2>1. /\ Head(s) \in Mb /\ Tail(s) \in Seq(Mb) /\ Len(s) = 1 + Len(Tail(s))
        /\ \A i \in 1 .. Len(Tail(s)) : Tail(s)[i] = s[1 + i]
        /\ Head(s) = s[1]
    BY <1>5
  <2>2. Bytes(<<Head(s)>>) = Head(s).size /\ <<Head(s)>> \in Seq(Mb) /\ Len(<<Head(s)>>) = 1
    BY <2>1, BytesOne
  <2>3. Bytes(s) = Bytes(<<Head(s)>>) + Bytes(Tail(s))
    <3>1. \A i \in 1 .. 1 : s[i].size = <<Head(s)>>[i].size
      BY <2>1
    <3>2. QED
      BY <2>1, <2>2, <3>1, BytesSplit
  <2>4. QED
    BY <2>1, <2>2, <2>3, BytesFinite
<1>6. QED
  BY <1>1, <1>3, <1>4, <1>5

-----------------------------------------------------------------------------
(* What a flush leaves of a list.                                           *)

\* The ranks of the positions of P are 1, 2, 3 and so on.
LEMMA Ranks ==
  ASSUME NEW n \in Nat, NEW P, P \subseteq 1 .. n
  PROVE  /\ IsFiniteSet(P) /\ Cardinality(P) \in Nat /\ Cardinality(P) <= n
         /\ \A i \in P : Rank(P, i) \in 1 .. Cardinality(P)
         /\ \A i, j \in P : Rank(P, i) = Rank(P, j) => i = j
         /\ \A k \in 1 .. Cardinality(P) : \E i \in P : Rank(P, i) = k
<1> DEFINE Upto(i) == {j \in P : j <= i}
           f == [i \in P |-> Rank(P, i)]
<1>1. IsFiniteSet(1 .. n) /\ Cardinality(1 .. n) = n
  <2>1. IsFiniteSet(1 .. n) /\ Cardinality(1 .. n) = IF 1 > n THEN 0 ELSE n - 1 + 1
    BY FS_Interval
  <2>2. QED
    BY <2>1
<1>2. IsFiniteSet(P) /\ Cardinality(P) \in Nat /\ Cardinality(P) <= n
  BY <1>1, FS_Subset, FS_CardinalityType
<1>3. ASSUME NEW i \in P
      PROVE  /\ IsFiniteSet(Upto(i)) /\ Rank(P, i) = Cardinality(Upto(i))
             /\ Rank(P, i) \in 1 .. Cardinality(P)
  <2>1. Upto(i) \subseteq P /\ i \in Upto(i) /\ Rank(P, i) = Cardinality(Upto(i))
    BY DEF Rank
  <2> HIDE DEF Upto
  <2>2. IsFiniteSet(Upto(i)) /\ Cardinality(Upto(i)) <= Cardinality(P)
    BY <1>2, <2>1, FS_Subset
  <2>3. Cardinality(Upto(i)) \in Nat /\ Cardinality(Upto(i)) # 0
    BY <2>1, <2>2, FS_CardinalityType, FS_EmptySet
  <2>4. QED
    BY <1>2, <2>1, <2>2, <2>3
<1>4. ASSUME NEW i \in P, NEW j \in P, i < j
      PROVE  Rank(P, i) < Rank(P, j)
  <2>1. Upto(i) \subseteq Upto(j) /\ Upto(i) # Upto(j)
    <3>1. i \in Nat /\ j \in Nat
      OBVIOUS
    <3>2. j \in Upto(j) /\ j \notin Upto(i)
      BY <1>4, <3>1
    <3>3. \A k \in Upto(i) : k \in Upto(j)
      BY <1>4, <3>1
    <3>4. QED
      BY <3>2, <3>3
  <2>2. IsFiniteSet(Upto(i)) /\ IsFiniteSet(Upto(j))
    BY <1>3
  <2>3. Rank(P, i) = Cardinality(Upto(i)) /\ Rank(P, j) = Cardinality(Upto(j))
    BY <1>3
  <2> HIDE DEF Upto
  <2>4. Cardinality(Upto(i)) < Cardinality(Upto(j))
    BY <2>1, <2>2, FS_Subset, FS_CardinalityType
  <2>5. QED
    BY <2>3, <2>4
<1>5. ASSUME NEW i \in P, NEW j \in P, Rank(P, i) = Rank(P, j)
      PROVE  i = j
  <2>1. i < j \/ j < i \/ i = j
    OBVIOUS
  <2>2. Rank(P, i) \in Nat /\ Rank(P, j) \in Nat
    <3>1. Rank(P, i) \in 1 .. Cardinality(P) /\ Rank(P, j) \in 1 .. Cardinality(P)
      BY <1>3
    <3>2. QED
      BY <1>2, <3>1
  <2>3. ~(i < j) /\ ~(j < i)
    BY <1>4, <1>5, <2>2
  <2>4. QED
    BY <2>1, <2>3
<1>6. f \in Injection(P, 1 .. Cardinality(P))
  BY <1>3, <1>5 DEF Injection, IsInjective
<1>7. IsFiniteSet(1 .. Cardinality(P)) /\ Cardinality(1 .. Cardinality(P)) = Cardinality(P)
  <2> DEFINE k == Cardinality(P)
  <2>1. k \in Nat
    BY <1>2
  <2> HIDE DEF k
  <2>2. IsFiniteSet(1 .. k) /\ Cardinality(1 .. k) = IF 1 > k THEN 0 ELSE k - 1 + 1
    BY <2>1, FS_Interval
  <2>3. IsFiniteSet(1 .. k) /\ Cardinality(1 .. k) = k
    BY <2>1, <2>2
  <2>4. QED
    BY <2>3 DEF k
<1>8. f \in Surjection(P, 1 .. Cardinality(P))
  <2> HIDE DEF f
  <2>1. QED
    BY <1>6, <1>7, FS_Injection
<1>9. \A k \in 1 .. Cardinality(P) : \E i \in P : Rank(P, i) = k
  BY <1>8 DEF Surjection
<1>10. QED
  BY <1>2, <1>3, <1>5, <1>9

\* What is left at the positions P are these packets, each once.
Picks(s, P, c, g) ==
    LET k == Cardinality(P)
    IN  /\ g \in [1 .. k -> P]
        /\ c \in Seq(Mb) /\ Len(c) = k /\ k \in Nat /\ k <= Len(s)
        /\ \A n \in 1 .. k : c[n] = s[g[n]]
        /\ \A m, n \in 1 .. k : g[m] = g[n] => m = n
        /\ \A i \in P : \E n \in 1 .. k : g[n] = i

\* What is left of a list are the packets at the positions kept, in their order.
LEMMA Picked ==
  ASSUME NEW s \in Seq(Mb), NEW P, P \subseteq 1 .. Len(s)
  PROVE  \E g : Picks(s, P, At(s, P), g)
<1> DEFINE k == Cardinality(P)
           g == [n \in 1 .. k |-> CHOOSE i \in P : Rank(P, i) = n]
<1>1. Len(s) \in Nat
  OBVIOUS
<1>2. /\ k \in Nat /\ k <= Len(s)
      /\ \A i \in P : Rank(P, i) \in 1 .. k
      /\ \A i, j \in P : Rank(P, i) = Rank(P, j) => i = j
      /\ \A n \in 1 .. k : \E i \in P : Rank(P, i) = n
  BY <1>1, Ranks
<1>3. At(s, P) = [n \in 1 .. k |-> s[g[n]]]
  BY DEF At
<1> HIDE DEF k
<1>4. \A n \in 1 .. k : g[n] \in P /\ Rank(P, g[n]) = n
  BY <1>2
<1>5. \A m, n \in 1 .. k : g[m] = g[n] => m = n
  BY <1>4
<1>6. \A i \in P : \E n \in 1 .. k : g[n] = i
  BY <1>2, <1>4
<1>7. g \in [1 .. k -> P]
  BY <1>4
<1> HIDE DEF g
<1>8. At(s, P) \in Seq(Mb) /\ Len(At(s, P)) = k /\ \A n \in 1 .. k : At(s, P)[n] = s[g[n]]
  <2>1. \A n \in 1 .. k : g[n] \in 1 .. Len(s)
    BY <1>7
  <2>2. \A n \in 1 .. k : s[g[n]] \in Mb
    BY <2>1
  <2>3. At(s, P) \in [1 .. k -> Mb]
    BY <1>3, <2>2
  <2>4. QED
    BY <1>2, <1>3, <2>3
<1>9. Picks(s, P, At(s, P), g)
  BY <1>2, <1>5, <1>6, <1>7, <1>8 DEF k, Picks
<1>10. QED
  BY <1>9

\* mq_flush_q leaves no packet and no flush; MB_CTRL_UNBLOCK stays unless all is flushed.
LEMMA FlushedQueue ==
  ASSUME NEW Q, NEW e \in Nat, QueueOK(Q, e), NEW full \in BOOLEAN
  PROVE  LET R == mq_flush_q(Q, full)
         IN  /\ QueueOK(R, e) /\ R.data = <<>>
             /\ \A i \in 1 .. Len(R.ctrl) : R.ctrl[i].type # "FLUSH"
             /\ ~full => /\ UnblockAt(R.ctrl) = {} <=> UnblockAt(Q.ctrl) = {}
                         /\ (\A i, j \in UnblockAt(Q.ctrl) : i = j)
                               => \A i, j \in UnblockAt(R.ctrl) : i = j
             /\ UnblockAt(Q.ctrl) = {} => UnblockAt(R.ctrl) = {}
<1> DEFINE P == {i \in DOMAIN Q.ctrl : Survives(Q.ctrl[i], full)}
           c == At(Q.ctrl, P)
           R == mq_flush_q(Q, full)
           k == Cardinality(P)
<1>1. /\ Q.ctrl \in Seq(Mb) /\ Q.data \in Seq(Mb) /\ Q.packets = Len(Q.data) + Len(Q.ctrl)
      /\ \A i \in 1 .. Len(Q.ctrl) : Q.ctrl[i].type \in Commands /\ Q.ctrl[i].epoch <= e
  BY DEF QueueOK, Counts
<1>2. P \subseteq 1 .. Len(Q.ctrl) /\ \A i \in P : Survives(Q.ctrl[i], full)
  BY <1>1
<1>3. \A i \in 1 .. Len(Q.ctrl) : Q.ctrl[i].type = "UNBLOCK" /\ ~full => i \in P
  BY <1>1 DEF Survives
<1>4. R = [data |-> <<>>, ctrl |-> c,
           packets |-> Q.packets - Len(Q.data) - (Len(Q.ctrl) - Len(c))]
  BY DEF mq_flush_q
<1> HIDE DEF P
<1>5. PICK g :
            /\ g \in [1 .. k -> P]
            /\ c \in Seq(Mb) /\ Len(c) = k /\ k \in Nat /\ k <= Len(Q.ctrl)
            /\ \A n \in 1 .. k : c[n] = Q.ctrl[g[n]]
            /\ \A m, n \in 1 .. k : g[m] = g[n] => m = n
            /\ \A i \in P : \E n \in 1 .. k : g[n] = i
  <2> DEFINE s == Q.ctrl
  <2>1. s \in Seq(Mb) /\ P \subseteq 1 .. Len(s)
    BY <1>1, <1>2
  <2> HIDE DEF s
  <2>2. PICK g : Picks(s, P, At(s, P), g)
    BY <2>1, Picked
  <2>3. WITNESS g
  <2>4. QED
    BY <2>2 DEF s, Picks
<1> HIDE DEF c, k, R
<1>6. R.data = <<>> /\ R.ctrl = c /\ R.packets = k /\ R \in [data : Seq(Mb), ctrl : Seq(Mb), packets : Nat]
  BY <1>1, <1>4, <1>5
<1>7. \A n \in 1 .. k : c[n].type \in {"EXIT", "UNBLOCK"} /\ c[n].epoch <= e
  <2> SUFFICES ASSUME NEW n \in 1 .. k
               PROVE  c[n].type \in {"EXIT", "UNBLOCK"} /\ c[n].epoch <= e
    OBVIOUS
  <2>1. g[n] \in P /\ c[n] = Q.ctrl[g[n]]
    BY <1>5
  <2>2. QED
    BY <1>1, <1>2, <2>1 DEF Survives
<1>8. QueueOK(R, e)
  <2>1. R.packets = Len(R.data) + Len(R.ctrl) /\ Len(R.data) = 0
    BY <1>5, <1>6
  <2>2. \A i \in 1 .. Len(R.data) : FALSE
    BY <2>1
  <2>3. \A i \in 1 .. Len(R.ctrl) : R.ctrl[i].type \in {"EXIT", "UNBLOCK"} /\ R.ctrl[i].epoch <= e
    BY <1>5, <1>6, <1>7
  <2>4. QED
    BY <1>6, <2>1, <2>2, <2>3 DEF QueueOK, Commands, Counts
<1>9. \A n \in UnblockAt(c) : n \in 1 .. k /\ g[n] \in UnblockAt(Q.ctrl)
  BY <1>2, <1>5 DEF UnblockAt
<1>10. ~full => \A i \in UnblockAt(Q.ctrl) : \E n \in UnblockAt(c) : g[n] = i
  BY <1>2, <1>3, <1>5 DEF UnblockAt
<1>11. ~full => (UnblockAt(c) = {} <=> UnblockAt(Q.ctrl) = {})
  BY <1>9, <1>10
<1>12. UnblockAt(Q.ctrl) = {} => UnblockAt(c) = {}
  BY <1>9
<1>13. (\A i, j \in UnblockAt(Q.ctrl) : i = j) => \A i, j \in UnblockAt(c) : i = j
  BY <1>5, <1>9
<1>14. \A i \in 1 .. Len(R.ctrl) : R.ctrl[i].type # "FLUSH"
  BY <1>5, <1>6, <1>7
<1>15. QED
  BY <1>6, <1>8, <1>11, <1>12, <1>13, <1>14 DEF R

-----------------------------------------------------------------------------
(* Packets queued.                                                          *)

\* The list d is c with x at its end.
Grown(c, d, x) == /\ d \in Seq(Mb) /\ Len(c) \in Nat /\ Len(d) = Len(c) + 1 /\ d[Len(c) + 1] = x
                  /\ \A i \in 1 .. Len(c) : d[i] = c[i]

\* The counter of a queue whose lists have one packet more.
LEMMA CountsMore ==
  ASSUME NEW n \in Nat, NEW s \in Seq(Mb), NEW t \in Seq(Mb), Counts(n, s, t)
  PROVE  /\ \A u : Len(u) = Len(s) + 1 => Counts(n + 1, u, t)
         /\ \A u : Len(u) = Len(t) + 1 => Counts(n + 1, s, u)
<1>1. Len(s) \in Nat /\ Len(t) \in Nat /\ n = Len(s) + Len(t)
  BY DEF Counts
<1>2. QED
  BY <1>1 DEF Counts

\* A command, as it is queued.
LEMMA CtrlIs ==
  ASSUME NEW cmd \in Commands, NEW e \in Nat
  PROVE  LET x == [Ctrl(cmd) EXCEPT !.epoch = e]
         IN  x \in Mb /\ x.type = cmd /\ x.epoch = e
<1>1. Ctrl(cmd) \in Mb /\ Ctrl(cmd).type = cmd
  <2>1. 0 \in 0 .. LastPts
    BY Sizes
  <2>2. QED
    BY <2>1 DEF Ctrl, Mb
<1>2. QED
  BY <1>1 DEF Mb

\* mb_enq of a command: the list of commands grows by it.
LEMMA QueuedCmd ==
  ASSUME NEW Q, NEW e \in Nat, QueueOK(Q, e), NEW cmd \in Commands
  PROVE  LET R == Queued(Q, Ctrl(cmd), e)
         IN  /\ QueueOK(R, e) /\ R.data = Q.data
             /\ Grown(Q.ctrl, R.ctrl, [Ctrl(cmd) EXCEPT !.epoch = e])
<1> DEFINE x == [Ctrl(cmd) EXCEPT !.epoch = e]
           R == Queued(Q, Ctrl(cmd), e)
<1>1. cmd # "DATA"
  BY DEF Commands
<1>2. x \in Mb /\ x.type = cmd /\ x.epoch = e
  BY CtrlIs
<1>3. R = [data |-> Q.data, ctrl |-> Append(Q.ctrl, x), packets |-> Q.packets + 1]
  BY <1>1, <1>2 DEF Queued
<1> HIDE DEF x, R
<1>4. Q.ctrl \in Seq(Mb) /\ Q.data \in Seq(Mb) /\ Counts(Q.packets, Q.data, Q.ctrl) /\ Q.packets \in Nat
  BY DEF QueueOK
<1>5. R.data = Q.data /\ R.ctrl = Append(Q.ctrl, x) /\ R.packets = Q.packets + 1
  BY <1>3
<1>6. Grown(Q.ctrl, R.ctrl, x)
  BY <1>2, <1>4, <1>5 DEF Grown
<1>7. R \in [data : Seq(Mb), ctrl : Seq(Mb), packets : Nat]
  <2>1. Append(Q.ctrl, x) \in Seq(Mb) /\ Q.packets + 1 \in Nat
    BY <1>2, <1>4
  <2>2. QED
    BY <1>3, <1>4, <2>1
<1>8. Counts(R.packets, R.data, R.ctrl)
  <2>1. Len(R.ctrl) = Len(Q.ctrl) + 1
    BY <1>6 DEF Grown
  <2>2. QED
    BY <1>4, <1>5, <2>1, CountsMore
<1>9. \A i \in 1 .. Len(R.ctrl) : R.ctrl[i].type \in Commands /\ R.ctrl[i].epoch <= e
  <2> SUFFICES ASSUME NEW i \in 1 .. Len(R.ctrl)
               PROVE  R.ctrl[i].type \in Commands /\ R.ctrl[i].epoch <= e
    OBVIOUS
  <2>1. CASE i \in 1 .. Len(Q.ctrl)
    BY <1>6, <2>1 DEF Grown, QueueOK
  <2>2. CASE i = Len(Q.ctrl) + 1
    BY <1>2, <1>6, <2>2 DEF Grown
  <2>3. QED
    BY <1>6, <2>1, <2>2 DEF Grown
<1>10. \A i, j \in 1 .. Len(R.ctrl) :
          i <= j /\ R.ctrl[i].type = "FLUSH" /\ R.ctrl[j].type = "FLUSH" => R.ctrl[i].epoch <= R.ctrl[j].epoch
  <2> SUFFICES ASSUME NEW i \in 1 .. Len(R.ctrl), NEW j \in 1 .. Len(R.ctrl),
                      i <= j, R.ctrl[i].type = "FLUSH", R.ctrl[j].type = "FLUSH"
               PROVE  R.ctrl[i].epoch <= R.ctrl[j].epoch
    OBVIOUS
  <2>1. CASE j \in 1 .. Len(Q.ctrl)
    <3>1. i \in 1 .. Len(Q.ctrl)
      BY <2>1, <1>6 DEF Grown
    <3>2. R.ctrl[i] = Q.ctrl[i] /\ R.ctrl[j] = Q.ctrl[j]
      BY <1>6, <2>1, <3>1 DEF Grown
    <3>3. QED
      BY <2>1, <3>1, <3>2 DEF QueueOK
  <2>2. CASE j = Len(Q.ctrl) + 1
    BY <1>2, <1>6, <1>9, <2>2 DEF Grown
  <2>3. QED
    BY <1>6, <2>1, <2>2 DEF Grown
<1>11. QueueOK(R, e)
  BY <1>5, <1>7, <1>8, <1>9, <1>10 DEF QueueOK
<1>12. QED
  BY <1>5, <1>6, <1>11 DEF R, x

\* mb_enq of a packet: the list of data grows by it.
LEMMA QueuedData ==
  ASSUME NEW Q, NEW e \in Nat, QueueOK(Q, e), NEW mb \in Mb, mb.type = "DATA", mb.size >= 1
  PROVE  LET R == Queued(Q, mb, e)
         IN  /\ QueueOK(R, e) /\ R.ctrl = Q.ctrl
             /\ R.data = Append(Q.data, [mb EXCEPT !.epoch = e]) /\ [mb EXCEPT !.epoch = e] \in Mb
             /\ Grown(Q.data, R.data, [mb EXCEPT !.epoch = e])
<1> DEFINE x == [mb EXCEPT !.epoch = e]
           R == Queued(Q, mb, e)
<1>1. x \in Mb /\ x.type = "DATA" /\ x.epoch = e /\ x.size = mb.size
  BY DEF Mb
<1>2. R = [data |-> Append(Q.data, x), ctrl |-> Q.ctrl, packets |-> Q.packets + 1]
  BY <1>1 DEF Queued
<1> HIDE DEF x, R
<1>3. Q.ctrl \in Seq(Mb) /\ Q.data \in Seq(Mb) /\ Counts(Q.packets, Q.data, Q.ctrl) /\ Q.packets \in Nat
  BY DEF QueueOK
<1>4. R.ctrl = Q.ctrl /\ R.data = Append(Q.data, x) /\ R.packets = Q.packets + 1
  BY <1>2
<1>5. Grown(Q.data, R.data, x)
  BY <1>1, <1>3, <1>4 DEF Grown
<1>6. R \in [data : Seq(Mb), ctrl : Seq(Mb), packets : Nat]
  <2>1. Append(Q.data, x) \in Seq(Mb) /\ Q.packets + 1 \in Nat
    BY <1>1, <1>3
  <2>2. QED
    BY <1>2, <1>3, <2>1
<1>7. Counts(R.packets, R.data, R.ctrl)
  <2>1. Len(R.data) = Len(Q.data) + 1
    BY <1>5 DEF Grown
  <2>2. QED
    BY <1>3, <1>4, <2>1, CountsMore
<1>8. \A i \in 1 .. Len(R.data) : R.data[i].type = "DATA" /\ R.data[i].epoch <= e /\ R.data[i].size >= 1
  <2> SUFFICES ASSUME NEW i \in 1 .. Len(R.data)
               PROVE  R.data[i].type = "DATA" /\ R.data[i].epoch <= e /\ R.data[i].size >= 1
    OBVIOUS
  <2>1. CASE i \in 1 .. Len(Q.data)
    BY <1>5, <2>1 DEF Grown, QueueOK
  <2>2. CASE i = Len(Q.data) + 1
    BY <1>1, <1>5, <2>2 DEF Grown
  <2>3. QED
    BY <1>5, <2>1, <2>2 DEF Grown
<1>9. QueueOK(R, e)
  BY <1>4, <1>6, <1>7, <1>8 DEF QueueOK
<1>10. QED
  BY <1>1, <1>4, <1>5, <1>9 DEF R, x

\* A later epoch changes nothing.
LEMMA QueueLater ==
  ASSUME NEW Q, NEW e \in Nat, NEW f \in Nat, e <= f, QueueOK(Q, e)
  PROVE  QueueOK(Q, f)
<1>1. \A i \in 1 .. Len(Q.data) : Q.data[i].epoch \in Nat
  BY MbFields DEF QueueOK
<1>2. \A i \in 1 .. Len(Q.ctrl) : Q.ctrl[i].epoch \in Nat
  BY MbFields DEF QueueOK
<1>3. QED
  BY <1>1, <1>2 DEF QueueOK

\* The epoch may grow behind a side's back: it only bounds what is there.
LEMMA AudioLater ==
  ASSUME NEW Q, NEW a, NEW e \in Nat, NEW f \in Nat, e <= f, NEW blk, AudioSide(Q, a, e, blk)
  PROVE  AudioSide(Q, a, f, blk)
<1>1. QueueOK(Q, f)
  BY QueueLater DEF AudioSide
<1>2. a.flushed \in Nat /\ (a.mb # None => a.mb.epoch \in Nat)
  BY MbFields DEF AudioSide, AudioRec
<1>3. QED
  BY <1>1, <1>2 DEF AudioSide

\* The same for video.
LEMMA VideoLater ==
  ASSUME NEW Q, NEW v, NEW e \in Nat, NEW f \in Nat, e <= f, VideoSide(Q, v, e)
  PROVE  VideoSide(Q, v, f)
<1>1. QueueOK(Q, f)
  BY QueueLater DEF VideoSide
<1>2. /\ v.flushed \in Nat /\ (v.mb # None => v.mb.epoch \in Nat)
      /\ (v.cur # None => v.cur.epoch \in Nat) /\ (v.seen # None => v.seen.epoch \in Nat)
  BY MbFields DEF VideoSide, VideoRec
<1>3. QED
  BY <1>1, <1>2 DEF VideoSide

\* A signal wakes a thread and changes nothing else of it.
LEMMA AudioWoken ==
  ASSUME NEW Q, NEW a, NEW e, NEW blk, AudioSide(Q, a, e, blk)
  PROVE  /\ AudioSide(Q, Woken(a), e, blk)
         /\ Woken(a).pc = "exit" <=> a.pc = "exit"
         /\ Woken(a).pc = "process" <=> a.pc = "process"
<1>1. /\ Woken(a) \in AudioRec /\ Woken(a).mb = a.mb /\ Woken(a).flushed = a.flushed
      /\ Woken(a).blocked = a.blocked
      /\ \A p \in {"exit", "process", "refused"} : Woken(a).pc = p <=> a.pc = p
  BY DEF AudioSide, AudioRec, Woken, Threads
<1>2. Refusals(Q.ctrl, Woken(a), blk)
  BY <1>1 DEF Refusals, AudioSide
<1>3. QED
  BY <1>1, <1>2 DEF AudioSide

\* A signal to the video thread changes nothing but where it stands.
LEMMA VideoWoken ==
  ASSUME NEW Q, NEW v, NEW e, VideoSide(Q, v, e)
  PROVE  /\ VideoSide(Q, Woken(v), e)
         /\ Woken(v).pc = "exit" <=> v.pc = "exit"
         /\ Woken(v).mb = v.mb /\ Woken(v).cur = v.cur /\ Woken(v).seen = v.seen
         /\ Woken(v).flushed = v.flushed
<1>1. /\ Woken(v) \in VideoRec /\ Woken(v).mb = v.mb /\ Woken(v).flushed = v.flushed
      /\ Woken(v).cur = v.cur /\ Woken(v).seen = v.seen
      /\ \A p \in {"exit", "process", "switch"} : Woken(v).pc = p <=> v.pc = p
  BY DEF VideoSide, VideoRec, Woken, Threads
<1>2. QED
  BY <1>1 DEF VideoSide

\* What a command at the end of a list means to the formulas about its flushes.
LEMMA GrownPlain ==
  ASSUME NEW c, NEW d, NEW x, Grown(c, d, x), x.type # "FLUSH"
  PROVE  /\ \A mb, f : InOrder(c, mb, f) => InOrder(d, mb, f)
         /\ \A y, mb, f : After(y, c, mb, f) => After(y, d, mb, f)
         /\ \A y, mb : Before(y, c, mb) => Before(y, d, mb)
         /\ \A mb : NoneDue(d, mb) => NoneDue(c, mb)
<1>1. \A i \in 1 .. Len(d) : d[i].type = "FLUSH" => i \in 1 .. Len(c) /\ d[i] = c[i]
  BY DEF Grown
<1>2. \A i \in 1 .. Len(c) : i \in 1 .. Len(d) /\ d[i] = c[i]
  BY DEF Grown
<1>3. QED
  BY <1>1, <1>2 DEF InOrder, After, Before, NoneDue

\* A flush more: nothing handled so far is after it, and it is due.
LEMMA GrownFlush ==
  ASSUME NEW c, NEW d, NEW x, Grown(c, d, x), x.type = "FLUSH"
  PROVE  /\ \A mb, f : InOrder(c, mb, f) /\ f <= x.epoch /\ (IsFlush(mb) => mb.epoch <= x.epoch)
                          => InOrder(d, mb, f)
         /\ \A y, mb : Before(y, c, mb) /\ y.epoch < x.epoch => Before(y, d, mb)
         /\ \A mb : ~NoneDue(d, mb)
<1>1. \A i \in 1 .. Len(d) : d[i] = x \/ (i \in 1 .. Len(c) /\ d[i] = c[i])
  BY DEF Grown
<1>2. Len(d) \in 1 .. Len(d) /\ d[Len(d)] = x
  BY DEF Grown
<1>3. QED
  BY <1>1, <1>2 DEF InOrder, Before, NoneDue

\* A command more is one MB_CTRL_UNBLOCK more or none.
LEMMA GrownUnblocks ==
  ASSUME NEW c, NEW d, NEW x, Grown(c, d, x)
  PROVE  /\ x.type # "UNBLOCK" => UnblockAt(d) = UnblockAt(c)
         /\ x.type = "UNBLOCK" => UnblockAt(d) = UnblockAt(c) \cup {Len(c) + 1}
  BY DEF Grown, UnblockAt

\* The sides are told something else than to flush.
LEMMA AudioTold ==
  ASSUME NEW Q, NEW a, NEW e \in Nat, NEW blk, AudioSide(Q, a, e, blk),
         NEW cmd \in {"PAUSE", "PLAY", "EXIT"}
  PROVE  AudioSide(Queued(Q, Ctrl(cmd), e), a, e, blk) /\ Queued(Q, Ctrl(cmd), e).data = Q.data
<1> DEFINE R == Queued(Q, Ctrl(cmd), e)
           x == [Ctrl(cmd) EXCEPT !.epoch = e]
<1>1. x.type # "FLUSH" /\ x.type # "UNBLOCK" /\ cmd \in Commands
  <2>1. cmd \in Commands
    BY DEF Commands
  <2>2. QED
    BY <2>1, CtrlIs
<1>2. QueueOK(Q, e)
  BY DEF AudioSide
<1>3. QueueOK(R, e) /\ R.data = Q.data /\ Grown(Q.ctrl, R.ctrl, x)
  BY <1>1, <1>2, QueuedCmd
<1> HIDE DEF R, x
<1>4. UnblockAt(R.ctrl) = UnblockAt(Q.ctrl)
  BY <1>1, <1>3, GrownUnblocks
<1>5. Refusals(R.ctrl, a, blk)
  BY <1>4 DEF AudioSide, Refusals
<1>6. InOrder(R.ctrl, a.mb, a.flushed)
  BY <1>1, <1>3, GrownPlain DEF AudioSide
<1>7. \A y : After(y, Q.ctrl, a.mb, a.flushed) => After(y, R.ctrl, a.mb, a.flushed)
  BY <1>1, <1>3, GrownPlain
<1>8. AudioSide(R, a, e, blk)
  BY <1>3, <1>5, <1>6, <1>7 DEF AudioSide
<1>9. QED
  BY <1>3, <1>8 DEF R

\* The callback's MB_CTRL_UNBLOCK takes the place of devblk.
LEMMA AudioUnblocked ==
  ASSUME NEW Q, NEW a, NEW e \in Nat, AudioSide(Q, a, e, TRUE)
  PROVE  AudioSide(Queued(Q, Ctrl("UNBLOCK"), e), a, e, FALSE)
         /\ Queued(Q, Ctrl("UNBLOCK"), e).data = Q.data
<1> DEFINE R == Queued(Q, Ctrl("UNBLOCK"), e)
           x == [Ctrl("UNBLOCK") EXCEPT !.epoch = e]
<1>1. x.type # "FLUSH" /\ x.type = "UNBLOCK" /\ "UNBLOCK" \in Commands
  <2>1. "UNBLOCK" \in Commands
    BY DEF Commands
  <2>2. QED
    BY <2>1, CtrlIs
<1>2. QueueOK(Q, e)
  BY DEF AudioSide
<1>3. QueueOK(R, e) /\ R.data = Q.data /\ Grown(Q.ctrl, R.ctrl, x)
  BY <1>1, <1>2, QueuedCmd
<1> HIDE DEF R, x
<1>4. UnblockAt(R.ctrl) = UnblockAt(Q.ctrl) \cup {Len(Q.ctrl) + 1}
  BY <1>1, <1>3, GrownUnblocks
<1>5. Refusals(R.ctrl, a, FALSE)
  BY <1>4 DEF AudioSide, Refusals
<1>6. InOrder(R.ctrl, a.mb, a.flushed)
  BY <1>1, <1>3, GrownPlain DEF AudioSide
<1>7. \A y : After(y, Q.ctrl, a.mb, a.flushed) => After(y, R.ctrl, a.mb, a.flushed)
  BY <1>1, <1>3, GrownPlain
<1>8. AudioSide(R, a, e, FALSE)
  BY <1>3, <1>5, <1>6, <1>7 DEF AudioSide
<1>9. QED
  BY <1>3, <1>8 DEF R

\* The video side is told something else than to flush.
LEMMA VideoTold ==
  ASSUME NEW Q, NEW v, NEW e \in Nat, VideoSide(Q, v, e),
         NEW cmd \in {"PAUSE", "PLAY", "EXIT"}
  PROVE  LET R == Queued(Q, Ctrl(cmd), e)
         IN  VideoSide(R, v, e) /\ R.data = Q.data /\ (NoneDue(R.ctrl, v.mb) => NoneDue(Q.ctrl, v.mb))
<1> DEFINE R == Queued(Q, Ctrl(cmd), e)
           x == [Ctrl(cmd) EXCEPT !.epoch = e]
<1>1. x.type # "FLUSH" /\ x.type # "UNBLOCK" /\ cmd \in Commands
  <2>1. cmd \in Commands
    BY DEF Commands
  <2>2. QED
    BY <2>1, CtrlIs
<1>2. QueueOK(Q, e)
  BY DEF VideoSide
<1>3. QueueOK(R, e) /\ R.data = Q.data /\ Grown(Q.ctrl, R.ctrl, x)
  BY <1>1, <1>2, QueuedCmd
<1> HIDE DEF R, x
<1>4. UnblockAt(R.ctrl) = UnblockAt(Q.ctrl)
  BY <1>1, <1>3, GrownUnblocks
<1>5. InOrder(R.ctrl, v.mb, v.flushed)
  BY <1>1, <1>3, GrownPlain DEF VideoSide
<1>6. \A y : After(y, Q.ctrl, v.mb, v.flushed) => After(y, R.ctrl, v.mb, v.flushed)
  BY <1>1, <1>3, GrownPlain
<1>7. \A y : Before(y, Q.ctrl, v.mb) => Before(y, R.ctrl, v.mb)
  BY <1>1, <1>3, GrownPlain
<1>8. VideoSide(R, v, e)
  BY <1>3, <1>4, <1>5, <1>6, <1>7 DEF VideoSide
<1>9. NoneDue(R.ctrl, v.mb) => NoneDue(Q.ctrl, v.mb)
  BY <1>1, <1>3, GrownPlain
<1>10. QED
  BY <1>3, <1>8, <1>9 DEF R

\* A packet is queued: it is from after every flush.
LEMMA AudioSent ==
  ASSUME NEW Q, NEW a, NEW e \in Nat, NEW blk, AudioSide(Q, a, e, blk),
         NEW mb \in Mb, mb.type = "DATA", mb.size = AudioSize
  PROVE  AudioSide(Queued(Q, mb, e), a, e, blk)
<1> DEFINE R == Queued(Q, mb, e)
           x == [mb EXCEPT !.epoch = e]
<1>1. x.epoch = e /\ x.size = AudioSize /\ mb.size >= 1
  BY Sizes DEF Mb
<1>2. QueueOK(Q, e)
  BY DEF AudioSide
<1>3. QueueOK(R, e) /\ R.ctrl = Q.ctrl /\ Grown(Q.data, R.data, x)
  BY <1>1, <1>2, QueuedData
<1> HIDE DEF R, x
<1>4. After(x, Q.ctrl, a.mb, a.flushed)
  BY <1>1 DEF After, AudioSide, QueueOK, IsFlush
<1>5. \A i \in 1 .. Len(R.data) :
          /\ R.data[i].size <= AudioSize
          /\ i >= 2 \/ IsData(a.mb) => /\ R.data[i].size = AudioSize
                                       /\ After(R.data[i], R.ctrl, a.mb, a.flushed)
  <2> SUFFICES ASSUME NEW i \in 1 .. Len(R.data)
               PROVE  /\ R.data[i].size <= AudioSize
                      /\ i >= 2 \/ IsData(a.mb) => /\ R.data[i].size = AudioSize
                                                   /\ After(R.data[i], R.ctrl, a.mb, a.flushed)
    OBVIOUS
  <2>1. CASE i \in 1 .. Len(Q.data)
    BY <1>3, <2>1 DEF Grown, AudioSide
  <2>2. CASE i = Len(Q.data) + 1
    <3>1. R.data[i] = x
      BY <1>3, <2>2 DEF Grown
    <3>2. QED
      BY <1>1, <1>3, <1>4, <3>1, Sizes
  <2>3. QED
    BY <1>3, <2>1, <2>2 DEF Grown
<1>6. AudioSide(R, a, e, blk)
  BY <1>3, <1>5 DEF AudioSide
<1>7. QED
  BY <1>6 DEF R

\* The player's packet joins the video queue, from after every flush.
LEMMA VideoSent ==
  ASSUME NEW Q, NEW v, NEW e \in Nat, VideoSide(Q, v, e),
         NEW mb \in Mb, mb.type = "DATA", mb.size >= 1
  PROVE  VideoSide(Queued(Q, mb, e), v, e) /\ Queued(Q, mb, e).ctrl = Q.ctrl
<1> DEFINE R == Queued(Q, mb, e)
           x == [mb EXCEPT !.epoch = e]
<1>1. x.epoch = e
  BY DEF Mb
<1>2. QueueOK(Q, e)
  BY DEF VideoSide
<1>3. QueueOK(R, e) /\ R.ctrl = Q.ctrl /\ Grown(Q.data, R.data, x)
  BY <1>2, QueuedData
<1> HIDE DEF R, x
<1>4. After(x, Q.ctrl, v.mb, v.flushed)
  BY <1>1 DEF After, VideoSide, QueueOK, IsFlush
<1>5. \A i \in 1 .. Len(R.data) : After(R.data[i], R.ctrl, v.mb, v.flushed)
  <2> SUFFICES ASSUME NEW i \in 1 .. Len(R.data)
               PROVE  After(R.data[i], R.ctrl, v.mb, v.flushed)
    OBVIOUS
  <2>1. CASE i \in 1 .. Len(Q.data)
    BY <1>3, <2>1 DEF Grown, VideoSide
  <2>2. CASE i = Len(Q.data) + 1
    BY <1>3, <1>4, <2>2 DEF Grown
  <2>3. QED
    BY <1>3, <2>1, <2>2 DEF Grown
<1>6. VideoSide(R, v, e)
  BY <1>3, <1>5 DEF VideoSide
<1>7. QED
  BY <1>3, <1>6 DEF R

\* A queue R with the commands of Q and packets of the next epoch only gets a flush.
Renewed(Q, R, e) ==
    /\ R \in [data : Seq(Mb), ctrl : Seq(Mb), packets : Nat]
    /\ Counts(R.packets, R.data, R.ctrl)
    /\ R.ctrl = Q.ctrl
    /\ \A i \in 1 .. Len(R.data) : R.data[i].type = "DATA" /\ R.data[i].epoch = e + 1 /\ R.data[i].size >= 1

\* A queue with only packets of the new epoch, and its flush, is in order.
LEMMA RenewedQueue ==
  ASSUME NEW Q, NEW R, NEW e \in Nat, QueueOK(Q, e), Renewed(Q, R, e)
  PROVE  LET S == Queued(R, Ctrl("FLUSH"), e + 1)
             x == [Ctrl("FLUSH") EXCEPT !.epoch = e + 1]
         IN  /\ QueueOK(S, e + 1) /\ S.data = R.data /\ Grown(Q.ctrl, S.ctrl, x)
             /\ x.type = "FLUSH" /\ x.epoch = e + 1
             /\ UnblockAt(S.ctrl) = UnblockAt(Q.ctrl)
             /\ \A mb, f : f <= e + 1 /\ (IsFlush(mb) => mb.epoch <= e + 1) =>
                   \A i \in 1 .. Len(S.data) : After(S.data[i], S.ctrl, mb, f)
<1> DEFINE S == Queued(R, Ctrl("FLUSH"), e + 1)
           x == [Ctrl("FLUSH") EXCEPT !.epoch = e + 1]
<1>1. QueueOK(Q, e + 1)
  BY QueueLater
<1>2. QueueOK(R, e + 1)
  BY <1>1 DEF QueueOK, Renewed
<1>3. QueueOK(S, e + 1) /\ S.data = R.data /\ Grown(Q.ctrl, S.ctrl, x)
  <2>1. e + 1 \in Nat /\ "FLUSH" \in Commands
    BY DEF Commands
  <2>2. QueueOK(S, e + 1) /\ S.data = R.data /\ Grown(R.ctrl, S.ctrl, x)
    BY <1>2, <2>1, QueuedCmd
  <2> HIDE DEF S, x
  <2>3. QED
    BY <2>2 DEF Renewed
<1>4. x.type = "FLUSH" /\ x.epoch = e + 1
  <2>1. "FLUSH" \in Commands /\ e + 1 \in Nat
    BY DEF Commands
  <2>2. QED
    BY <2>1, CtrlIs
<1> HIDE DEF S, x
<1>5. UnblockAt(S.ctrl) = UnblockAt(Q.ctrl)
  BY <1>3, <1>4, GrownUnblocks
<1>6. \A mb, f : f <= e + 1 /\ (IsFlush(mb) => mb.epoch <= e + 1) =>
                   \A i \in 1 .. Len(S.data) : After(S.data[i], S.ctrl, mb, f)
  BY <1>3 DEF After, Renewed, QueueOK
<1>7. QED
  BY <1>3, <1>4, <1>5, <1>6 DEF S, x

\* An audio side keeps its promises when its queue is renewed behind a flush ...
LEMMA AudioFlushed ==
  ASSUME NEW Q, NEW a, NEW e \in Nat, NEW blk, AudioSide(Q, a, e, blk), NEW R, Renewed(Q, R, e),
         \A i \in 1 .. Len(R.data) : /\ R.data[i].size <= AudioSize
                                     /\ i >= 2 \/ IsData(a.mb) => R.data[i].size = AudioSize
  PROVE  /\ AudioSide(Queued(R, Ctrl("FLUSH"), e + 1), a, e + 1, blk)
         /\ Queued(R, Ctrl("FLUSH"), e + 1).data = R.data
<1> DEFINE S == Queued(R, Ctrl("FLUSH"), e + 1)
           x == [Ctrl("FLUSH") EXCEPT !.epoch = e + 1]
<1>1. AudioSide(Q, a, e + 1, blk)
  BY AudioLater
<1>2. /\ QueueOK(S, e + 1) /\ S.data = R.data /\ Grown(Q.ctrl, S.ctrl, x)
      /\ x.type = "FLUSH" /\ x.epoch = e + 1
      /\ UnblockAt(S.ctrl) = UnblockAt(Q.ctrl)
      /\ \A mb, f : f <= e + 1 /\ (IsFlush(mb) => mb.epoch <= e + 1) =>
                   \A i \in 1 .. Len(S.data) : After(S.data[i], S.ctrl, mb, f)
  BY RenewedQueue DEF AudioSide
<1> HIDE DEF S, x
<1>3. a.flushed <= e + 1 /\ (IsFlush(a.mb) => a.mb.epoch <= e + 1)
  BY <1>1 DEF AudioSide, IsFlush
<1>4. InOrder(S.ctrl, a.mb, a.flushed)
  BY <1>1, <1>2, <1>3, GrownFlush DEF AudioSide
<1>5. Refusals(S.ctrl, a, blk)
  BY <1>1, <1>2 DEF AudioSide, Refusals
<1>6. AudioSide(S, a, e + 1, blk)
  BY <1>1, <1>2, <1>3, <1>4, <1>5 DEF AudioSide
<1>7. QED
  BY <1>2, <1>6 DEF S

\* ... and so does a video side, whose thread now holds only what is to be discarded.
LEMMA VideoFlushed ==
  ASSUME NEW Q, NEW v, NEW e \in Nat, VideoSide(Q, v, e), NEW R, Renewed(Q, R, e)
  PROVE  LET S == Queued(R, Ctrl("FLUSH"), e + 1)
         IN  VideoSide(S, v, e + 1) /\ S.data = R.data /\ ~NoneDue(S.ctrl, v.mb)
<1> DEFINE S == Queued(R, Ctrl("FLUSH"), e + 1)
           x == [Ctrl("FLUSH") EXCEPT !.epoch = e + 1]
<1>1. VideoSide(Q, v, e + 1)
  BY VideoLater
<1>2. /\ QueueOK(S, e + 1) /\ S.data = R.data /\ Grown(Q.ctrl, S.ctrl, x)
      /\ x.type = "FLUSH" /\ x.epoch = e + 1
      /\ UnblockAt(S.ctrl) = UnblockAt(Q.ctrl)
      /\ \A mb, f : f <= e + 1 /\ (IsFlush(mb) => mb.epoch <= e + 1) =>
                   \A i \in 1 .. Len(S.data) : After(S.data[i], S.ctrl, mb, f)
  BY RenewedQueue DEF VideoSide
<1> HIDE DEF S, x
<1>3. v.flushed <= e + 1 /\ (IsFlush(v.mb) => v.mb.epoch <= e + 1)
  BY <1>1 DEF VideoSide, IsFlush
<1>4. InOrder(S.ctrl, v.mb, v.flushed)
  BY <1>1, <1>2, <1>3, GrownFlush DEF VideoSide
<1>5. \A y \in {v.mb, v.cur, v.seen} : IsData(y) => y.epoch < e + 1
  <2>1. \A y \in {v.mb, v.cur, v.seen} : IsData(y) => y.epoch <= e /\ y.epoch \in Nat
    BY MbFields DEF VideoSide, VideoRec, IsData
  <2>2. QED
    BY <2>1
<1>6. \A y \in {v.mb, v.cur, v.seen} : IsData(y) => Before(y, S.ctrl, v.mb)
  BY <1>1, <1>2, <1>5, GrownFlush DEF VideoSide
<1>7. VideoSide(S, v, e + 1)
  BY <1>1, <1>2, <1>3, <1>4, <1>6 DEF VideoSide
<1>8. ~NoneDue(S.ctrl, v.mb)
  BY <1>2, GrownFlush
<1>9. QED
  BY <1>2, <1>7, <1>8 DEF S

\* mp_flush_locked on a side.
LEMMA AudioEmptied ==
  ASSUME NEW Q, NEW a, NEW e \in Nat, NEW blk, AudioSide(Q, a, e, blk)
  PROVE  LET S == Queued(mq_flush_q(Q, FALSE), Ctrl("FLUSH"), e + 1)
         IN  AudioSide(S, a, e + 1, blk) /\ S.data = <<>>
<1> DEFINE R == mq_flush_q(Q, FALSE)
<1>1. QueueOK(Q, e) /\ FALSE \in BOOLEAN /\ ~FALSE
  BY DEF AudioSide
<1>2. /\ QueueOK(R, e) /\ R.data = <<>>
      /\ \A i \in 1 .. Len(R.ctrl) : R.ctrl[i].type # "FLUSH"
      /\ UnblockAt(R.ctrl) = {} <=> UnblockAt(Q.ctrl) = {}
      /\ (\A i, j \in UnblockAt(Q.ctrl) : i = j) => \A i, j \in UnblockAt(R.ctrl) : i = j
  BY <1>1, FlushedQueue
<1> HIDE DEF R
<1>3. \A i \in 1 .. Len(R.data) : FALSE
  BY <1>2
<1>4. InOrder(R.ctrl, a.mb, a.flushed)
  BY <1>2 DEF InOrder, AudioSide
<1>5. Refusals(R.ctrl, a, blk)
  BY <1>2 DEF Refusals, AudioSide
<1>6. AudioSide(R, a, e, blk)
  BY <1>2, <1>3, <1>4, <1>5 DEF AudioSide
<1>7. Renewed(R, R, e)
  BY <1>2, <1>3 DEF Renewed, QueueOK
<1>8. AudioSide(Queued(R, Ctrl("FLUSH"), e + 1), a, e + 1, blk) /\ Queued(R, Ctrl("FLUSH"), e + 1).data = R.data
  BY <1>3, <1>6, <1>7, AudioFlushed
<1>9. QED
  BY <1>2, <1>8 DEF R

\* The same for video.
LEMMA VideoEmptied ==
  ASSUME NEW Q, NEW v, NEW e \in Nat, VideoSide(Q, v, e)
  PROVE  LET S == Queued(mq_flush_q(Q, FALSE), Ctrl("FLUSH"), e + 1)
         IN  VideoSide(S, v, e + 1) /\ S.data = <<>> /\ ~NoneDue(S.ctrl, v.mb)
<1> DEFINE R == mq_flush_q(Q, FALSE)
<1>1. QueueOK(Q, e) /\ FALSE \in BOOLEAN
  BY DEF VideoSide
<1>2. /\ QueueOK(R, e) /\ R.data = <<>>
      /\ \A i \in 1 .. Len(R.ctrl) : R.ctrl[i].type # "FLUSH"
      /\ UnblockAt(Q.ctrl) = {} => UnblockAt(R.ctrl) = {}
  BY <1>1, FlushedQueue
<1> HIDE DEF R
<1>3. \A i \in 1 .. Len(R.data) : FALSE
  BY <1>2
<1>4. InOrder(R.ctrl, v.mb, v.flushed)
  BY <1>2 DEF InOrder, VideoSide
<1>5. \A y \in {v.mb, v.cur, v.seen} : IsData(y) => Before(y, R.ctrl, v.mb)
  BY <1>2 DEF Before, VideoSide
<1>6. VideoSide(R, v, e)
  BY <1>2, <1>3, <1>4, <1>5 DEF VideoSide
<1>7. Renewed(R, R, e)
  BY <1>2, <1>3 DEF Renewed, QueueOK
<1>8. LET S == Queued(R, Ctrl("FLUSH"), e + 1)
      IN  VideoSide(S, v, e + 1) /\ S.data = R.data /\ ~NoneDue(S.ctrl, v.mb)
  BY <1>6, <1>7, VideoFlushed
<1>9. QED
  BY <1>2, <1>8 DEF R

\* mp_seek_in_queues on a queue: from the n-th on, its packets in the next epoch.
LEMMA DroppedQueue ==
  ASSUME NEW Q, NEW e \in Nat, QueueOK(Q, e), NEW n \in 1 .. Len(Q.data), NEW m \in Nat
  PROVE  LET R == DropBefore(Q, n, m, e + 1)
         IN  /\ Renewed(Q, R, e)
             /\ Len(R.data) = Len(Q.data) - n + 1
             /\ \A i \in 1 .. Len(R.data) : /\ i + n - 1 \in 1 .. Len(Q.data)
                                            /\ R.data[i].pts = Q.data[i + n - 1].pts
                                            /\ R.data[i].size = Q.data[i + n - 1].size
             /\ SubSeq(Q.data, 1, n - 1) \in Seq(Mb)
             /\ Bytes(Q.data) = Bytes(SubSeq(Q.data, 1, n - 1)) + Bytes(R.data)
<1> DEFINE R == DropBefore(Q, n, m, e + 1)
           s == Q.data
           k == Len(s) - n + 1
           u == [i \in 1 .. k |-> [s[i + n - 1] EXCEPT !.epoch = e + 1, !.skip = @ \/ i + n - 1 < m]]
           t == SubSeq(s, 1, n - 1)
<1>1. /\ s \in Seq(Mb) /\ Q.ctrl \in Seq(Mb) /\ Q.packets \in Nat /\ Counts(Q.packets, s, Q.ctrl)
      /\ \A i \in 1 .. Len(s) : s[i].type = "DATA" /\ s[i].size >= 1
      /\ Q \in [data : Seq(Mb), ctrl : Seq(Mb), packets : Nat] /\ n \in 1 .. Len(s)
  BY DEF QueueOK
<1>2. R = [data |-> u, ctrl |-> Q.ctrl, packets |-> Q.packets - (n - 1)]
  <2>1. R = [Q EXCEPT !.data = u, !.packets = Q.packets - (n - 1)]
    BY DEF DropBefore
  <2> HIDE DEF u, R
  <2>2. QED
    BY <1>1, <2>1 DEF s
<1> HIDE DEF R, s
<1>3. k \in Nat /\ Len(s) \in Nat /\ n \in Nat /\ \A i \in 1 .. k : i + n - 1 \in 1 .. Len(s)
  BY <1>1
<1>4. \A i \in 1 .. k : /\ s[i + n - 1] \in Mb /\ u[i] \in Mb
                        /\ u[i].type = s[i + n - 1].type /\ u[i].pts = s[i + n - 1].pts
                        /\ u[i].size = s[i + n - 1].size /\ u[i].epoch = e + 1
  <2> SUFFICES ASSUME NEW i \in 1 .. k
               PROVE  /\ s[i + n - 1] \in Mb /\ u[i] \in Mb
                      /\ u[i].type = s[i + n - 1].type /\ u[i].pts = s[i + n - 1].pts
                      /\ u[i].size = s[i + n - 1].size /\ u[i].epoch = e + 1
    OBVIOUS
  <2> DEFINE y == s[i + n - 1]
             early == i + n - 1 < m
             f == e + 1
             sk == y.skip \/ early
  <2>1. y \in Mb
    BY <1>1, <1>3
  <2>2. u[i] = [y EXCEPT !.epoch = f, !.skip = sk]
    OBVIOUS
  <2>3. f \in Nat /\ sk \in BOOLEAN
    OBVIOUS
  <2> HIDE DEF y, u, f, sk
  <2>4. /\ u[i] \in Mb /\ u[i].type = y.type /\ u[i].pts = y.pts /\ u[i].size = y.size
        /\ u[i].epoch = f
    BY <2>1, <2>2, <2>3 DEF Mb
  <2>5. QED
    BY <2>1, <2>4 DEF y, f
<1>5. u \in Seq(Mb) /\ Len(u) = k
  <2>1. u \in [1 .. k -> Mb]
    BY <1>4
  <2>2. k \in Nat
    BY <1>3
  <2> HIDE DEF u, k
  <2>3. QED
    BY <2>1, <2>2
<1> HIDE DEF u
<1>6. R.data = u /\ R.ctrl = Q.ctrl /\ R.packets = Q.packets - (n - 1)
  BY <1>2
<1>7. Q.packets - (n - 1) \in Nat /\ Counts(Q.packets - (n - 1), u, Q.ctrl)
  <2>1. Len(Q.ctrl) \in Nat
    BY <1>1
  <2>2. QED
    BY <1>1, <1>3, <1>5, <2>1 DEF Counts
<1>8. R \in [data : Seq(Mb), ctrl : Seq(Mb), packets : Nat]
  BY <1>1, <1>2, <1>5, <1>7
<1>9. Renewed(Q, R, e)
  BY <1>1, <1>3, <1>4, <1>5, <1>6, <1>7, <1>8 DEF Renewed
<1>10. t \in Seq(Mb) /\ Len(t) = n - 1 /\ \A i \in 1 .. n - 1 : t[i] = s[i]
  BY <1>1, <1>3
<1>11. Bytes(s) = Bytes(t) + Bytes(u)
  <2>1. Len(s) = Len(t) + Len(u)
    BY <1>3, <1>5, <1>10
  <2>2. \A i \in 1 .. Len(u) : s[Len(t) + i].size = u[i].size
    <3>1. \A i \in 1 .. k : Len(t) + i = i + n - 1
      BY <1>3, <1>10
    <3>2. QED
      BY <1>4, <1>5, <3>1
  <2>3. \A i \in 1 .. Len(t) : s[i].size = t[i].size
    BY <1>10
  <2> HIDE DEF t
  <2>4. QED
    BY <1>1, <1>5, <1>10, <2>1, <2>2, <2>3, BytesSplit
<1>12. QED
  BY <1>3, <1>4, <1>5, <1>6, <1>9, <1>10, <1>11 DEF R, s

\* A packet kept that is marked was marked before, or is from before the m-th.
LEMMA DroppedMarks ==
  ASSUME NEW Q, NEW e \in Nat, QueueOK(Q, e), NEW n \in 1 .. Len(Q.data), NEW m \in Nat,
         NEW i \in 1 .. Len(DropBefore(Q, n, m, e + 1).data),
         DropBefore(Q, n, m, e + 1).data[i].skip
  PROVE  Q.data[i + n - 1].skip \/ i + n - 1 < m
<1> DEFINE R == DropBefore(Q, n, m, e + 1)
           s == Q.data
           k == Len(s) - n + 1
           u == [j \in 1 .. k |-> [s[j + n - 1] EXCEPT !.epoch = e + 1, !.skip = @ \/ j + n - 1 < m]]
           y == s[i + n - 1]
           early == i + n - 1 < m
           sk == y.skip \/ early
           f == e + 1
<1>1. Q \in [data : Seq(Mb), ctrl : Seq(Mb), packets : Nat] /\ s \in Seq(Mb)
  BY DEF QueueOK
<1>2. R.data = u
  <2>1. R = [Q EXCEPT !.data = u, !.packets = Q.packets - (n - 1)]
    BY DEF DropBefore
  <2> HIDE DEF u, R
  <2>2. QED
    BY <1>1, <2>1
<1>3. i \in 1 .. k
  <2>1. Len(R.data) = k
    BY DroppedQueue
  <2>2. QED
    BY <2>1
<1>4. y \in Mb
  <2>1. i + n - 1 \in 1 .. Len(s)
    BY <1>1, <1>3
  <2>2. QED
    BY <1>1, <2>1
<1>5. u[i] = [y EXCEPT !.epoch = f, !.skip = sk]
  BY <1>3
<1>6. u[i].skip
  BY <1>2
<1> HIDE DEF y, f, sk, u
<1>7. u[i].skip = sk
  BY <1>4, <1>5 DEF Mb
<1>8. QED
  BY <1>6, <1>7 DEF sk, y

\* mp_seek_in_queues on the audio side.
LEMMA AudioSought ==
  ASSUME NEW Q, NEW a, NEW e \in Nat, NEW blk, AudioSide(Q, a, e, blk), NEW n \in 1 .. Len(Q.data),
         NEW m \in Nat
  PROVE  LET R == DropBefore(Q, n, m, e + 1)
             S == Queued(R, Ctrl("FLUSH"), e + 1)
         IN  AudioSide(S, a, e + 1, blk) /\ S.data = R.data
<1> DEFINE R == DropBefore(Q, n, m, e + 1)
<1>1. QueueOK(Q, e)
  BY DEF AudioSide
<1>2. /\ Renewed(Q, R, e)
      /\ \A i \in 1 .. Len(R.data) : /\ i + n - 1 \in 1 .. Len(Q.data)
                                     /\ R.data[i].size = Q.data[i + n - 1].size
  BY <1>1, DroppedQueue
<1> HIDE DEF R
<1>3. \A i \in 1 .. Len(R.data) : /\ R.data[i].size <= AudioSize
                                  /\ i >= 2 \/ IsData(a.mb) => R.data[i].size = AudioSize
  <2> SUFFICES ASSUME NEW i \in 1 .. Len(R.data)
               PROVE  /\ R.data[i].size <= AudioSize
                      /\ i >= 2 \/ IsData(a.mb) => R.data[i].size = AudioSize
    OBVIOUS
  <2>1. i + n - 1 \in 1 .. Len(Q.data) /\ R.data[i].size = Q.data[i + n - 1].size
    BY <1>2
  <2>2. i >= 2 => i + n - 1 >= 2
    BY <1>1 DEF QueueOK
  <2>3. QED
    BY <2>1, <2>2 DEF AudioSide
<1>4. AudioSide(Queued(R, Ctrl("FLUSH"), e + 1), a, e + 1, blk) /\ Queued(R, Ctrl("FLUSH"), e + 1).data = R.data
  BY <1>2, <1>3, AudioFlushed
<1>5. QED
  BY <1>4 DEF R

\* The same for video.
LEMMA VideoSought ==
  ASSUME NEW Q, NEW v, NEW e \in Nat, VideoSide(Q, v, e), NEW n \in 1 .. Len(Q.data),
         NEW m \in Nat
  PROVE  LET R == DropBefore(Q, n, m, e + 1)
             S == Queued(R, Ctrl("FLUSH"), e + 1)
         IN  VideoSide(S, v, e + 1) /\ S.data = R.data /\ ~NoneDue(S.ctrl, v.mb)
<1> DEFINE R == DropBefore(Q, n, m, e + 1)
<1>1. QueueOK(Q, e)
  BY DEF VideoSide
<1>2. Renewed(Q, R, e)
  BY <1>1, DroppedQueue
<1> HIDE DEF R
<1>3. LET S == Queued(R, Ctrl("FLUSH"), e + 1)
      IN  VideoSide(S, v, e + 1) /\ S.data = R.data /\ ~NoneDue(S.ctrl, v.mb)
  BY <1>2, VideoFlushed
<1>4. QED
  BY <1>3 DEF R

-----------------------------------------------------------------------------
(* Packets taken from the queues.                                           *)

\* The first packet of a list and the rest.
LEMMA TailIs ==
  ASSUME NEW s \in Seq(Mb), s # <<>>
  PROVE  /\ Head(s) = s[1] /\ Head(s) \in Mb /\ 1 \in 1 .. Len(s) /\ Len(s) \in Nat
         /\ Tail(s) \in Seq(Mb) /\ Len(Tail(s)) = Len(s) - 1 /\ Len(Tail(s)) \in Nat
         /\ \A i \in 1 .. Len(Tail(s)) : i + 1 \in 1 .. Len(s) /\ Tail(s)[i] = s[i + 1]
  OBVIOUS

\* The counter of a queue whose lists have one packet less.
LEMMA CountsLess ==
  ASSUME NEW n \in Nat, NEW s \in Seq(Mb), NEW t \in Seq(Mb), Counts(n, s, t)
  PROVE  /\ s # <<>> => n - 1 \in Nat /\ Counts(n - 1, Tail(s), t)
         /\ t # <<>> => n - 1 \in Nat /\ Counts(n - 1, s, Tail(t))
<1>1. Len(s) \in Nat /\ Len(t) \in Nat /\ n = Len(s) + Len(t)
  BY DEF Counts
<1>2. s # <<>> => Len(Tail(s)) = Len(s) - 1 /\ Len(s) > 0
  OBVIOUS
<1>3. t # <<>> => Len(Tail(t)) = Len(t) - 1 /\ Len(t) > 0
  OBVIOUS
<1>4. QED
  BY <1>1, <1>2, <1>3 DEF Counts

\* A queue from which a command is taken ...
LEMMA TakenCtrl ==
  ASSUME NEW Q, NEW e \in Nat, QueueOK(Q, e), Q.ctrl # <<>>
  PROVE  QueueOK(CtrlTaken(Q), e) /\ CtrlTaken(Q).data = Q.data /\ CtrlTaken(Q).ctrl = Tail(Q.ctrl)
<1> DEFINE R == CtrlTaken(Q)
           c == Q.ctrl
           d == Tail(Q.ctrl)
<1>1. Q \in [data : Seq(Mb), ctrl : Seq(Mb), packets : Nat] /\ Q.data \in Seq(Mb)
      /\ Q.packets \in Nat /\ Counts(Q.packets, Q.data, Q.ctrl) /\ c \in Seq(Mb)
  BY DEF QueueOK
<1>2. R = [data |-> Q.data, ctrl |-> d, packets |-> Q.packets - 1]
  <2>1. R = [Q EXCEPT !.ctrl = d, !.packets = Q.packets - 1]
    BY DEF CtrlTaken
  <2> HIDE DEF d, R
  <2>2. QED
    BY <1>1, <2>1
<1>3. /\ d \in Seq(Mb) /\ Len(d) = Len(c) - 1 /\ Len(d) \in Nat /\ Len(c) \in Nat
      /\ \A i \in 1 .. Len(d) : i + 1 \in 1 .. Len(c) /\ d[i] = c[i + 1]
  BY <1>1, TailIs
<1>4. Q.packets - 1 \in Nat /\ Counts(Q.packets - 1, Q.data, d)
  BY <1>1, CountsLess
<1> HIDE DEF R
<1>5. R.data = Q.data /\ R.ctrl = d /\ R.packets = Q.packets - 1
  BY <1>2
<1> HIDE DEF d
<1>6. R \in [data : Seq(Mb), ctrl : Seq(Mb), packets : Nat]
  BY <1>1, <1>2, <1>3, <1>4
<1>7. \A i \in 1 .. Len(d) : d[i].type \in Commands /\ d[i].epoch <= e
  BY <1>3 DEF QueueOK
<1>8. \A i, j \in 1 .. Len(d) :
          i <= j /\ d[i].type = "FLUSH" /\ d[j].type = "FLUSH" => d[i].epoch <= d[j].epoch
  <2>1. \A i, j \in 1 .. Len(d) : i <= j => i + 1 <= j + 1
    BY <1>3
  <2>2. QED
    BY <1>3, <2>1 DEF QueueOK
<1>9. QueueOK(R, e)
  BY <1>4, <1>5, <1>6, <1>7, <1>8 DEF QueueOK
<1>10. QED
  BY <1>5, <1>9 DEF R, d

\* ... and one from which a packet is.
LEMMA TakenData ==
  ASSUME NEW Q, NEW e \in Nat, QueueOK(Q, e), Q.data # <<>>
  PROVE  QueueOK(DataTaken(Q), e) /\ DataTaken(Q).ctrl = Q.ctrl /\ DataTaken(Q).data = Tail(Q.data)
<1> DEFINE R == DataTaken(Q)
           c == Q.data
           d == Tail(Q.data)
<1>1. Q \in [data : Seq(Mb), ctrl : Seq(Mb), packets : Nat] /\ Q.ctrl \in Seq(Mb)
      /\ Q.packets \in Nat /\ Counts(Q.packets, Q.data, Q.ctrl) /\ c \in Seq(Mb)
  BY DEF QueueOK
<1>2. R = [data |-> d, ctrl |-> Q.ctrl, packets |-> Q.packets - 1]
  <2>1. R = [Q EXCEPT !.data = d, !.packets = Q.packets - 1]
    BY DEF DataTaken
  <2> HIDE DEF d, R
  <2>2. QED
    BY <1>1, <2>1
<1>3. /\ d \in Seq(Mb) /\ Len(d) = Len(c) - 1 /\ Len(d) \in Nat /\ Len(c) \in Nat
      /\ \A i \in 1 .. Len(d) : i + 1 \in 1 .. Len(c) /\ d[i] = c[i + 1]
  BY <1>1, TailIs
<1>4. Q.packets - 1 \in Nat /\ Counts(Q.packets - 1, d, Q.ctrl)
  BY <1>1, CountsLess
<1> HIDE DEF R
<1>5. R.ctrl = Q.ctrl /\ R.data = d /\ R.packets = Q.packets - 1
  BY <1>2
<1> HIDE DEF d
<1>6. R \in [data : Seq(Mb), ctrl : Seq(Mb), packets : Nat]
  BY <1>1, <1>2, <1>3, <1>4
<1>7. \A i \in 1 .. Len(d) : d[i].type = "DATA" /\ d[i].epoch <= e /\ d[i].size >= 1
  BY <1>3 DEF QueueOK
<1>8. QueueOK(R, e)
  BY <1>4, <1>5, <1>6, <1>7 DEF QueueOK
<1>9. QED
  BY <1>5, <1>8 DEF R, d

\* Each MB_CTRL_UNBLOCK moves up by one place; the first may be the one taken.
LEMMA TailUnblocks ==
  ASSUME NEW c \in Seq(Mb), c # <<>>
  PROVE  /\ \A i \in UnblockAt(Tail(c)) : i + 1 \in UnblockAt(c) /\ i \in Nat /\ i # 0
         /\ \A i \in UnblockAt(c) : i # 1 => i - 1 \in UnblockAt(Tail(c))
         /\ 1 \in UnblockAt(c) <=> Head(c).type = "UNBLOCK"
<1>1. /\ Head(c) = c[1] /\ 1 \in 1 .. Len(c) /\ Len(c) \in Nat
      /\ Len(Tail(c)) = Len(c) - 1
      /\ \A i \in 1 .. Len(Tail(c)) : i + 1 \in 1 .. Len(c) /\ Tail(c)[i] = c[i + 1]
  BY TailIs
<1>2. \A i \in 1 .. Len(c) : i # 1 => i - 1 \in 1 .. Len(Tail(c)) /\ Tail(c)[i - 1] = c[i]
  BY <1>1
<1>3. QED
  BY <1>1, <1>2 DEF UnblockAt

\* What the formulas about a list say of its head and its tail.
LEMMA TailFlushes ==
  ASSUME NEW c \in Seq(Mb), c # <<>>,
         \A i, j \in 1 .. Len(c) :
            i <= j /\ c[i].type = "FLUSH" /\ c[j].type = "FLUSH" => c[i].epoch <= c[j].epoch
  PROVE  /\ \A f : InOrder(c, None, f) => InOrder(Tail(c), Head(c), f)
         /\ \A f : InOrder(c, None, f) => InOrder(Tail(c), None, f)
         /\ \A x, f : After(x, c, None, f) => After(x, Tail(c), Head(c), f)
         /\ \A x, f : After(x, c, None, f) => After(x, Tail(c), None, f)
         /\ \A x : Before(x, c, None) => Before(x, Tail(c), Head(c))
         /\ NoneDue(Tail(c), Head(c)) => NoneDue(c, None)
<1> DEFINE h == Head(c)
           t == Tail(c)
<1>1. /\ h = c[1] /\ h \in Mb /\ 1 \in 1 .. Len(c) /\ Len(c) \in Nat
      /\ Len(t) = Len(c) - 1 /\ Len(t) \in Nat
      /\ \A i \in 1 .. Len(t) : i + 1 \in 1 .. Len(c) /\ t[i] = c[i + 1] /\ 1 <= i + 1
  BY TailIs
<1> HIDE DEF h, t
<1>2. h # None
  BY <1>1, MbFields
<1>3. \A i \in 1 .. Len(t) : t[i].type = "FLUSH" /\ h.type = "FLUSH" => h.epoch <= t[i].epoch
  BY <1>1
<1>4. \A f : InOrder(c, None, f) => InOrder(t, h, f)
  BY <1>1, <1>3 DEF InOrder, IsFlush
<1>5. \A f : InOrder(c, None, f) => InOrder(t, None, f)
  BY <1>1 DEF InOrder, IsFlush
<1>6. \A x, f : After(x, c, None, f) => After(x, t, h, f)
  BY <1>1 DEF After, IsFlush
<1>7. \A x, f : After(x, c, None, f) => After(x, t, None, f)
  BY <1>1 DEF After, IsFlush
<1>8. \A x : Before(x, c, None) => Before(x, t, h)
  BY <1>1 DEF Before, IsFlush
<1>9. NoneDue(t, h) => NoneDue(c, None)
  <2> SUFFICES ASSUME NoneDue(t, h), NEW i \in 1 .. Len(c)
               PROVE  c[i].type # "FLUSH"
    BY DEF NoneDue, IsFlush
  <2>1. CASE i = 1
    BY <1>1, <1>2, <2>1 DEF NoneDue, IsFlush
  <2>2. CASE i # 1
    <3>1. i - 1 \in 1 .. Len(t) /\ (i - 1) + 1 = i
      BY <1>1, <2>2
    <3>2. t[i - 1] = c[i]
      BY <1>1, <3>1
    <3>3. QED
      BY <3>1, <3>2 DEF NoneDue
  <2>3. QED
    BY <2>1, <2>2
<1>10. QED
  BY <1>4, <1>5, <1>6, <1>7, <1>8, <1>9 DEF h, t

-----------------------------------------------------------------------------
(* The steps of the audio thread.                                           *)

\* The audio thread takes a command that it handles without the lock ...
LEMMA AudioTakesCtrl ==
  ASSUME NEW Q, NEW a, NEW e \in Nat, NEW blk, AudioSide(Q, a, e, blk), a.pc = "run", Q.ctrl # <<>>,
         Head(Q.ctrl).type # "UNBLOCK"
  PROVE  AudioSide(CtrlTaken(Q), [a EXCEPT !.pc = "process", !.mb = Head(Q.ctrl)], e, blk)
<1> DEFINE R == CtrlTaken(Q)
           h == Head(Q.ctrl)
           b == [a EXCEPT !.pc = "process", !.mb = h]
           c == Q.ctrl
<1>1. QueueOK(Q, e) /\ a \in AudioRec /\ a.mb = None
  BY DEF AudioSide
<1>2. QueueOK(R, e) /\ R.data = Q.data /\ R.ctrl = Tail(c)
  BY <1>1, TakenCtrl
<1>3. /\ c \in Seq(Mb) /\ c # <<>> /\ h = c[1] /\ 1 \in 1 .. Len(c) /\ h \in Mb
      /\ \A i, j \in 1 .. Len(c) :
            i <= j /\ c[i].type = "FLUSH" /\ c[j].type = "FLUSH" => c[i].epoch <= c[j].epoch
  BY <1>1, TailIs DEF QueueOK
<1>4. h # None /\ h.type \in Commands /\ h.type # "DATA" /\ h.epoch <= e
  BY <1>1, <1>3, MbFields DEF QueueOK, Commands
<1>5. /\ b \in AudioRec /\ b.pc = "process" /\ b.mb = h /\ b.flushed = a.flushed /\ b.blocked = a.blocked
  BY <1>1, <1>3 DEF AudioRec, Threads
<1> HIDE DEF R, h, b, c
<1>6. InOrder(R.ctrl, h, a.flushed)
  BY <1>1, <1>2, <1>3, TailFlushes DEF AudioSide, c, h
<1>7. \A x : After(x, c, a.mb, a.flushed) => After(x, R.ctrl, h, a.flushed)
  BY <1>1, <1>2, <1>3, TailFlushes DEF h
<1>8. Refusals(R.ctrl, b, blk)
  <2>1. /\ \A i \in UnblockAt(R.ctrl) : i + 1 \in UnblockAt(c) /\ i \in Nat
        /\ \A i \in UnblockAt(c) : i - 1 \in UnblockAt(R.ctrl)
    BY <1>2, <1>3, TailUnblocks DEF h, c
  <2>2. Refusals(c, a, blk)
    BY DEF AudioSide, c
  <2>3. UnblockAt(R.ctrl) = {} <=> UnblockAt(c) = {}
    BY <2>1
  <2>4. (\A i, j \in UnblockAt(c) : i = j) => \A i, j \in UnblockAt(R.ctrl) : i = j
    <3>1. \A i, j \in Nat : i + 1 = j + 1 => i = j
      OBVIOUS
    <3>2. QED
      BY <2>1, <3>1
  <2>5. QED
    BY <1>5, <2>2, <2>3, <2>4 DEF Refusals
<1>9. ~IsData(h)
  BY <1>4 DEF IsData
<1>10. AudioSide(R, b, e, blk)
  BY <1>1, <1>2, <1>4, <1>5, <1>6, <1>7, <1>8, <1>9 DEF AudioSide, c, h
<1>11. QED
  BY <1>10 DEF R, b, h

\* ... or MB_CTRL_UNBLOCK, with which the refusal is over ...
LEMMA AudioTakesUnblock ==
  ASSUME NEW Q, NEW a, NEW e \in Nat, NEW blk, AudioSide(Q, a, e, blk), a.pc = "run", Q.ctrl # <<>>,
         Head(Q.ctrl).type = "UNBLOCK"
  PROVE  AudioSide(CtrlTaken(Q), [a EXCEPT !.blocked = FALSE], e, blk)
<1> DEFINE R == CtrlTaken(Q)
           b == [a EXCEPT !.blocked = FALSE]
           c == Q.ctrl
<1>1. QueueOK(Q, e) /\ a \in AudioRec /\ a.mb = None
  BY DEF AudioSide
<1>2. QueueOK(R, e) /\ R.data = Q.data /\ R.ctrl = Tail(c)
  BY <1>1, TakenCtrl
<1>3. /\ c \in Seq(Mb) /\ c # <<>>
      /\ \A i, j \in 1 .. Len(c) :
            i <= j /\ c[i].type = "FLUSH" /\ c[j].type = "FLUSH" => c[i].epoch <= c[j].epoch
  BY <1>1 DEF QueueOK
<1>4. b \in AudioRec /\ b.pc = a.pc /\ b.mb = a.mb /\ b.flushed = a.flushed /\ b.blocked = FALSE
  BY <1>1 DEF AudioRec
<1> HIDE DEF R, b, c
<1>5. InOrder(R.ctrl, a.mb, a.flushed)
  BY <1>1, <1>2, <1>3, TailFlushes DEF AudioSide, c
<1>6. \A x : After(x, c, a.mb, a.flushed) => After(x, R.ctrl, a.mb, a.flushed)
  BY <1>1, <1>2, <1>3, TailFlushes
<1>7. Refusals(R.ctrl, b, blk)
  <2>1. /\ \A i \in UnblockAt(R.ctrl) : i + 1 \in UnblockAt(c) /\ i \in Nat /\ i # 0
        /\ 1 \in UnblockAt(c)
    BY <1>2, <1>3, TailUnblocks DEF c
  <2>2. Refusals(c, a, blk)
    BY DEF AudioSide, c
  <2>3. UnblockAt(R.ctrl) = {} /\ ~blk
    BY <2>1, <2>2 DEF Refusals
  <2>4. QED
    BY <1>4, <2>3 DEF Refusals
<1>8. AudioSide(R, b, e, blk)
  BY <1>1, <1>2, <1>4, <1>5, <1>6, <1>7 DEF AudioSide, c
<1>9. QED
  BY <1>8 DEF R, b

\* ... or a packet.
LEMMA AudioTakesData ==
  ASSUME NEW Q, NEW a, NEW e \in Nat, NEW blk, AudioSide(Q, a, e, blk), a.pc = "run", Q.ctrl = <<>>,
         Q.data # <<>>
  PROVE  AudioSide(DataTaken(Q), [a EXCEPT !.pc = "process", !.mb = Head(Q.data)], e, blk)
<1> DEFINE R == DataTaken(Q)
           h == Head(Q.data)
           b == [a EXCEPT !.pc = "process", !.mb = h]
           s == Q.data
<1>1. QueueOK(Q, e) /\ a \in AudioRec /\ a.mb = None
  BY DEF AudioSide
<1>2. QueueOK(R, e) /\ R.ctrl = Q.ctrl /\ R.data = Tail(s)
  BY <1>1, TakenData
<1>3. /\ s \in Seq(Mb) /\ h = s[1] /\ 1 \in 1 .. Len(s) /\ h \in Mb
      /\ \A i \in 1 .. Len(R.data) : i + 1 \in 1 .. Len(s) /\ R.data[i] = s[i + 1] /\ i + 1 >= 2
  BY <1>1, <1>2, TailIs DEF QueueOK
<1>4. h # None /\ h.type = "DATA" /\ h.epoch <= e /\ h.size \in 1 .. AudioSize
  BY <1>1, <1>3, MbFields, Sizes DEF QueueOK, AudioSide
<1>5. /\ b \in AudioRec /\ b.pc = "process" /\ b.mb = h /\ b.flushed = a.flushed /\ b.blocked = a.blocked
  BY <1>1, <1>3 DEF AudioRec, Threads
<1> HIDE DEF R, h, b, s
<1>6. IsData(h) /\ ~IsFlush(h)
  BY <1>4 DEF IsData, IsFlush
<1>7. InOrder(R.ctrl, h, a.flushed)
  BY <1>2, <1>6 DEF InOrder
<1>8. \A i \in 1 .. Len(R.data) : /\ R.data[i].size = AudioSize
                                  /\ After(R.data[i], R.ctrl, h, a.flushed)
  <2>1. \A i \in 1 .. Len(s) : i >= 2 => s[i].size = AudioSize /\ After(s[i], Q.ctrl, a.mb, a.flushed)
    BY DEF AudioSide, s
  <2>2. \A x : After(x, Q.ctrl, a.mb, a.flushed) => After(x, R.ctrl, h, a.flushed)
    BY <1>2, <1>6 DEF After
  <2>3. QED
    BY <1>3, <2>1, <2>2
<1>9. Refusals(R.ctrl, b, blk)
  BY <1>2, <1>5 DEF Refusals, AudioSide
<1>10. AudioSide(R, b, e, blk)
  BY <1>2, <1>4, <1>5, <1>7, <1>8, <1>9, Sizes DEF AudioSide
<1>11. QED
  BY <1>10 DEF R, b, h

\* What is left of a packet goes back to the front, the only one that may be stale.
LEMMA AudioPutsBack ==
  ASSUME NEW Q, NEW a, NEW e \in Nat, NEW blk, AudioSide(Q, a, e, blk), a.pc = "process",
         a.mb.type = "DATA", a.mb.size > 1, NEW more \in BOOLEAN
  PROVE  LET x == [a.mb EXCEPT !.size = @ - 1, !.pts = 0]
             R == PutBack(Q, x)
         IN  /\ AudioSide(R, [a EXCEPT !.pc = "run", !.mb = None, !.avail = more], e, blk)
             /\ R.data = <<x>> \o Q.data /\ x \in Mb /\ x.size = a.mb.size - 1 /\ x.size # AudioSize
             /\ x.skip = a.mb.skip
<1> DEFINE mb == a.mb
           x == [mb EXCEPT !.size = mb.size - 1, !.pts = 0]
           s == Q.data
           u == <<x>> \o s
           R == PutBack(Q, x)
           b == [a EXCEPT !.pc = "run", !.mb = None, !.avail = more]
<1>1. QueueOK(Q, e) /\ a \in AudioRec /\ mb \in Mb /\ mb # None /\ mb.type = "DATA" /\ mb.size > 1
  BY DEF AudioSide, AudioRec
<1>2. IsData(mb)
  BY <1>1 DEF IsData
<1>3. mb.size \in 1 .. AudioSize /\ mb.epoch <= e
  BY <1>1, <1>2 DEF AudioSide
<1> HIDE DEF mb
<1>4. /\ x \in Mb /\ x.type = "DATA" /\ x.epoch <= e
      /\ x.size = mb.size - 1 /\ x.size >= 1 /\ x.size <= AudioSize /\ x.size # AudioSize
      /\ x.skip = mb.skip
  <2>1. mb.size - 1 \in Nat /\ 0 \in 0 .. LastPts
    BY <1>1, <1>3, Sizes
  <2>2. x \in Mb /\ x.type = "DATA" /\ x.epoch = mb.epoch /\ x.size = mb.size - 1 /\ x.skip = mb.skip
    BY <1>1, <2>1 DEF Mb
  <2> HIDE DEF x
  <2>3. QED
    BY <1>1, <1>3, <2>2, Sizes
<1>5. /\ Q \in [data : Seq(Mb), ctrl : Seq(Mb), packets : Nat] /\ s \in Seq(Mb) /\ Q.ctrl \in Seq(Mb)
      /\ Q.packets \in Nat /\ Counts(Q.packets, s, Q.ctrl)
  BY <1>1 DEF QueueOK
<1> HIDE DEF x
<1>6. R = [data |-> u, ctrl |-> Q.ctrl, packets |-> Q.packets + 1]
  <2>1. R = [Q EXCEPT !.data = u, !.packets = Q.packets + 1]
    BY DEF PutBack
  <2> HIDE DEF R, u
  <2>2. QED
    BY <1>5, <2>1
<1>7. b \in AudioRec /\ b.pc = "run" /\ b.mb = None /\ b.flushed = a.flushed /\ b.blocked = a.blocked
  BY <1>1 DEF AudioRec, Threads
<1> HIDE DEF R, b, s
<1>8. /\ u \in Seq(Mb) /\ Len(u) = Len(s) + 1 /\ u[1] = x /\ Len(s) \in Nat
      /\ \A i \in 1 .. Len(u) : i >= 2 => i - 1 \in 1 .. Len(s) /\ u[i] = s[i - 1]
  BY <1>4, <1>5
<1> HIDE DEF u
<1>9. Q.packets + 1 \in Nat /\ Counts(Q.packets + 1, u, Q.ctrl)
  BY <1>5, <1>8, CountsMore
<1>10. R.data = u /\ R.ctrl = Q.ctrl /\ R.packets = Q.packets + 1
       /\ R \in [data : Seq(Mb), ctrl : Seq(Mb), packets : Nat]
  BY <1>5, <1>6, <1>8, <1>9
<1>11. \A i \in 1 .. Len(s) : /\ s[i].type = "DATA" /\ s[i].epoch <= e /\ s[i].size >= 1
                              /\ s[i].size = AudioSize /\ After(s[i], Q.ctrl, None, a.flushed)
  <2>1. \A y : After(y, Q.ctrl, a.mb, a.flushed) => After(y, Q.ctrl, None, a.flushed)
    BY DEF After, IsFlush
  <2>2. QED
    BY <1>1, <1>2, <2>1 DEF AudioSide, QueueOK, s, mb
<1>12. \A i \in 1 .. Len(u) : u[i].type = "DATA" /\ u[i].epoch <= e /\ u[i].size >= 1
  BY <1>4, <1>8, <1>11
<1>13. QueueOK(R, e)
  BY <1>1, <1>9, <1>10, <1>12 DEF QueueOK
<1>14. \A i \in 1 .. Len(u) : /\ u[i].size <= AudioSize
                              /\ i >= 2 => u[i].size = AudioSize /\ After(u[i], Q.ctrl, None, a.flushed)
  BY <1>4, <1>8, <1>11, Sizes
<1>15. InOrder(Q.ctrl, None, a.flushed)
  BY DEF AudioSide, InOrder, IsFlush
<1>16. Refusals(Q.ctrl, b, blk)
  BY <1>7 DEF AudioSide, Refusals
<1>17. AudioSide(R, b, e, blk)
  BY <1>7, <1>10, <1>13, <1>14, <1>15, <1>16 DEF AudioSide, IsData
<1>18. QED
  BY <1>4, <1>10, <1>17 DEF R, b, u, x, s, mb

\* The audio thread is done with what it holds.
LEMMA AudioFinishes ==
  ASSUME NEW Q, NEW e \in Nat, NEW blk, AudioSide(Q, aud, e, blk), aud.pc = "process",
         NEW more \in BOOLEAN
  PROVE  AudioSide(Q, AudioAfter(aud.mb, more), e, blk)
<1> DEFINE mb == aud.mb
           b == AudioAfter(mb, more)
<1>1. aud \in AudioRec /\ mb \in Mb /\ mb # None /\ mb.type # "UNBLOCK"
  BY DEF AudioSide, AudioRec
<1>2. mb.type \in {"DATA", "PAUSE", "PLAY", "FLUSH", "EXIT"} /\ mb.epoch \in Nat /\ mb.epoch <= e
  BY <1>1, MbFields DEF Commands, AudioSide
<1>3. /\ b \in AudioRec /\ b.pc \in {"run", "exit"} /\ b.mb = None /\ b.blocked = aud.blocked
      /\ b.flushed = IF mb.type = "FLUSH" THEN mb.epoch ELSE aud.flushed
  BY <1>1, <1>2 DEF AudioAfter, AudioRec, Threads
<1> HIDE DEF b
<1>4. InOrder(Q.ctrl, None, b.flushed)
  BY <1>1, <1>3 DEF AudioSide, InOrder, IsFlush
<1>5. \A x : After(x, Q.ctrl, aud.mb, aud.flushed) => After(x, Q.ctrl, None, b.flushed)
  BY <1>1, <1>3 DEF After, IsFlush
<1>6. Refusals(Q.ctrl, b, blk)
  BY <1>3 DEF Refusals, AudioSide
<1>7. b.flushed <= e
  BY <1>2, <1>3 DEF AudioSide
<1>8. AudioSide(Q, b, e, blk)
  BY <1>3, <1>4, <1>5, <1>6, <1>7 DEF AudioSide, IsData
<1>9. QED
  BY <1>8 DEF b

\* The other steps of the thread touch nothing that is queued.
LEMMA AudioElse ==
  ASSUME NEW Q, NEW a, NEW e \in Nat, NEW blk \in BOOLEAN, AudioSide(Q, a, e, blk)
  PROVE  /\ a.pc = "run" => AudioSide(Q, [a EXCEPT !.avail = FALSE], e, blk)
         /\ a.pc = "run" => AudioSide(Q, [a EXCEPT !.pc = "wait"], e, blk)
         /\ a.pc = "refused" => AudioSide(Q, [a EXCEPT !.pc = "run", !.blocked = TRUE], e, blk)
         /\ a.pc = "run" /\ ~a.blocked /\ Q.ctrl = <<>> =>
               AudioSide(Q, [a EXCEPT !.pc = "refused"], e, TRUE)
<1>1. a \in AudioRec /\ Refusals(Q.ctrl, a, blk) /\ (a.pc = "process" <=> a.mb # None)
  BY DEF AudioSide
<1>2. ASSUME NEW b \in AudioRec, NEW blk2, b.mb = a.mb, b.flushed = a.flushed,
             b.pc = "process" <=> a.pc = "process", Refusals(Q.ctrl, b, blk2)
      PROVE  AudioSide(Q, b, e, blk2)
  BY <1>2 DEF AudioSide
<1>3. ASSUME a.pc = "run"
      PROVE  AudioSide(Q, [a EXCEPT !.avail = FALSE], e, blk)
  <2> DEFINE b == [a EXCEPT !.avail = FALSE]
  <2>1. b \in AudioRec /\ b.mb = a.mb /\ b.flushed = a.flushed /\ b.pc = a.pc /\ b.blocked = a.blocked
    BY <1>1 DEF AudioRec
  <2> HIDE DEF b
  <2>2. Refusals(Q.ctrl, b, blk)
    BY <1>1, <2>1 DEF Refusals
  <2>3. AudioSide(Q, b, e, blk)
    BY <1>2, <2>1, <2>2
  <2>4. QED
    BY <2>3 DEF b
<1>4. ASSUME a.pc = "run"
      PROVE  AudioSide(Q, [a EXCEPT !.pc = "wait"], e, blk)
  <2> DEFINE b == [a EXCEPT !.pc = "wait"]
  <2>1. b \in AudioRec /\ b.mb = a.mb /\ b.flushed = a.flushed /\ b.pc = "wait" /\ b.blocked = a.blocked
    BY <1>1 DEF AudioRec, Threads
  <2> HIDE DEF b
  <2>2. Refusals(Q.ctrl, b, blk)
    BY <1>1, <1>4, <2>1 DEF Refusals
  <2>3. AudioSide(Q, b, e, blk)
    BY <1>2, <1>4, <2>1, <2>2
  <2>4. QED
    BY <2>3 DEF b
<1>5. ASSUME a.pc = "refused"
      PROVE  AudioSide(Q, [a EXCEPT !.pc = "run", !.blocked = TRUE], e, blk)
  <2> DEFINE b == [a EXCEPT !.pc = "run", !.blocked = TRUE]
  <2>1. b \in AudioRec /\ b.mb = a.mb /\ b.flushed = a.flushed /\ b.pc = "run" /\ b.blocked = TRUE
    BY <1>1 DEF AudioRec, Threads
  <2> HIDE DEF b
  <2>2. Refusals(Q.ctrl, b, blk)
    BY <1>1, <1>5, <2>1 DEF Refusals
  <2>3. AudioSide(Q, b, e, blk)
    BY <1>2, <1>5, <2>1, <2>2
  <2>4. QED
    BY <2>3 DEF b
<1>6. ASSUME a.pc = "run", ~a.blocked, Q.ctrl = <<>>
      PROVE  AudioSide(Q, [a EXCEPT !.pc = "refused"], e, TRUE)
  <2> DEFINE b == [a EXCEPT !.pc = "refused"]
  <2>1. b \in AudioRec /\ b.mb = a.mb /\ b.flushed = a.flushed /\ b.pc = "refused" /\ b.blocked = a.blocked
    BY <1>1 DEF AudioRec, Threads
  <2> HIDE DEF b
  <2>2. UnblockAt(Q.ctrl) = {}
    BY <1>6 DEF UnblockAt
  <2>3. Refusals(Q.ctrl, b, TRUE)
    BY <2>1, <2>2 DEF Refusals
  <2>4. AudioSide(Q, b, e, TRUE)
    BY <1>2, <1>6, <2>1, <2>3
  <2>5. QED
    BY <2>4 DEF b
<1>7. QED
  BY <1>3, <1>4, <1>5, <1>6

-----------------------------------------------------------------------------
(* The steps of the video thread.                                           *)

\* The video thread takes a command.
LEMMA VideoTakesCtrl ==
  ASSUME NEW Q, NEW v, NEW e \in Nat, VideoSide(Q, v, e), v.pc = "run", Q.ctrl # <<>>
  PROVE  /\ VideoSide(CtrlTaken(Q), [v EXCEPT !.pc = "process", !.mb = Head(Q.ctrl)], e)
         /\ CtrlTaken(Q).data = Q.data /\ v.mb = None /\ ~IsData(Head(Q.ctrl))
         /\ NoneDue(CtrlTaken(Q).ctrl, Head(Q.ctrl)) => NoneDue(Q.ctrl, v.mb)
<1> DEFINE R == CtrlTaken(Q)
           h == Head(Q.ctrl)
           w == [v EXCEPT !.pc = "process", !.mb = h]
           c == Q.ctrl
<1>1. QueueOK(Q, e) /\ v \in VideoRec /\ v.mb = None /\ UnblockAt(c) = {}
  BY DEF VideoSide
<1>2. QueueOK(R, e) /\ R.data = Q.data /\ R.ctrl = Tail(c)
  BY <1>1, TakenCtrl
<1>3. /\ c \in Seq(Mb) /\ c # <<>> /\ h = c[1] /\ 1 \in 1 .. Len(c) /\ h \in Mb
      /\ \A i, j \in 1 .. Len(c) :
            i <= j /\ c[i].type = "FLUSH" /\ c[j].type = "FLUSH" => c[i].epoch <= c[j].epoch
  BY <1>1, TailIs DEF QueueOK
<1>4. h # None /\ h.type \in Commands /\ h.type # "DATA" /\ h.epoch <= e
  BY <1>1, <1>3, MbFields DEF QueueOK, Commands
<1>5. /\ w \in VideoRec /\ w.pc = "process" /\ w.mb = h /\ w.flushed = v.flushed
      /\ w.cur = v.cur /\ w.seen = v.seen
  BY <1>1, <1>3 DEF VideoRec, Threads
<1> HIDE DEF R, h, w, c
<1>6. InOrder(R.ctrl, h, v.flushed)
  BY <1>1, <1>2, <1>3, TailFlushes DEF VideoSide, c, h
<1>7. \A x : After(x, c, v.mb, v.flushed) => After(x, R.ctrl, h, v.flushed)
  <2>1. \A x, f : After(x, c, None, f) => After(x, Tail(c), Head(c), f)
    BY <1>3, TailFlushes
  <2>2. QED
    BY <1>1, <1>2, <2>1 DEF h, c
<1>8. \A x : Before(x, c, v.mb) => Before(x, R.ctrl, h)
  BY <1>1, <1>2, <1>3, TailFlushes DEF h
<1>9. UnblockAt(R.ctrl) = {} /\ h.type # "UNBLOCK"
  BY <1>1, <1>2, <1>3, TailUnblocks DEF h
<1>10. ~IsData(h)
  BY <1>4 DEF IsData
<1>11. VideoSide(R, w, e)
  BY <1>1, <1>2, <1>4, <1>5, <1>6, <1>7, <1>8, <1>9, <1>10 DEF VideoSide, c
<1>12. NoneDue(R.ctrl, h) => NoneDue(c, v.mb)
  BY <1>1, <1>2, <1>3, TailFlushes DEF h
<1>13. QED
  BY <1>1, <1>2, <1>10, <1>11, <1>12 DEF R, w, h, c

\* The head of the queue is taken: what is left is still a video side, and the packet may
\* be the thread's.
LEMMA VideoTakesData ==
  ASSUME NEW Q, NEW v, NEW e \in Nat, VideoSide(Q, v, e), v.pc = "run", Q.ctrl = <<>>, Q.data # <<>>
  PROVE  LET h == Head(Q.data)
             R == DataTaken(Q)
         IN  /\ VideoSide(R, v, e) /\ R.ctrl = <<>> /\ R.data = Tail(Q.data)
             /\ h \in Mb /\ h.type = "DATA" /\ h.epoch <= e /\ v.flushed <= h.epoch /\ v.mb = None
<1> DEFINE R == DataTaken(Q)
           s == Q.data
           h == Head(s)
<1>1. QueueOK(Q, e) /\ v.mb = None
  BY DEF VideoSide
<1>2. QueueOK(R, e) /\ R.ctrl = Q.ctrl /\ R.data = Tail(s)
  BY <1>1, TakenData
<1>3. /\ s \in Seq(Mb) /\ h = s[1] /\ 1 \in 1 .. Len(s) /\ h \in Mb
      /\ \A i \in 1 .. Len(R.data) : i + 1 \in 1 .. Len(s) /\ R.data[i] = s[i + 1]
  BY <1>1, <1>2, TailIs DEF QueueOK
<1>4. h.type = "DATA" /\ h.epoch <= e
  BY <1>1, <1>3 DEF QueueOK
<1>5. \A i \in 1 .. Len(s) : After(s[i], Q.ctrl, v.mb, v.flushed)
  BY DEF VideoSide
<1>6. v.flushed <= h.epoch
  BY <1>3, <1>5 DEF After
<1> HIDE DEF R, s, h
<1>7. \A i \in 1 .. Len(R.data) : After(R.data[i], R.ctrl, v.mb, v.flushed)
  BY <1>2, <1>3, <1>5
<1>8. VideoSide(R, v, e)
  BY <1>2, <1>7 DEF VideoSide
<1>9. QED
  BY <1>1, <1>2, <1>3, <1>4, <1>6, <1>8 DEF R, h, s

\* It takes a packet for a codec that decodes without the lock.
LEMMA VideoHolds ==
  ASSUME NEW Q, NEW v, NEW e \in Nat, VideoSide(Q, v, e), v.pc = "run", Q.ctrl = <<>>, v.cur = None,
         NEW h \in Mb, h.type = "DATA", h.epoch <= e, v.flushed <= h.epoch, NEW p \in {"process", "switch"}
  PROVE  VideoSide(Q, [v EXCEPT !.pc = p, !.mb = h], e)
<1> DEFINE w == [v EXCEPT !.pc = p, !.mb = h]
<1>1. v \in VideoRec /\ h # None /\ v.mb = None
  BY MbFields DEF VideoSide
<1>2. /\ w \in VideoRec /\ w.pc = p /\ w.mb = h /\ w.flushed = v.flushed
      /\ w.cur = v.cur /\ w.seen = v.seen
  BY <1>1 DEF VideoRec, Threads
<1> HIDE DEF w
<1>3. ~IsFlush(h)
  BY DEF IsFlush
<1>4. InOrder(Q.ctrl, h, v.flushed) /\ \A x : Before(x, Q.ctrl, h)
  BY <1>3 DEF InOrder, Before
<1>5. \A x : After(x, Q.ctrl, v.mb, v.flushed) => After(x, Q.ctrl, h, v.flushed)
  BY <1>3 DEF After
<1>6. VideoSide(Q, w, e)
  BY <1>1, <1>2, <1>4, <1>5 DEF VideoSide
<1>7. QED
  BY <1>6 DEF w

\* What decode_locked leaves of the thread.
Decoded(v, mb, busy) ==
    IF busy THEN [v EXCEPT !.pc = "wait", !.mb = None, !.cur = mb]
    ELSE [v EXCEPT !.pc = "run", !.mb = None, !.cur = None, !.seen = mb]

\* The thread after decode_locked.
LEMMA DecodedIs ==
  ASSUME NEW v \in VideoRec, NEW mb \in Mb, NEW busy \in BOOLEAN
  PROVE  LET w == Decoded(v, mb, busy)
         IN  /\ w \in VideoRec /\ w.pc \in {"run", "wait"} /\ w.mb = None /\ w.flushed = v.flushed
             /\ w.cur = (IF busy THEN mb ELSE None) /\ w.seen = (IF busy THEN v.seen ELSE mb)
  BY DEF Decoded, VideoRec, Threads

\* decode_locked took the packet, or left it the current one.
LEMMA VideoDecodes ==
  ASSUME NEW Q, NEW v, NEW e \in Nat, VideoSide(Q, v, e), ~IsFlush(v.mb), NEW busy \in BOOLEAN,
         NEW mb \in Mb, mb.type = "DATA", mb.epoch <= e, v.flushed <= mb.epoch, Before(mb, Q.ctrl, v.mb)
  PROVE  VideoSide(Q, Decoded(v, mb, busy), e)
<1> DEFINE w == Decoded(v, mb, busy)
<1>1. v \in VideoRec /\ mb # None
  BY MbFields DEF VideoSide
<1>2. /\ w \in VideoRec /\ w.pc \in {"run", "wait"} /\ w.mb = None /\ w.flushed = v.flushed
      /\ w.cur = (IF busy THEN mb ELSE None) /\ w.seen = (IF busy THEN v.seen ELSE mb)
  BY <1>1, DecodedIs
<1> HIDE DEF w
<1>3. ~IsFlush(None) /\ ~IsData(None)
  BY DEF IsFlush, IsData
<1>4. InOrder(Q.ctrl, None, v.flushed)
  BY <1>3 DEF InOrder, VideoSide
<1>5. \A x : Before(x, Q.ctrl, v.mb) => Before(x, Q.ctrl, None)
  BY <1>3 DEF Before
<1>6. \A x : After(x, Q.ctrl, v.mb, v.flushed) => After(x, Q.ctrl, None, v.flushed)
  BY <1>3 DEF After
<1>7. VideoSide(Q, w, e)
  BY <1>1, <1>2, <1>3, <1>4, <1>5, <1>6 DEF VideoSide
<1>8. QED
  BY <1>7 DEF w

\* The video thread is done with what it holds: a flush discards the current packet.
LEMMA VideoFinishes ==
  ASSUME NEW Q, NEW e \in Nat, VideoSide(Q, vid, e), vid.pc = "process"
  PROVE  LET mb == vid.mb
             w == VideoAfter(mb)
         IN  /\ VideoSide(Q, w, e)
             /\ w.mb = None /\ (w.pc = "exit" <=> mb.type = "EXIT")
             /\ mb.type = "DATA" => w.seen = mb /\ w.cur = None /\ w.flushed = vid.flushed /\ vid.cur = None
             /\ mb.type # "DATA" => w.seen = vid.seen
             /\ mb.type = "FLUSH" => /\ w.cur = None /\ w.flushed = mb.epoch
                                     /\ IsData(vid.seen) => vid.seen.epoch < mb.epoch
             /\ mb.type \in {"PAUSE", "PLAY"} => w.cur = vid.cur /\ w.flushed = vid.flushed
             /\ mb \in Mb /\ mb # None /\ mb.type \in {"DATA", "PAUSE", "PLAY", "FLUSH", "EXIT"}
<1> DEFINE mb == vid.mb
           w == VideoAfter(mb)
<1>1. vid \in VideoRec /\ mb \in Mb /\ mb # None /\ mb.type # "UNBLOCK"
  BY DEF VideoSide, VideoRec
<1>2. mb.type \in {"DATA", "PAUSE", "PLAY", "FLUSH", "EXIT"} /\ mb.epoch \in Nat /\ mb.epoch <= e
  BY <1>1, MbFields DEF Commands, VideoSide
<1>3. mb.type = "DATA" => vid.cur = None
  BY <1>1 DEF VideoSide, IsData
<1>4. /\ w \in VideoRec /\ w.pc \in {"run", "exit"} /\ w.mb = None
      /\ w.pc = "exit" <=> mb.type = "EXIT"
      /\ w.flushed = (IF mb.type = "FLUSH" THEN mb.epoch ELSE vid.flushed)
      /\ w.cur = (IF mb.type \in {"FLUSH", "EXIT"} THEN None ELSE vid.cur)
      /\ w.seen = (IF mb.type = "DATA" THEN mb ELSE vid.seen)
  BY <1>1, <1>2 DEF VideoAfter, VideoRec, Threads
<1> HIDE DEF w
<1>5. InOrder(Q.ctrl, None, w.flushed)
  BY <1>1, <1>4 DEF VideoSide, InOrder, IsFlush
<1>6. \A x : After(x, Q.ctrl, vid.mb, vid.flushed) => After(x, Q.ctrl, None, w.flushed)
  BY <1>1, <1>4 DEF After, IsFlush
<1>7. \A x : Before(x, Q.ctrl, vid.mb) => Before(x, Q.ctrl, None)
  BY DEF Before, IsFlush
<1>8. w.flushed <= e
  BY <1>2, <1>4 DEF VideoSide
<1>9. ~IsData(None)
  BY DEF IsData
<1>10. VideoSide(Q, w, e)
  <2>1. QueueOK(Q, e) /\ UnblockAt(Q.ctrl) = {}
    BY DEF VideoSide
  <2>2. \A x \in {w.mb, w.cur, w.seen} : IsData(x) => Before(x, Q.ctrl, None)
    BY <1>4, <1>7, <1>9 DEF VideoSide
  <2>3. \A x \in {w.mb, w.cur} : IsData(x) => w.flushed <= x.epoch
    BY <1>4, <1>9 DEF VideoSide
  <2>4. w.cur # None => w.cur.type = "DATA" /\ w.cur.epoch <= e
    BY <1>4 DEF VideoSide
  <2>5. w.seen # None => w.seen.type = "DATA" /\ w.seen.epoch <= e
    BY <1>2, <1>4 DEF VideoSide
  <2>6. \A i \in 1 .. Len(Q.data) : After(Q.data[i], Q.ctrl, None, w.flushed)
    BY <1>6 DEF VideoSide
  <2>7. QED
    BY <1>4, <1>5, <1>8, <1>9, <2>1, <2>2, <2>3, <2>4, <2>5, <2>6 DEF VideoSide
<1>11. mb.type = "FLUSH" => (IsData(vid.seen) => vid.seen.epoch < mb.epoch)
  BY <1>1 DEF VideoSide, Before, IsFlush
<1>12. QED
  BY <1>1, <1>2, <1>3, <1>4, <1>10, <1>11 DEF w

\* Steps of the video thread that touch no packet.
LEMMA VideoElse ==
  ASSUME NEW Q, NEW v, NEW e, VideoSide(Q, v, e)
  PROVE  /\ v.pc = "run" => VideoSide(Q, [v EXCEPT !.pc = "wait"], e)
         /\ VideoSide(Q, [v EXCEPT !.codec = "hardware"], e)
<1>1. v \in VideoRec
  BY DEF VideoSide
<1>2. ASSUME v.pc = "run"
      PROVE  VideoSide(Q, [v EXCEPT !.pc = "wait"], e)
  <2> DEFINE w == [v EXCEPT !.pc = "wait"]
  <2>1. /\ w \in VideoRec /\ w.pc = "wait" /\ w.mb = v.mb /\ w.cur = v.cur /\ w.seen = v.seen
        /\ w.flushed = v.flushed
    BY <1>1 DEF VideoRec, Threads
  <2> HIDE DEF w
  <2>2. VideoSide(Q, w, e)
    BY <1>2, <2>1 DEF VideoSide
  <2>3. QED
    BY <2>2 DEF w
<1>3. VideoSide(Q, [v EXCEPT !.codec = "hardware"], e)
  <2> DEFINE w == [v EXCEPT !.codec = "hardware"]
  <2>1. /\ w \in VideoRec /\ w.pc = v.pc /\ w.mb = v.mb /\ w.cur = v.cur /\ w.seen = v.seen
        /\ w.flushed = v.flushed
    BY <1>1 DEF VideoRec
  <2> HIDE DEF w
  <2>2. VideoSide(Q, w, e)
    BY <2>1 DEF VideoSide
  <2>3. QED
    BY <2>2 DEF w
<1>4. QED
  BY <1>2, <1>3

-----------------------------------------------------------------------------
(* The player.                                                              *)

\* The two packets of a time stamp follow each other in the file.
LEMMA Interleaved ==
  ASSUME NEW p \in Nat
  PROVE  /\ QueueAt(p) \in Queues /\ QueueAt(p + 1) \in Queues /\ QueueAt(p) # QueueAt(p + 1)
         /\ \A q \in Queues : q = QueueAt(p) \/ q = QueueAt(p + 1)
         /\ PtsAt(p) \in Nat /\ PtsAt(p + 2) = PtsAt(p) + 1
         /\ p \in 1 .. 2 * LastPts => PtsAt(p) \in 1 .. LastPts
         /\ p = 2 * LastPts + 1 => QueueAt(p) = "video"
<1> DEFINE L == LastPts
<1>1. L \in Nat
  BY Sizes
<1> HIDE DEF L
<1>2. p % 2 \in {0, 1} /\ (p % 2 = 0 <=> (p + 1) % 2 = 1)
  OBVIOUS
<1>3. (p + 1) \div 2 \in Nat /\ (p + 2 + 1) \div 2 = (p + 1) \div 2 + 1
  OBVIOUS
<1>4. p \in 1 .. 2 * L => (p + 1) \div 2 \in 1 .. L
  BY <1>1
<1>5. p = 2 * L + 1 => p % 2 = 1
  BY <1>1
<1>6. (p + 1) % 2 \in {0, 1}
  OBVIOUS
<1>7. QueueAt(p) \in Queues /\ QueueAt(p + 1) \in Queues /\ QueueAt(p) # QueueAt(p + 1)
      /\ \A q \in Queues : q = QueueAt(p) \/ q = QueueAt(p + 1)
  BY <1>2, <1>6 DEF QueueAt, Queues
<1>8. QED
  BY <1>3, <1>4, <1>5, <1>7 DEF QueueAt, PtsAt, L

\* The packets of the file.
LEMMA DataIs ==
  ASSUME NEW q \in Queues, NEW t \in 1 .. LastPts, NEW k \in BOOLEAN
  PROVE  /\ Data(q, t, k) \in Mb /\ Data(q, t, k) # None /\ Data(q, t, k).type = "DATA"
         /\ Data(q, t, k).pts = t /\ Data(q, t, k).skip = k
         /\ Data(q, t, k).size = (IF q = "video" THEN VideoSize ELSE AudioSize)
<1>1. Data(q, t, k) \in Mb
  BY Sizes DEF Data, Mb
<1>2. QED
  BY <1>1, MbFields DEF Data

\* A signal to the player changes nothing but where it stands.
LEMMA WakingPlayer ==
  ASSUME NEW d, PlayerOK(d)
  PROVE  LET w == WokenPlayer(d)
         IN  PlayerOK(w) /\ (Active(w) <=> Active(d)) /\ \A q : Coming(w, q) = Coming(d, q)
<1> DEFINE w == WokenPlayer(d)
<1>1. d \in PlayerRec
  BY DEF PlayerOK
<1>2. /\ w \in PlayerRec /\ w.mb = d.mb /\ w.q = d.q /\ w.ev = d.ev /\ w.pos = d.pos
      /\ w.pc = (CASE d.pc = "blocked" -> "send" [] d.pc = "draining" -> "drain" [] OTHER -> d.pc)
  BY <1>1 DEF WokenPlayer, PlayerRec
<1> HIDE DEF w
<1>3. Active(w) <=> Active(d)
  BY <1>2 DEF Active
<1>4. PlayerOK(w)
  BY <1>2, <1>3 DEF PlayerOK
<1>5. \A q : Coming(w, q) = Coming(d, q)
  BY <1>2 DEF Coming
<1>6. QED
  BY <1>3, <1>4, <1>5 DEF w

\* A change of the player's pc and event alone.
LEMMA PlayerTurns ==
  ASSUME NEW d, PlayerOK(d), NEW w \in PlayerRec, w.mb = d.mb, w.q = d.q, w.pos = d.pos,
         w.pc = "event" => w.ev # None,
         w.pc \in {"send", "blocked"} => d.mb # None,
         w.pc \in {"fetch", "eof", "drain", "draining"} => d.mb = None,
         Active(w) => Active(d)
  PROVE  PlayerOK(w) /\ \A q : Coming(w, q) = Coming(d, q)
<1>1. PlayerOK(w)
  BY DEF PlayerOK
<1>2. QED
  BY <1>1 DEF Coming

\* The next packet of the file: what comes in each queue is the same, or follows the one sent.
LEMMA PlayerReads ==
  ASSUME NEW d, PlayerOK(d), Active(d)
  PROVE  LET w == WithPacket(d)
         IN  /\ PlayerOK(w) /\ Active(w) /\ w.pc \in {"send", "eof"}
             /\ d.mb = None => \A q \in Queues : Coming(w, q) = Coming(d, q)
             /\ d.mb # None => \A q \in Queues :
                   Coming(w, q) = IF q = d.q THEN d.mb.pts + 1 ELSE Coming(d, q)
<1> DEFINE w == WithPacket(d)
           p == d.pos
           L == LastPts
<1>1. d \in PlayerRec /\ p \in 1 .. 2 * L + 1 /\ p \in Nat /\ L \in Nat
  BY Sizes DEF PlayerOK, PlayerRec
<1>2. /\ QueueAt(p) \in Queues /\ QueueAt(p + 1) \in Queues /\ QueueAt(p) # QueueAt(p + 1)
      /\ \A q \in Queues : q = QueueAt(p) \/ q = QueueAt(p + 1)
      /\ PtsAt(p) \in Nat /\ PtsAt(p + 2) = PtsAt(p) + 1
      /\ p \in 1 .. 2 * L => PtsAt(p) \in 1 .. L
      /\ p = 2 * L + 1 => QueueAt(p) = "video"
  BY <1>1, Interleaved
<1>3. d.mb # None => /\ p - 1 \in Nat /\ d.q = QueueAt(p - 1) /\ d.q \in Queues
                     /\ d.q # QueueAt(p) /\ d.q = QueueAt(p + 1)
                     /\ PtsAt(p + 1) = d.mb.pts + 1 /\ d.mb.pts \in Nat
  <2> SUFFICES ASSUME d.mb # None
               PROVE  /\ p - 1 \in Nat /\ d.q = QueueAt(p - 1) /\ d.q \in Queues
                      /\ d.q # QueueAt(p) /\ d.q = QueueAt(p + 1)
                      /\ PtsAt(p + 1) = d.mb.pts + 1 /\ d.mb.pts \in Nat
    OBVIOUS
  <2>1. p >= 2 /\ d.q = QueueAt(p - 1) /\ d.mb = Data(d.q, PtsAt(p - 1), d.mb.skip) /\ d.q \in Queues
        /\ d.mb.skip \in BOOLEAN
    BY <1>1, MbFields DEF PlayerOK, PlayerRec
  <2> HIDE DEF p, L
  <2>2. p - 1 \in Nat /\ p - 1 \in 1 .. 2 * L /\ (p - 1) + 1 = p /\ (p - 1) + 2 = p + 1
    BY <1>1, <2>1
  <2>3. QueueAt(p - 1) # QueueAt(p) /\ PtsAt(p + 1) = PtsAt(p - 1) + 1 /\ PtsAt(p - 1) \in 1 .. LastPts
    BY <2>2, Interleaved DEF L
  <2>4. d.mb.pts = PtsAt(p - 1)
    BY <2>1, <2>3, DataIs
  <2>5. PtsAt(p - 1) \in Nat
    BY <2>2, Interleaved
  <2>6. QED
    BY <1>2, <2>1, <2>2, <2>3, <2>4, <2>5
<1>4. CASE p <= 2 * L
  <2> DEFINE k == QueueAt(p)
             skip == PtsAt(p) < d.target[k]
             x == Data(k, PtsAt(p), skip)
             g == IF skip THEN d.target[k] ELSE 0
             tg == [d.target EXCEPT ![k] = g]
  <2>1. p \in 1 .. 2 * L
    BY <1>1, <1>4
  <2>2. PtsAt(p) \in 1 .. LastPts
    BY <1>2, <2>1
  <2>3. x \in Mb /\ x # None /\ x.pts = PtsAt(p) /\ x = Data(k, PtsAt(p), x.skip)
    <3>1. skip \in BOOLEAN /\ k \in Queues
      BY <1>2
    <3> HIDE DEF skip, k
    <3>2. QED
      BY <2>2, <3>1, DataIs
  <2>4. w = [d EXCEPT !.pc = "send", !.mb = x, !.q = QueueAt(p), !.pos = p + 1, !.target = tg]
    BY <1>4 DEF WithPacket
  <2>20. tg \in [Queues -> 0 .. LastPts]
    <3>1. k \in Queues /\ d.target \in [Queues -> 0 .. LastPts]
      BY <1>1, <1>2 DEF PlayerRec
    <3>2. 0 \in 0 .. LastPts
      BY Sizes
    <3> HIDE DEF k, skip
    <3>3. QED
      BY <3>1, <3>2
  <2> HIDE DEF x, w, tg
  <2>5. /\ w \in PlayerRec /\ w.pc = "send" /\ w.mb = x /\ w.q = QueueAt(p) /\ w.pos = p + 1
        /\ w.ev = d.ev
    <3>1. p + 1 \in Nat
      BY <1>1
    <3> DEFINE n == p + 1
    <3>2. w = [d EXCEPT !.pc = "send", !.mb = x, !.q = QueueAt(p), !.pos = n, !.target = tg] /\ n \in Nat
      BY <2>4, <3>1
    <3> HIDE DEF n, p
    <3>3. /\ w \in PlayerRec /\ w.pc = "send" /\ w.mb = x /\ w.q = QueueAt(p) /\ w.pos = n
          /\ w.ev = d.ev
      BY <1>1, <1>2, <2>3, <2>20, <3>2 DEF PlayerRec
    <3>4. QED
      BY <3>3 DEF n
  <2>6. Active(w)
    BY <2>5 DEF Active
  <2>7. p + 1 \in 1 .. 2 * LastPts + 1 /\ p + 1 >= 2 /\ (p + 1) - 1 = p
    BY <1>1, <1>4
  <2>8. PlayerOK(w)
    BY <2>3, <2>5, <2>7 DEF PlayerOK
  <2>9. \A q \in Queues : Coming(w, q) = IF q = QueueAt(p) THEN PtsAt(p) ELSE PtsAt(p + 1)
    BY <1>2, <2>3, <2>5 DEF Coming
  <2>10. \A q \in Queues : d.mb = None \/ q # d.q =>
            Coming(d, q) = IF q = QueueAt(p) THEN PtsAt(p) ELSE PtsAt(p + 1)
    BY <1>2 DEF Coming
  <2>11. QED
    BY <1>2, <1>3, <2>5, <2>6, <2>8, <2>9, <2>10 DEF w
<1>5. CASE p > 2 * L
  <2>1. p = 2 * L + 1
    BY <1>1, <1>5
  <2>2. w = [d EXCEPT !.pc = "eof", !.mb = None]
    BY <1>1, <1>5 DEF WithPacket
  <2> HIDE DEF w
  <2>3. w \in PlayerRec /\ w.pc = "eof" /\ w.mb = None /\ w.q = d.q /\ w.pos = p /\ w.ev = d.ev
    BY <1>1, <2>2 DEF PlayerRec
  <2>4. Active(w)
    BY <2>3 DEF Active
  <2>5. PlayerOK(w)
    BY <1>1, <2>3 DEF PlayerOK
  <2>6. \A q \in Queues : Coming(w, q) = IF q = QueueAt(p) THEN PtsAt(p) ELSE PtsAt(p + 1)
    BY <1>2, <2>3 DEF Coming
  <2>7. \A q \in Queues : d.mb = None \/ q # d.q =>
            Coming(d, q) = IF q = QueueAt(p) THEN PtsAt(p) ELSE PtsAt(p + 1)
    BY <1>2 DEF Coming
  <2>8. QED
    BY <1>2, <1>3, <2>3, <2>4, <2>5, <2>6, <2>7 DEF w
<1>6. QED
  BY <1>1, <1>4, <1>5

\* av_seek_frame stays in the file.
LEMMA SeekPosIs ==
  ASSUME NEW t \in Pts
  PROVE  SeekPos(t) \in 1 .. 2 * LastPts + 1
<1> DEFINE K == {k \in Keyframes : k <= t}
           k0 == Max(K)
<1>1. K \subseteq Nat /\ 1 \in K /\ t \in Nat /\ \A k \in K : k <= t /\ k \in 1 .. LastPts
  <2>1. t \in 1 .. LastPts /\ LastPts \in Nat /\ Keyframes \subseteq 1 .. LastPts /\ 1 \in Keyframes
    BY Sizes DEF Pts
  <2>2. t \in Nat /\ 1 <= t
    BY <2>1
  <2>3. 1 \in K
    BY <2>1, <2>2
  <2>4. \A k \in K : k <= t /\ k \in 1 .. LastPts
    BY <2>1
  <2>5. K \subseteq Nat
    <3> HIDE DEF K
    <3>1. \A k \in K : k \in Nat
      BY <2>1, <2>4
    <3>2. QED
      BY <3>1
  <2>6. QED
    BY <2>2, <2>3, <2>4, <2>5
<1> HIDE DEF K
<1>2. k0 \in K
  <2>1. K # {}
    BY <1>1
  <2>2. QED
    BY <1>1, <2>1, MaxIs
<1>3. SeekPos(t) = 2 * k0 - 1
  BY DEF SeekPos, K
<1> HIDE DEF k0
<1>4. QED
  BY <1>1, <1>2, <1>3, Sizes

-----------------------------------------------------------------------------
(* The packets follow each other.                                           *)

\* t is s without its first k packets.
LEMMA BehindShift ==
  ASSUME NEW s, NEW t, NEW k \in Nat, NEW np, Len(t) \in Nat, Len(s) = Len(t) + k,
         \A i \in 1 .. Len(t) : t[i].pts = s[i + k].pts
  PROVE  \A i \in 0 .. Len(t) : Behind(t, i, np) = Behind(s, i + k, np)
<1> SUFFICES ASSUME NEW i \in 0 .. Len(t)
             PROVE  Behind(t, i, np) = Behind(s, i + k, np)
  OBVIOUS
<1>1. CASE i = Len(t)
  BY <1>1 DEF Behind
<1>2. CASE i # Len(t)
  <2>1. i + 1 \in 1 .. Len(t) /\ i + k # Len(s) /\ (i + 1) + k = (i + k) + 1
    BY <1>2
  <2>2. t[i + 1].pts = s[(i + k) + 1].pts
    BY <2>1
  <2>3. QED
    BY <1>2, <2>1, <2>2 DEF Behind
<1>3. QED
  BY <1>1, <1>2

\* With the packet that was to come at its end, a list is followed by the next.
LEMMA BehindGrown ==
  ASSUME NEW s, NEW t, NEW x, NEW np \in Nat, Grown(s, t, x), x.pts = np
  PROVE  /\ \A i \in 0 .. Len(s) : Behind(t, i, np + 1) = Behind(s, i, np)
         /\ Behind(t, Len(s) + 1, np + 1) = x.pts + 1
<1>1. Len(s) \in Nat /\ Len(t) = Len(s) + 1 /\ t[Len(s) + 1] = x /\ \A i \in 1 .. Len(s) : t[i] = s[i]
  BY DEF Grown
<1>2. ASSUME NEW i \in 0 .. Len(s)
      PROVE  Behind(t, i, np + 1) = Behind(s, i, np)
  <2>1. i # Len(t)
    BY <1>1
  <2>2. CASE i = Len(s)
    BY <1>1, <2>1, <2>2 DEF Behind
  <2>3. CASE i # Len(s)
    <3>1. i + 1 \in 1 .. Len(s)
      BY <1>1, <2>3
    <3>2. QED
      BY <1>1, <2>1, <2>3, <3>1 DEF Behind
  <2>4. QED
    BY <2>2, <2>3
<1>3. QED
  BY <1>1, <1>2 DEF Behind

\* The packet that was to come keeps the chain of audio packets ...
LEMMA AudioChainGrown ==
  ASSUME NEW s, NEW t, NEW x, NEW np \in Nat, Grown(s, t, x), x.pts = np, AudioChain(s, np)
  PROVE  AudioChain(t, np + 1)
<1>1. Len(s) \in Nat /\ Len(t) = Len(s) + 1 /\ t[Len(s) + 1] = x /\ \A i \in 1 .. Len(s) : t[i] = s[i]
  BY DEF Grown
<1> SUFFICES ASSUME NEW i \in 1 .. Len(t), t[i].size = AudioSize
             PROVE  Behind(t, i, np + 1) = t[i].pts + 1
  BY DEF AudioChain
<1>2. CASE i \in 1 .. Len(s)
  <2>1. i \in 0 .. Len(s)
    BY <1>1, <1>2
  <2>2. Behind(t, i, np + 1) = Behind(s, i, np)
    BY <2>1, BehindGrown
  <2>3. QED
    BY <1>1, <1>2, <2>2 DEF AudioChain
<1>3. CASE i = Len(s) + 1
  BY <1>1, <1>3, BehindGrown
<1>4. QED
  BY <1>1, <1>2, <1>3

\* ... and of video packets.
LEMMA VideoChainGrown ==
  ASSUME NEW Q, NEW R, NEW v, NEW x, NEW np \in Nat, Grown(Q.data, R.data, x), x.pts = np, R.ctrl = Q.ctrl,
         VideoChain(Q, v, np)
  PROVE  VideoChain(R, v, np + 1)
<1> DEFINE s == Q.data
           t == R.data
<1>1. Len(s) \in Nat /\ Len(t) = Len(s) + 1 /\ t[Len(s) + 1] = x /\ \A i \in 1 .. Len(s) : t[i] = s[i]
  BY DEF Grown
<1>2. /\ \A i \in 0 .. Len(s) : Behind(t, i, np + 1) = Behind(s, i, np)
      /\ Behind(t, Len(s) + 1, np + 1) = x.pts + 1
  BY BehindGrown
<1>3. Behind(t, 0, np + 1) = Behind(s, 0, np)
  BY <1>1, <1>2
<1>4. ASSUME NEW i \in 1 .. Len(t)
      PROVE  Behind(t, i, np + 1) = t[i].pts + 1
  <2>1. CASE i \in 1 .. Len(s)
    <3>1. i \in 0 .. Len(s)
      BY <1>1, <2>1
    <3>2. QED
      BY <1>1, <1>2, <2>1, <3>1 DEF VideoChain
  <2>2. CASE i = Len(s) + 1
    BY <1>1, <1>2, <2>2
  <2>3. QED
    BY <1>1, <2>1, <2>2
<1>5. QED
  BY <1>3, <1>4 DEF VideoChain

\* A list that begins later is a chain too.
LEMMA AudioChainShift ==
  ASSUME NEW s, NEW t, NEW k \in Nat, NEW np, Len(t) \in Nat, Len(s) = Len(t) + k,
         \A i \in 1 .. Len(t) : t[i].pts = s[i + k].pts /\ t[i].size = s[i + k].size, AudioChain(s, np)
  PROVE  AudioChain(t, np)
<1> SUFFICES ASSUME NEW i \in 1 .. Len(t), t[i].size = AudioSize
             PROVE  Behind(t, i, np) = t[i].pts + 1
  BY DEF AudioChain
<1>1. i \in 0 .. Len(t) /\ i + k \in 1 .. Len(s)
  OBVIOUS
<1>2. Behind(t, i, np) = Behind(s, i + k, np)
  BY <1>1, BehindShift
<1>3. Behind(s, i + k, np) = s[i + k].pts + 1
  BY <1>1 DEF AudioChain
<1>4. QED
  BY <1>2, <1>3

\* A packet put in front of which a part is decoded.
LEMMA AudioChainFront ==
  ASSUME NEW s \in Seq(Mb), NEW x \in Mb, x.size # AudioSize, NEW np, AudioChain(s, np)
  PROVE  AudioChain(<<x>> \o s, np)
<1> DEFINE t == <<x>> \o s
<1>1. /\ Len(t) = Len(s) + 1 /\ Len(s) \in Nat /\ t[1] = x
      /\ \A i \in 1 .. Len(s) : t[i + 1] = s[i]
  OBVIOUS
<1> HIDE DEF t
<1>2. \A i \in 0 .. Len(s) : Behind(s, i, np) = Behind(t, i + 1, np)
  BY <1>1, BehindShift
<1>3. ASSUME NEW i \in 1 .. Len(t), t[i].size = AudioSize
      PROVE  Behind(t, i, np) = t[i].pts + 1
  <2>1. i # 1
    BY <1>1, <1>3
  <2>2. i - 1 \in 1 .. Len(s) /\ i - 1 \in 0 .. Len(s) /\ (i - 1) + 1 = i
    BY <1>1, <2>1
  <2>3. Behind(s, i - 1, np) = Behind(t, i, np) /\ t[i] = s[i - 1]
    BY <1>1, <1>2, <2>2
  <2>4. QED
    BY <1>3, <2>2, <2>3 DEF AudioChain
<1>4. QED
  BY <1>3 DEF AudioChain, t

\* The chains depend on the packets, and on what comes.
LEMMA ChainsSame ==
  ASSUME NEW ma, NEW mv, NEW d, NEW a, NEW v, Chains(ma, mv, d, a, v),
         NEW na, NEW nv, NEW nd, NEW b, NEW w, na.data = ma.data, nv.data = mv.data,
         NoneDue(nv.ctrl, w.mb) => NoneDue(mv.ctrl, v.mb),
         w.mb = v.mb \/ (~IsData(w.mb) /\ ~IsData(v.mb)),
         w.cur = v.cur, w.seen = v.seen, w.flushed = v.flushed,
         Active(nd) => Active(d) /\ \A q \in Queues : Coming(nd, q) = Coming(d, q),
         b.pc # "exit" => a.pc # "exit", w.pc # "exit" => v.pc # "exit"
  PROVE  Chains(na, nv, nd, b, w)
<1> SUFFICES ASSUME Active(nd)
             PROVE  /\ b.pc # "exit" => AudioChain(na.data, Coming(nd, "audio"))
                    /\ w.pc # "exit" => VideoChain(nv, w, Coming(nd, "video"))
  BY DEF Chains
<1>1. Active(d) /\ Coming(nd, "audio") = Coming(d, "audio") /\ Coming(nd, "video") = Coming(d, "video")
  BY DEF Queues
<1>2. b.pc # "exit" => AudioChain(na.data, Coming(nd, "audio"))
  BY <1>1 DEF Chains
<1>3. ASSUME w.pc # "exit"
      PROVE  VideoChain(nv, w, Coming(nd, "video"))
  <2> DEFINE np == Coming(d, "video")
  <2>1. VideoChain(mv, v, np)
    BY <1>1, <1>3 DEF Chains
  <2> HIDE DEF np
  <2>2. VideoChain(nv, w, np)
    BY <2>1 DEF VideoChain
  <2>3. QED
    BY <1>1, <2>2 DEF np
<1>4. QED
  BY <1>2, <1>3

-----------------------------------------------------------------------------
(* The counters.                                                            *)

\* mq_update_stats: satisfied or hungry as the bytes say.
LEMMA StatsIs ==
  ASSUME NEW n \in Nat, NEW e \in Nat, mp \in PipeRec, hungry = (IF mp.satisfied THEN 0 ELSE 1),
         mq_update_stats(n, e)
  PROVE  /\ mp' \in PipeRec /\ mp'.current = n /\ mp'.epoch = e
         /\ hungry' = (IF mp'.satisfied THEN 0 ELSE 1) /\ (~mp'.satisfied => n > 0)
<1> DEFINE sat == Satisfied(n)
<1>1. sat \in BOOLEAN /\ (~sat => n > 0)
  BY DEF Satisfied, PipeRec
<1>2. mp' = [mp EXCEPT !.current = n, !.epoch = e, !.satisfied = sat]
  BY DEF mq_update_stats
<1>3. hungry' = CASE sat /\ ~mp.satisfied -> hungry - 1
                  [] ~sat /\ mp.satisfied -> hungry + 1
                  [] OTHER -> hungry
  BY DEF mq_update_stats, SetHungry
<1> HIDE DEF sat
<1>4. mp' \in PipeRec /\ mp'.current = n /\ mp'.epoch = e /\ mp'.satisfied = sat
  BY <1>1, <1>2 DEF PipeRec
<1>5. mp.satisfied \in BOOLEAN
  BY DEF PipeRec
<1>6. hungry' = IF sat THEN 0 ELSE 1
  BY <1>1, <1>3, <1>5
<1>7. QED
  BY <1>1, <1>4, <1>6

\* The counters are right after mq_update_stats with the bytes that are there.
LEMMA StatsAccount ==
  ASSUME NEW n \in Nat, NEW e \in Nat, mp \in PipeRec, hungry = (IF mp.satisfied THEN 0 ELSE 1),
         mq_update_stats(n, e), NEW na, NEW nv, NEW b, n = Bytes(na.data) + Bytes(nv.data)
  PROVE  Accounts(na, nv, mp', hungry', b) /\ mp'.epoch = e
  BY StatsIs DEF Accounts

\* mp_flush_locked and mp_set_playstatus_by_hold_locked go without mq_update_stats.
LEMMA HungryIs ==
  ASSUME mp \in PipeRec, hungry = (IF mp.satisfied THEN 0 ELSE 1), NEW sat \in BOOLEAN, SetHungry(sat)
  PROVE  hungry' = IF sat THEN 0 ELSE 1
<1>1. mp.satisfied \in BOOLEAN
  BY DEF PipeRec
<1>2. QED
  BY <1>1 DEF SetHungry

\* The counters depend on the packets queued.
LEMMA AccountsSame ==
  ASSUME NEW ma, NEW mv, NEW m, NEW h, NEW a, Accounts(ma, mv, m, h, a),
         NEW na, NEW nv, NEW b, na.data = ma.data, nv.data = mv.data, a.pc = "process" => b.pc = "process"
  PROVE  Accounts(na, nv, m, h, b)
  BY DEF Accounts

\* The types of the pipe's counters.
LEMMA EpochIs == IInv => mp.epoch \in Nat /\ mp.current \in Nat /\ mp \in PipeRec
                         /\ hungry = (IF mp.satisfied THEN 0 ELSE 1)
                         /\ mp.current = Bytes(mq["audio"].data) + Bytes(mq["video"].data)
                         /\ Bytes(mq["audio"].data) \in Nat /\ Bytes(mq["video"].data) \in Nat
<1> SUFFICES ASSUME IInv
             PROVE  mp.epoch \in Nat /\ mp.current \in Nat /\ mp \in PipeRec
                         /\ hungry = (IF mp.satisfied THEN 0 ELSE 1)
                         /\ mp.current = Bytes(mq["audio"].data) + Bytes(mq["video"].data)
                         /\ Bytes(mq["audio"].data) \in Nat /\ Bytes(mq["video"].data) \in Nat
  OBVIOUS
<1>1. /\ mp \in PipeRec /\ hungry = (IF mp.satisfied THEN 0 ELSE 1)
      /\ mp.current = Bytes(mq["audio"].data) + Bytes(mq["video"].data)
  BY DEF IInv, Accounts
<1>2. mp.epoch \in Nat /\ mp.current \in Nat
  BY <1>1 DEF PipeRec
<1>3. mq["audio"].data \in Seq(Mb) /\ mq["video"].data \in Seq(Mb)
  BY DEF IInv, AudioSide, VideoSide, QueueOK
<1>4. Bytes(mq["audio"].data) \in Nat /\ Bytes(mq["video"].data) \in Nat
  BY <1>3, BytesFinite
<1>5. QED
  BY <1>1, <1>2, <1>4

\* A queue replaced.
LEMMA OneQueue ==
  ASSUME IInv, NEW q \in Queues, NEW X, mq' = [mq EXCEPT ![q] = X]
  PROVE  /\ mq' = [r \in Queues |-> mq'[r]] /\ mq'[q] = X
         /\ \A r \in Queues : r # q => mq'[r] = mq[r]
<1>1. mq = [r \in Queues |-> mq[r]]
  BY DEF IInv
<1>2. QED
  BY <1>1

-----------------------------------------------------------------------------
(* Steps that change one thread only.                                       *)

\* The audio thread moves, and nothing else.
LEMMA AudioOnly ==
  ASSUME IInv, UNCHANGED <<mq, noint, mp, hungry, eq, dmx, vid>>, devblk' \in BOOLEAN,
         AudioSide(mq["audio"], aud', mp.epoch, devblk'), aud.pc # "process", aud.pc # "exit"
  PROVE  IInv'
<1>1. Chains(mq["audio"], mq["video"], dmx, aud', vid)
  BY ChainsSame DEF IInv
<1>2. Accounts(mq["audio"], mq["video"], mp, hungry, aud')
  BY AccountsSame DEF IInv
<1>3. QED
  BY <1>1, <1>2 DEF IInv

\* The video thread moves, and nothing else.
LEMMA VideoOnly ==
  ASSUME IInv, UNCHANGED <<mq, mp, hungry, eq, dmx, aud, devblk>>, noint' \in BOOLEAN,
         VideoSide(mq["video"], vid', mp.epoch), vid.pc # "exit",
         VideoChain(mq["video"], vid, Coming(dmx, "video")) /\ vid'.pc # "exit"
            => VideoChain(mq["video"], vid', Coming(dmx, "video"))
  PROVE  IInv'
<1>1. Chains(mq["audio"], mq["video"], dmx, aud, vid')
  BY DEF IInv, Chains
<1>2. QED
  BY <1>1 DEF IInv

\* The player moves, and nothing else.
LEMMA PlayerOnly ==
  ASSUME IInv, UNCHANGED <<mq, noint, hungry, aud, vid, devblk>>,
         mp' \in PipeRec, mp'.current = mp.current, mp'.epoch = mp.epoch, mp'.satisfied = mp.satisfied,
         eq' \in Seq(Event), PlayerOK(dmx'),
         Active(dmx') => Active(dmx) /\ \A q \in Queues : Coming(dmx', q) = Coming(dmx, q)
  PROVE  IInv'
<1>1. Chains(mq["audio"], mq["video"], dmx', aud, vid)
  BY ChainsSame DEF IInv
<1>2. Accounts(mq["audio"], mq["video"], mp', hungry, aud)
  BY DEF IInv, Accounts
<1>3. QED
  BY <1>1, <1>2 DEF IInv

\* The first event and the rest.
LEMMA EventTaken ==
  ASSUME IInv, eq # <<>>
  PROVE  Head(eq) \in Event /\ Head(eq) # None /\ Tail(eq) \in Seq(Event)
<1>1. eq \in Seq(Event)
  BY DEF IInv
<1>2. QED
  BY <1>1, Sizes

\* The steps of the player.
LEMMA PlayerFetchInv ==
  ASSUME IInv, PlayerFetch
  PROVE  IInv'
<1>1. PlayerOK(dmx) /\ Active(dmx) /\ dmx.mb = None /\ dmx' = WithPacket(dmx)
  BY DEF IInv, PlayerFetch, PlayerOK, Active
<1>2. PlayerOK(dmx') /\ \A q \in Queues : Coming(dmx', q) = Coming(dmx, q)
  BY <1>1, PlayerReads
<1>3. mp' \in PipeRec /\ mp'.current = mp.current /\ mp'.epoch = mp.epoch /\ mp'.satisfied = mp.satisfied
  BY EpochIs DEF PlayerFetch, PipeRec
<1>4. UNCHANGED <<mq, noint, hungry, eq, aud, vid, devblk>> /\ eq \in Seq(Event)
  BY DEF PlayerFetch, IInv
<1>5. QED
  BY <1>1, <1>2, <1>3, <1>4, PlayerOnly

\* The end of the file changes nothing that is queued.
LEMMA PlayerEofInv ==
  ASSUME IInv, PlayerEof
  PROVE  IInv'
<1>1. PlayerOK(dmx) /\ Active(dmx) /\ dmx.mb = None /\ dmx \in PlayerRec
  BY DEF IInv, PlayerEof, PlayerOK, Active
<1>2. /\ dmx' \in PlayerRec /\ dmx'.pc = "drain" /\ dmx'.mb = dmx.mb /\ dmx'.q = dmx.q
      /\ dmx'.pos = dmx.pos
  BY <1>1 DEF PlayerEof, PlayerRec
<1>3. PlayerOK(dmx') /\ \A q : Coming(dmx', q) = Coming(dmx, q)
  BY <1>1, <1>2, PlayerTurns
<1>4. mp' \in PipeRec /\ mp'.current = mp.current /\ mp'.epoch = mp.epoch /\ mp'.satisfied = mp.satisfied
  BY EpochIs DEF PlayerEof, PipeRec
<1>5. UNCHANGED <<mq, noint, hungry, eq, aud, vid, devblk>> /\ eq \in Seq(Event)
  BY DEF PlayerEof, IInv
<1>6. QED
  BY <1>1, <1>3, <1>4, <1>5, PlayerOnly

\* An event comes first; the packet in hand stays.
LEMMA TakeEventInv ==
  ASSUME IInv, Active(dmx), TakeEvent
  PROVE  IInv'
<1>1. PlayerOK(dmx) /\ dmx \in PlayerRec
  BY DEF IInv, PlayerOK
<1>2. Head(eq) \in Event /\ Head(eq) # None /\ Tail(eq) \in Seq(Event)
  BY EventTaken DEF TakeEvent
<1>3. /\ dmx' \in PlayerRec /\ dmx'.pc = "event" /\ dmx'.ev # None /\ dmx'.mb = dmx.mb /\ dmx'.q = dmx.q
      /\ dmx'.pos = dmx.pos
  BY <1>1, <1>2 DEF TakeEvent, PlayerRec
<1>4. PlayerOK(dmx') /\ \A q : Coming(dmx', q) = Coming(dmx, q)
  BY <1>1, <1>3, PlayerTurns
<1>5. UNCHANGED <<mq, noint, mp, hungry, aud, vid, devblk>> /\ eq' \in Seq(Event)
  BY <1>2 DEF TakeEvent
<1>6. QED
  BY <1>4, <1>5, EpochIs, PlayerOnly

\* The player waits for empty queues.
LEMMA PlayerDrainInv ==
  ASSUME IInv, PlayerDrain
  PROVE  IInv'
<1>1. PlayerOK(dmx) /\ dmx \in PlayerRec /\ Active(dmx) /\ dmx.mb = None
  BY DEF IInv, PlayerDrain, PlayerOK, Active
<1>2. CASE TakeEvent
  BY <1>1, <1>2, TakeEventInv
<1>3. CASE /\ dmx' = [dmx EXCEPT !.pc = IF Drained THEN "shutdown" ELSE "draining"]
           /\ UNCHANGED <<mq, noint, mp, hungry, eq, aud, vid, devblk, ui>>
  <2>1. /\ dmx' \in PlayerRec /\ dmx'.pc \in {"shutdown", "draining"} /\ dmx'.mb = dmx.mb
        /\ dmx'.q = dmx.q /\ dmx'.pos = dmx.pos
    BY <1>1, <1>3 DEF PlayerRec
  <2>2. PlayerOK(dmx') /\ \A q : Coming(dmx', q) = Coming(dmx, q)
    BY <1>1, <2>1, PlayerTurns
  <2>3. eq \in Seq(Event)
    BY DEF IInv
  <2>4. QED
    BY <1>1, <1>3, <2>2, <2>3, EpochIs, PlayerOnly
<1>4. QED
  BY <1>2, <1>3 DEF PlayerDrain

\* Nothing plays.
LEMMA PlayerIdleInv ==
  ASSUME IInv, PlayerIdle
  PROVE  IInv'
<1>1. PlayerOK(dmx) /\ dmx \in PlayerRec /\ ~Active(dmx)
  BY DEF IInv, PlayerIdle, PlayerOK, Active
<1>2. /\ dmx' \in PlayerRec /\ dmx'.pc \in {"end", "idle"} /\ dmx'.mb = dmx.mb
      /\ dmx'.q = dmx.q /\ dmx'.pos = dmx.pos
  BY <1>1 DEF PlayerRec, PlayerIdle
<1>3. ~Active(dmx')
  BY <1>2 DEF Active
<1>4. PlayerOK(dmx')
  BY <1>1, <1>2, <1>3, PlayerTurns
<1>5. UNCHANGED <<mq, noint, mp, hungry, aud, vid, devblk>> /\ eq' \in Seq(Event)
  BY EventTaken DEF PlayerIdle
<1>6. QED
  BY <1>3, <1>4, <1>5, EpochIs, PlayerOnly

-----------------------------------------------------------------------------
(* The player's steps on the queues.                                        *)

\* Both sides after mp_flush_locked: nothing is queued, and a flush is due.
LEMMA FlushLocked ==
  ASSUME IInv, mp_flush_locked, aud' = Woken(aud), vid' = Woken(vid), UNCHANGED <<noint, eq, devblk>>,
         PlayerOK(dmx')
  PROVE  IInv'
<1> DEFINE A == mq["audio"]
           V == mq["video"]
           e == mp.epoch
<1>1. e \in Nat /\ mp \in PipeRec /\ hungry = (IF mp.satisfied THEN 0 ELSE 1)
  BY EpochIs
<1>2. AudioSide(A, aud, e, devblk) /\ VideoSide(V, vid, e)
  BY DEF IInv
<1>3. /\ mq' = [q \in Queues |-> mq'[q]]
      /\ mq'["audio"] = Queued(mq_flush_q(A, FALSE), Ctrl("FLUSH"), e + 1)
      /\ mq'["video"] = Queued(mq_flush_q(V, FALSE), Ctrl("FLUSH"), e + 1)
  BY DEF mp_flush_locked, Queues
<1>4. AudioSide(mq'["audio"], aud, e + 1, devblk) /\ mq'["audio"].data = <<>>
  <2> DEFINE S == Queued(mq_flush_q(A, FALSE), Ctrl("FLUSH"), e + 1)
  <2>1. AudioSide(S, aud, e + 1, devblk) /\ S.data = <<>>
    BY <1>1, <1>2, AudioEmptied
  <2> HIDE DEF S
  <2>2. mq'["audio"] = S
    BY <1>3 DEF S
  <2>3. QED
    BY <2>1, <2>2
<1>5. VideoSide(mq'["video"], vid, e + 1) /\ mq'["video"].data = <<>> /\ ~NoneDue(mq'["video"].ctrl, vid.mb)
  BY <1>1, <1>2, <1>3, VideoEmptied
<1>6. AudioSide(mq'["audio"], aud', e + 1, devblk)
  BY <1>4, AudioWoken
<1>7. VideoSide(mq'["video"], vid', e + 1) /\ vid'.mb = vid.mb
  BY <1>5, VideoWoken
<1>8. /\ mp' \in PipeRec /\ mp'.current = 0 /\ mp'.epoch = e + 1 /\ mp'.satisfied = TRUE
  <2> DEFINE n == mp.current - Bytes(A.data) - Bytes(V.data)
             f == e + 1
  <2>1. n = 0
    BY EpochIs
  <2>2. f \in Nat
    BY <1>1
  <2>3. mp' = [mp EXCEPT !.current = n, !.epoch = f, !.satisfied = TRUE]
    BY DEF mp_flush_locked
  <2> HIDE DEF n, f
  <2>4. mp' \in PipeRec /\ mp'.current = n /\ mp'.epoch = f /\ mp'.satisfied = TRUE
    BY <1>1, <2>1, <2>2, <2>3 DEF PipeRec
  <2>5. QED
    BY <2>1, <2>4 DEF f
<1>9. hungry' = 0
  <2>1. SetHungry(TRUE)
    BY DEF mp_flush_locked
  <2>2. QED
    BY <1>1, <2>1, HungryIs
<1>10. Accounts(mq'["audio"], mq'["video"], mp', hungry', aud')
  BY <1>4, <1>5, <1>8, <1>9, BytesEmpty DEF Accounts
<1>11. Chains(mq'["audio"], mq'["video"], dmx', aud', vid')
  <2>1. \A np : AudioChain(mq'["audio"].data, np)
    BY <1>4 DEF AudioChain
  <2>2. \A np : VideoChain(mq'["video"], vid', np)
    BY <1>5, <1>7 DEF VideoChain
  <2>3. QED
    BY <2>1, <2>2 DEF Chains
<1>12. QED
  BY <1>3, <1>6, <1>7, <1>8, <1>10, <1>11 DEF IInv

\* mp_shutdown flushes.
LEMMA PlayerShutdownInv ==
  ASSUME IInv, PlayerShutdown
  PROVE  IInv'
<1>1. PlayerOK(dmx) /\ dmx \in PlayerRec
  BY DEF IInv, PlayerOK
<1>2. dmx' \in PlayerRec /\ dmx'.pc = "stop" /\ dmx'.mb = dmx.mb /\ dmx'.q = dmx.q /\ dmx'.pos = dmx.pos
  BY <1>1 DEF PlayerRec, PlayerShutdown
<1>3. ~Active(dmx')
  BY <1>2 DEF Active
<1>4. PlayerOK(dmx')
  BY <1>1, <1>2, <1>3, PlayerTurns
<1>5. QED
  BY <1>4, FlushLocked DEF PlayerShutdown

\* The kinds of events.
LEMMA EventIs ==
  ASSUME NEW ev \in Event
  PROVE  ev.type \in {"SEEK", "HOLD", "EXIT"} /\ (ev.type = "SEEK" => ev.ts \in Pts)
  BY DEF Event

\* A seek flushes and starts from a new place; the others change nothing queued.
LEMMA PlayerEventInv ==
  ASSUME IInv, PlayerEvent
  PROVE  IInv'
<1>1. PlayerOK(dmx) /\ dmx \in PlayerRec /\ dmx.pc = "event" /\ Active(dmx)
  BY DEF IInv, PlayerOK, PlayerEvent, Active
<1>2. dmx.ev \in Event
  BY <1>1 DEF PlayerOK, PlayerRec
<1>3. CASE dmx.ev.type = "SEEK" /\ video_seek(dmx.ev.ts)
  <2> DEFINE p == SeekPos(dmx.ev.ts)
             t == dmx.ev.ts
             tt == [q \in Queues |-> t]
  <2>1. p \in 1 .. 2 * LastPts + 1
    BY <1>2, <1>3, EventIs, SeekPosIs
  <2>2. p \in Nat
    BY <2>1, Sizes
  <2>3. dmx' = [dmx EXCEPT !.pc = "fetch", !.mb = None, !.ev = None, !.pos = p, !.target = tt, !.marked = tt]
    BY <1>3 DEF video_seek
  <2>20. tt \in [Queues -> 0 .. LastPts]
    BY <1>2, <1>3, EventIs, Sizes DEF Pts
  <2> HIDE DEF p, tt
  <2>4. dmx' \in PlayerRec /\ dmx'.pc = "fetch" /\ dmx'.mb = None /\ dmx'.pos = p
    BY <1>1, <2>2, <2>3, <2>20 DEF PlayerRec
  <2>5. PlayerOK(dmx')
    BY <2>1, <2>4 DEF PlayerOK
  <2>6. QED
    BY <1>3, <2>5, FlushLocked DEF video_seek, PlayerEvent
<1>4. CASE /\ dmx.ev.type = "EXIT"
           /\ dmx' = [dmx EXCEPT !.pc = "shutdown", !.mb = None]
           /\ UNCHANGED <<mq, mp, hungry, aud, vid>>
  <2>1. dmx' \in PlayerRec /\ dmx'.pc = "shutdown" /\ dmx'.mb = None /\ dmx'.pos = dmx.pos
    BY <1>1, <1>4 DEF PlayerRec
  <2>2. ~Active(dmx')
    BY <2>1 DEF Active
  <2>3. PlayerOK(dmx')
    BY <1>1, <2>1 DEF PlayerOK
  <2>4. UNCHANGED <<noint, eq, devblk>> /\ eq \in Seq(Event)
    BY DEF PlayerEvent, IInv
  <2>5. QED
    BY <1>4, <2>2, <2>3, <2>4, EpochIs, PlayerOnly
<1>5. CASE /\ dmx.ev.type = "HOLD"
           /\ dmx' = [dmx EXCEPT !.pc = IF dmx.mb = None THEN "drain" ELSE "send",
                                !.ev = None]
           /\ UNCHANGED <<mq, mp, hungry, aud, vid>>
  <2>1. /\ dmx' \in PlayerRec /\ dmx'.pc = (IF dmx.mb = None THEN "drain" ELSE "send")
        /\ dmx'.mb = dmx.mb /\ dmx'.q = dmx.q /\ dmx'.pos = dmx.pos
    BY <1>1, <1>5 DEF PlayerRec
  <2>2. PlayerOK(dmx') /\ \A q : Coming(dmx', q) = Coming(dmx, q)
    BY <1>1, <2>1, PlayerTurns
  <2>3. UNCHANGED <<noint, eq, devblk>> /\ eq \in Seq(Event)
    BY DEF PlayerEvent, IInv
  <2>4. QED
    BY <1>1, <1>5, <2>2, <2>3, EpochIs, PlayerOnly
<1>6. QED
  BY <1>3, <1>4, <1>5 DEF PlayerEvent

\* A command for a side, with its statistics: mb_enq("audio", ...) and mb_enq("video", ...).
LEMMA PlayerStopAudioInv ==
  ASSUME IInv, PlayerStopAudio
  PROVE  IInv'
<1> DEFINE A == mq["audio"]
           e == mp.epoch
           R == Queued(A, Ctrl("EXIT"), e)
<1>1. e \in Nat /\ mp \in PipeRec /\ hungry = (IF mp.satisfied THEN 0 ELSE 1) /\ mp.current \in Nat
      /\ mp.current = Bytes(A.data) + Bytes(mq["video"].data)
  BY EpochIs
<1>2. AudioSide(A, aud, e, devblk)
  BY DEF IInv
<1>3. AudioSide(R, aud, e, devblk) /\ R.data = A.data
  BY <1>1, <1>2, AudioTold
<1>4. AudioSide(R, aud', e, devblk)
  BY <1>3, AudioWoken DEF PlayerStopAudio
<1>5. mq' = [r \in Queues |-> mq'[r]] /\ mq'["audio"] = R /\ mq'["video"] = mq["video"]
  <2>1. mq' = [mq EXCEPT !["audio"] = R]
    BY DEF PlayerStopAudio, mb_enq
  <2> HIDE DEF R
  <2>2. QED
    BY <2>1, OneQueue DEF Queues
<1>6. mq_update_stats(mp.current, e)
  <2>1. Ctrl("EXIT").size = 0 /\ mp.current + 0 = mp.current
    BY <1>1 DEF Ctrl
  <2>2. QED
    BY <2>1 DEF PlayerStopAudio, mb_enq
<1> HIDE DEF R
<1>7. Accounts(mq'["audio"], mq'["video"], mp', hungry', aud') /\ mp'.epoch = e
  BY <1>1, <1>3, <1>5, <1>6, StatsAccount
<1>8. PlayerOK(dmx) /\ dmx \in PlayerRec
  BY DEF IInv, PlayerOK
<1>9. dmx' \in PlayerRec /\ dmx'.pc = "join" /\ dmx'.mb = dmx.mb /\ dmx'.q = dmx.q /\ dmx'.pos = dmx.pos
  BY <1>8 DEF PlayerRec, PlayerStopAudio
<1>10. ~Active(dmx')
  BY <1>9 DEF Active
<1>11. PlayerOK(dmx')
  BY <1>8, <1>9, <1>10, PlayerTurns
<1>12. Chains(mq'["audio"], mq'["video"], dmx', aud', vid')
  BY <1>10 DEF Chains
<1>13. UNCHANGED <<noint, eq, vid, devblk>>
  BY DEF PlayerStopAudio
<1>14. QED
  BY <1>4, <1>5, <1>7, <1>11, <1>12, <1>13 DEF IInv

\* The audio thread is gone, and its queue with it.
LEMMA PlayerJoinInv ==
  ASSUME IInv, PlayerJoin
  PROVE  IInv'
<1> DEFINE A == mq["audio"]
           e == mp.epoch
           R == mq_flush_q(A, TRUE)
           n == mp.current - Bytes(A.data)
           f == e + 1
<1>1. /\ e \in Nat /\ mp \in PipeRec /\ hungry = (IF mp.satisfied THEN 0 ELSE 1)
      /\ n = Bytes(mq["video"].data) /\ n \in Nat /\ f \in Nat /\ e <= f
  BY EpochIs
<1>2. AudioSide(A, aud, e, devblk) /\ VideoSide(mq["video"], vid, e) /\ QueueOK(A, e)
  BY DEF IInv, AudioSide
<1>3. /\ QueueOK(R, e) /\ R.data = <<>>
      /\ \A i \in 1 .. Len(R.ctrl) : R.ctrl[i].type # "FLUSH"
  BY <1>1, <1>2, FlushedQueue
<1>4. mq' = [r \in Queues |-> mq'[r]] /\ mq'["audio"] = R /\ mq'["video"] = mq["video"]
  <2>1. mq' = [mq EXCEPT !["audio"] = R]
    BY DEF PlayerJoin
  <2> HIDE DEF R
  <2>2. QED
    BY <2>1, OneQueue DEF Queues
<1>5. mq_update_stats(n, f) /\ aud.pc = "exit"
  BY DEF PlayerJoin
<1> HIDE DEF R, n, f
<1>6. AudioSide(R, aud, e, devblk)
  <2>1. \A i \in 1 .. Len(R.data) : FALSE
    BY <1>3
  <2>2. InOrder(R.ctrl, aud.mb, aud.flushed)
    BY <1>2, <1>3 DEF InOrder, AudioSide
  <2>3. Refusals(R.ctrl, aud, devblk)
    BY <1>5 DEF Refusals
  <2>4. QED
    BY <1>2, <1>3, <2>1, <2>2, <2>3 DEF AudioSide
<1>7. AudioSide(R, aud, f, devblk) /\ VideoSide(mq["video"], vid, f)
  BY <1>1, <1>2, <1>6, AudioLater, VideoLater
<1>8. n = Bytes(R.data) + Bytes(mq["video"].data)
  BY <1>1, <1>3, BytesEmpty
<1>9. Accounts(mq'["audio"], mq'["video"], mp', hungry', aud) /\ mp'.epoch = f
  BY <1>1, <1>4, <1>5, <1>8, StatsAccount
<1>10. PlayerOK(dmx) /\ dmx \in PlayerRec
  BY DEF IInv, PlayerOK
<1>11. dmx' \in PlayerRec /\ dmx'.pc \in {"end", "idle"} /\ dmx'.mb = dmx.mb /\ dmx'.q = dmx.q /\ dmx'.pos = dmx.pos
  BY <1>10 DEF PlayerRec, PlayerJoin
<1>12. ~Active(dmx')
  BY <1>11 DEF Active
<1>13. PlayerOK(dmx')
  BY <1>10, <1>11, <1>12, PlayerTurns
<1>14. Chains(mq'["audio"], mq'["video"], dmx', aud', vid')
  BY <1>12 DEF Chains
<1>15. UNCHANGED <<noint, eq, aud, vid, devblk>>
  BY DEF PlayerJoin
<1>16. QED
  BY <1>4, <1>7, <1>9, <1>13, <1>14, <1>15 DEF IInv

\* The packet in hand goes to its queue, and the next one is read.
LEMMA SendInv ==
  ASSUME IInv, dmx.pc = "send", mb_enq(dmx.q, dmx.mb), dmx' = WithPacket(dmx),
         aud' = (IF dmx.q = "audio" THEN Woken(aud) ELSE aud),
         vid' = (IF dmx.q = "video" /\ ~noint THEN Woken(vid) ELSE vid),
         UNCHANGED <<noint, eq, devblk>>
  PROVE  IInv'
<1> DEFINE A == mq["audio"]
           V == mq["video"]
           e == mp.epoch
           mb == dmx.mb
           q == dmx.q
           x == [mb EXCEPT !.epoch = e]
           R == Queued(mq[q], mb, e)
           n == mp.current + mb.size
<1>1. /\ e \in Nat /\ mp \in PipeRec /\ hungry = (IF mp.satisfied THEN 0 ELSE 1) /\ mp.current \in Nat
      /\ mp.current = Bytes(A.data) + Bytes(V.data) /\ Bytes(A.data) \in Nat /\ Bytes(V.data) \in Nat
  BY EpochIs
<1>2. PlayerOK(dmx) /\ Active(dmx) /\ mb # None /\ q \in Queues
  BY DEF IInv, PlayerOK, PlayerRec, Active
<1>3. /\ mb \in Mb /\ mb.type = "DATA" /\ mb.size \in Nat /\ mb.size >= 1 /\ mb.pts \in Nat
      /\ mb.size = IF q = "video" THEN VideoSize ELSE AudioSize
  <2> DEFINE p == dmx.pos - 1
  <2>1. dmx.pos \in 1 .. 2 * LastPts + 1 /\ dmx.pos >= 2 /\ q = QueueAt(p) /\ mb = Data(q, PtsAt(p), mb.skip)
    BY <1>2 DEF PlayerOK
  <2>20. mb.skip \in BOOLEAN
    BY <1>2, MbFields DEF PlayerOK, PlayerRec
  <2>2. p \in Nat /\ p \in 1 .. 2 * LastPts
    BY <2>1, Sizes
  <2> HIDE DEF p
  <2>3. PtsAt(p) \in 1 .. LastPts /\ PtsAt(p) \in Nat
    BY <2>2, Interleaved
  <2>4. mb \in Mb /\ mb.type = "DATA" /\ mb.pts = PtsAt(p) /\ mb.size = IF q = "video" THEN VideoSize ELSE AudioSize
    BY <1>2, <2>1, <2>3, <2>20, DataIs
  <2>5. QED
    BY <2>3, <2>4, Sizes
<1>4. /\ PlayerOK(dmx') /\ Active(dmx')
      /\ \A r \in Queues : Coming(dmx', r) = IF r = q THEN mb.pts + 1 ELSE Coming(dmx, r)
  BY <1>2, PlayerReads
<1>5. Coming(dmx, q) = mb.pts
  BY <1>2 DEF Coming
<1>6. AudioSide(A, aud, e, devblk) /\ VideoSide(V, vid, e) /\ Chains(A, V, dmx, aud, vid)
  BY DEF IInv
<1>7. QueueOK(mq[q], e) /\ q \in {"audio", "video"}
  BY <1>2, <1>6 DEF AudioSide, VideoSide, Queues
<1>8. /\ QueueOK(R, e) /\ R.ctrl = mq[q].ctrl
      /\ R.data = Append(mq[q].data, x) /\ x \in Mb /\ Grown(mq[q].data, R.data, x)
  BY <1>1, <1>3, <1>7, QueuedData
<1>9. x.pts = mb.pts /\ x.size = mb.size
  BY <1>3 DEF Mb
<1>10. Bytes(R.data) = Bytes(mq[q].data) + mb.size
  <2>1. mq[q].data \in Seq(Mb)
    BY <1>7 DEF QueueOK
  <2> HIDE DEF x
  <2>2. QED
    BY <1>8, <1>9, <2>1, BytesOfLists
<1>11. mq' = [r \in Queues |-> mq'[r]] /\ mq'[q] = R /\ \A r \in Queues : r # q => mq'[r] = mq[r]
  <2>1. mq' = [mq EXCEPT ![q] = R]
    BY DEF mb_enq
  <2> HIDE DEF R, q
  <2>2. QED
    BY <1>2, <2>1, OneQueue
<1>12. mq_update_stats(n, e)
  BY DEF mb_enq
<1>13. n \in Nat /\ n = Bytes(mq'["audio"].data) + Bytes(mq'["video"].data)
  <2>1. CASE q = "audio"
    <3>1. mq'["audio"] = R /\ mq'["video"] = V /\ Bytes(R.data) = Bytes(A.data) + mb.size
      BY <1>10, <1>11, <2>1 DEF Queues
    <3> HIDE DEF R, A, V, mb
    <3>2. QED
      BY <1>1, <1>3, <3>1
  <2>2. CASE q = "video"
    <3>1. mq'["video"] = R /\ mq'["audio"] = A /\ Bytes(R.data) = Bytes(V.data) + mb.size
      BY <1>10, <1>11, <2>2 DEF Queues
    <3> HIDE DEF R, A, V, mb
    <3>2. QED
      BY <1>1, <1>3, <3>1
  <2>3. QED
    BY <1>7, <2>1, <2>2
<1>14. Accounts(mq'["audio"], mq'["video"], mp', hungry', aud') /\ mp'.epoch = e
  <2> HIDE DEF n
  <2>1. QED
    BY <1>1, <1>12, <1>13, StatsAccount
<1> HIDE DEF R, x
<1>15. CASE q = "audio"
  <2>1. /\ mq'["audio"] = R /\ mq'["video"] = V /\ vid' = vid /\ aud' = Woken(aud)
        /\ R = Queued(A, mb, e) /\ Grown(A.data, R.data, x) /\ mb.size = AudioSize
    BY <1>3, <1>8, <1>11, <1>15 DEF Queues, R
  <2>2. AudioSide(R, aud, e, devblk)
    BY <1>1, <1>3, <1>6, <2>1, AudioSent
  <2>3. AudioSide(R, aud', e, devblk) /\ (aud'.pc = "exit" <=> aud.pc = "exit")
    BY <2>1, <2>2, AudioWoken
  <2>4. /\ Coming(dmx', "audio") = mb.pts + 1 /\ Coming(dmx, "audio") = mb.pts
        /\ Coming(dmx', "video") = Coming(dmx, "video")
    BY <1>4, <1>5, <1>15 DEF Queues
  <2>5. aud.pc # "exit" => AudioChain(R.data, mb.pts + 1)
    BY <1>2, <1>3, <1>6, <1>9, <2>1, <2>4, AudioChainGrown DEF Chains
  <2>6. Chains(R, V, dmx', aud', vid)
    BY <1>2, <1>6, <2>3, <2>4, <2>5 DEF Chains
  <2>7. QED
    BY <1>4, <1>6, <1>11, <1>14, <2>1, <2>3, <2>6 DEF IInv
<1>16. CASE q = "video"
  <2>1. /\ mq'["video"] = R /\ mq'["audio"] = A /\ aud' = aud /\ vid' \in {vid, Woken(vid)}
        /\ R = Queued(V, mb, e) /\ Grown(V.data, R.data, x) /\ R.ctrl = V.ctrl
    BY <1>8, <1>11, <1>16 DEF Queues, R
  <2>2. VideoSide(R, vid, e)
    BY <1>1, <1>3, <1>6, <2>1, VideoSent
  <2>3. /\ VideoSide(R, vid', e) /\ (vid'.pc = "exit" <=> vid.pc = "exit") /\ vid'.mb = vid.mb
        /\ vid'.cur = vid.cur /\ vid'.seen = vid.seen /\ vid'.flushed = vid.flushed
    BY <2>1, <2>2, VideoWoken
  <2>4. /\ Coming(dmx', "video") = mb.pts + 1 /\ Coming(dmx, "video") = mb.pts
        /\ Coming(dmx', "audio") = Coming(dmx, "audio")
    BY <1>4, <1>5, <1>16 DEF Queues
  <2>5. vid.pc # "exit" => VideoChain(R, vid, mb.pts + 1)
    BY <1>2, <1>3, <1>6, <1>9, <2>1, <2>4, VideoChainGrown DEF Chains
  <2>6. vid.pc # "exit" => VideoChain(R, vid', mb.pts + 1)
    BY <2>3, <2>5 DEF VideoChain
  <2>7. Chains(A, R, dmx', aud, vid')
    BY <1>2, <1>6, <2>3, <2>4, <2>6 DEF Chains
  <2>8. QED
    BY <1>4, <1>6, <1>11, <1>14, <2>1, <2>3, <2>7 DEF IInv
<1>17. QED
  BY <1>7, <1>15, <1>16

\* A packet is sent, an event taken, or the player waits.
LEMMA PlayerSendInv ==
  ASSUME IInv, PlayerSend
  PROVE  IInv'
<1>1. PlayerOK(dmx) /\ dmx \in PlayerRec /\ Active(dmx) /\ dmx.mb # None /\ dmx.pc = "send"
  BY DEF IInv, PlayerSend, PlayerOK, Active
<1>2. CASE TakeEvent
  BY <1>1, <1>2, TakeEventInv
<1>3. CASE /\ mb_enq(dmx.q, dmx.mb)
           /\ dmx' = WithPacket(dmx)
           /\ aud' = IF dmx.q = "audio" THEN Woken(aud) ELSE aud
           /\ vid' = IF dmx.q = "video" /\ ~noint THEN Woken(vid) ELSE vid
           /\ UNCHANGED <<noint, eq, devblk, ui>>
  BY <1>1, <1>3, SendInv
<1>4. CASE /\ dmx' = [dmx EXCEPT !.pc = "blocked"]
           /\ UNCHANGED <<mq, noint, mp, hungry, eq, aud, vid, devblk, ui>>
  <2>1. /\ dmx' \in PlayerRec /\ dmx'.pc = "blocked" /\ dmx'.mb = dmx.mb
        /\ dmx'.q = dmx.q /\ dmx'.pos = dmx.pos
    BY <1>1, <1>4 DEF PlayerRec
  <2>2. PlayerOK(dmx') /\ \A q : Coming(dmx', q) = Coming(dmx, q)
    BY <1>1, <2>1, PlayerTurns
  <2>3. eq \in Seq(Event)
    BY DEF IInv
  <2>4. QED
    BY <1>1, <1>4, <2>2, <2>3, EpochIs, PlayerOnly
<1>5. QED
  BY <1>2, <1>3, <1>4 DEF PlayerSend

-----------------------------------------------------------------------------
(* The audio thread and the sound server.                                   *)

\* The steps of the audio thread with no packet.
LEMMA AudioElseInv ==
  ASSUME IInv, AudioAccepted \/ AudioRefused \/ AudioBlocked \/ AudioWait
  PROVE  IInv'
<1>1. AudioSide(mq["audio"], aud, mp.epoch, devblk) /\ devblk \in BOOLEAN
  BY DEF IInv
<1>2. mp.epoch \in Nat
  BY EpochIs
<1>3. CASE AudioAccepted
  <2>1. AudioSide(mq["audio"], aud', mp.epoch, devblk)
    BY <1>1, <1>2, <1>3, AudioElse DEF AudioAccepted
  <2>2. QED
    BY <1>1, <1>3, <2>1, AudioOnly DEF AudioAccepted
<1>4. CASE AudioRefused
  <2>1. AudioSide(mq["audio"], aud', mp.epoch, devblk')
    BY <1>1, <1>2, <1>4, AudioElse DEF AudioRefused, Deliverable
  <2>2. QED
    BY <1>4, <2>1, AudioOnly DEF AudioRefused
<1>5. CASE AudioBlocked
  <2>1. AudioSide(mq["audio"], aud', mp.epoch, devblk)
    BY <1>1, <1>2, <1>5, AudioElse DEF AudioBlocked
  <2>2. QED
    BY <1>1, <1>5, <2>1, AudioOnly DEF AudioBlocked
<1>6. CASE AudioWait
  <2>0. aud.pc = "run" /\ aud' = [aud EXCEPT !.pc = "wait"]
    BY <1>6 DEF AudioWait
  <2>1. AudioSide(mq["audio"], aud', mp.epoch, devblk)
    BY <1>1, <1>2, <2>0, AudioElse
  <2>2. QED
    BY <1>1, <1>6, <2>1, AudioOnly DEF AudioWait
<1>7. QED
  BY <1>3, <1>4, <1>5, <1>6

\* A command is taken.
LEMMA AudioCtrlInv ==
  ASSUME IInv, AudioCtrl
  PROVE  IInv'
<1> DEFINE A == mq["audio"]
           V == mq["video"]
           e == mp.epoch
           R == CtrlTaken(A)
           h == Head(A.ctrl)
<1>1. /\ e \in Nat /\ mp \in PipeRec /\ hungry = (IF mp.satisfied THEN 0 ELSE 1) /\ mp.current \in Nat
      /\ mp.current = Bytes(A.data) + Bytes(V.data)
  BY EpochIs
<1>2. /\ AudioSide(A, aud, e, devblk) /\ VideoSide(V, vid, e) /\ PlayerOK(dmx) /\ Chains(A, V, dmx, aud, vid)
      /\ Accounts(A, V, mp, hungry, aud) /\ QueueOK(A, e) /\ aud \in AudioRec
  BY DEF IInv, AudioSide
<1>3. aud.pc = "run" /\ A.ctrl # <<>> /\ UNCHANGED <<noint, eq, vid, devblk>>
  BY DEF AudioCtrl
<1>4. QueueOK(R, e) /\ R.data = A.data
  BY <1>1, <1>2, <1>3, TakenCtrl
<1>5. mq' = [r \in Queues |-> mq'[r]] /\ mq'["audio"] = R /\ mq'["video"] = V
  <2>1. mq' = [mq EXCEPT !["audio"] = R]
    BY DEF AudioCtrl
  <2> HIDE DEF R
  <2>2. QED
    BY <2>1, OneQueue DEF Queues
<1>6. CASE h.type = "UNBLOCK"
  <2>1. /\ aud' = [aud EXCEPT !.blocked = FALSE] /\ mq_update_stats(mp.current, e)
        /\ dmx' = WokenPlayer(dmx)
    BY <1>6 DEF AudioCtrl
  <2>2. AudioSide(R, aud', e, devblk)
    BY <1>1, <1>2, <1>3, <1>6, <2>1, AudioTakesUnblock
  <2>3. PlayerOK(dmx') /\ (Active(dmx') <=> Active(dmx)) /\ \A q : Coming(dmx', q) = Coming(dmx, q)
    BY <1>2, <2>1, WakingPlayer
  <2> HIDE DEF R
  <2>4. Accounts(R, V, mp', hungry', aud') /\ mp'.epoch = e
    BY <1>1, <1>4, <2>1, StatsAccount
  <2>5. Chains(R, V, dmx', aud', vid)
    BY <1>2, <1>3, <1>4, <2>3, ChainsSame
  <2>6. QED
    BY <1>2, <1>3, <1>5, <2>2, <2>3, <2>4, <2>5 DEF IInv
<1>7. CASE h.type # "UNBLOCK"
  <2>1. aud' = [aud EXCEPT !.pc = "process", !.mb = h] /\ UNCHANGED <<mp, hungry, dmx>>
    BY <1>7 DEF AudioCtrl
  <2>2. AudioSide(R, aud', e, devblk)
    BY <1>1, <1>2, <1>3, <1>7, <2>1, AudioTakesCtrl
  <2>3. aud'.pc = "process"
    BY <1>2, <2>1 DEF AudioRec
  <2> HIDE DEF R
  <2>4. Accounts(R, V, mp, hungry, aud')
    BY <1>2, <1>4, <2>3, AccountsSame
  <2>5. Chains(R, V, dmx, aud', vid)
    BY <1>2, <1>3, <1>4, ChainsSame
  <2>6. QED
    BY <1>2, <1>3, <1>5, <2>1, <2>2, <2>4, <2>5 DEF IInv
<1>8. QED
  BY <1>6, <1>7

\* A packet is taken: mp_buffer_current falls before it is decoded.
LEMMA AudioTakeInv ==
  ASSUME IInv, AudioTake
  PROVE  IInv'
<1> DEFINE A == mq["audio"]
           V == mq["video"]
           e == mp.epoch
           R == DataTaken(A)
           h == Head(A.data)
           n == mp.current - h.size
<1>1. /\ e \in Nat /\ mp \in PipeRec /\ hungry = (IF mp.satisfied THEN 0 ELSE 1) /\ mp.current \in Nat
      /\ mp.current = Bytes(A.data) + Bytes(V.data) /\ Bytes(A.data) \in Nat /\ Bytes(V.data) \in Nat
  BY EpochIs
<1>2. /\ AudioSide(A, aud, e, devblk) /\ VideoSide(V, vid, e) /\ PlayerOK(dmx) /\ Chains(A, V, dmx, aud, vid)
      /\ QueueOK(A, e) /\ aud \in AudioRec
  BY DEF IInv, AudioSide
<1>3. /\ aud.pc = "run" /\ A.ctrl = <<>> /\ A.data # <<>>
      /\ aud' = [aud EXCEPT !.pc = "process", !.mb = h]
      /\ mp' = [mp EXCEPT !.current = n]
      /\ UNCHANGED <<noint, hungry, eq, dmx, vid, devblk>>
  BY DEF AudioTake
<1>4. R.data = Tail(A.data) /\ A.data \in Seq(Mb)
  BY <1>1, <1>2, <1>3, TakenData DEF QueueOK
<1>5. mq' = [r \in Queues |-> mq'[r]] /\ mq'["audio"] = R /\ mq'["video"] = V
  <2>1. mq' = [mq EXCEPT !["audio"] = R]
    BY DEF AudioTake
  <2> HIDE DEF R
  <2>2. QED
    BY <2>1, OneQueue DEF Queues
<1>6. AudioSide(R, aud', e, devblk)
  BY <1>1, <1>2, <1>3, AudioTakesData
<1>7. aud'.pc = "process"
  BY <1>2, <1>3 DEF AudioRec
<1>8. h \in Mb /\ h.size \in Nat
  <2>1. h \in Mb
    BY <1>3, <1>4, TailIs
  <2>2. QED
    BY <2>1, MbFields
<1>9. Bytes(A.data) = h.size + Bytes(R.data) /\ Bytes(R.data) \in Nat
  BY <1>3, <1>4, <1>8, BytesOfLists
<1> HIDE DEF R, h
<1>10. n \in Nat /\ n = Bytes(R.data) + Bytes(V.data)
  <2> HIDE DEF A, V
  <2>1. QED
    BY <1>1, <1>8, <1>9
<1> HIDE DEF n
<1>11. mp' \in PipeRec /\ mp'.current = n /\ mp'.epoch = e /\ mp'.satisfied = mp.satisfied
  BY <1>1, <1>3, <1>10 DEF PipeRec
<1>12. Accounts(R, V, mp', hungry, aud')
  BY <1>1, <1>7, <1>10, <1>11 DEF Accounts
<1>13. Chains(R, V, dmx, aud', vid)
  <2>1. ASSUME Active(dmx)
        PROVE  AudioChain(R.data, Coming(dmx, "audio"))
    <3>1. AudioChain(A.data, Coming(dmx, "audio"))
      BY <1>2, <1>3, <2>1 DEF Chains
    <3>2. /\ Len(Tail(A.data)) \in Nat /\ Len(A.data) = Len(Tail(A.data)) + 1
          /\ \A i \in 1 .. Len(Tail(A.data)) : Tail(A.data)[i] = A.data[i + 1]
      BY <1>3, <1>4, TailIs
    <3>3. AudioChain(Tail(A.data), Coming(dmx, "audio"))
      BY <3>1, <3>2, AudioChainShift
    <3>4. QED
      BY <1>4, <3>3
  <2>2. QED
    BY <1>2, <2>1 DEF Chains
<1>14. QED
  BY <1>2, <1>3, <1>5, <1>6, <1>11, <1>12, <1>13 DEF IInv

\* A packet is put back with fewer bytes.
LEMMA AudioPartialInv ==
  ASSUME IInv, NEW more \in BOOLEAN, AudioPartial(more)
  PROVE  IInv'
<1> DEFINE A == mq["audio"]
           V == mq["video"]
           e == mp.epoch
           x == [aud.mb EXCEPT !.size = @ - 1, !.pts = 0]
           R == PutBack(A, x)
           n == mp.current + (aud.mb.size - 1)
<1>1. /\ e \in Nat /\ mp \in PipeRec /\ hungry = (IF mp.satisfied THEN 0 ELSE 1) /\ mp.current \in Nat
      /\ mp.current = Bytes(A.data) + Bytes(V.data) /\ Bytes(A.data) \in Nat /\ Bytes(V.data) \in Nat
  BY EpochIs
<1>2. /\ AudioSide(A, aud, e, devblk) /\ VideoSide(V, vid, e) /\ PlayerOK(dmx) /\ Chains(A, V, dmx, aud, vid)
      /\ A.data \in Seq(Mb) /\ aud \in AudioRec
  BY DEF IInv, AudioSide, QueueOK
<1>3. /\ aud.pc = "process" /\ aud.mb.type = "DATA" /\ aud.mb.size > 1
      /\ aud' = [aud EXCEPT !.pc = "run", !.mb = None, !.avail = more]
      /\ mp' = [mp EXCEPT !.current = n]
      /\ UNCHANGED <<noint, hungry, eq, dmx, vid, devblk>>
  BY DEF AudioPartial
<1>4. /\ AudioSide(R, aud', e, devblk) /\ R.data = <<x>> \o A.data /\ x \in Mb
      /\ x.size = aud.mb.size - 1 /\ x.size # AudioSize
  BY <1>1, <1>2, <1>3, AudioPutsBack
<1>5. mq' = [r \in Queues |-> mq'[r]] /\ mq'["audio"] = R /\ mq'["video"] = V
  <2>1. mq' = [mq EXCEPT !["audio"] = R]
    BY DEF AudioPartial
  <2> HIDE DEF R
  <2>2. QED
    BY <2>1, OneQueue DEF Queues
<1>6. aud.mb.size \in Nat
  <2>1. aud.mb \in Mb
    BY <1>2, <1>3 DEF AudioSide, AudioRec
  <2>2. QED
    BY <2>1, MbFields
<1> HIDE DEF R, x
<1>7. Bytes(R.data) = x.size + Bytes(A.data)
  BY <1>2, <1>4, BytesOfLists
<1>8. n \in Nat /\ n = Bytes(R.data) + Bytes(V.data) /\ n > 0
  <2> DEFINE k == aud.mb.size
  <2>1. k \in Nat /\ k > 1 /\ x.size = k - 1 /\ n = mp.current + (k - 1)
    BY <1>3, <1>4, <1>6
  <2> HIDE DEF k, A, V, n
  <2>2. QED
    BY <1>1, <1>7, <2>1
<1> HIDE DEF n
<1>9. mp' \in PipeRec /\ mp'.current = n /\ mp'.epoch = e /\ mp'.satisfied = mp.satisfied
  BY <1>1, <1>3, <1>8 DEF PipeRec
<1>10. Accounts(R, V, mp', hungry, aud')
  BY <1>1, <1>8, <1>9 DEF Accounts
<1>11. Chains(R, V, dmx, aud', vid)
  <2>1. ASSUME Active(dmx)
        PROVE  AudioChain(R.data, Coming(dmx, "audio"))
    <3>1. AudioChain(A.data, Coming(dmx, "audio"))
      BY <1>2, <1>3, <2>1 DEF Chains
    <3>2. QED
      BY <1>2, <1>4, <3>1, AudioChainFront
  <2>2. QED
    BY <1>2, <2>1 DEF Chains
<1>12. QED
  BY <1>2, <1>3, <1>4, <1>5, <1>9, <1>10, <1>11 DEF IInv

\* A packet or a command is handled to its end.
LEMMA AudioDoneInv ==
  ASSUME IInv, NEW more \in BOOLEAN, AudioDone(more)
  PROVE  IInv'
<1> DEFINE A == mq["audio"]
           V == mq["video"]
           e == mp.epoch
<1>1. /\ e \in Nat /\ mp \in PipeRec /\ hungry = (IF mp.satisfied THEN 0 ELSE 1) /\ mp.current \in Nat
      /\ mp.current = Bytes(A.data) + Bytes(V.data)
  BY EpochIs
<1>2. /\ AudioSide(A, aud, e, devblk) /\ VideoSide(V, vid, e) /\ PlayerOK(dmx) /\ Chains(A, V, dmx, aud, vid)
      /\ mq = [q \in Queues |-> mq[q]]
  BY DEF IInv
<1>3. /\ aud.pc = "process" /\ aud' = AudioAfter(aud.mb, more) /\ mq_update_stats(mp.current, e)
      /\ dmx' = WokenPlayer(dmx) /\ UNCHANGED <<mq, noint, eq, vid, devblk>>
  BY DEF AudioDone
<1>4. AudioSide(A, aud', e, devblk)
  BY <1>1, <1>2, <1>3, AudioFinishes
<1>5. PlayerOK(dmx') /\ (Active(dmx') <=> Active(dmx)) /\ \A q : Coming(dmx', q) = Coming(dmx, q)
  BY <1>2, <1>3, WakingPlayer
<1>6. Accounts(A, V, mp', hungry', aud') /\ mp'.epoch = e
  BY <1>1, <1>3, StatsAccount
<1>7. Chains(A, V, dmx', aud', vid)
  BY <1>2, <1>3, <1>5, ChainsSame
<1>8. QED
  BY <1>2, <1>3, <1>4, <1>5, <1>6, <1>7 DEF IInv

\* The sound server has room again.
LEMMA DeviceWritableInv ==
  ASSUME IInv, DeviceWritable
  PROVE  IInv'
<1> DEFINE A == mq["audio"]
           V == mq["video"]
           e == mp.epoch
           R == Queued(A, Ctrl("UNBLOCK"), e)
<1>1. /\ e \in Nat /\ mp \in PipeRec /\ hungry = (IF mp.satisfied THEN 0 ELSE 1) /\ mp.current \in Nat
      /\ mp.current = Bytes(A.data) + Bytes(V.data)
  BY EpochIs
<1>2. /\ AudioSide(A, aud, e, TRUE) /\ VideoSide(V, vid, e) /\ PlayerOK(dmx) /\ Chains(A, V, dmx, aud, vid)
      /\ devblk = TRUE
  BY DEF IInv, DeviceWritable
<1>3. devblk' = FALSE /\ aud' = Woken(aud) /\ UNCHANGED <<noint, eq, dmx, vid>>
  BY DEF DeviceWritable
<1>4. AudioSide(R, aud, e, FALSE) /\ R.data = A.data
  BY <1>1, <1>2, AudioUnblocked
<1>5. AudioSide(R, aud', e, FALSE) /\ (aud'.pc = "exit" <=> aud.pc = "exit")
  BY <1>3, <1>4, AudioWoken
<1>6. mq' = [r \in Queues |-> mq'[r]] /\ mq'["audio"] = R /\ mq'["video"] = V
  <2>1. mq' = [mq EXCEPT !["audio"] = R]
    BY DEF DeviceWritable, mb_enq
  <2> HIDE DEF R
  <2>2. QED
    BY <2>1, OneQueue DEF Queues
<1>7. mq_update_stats(mp.current, e)
  <2>1. Ctrl("UNBLOCK").size = 0 /\ mp.current + 0 = mp.current
    BY <1>1 DEF Ctrl
  <2>2. QED
    BY <2>1 DEF DeviceWritable, mb_enq
<1> HIDE DEF R
<1>8. Accounts(R, V, mp', hungry', aud') /\ mp'.epoch = e
  BY <1>1, <1>4, <1>7, StatsAccount
<1>9. Chains(R, V, dmx, aud', vid)
  BY <1>2, <1>4, <1>5, ChainsSame
<1>10. QED
  BY <1>2, <1>3, <1>5, <1>6, <1>8, <1>9 DEF IInv

-----------------------------------------------------------------------------
(* The video thread.                                                        *)

\* The packet that decode_locked is given is the one the thread has.
LEMMA VideoChainDecoded ==
  ASSUME NEW Q, NEW v, NEW e, VideoSide(Q, v, e), NEW np, VideoChain(Q, v, np), NEW busy \in BOOLEAN,
         NEW mb \in Mb, mb.type = "DATA", ~IsFlush(v.mb),
         (mb = v.cur /\ v.mb = None) \/ (mb = v.mb /\ v.cur = None)
  PROVE  VideoChain(Q, Decoded(v, mb, busy), np)
<1> DEFINE w == Decoded(v, mb, busy)
<1>1. v \in VideoRec /\ IsData(mb) /\ ~IsData(None) /\ ~IsFlush(None)
  BY MbFields DEF VideoSide, IsData, IsFlush
<1>2. /\ w.mb = None /\ w.flushed = v.flushed
      /\ w.cur = (IF busy THEN mb ELSE None) /\ w.seen = (IF busy THEN v.seen ELSE mb)
  BY <1>1, DecodedIs
<1> HIDE DEF w
<1>3. NoneDue(Q.ctrl, w.mb) => NoneDue(Q.ctrl, v.mb)
  BY <1>2 DEF NoneDue
<1>4. VideoChain(Q, w, np)
  BY <1>1, <1>2, <1>3 DEF VideoChain
<1>5. QED
  BY <1>4 DEF w

\* The head of the queue goes to the thread, and is in hand, current or decoded.
LEMMA VideoChainTaken ==
  ASSUME NEW Q, NEW v, NEW e, VideoSide(Q, v, e), NEW np, VideoChain(Q, v, np), Q.ctrl = <<>>, Q.data # <<>>,
         v.mb = None, v.cur = None, NEW R, R.ctrl = <<>>, R.data = Tail(Q.data), NEW w, w.flushed = v.flushed,
         \/ w.mb = Head(Q.data) /\ w.cur = None /\ w.seen = v.seen
         \/ w.mb = None /\ w.cur = Head(Q.data) /\ w.seen = v.seen
         \/ w.mb = None /\ w.cur = None /\ w.seen = Head(Q.data)
  PROVE  VideoChain(R, w, np)
<1> DEFINE s == Q.data
           t == R.data
           h == Head(s)
<1>1. s \in Seq(Mb) /\ \A i \in 1 .. Len(s) : s[i].type = "DATA"
  BY DEF VideoSide, QueueOK
<1>2. /\ h = s[1] /\ h \in Mb /\ 1 \in 1 .. Len(s) /\ Len(s) \in Nat
      /\ Len(t) \in Nat /\ Len(s) = Len(t) + 1
      /\ \A i \in 1 .. Len(t) : i + 1 \in 1 .. Len(s) /\ t[i] = s[i + 1]
  BY <1>1, TailIs
<1>3. IsData(h) /\ ~IsData(None) /\ ~IsFlush(None)
  BY <1>1, <1>2, MbFields DEF IsData, IsFlush
<1>4. NoneDue(Q.ctrl, v.mb)
  BY <1>3 DEF NoneDue
<1>5. \/ w.mb = h /\ w.cur = None /\ w.seen = v.seen
      \/ w.mb = None /\ w.cur = h /\ w.seen = v.seen
      \/ w.mb = None /\ w.cur = None /\ w.seen = h
  OBVIOUS
<1>6. \A i \in 1 .. Len(s) : Behind(s, i, np) = s[i].pts + 1
  BY DEF VideoChain
<1>7. IsData(v.seen) /\ v.flushed <= v.seen.epoch => Behind(s, 0, np) = v.seen.pts + 1
  BY <1>3, <1>4 DEF VideoChain
<1> HIDE DEF h, s, t
<1>8. Behind(s, 0, np) = h.pts
  BY <1>2 DEF Behind
<1>9. Behind(t, 0, np) = h.pts + 1
  <2>1. \A i \in 0 .. Len(t) : Behind(t, i, np) = Behind(s, i + 1, np)
    BY <1>2, BehindShift
  <2>2. Behind(t, 0, np) = Behind(s, 1, np)
    BY <1>2, <2>1
  <2>3. QED
    BY <1>2, <1>6, <2>2
<1>10. \A i \in 1 .. Len(t) : Behind(t, i, np) = t[i].pts + 1
  <2>1. \A i \in 0 .. Len(t) : Behind(t, i, np) = Behind(s, i + 1, np)
    BY <1>2, BehindShift
  <2>2. \A i \in 1 .. Len(t) : i \in 0 .. Len(t)
    BY <1>2
  <2>3. QED
    BY <1>2, <1>6, <2>1, <2>2
<1>11. QED
  BY <1>3, <1>5, <1>7, <1>8, <1>9, <1>10 DEF VideoChain, t

\* A command is taken.
LEMMA VideoCtrlInv ==
  ASSUME IInv, VideoCtrl
  PROVE  IInv'
<1> DEFINE A == mq["audio"]
           V == mq["video"]
           e == mp.epoch
           R == CtrlTaken(V)
           h == Head(V.ctrl)
<1>1. /\ e \in Nat /\ mp \in PipeRec /\ hungry = (IF mp.satisfied THEN 0 ELSE 1) /\ mp.current \in Nat
      /\ mp.current = Bytes(A.data) + Bytes(V.data)
  BY EpochIs
<1>2. /\ AudioSide(A, aud, e, devblk) /\ VideoSide(V, vid, e) /\ PlayerOK(dmx) /\ Chains(A, V, dmx, aud, vid)
      /\ vid \in VideoRec
  BY DEF IInv, VideoSide
<1>3. /\ vid.pc = "run" /\ V.ctrl # <<>> /\ vid' = [vid EXCEPT !.pc = "process", !.mb = h]
      /\ mq_update_stats(mp.current, e) /\ dmx' = WokenPlayer(dmx) /\ UNCHANGED <<noint, eq, aud, devblk>>
  BY DEF VideoCtrl
<1>4. /\ VideoSide(R, vid', e) /\ R.data = V.data /\ vid.mb = None /\ ~IsData(h)
      /\ NoneDue(R.ctrl, h) => NoneDue(V.ctrl, vid.mb)
  BY <1>1, <1>2, <1>3, VideoTakesCtrl
<1>5. mq' = [r \in Queues |-> mq'[r]] /\ mq'["video"] = R /\ mq'["audio"] = A
  <2>1. mq' = [mq EXCEPT !["video"] = R]
    BY DEF VideoCtrl
  <2> HIDE DEF R
  <2>2. QED
    BY <2>1, OneQueue DEF Queues
<1>6. /\ vid'.pc = "process" /\ vid'.mb = h /\ vid'.cur = vid.cur /\ vid'.seen = vid.seen
      /\ vid'.flushed = vid.flushed
  BY <1>2, <1>3 DEF VideoRec
<1>7. PlayerOK(dmx') /\ (Active(dmx') <=> Active(dmx)) /\ \A q : Coming(dmx', q) = Coming(dmx, q)
  BY <1>2, <1>3, WakingPlayer
<1> HIDE DEF R, h
<1>8. Accounts(A, R, mp', hungry', aud) /\ mp'.epoch = e
  BY <1>1, <1>3, <1>4, StatsAccount
<1>9. ~IsData(vid.mb)
  BY <1>4 DEF IsData
<1>10. Chains(A, R, dmx', aud, vid')
  <2>1. /\ NoneDue(R.ctrl, vid'.mb) => NoneDue(V.ctrl, vid.mb)
        /\ ~IsData(vid'.mb) /\ ~IsData(vid.mb) /\ vid.pc # "exit"
    BY <1>3, <1>4, <1>6, <1>9
  <2>2. Active(dmx') => Active(dmx) /\ \A q \in Queues : Coming(dmx', q) = Coming(dmx, q)
    BY <1>7
  <2>3. QED
    BY <1>2, <1>4, <1>6, <2>1, <2>2, ChainsSame
<1>11. QED
  BY <1>2, <1>3, <1>4, <1>5, <1>7, <1>8, <1>10 DEF IInv

\* A packet is taken, and decoded at once if the codec decodes under the lock.
LEMMA VideoTakeInv ==
  ASSUME IInv, NEW busy \in BOOLEAN, VideoTake(busy)
  PROVE  IInv'
<1> DEFINE A == mq["audio"]
           V == mq["video"]
           e == mp.epoch
           R == DataTaken(V)
           h == Head(V.data)
           n == mp.current - h.size
<1>1. /\ e \in Nat /\ mp \in PipeRec /\ hungry = (IF mp.satisfied THEN 0 ELSE 1) /\ mp.current \in Nat
      /\ mp.current = Bytes(A.data) + Bytes(V.data) /\ Bytes(A.data) \in Nat /\ Bytes(V.data) \in Nat
  BY EpochIs
<1>2. /\ AudioSide(A, aud, e, devblk) /\ VideoSide(V, vid, e) /\ PlayerOK(dmx) /\ Chains(A, V, dmx, aud, vid)
      /\ vid \in VideoRec /\ V.data \in Seq(Mb) /\ noint \in BOOLEAN
  BY DEF IInv, VideoSide, QueueOK
<1>3. /\ vid.pc = "run" /\ V.ctrl = <<>> /\ vid.cur = None /\ V.data # <<>>
      /\ mq_update_stats(n, e) /\ dmx' = WokenPlayer(dmx) /\ UNCHANGED <<eq, aud, devblk>>
  BY DEF VideoTake
<1>4. /\ VideoSide(R, vid, e) /\ R.ctrl = <<>> /\ R.data = Tail(V.data)
      /\ h \in Mb /\ h.type = "DATA" /\ h.epoch <= e /\ vid.flushed <= h.epoch /\ vid.mb = None
  BY <1>1, <1>2, <1>3, VideoTakesData
<1>5. mq' = [r \in Queues |-> mq'[r]] /\ mq'["video"] = R /\ mq'["audio"] = A
  <2>1. mq' = [mq EXCEPT !["video"] = R]
    BY DEF VideoTake
  <2> HIDE DEF R
  <2>2. QED
    BY <2>1, OneQueue DEF Queues
<1>6. \/ vid' = Decoded(vid, h, busy) /\ noint' = busy
      \/ \E p \in {"process", "switch"} : vid' = [vid EXCEPT !.pc = p, !.mb = h] /\ noint' = noint
  <2>1. CASE h.pts \in Hardware /\ vid.codec = "hardware"
    BY <2>1 DEF VideoTake, DecodeLocked, Decoded
  <2>2. CASE ~(h.pts \in Hardware /\ vid.codec = "hardware")
    BY <2>2 DEF VideoTake
  <2>3. QED
    BY <2>1, <2>2
<1>7. Bytes(V.data) = h.size + Bytes(R.data) /\ Bytes(R.data) \in Nat /\ h.size \in Nat
  BY <1>2, <1>3, <1>4, BytesOfLists, MbFields
<1>8. PlayerOK(dmx') /\ (Active(dmx') <=> Active(dmx)) /\ \A q : Coming(dmx', q) = Coming(dmx, q)
  BY <1>2, <1>3, WakingPlayer
<1> HIDE DEF R, h
<1>9. n \in Nat /\ n = Bytes(A.data) + Bytes(R.data)
  <2> HIDE DEF A, V
  <2>1. QED
    BY <1>1, <1>7
<1> HIDE DEF n
<1>10. Accounts(A, R, mp', hungry', aud) /\ mp'.epoch = e
  BY <1>1, <1>3, <1>9, StatsAccount
<1>11. ~IsFlush(vid.mb) /\ Before(h, R.ctrl, vid.mb)
  BY <1>4 DEF IsFlush, Before
<1>12. /\ VideoSide(R, vid', e) /\ noint' \in BOOLEAN /\ vid'.flushed = vid.flushed /\ vid'.pc # "exit"
       /\ \/ vid'.mb = h /\ vid'.cur = None /\ vid'.seen = vid.seen
          \/ vid'.mb = None /\ vid'.cur = h /\ vid'.seen = vid.seen
          \/ vid'.mb = None /\ vid'.cur = None /\ vid'.seen = h
  <2>1. CASE vid' = Decoded(vid, h, busy) /\ noint' = busy
    <3>1. VideoSide(R, vid', e)
      BY <1>1, <1>4, <1>11, <2>1, VideoDecodes
    <3>2. QED
      BY <1>2, <1>4, <2>1, <3>1, DecodedIs
  <2>2. ASSUME NEW p \in {"process", "switch"}, vid' = [vid EXCEPT !.pc = p, !.mb = h], noint' = noint
        PROVE  /\ VideoSide(R, vid', e) /\ noint' \in BOOLEAN /\ vid'.flushed = vid.flushed /\ vid'.pc # "exit"
               /\ vid'.mb = h /\ vid'.cur = None /\ vid'.seen = vid.seen
    <3>1. VideoSide(R, vid', e)
      BY <1>1, <1>3, <1>4, <2>2, VideoHolds
    <3>2. vid'.pc = p /\ vid'.mb = h /\ vid'.cur = vid.cur /\ vid'.seen = vid.seen /\ vid'.flushed = vid.flushed
      BY <1>2, <2>2 DEF VideoRec
    <3>3. QED
      BY <1>2, <1>3, <2>2, <3>1, <3>2
  <2>3. QED
    BY <1>6, <2>1, <2>2
<1>13. Chains(A, R, dmx', aud, vid')
  <2>1. ASSUME Active(dmx)
        PROVE  VideoChain(R, vid', Coming(dmx, "video"))
    <3>1. VideoChain(V, vid, Coming(dmx, "video"))
      BY <1>2, <1>3, <2>1 DEF Chains
    <3>2. QED
      BY <1>2, <1>3, <1>4, <1>12, <3>1, VideoChainTaken DEF h
  <2>2. QED
    BY <1>2, <1>8, <2>1 DEF Chains
<1>14. QED
  BY <1>2, <1>3, <1>5, <1>8, <1>10, <1>12, <1>13 DEF IInv

\* The current packet is offered to the codec again.
LEMMA VideoRetryInv ==
  ASSUME IInv, NEW busy \in BOOLEAN, VideoRetry(busy)
  PROVE  IInv'
<1> DEFINE V == mq["video"]
           e == mp.epoch
           mb == vid.cur
<1>1. e \in Nat
  BY EpochIs
<1>2. VideoSide(V, vid, e) /\ vid \in VideoRec
  BY DEF IInv, VideoSide
<1>3. /\ vid.pc = "run" /\ V.ctrl = <<>> /\ mb # None /\ vid' = Decoded(vid, mb, busy) /\ noint' = busy
      /\ UNCHANGED <<mq, mp, hungry, eq, dmx, aud, devblk>>
  BY DEF VideoRetry, DecodeLocked, Decoded
<1>4. /\ mb \in Mb /\ mb.type = "DATA" /\ mb.epoch <= e /\ vid.mb = None /\ IsData(mb)
      /\ vid.flushed <= mb.epoch
  BY <1>2, <1>3 DEF VideoSide, VideoRec, IsData
<1>5. ~IsFlush(vid.mb) /\ Before(mb, V.ctrl, vid.mb)
  BY <1>3, <1>4 DEF IsFlush, Before
<1>6. VideoSide(V, vid', e)
  BY <1>1, <1>2, <1>3, <1>4, <1>5, VideoDecodes
<1>7. ASSUME VideoChain(V, vid, Coming(dmx, "video"))
      PROVE  VideoChain(V, vid', Coming(dmx, "video"))
  BY <1>2, <1>3, <1>4, <1>5, <1>7, VideoChainDecoded
<1>8. QED
  BY <1>3, <1>6, <1>7, VideoOnly

\* The codec has changed.
LEMMA VideoSwitchInv ==
  ASSUME IInv, NEW busy \in BOOLEAN, VideoSwitch(busy)
  PROVE  IInv'
<1> DEFINE V == mq["video"]
           e == mp.epoch
           mb == vid.mb
           v == [vid EXCEPT !.codec = "hardware"]
<1>1. e \in Nat
  BY EpochIs
<1>2. VideoSide(V, vid, e) /\ vid \in VideoRec
  BY DEF IInv, VideoSide
<1>3. /\ vid.pc = "switch" /\ vid' = Decoded(v, mb, busy) /\ noint' = busy
      /\ UNCHANGED <<mq, mp, hungry, eq, dmx, aud, devblk>>
  BY DEF VideoSwitch, DecodeLocked, Decoded
<1>4. VideoSide(V, v, e)
  BY <1>2, VideoElse
<1>5. v.mb = mb /\ v.cur = vid.cur /\ v.seen = vid.seen /\ v.flushed = vid.flushed
  BY <1>2 DEF VideoRec
<1> HIDE DEF v
<1>6. /\ mb \in Mb /\ mb # None /\ mb.type = "DATA" /\ mb.epoch <= e /\ IsData(mb) /\ vid.cur = None
      /\ vid.flushed <= mb.epoch /\ Before(mb, V.ctrl, mb)
  BY <1>2, <1>3 DEF VideoSide, VideoRec, IsData
<1>7. ~IsFlush(v.mb)
  BY <1>5, <1>6 DEF IsFlush
<1>8. VideoSide(V, vid', e)
  BY <1>1, <1>3, <1>4, <1>5, <1>6, <1>7, VideoDecodes
<1>9. ASSUME VideoChain(V, vid, Coming(dmx, "video"))
      PROVE  VideoChain(V, vid', Coming(dmx, "video"))
  <2> DEFINE np == Coming(dmx, "video")
  <2>1. VideoChain(V, v, np)
    BY <1>5, <1>9 DEF VideoChain
  <2> HIDE DEF np
  <2>2. VideoChain(V, vid', np)
    BY <1>3, <1>4, <1>5, <1>6, <1>7, <2>1, VideoChainDecoded
  <2>3. QED
    BY <2>2 DEF np
<1>10. QED
  BY <1>3, <1>8, <1>9, VideoOnly

\* A packet or a command is handled to its end.
LEMMA VideoDoneInv ==
  ASSUME IInv, VideoDone
  PROVE  IInv'
<1> DEFINE V == mq["video"]
           e == mp.epoch
           mb == vid.mb
<1>1. e \in Nat
  BY EpochIs
<1>2. VideoSide(V, vid, e) /\ noint \in BOOLEAN
  BY DEF IInv
<1>3. /\ vid.pc = "process" /\ vid' = VideoAfter(mb) /\ noint' = InterestAfter(mb)
      /\ UNCHANGED <<mq, mp, hungry, eq, dmx, aud, devblk>>
  BY DEF VideoDone
<1>4. noint' \in BOOLEAN
  BY <1>2, <1>3 DEF InterestAfter
<1>5. /\ VideoSide(V, vid', e)
      /\ vid'.mb = None /\ (vid'.pc = "exit" <=> mb.type = "EXIT")
      /\ mb.type = "DATA" => vid'.seen = mb /\ vid'.cur = None /\ vid'.flushed = vid.flushed /\ vid.cur = None
      /\ mb.type # "DATA" => vid'.seen = vid.seen
      /\ mb.type = "FLUSH" => /\ vid'.cur = None /\ vid'.flushed = mb.epoch
                              /\ IsData(vid.seen) => vid.seen.epoch < mb.epoch
      /\ mb.type \in {"PAUSE", "PLAY"} => vid'.cur = vid.cur /\ vid'.flushed = vid.flushed
      /\ mb \in Mb /\ mb # None /\ mb.type \in {"DATA", "PAUSE", "PLAY", "FLUSH", "EXIT"}
  BY <1>1, <1>2, <1>3, VideoFinishes
<1>6. ASSUME VideoChain(V, vid, Coming(dmx, "video")), vid'.pc # "exit"
      PROVE  VideoChain(V, vid', Coming(dmx, "video"))
  <2> DEFINE np == Coming(dmx, "video")
  <2>0. VideoChain(V, vid, np)
    BY <1>6
  <2> HIDE DEF np
  <2>1. ~IsData(None) /\ ~IsFlush(None)
    BY DEF IsData, IsFlush
  <2>2. \A i \in 1 .. Len(V.data) : Behind(V.data, i, np) = V.data[i].pts + 1
    BY <2>0 DEF VideoChain
  <2>3. CASE mb.type = "DATA"
    <3>1. IsData(mb) /\ ~IsFlush(mb)
      BY <1>5, <2>3 DEF IsData, IsFlush
    <3>2. NoneDue(V.ctrl, None) => NoneDue(V.ctrl, mb)
      BY <3>1 DEF NoneDue
    <3>3. NoneDue(V.ctrl, None) => Behind(V.data, 0, np) = mb.pts + 1
      BY <2>0, <3>1, <3>2 DEF VideoChain
    <3>4. VideoChain(V, vid', np)
      BY <1>5, <2>1, <2>2, <2>3, <3>3 DEF VideoChain
    <3>5. QED
      BY <3>4 DEF np
  <2>4. CASE mb.type = "FLUSH"
    <3>1. ~(IsData(vid'.seen) /\ vid'.flushed <= vid'.seen.epoch)
      <4> SUFFICES ASSUME IsData(vid.seen)
                   PROVE  ~(mb.epoch <= vid.seen.epoch)
        BY <1>5, <2>4
      <4>1. vid.seen.epoch \in Nat /\ mb.epoch \in Nat
        BY <1>2, <1>5, MbFields DEF VideoSide, VideoRec, IsData
      <4>2. QED
        BY <1>5, <2>4, <4>1
    <3>2. VideoChain(V, vid', np)
      BY <1>5, <2>1, <2>2, <2>4, <3>1 DEF VideoChain
    <3>3. QED
      BY <3>2 DEF np
  <2>5. CASE mb.type \in {"PAUSE", "PLAY"}
    <3>1. ~IsData(mb) /\ ~IsFlush(mb)
      BY <2>5 DEF IsData, IsFlush
    <3>2. NoneDue(V.ctrl, None) => NoneDue(V.ctrl, mb)
      BY <3>1 DEF NoneDue
    <3>3. VideoChain(V, vid', np)
      BY <1>5, <2>0, <2>1, <2>5, <3>1, <3>2 DEF VideoChain
    <3>4. QED
      BY <3>3 DEF np
  <2>6. QED
    BY <1>5, <1>6, <2>3, <2>4, <2>5
<1>7. QED
  BY <1>3, <1>4, <1>5, <1>6, VideoOnly

\* The video thread waits, or is woken by its codec.
LEMMA VideoElseInv ==
  ASSUME IInv, VideoWait \/ CodecReady
  PROVE  IInv'
<1> DEFINE V == mq["video"]
           e == mp.epoch
<1>1. VideoSide(V, vid, e) /\ vid \in VideoRec /\ noint \in BOOLEAN
  BY DEF IInv, VideoSide
<1>2. /\ vid.pc # "exit" /\ UNCHANGED <<mq, noint, mp, hungry, eq, dmx, aud, devblk>>
      /\ (vid.pc = "run" /\ vid' = [vid EXCEPT !.pc = "wait"]) \/ vid' = Woken(vid)
  BY DEF VideoWait, CodecReady
<1>3. /\ VideoSide(V, vid', e)
      /\ vid'.mb = vid.mb /\ vid'.cur = vid.cur /\ vid'.seen = vid.seen /\ vid'.flushed = vid.flushed
  <2>1. CASE vid' = Woken(vid)
    BY <1>1, <2>1, VideoWoken
  <2>2. CASE vid.pc = "run" /\ vid' = [vid EXCEPT !.pc = "wait"]
    <3>1. VideoSide(V, vid', e)
      BY <1>1, <2>2, VideoElse
    <3>2. QED
      BY <1>1, <2>2, <3>1 DEF VideoRec
  <2>3. QED
    BY <1>2, <2>1, <2>2
<1>4. ASSUME VideoChain(V, vid, Coming(dmx, "video"))
      PROVE  VideoChain(V, vid', Coming(dmx, "video"))
  <2> DEFINE np == Coming(dmx, "video")
  <2>0. VideoChain(V, vid, np)
    BY <1>4
  <2> HIDE DEF np
  <2>1. VideoChain(V, vid', np)
    BY <1>3, <2>0 DEF VideoChain
  <2>2. QED
    BY <2>1 DEF np
<1>5. QED
  BY <1>1, <1>2, <1>3, <1>4, VideoOnly

-----------------------------------------------------------------------------
(* The user.                                                                *)

\* The packets that a seek in the queues keeps begin in the queue.
LEMMA KeptFromIs ==
  ASSUME IInv, NEW t \in Pts, SeekableInQueues(t)
  PROVE  \A q \in Queues : /\ KeptFrom(q, t) \in 1 .. Len(mq[q].data)
                            /\ Min(FirstAt(mq[q].data, t)) \in Nat
                            /\ \A i \in 1 .. Len(mq[q].data) :
                                  i < Min(FirstAt(mq[q].data, t)) => mq[q].data[i].pts < t
<1>1. mq["audio"].data \in Seq(Mb) /\ mq["video"].data \in Seq(Mb)
  BY DEF IInv, AudioSide, VideoSide, QueueOK
<1>2. ASSUME NEW s \in Seq(Mb), FirstAt(s, t) # {}
      PROVE  Min(FirstAt(s, t)) \in 1 .. Len(s)
  <2> DEFINE F == FirstAt(s, t)
  <2>1. F \subseteq 1 .. Len(s) /\ F \subseteq Nat /\ F # {}
    BY <1>2 DEF FirstAt
  <2> HIDE DEF F
  <2>2. Min(F) \in F
    BY <2>1, MinIs
  <2>3. QED
    BY <2>1, <2>2 DEF F
<1>3. KeptFrom("audio", t) \in 1 .. Len(mq["audio"].data)
  BY <1>1, <1>2 DEF SeekableInQueues, KeptFrom
<1>4. KeptFrom("video", t) \in 1 .. Len(mq["video"].data)
  <2> DEFINE s == mq["video"].data
             m == Min(FirstAt(s, t))
             K == KeysUpTo(s, m)
  <2>1. m \in 1 .. Len(s) /\ Len(s) \in Nat
    BY <1>1, <1>2 DEF SeekableInQueues
  <2>2. K # {} /\ KeptFrom("video", t) = Max(K)
    BY DEF SeekableInQueues, KeptFrom
  <2> HIDE DEF m, s
  <2>3. K \subseteq 1 .. m /\ K \subseteq Nat /\ m \in Nat /\ \A k \in K : k <= m
    BY <2>1 DEF KeysUpTo
  <2> HIDE DEF K
  <2>4. Max(K) \in K
    BY <2>2, <2>3, MaxIs
  <2> DEFINE k == Max(K)
  <2>5. k \in 1 .. m
    BY <2>3, <2>4
  <2> HIDE DEF k
  <2>6. k \in 1 .. Len(s)
    BY <2>1, <2>3, <2>5
  <2>7. KeptFrom("video", t) = k
    BY <2>2 DEF k
  <2>8. QED
    BY <2>6, <2>7 DEF s
<1>5. ASSUME NEW s \in Seq(Mb), FirstAt(s, t) # {}
      PROVE  /\ Min(FirstAt(s, t)) \in Nat
             /\ \A i \in 1 .. Len(s) : i < Min(FirstAt(s, t)) => s[i].pts < t
  <2> DEFINE F == FirstAt(s, t)
  <2>1. /\ F \subseteq Nat /\ F # {}
        /\ \A i \in 1 .. Len(s) : i \notin F => ~(s[i].pts >= t)
    BY <1>5 DEF FirstAt
  <2>2. \A i \in 1 .. Len(s) : s[i].pts \in Nat /\ t \in Nat
    BY MbFields DEF Pts
  <2> HIDE DEF F
  <2>3. Min(F) \in F /\ \A m \in F : Min(F) <= m
    BY <2>1, MinIs
  <2> DEFINE n == Min(F)
  <2>4. n \in Nat /\ \A m \in F : n <= m
    BY <2>1, <2>3
  <2> HIDE DEF n
  <2>5. \A i \in 1 .. Len(s) : i < n => i \notin F
    BY <2>4
  <2>6. n \in Nat /\ \A i \in 1 .. Len(s) : i < n => s[i].pts < t
    BY <2>1, <2>2, <2>4, <2>5
  <2>7. QED
    BY <2>6 DEF n, F
<1>6. QED
  BY <1>1, <1>3, <1>4, <1>5 DEF Queues, SeekableInQueues

\* mp_seek_in_queues: both sides go on from the packets kept, behind a flush.
LEMMA SeekInQueuesInv ==
  ASSUME IInv, NEW t \in Pts, SeekableInQueues(t), mp_seek_in_queues(t, mp.epoch + 1),
         aud' = Woken(aud), vid' = Woken(vid), dmx' = [dmx EXCEPT !.marked["video"] = Max({@, t})],
         UNCHANGED <<noint, eq, devblk>>
  PROVE  IInv'
<1> DEFINE A == mq["audio"]
           V == mq["video"]
           e == mp.epoch
           i == KeptFrom("audio", t)
           j == KeptFrom("video", t)
           fa == Min(FirstAt(A.data, t))
           fv == Min(FirstAt(V.data, t))
           DA == DropBefore(A, i, fa, e + 1)
           DV == DropBefore(V, j, fv, e + 1)
           RA == Queued(DA, Ctrl("FLUSH"), e + 1)
           RV == Queued(DV, Ctrl("FLUSH"), e + 1)
           lost == SubSeq(A.data, 1, i - 1)
           gone == SubSeq(V.data, 1, j - 1)
           n == mp.current - Bytes(lost) - Bytes(gone)
<1>1. /\ e \in Nat /\ mp \in PipeRec /\ hungry = (IF mp.satisfied THEN 0 ELSE 1) /\ mp.current \in Nat
      /\ mp.current = Bytes(A.data) + Bytes(V.data) /\ Bytes(A.data) \in Nat /\ Bytes(V.data) \in Nat
  BY EpochIs
<1>2. /\ AudioSide(A, aud, e, devblk) /\ VideoSide(V, vid, e) /\ PlayerOK(dmx) /\ Chains(A, V, dmx, aud, vid)
      /\ QueueOK(A, e) /\ QueueOK(V, e)
  BY DEF IInv, AudioSide, VideoSide
<1>3. i \in 1 .. Len(A.data) /\ j \in 1 .. Len(V.data) /\ fa \in Nat /\ fv \in Nat
  BY KeptFromIs DEF Queues
<1>4. mq' = [r \in Queues |-> mq'[r]] /\ mq'["audio"] = RA /\ mq'["video"] = RV
  BY DEF mp_seek_in_queues, Queues
<1>5. mq_update_stats(n, e + 1)
  BY DEF mp_seek_in_queues
<1> HIDE DEF i, j, fa, fv
<1>6. AudioSide(RA, aud, e + 1, devblk) /\ RA.data = DA.data
  <2>1. e \in Nat /\ AudioSide(A, aud, e, devblk) /\ i \in 1 .. Len(A.data) /\ fa \in Nat
    BY <1>1, <1>2, <1>3
  <2> HIDE DEF A, e
  <2>2. QED
    BY <2>1, AudioSought
<1>7. VideoSide(RV, vid, e + 1) /\ RV.data = DV.data /\ ~NoneDue(RV.ctrl, vid.mb)
  BY <1>1, <1>2, <1>3, VideoSought
<1>8. /\ Renewed(A, DA, e) /\ Len(DA.data) = Len(A.data) - i + 1
      /\ \A k \in 1 .. Len(DA.data) : /\ DA.data[k].pts = A.data[k + i - 1].pts
                                      /\ DA.data[k].size = A.data[k + i - 1].size
      /\ lost \in Seq(Mb) /\ Bytes(A.data) = Bytes(lost) + Bytes(DA.data)
  <2>1. e \in Nat /\ QueueOK(A, e) /\ i \in 1 .. Len(A.data) /\ fa \in Nat
    BY <1>1, <1>2, <1>3
  <2> HIDE DEF A, e
  <2>2. QED
    BY <2>1, DroppedQueue
<1>9. /\ Renewed(V, DV, e) /\ Len(DV.data) = Len(V.data) - j + 1
      /\ \A k \in 1 .. Len(DV.data) : DV.data[k].pts = V.data[k + j - 1].pts
      /\ gone \in Seq(Mb) /\ Bytes(V.data) = Bytes(gone) + Bytes(DV.data)
  <2>1. e \in Nat /\ QueueOK(V, e) /\ j \in 1 .. Len(V.data) /\ fv \in Nat
    BY <1>1, <1>2, <1>3
  <2> HIDE DEF V, e
  <2>2. QED
    BY <2>1, DroppedQueue
<1>10. /\ A.data \in Seq(Mb) /\ V.data \in Seq(Mb) /\ DA.data \in Seq(Mb) /\ DV.data \in Seq(Mb)
  BY <1>2, <1>8, <1>9 DEF QueueOK, Renewed
<1>11. AudioSide(RA, aud', e + 1, devblk) /\ (aud'.pc = "exit" <=> aud.pc = "exit")
  BY <1>6, AudioWoken
<1>12. VideoSide(RV, vid', e + 1) /\ (vid'.pc = "exit" <=> vid.pc = "exit") /\ vid'.mb = vid.mb
  BY <1>7, VideoWoken
<1> HIDE DEF RA, RV, DA, DV, lost, gone
<1>13. n \in Nat /\ n = Bytes(DA.data) + Bytes(DV.data)
  <2>1. Bytes(lost) \in Nat /\ Bytes(gone) \in Nat /\ Bytes(DA.data) \in Nat /\ Bytes(DV.data) \in Nat
    BY <1>8, <1>9, <1>10, BytesFinite
  <2> DEFINE a == Bytes(A.data)
             b == Bytes(V.data)
             c == mp.current
  <2>2. /\ c = a + b /\ a = Bytes(lost) + Bytes(DA.data) /\ b = Bytes(gone) + Bytes(DV.data)
        /\ n = c - Bytes(lost) - Bytes(gone)
    BY <1>1, <1>8, <1>9
  <2> HIDE DEF a, b, c, n
  <2>3. QED
    BY <2>1, <2>2
<1> HIDE DEF n
<1>14. Accounts(RA, RV, mp', hungry', aud') /\ mp'.epoch = e + 1
  <2>1. n = Bytes(RA.data) + Bytes(RV.data) /\ e + 1 \in Nat
    BY <1>1, <1>6, <1>7, <1>13
  <2>2. e + 1 \in Nat /\ mq_update_stats(n, e + 1)
    BY <1>1, <1>5
  <2> HIDE DEF e
  <2>3. QED
    BY <1>1, <1>13, <2>1, <2>2, StatsAccount
<1>15. ASSUME Active(dmx), aud.pc # "exit"
       PROVE  AudioChain(RA.data, Coming(dmx, "audio"))
  <2> DEFINE k == i - 1
             s == A.data
             d == DA.data
  <2>1. AudioChain(s, Coming(dmx, "audio"))
    BY <1>2, <1>15 DEF Chains
  <2>2. k \in Nat /\ Len(s) \in Nat /\ Len(d) \in Nat /\ Len(s) = Len(d) + k
    <3>1. Len(s) \in Nat /\ Len(d) \in Nat
      BY <1>10
    <3>2. i \in 1 .. Len(s) /\ Len(d) = Len(s) - i + 1
      BY <1>3, <1>8
    <3> HIDE DEF s, d
    <3>3. QED
      BY <3>1, <3>2
  <2>3. \A m \in 1 .. Len(d) : m + i - 1 = m + k
    BY <1>3, <1>10
  <2>4. \A m \in 1 .. Len(d) : d[m].pts = s[m + k].pts /\ d[m].size = s[m + k].size
    BY <1>8, <2>3
  <2> HIDE DEF k, s, d
  <2>5. AudioChain(d, Coming(dmx, "audio"))
    BY <2>1, <2>2, <2>4, AudioChainShift
  <2>6. QED
    BY <1>6, <2>5 DEF d
<1>16. ASSUME Active(dmx), vid.pc # "exit"
       PROVE  VideoChain(RV, vid', Coming(dmx, "video"))
  <2> DEFINE k == j - 1
             s == V.data
             d == DV.data
             np == Coming(dmx, "video")
  <2>1. \A m \in 1 .. Len(s) : Behind(s, m, np) = s[m].pts + 1
    BY <1>2, <1>16 DEF Chains, VideoChain
  <2>2. k \in Nat /\ Len(s) \in Nat /\ Len(d) \in Nat /\ Len(s) = Len(d) + k
    <3>1. Len(s) \in Nat /\ Len(d) \in Nat /\ j \in 1 .. Len(s) /\ Len(d) = Len(s) - j + 1
      BY <1>3, <1>9, <1>10
    <3> HIDE DEF s, d
    <3>2. QED
      BY <3>1
  <2>3. \A m \in 1 .. Len(d) : m + j - 1 = m + k
    BY <1>3, <1>10
  <2>4. \A m \in 1 .. Len(d) : d[m].pts = s[m + k].pts
    BY <1>9, <2>3
  <2> HIDE DEF k, s, d, np
  <2>5. \A m \in 1 .. Len(d) : Behind(d, m, np) = d[m].pts + 1
    <3>1. \A m \in 0 .. Len(d) : Behind(d, m, np) = Behind(s, m + k, np)
      BY <2>2, <2>4, BehindShift
    <3>2. \A m \in 1 .. Len(d) : m \in 0 .. Len(d) /\ m + k \in 1 .. Len(s)
      BY <2>2
    <3>3. QED
      BY <2>1, <2>4, <3>1, <3>2
  <2>6. VideoChain(RV, vid', np)
    BY <1>7, <1>12, <2>5 DEF VideoChain, d
  <2>7. QED
    BY <2>6 DEF np
<1>17. Chains(RA, RV, dmx, aud', vid')
  BY <1>11, <1>12, <1>15, <1>16 DEF Chains
<1>18. /\ dmx' \in PlayerRec /\ dmx'.pc = dmx.pc /\ dmx'.mb = dmx.mb /\ dmx'.q = dmx.q
       /\ dmx'.pos = dmx.pos /\ dmx'.ev = dmx.ev
  <2> DEFINE g == Max({dmx.marked["video"], t})
             mk == [dmx.marked EXCEPT !["video"] = g]
  <2>1. dmx \in PlayerRec /\ dmx.marked \in [Queues -> 0 .. LastPts] /\ dmx.marked["video"] \in 0 .. LastPts
        /\ t \in 0 .. LastPts
    BY <1>2, Sizes DEF PlayerOK, PlayerRec, Queues, Pts
  <2>2. g \in 0 .. LastPts
    <3> DEFINE o == dmx.marked["video"]
    <3>1. o \in 0 .. LastPts /\ o \in Nat /\ t \in Nat
      BY <2>1
    <3> HIDE DEF o
    <3>2. Max({o, t}) \in {o, t}
      BY <3>1, MaxOfTwo
    <3>3. QED
      BY <2>1, <3>1, <3>2 DEF o
  <2> HIDE DEF g
  <2>3. mk \in [Queues -> 0 .. LastPts]
    BY <2>1, <2>2
  <2>4. dmx' = [dmx EXCEPT !.marked = mk]
    BY DEF g
  <2> HIDE DEF mk
  <2>5. QED
    BY <2>1, <2>3, <2>4 DEF PlayerRec
<1>19. PlayerOK(dmx') /\ \A q : Coming(dmx', q) = Coming(dmx, q)
  BY <1>2, <1>18, PlayerTurns DEF PlayerOK, Active
<1>20. Chains(RA, RV, dmx', aud', vid')
  BY <1>17, <1>18, <1>19 DEF Chains, Active
<1>21. QED
  BY <1>2, <1>4, <1>11, <1>12, <1>14, <1>19, <1>20 DEF IInv

\* mp_direct_seek by an event: the epoch is a new one and nothing else of the queues.
LEMMA SeekByEventInv ==
  ASSUME IInv, NEW t \in Pts, mp' = [mp EXCEPT !.epoch = @ + 1],
         IF SeekEvents # {}
         THEN eq' = [eq EXCEPT ![Min(SeekEvents)].ts = t] /\ dmx' = dmx
         ELSE eq' = Append(eq, [type |-> "SEEK", ts |-> t]) /\ dmx' = WokenPlayer(dmx),
         UNCHANGED <<mq, hungry, aud, vid, noint, devblk>>
  PROVE  IInv'
<1> DEFINE A == mq["audio"]
           V == mq["video"]
           e == mp.epoch
           f == e + 1
<1>1. e \in Nat /\ f \in Nat /\ e <= f /\ mp \in PipeRec
  BY EpochIs
<1>2. /\ AudioSide(A, aud, e, devblk) /\ VideoSide(V, vid, e) /\ PlayerOK(dmx) /\ Chains(A, V, dmx, aud, vid)
      /\ Accounts(A, V, mp, hungry, aud) /\ eq \in Seq(Event) /\ mq = [q \in Queues |-> mq[q]]
      /\ noint \in BOOLEAN /\ devblk \in BOOLEAN
  BY DEF IInv
<1>3. mp' = [mp EXCEPT !.epoch = f]
  OBVIOUS
<1> HIDE DEF f
<1>4. mp' \in PipeRec /\ mp'.epoch = f /\ mp'.current = mp.current /\ mp'.satisfied = mp.satisfied
  BY <1>1, <1>3 DEF PipeRec
<1>5. AudioSide(A, aud, f, devblk) /\ VideoSide(V, vid, f)
  BY <1>1, <1>2, AudioLater, VideoLater
<1>6. Accounts(A, V, mp', hungry, aud)
  BY <1>2, <1>4 DEF Accounts
<1>7. eq' \in Seq(Event)
  <2>1. CASE SeekEvents # {}
    <3> DEFINE m == Min(SeekEvents)
               x == [eq[m] EXCEPT !.ts = t]
    <3>1. SeekEvents \subseteq Nat /\ SeekEvents \subseteq 1 .. Len(eq)
      BY <1>2 DEF SeekEvents
    <3>2. m \in SeekEvents
      BY <2>1, <3>1, MinIs
    <3>3. m \in 1 .. Len(eq) /\ eq[m] \in Event /\ eq[m].type = "SEEK"
      BY <1>2, <3>1, <3>2 DEF SeekEvents
    <3>4. x \in Event
      BY <3>3 DEF Event
    <3>5. eq' = [eq EXCEPT ![m] = x]
      BY <2>1
    <3> HIDE DEF m, x
    <3>6. QED
      BY <1>2, <3>3, <3>4, <3>5
  <2>2. CASE SeekEvents = {}
    <3>1. [type |-> "SEEK", ts |-> t] \in Event
      BY DEF Event
    <3>2. QED
      BY <1>2, <2>2, <3>1
  <2>3. QED
    BY <2>1, <2>2
<1>8. PlayerOK(dmx') /\ (Active(dmx') <=> Active(dmx)) /\ \A q : Coming(dmx', q) = Coming(dmx, q)
  <2>1. dmx' = dmx \/ dmx' = WokenPlayer(dmx)
    OBVIOUS
  <2>2. QED
    BY <1>2, <2>1, WakingPlayer
<1>9. Chains(A, V, dmx', aud, vid)
  BY <1>2, <1>8, ChainsSame
<1>10. QED
  BY <1>2, <1>4, <1>5, <1>6, <1>7, <1>8, <1>9 DEF IInv

\* mp_direct_seek, either way.
LEMMA UiSeekInv ==
  ASSUME IInv, NEW t \in Pts, UiSeek(t)
  PROVE  IInv'
<1>1. UNCHANGED <<noint, devblk>>
  BY DEF UiSeek
<1>2. CASE /\ SeekableInQueues(t)
           /\ mp_seek_in_queues(t, mp.epoch + 1)
           /\ dmx' = [dmx EXCEPT !.marked["video"] = Max({@, t})]
           /\ aud' = Woken(aud) /\ vid' = Woken(vid)
           /\ UNCHANGED eq
  BY <1>1, <1>2, SeekInQueuesInv
<1>3. CASE /\ mp' = [mp EXCEPT !.epoch = @ + 1]
           /\ IF SeekEvents # {}
              THEN /\ eq' = [eq EXCEPT ![Min(SeekEvents)].ts = t]
                   /\ dmx' = dmx
              ELSE /\ eq' = Append(eq, [type |-> "SEEK", ts |-> t])
                   /\ dmx' = WokenPlayer(dmx)
           /\ UNCHANGED <<mq, hungry, aud, vid>>
  BY <1>1, <1>3, SeekByEventInv
<1>4. QED
  BY <1>2, <1>3 DEF UiSeek

\* Both decoders are told, and the pipe is as satisfied as its bytes say.
LEMMA UiHoldInv ==
  ASSUME IInv, UiHold
  PROVE  IInv'
<1> DEFINE A == mq["audio"]
           V == mq["video"]
           e == mp.epoch
           cmd == IF mp.gate THEN "PLAY" ELSE "PAUSE"
           RA == Queued(A, Ctrl(cmd), e)
           RV == Queued(V, Ctrl(cmd), e)
           sat == Satisfied(mp.current)
<1>1. /\ e \in Nat /\ mp \in PipeRec /\ hungry = (IF mp.satisfied THEN 0 ELSE 1) /\ mp.current \in Nat
      /\ mp.current = Bytes(A.data) + Bytes(V.data)
  BY EpochIs
<1>2. /\ AudioSide(A, aud, e, devblk) /\ VideoSide(V, vid, e) /\ PlayerOK(dmx) /\ Chains(A, V, dmx, aud, vid)
      /\ eq \in Seq(Event)
  BY DEF IInv
<1>3. mq' = [r \in Queues |-> mq'[r]] /\ mq'["audio"] = RA /\ mq'["video"] = RV
  BY DEF UiHold, Queues
<1>4. cmd \in {"PAUSE", "PLAY", "EXIT"}
  OBVIOUS
<1> HIDE DEF cmd
<1>5. AudioSide(RA, aud, e, devblk) /\ RA.data = A.data
  <2>1. e \in Nat /\ AudioSide(A, aud, e, devblk)
    BY <1>1, <1>2
  <2> HIDE DEF A, e
  <2>2. QED
    BY <1>4, <2>1, AudioTold
<1>6. VideoSide(RV, vid, e) /\ RV.data = V.data /\ (NoneDue(RV.ctrl, vid.mb) => NoneDue(V.ctrl, vid.mb))
  BY <1>1, <1>2, <1>4, VideoTold
<1> HIDE DEF RA, RV
<1>7. /\ aud' = Woken(aud) /\ vid' = Woken(vid) /\ dmx' = WokenPlayer(dmx)
      /\ UNCHANGED <<noint, devblk>>
  BY DEF UiHold
<1>8. AudioSide(RA, aud', e, devblk) /\ (aud'.pc = "exit" <=> aud.pc = "exit")
  BY <1>5, <1>7, AudioWoken
<1>9. /\ VideoSide(RV, vid', e) /\ (vid'.pc = "exit" <=> vid.pc = "exit") /\ vid'.mb = vid.mb
      /\ vid'.cur = vid.cur /\ vid'.seen = vid.seen /\ vid'.flushed = vid.flushed
  BY <1>6, <1>7, VideoWoken
<1>10. PlayerOK(dmx') /\ (Active(dmx') <=> Active(dmx)) /\ \A q : Coming(dmx', q) = Coming(dmx, q)
  BY <1>2, <1>7, WakingPlayer
<1>11. Chains(RA, RV, dmx', aud', vid')
  BY <1>2, <1>5, <1>6, <1>8, <1>9, <1>10, ChainsSame
<1>12. sat \in BOOLEAN /\ (~sat => mp.current > 0)
  BY <1>1 DEF Satisfied, PipeRec
<1>13. hungry' = IF sat THEN 0 ELSE 1
  <2>1. SetHungry(sat)
    BY DEF UiHold
  <2> HIDE DEF sat
  <2>2. QED
    BY <1>1, <1>12, <2>1, HungryIs
<1>14. mp' = [mp EXCEPT !.gate = ~@, !.satisfied = sat]
  BY DEF UiHold
<1> HIDE DEF sat
<1>15. mp' \in PipeRec /\ mp'.current = mp.current /\ mp'.epoch = e /\ mp'.satisfied = sat
  BY <1>1, <1>12, <1>14 DEF PipeRec
<1>16. Accounts(RA, RV, mp', hungry', aud')
  BY <1>1, <1>5, <1>6, <1>12, <1>13, <1>15 DEF Accounts
<1>17. eq' \in Seq(Event)
  <2>1. [type |-> "HOLD", ts |-> 0] \in Event
    BY DEF Event
  <2>2. QED
    BY <1>2, <2>1 DEF UiHold
<1>18. noint' \in BOOLEAN /\ devblk' \in BOOLEAN /\ devblk' = devblk
  BY <1>7 DEF IInv
<1>19. QED
  BY <1>3, <1>8, <1>9, <1>10, <1>11, <1>15, <1>16, <1>17, <1>18 DEF IInv

\* EVENT_EXIT.
LEMMA UiCloseInv ==
  ASSUME IInv, UiClose
  PROVE  IInv'
<1>1. PlayerOK(dmx) /\ eq \in Seq(Event)
  BY DEF IInv
<1>2. UNCHANGED <<mq, noint, mp, hungry, aud, vid, devblk>> /\ dmx' = WokenPlayer(dmx)
  BY DEF UiClose
<1>3. PlayerOK(dmx') /\ (Active(dmx') <=> Active(dmx)) /\ \A q : Coming(dmx', q) = Coming(dmx, q)
  BY <1>1, <1>2, WakingPlayer
<1>4. eq' \in Seq(Event)
  <2>1. [type |-> "EXIT", ts |-> 0] \in Event
    BY DEF Event
  <2>2. QED
    BY <1>1, <2>1 DEF UiClose
<1>5. mp \in PipeRec
  BY EpochIs
<1>6. QED
  BY <1>2, <1>3, <1>4, <1>5, PlayerOnly

\* MB_CTRL_EXIT for the video thread.
LEMMA UiStopVideoInv ==
  ASSUME IInv, UiStopVideo
  PROVE  IInv'
<1> DEFINE A == mq["audio"]
           V == mq["video"]
           e == mp.epoch
           R == Queued(V, Ctrl("EXIT"), e)
<1>1. e \in Nat /\ mp \in PipeRec /\ hungry = (IF mp.satisfied THEN 0 ELSE 1) /\ mp.current \in Nat
      /\ mp.current = Bytes(A.data) + Bytes(V.data)
  BY EpochIs
<1>2. /\ AudioSide(A, aud, e, devblk) /\ VideoSide(V, vid, e) /\ PlayerOK(dmx) /\ Chains(A, V, dmx, aud, vid)
      /\ noint \in BOOLEAN /\ devblk \in BOOLEAN /\ eq \in Seq(Event)
  BY DEF IInv
<1>3. VideoSide(R, vid, e) /\ R.data = V.data /\ (NoneDue(R.ctrl, vid.mb) => NoneDue(V.ctrl, vid.mb))
  BY <1>1, <1>2, VideoTold
<1>4. mq' = [r \in Queues |-> mq'[r]] /\ mq'["audio"] = A /\ mq'["video"] = R
  <2>1. mq' = [mq EXCEPT !["video"] = R]
    BY DEF UiStopVideo, mb_enq
  <2> HIDE DEF R
  <2>2. QED
    BY <2>1, OneQueue DEF Queues
<1>5. mq_update_stats(mp.current, e)
  <2>1. Ctrl("EXIT").size = 0 /\ mp.current + 0 = mp.current
    BY <1>1 DEF Ctrl
  <2>2. QED
    BY <2>1 DEF UiStopVideo, mb_enq
<1>6. vid' = Woken(vid) /\ UNCHANGED <<noint, eq, dmx, aud, devblk>>
  BY DEF UiStopVideo
<1> HIDE DEF R
<1>7. /\ VideoSide(R, vid', e) /\ (vid'.pc = "exit" <=> vid.pc = "exit") /\ vid'.mb = vid.mb
      /\ vid'.cur = vid.cur /\ vid'.seen = vid.seen /\ vid'.flushed = vid.flushed
  BY <1>3, <1>6, VideoWoken
<1>8. Accounts(A, R, mp', hungry', aud) /\ mp'.epoch = e
  BY <1>1, <1>3, <1>5, StatsAccount
<1>9. Chains(A, R, dmx, aud, vid')
  BY <1>2, <1>3, <1>7, ChainsSame
<1>10. QED
  BY <1>2, <1>4, <1>6, <1>7, <1>8, <1>9 DEF IInv

-----------------------------------------------------------------------------
(* The invariant holds.                                                     *)

\* A pipe that was just made.
LEMMA InitInv == Init => IInv
<1> SUFFICES ASSUME Init
             PROVE  IInv
  OBVIOUS
<1> DEFINE Q == [data |-> <<>>, ctrl |-> <<>>, packets |-> 0]
<1>1. mq = [q \in Queues |-> mq[q]] /\ mq["audio"] = Q /\ mq["video"] = Q
  BY DEF Init, Queues
<1>2. Q.data = <<>> /\ Q.ctrl = <<>> /\ Q.packets = 0 /\ Q \in [data : Seq(Mb), ctrl : Seq(Mb), packets : Nat]
  OBVIOUS
<1> HIDE DEF Q
<1>3. Len(<<>>) = 0 /\ \A i : i \notin 1 .. 0
  OBVIOUS
<1>4. QueueOK(Q, 1)
  BY <1>2, <1>3 DEF QueueOK, Counts
<1>5. UnblockAt(<<>>) = {}
  BY <1>3 DEF UnblockAt
<1>6. mp.epoch = 1 /\ devblk = FALSE /\ noint = FALSE /\ eq = <<>>
  BY DEF Init
<1>7. /\ aud \in AudioRec /\ aud.pc = "run" /\ aud.mb = None /\ aud.blocked = FALSE /\ aud.flushed = 0
  BY DEF Init, AudioRec, Threads
<1>8. AudioSide(Q, aud, 1, FALSE)
  BY <1>2, <1>3, <1>4, <1>5, <1>7 DEF AudioSide, InOrder, IsData, IsFlush, Refusals
<1>9. /\ vid \in VideoRec /\ vid.pc = "run" /\ vid.mb = None /\ vid.cur = None /\ vid.seen = None
      /\ vid.flushed = 0
  BY DEF Init, VideoRec, Threads
<1>10. VideoSide(Q, vid, 1)
  BY <1>2, <1>3, <1>4, <1>5, <1>9 DEF VideoSide, InOrder, IsData, IsFlush
<1>11. PlayerOK(dmx)
  <2> DEFINE z == [q \in Queues |-> 0]
  <2>0. z \in [Queues -> 0 .. LastPts]
    BY Sizes
  <2> HIDE DEF z
  <2>1. dmx \in PlayerRec /\ dmx.pc = "fetch" /\ dmx.mb = None /\ dmx.pos = 1
    BY <2>0 DEF Init, PlayerRec, Queues, z
  <2>2. 1 \in 1 .. 2 * LastPts + 1
    BY Sizes
  <2>3. QED
    BY <2>1, <2>2 DEF PlayerOK
<1>12. Chains(Q, Q, dmx, aud, vid)
  BY <1>2, <1>3, <1>9 DEF Chains, AudioChain, VideoChain, IsData
<1>13. Accounts(Q, Q, mp, hungry, aud)
  <2>1. mp \in PipeRec /\ mp.current = 0 /\ mp.satisfied = TRUE /\ hungry = 0
    BY DEF Init, PipeRec
  <2>2. QED
    BY <1>2, <2>1, BytesEmpty DEF Accounts
<1>14. eq \in Seq(Event) /\ noint \in BOOLEAN /\ devblk \in BOOLEAN
  <2>1. <<>> \in Seq(Event)
    OBVIOUS
  <2>2. noint \in BOOLEAN /\ devblk \in BOOLEAN
    BY DEF Init
  <2>3. QED
    BY <1>6, <2>1, <2>2
<1>15. /\ AudioSide(mq["audio"], aud, mp.epoch, devblk) /\ VideoSide(mq["video"], vid, mp.epoch)
       /\ Chains(mq["audio"], mq["video"], dmx, aud, vid) /\ Accounts(mq["audio"], mq["video"], mp, hungry, aud)
  BY <1>1, <1>6, <1>8, <1>10, <1>12, <1>13
<1>16. mq = [q \in Queues |-> mq[q]]
  BY <1>1
<1>17. QED
  BY <1>11, <1>14, <1>15, <1>16 DEF IInv

\* Every step of every thread, of the sound server, the codec and the user.
LEMMA NextInv == IInv /\ [Next]_vars => IInv'
<1> SUFFICES ASSUME IInv, [Next]_vars
             PROVE  IInv'
  OBVIOUS
<1>1. CASE Player
  BY <1>1, PlayerFetchInv, PlayerEofInv, PlayerSendInv, PlayerDrainInv, PlayerEventInv,
     PlayerShutdownInv, PlayerStopAudioInv, PlayerJoinInv, PlayerIdleInv DEF Player
<1>2. CASE Audio
  BY <1>2, AudioElseInv, AudioCtrlInv, AudioTakeInv, AudioPartialInv, AudioDoneInv DEF Audio
<1>3. CASE Video
  BY <1>3, VideoElseInv, VideoCtrlInv, VideoDoneInv, VideoRetryInv, VideoTakeInv, VideoSwitchInv DEF Video
<1>4. CASE DeviceWritable
  BY <1>4, DeviceWritableInv
<1>5. CASE CodecReady
  BY <1>5, VideoElseInv
<1>6. CASE User
  <2>1. CASE UiJoin
    <3>1. UNCHANGED <<mq, noint, mp, hungry, eq, dmx, aud, vid, devblk>>
      BY <2>1 DEF UiJoin
    <3>2. QED
      BY <3>1 DEF IInv
  <2>2. QED
    BY <1>6, <2>1, UiSeekInv, UiHoldInv, UiCloseInv, UiStopVideoInv DEF User
<1>7. CASE UNCHANGED vars
  <2>1. UNCHANGED <<mq, noint, mp, hungry, eq, dmx, aud, vid, devblk>>
    BY <1>7 DEF vars
  <2>2. QED
    BY <2>1 DEF IInv
<1>8. QED
  BY <1>1, <1>2, <1>3, <1>4, <1>5, <1>6, <1>7 DEF Next

\* The sides of the pipe, the player and the counters stay as described, whatever the
\* threads and the user do in whatever order.
THEOREM MediaInductive == Spec => []IInv
  BY InitInv, NextInv, PTL DEF Spec

-----------------------------------------------------------------------------
(* What follows from the invariant.                                         *)

\* mq_packets_current, mp_buffer_current and media_buffer_hungry: every packet and byte
\* is counted while it is queued and no longer, and a pipe that stays hungry has something
\* to go on with.
THEOREM MediaAccounting == Spec => []MediaInv
<1>1. IInv => MediaInv
  <2> SUFFICES ASSUME IInv
               PROVE  MediaInv
    OBVIOUS
  <2>1. \A q \in Queues : QueueOK(mq[q], mp.epoch)
    BY DEF IInv, AudioSide, VideoSide, Queues
  <2>2. \A q \in Queues : mq[q].data \in Seq(Mb) /\ mq[q].ctrl \in Seq(Mb) /\ mq[q].packets \in Nat
    BY <2>1 DEF QueueOK
  <2>3. \A q \in Queues : mq[q].packets = Len(mq[q].data) + Len(mq[q].ctrl)
    BY <2>1 DEF QueueOK, Counts
  <2>4. aud.pc \in Threads \cup {"refused"} /\ vid.pc \in Threads \cup {"switch"}
    BY DEF IInv, AudioSide, VideoSide, AudioRec, VideoRec
  <2>5. dmx.pc \in {"fetch", "send", "blocked", "eof", "drain", "draining", "event",
                    "shutdown", "stop", "join", "idle", "end"}
    BY DEF IInv, PlayerOK, PlayerRec
  <2>6. Accounts(mq["audio"], mq["video"], mp, hungry, aud) /\ noint \in BOOLEAN /\ devblk \in BOOLEAN
    BY DEF IInv
  <2>7. hungry \in {0, 1} /\ HungryHoldsPackets
    BY <2>6 DEF Accounts, HungryHoldsPackets
  <2>8. TypeOK
    BY <2>2, <2>4, <2>5, <2>6, <2>7 DEF TypeOK, Accounts, PipeRec
  <2>9. CountsExact
    BY <2>3, <2>6 DEF CountsExact, Accounts
  <2>10. QED
    BY <2>7, <2>8, <2>9 DEF MediaInv
<1>2. QED
  BY <1>1, MediaInductive, PTL

\* The sound server's callback and the audio thread: a refusal leaves one MB_CTRL_UNBLOCK
\* in the queue or one callback that will send it, through every flush, so that the thread's
\* assert holds and no driver stays blocked.
THEOREM OneUnblock == Spec => []OneUnblockPerRefusal
<1>1. IInv => OneUnblockPerRefusal
  <2> SUFFICES ASSUME IInv, aud.pc # "exit"
               PROVE  Unblocks + (IF devblk THEN 1 ELSE 0)
                        = (IF aud.blocked \/ aud.pc = "refused" THEN 1 ELSE 0)
    BY DEF OneUnblockPerRefusal
  <2> DEFINE c == mq["audio"].ctrl
             U == UnblockAt(c)
  <2>1. AudioSide(mq["audio"], aud, mp.epoch, devblk) /\ devblk \in BOOLEAN
    BY DEF IInv
  <2>2. c \in Seq(Mb)
    BY <2>1 DEF AudioSide, QueueOK
  <2>3. /\ \A i, j \in U : i = j
        /\ devblk => U = {}
        /\ (devblk \/ U # {}) <=> (aud.blocked \/ aud.pc = "refused")
    BY <2>1 DEF AudioSide, Refusals
  <2>4. Unblocks = Cardinality(U)
    <3>1. DOMAIN c = 1 .. Len(c)
      BY <2>2
    <3>2. {i \in DOMAIN c : c[i].type = "UNBLOCK"} = U
      BY <3>1 DEF UnblockAt
    <3>3. QED
      BY <3>2 DEF Unblocks
  <2> HIDE DEF U
  <2>5. CASE U = {}
    <3>1. Unblocks = 0
      BY <2>4, <2>5, FS_EmptySet
    <3>2. QED
      BY <2>1, <2>3, <2>5, <3>1
  <2>6. CASE U # {}
    <3>1. PICK i \in U : TRUE
      BY <2>6
    <3>2. U = {i}
      BY <2>3
    <3>3. Unblocks = 1
      BY <2>4, <3>2, FS_Singleton
    <3>4. QED
      BY <2>1, <2>3, <2>6, <3>3
  <2>7. QED
    BY <2>5, <2>6
<1>2. QED
  BY <1>1, MediaInductive, PTL

\* The flushes that are due to a thread: the one in its hand and those in its list.
LEMMA FlushesIs ==
  ASSUME IInv, NEW q \in Queues
  PROVE  /\ mq[q].ctrl \in Seq(Mb) /\ mq[q].data \in Seq(Mb) /\ QueueOK(mq[q], mp.epoch)
         /\ Thread(q).mb \in Mb \cup {None} /\ Thread(q).flushed \in Nat /\ Thread(q).flushed <= mp.epoch
         /\ IsFlush(Thread(q).mb) => Thread(q).mb.epoch <= mp.epoch
         /\ \A x : x \in Flushes(q) <=> \/ IsFlush(x) /\ x = Thread(q).mb
                                        \/ \E i \in 1 .. Len(mq[q].ctrl) : x = mq[q].ctrl[i] /\ x.type = "FLUSH"
<1>1. AudioSide(mq["audio"], aud, mp.epoch, devblk) /\ VideoSide(mq["video"], vid, mp.epoch)
  BY DEF IInv
<1>2. aud \in AudioRec /\ vid \in VideoRec /\ QueueOK(mq["audio"], mp.epoch) /\ QueueOK(mq["video"], mp.epoch)
  BY <1>1 DEF AudioSide, VideoSide
<1>3. /\ mq[q].ctrl \in Seq(Mb) /\ mq[q].data \in Seq(Mb) /\ QueueOK(mq[q], mp.epoch)
  BY <1>2 DEF QueueOK, Queues
<1>4. Thread(q).mb \in Mb \cup {None} /\ Thread(q).flushed \in Nat /\ Thread(q).flushed <= mp.epoch
  BY <1>1, <1>2 DEF Thread, AudioRec, VideoRec, AudioSide, VideoSide, Queues
<1>5. IsFlush(Thread(q).mb) => Thread(q).mb.epoch <= mp.epoch
  BY <1>1 DEF Thread, AudioSide, VideoSide, Queues, IsFlush
<1>6. \A x : x \in InHand(q) /\ x.type = "FLUSH" <=> IsFlush(x) /\ x = Thread(q).mb
  <2>1. CASE q = "audio"
    <3>1. Hand(q) = <<aud.mb>> /\ Thread(q) = aud
      BY <2>1 DEF Hand, Thread
    <3>2. InHand(q) = {aud.mb} \ {None}
      BY <3>1 DEF InHand
    <3>3. QED
      BY <3>1, <3>2 DEF IsFlush
  <2>2. CASE q = "video"
    <3>1. Hand(q) = <<vid.mb, vid.cur>> /\ Thread(q) = vid
      BY <2>2 DEF Hand, Thread
    <3>2. InHand(q) = {vid.mb, vid.cur} \ {None}
      BY <3>1 DEF InHand
    <3>3. vid.cur # None => vid.cur.type # "FLUSH"
      BY <1>1 DEF VideoSide
    <3>4. QED
      BY <3>1, <3>2, <3>3 DEF IsFlush
  <2>3. QED
    BY <2>1, <2>2 DEF Queues
<1>7. \A x : x \in Range(mq[q].ctrl) <=> \E i \in 1 .. Len(mq[q].ctrl) : x = mq[q].ctrl[i]
  BY <1>3 DEF Range
<1>8. \A x : x \in Flushes(q) <=> (x \in Range(mq[q].ctrl) \/ x \in InHand(q)) /\ x.type = "FLUSH"
  BY DEF Flushes
<1>9. QED
  BY <1>3, <1>4, <1>5, <1>6, <1>7, <1>8

\* The newest flush is one of those or the last handled, and no older than any of them.
LEMMA FrontierIs ==
  ASSUME IInv, NEW q \in Queues
  PROVE  /\ Frontier(q) \in Nat
         /\ Frontier(q) = Thread(q).flushed \/ \E x \in Flushes(q) : Frontier(q) = x.epoch
         /\ Thread(q).flushed <= Frontier(q)
         /\ \A x \in Flushes(q) : x.epoch <= Frontier(q)
<1> DEFINE E == {mb.epoch : mb \in Flushes(q)} \cup {Thread(q).flushed}
<1>1. \A x \in Flushes(q) : x.epoch \in Nat /\ x.epoch <= mp.epoch
  <2> SUFFICES ASSUME NEW x \in Flushes(q)
               PROVE  x.epoch \in Nat /\ x.epoch <= mp.epoch
    OBVIOUS
  <2>1. CASE IsFlush(x) /\ x = Thread(q).mb
    BY <2>1, FlushesIs, MbFields DEF IsFlush
  <2>2. CASE \E i \in 1 .. Len(mq[q].ctrl) : x = mq[q].ctrl[i] /\ x.type = "FLUSH"
    <3>1. PICK i \in 1 .. Len(mq[q].ctrl) : x = mq[q].ctrl[i]
      BY <2>2
    <3>2. mq[q].ctrl \in Seq(Mb) /\ QueueOK(mq[q], mp.epoch)
      BY FlushesIs
    <3>3. x \in Mb
      BY <3>1, <3>2
    <3>4. x.epoch <= mp.epoch
      BY <3>1, <3>2 DEF QueueOK
    <3>5. QED
      BY <3>3, <3>4, MbFields
  <2>3. QED
    BY <2>1, <2>2, FlushesIs
<1>2. Thread(q).flushed \in Nat /\ Thread(q).flushed <= mp.epoch /\ mp.epoch \in Nat
  BY FlushesIs, EpochIs
<1>3. E \subseteq Nat /\ E # {} /\ \A m \in E : m <= mp.epoch
  BY <1>1, <1>2
<1>4. Frontier(q) = Max(E)
  BY DEF Frontier
<1>5. (\A x \in Flushes(q) : x.epoch \in E) /\ Thread(q).flushed \in E
  OBVIOUS
<1>6. \A m \in E : m = Thread(q).flushed \/ \E x \in Flushes(q) : m = x.epoch
  OBVIOUS
<1> HIDE DEF E
<1>7. Max(E) \in E /\ \A m \in E : m <= Max(E)
  BY <1>2, <1>3, MaxIs
<1>8. QED
  BY <1>3, <1>4, <1>5, <1>6, <1>7

\* What is from after every flush is no older than the newest.
LEMMA FrontierBelow ==
  ASSUME IInv, NEW q \in Queues, NEW x, After(x, mq[q].ctrl, Thread(q).mb, Thread(q).flushed)
  PROVE  Frontier(q) <= x.epoch
<1>1. Thread(q).flushed <= x.epoch
  BY DEF After
<1>2. \A y \in Flushes(q) : y.epoch <= x.epoch
  BY FlushesIs DEF After
<1>3. QED
  BY <1>1, <1>2, FrontierIs

\* What is from before a flush that is due is older than the newest.
LEMMA FrontierAbove ==
  ASSUME IInv, NEW q \in Queues, NEW x \in Mb, Before(x, mq[q].ctrl, Thread(q).mb), Frontier(q) <= x.epoch
  PROVE  NoneDue(mq[q].ctrl, Thread(q).mb) /\ Frontier(q) = Thread(q).flushed
<1>1. x.epoch \in Nat /\ Frontier(q) \in Nat
  BY MbFields, FrontierIs
<1>2. ~IsFlush(Thread(q).mb)
  <2> SUFFICES ASSUME IsFlush(Thread(q).mb)
               PROVE  FALSE
    OBVIOUS
  <2> DEFINE y == Thread(q).mb
  <2>1. y \in Flushes(q) /\ y \in Mb
    BY FlushesIs DEF IsFlush
  <2>2. x.epoch < y.epoch /\ y.epoch \in Nat
    BY <2>1, MbFields DEF Before
  <2> HIDE DEF y
  <2>3. y.epoch <= Frontier(q)
    BY <2>1, FrontierIs
  <2>4. QED
    BY <1>1, <2>2, <2>3
<1>3. ASSUME NEW i \in 1 .. Len(mq[q].ctrl), mq[q].ctrl[i].type = "FLUSH"
      PROVE  FALSE
  <2> DEFINE y == mq[q].ctrl[i]
  <2>1. y \in Flushes(q)
    BY <1>3, FlushesIs
  <2>2. y \in Mb
    BY FlushesIs
  <2>3. x.epoch < y.epoch /\ y.epoch \in Nat
    BY <1>3, <2>2, MbFields DEF Before
  <2> HIDE DEF y
  <2>4. y.epoch <= Frontier(q)
    BY <2>1, FrontierIs
  <2>5. QED
    BY <1>1, <2>3, <2>4
<1>4. NoneDue(mq[q].ctrl, Thread(q).mb)
  BY <1>2, <1>3 DEF NoneDue
<1>5. \A y : y \notin Flushes(q)
  BY <1>2, <1>3, FlushesIs
<1>6. QED
  BY <1>4, <1>5, FrontierIs

\* mp_seek_in_queues and mq_flush_q against the two decoders: what is queued is from after
\* the newest flush, but for the one packet that the audio thread puts back, and the video
\* thread decodes nothing from before a flush it has handled.
THEOREM StaleIsDiscarded == Spec => []OneStalePacket
<1>1. IInv => OneStalePacket
  <2> SUFFICES ASSUME IInv
               PROVE  OneStalePacket
    OBVIOUS
  <2>1. AudioSide(mq["audio"], aud, mp.epoch, devblk) /\ VideoSide(mq["video"], vid, mp.epoch)
    BY DEF IInv
  <2>2. ASSUME NEW q \in Queues, NEW i \in DOMAIN mq[q].data, mq[q].data[i].epoch < Frontier(q)
        PROVE  i \in IF q = "audio" THEN {1} ELSE {}
    <3> DEFINE x == mq[q].data[i]
    <3>1. mq[q].data \in Seq(Mb)
      BY FlushesIs
    <3>2. i \in 1 .. Len(mq[q].data) /\ x \in Mb /\ i \in Nat
      BY <3>1
    <3>3. x.epoch \in Nat /\ Frontier(q) \in Nat /\ x.epoch < Frontier(q)
      BY <2>2, <3>2, MbFields, FrontierIs
    <3>4. ~After(x, mq[q].ctrl, Thread(q).mb, Thread(q).flushed)
      <4> HIDE DEF x
      <4> QED
        BY <3>3, FrontierBelow
    <3>5. CASE q = "audio"
      <4>1. ~(i >= 2)
        BY <2>1, <3>2, <3>4, <3>5 DEF AudioSide, Thread
      <4>2. QED
        BY <3>2, <3>5, <4>1
    <3>6. CASE q = "video"
      BY <2>1, <3>2, <3>4, <3>6 DEF VideoSide, Thread
    <3>7. QED
      BY <3>5, <3>6 DEF Queues
  <2>3. ASSUME NEW mb \in InHand("video"), mb.type = "DATA"
        PROVE  mb.epoch >= vid.flushed
    <3>1. mb \in {vid.mb, vid.cur} /\ IsData(mb)
      BY <2>3 DEF InHand, Hand, IsData
    <3>2. mb \in Mb /\ vid.flushed \in Nat
      BY <2>1, <3>1 DEF VideoSide, VideoRec, IsData
    <3>3. vid.flushed <= mb.epoch
      BY <2>1, <3>1 DEF VideoSide
    <3>4. QED
      BY <3>2, <3>3, MbFields
  <2>4. QED
    BY <2>2, <2>3 DEF OneStalePacket
<1>2. QED
  BY <1>1, MediaInductive, PTL

\* The next packet after the i-th that is to be handled, if there is one.
LEMMA FollowerIs ==
  ASSUME NEW q, NEW i \in Nat, Waiting(q) \subseteq Nat
  PROVE  /\ \A n \in Waiting(q) : n > i /\ (\A j \in Waiting(q) : j > i => n <= j)
                                    => Follower(q, i) = Line(q)[n].pts
         /\ (\A j \in Waiting(q) : ~(j > i)) => Follower(q, i) = NextPts(q)
<1> DEFINE W == Waiting(q)
           later == {j \in W : j > i}
<1>1. Follower(q, i) = IF later = {} THEN NextPts(q) ELSE Line(q)[Min(later)].pts
  BY DEF Follower
<1>2. ASSUME NEW n \in W, n > i, \A j \in W : j > i => n <= j
      PROVE  later # {} /\ Min(later) = n
  <2>1. n \in later /\ later \subseteq Nat /\ \A j \in later : n <= j
    BY <1>2
  <2> HIDE DEF later
  <2> DEFINE k == Min(later)
  <2>2. k \in later /\ k <= n
    BY <2>1, MinIs
  <2> HIDE DEF k
  <2>3. k \in Nat /\ n \in Nat /\ n <= k
    BY <2>1, <2>2
  <2>4. k = n
    BY <2>2, <2>3
  <2>5. QED
    BY <2>1, <2>4 DEF k
<1>3. (\A j \in W : ~(j > i)) => later = {}
  OBVIOUS
<1> HIDE DEF later
<1>4. QED
  BY <1>1, <1>2, <1>3

\* The audio line: whole packets, each behind the one before it.
LEMMA AudioFollows ==
  ASSUME IInv, Active(dmx), aud.pc # "exit", NEW i \in Waiting("audio")
  PROVE  Follower("audio", i) = Line("audio")[i].pts + 1
<1> DEFINE s == mq["audio"].data
           np == Coming(dmx, "audio")
           W == Waiting("audio")
<1>1. AudioSide(mq["audio"], aud, mp.epoch, devblk) /\ s \in Seq(Mb)
  BY FlushesIs DEF IInv, Queues
<1>2. \A k \in 1 .. Len(s) : k >= 2 => s[k].size = AudioSize
  BY <1>1 DEF AudioSide
<1>3. AudioChain(s, np)
  BY DEF IInv, Chains
<1>4. Line("audio") = s /\ DOMAIN s = 1 .. Len(s) /\ Len(s) \in Nat
  BY <1>1 DEF Line
<1>5. \A k : k \in W <=> k \in 1 .. Len(s) /\ s[k].size = AudioSize
  BY <1>4 DEF Waiting
<1>6. NextPts("audio") = np
  BY DEF NextPts, Coming
<1> HIDE DEF s, np, W
<1>7. W \subseteq Nat /\ i \in 1 .. Len(s) /\ i \in Nat /\ s[i].size = AudioSize
  BY <1>4, <1>5 DEF W
<1>8. Behind(s, i, np) = s[i].pts + 1
  BY <1>3, <1>7 DEF AudioChain
<1>9. CASE i = Len(s)
  <2>1. \A j \in W : ~(j > i)
    BY <1>4, <1>5, <1>9
  <2>2. Follower("audio", i) = np
    BY <1>6, <1>7, <2>1, FollowerIs DEF W
  <2>3. QED
    BY <1>4, <1>8, <1>9, <2>2 DEF Behind
<1>10. CASE i # Len(s)
  <2> DEFINE n == i + 1
  <2>1. n \in 1 .. Len(s) /\ n >= 2 /\ n > i /\ \A j \in W : j > i => n <= j
    <3> DEFINE l == Len(s)
    <3>1. l \in Nat /\ i \in 1 .. l /\ i # l
      BY <1>4, <1>7, <1>10
    <3> HIDE DEF l
    <3>2. n \in 1 .. l /\ n >= 2 /\ n > i
      BY <3>1
    <3>3. \A j \in Nat : j > i => n <= j
      BY <1>7
    <3>4. QED
      BY <1>7, <3>2, <3>3 DEF l
  <2>2. s[n].pts = s[i].pts + 1
    BY <1>8, <1>10 DEF Behind
  <2> HIDE DEF n
  <2>3. n \in W
    BY <1>2, <1>5, <2>1
  <2>4. Follower("audio", i) = Line("audio")[n].pts
    BY <1>7, <2>1, <2>3, FollowerIs DEF W
  <2>5. QED
    BY <1>4, <2>2, <2>4
<1>11. QED
  BY <1>9, <1>10

\* Two lists in a row.
LEMMA Joined ==
  ASSUME NEW M, NEW t \in Seq(M), NEW s \in Seq(M)
  PROVE  /\ t \o s \in Seq(M) /\ Len(t \o s) = Len(t) + Len(s) /\ Len(t) \in Nat /\ Len(s) \in Nat
         /\ \A k \in 1 .. Len(t) + Len(s) : (t \o s)[k] = IF k <= Len(t) THEN t[k] ELSE s[k - Len(t)]
<1>1. Len(t \o s) = Len(t) + Len(s) /\ Len(t) \in Nat /\ Len(s) \in Nat
  OBVIOUS
<1>2. t \o s \in Seq(M)
  OBVIOUS
<1>3. \A k \in 1 .. Len(t) + Len(s) : (t \o s)[k] = IF k <= Len(t) THEN t[k] ELSE s[k - Len(t)]
  OBVIOUS
<1>4. QED
  BY <1>1, <1>2, <1>3

\* The video line: the packet decoded last, the two the thread may hold, and the queue.
LEMMA VideoLine ==
  ASSUME IInv
  PROVE  LET L == Line("video")
             s == mq["video"].data
         IN  /\ Len(s) \in Nat /\ DOMAIN L = 1 .. Len(s) + 3
             /\ L[1] = vid.seen /\ L[2] = vid.cur /\ L[3] = vid.mb
             /\ \A m \in 1 .. Len(s) : L[m + 3] = s[m]
             /\ \A k : k \in Waiting("video") <=>
                          k \in 1 .. Len(s) + 3 /\ IsData(L[k]) /\ Frontier("video") <= L[k].epoch
             /\ \A m \in 1 .. Len(s) : m + 3 \in Waiting("video")
<1> DEFINE L == Line("video")
           s == mq["video"].data
           T == <<vid.seen, vid.cur, vid.mb>>
           F == Frontier("video")
<1>1. VideoSide(mq["video"], vid, mp.epoch) /\ vid \in VideoRec /\ QueueOK(mq["video"], mp.epoch)
  BY DEF IInv, VideoSide
<1>2. s \in Seq(Mb) /\ vid.seen \in Mb \cup {None} /\ vid.cur \in Mb \cup {None} /\ vid.mb \in Mb \cup {None}
  BY <1>1 DEF VideoRec, QueueOK
<1>3. F \in Nat
  BY FrontierIs DEF Queues
<1>4. \A m \in 1 .. Len(s) : IsData(s[m]) /\ F <= s[m].epoch
  <2> SUFFICES ASSUME NEW m \in 1 .. Len(s)
               PROVE  IsData(s[m]) /\ F <= s[m].epoch
    OBVIOUS
  <2>1. s[m] \in Mb /\ s[m].type = "DATA"
    BY <1>1, <1>2 DEF QueueOK
  <2>2. After(s[m], mq["video"].ctrl, vid.mb, vid.flushed)
    BY <1>1 DEF VideoSide
  <2> DEFINE x == s[m]
  <2>3. After(x, mq["video"].ctrl, Thread("video").mb, Thread("video").flushed)
    BY <2>2 DEF Thread
  <2> HIDE DEF x
  <2>4. F <= x.epoch
    BY <2>3, FrontierBelow DEF Queues
  <2>5. QED
    BY <2>1, <2>4, MbFields DEF IsData, x
<1>5. T \in Seq(Mb \cup {None}) /\ Len(T) = 3 /\ s \in Seq(Mb \cup {None}) /\ L = T \o s
  BY <1>2 DEF Line
<1>6. T[1] = vid.seen /\ T[2] = vid.cur /\ T[3] = vid.mb
  OBVIOUS
<1> HIDE DEF T, s, F
<1>7. /\ Len(s) \in Nat /\ DOMAIN L = 1 .. Len(s) + 3 /\ L \in Seq(Mb \cup {None})
      /\ \A k \in 1 .. 3 : L[k] = T[k]
      /\ \A m \in 1 .. Len(s) : L[m + 3] = s[m]
  <2> DEFINE M == Mb \cup {None}
  <2>0. T \in Seq(M) /\ Len(T) = 3 /\ s \in Seq(M) /\ L = T \o s
    BY <1>5
  <2> HIDE DEF L, M
  <2>1. Len(s) \in Nat /\ L \in Seq(M) /\ Len(L) = 3 + Len(s)
    <3>1. Len(s) \in Nat /\ T \o s \in Seq(M) /\ Len(T \o s) = Len(T) + Len(s)
      BY <2>0, Joined
    <3>2. QED
      BY <2>0, <3>1
  <2>2. \A k \in 1 .. 3 + Len(s) : L[k] = IF k <= 3 THEN T[k] ELSE s[k - 3]
    <3>1. \A k \in 1 .. Len(T) + Len(s) : (T \o s)[k] = IF k <= Len(T) THEN T[k] ELSE s[k - Len(T)]
      BY <2>0, Joined
    <3>2. Len(T) = 3 /\ L = T \o s
      BY <2>0
    <3>3. QED
      BY <3>1, <3>2
  <2>3. DOMAIN L = 1 .. Len(s) + 3
    BY <2>1
  <2>4. \A k \in 1 .. 3 : L[k] = T[k]
    BY <2>1, <2>2
  <2>5. ASSUME NEW m \in 1 .. Len(s)
        PROVE  L[m + 3] = s[m]
    <3>1. m + 3 \in 1 .. 3 + Len(s) /\ ~(m + 3 <= 3) /\ (m + 3) - 3 = m
      BY <2>1
    <3>2. QED
      BY <2>2, <3>1
  <2>6. QED
    BY <2>1, <2>3, <2>4, <2>5 DEF M
<1>8. L[1] = vid.seen /\ L[2] = vid.cur /\ L[3] = vid.mb
  BY <1>6, <1>7
<1> DEFINE W == Waiting("video")
<1>9. \A k : k \in W <=> k \in 1 .. Len(s) + 3 /\ IsData(L[k]) /\ F <= L[k].epoch
  <2>1. \A k : k \in W <=> k \in DOMAIN L /\ L[k] # None /\ L[k].type = "DATA" /\ L[k].epoch >= F
    BY DEF Waiting, F
  <2> HIDE DEF L, W
  <2>2. \A k \in DOMAIN L : L[k] # None => L[k].epoch \in Nat
    BY <1>7, MbFields
  <2>3. QED
    BY <1>3, <1>7, <2>1, <2>2 DEF IsData
<1>10. ASSUME NEW m \in 1 .. Len(s)
       PROVE  m + 3 \in W
  <2> HIDE DEF L, W
  <2>1. m + 3 \in 1 .. Len(s) + 3 /\ L[m + 3] = s[m]
    BY <1>7
  <2>2. QED
    BY <1>4, <1>9, <2>1
<1>11. QED
  BY <1>7, <1>8, <1>9, <1>10 DEF s, F

\* Behind a place with nothing more in the thread's hands comes the queue.
LEMMA VideoFollower ==
  ASSUME IInv, NEW m \in 0 .. Len(mq["video"].data), NEW i \in 1 .. m + 3,
         \A j \in Waiting("video") : j > i => j > m + 3
  PROVE  Follower("video", i) = Behind(mq["video"].data, m, Coming(dmx, "video"))
<1> DEFINE L == Line("video")
           s == mq["video"].data
           W == Waiting("video")
           np == Coming(dmx, "video")
<1>1. /\ Len(s) \in Nat
      /\ \A k \in 1 .. Len(s) : L[k + 3] = s[k]
      /\ \A k \in W : k \in 1 .. Len(s) + 3
      /\ \A k \in 1 .. Len(s) : k + 3 \in W
  BY VideoLine
<1>2. NextPts("video") = np
  BY DEF NextPts, Coming
<1>3. m \in 0 .. Len(s) /\ \A j \in W : j > i => j > m + 3
  OBVIOUS
<1> HIDE DEF L, s, W, np
<1>4. m \in Nat /\ i \in Nat /\ i <= m + 3 /\ W \subseteq Nat
  BY <1>1, <1>3
<1>5. CASE m = Len(s)
  <2>1. \A j \in W : ~(j > i)
    BY <1>1, <1>3, <1>4, <1>5
  <2>2. Follower("video", i) = np
    BY <1>2, <1>4, <2>1, FollowerIs DEF W
  <2>3. QED
    BY <1>5, <2>2 DEF Behind, s, np
<1>6. CASE m # Len(s)
  <2> DEFINE k == m + 1
             n == k + 3
  <2>1. k \in 1 .. Len(s) /\ n > i /\ \A j \in W : j > m + 3 => n <= j
    BY <1>1, <1>3, <1>4, <1>6
  <2>2. Behind(s, m, np) = s[k].pts
    BY <1>6 DEF Behind
  <2>3. n \in W /\ L[n] = s[k]
    BY <1>1, <2>1
  <2> HIDE DEF n, k
  <2>4. Follower("video", i) = L[n].pts
    BY <1>3, <1>4, <2>1, <2>3, FollowerIs DEF W, L
  <2>5. QED
    BY <2>2, <2>3, <2>4 DEF s, np
<1>7. QED
  BY <1>5, <1>6

\* The video line: each packet that no flush discards is behind the one before it.
LEMMA VideoFollows ==
  ASSUME IInv, Active(dmx), vid.pc # "exit", NEW i \in Waiting("video")
  PROVE  Follower("video", i) = Line("video")[i].pts + 1
<1> DEFINE L == Line("video")
           s == mq["video"].data
           c == mq["video"].ctrl
           W == Waiting("video")
           np == Coming(dmx, "video")
           F == Frontier("video")
<1>1. /\ Len(s) \in Nat
      /\ L[1] = vid.seen /\ L[2] = vid.cur /\ L[3] = vid.mb
      /\ \A m \in 1 .. Len(s) : L[m + 3] = s[m]
      /\ \A k : k \in W <=> k \in 1 .. Len(s) + 3 /\ IsData(L[k]) /\ F <= L[k].epoch
  BY VideoLine
<1>2. VideoSide(mq["video"], vid, mp.epoch) /\ vid \in VideoRec
  BY DEF IInv, VideoSide
<1>3. VideoChain(mq["video"], vid, np)
  BY DEF IInv, Chains
<1>4. \A m \in 0 .. Len(s) : i \in 1 .. m + 3 /\ (\A j \in W : j > i => j > m + 3)
                               => Follower("video", i) = Behind(s, m, np)
  BY VideoFollower
<1>5. i \in 1 .. Len(s) + 3 /\ IsData(L[i]) /\ F <= L[i].epoch
  BY <1>1
<1>6. Thread("video") = vid
  BY DEF Thread
<1> HIDE DEF L, s, c, W, np, F
<1>7. CASE i > 3
  <2> DEFINE m == i - 3
  <2>1. m \in 1 .. Len(s) /\ m + 3 = i /\ m \in 0 .. Len(s) /\ i \in 1 .. m + 3
    BY <1>1, <1>5, <1>7
  <2> HIDE DEF m
  <2>2. Follower("video", i) = Behind(s, m, np)
    BY <1>4, <2>1
  <2>3. Behind(s, m, np) = s[m].pts + 1
    BY <1>3, <2>1 DEF VideoChain, s
  <2>4. L[i] = s[m]
    BY <1>1, <2>1
  <2>5. QED
    BY <2>2, <2>3, <2>4 DEF L
<1>8. CASE ~(i > 3)
  <2> DEFINE x == L[i]
  <2>1. i \in {1, 2, 3}
    BY <1>1, <1>5, <1>8
  <2>2. x \in {vid.seen, vid.cur, vid.mb}
    BY <1>1, <2>1
  <2>3. IsData(x) /\ x \in Mb /\ F <= x.epoch
    BY <1>2, <1>5, <2>2 DEF VideoRec, IsData
  <2> HIDE DEF x
  <2>4. Before(x, c, vid.mb)
    BY <1>2, <2>2, <2>3 DEF VideoSide, c
  <2>5. NoneDue(c, vid.mb) /\ F = vid.flushed
    BY <1>6, <2>3, <2>4, FrontierAbove DEF c, F, Queues
  <2>6. /\ \A y \in {vid.mb, vid.cur} : IsData(y) => Behind(s, 0, np) = y.pts + 1
        /\ IsData(vid.seen) /\ vid.flushed <= vid.seen.epoch =>
              (CASE IsData(vid.cur) -> vid.cur.pts
                 [] IsData(vid.mb) -> vid.mb.pts
                 [] OTHER -> Behind(s, 0, np)) = vid.seen.pts + 1
    BY <1>3, <2>5 DEF VideoChain, s, c
  <2>7. \A y \in {vid.mb, vid.cur} : IsData(y) => F <= y.epoch
    BY <1>2, <2>5 DEF VideoSide
  <2>8. ASSUME \A j \in W : j > i => j > 3
        PROVE  Follower("video", i) = Behind(s, 0, np)
    <3>1. 0 \in 0 .. Len(s) /\ i \in 1 .. 0 + 3 /\ 0 + 3 = 3
      BY <1>1, <2>1
    <3>2. QED
      BY <1>4, <2>8, <3>1
  <2>9. W \subseteq Nat /\ i \in Nat
    BY <1>1, <1>5
  <2>10. 1 \in 1 .. Len(s) + 3 /\ 2 \in 1 .. Len(s) + 3 /\ 3 \in 1 .. Len(s) + 3
    BY <1>1
  <2>11. CASE i = 3
    <3>1. \A j \in W : j > i => j > 3
      BY <2>11
    <3>2. x = vid.mb
      BY <1>1, <2>11 DEF x
    <3>3. QED
      BY <2>3, <2>6, <2>8, <3>1, <3>2 DEF x, L
  <2>12. CASE i = 2
    <3>1. x = vid.cur
      BY <1>1, <2>12 DEF x
    <3>2. ~IsData(vid.mb)
      BY <1>2, <2>3, <3>1 DEF VideoSide, IsData
    <3>3. 3 \notin W
      BY <1>1, <3>2
    <3>4. \A j \in W : j > i => j > 3
      BY <2>9, <2>12, <3>3
    <3>5. QED
      BY <2>3, <2>6, <2>8, <3>1, <3>4 DEF x, L
  <2>13. CASE i = 1
    <3>1. x = vid.seen
      BY <1>1, <2>13 DEF x
    <3>2. (CASE IsData(vid.cur) -> vid.cur.pts
             [] IsData(vid.mb) -> vid.mb.pts
             [] OTHER -> Behind(s, 0, np)) = x.pts + 1
      BY <2>3, <2>5, <2>6, <3>1
    <3>3. CASE IsData(vid.cur)
      <4>1. 2 \in W
        BY <1>1, <2>7, <2>10, <3>3
      <4>2. \A j \in W : j > i => 2 <= j
        BY <2>9, <2>13
      <4>3. Follower("video", i) = L[2].pts
        BY <2>9, <2>13, <4>1, <4>2, FollowerIs DEF W, L
      <4>4. vid.cur.pts = x.pts + 1
        <5>1. ~IsData(vid.mb)
          BY <1>2, <3>3 DEF VideoSide, IsData
        <5>2. QED
          BY <3>2, <3>3, <5>1
      <4>5. QED
        BY <1>1, <4>3, <4>4 DEF x, L
    <3>4. CASE ~IsData(vid.cur) /\ IsData(vid.mb)
      <4>1. 3 \in W /\ 2 \notin W
        BY <1>1, <2>7, <2>10, <3>4
      <4>2. \A j \in W : j > i => 3 <= j
        BY <2>9, <2>13, <4>1
      <4>3. Follower("video", i) = L[3].pts
        BY <2>9, <2>13, <4>1, <4>2, FollowerIs DEF W, L
      <4>4. vid.mb.pts = x.pts + 1
        BY <3>2, <3>4
      <4>5. QED
        BY <1>1, <4>3, <4>4 DEF x, L
    <3>5. CASE ~IsData(vid.cur) /\ ~IsData(vid.mb)
      <4>1. 2 \notin W /\ 3 \notin W
        BY <1>1, <3>5
      <4>2. \A j \in W : j > i => j > 3
        BY <2>9, <2>13, <4>1
      <4>3. Behind(s, 0, np) = x.pts + 1
        BY <3>2, <3>5
      <4>4. QED
        BY <2>8, <4>2, <4>3 DEF x, L
    <3>6. QED
      BY <3>3, <3>4, <3>5
  <2>14. QED
    BY <2>1, <2>11, <2>12, <2>13
<1>9. QED
  BY <1>7, <1>8

-----------------------------------------------------------------------------
(* The marks.                                                               *)

\* A packet that is marked lies before n.
Within(x, n) == IsData(x) /\ x.skip => x.pts < n
AllWithin(s, n) == \A i \in 1 .. Len(s) : Within(s[i], n)

\* What the video thread holds, unless a flush is about to discard it.
VideoMarks(c, v, n) ==
    v.pc # "exit" /\ NoneDue(c, v.mb) =>
        /\ Within(v.mb, n) /\ Within(v.cur, n)
        /\ IsData(v.seen) /\ v.flushed <= v.seen.epoch => Within(v.seen, n)
\* What the player holds, and where it stops marking.
PlayerMarks(d) ==
    /\ Within(d.mb, d.marked[d.q])
    /\ \A q \in Queues : d.target[q] <= d.marked[q]
Marks ==
    /\ AllWithin(mq["audio"].data, dmx.marked["audio"])
    /\ AllWithin(mq["video"].data, dmx.marked["video"])
    /\ VideoMarks(mq["video"].ctrl, vid, dmx.marked["video"])
    /\ PlayerMarks(dmx)

\* The player leaves the marks alone and holds no other packet.
Keeps(d, w) == /\ w.marked = d.marked /\ w.target = d.target
               /\ w.mb = None \/ (w.mb = d.mb /\ w.q = d.q)

\* A step by which the player keeps its marks.
LEMMA MarksKept ==
  ASSUME Marks, Keeps(dmx, dmx'),
         AllWithin(mq'["audio"].data, dmx.marked["audio"]),
         AllWithin(mq'["video"].data, dmx.marked["video"]),
         VideoMarks(mq'["video"].ctrl, vid', dmx.marked["video"])
  PROVE  Marks'
<1>1. PlayerMarks(dmx)
  BY DEF Marks
<1>2. PlayerMarks(dmx')
  <2>1. \A n : Within(None, n)
    BY DEF Within, IsData
  <2>2. QED
    BY <1>1, <2>1 DEF PlayerMarks, Keeps
<1>3. dmx'.marked = dmx.marked
  BY DEF Keeps
<1>4. QED
  BY <1>2, <1>3 DEF Marks

\* A signal to the player, and a change of its pc or its event.
LEMMA PlayerKeeps ==
  ASSUME IInv
  PROVE  /\ Keeps(dmx, dmx) /\ Keeps(dmx, WokenPlayer(dmx))
         /\ \A p : Keeps(dmx, [dmx EXCEPT !.pc = p])
         /\ \A p, x : Keeps(dmx, [dmx EXCEPT !.pc = p, !.ev = x])
         /\ \A p : Keeps(dmx, [dmx EXCEPT !.pc = p, !.mb = None])
<1>1. dmx \in PlayerRec
  BY DEF IInv, PlayerOK
<1>2. QED
  BY <1>1 DEF PlayerRec, Keeps, WokenPlayer

\* The parts of a list.
LEMMA WithinTail ==
  ASSUME NEW s \in Seq(Mb), s # <<>>, NEW n, AllWithin(s, n)
  PROVE  AllWithin(Tail(s), n) /\ Within(Head(s), n)
<1>1. /\ Head(s) = s[1] /\ 1 \in 1 .. Len(s)
      /\ \A i \in 1 .. Len(Tail(s)) : i + 1 \in 1 .. Len(s) /\ Tail(s)[i] = s[i + 1]
  BY TailIs
<1>2. QED
  BY <1>1 DEF AllWithin

\* The video thread is woken, goes to wait or is left alone, and no flush of its is gone.
LEMMA VideoMarksSame ==
  ASSUME IInv, Marks, NEW c, NoneDue(c, vid.mb) => NoneDue(mq["video"].ctrl, vid.mb),
         vid' = vid \/ vid' = Woken(vid) \/ (vid.pc # "exit" /\ vid' = [vid EXCEPT !.pc = "wait"])
  PROVE  VideoMarks(c, vid', dmx.marked["video"])
<1>1. vid \in VideoRec /\ VideoMarks(mq["video"].ctrl, vid, dmx.marked["video"])
  BY DEF IInv, VideoSide, Marks
<1>2. /\ vid'.mb = vid.mb /\ vid'.cur = vid.cur /\ vid'.seen = vid.seen /\ vid'.flushed = vid.flushed
      /\ vid'.pc # "exit" => vid.pc # "exit"
  BY <1>1 DEF VideoRec, Woken
<1>3. QED
  BY <1>1, <1>2 DEF VideoMarks

\* A step that leaves the video queue alone.
LEMMA QuietMarks ==
  ASSUME IInv, Marks, Keeps(dmx, dmx'), mq'["video"] = mq["video"],
         AllWithin(mq'["audio"].data, dmx.marked["audio"]),
         vid' = vid \/ vid' = Woken(vid) \/ (vid.pc # "exit" /\ vid' = [vid EXCEPT !.pc = "wait"])
  PROVE  Marks'
<1>1. VideoMarks(mq'["video"].ctrl, vid', dmx.marked["video"])
  BY VideoMarksSame
<1>2. AllWithin(mq'["video"].data, dmx.marked["video"])
  BY DEF Marks
<1>3. QED
  BY <1>1, <1>2, MarksKept

\* A step that leaves both alone.
LEMMA StillMarks ==
  ASSUME IInv, Marks, Keeps(dmx, dmx'), UNCHANGED mq,
         vid' = vid \/ vid' = Woken(vid) \/ (vid.pc # "exit" /\ vid' = [vid EXCEPT !.pc = "wait"])
  PROVE  Marks'
<1>1. AllWithin(mq'["audio"].data, dmx.marked["audio"]) /\ mq'["video"] = mq["video"]
  BY DEF Marks
<1>2. QED
  BY <1>1, QuietMarks

\* A command for one queue.
LEMMA CommandMarks ==
  ASSUME IInv, Marks, NEW q \in Queues, NEW cmd \in {"PAUSE", "PLAY", "EXIT", "UNBLOCK"},
         NEW Q, Q = Queued(mq[q], Ctrl(cmd), mp.epoch)
  PROVE  /\ AllWithin(Q.data, dmx.marked[q])
         /\ NoneDue(Q.ctrl, vid.mb) => NoneDue(mq[q].ctrl, vid.mb)
<1> DEFINE e == mp.epoch
           x == [Ctrl(cmd) EXCEPT !.epoch = e]
<1>1. e \in Nat /\ QueueOK(mq[q], e) /\ cmd \in Commands
  BY EpochIs DEF IInv, AudioSide, VideoSide, Queues, Commands
<1>2. Q.data = mq[q].data /\ Grown(mq[q].ctrl, Q.ctrl, x)
  BY <1>1, QueuedCmd
<1>3. x.type # "FLUSH"
  BY <1>1, CtrlIs
<1> HIDE DEF x
<1>4. NoneDue(Q.ctrl, vid.mb) => NoneDue(mq[q].ctrl, vid.mb)
  BY <1>2, <1>3, GrownPlain
<1>5. AllWithin(mq[q].data, dmx.marked[q])
  BY DEF Marks, Queues
<1>6. QED
  BY <1>2, <1>4, <1>5

\* Both queues are flushed: nothing is left to be within anything.
LEMMA FlushMarks ==
  ASSUME IInv, mp_flush_locked, vid' = Woken(vid), PlayerMarks(dmx')
  PROVE  Marks'
<1> DEFINE A == mq["audio"]
           V == mq["video"]
           e == mp.epoch
           SA == Queued(mq_flush_q(A, FALSE), Ctrl("FLUSH"), e + 1)
           SV == Queued(mq_flush_q(V, FALSE), Ctrl("FLUSH"), e + 1)
<1>1. e \in Nat /\ AudioSide(A, aud, e, devblk) /\ VideoSide(V, vid, e)
  BY EpochIs DEF IInv
<1>2. mq'["audio"] = SA /\ mq'["video"] = SV
  BY DEF mp_flush_locked, Queues
<1>3. SA.data = <<>>
  BY <1>1, AudioEmptied
<1>4. SV.data = <<>> /\ ~NoneDue(SV.ctrl, vid.mb)
  BY <1>1, VideoEmptied
<1>5. vid'.mb = vid.mb
  BY <1>1, VideoWoken
<1> HIDE DEF SA, SV
<1>6. \A n : AllWithin(<<>>, n)
  BY DEF AllWithin
<1>7. VideoMarks(SV.ctrl, vid', dmx'.marked["video"])
  BY <1>4, <1>5 DEF VideoMarks
<1>8. QED
  BY <1>2, <1>3, <1>4, <1>6, <1>7 DEF Marks

\* Steps of the player that mark nothing.
LEMMA PlayerElseMarks ==
  ASSUME IInv, Marks, PlayerEof \/ TakeEvent \/ PlayerDrain \/ PlayerIdle
  PROVE  Marks'
<1>1. \/ \E p : dmx' = [dmx EXCEPT !.pc = p]
      \/ \E p, x : dmx' = [dmx EXCEPT !.pc = p, !.ev = x]
  <2>1. CASE PlayerEof
    BY <2>1 DEF PlayerEof
  <2>2. CASE TakeEvent
    BY <2>2 DEF TakeEvent
  <2>3. CASE PlayerDrain
    BY <2>2, <2>3 DEF PlayerDrain
  <2>4. CASE PlayerIdle
    BY <2>4 DEF PlayerIdle
  <2>5. QED
    BY <2>1, <2>2, <2>3, <2>4
<1>2. UNCHANGED <<mq, vid>>
  BY DEF PlayerEof, TakeEvent, PlayerDrain, PlayerIdle
<1>3. Keeps(dmx, dmx')
  <2>1. ASSUME NEW p, dmx' = [dmx EXCEPT !.pc = p]
        PROVE  Keeps(dmx, dmx')
    BY <2>1, PlayerKeeps
  <2>2. ASSUME NEW p, NEW x, dmx' = [dmx EXCEPT !.pc = p, !.ev = x]
        PROVE  Keeps(dmx, dmx')
    BY <2>2, PlayerKeeps
  <2>3. QED
    BY <1>1, <2>1, <2>2
<1>4. QED
  BY <1>2, <1>3, StillMarks

\* A packet is read: it is marked if it lies before the target, which is not past marked.
LEMMA ReadMarks ==
  ASSUME NEW d, PlayerOK(d), PlayerMarks(d)
  PROVE  PlayerMarks(WithPacket(d)) /\ WithPacket(d).marked = d.marked
<1> DEFINE p == d.pos
           k == QueueAt(p)
           t == PtsAt(p)
           skip == t < d.target[k]
           x == Data(k, t, skip)
           g == IF skip THEN d.target[k] ELSE 0
           tg == [d.target EXCEPT ![k] = g]
           w == WithPacket(d)
<1>1. /\ d \in PlayerRec /\ p \in 1 .. 2 * LastPts + 1 /\ p \in Nat /\ LastPts \in Nat
      /\ d.target \in [Queues -> 0 .. LastPts] /\ d.marked \in [Queues -> 0 .. LastPts]
  BY Sizes DEF PlayerOK, PlayerRec
<1>2. k \in Queues /\ (p \in 1 .. 2 * LastPts => t \in 1 .. LastPts)
  BY <1>1, Interleaved
<1>3. \A q \in Queues : d.target[q] \in Nat /\ d.marked[q] \in Nat /\ d.target[q] <= d.marked[q]
  BY <1>1 DEF PlayerMarks
<1>4. CASE p <= 2 * LastPts
  <2>1. t \in 1 .. LastPts /\ t \in Nat
    BY <1>1, <1>2, <1>4
  <2>2. skip \in BOOLEAN /\ (skip => t < d.marked[k])
    BY <1>2, <1>3, <2>1
  <2>3. w = [d EXCEPT !.pc = "send", !.mb = x, !.q = k, !.pos = p + 1, !.target = tg]
    BY <1>4 DEF WithPacket
  <2>4. \A q \in Queues : tg[q] <= d.marked[q]
    <3>1. g <= d.marked[k]
      BY <1>2, <1>3
    <3>2. \A q \in Queues : tg[q] = IF q = k THEN g ELSE d.target[q]
      BY <1>1, <1>2
    <3> HIDE DEF tg, g
    <3>3. QED
      BY <1>3, <3>1, <3>2
  <2> HIDE DEF skip, k, t
  <2>5. x.pts = t /\ x.skip = skip
    BY <1>2, <2>1, <2>2, DataIs
  <2> HIDE DEF x, tg, w
  <2>6. Within(x, d.marked[k])
    BY <2>2, <2>5 DEF Within
  <2>7. w.mb = x /\ w.q = k /\ w.target = tg /\ w.marked = d.marked
    BY <1>1, <2>3 DEF PlayerRec
  <2>8. PlayerMarks(w)
    BY <2>4, <2>6, <2>7 DEF PlayerMarks
  <2>9. QED
    BY <2>7, <2>8 DEF w
<1>5. CASE ~(p <= 2 * LastPts)
  <2>1. w = [d EXCEPT !.pc = "eof", !.mb = None]
    BY <1>5 DEF WithPacket
  <2> HIDE DEF w
  <2>2. w.mb = None /\ w.target = d.target /\ w.marked = d.marked
    BY <1>1, <2>1 DEF PlayerRec
  <2>3. PlayerMarks(w)
    BY <2>2 DEF PlayerMarks, Within, IsData
  <2>4. QED
    BY <2>2, <2>3 DEF w
<1>6. QED
  BY <1>4, <1>5

\* A packet is read, and the one before it is queued with its mark.
LEMMA FetchMarks ==
  ASSUME IInv, Marks, PlayerFetch
  PROVE  Marks'
<1>1. PlayerMarks(dmx') /\ dmx'.marked = dmx.marked
  BY ReadMarks DEF IInv, Marks, PlayerFetch
<1>2. UNCHANGED <<mq, vid>>
  BY DEF PlayerFetch
<1>3. QED
  BY <1>1, <1>2 DEF Marks

LEMMA SendMarks ==
  ASSUME IInv, Marks, PlayerSend
  PROVE  Marks'
<1>1. CASE TakeEvent
  BY <1>1, PlayerElseMarks
<1>2. CASE /\ dmx' = [dmx EXCEPT !.pc = "blocked"]
           /\ UNCHANGED <<mq, noint, mp, hungry, eq, aud, vid, devblk, ui>>
  BY <1>2, PlayerKeeps, StillMarks
<1>3. CASE /\ mb_enq(dmx.q, dmx.mb)
           /\ dmx' = WithPacket(dmx)
           /\ vid' = IF dmx.q = "video" /\ ~noint THEN Woken(vid) ELSE vid
  <2> DEFINE q == dmx.q
             mb == dmx.mb
             e == mp.epoch
             x == [mb EXCEPT !.epoch = e]
             R == Queued(mq[q], mb, e)
  <2>1. PlayerOK(dmx) /\ dmx.pc = "send"
    BY DEF IInv, PlayerSend
  <2>2. q \in Queues /\ mb # None /\ mb \in Mb
    BY <2>1 DEF PlayerOK, PlayerRec
  <2>3. mb.type = "DATA" /\ mb.size >= 1
    <3> DEFINE p == dmx.pos - 1
    <3>1. dmx.pos \in 1 .. 2 * LastPts + 1 /\ dmx.pos >= 2 /\ q = QueueAt(p) /\ mb = Data(q, PtsAt(p), mb.skip)
      BY <2>1, <2>2 DEF PlayerOK, Active
    <3>2. p \in Nat /\ p \in 1 .. 2 * LastPts /\ mb.skip \in BOOLEAN
      BY <2>2, <3>1, Sizes, MbFields
    <3> HIDE DEF p
    <3>3. PtsAt(p) \in 1 .. LastPts
      BY <3>2, Interleaved
    <3>4. QED
      BY <2>2, <3>1, <3>2, <3>3, DataIs, Sizes
  <2>4. e \in Nat /\ QueueOK(mq[q], e)
    BY <2>2, EpochIs DEF IInv, AudioSide, VideoSide, Queues
  <2>5. R.ctrl = mq[q].ctrl /\ R.data = Append(mq[q].data, x) /\ mq[q].data \in Seq(Mb)
    <3>1. mb.size \in Nat /\ mq[q].data \in Seq(Mb)
      BY <2>2, <2>4, MbFields DEF QueueOK
    <3>2. QED
      BY <2>2, <2>3, <2>4, <3>1, QueuedData
  <2>6. mq'[q] = R /\ \A r \in Queues : r # q => mq'[r] = mq[r]
    <3>1. mq' = [mq EXCEPT ![q] = R]
      BY <1>3 DEF mb_enq
    <3> HIDE DEF R, q
    <3>2. QED
      BY <2>2, <3>1, OneQueue
  <2>7. PlayerMarks(dmx') /\ dmx'.marked = dmx.marked
    BY <1>3, <2>1, ReadMarks DEF Marks
  <2>8. Within(x, dmx.marked[q])
    <3>1. Within(mb, dmx.marked[q])
      BY DEF Marks, PlayerMarks
    <3>2. x.skip = mb.skip /\ x.pts = mb.pts
      BY <2>2, <2>4 DEF Mb
    <3>3. IsData(mb)
      BY <2>2, <2>3 DEF IsData
    <3> HIDE DEF x, mb
    <3>4. QED
      BY <3>1, <3>2, <3>3 DEF Within
  <2> HIDE DEF R, x
  <2>9. AllWithin(R.data, dmx.marked[q])
    <3>1. AllWithin(mq[q].data, dmx.marked[q])
      BY <2>2 DEF Marks, Queues
    <3> DEFINE s == mq[q].data
    <3>2. s \in Seq(Mb) /\ R.data = Append(s, x)
      BY <2>5
    <3> HIDE DEF s
    <3>3. /\ Len(R.data) = Len(s) + 1 /\ Len(s) \in Nat
          /\ \A i \in 1 .. Len(R.data) : R.data[i] = IF i \in 1 .. Len(s) THEN s[i] ELSE x
      BY <3>2
    <3>4. QED
      BY <2>8, <3>1, <3>3 DEF AllWithin, s
  <2>10. \A r \in Queues : AllWithin(mq'[r].data, dmx.marked[r]) /\ mq'[r].ctrl = mq[r].ctrl
    <3> SUFFICES ASSUME NEW r \in Queues
                 PROVE  AllWithin(mq'[r].data, dmx.marked[r]) /\ mq'[r].ctrl = mq[r].ctrl
      OBVIOUS
    <3>1. CASE r = q
      BY <2>5, <2>6, <2>9, <3>1
    <3>2. CASE r # q
      <4>1. AllWithin(mq[r].data, dmx.marked[r])
        BY DEF Marks, Queues
      <4>2. QED
        BY <2>6, <3>2, <4>1
    <3>3. QED
      BY <3>1, <3>2
  <2>11. VideoMarks(mq'["video"].ctrl, vid', dmx.marked["video"])
    <3>1. mq'["video"].ctrl = mq["video"].ctrl
      BY <2>10 DEF Queues
    <3>2. vid' = vid \/ vid' = Woken(vid)
      BY <1>3
    <3>3. QED
      BY <3>1, <3>2, VideoMarksSame
  <2>12. QED
    BY <2>7, <2>10, <2>11 DEF Marks, Queues
<1>4. QED
  BY <1>1, <1>2, <1>3 DEF PlayerSend

\* A seek marks what it is about to read, up to its place; the end of the file and a pause
\* mark nothing.
LEMMA EventMarks ==
  ASSUME IInv, Marks, PlayerEvent
  PROVE  Marks'
<1>1. dmx \in PlayerRec /\ PlayerOK(dmx) /\ dmx.pc = "event"
  BY DEF IInv, PlayerOK, PlayerEvent
<1>2. dmx.ev \in Event
  BY <1>1 DEF PlayerOK, PlayerRec
<1>3. CASE dmx.ev.type = "SEEK" /\ video_seek(dmx.ev.ts)
  <2> DEFINE t == dmx.ev.ts
             tt == [q \in Queues |-> t]
             p == SeekPos(t)
  <2>1. t \in Nat /\ \A q \in Queues : tt[q] = t
    BY <1>2, <1>3, EventIs DEF Pts
  <2>2. dmx' = [dmx EXCEPT !.pc = "fetch", !.mb = None, !.ev = None, !.pos = p, !.target = tt, !.marked = tt]
    BY <1>3 DEF video_seek
  <2> HIDE DEF tt, p
  <2>3. dmx'.mb = None /\ dmx'.target = tt /\ dmx'.marked = tt
    BY <1>1, <2>2 DEF PlayerRec
  <2> HIDE DEF t
  <2>4. PlayerMarks(dmx')
    BY <2>1, <2>3 DEF PlayerMarks, Within, IsData
  <2>5. QED
    BY <1>3, <2>4, FlushMarks DEF video_seek
<1>4. CASE dmx' = [dmx EXCEPT !.pc = "shutdown", !.mb = None] /\ UNCHANGED <<mq, mp, hungry, aud, vid>>
  BY <1>4, PlayerKeeps, StillMarks
<1>5. CASE /\ dmx' = [dmx EXCEPT !.pc = IF dmx.mb = None THEN "drain" ELSE "send", !.ev = None]
           /\ UNCHANGED <<mq, mp, hungry, aud, vid>>
  BY <1>5, PlayerKeeps, StillMarks
<1>6. QED
  BY <1>3, <1>4, <1>5 DEF PlayerEvent

\* The player ends.
LEMMA EndMarks ==
  ASSUME IInv, Marks, PlayerShutdown \/ PlayerStopAudio \/ PlayerJoin
  PROVE  Marks'
<1>1. CASE PlayerShutdown
  <2>1. Keeps(dmx, dmx') /\ PlayerMarks(dmx)
    BY <1>1, PlayerKeeps DEF PlayerShutdown, Marks
  <2>2. PlayerMarks(dmx')
    BY <2>1 DEF PlayerMarks, Keeps, Within, IsData
  <2>3. QED
    BY <1>1, <2>2, FlushMarks DEF PlayerShutdown
<1>2. CASE PlayerStopAudio
  <2> DEFINE R == Queued(mq["audio"], Ctrl("EXIT"), mp.epoch)
  <2>1. AllWithin(R.data, dmx.marked["audio"])
    BY CommandMarks DEF Queues
  <2>2. mq' = [mq EXCEPT !["audio"] = R]
    BY <1>2 DEF PlayerStopAudio, mb_enq
  <2> HIDE DEF R
  <2>3. mq'["audio"] = R /\ mq'["video"] = mq["video"]
    BY <2>2, OneQueue DEF Queues
  <2>4. Keeps(dmx, dmx') /\ vid' = vid
    BY <1>2, PlayerKeeps DEF PlayerStopAudio
  <2>5. QED
    BY <2>1, <2>3, <2>4, QuietMarks
<1>3. CASE PlayerJoin
  <2> DEFINE R == mq_flush_q(mq["audio"], TRUE)
  <2>1. R.data = <<>>
    BY EpochIs, FlushedQueue DEF IInv, AudioSide
  <2>2. mq' = [mq EXCEPT !["audio"] = R]
    BY <1>3 DEF PlayerJoin
  <2> HIDE DEF R
  <2>3. mq'["audio"] = R /\ mq'["video"] = mq["video"]
    BY <2>2, OneQueue DEF Queues
  <2>4. \A n : AllWithin(<<>>, n)
    BY DEF AllWithin
  <2>5. Keeps(dmx, dmx') /\ vid' = vid
    BY <1>3, PlayerKeeps DEF PlayerJoin
  <2>6. QED
    BY <2>1, <2>3, <2>4, <2>5, QuietMarks
<1>4. QED
  BY <1>1, <1>2, <1>3

\* The audio thread takes packets and commands, and puts back what is not marked.
LEMMA AudioMarks ==
  ASSUME IInv, Marks, Audio \/ DeviceWritable
  PROVE  Marks'
<1> DEFINE A == mq["audio"]
           e == mp.epoch
<1>1. e \in Nat /\ QueueOK(A, e) /\ A.data \in Seq(Mb) /\ AllWithin(A.data, dmx.marked["audio"])
      /\ AudioSide(A, aud, e, devblk)
  BY EpochIs DEF IInv, AudioSide, Marks, QueueOK
<1>2. ASSUME NEW R, mq' = [mq EXCEPT !["audio"] = R], AllWithin(R.data, dmx.marked["audio"]),
             dmx' = dmx \/ dmx' = WokenPlayer(dmx), vid' = vid
      PROVE  Marks'
  <2>1. mq'["audio"] = R /\ mq'["video"] = mq["video"]
    BY <1>2, OneQueue DEF Queues
  <2>2. Keeps(dmx, dmx')
    BY <1>2, PlayerKeeps
  <2>3. QED
    BY <1>2, <2>1, <2>2, QuietMarks
<1>3. ASSUME UNCHANGED <<mq, vid>>, dmx' = dmx \/ dmx' = WokenPlayer(dmx)
      PROVE  Marks'
  BY <1>3, PlayerKeeps, StillMarks
<1>4. CASE AudioAccepted \/ AudioRefused \/ AudioBlocked \/ AudioWait
  BY <1>3, <1>4 DEF AudioAccepted, AudioRefused, AudioBlocked, AudioWait
<1>5. CASE \E more \in BOOLEAN : AudioDone(more)
  BY <1>3, <1>5 DEF AudioDone
<1>6. CASE AudioCtrl
  <2> DEFINE R == CtrlTaken(A)
  <2>1. R.data = A.data
    BY <1>1, <1>6, TakenCtrl DEF AudioCtrl
  <2>2. mq' = [mq EXCEPT !["audio"] = R] /\ vid' = vid /\ (dmx' = dmx \/ dmx' = WokenPlayer(dmx))
    BY <1>6 DEF AudioCtrl
  <2> HIDE DEF R
  <2>3. QED
    BY <1>1, <1>2, <2>1, <2>2
<1>7. CASE AudioTake
  <2> DEFINE R == DataTaken(A)
  <2>1. R.data = Tail(A.data) /\ A.data # <<>>
    BY <1>1, <1>7, TakenData DEF AudioTake
  <2>2. mq' = [mq EXCEPT !["audio"] = R] /\ vid' = vid /\ dmx' = dmx
    BY <1>7 DEF AudioTake
  <2> HIDE DEF R
  <2>3. AllWithin(R.data, dmx.marked["audio"])
    BY <1>1, <2>1, WithinTail
  <2>4. QED
    BY <1>2, <2>2, <2>3
<1>8. ASSUME NEW more \in BOOLEAN, AudioPartial(more)
      PROVE  Marks'
  <2> DEFINE x == [aud.mb EXCEPT !.size = @ - 1, !.pts = 0]
             R == PutBack(A, x)
             s == A.data
  <2>1. /\ aud.pc = "process" /\ aud.mb.type = "DATA" /\ aud.mb.size > 1 /\ ~aud.mb.skip
        /\ mq' = [mq EXCEPT !["audio"] = R] /\ vid' = vid /\ dmx' = dmx
    BY <1>8 DEF AudioPartial
  <2>2. R.data = <<x>> \o s /\ x \in Mb /\ x.skip = aud.mb.skip
    BY <1>1, <2>1, AudioPutsBack
  <2>3. s \in Seq(Mb) /\ AllWithin(s, dmx.marked["audio"])
    BY <1>1
  <2> HIDE DEF R, x, s
  <2>4. Within(x, dmx.marked["audio"])
    BY <2>1, <2>2 DEF Within
  <2>5. /\ Len(R.data) = Len(s) + 1 /\ Len(s) \in Nat
        /\ \A i \in 1 .. Len(R.data) : IF i = 1 THEN R.data[i] = x
                                        ELSE i - 1 \in 1 .. Len(s) /\ R.data[i] = s[i - 1]
    BY <2>2, <2>3
  <2>6. AllWithin(R.data, dmx.marked["audio"])
    BY <2>3, <2>4, <2>5 DEF AllWithin
  <2>7. QED
    BY <1>2, <2>1, <2>6
<1>9. CASE DeviceWritable
  <2> DEFINE R == Queued(A, Ctrl("UNBLOCK"), e)
  <2>1. AllWithin(R.data, dmx.marked["audio"])
    BY CommandMarks DEF Queues
  <2>2. mq' = [mq EXCEPT !["audio"] = R] /\ vid' = vid /\ dmx' = dmx
    BY <1>9 DEF DeviceWritable, mb_enq
  <2> HIDE DEF R
  <2>3. QED
    BY <1>2, <2>1, <2>2
<1>10. QED
  BY <1>4, <1>5, <1>6, <1>7, <1>8, <1>9 DEF Audio

\* The video thread after decode_locked has the packet in another place.
LEMMA DecodedMarks ==
  ASSUME NEW c, NEW v \in VideoRec, NEW mb \in Mb, NEW busy \in BOOLEAN, NEW n, v.pc # "exit",
         ~IsFlush(v.mb), VideoMarks(c, v, n), NoneDue(c, None) => Within(mb, n)
  PROVE  VideoMarks(c, Decoded(v, mb, busy), n)
<1> DEFINE w == Decoded(v, mb, busy)
<1>1. /\ w.mb = None /\ w.flushed = v.flushed
      /\ w.cur = (IF busy THEN mb ELSE None) /\ w.seen = (IF busy THEN v.seen ELSE mb)
  BY DecodedIs
<1> HIDE DEF w
<1>2. NoneDue(c, None) => NoneDue(c, v.mb)
  BY DEF NoneDue
<1>3. Within(None, n)
  BY DEF Within, IsData
<1>4. VideoMarks(c, w, n)
  BY <1>1, <1>2, <1>3 DEF VideoMarks
<1>5. QED
  BY <1>4 DEF w

\* The video thread takes and decodes packets as they are marked, and a flush discards the
\* ones it holds.
LEMMA VideoCtrlMarks ==
  ASSUME IInv, Marks, VideoCtrl
  PROVE  Marks'
<1> DEFINE V == mq["video"]
           e == mp.epoch
           R == CtrlTaken(V)
           h == Head(V.ctrl)
           n == dmx.marked["video"]
<1>1. e \in Nat /\ VideoSide(V, vid, e) /\ vid \in VideoRec
  BY EpochIs DEF IInv, VideoSide
<1>2. /\ vid.pc = "run" /\ V.ctrl # <<>> /\ vid' = [vid EXCEPT !.pc = "process", !.mb = h]
      /\ dmx' = WokenPlayer(dmx) /\ mq' = [mq EXCEPT !["video"] = R]
  BY DEF VideoCtrl
<1>3. R.data = V.data /\ ~IsData(h) /\ (NoneDue(R.ctrl, h) => NoneDue(V.ctrl, vid.mb))
  BY <1>1, <1>2, VideoTakesCtrl
<1> HIDE DEF R, h
<1>4. mq'["video"] = R /\ mq'["audio"] = mq["audio"]
  BY <1>2, OneQueue DEF Queues
<1>5. vid'.mb = h /\ vid'.cur = vid.cur /\ vid'.seen = vid.seen /\ vid'.flushed = vid.flushed
  BY <1>1, <1>2 DEF VideoRec
<1>6. /\ VideoMarks(V.ctrl, vid, n) /\ AllWithin(V.data, n)
      /\ AllWithin(mq["audio"].data, dmx.marked["audio"])
  BY DEF Marks
<1>7. Within(h, n)
  BY <1>3 DEF Within
<1>8. VideoMarks(R.ctrl, vid', n)
  BY <1>2, <1>3, <1>5, <1>6, <1>7 DEF VideoMarks
<1>9. Keeps(dmx, dmx')
  BY <1>2, PlayerKeeps
<1>10. QED
  BY <1>3, <1>4, <1>6, <1>8, <1>9, MarksKept

LEMMA VideoTakeMarks ==
  ASSUME IInv, Marks, NEW busy \in BOOLEAN, VideoTake(busy)
  PROVE  Marks'
<1> DEFINE V == mq["video"]
           e == mp.epoch
           R == DataTaken(V)
           h == Head(V.data)
           n == dmx.marked["video"]
<1>1. e \in Nat /\ VideoSide(V, vid, e) /\ vid \in VideoRec /\ V.data \in Seq(Mb)
  BY EpochIs DEF IInv, VideoSide, QueueOK
<1>2. /\ vid.pc = "run" /\ V.ctrl = <<>> /\ vid.cur = None /\ V.data # <<>>
      /\ dmx' = WokenPlayer(dmx) /\ mq' = [mq EXCEPT !["video"] = R]
  BY DEF VideoTake
<1>3. R.ctrl = <<>> /\ R.data = Tail(V.data) /\ h \in Mb /\ vid.mb = None
  BY <1>1, <1>2, VideoTakesData
<1>4. \/ vid' = Decoded(vid, h, busy)
      \/ \E p \in {"process", "switch"} : vid' = [vid EXCEPT !.pc = p, !.mb = h]
  <2>1. CASE h.pts \in Hardware /\ vid.codec = "hardware"
    BY <2>1 DEF VideoTake, DecodeLocked, Decoded
  <2>2. CASE ~(h.pts \in Hardware /\ vid.codec = "hardware")
    BY <2>2 DEF VideoTake
  <2>3. QED
    BY <2>1, <2>2
<1>5. /\ VideoMarks(V.ctrl, vid, n) /\ AllWithin(V.data, n)
      /\ AllWithin(mq["audio"].data, dmx.marked["audio"])
  BY DEF Marks
<1>6. Within(h, n) /\ AllWithin(R.data, n)
  BY <1>1, <1>2, <1>3, <1>5, WithinTail
<1> HIDE DEF R, h, n
<1>7. mq'["video"] = R /\ mq'["audio"] = mq["audio"]
  BY <1>2, OneQueue DEF Queues
<1>8. VideoMarks(R.ctrl, vid', n)
  <2>1. ~IsFlush(vid.mb) /\ VideoMarks(R.ctrl, vid, n)
    BY <1>2, <1>3, <1>5 DEF IsFlush
  <2>2. CASE vid' = Decoded(vid, h, busy)
    BY <1>1, <1>2, <1>3, <1>6, <2>1, <2>2, DecodedMarks
  <2>3. ASSUME NEW p \in {"process", "switch"}, vid' = [vid EXCEPT !.pc = p, !.mb = h]
        PROVE  VideoMarks(R.ctrl, vid', n)
    <3>1. vid'.mb = h /\ vid'.cur = vid.cur /\ vid'.seen = vid.seen /\ vid'.flushed = vid.flushed
      BY <1>1, <2>3 DEF VideoRec
    <3>2. NoneDue(R.ctrl, h) => NoneDue(R.ctrl, vid.mb)
      BY <2>1 DEF NoneDue
    <3>3. QED
      BY <1>2, <1>6, <2>1, <3>1, <3>2 DEF VideoMarks
  <2>4. QED
    BY <1>4, <2>2, <2>3
<1>9. Keeps(dmx, dmx')
  BY <1>2, PlayerKeeps
<1>10. QED
  BY <1>5, <1>6, <1>7, <1>8, <1>9, MarksKept DEF n

LEMMA VideoHandMarks ==
  ASSUME IInv, Marks, UNCHANGED <<mq, dmx>>, VideoMarks(mq["video"].ctrl, vid', dmx.marked["video"])
  PROVE  Marks'
  BY DEF Marks

LEMMA VideoRetryMarks ==
  ASSUME IInv, Marks, NEW busy \in BOOLEAN, VideoRetry(busy) \/ VideoSwitch(busy)
  PROVE  Marks'
<1> DEFINE c == mq["video"].ctrl
           n == dmx.marked["video"]
           u == [vid EXCEPT !.codec = "hardware"]
<1>1. VideoSide(mq["video"], vid, mp.epoch) /\ vid \in VideoRec
  BY DEF IInv, VideoSide
<1>2. VideoMarks(c, vid, n)
  BY DEF Marks
<1>3. u \in VideoRec /\ u.pc = vid.pc /\ u.mb = vid.mb /\ u.cur = vid.cur /\ u.seen = vid.seen
      /\ u.flushed = vid.flushed
  BY <1>1 DEF VideoRec
<1>4. UNCHANGED <<mq, dmx>>
  BY DEF VideoRetry, VideoSwitch
<1> HIDE DEF c, n, u
<1>5. ASSUME VideoRetry(busy)
      PROVE  VideoMarks(c, vid', n)
  <2>1. vid.pc = "run" /\ vid.cur # None /\ vid' = Decoded(vid, vid.cur, busy)
    BY <1>5 DEF VideoRetry, DecodeLocked, Decoded
  <2>2. vid.cur \in Mb /\ vid.mb = None
    BY <1>1, <2>1 DEF VideoSide, VideoRec
  <2>3. ~IsFlush(vid.mb) /\ (NoneDue(c, None) => Within(vid.cur, n))
    BY <1>2, <2>1, <2>2 DEF VideoMarks, IsFlush
  <2>4. QED
    BY <1>1, <1>2, <2>1, <2>2, <2>3, DecodedMarks
<1>6. ASSUME VideoSwitch(busy)
      PROVE  VideoMarks(c, vid', n)
  <2>1. vid.pc = "switch" /\ vid' = Decoded(u, vid.mb, busy)
    BY <1>6 DEF VideoSwitch, DecodeLocked, Decoded, u
  <2>2. vid.mb \in Mb /\ vid.mb.type = "DATA"
    BY <1>1, <2>1 DEF VideoSide, VideoRec
  <2>3. ~IsFlush(vid.mb)
    BY <2>2 DEF IsFlush
  <2>4. VideoMarks(c, u, n) /\ (NoneDue(c, None) => Within(vid.mb, n))
    BY <1>2, <1>3, <2>1, <2>3 DEF VideoMarks, NoneDue, IsFlush
  <2>5. QED
    BY <1>3, <2>1, <2>2, <2>3, <2>4, DecodedMarks
<1>7. QED
  BY <1>4, <1>5, <1>6, VideoHandMarks DEF c, n

LEMMA VideoDoneMarks ==
  ASSUME IInv, Marks, VideoDone
  PROVE  Marks'
<1> DEFINE c == mq["video"].ctrl
           n == dmx.marked["video"]
           mb == vid.mb
<1>1. VideoSide(mq["video"], vid, mp.epoch) /\ vid \in VideoRec /\ mp.epoch \in Nat
  BY EpochIs DEF IInv, VideoSide
<1>2. VideoMarks(c, vid, n)
  BY DEF Marks
<1>3. vid.pc = "process" /\ vid' = VideoAfter(mb) /\ UNCHANGED <<mq, dmx>>
  BY DEF VideoDone
<1>4. /\ vid'.mb = None /\ (vid'.pc = "exit" <=> mb.type = "EXIT")
      /\ mb.type = "DATA" => vid'.seen = mb /\ vid'.cur = None /\ vid'.flushed = vid.flushed
      /\ mb.type # "DATA" => vid'.seen = vid.seen
      /\ mb.type = "FLUSH" => /\ vid'.cur = None /\ vid'.flushed = mb.epoch
                              /\ IsData(vid.seen) => vid.seen.epoch < mb.epoch
      /\ mb.type \in {"PAUSE", "PLAY"} => vid'.cur = vid.cur /\ vid'.flushed = vid.flushed
      /\ mb \in Mb /\ mb # None /\ mb.type \in {"DATA", "PAUSE", "PLAY", "FLUSH", "EXIT"}
  BY <1>1, <1>3, VideoFinishes
<1>5. ~IsData(None) /\ Within(None, n)
  BY DEF IsData, Within
<1> HIDE DEF c, n
<1>6. CASE mb.type = "DATA"
  <2>1. NoneDue(c, None) => NoneDue(c, mb)
    BY <1>6 DEF NoneDue, IsFlush
  <2>2. VideoMarks(c, vid', n)
    BY <1>2, <1>3, <1>4, <1>5, <1>6, <2>1 DEF VideoMarks
  <2>3. QED
    BY <1>3, <2>2, VideoHandMarks DEF c, n
<1>7. CASE mb.type = "FLUSH"
  <2>1. ~(IsData(vid'.seen) /\ vid'.flushed <= vid'.seen.epoch)
    <3> SUFFICES ASSUME IsData(vid.seen)
                 PROVE  ~(mb.epoch <= vid.seen.epoch)
      BY <1>4, <1>7
    <3>1. vid.seen.epoch \in Nat /\ mb.epoch \in Nat
      BY <1>1, <1>4, MbFields DEF VideoRec, IsData
    <3>2. QED
      BY <1>4, <1>7, <3>1
  <2>2. VideoMarks(c, vid', n)
    BY <1>4, <1>5, <1>7, <2>1 DEF VideoMarks
  <2>3. QED
    BY <1>3, <2>2, VideoHandMarks DEF c, n
<1>8. CASE mb.type \in {"PAUSE", "PLAY"}
  <2>1. NoneDue(c, None) => NoneDue(c, mb)
    BY <1>8 DEF NoneDue, IsFlush
  <2>2. VideoMarks(c, vid', n)
    BY <1>2, <1>3, <1>4, <1>5, <1>8, <2>1 DEF VideoMarks
  <2>3. QED
    BY <1>3, <2>2, VideoHandMarks DEF c, n
<1>9. CASE mb.type = "EXIT"
  <2>1. VideoMarks(c, vid', n)
    BY <1>4, <1>9 DEF VideoMarks
  <2>2. QED
    BY <1>3, <2>1, VideoHandMarks DEF c, n
<1>10. QED
  BY <1>4, <1>6, <1>7, <1>8, <1>9

\* What a seek in the queues leaves of a queue: the old marks, and new ones before the
\* place sought.
LEMMA SoughtMarks ==
  ASSUME NEW Q, NEW e \in Nat, QueueOK(Q, e), NEW n \in 1 .. Len(Q.data), NEW m \in Nat,
         NEW o \in Nat, NEW g \in Nat, o <= g, AllWithin(Q.data, o),
         \A i \in 1 .. Len(Q.data) : n <= i /\ i < m => Q.data[i].pts < g
  PROVE  AllWithin(DropBefore(Q, n, m, e + 1).data, g)
<1> DEFINE d == DropBefore(Q, n, m, e + 1).data
           s == Q.data
<1>1. /\ \A i \in 1 .. Len(d) : i + n - 1 \in 1 .. Len(s) /\ d[i].pts = s[i + n - 1].pts
      /\ s \in Seq(Mb) /\ \A i \in 1 .. Len(s) : s[i].type = "DATA"
  <2>1. \A i \in 1 .. Len(d) : i + n - 1 \in 1 .. Len(s) /\ d[i].pts = s[i + n - 1].pts
    BY DroppedQueue
  <2>2. s \in Seq(Mb) /\ \A i \in 1 .. Len(s) : s[i].type = "DATA"
    BY DEF QueueOK
  <2>3. QED
    BY <2>1, <2>2
<1>2. \A i \in 1 .. Len(d) : d[i].skip => s[i + n - 1].skip \/ i + n - 1 < m
  BY DroppedMarks
<1> HIDE DEF d, s
<1>3. SUFFICES ASSUME NEW i \in 1 .. Len(d), d[i].skip
               PROVE  d[i].pts < g
  BY DEF AllWithin, Within, d
<1> DEFINE k == i + n - 1
<1>4. k \in 1 .. Len(s) /\ d[i].pts = s[k].pts /\ (s[k].skip \/ k < m)
  BY <1>1, <1>2, <1>3
<1>5. n <= k
  BY <1>3, <1>4 DEF s
<1> HIDE DEF k
<1>6. s[k] \in Mb /\ s[k].type = "DATA" /\ IsData(s[k]) /\ s[k].pts \in Nat
  BY <1>1, <1>4, MbFields, MediaConstants DEF IsData
<1>7. CASE s[k].skip
  <2>1. s[k].pts < o
    BY <1>4, <1>6, <1>7 DEF AllWithin, Within, s
  <2>2. QED
    BY <1>4, <1>6, <2>1
<1>8. CASE k < m
  BY <1>4, <1>5, <1>8 DEF s
<1>9. QED
  BY <1>4, <1>7, <1>8

\* A seek in the queues marks video up to the place sought and no audio.
LEMMA SeekInQueuesMarks ==
  ASSUME IInv, Marks, NEW t \in Pts, SeekableInQueues(t), mp_seek_in_queues(t, mp.epoch + 1),
         vid' = Woken(vid), dmx' = [dmx EXCEPT !.marked["video"] = Max({@, t})]
  PROVE  Marks'
<1> DEFINE A == mq["audio"]
           V == mq["video"]
           e == mp.epoch
           i == KeptFrom("audio", t)
           j == KeptFrom("video", t)
           fa == Min(FirstAt(A.data, t))
           fv == Min(FirstAt(V.data, t))
           DA == DropBefore(A, i, fa, e + 1)
           DV == DropBefore(V, j, fv, e + 1)
           RA == Queued(DA, Ctrl("FLUSH"), e + 1)
           RV == Queued(DV, Ctrl("FLUSH"), e + 1)
           oa == dmx.marked["audio"]
           ov == dmx.marked["video"]
           g == Max({ov, t})
           mk == [dmx.marked EXCEPT !["video"] = g]
<1>1. e \in Nat /\ AudioSide(A, aud, e, devblk) /\ VideoSide(V, vid, e) /\ QueueOK(A, e) /\ QueueOK(V, e)
  BY EpochIs DEF IInv, AudioSide, VideoSide
<1>2. /\ i \in 1 .. Len(A.data) /\ j \in 1 .. Len(V.data) /\ fa \in Nat /\ fv \in Nat
      /\ \A k \in 1 .. Len(V.data) : k < fv => V.data[k].pts < t
  BY KeptFromIs DEF Queues
<1>3. i = fa
  BY DEF KeptFrom
<1>4. mq'["audio"] = RA /\ mq'["video"] = RV
  BY DEF mp_seek_in_queues, Queues
<1>5. dmx \in PlayerRec /\ dmx.marked \in [Queues -> 0 .. LastPts] /\ oa \in Nat /\ ov \in Nat /\ t \in Nat
  BY Sizes DEF IInv, PlayerOK, PlayerRec, Queues, Pts
<1>6. g \in Nat /\ ov <= g /\ t <= g
  <2> HIDE DEF ov
  <2>1. QED
    BY <1>5, MaxOfTwo
<1>7. dmx' = [dmx EXCEPT !.marked = mk]
  OBVIOUS
<1> HIDE DEF i, j, fa, fv, g
<1>8. mk["video"] = g /\ mk["audio"] = oa /\ \A q \in Queues : mk[q] = IF q = "video" THEN g ELSE dmx.marked[q]
  BY <1>5 DEF Queues
<1> HIDE DEF mk
<1>9. dmx'.marked = mk /\ dmx'.mb = dmx.mb /\ dmx'.q = dmx.q /\ dmx'.target = dmx.target
  BY <1>5, <1>7 DEF PlayerRec
<1>10. AllWithin(A.data, oa) /\ AllWithin(V.data, ov) /\ PlayerMarks(dmx)
  BY DEF Marks
<1>11. RA.data = DA.data /\ RV.data = DV.data /\ ~NoneDue(RV.ctrl, vid.mb)
  <2>1. RA.data = DA.data
    <3>1. e \in Nat /\ AudioSide(A, aud, e, devblk) /\ i \in 1 .. Len(A.data) /\ fa \in Nat
      BY <1>1, <1>2
    <3> HIDE DEF A, e
    <3>2. QED
      BY <3>1, AudioSought
  <2>2. QED
    BY <1>1, <1>2, <2>1, VideoSought
<1>12. AllWithin(DA.data, oa)
  <2>1. \A k \in 1 .. Len(A.data) : i <= k /\ k < fa => A.data[k].pts < oa
    BY <1>2, <1>3
  <2>2. e \in Nat /\ QueueOK(A, e) /\ i \in 1 .. Len(A.data) /\ fa \in Nat /\ oa \in Nat /\ oa <= oa /\ AllWithin(A.data, oa)
    BY <1>1, <1>2, <1>5, <1>10
  <2> HIDE DEF A, e, oa
  <2>3. QED
    BY <2>1, <2>2, SoughtMarks
<1>13. AllWithin(DV.data, g)
  <2>1. \A k \in 1 .. Len(V.data) : j <= k /\ k < fv => V.data[k].pts < g
    <3> SUFFICES ASSUME NEW k \in 1 .. Len(V.data), k < fv
                 PROVE  V.data[k].pts < g
      OBVIOUS
    <3>1. V.data[k].pts < t /\ V.data[k].pts \in Nat
      <4>1. V.data[k] \in Mb
        BY <1>1 DEF QueueOK
      <4>2. QED
        BY <1>2, <4>1, MbFields, MediaConstants
    <3>2. QED
      BY <1>5, <1>6, <3>1
  <2>2. e \in Nat /\ QueueOK(V, e) /\ j \in 1 .. Len(V.data) /\ fv \in Nat /\ ov \in Nat /\ AllWithin(V.data, ov)
    BY <1>1, <1>2, <1>5, <1>10
  <2> HIDE DEF V, e, ov
  <2>3. QED
    BY <1>6, <2>1, <2>2, SoughtMarks
<1> HIDE DEF RA, RV, DA, DV
<1>14. vid'.mb = vid.mb
  BY <1>1, VideoWoken
<1>15. VideoMarks(RV.ctrl, vid', g)
  BY <1>11, <1>14 DEF VideoMarks
<1>16. PlayerMarks(dmx')
  <2>1. \A q \in Queues : dmx.marked[q] \in Nat /\ mk[q] \in Nat /\ dmx.marked[q] <= mk[q]
    <3>1. \A q \in Queues : dmx.marked[q] \in 0 .. LastPts
      BY <1>5
    <3>2. \A q \in Queues : dmx.marked[q] \in Nat
      BY <3>1, Sizes
    <3>3. QED
      BY <1>6, <1>8, <3>2
  <2>2. \A q \in Queues : dmx.target[q] \in Nat /\ dmx.target[q] <= dmx.marked[q]
    <3>1. \A q \in Queues : dmx.target[q] \in 0 .. LastPts
      BY <1>5 DEF PlayerRec
    <3>2. QED
      BY <1>10, <3>1, Sizes DEF PlayerMarks
  <2>3. \A q \in Queues : dmx.target[q] <= mk[q]
    BY <2>1, <2>2
  <2>4. Within(dmx.mb, mk[dmx.q])
    <3> SUFFICES ASSUME IsData(dmx.mb), dmx.mb.skip
                 PROVE  dmx.mb.pts < mk[dmx.q]
      BY DEF Within
    <3>1. dmx.q \in Queues /\ dmx.mb \in Mb
      BY <1>5 DEF PlayerRec, IsData
    <3>2. dmx.mb.pts \in Nat
      BY <3>1, MbFields, MediaConstants
    <3>3. dmx.mb.pts < dmx.marked[dmx.q]
      BY <1>10 DEF PlayerMarks, Within
    <3>4. QED
      BY <2>1, <3>1, <3>2, <3>3
  <2>5. QED
    BY <1>9, <2>3, <2>4 DEF PlayerMarks
<1>17. QED
  BY <1>4, <1>8, <1>9, <1>11, <1>12, <1>13, <1>15, <1>16 DEF Marks

\* The steps of the user.
LEMMA UserMarks ==
  ASSUME IInv, Marks, User
  PROVE  Marks'
<1>1. ASSUME NEW t \in Pts, UiSeek(t)
      PROVE  Marks'
  <2>1. CASE /\ SeekableInQueues(t)
             /\ mp_seek_in_queues(t, mp.epoch + 1)
             /\ dmx' = [dmx EXCEPT !.marked["video"] = Max({@, t})]
             /\ aud' = Woken(aud) /\ vid' = Woken(vid)
    BY <2>1, SeekInQueuesMarks
  <2>2. CASE (dmx' = dmx \/ dmx' = WokenPlayer(dmx)) /\ UNCHANGED <<mq, hungry, aud, vid>>
    BY <2>2, PlayerKeeps, StillMarks
  <2>3. QED
    BY <1>1, <2>1, <2>2 DEF UiSeek
<1>2. CASE UiHold
  <2> DEFINE cmd == IF mp.gate THEN "PLAY" ELSE "PAUSE"
             RA == Queued(mq["audio"], Ctrl(cmd), mp.epoch)
             RV == Queued(mq["video"], Ctrl(cmd), mp.epoch)
  <2>1. /\ mq'["audio"] = RA /\ mq'["video"] = RV
        /\ vid' = Woken(vid) /\ dmx' = WokenPlayer(dmx)
    BY <1>2 DEF UiHold, Queues
  <2>2. cmd \in {"PAUSE", "PLAY", "EXIT", "UNBLOCK"} /\ "audio" \in Queues /\ "video" \in Queues
    BY DEF Queues
  <2> HIDE DEF cmd
  <2>3. AllWithin(RA.data, dmx.marked["audio"])
    BY <2>2, CommandMarks
  <2>4. /\ AllWithin(RV.data, dmx.marked["video"])
        /\ NoneDue(RV.ctrl, vid.mb) => NoneDue(mq["video"].ctrl, vid.mb)
    BY <2>2, CommandMarks
  <2> HIDE DEF RA, RV
  <2>5. VideoMarks(RV.ctrl, vid', dmx.marked["video"])
    BY <2>1, <2>4, VideoMarksSame
  <2>6. Keeps(dmx, dmx')
    BY <2>1, PlayerKeeps
  <2>7. QED
    BY <2>1, <2>3, <2>4, <2>5, <2>6, MarksKept
<1>3. CASE UiStopVideo
  <2> DEFINE RV == Queued(mq["video"], Ctrl("EXIT"), mp.epoch)
  <2>1. mq' = [mq EXCEPT !["video"] = RV] /\ vid' = Woken(vid) /\ dmx' = dmx
    BY <1>3 DEF UiStopVideo, mb_enq
  <2>2. /\ AllWithin(RV.data, dmx.marked["video"])
        /\ NoneDue(RV.ctrl, vid.mb) => NoneDue(mq["video"].ctrl, vid.mb)
    BY CommandMarks DEF Queues
  <2> HIDE DEF RV
  <2>3. mq'["video"] = RV /\ mq'["audio"] = mq["audio"]
    BY <2>1, OneQueue DEF Queues
  <2>4. VideoMarks(RV.ctrl, vid', dmx.marked["video"])
    BY <2>1, <2>2, VideoMarksSame
  <2>5. Keeps(dmx, dmx') /\ AllWithin(mq["audio"].data, dmx.marked["audio"])
    BY <2>1, PlayerKeeps DEF Marks
  <2>6. QED
    BY <2>2, <2>3, <2>4, <2>5, MarksKept
<1>4. CASE UiClose \/ UiJoin
  <2>1. (dmx' = dmx \/ dmx' = WokenPlayer(dmx)) /\ UNCHANGED <<mq, vid>>
    BY <1>4 DEF UiClose, UiJoin
  <2>2. QED
    BY <2>1, PlayerKeeps, StillMarks
<1>5. QED
  BY <1>1, <1>2, <1>3, <1>4 DEF User

\* Nothing is marked in a pipe that was just made.
LEMMA InitMarks == Init => Marks
<1> SUFFICES ASSUME Init
             PROVE  Marks
  OBVIOUS
<1>1. /\ mq["audio"].data = <<>> /\ mq["video"].data = <<>>
      /\ vid.mb = None /\ vid.cur = None /\ vid.seen = None
      /\ dmx.mb = None /\ \A q \in Queues : dmx.target[q] = 0 /\ dmx.marked[q] = 0
  BY DEF Init, Queues
<1>2. (\A n : AllWithin(<<>>, n)) /\ (\A n : Within(None, n)) /\ ~IsData(None)
  BY DEF AllWithin, Within, IsData
<1>3. VideoMarks(mq["video"].ctrl, vid, dmx.marked["video"])
  BY <1>1, <1>2 DEF VideoMarks
<1>4. PlayerMarks(dmx)
  BY <1>1, <1>2 DEF PlayerMarks
<1>5. QED
  BY <1>1, <1>2, <1>3, <1>4 DEF Marks

\* Every step of every thread, of the sound server, the codec and the user.
LEMMA NextMarks == IInv /\ Marks /\ [Next]_vars => Marks'
<1> SUFFICES ASSUME IInv, Marks, [Next]_vars
             PROVE  Marks'
  OBVIOUS
<1>1. CASE Player
  BY <1>1, FetchMarks, PlayerElseMarks, SendMarks, EventMarks, EndMarks DEF Player
<1>2. CASE Audio \/ DeviceWritable
  BY <1>2, AudioMarks
<1>3. CASE VideoWait \/ CodecReady
  <2>1. /\ UNCHANGED <<mq, dmx>>
        /\ vid' = Woken(vid) \/ (vid.pc # "exit" /\ vid' = [vid EXCEPT !.pc = "wait"])
    BY <1>3 DEF VideoWait, CodecReady
  <2>2. QED
    BY <2>1, PlayerKeeps, StillMarks
<1>4. CASE Video
  BY <1>3, <1>4, VideoCtrlMarks, VideoTakeMarks, VideoRetryMarks, VideoDoneMarks DEF Video
<1>5. CASE User
  BY <1>5, UserMarks
<1>6. CASE UNCHANGED vars
  <2>1. UNCHANGED <<mq, dmx, vid>>
    BY <1>6 DEF vars
  <2>2. QED
    BY <2>1 DEF Marks
<1>7. QED
  BY <1>1, <1>2, <1>3, <1>4, <1>5, <1>6 DEF Next

\* The packets on their way to a thread are within the marks.
LEMMA LineMarks ==
  ASSUME IInv, Marks, NEW q \in Queues, Thread(q).pc # "exit", NEW i \in Waiting(q), Line(q)[i].skip
  PROVE  Line(q)[i].pts < dmx.marked[q]
<1>1. CASE q = "audio"
  <2> DEFINE s == mq["audio"].data
  <2>1. QueueOK(mq["audio"], mp.epoch) /\ s \in Seq(Mb) /\ AllWithin(s, dmx.marked["audio"])
    BY DEF IInv, AudioSide, QueueOK, Marks
  <2>2. Line(q) = s
    BY <1>1 DEF Line
  <2>3. i \in 1 .. Len(s)
    <3>1. i \in DOMAIN s
      BY <1>1, <2>2 DEF Waiting
    <3>2. QED
      BY <2>1, <3>1
  <2>4. IsData(s[i])
    <3>1. s[i] \in Mb /\ s[i].type = "DATA"
      BY <2>1, <2>3 DEF QueueOK
    <3>2. QED
      BY <3>1, MbFields DEF IsData
  <2> HIDE DEF s
  <2>5. QED
    BY <1>1, <2>1, <2>2, <2>3, <2>4 DEF AllWithin, Within
<1>2. CASE q = "video"
  <2> DEFINE L == Line("video")
             s == mq["video"].data
             c == mq["video"].ctrl
             W == Waiting("video")
             F == Frontier("video")
             n == dmx.marked["video"]
             x == L[i]
  <2>1. /\ Len(s) \in Nat
        /\ L[1] = vid.seen /\ L[2] = vid.cur /\ L[3] = vid.mb
        /\ \A m \in 1 .. Len(s) : L[m + 3] = s[m]
        /\ \A k : k \in W <=> k \in 1 .. Len(s) + 3 /\ IsData(L[k]) /\ F <= L[k].epoch
    BY VideoLine
  <2>2. VideoSide(mq["video"], vid, mp.epoch) /\ vid \in VideoRec /\ Thread("video") = vid /\ vid.pc # "exit"
    BY <1>2 DEF IInv, VideoSide, Thread
  <2>3. AllWithin(s, n) /\ VideoMarks(c, vid, n)
    BY DEF Marks
  <2>4. i \in W /\ x.skip
    BY <1>2
  <2> HIDE DEF L, s, c, W, F, n
  <2>5. i \in 1 .. Len(s) + 3 /\ IsData(x) /\ F <= x.epoch
    BY <2>1, <2>4
  <2>6. Within(x, n)
    <3>1. CASE i > 3
      <4> DEFINE m == i - 3
      <4>1. m \in 1 .. Len(s) /\ m + 3 = i
        BY <2>1, <2>5, <3>1
      <4> HIDE DEF m
      <4>2. x = s[m]
        BY <2>1, <4>1
      <4>3. QED
        BY <2>3, <4>1, <4>2 DEF AllWithin
    <3>2. CASE ~(i > 3)
      <4>1. i \in {1, 2, 3}
        BY <2>1, <2>5, <3>2
      <4>2. x \in {vid.seen, vid.cur, vid.mb}
        BY <2>1, <4>1
      <4>3. x \in Mb
        BY <2>2, <2>5, <4>2 DEF VideoRec, IsData
      <4> HIDE DEF x
      <4>4. Before(x, c, vid.mb)
        BY <2>2, <2>5, <4>2 DEF VideoSide, c
      <4>5. NoneDue(c, vid.mb) /\ F = vid.flushed
        BY <2>2, <2>5, <4>3, <4>4, FrontierAbove DEF c, F, Queues
      <4>6. QED
        BY <2>2, <2>3, <2>5, <4>2, <4>5 DEF VideoMarks
    <3>3. QED
      BY <3>1, <3>2
  <2>7. x.pts < n
    BY <2>4, <2>5, <2>6 DEF Within
  <2>8. QED
    BY <1>2, <2>7 DEF L, n
<1>3. QED
  BY <1>1, <1>2 DEF Queues

\* Seeks by the player and in the queues, partial decoding and decoders without room: the
\* packets that a thread is still to handle are consecutive, up to the player's next, and
\* those of them with mb_skip lie before the place the file was last repositioned to or,
\* for video, the furthest place sought in the queues since.
THEOREM StreamHolds == Spec => []StreamContinuous
<1>1. IInv /\ Marks => StreamContinuous
  <2> SUFFICES ASSUME IInv, Marks, Playing, NEW q \in Queues, Thread(q).pc # "exit", NEW i \in Waiting(q)
               PROVE  /\ Follower(q, i) = Line(q)[i].pts + 1
                      /\ Line(q)[i].skip => Line(q)[i].pts < dmx.marked[q]
    BY DEF StreamContinuous
  <2>1. Active(dmx)
    BY DEF Playing, Active
  <2>2. Follower(q, i) = Line(q)[i].pts + 1
    <3>1. CASE q = "audio"
      BY <2>1, <3>1, AudioFollows DEF Thread
    <3>2. CASE q = "video"
      BY <2>1, <3>2, VideoFollows DEF Thread
    <3>3. QED
      BY <3>1, <3>2 DEF Queues
  <2>3. QED
    BY <2>2, LineMarks
<1>2. QED
  BY <1>1, MediaInductive, InitMarks, NextMarks, PTL DEF Spec
=============================================================================
