-------------------------- MODULE TrackerUdpProofs --------------------------
(***************************************************************************)
(* Proofs about TrackerUdp, for any number of torrents, any bound on the    *)
(* packets under way that leaves room for one announcement per torrent, and *)
(* any number of attempts.                                                  *)
(***************************************************************************)
EXTENDS TrackerUdp, FiniteSetTheorems, TLAPS

\* Packets that set up the connection are addressed to it, the others to a torrent.
Addressed ==
    \A m \in net : m.x = Conn <=> m.kind \in {"connect", "connected"}

\* A tracker_torrent_t on the tentative list has its torrent: tracker_remove_torrent
\* announces the end, which takes it off that list.
TentativeIsLive == \A x \in TTs : tt[x].tentative => tt[x].live

\* Nothing under way that carries the current id of a torrent that is gone is about
\* anything but its stop request, on the way there or back.
FreshIsStop ==
    \A m \in net : m.fresh /\ m.x # Conn /\ ~tt[m.x].live => m.event = 3

IInv ==
    /\ TypeOK
    /\ IsFiniteSet(net)
    /\ NoSilence
    /\ Addressed
    /\ TentativeIsLive
    /\ FreshIsStop

\* The invariant says what the run checks.
LEMMA InvGivesTrackerInv == IInv => TrackerInv
  BY DEF IInv, TrackerInv, StoppedStaysStopped, FreshIsStop, Addressed

\* No tracker, no torrents, no packets.
LEMMA InitInv == Init => IInv
<1> SUFFICES ASSUME Init PROVE IInv
    OBVIOUS
<1>1. IsFiniteSet({}) /\ Cardinality({}) = 0
  BY FS_EmptySet
<1>2. FreeTT \in TTRec
  BY TrackerConstants DEF FreeTT, TTRec
<1>3. TypeOK
  <2>1. Cardinality(net) <= MaxNet /\ net \subseteq Packet
    BY <1>1, TrackerConstants DEF Init
  <2>2. QED
    BY <1>2, <2>1 DEF Init, TypeOK, States
<1>4. QED
  BY <1>1, <1>3 DEF Init, IInv, NoSilence, Addressed, TentativeIsLive, FreshIsStop, FreeTT

-----------------------------------------------------------------------------
(* Packets.                                                                 *)

\* What a new transaction id leaves under way: as many packets or fewer, each the
\* same as before but for its age.
LEMMA AgedNet ==
  ASSUME NEW n \in SUBSET Packet, IsFiniteSet(n), Cardinality(n) <= MaxNet,
         NEW xs \in SUBSET (TTs \cup {Conn})
  PROVE  /\ Aged(n, xs) \in SUBSET Packet
         /\ IsFiniteSet(Aged(n, xs))
         /\ Cardinality(Aged(n, xs)) <= MaxNet
         /\ \A m \in Aged(n, xs) : \E o \in n :
              /\ m.kind = o.kind /\ m.x = o.x /\ m.event = o.event
              /\ m.fresh <=> (o.fresh /\ o.x \notin xs)
<1> DEFINE old(m) == [m EXCEPT !.fresh = m.fresh /\ m.x \notin xs]
           f == [m \in n |-> old(m)]
<1>1. \A m \in n : /\ old(m) \in Packet
                   /\ old(m).kind = m.kind /\ old(m).x = m.x /\ old(m).event = m.event
                   /\ old(m).fresh <=> (m.fresh /\ m.x \notin xs)
  BY DEF Packet
<1>2. f \in Surjection(n, Aged(n, xs))
  BY DEF Surjection, Aged
<1>3. IsFiniteSet(Aged(n, xs)) /\ Cardinality(Aged(n, xs)) <= Cardinality(n)
  BY <1>2, FS_Surjection
<1>4. Cardinality(Aged(n, xs)) \in Nat /\ Cardinality(n) \in Nat /\ MaxNet \in Nat
  BY <1>3, FS_CardinalityType, TrackerConstants
<1>5. Cardinality(Aged(n, xs)) <= MaxNet
  BY <1>3, <1>4
<1>6. \A m \in Aged(n, xs) : \E o \in n : m = old(o)
  BY DEF Aged
<1> HIDE DEF old
<1>7. QED
  BY <1>1, <1>3, <1>5, <1>6

\* What is sent: no more than one packet for each torrent.
LEMMA Sent ==
  ASSUME NEW xs \in SUBSET TTs, NEW event \in {2, 3}
  PROVE  LET more == {Request("announce", x, event) : x \in xs}
         IN  /\ more \in SUBSET Packet
             /\ IsFiniteSet(more) /\ Cardinality(more) <= MaxNet
             /\ \A m \in more : m.kind = "announce" /\ m.x \in xs /\ m.event = event
<1> DEFINE more == {Request("announce", x, event) : x \in xs}
           f == [x \in xs |-> Request("announce", x, event)]
<1>1. f \in Surjection(xs, more)
  BY DEF Surjection
<1>2. IsFiniteSet(xs) /\ Cardinality(xs) <= Cardinality(TTs)
  BY FS_Subset, TrackerConstants
<1>3. IsFiniteSet(more) /\ Cardinality(more) <= Cardinality(xs)
  BY <1>1, <1>2, FS_Surjection
<1>4. /\ Cardinality(more) \in Nat /\ Cardinality(xs) \in Nat
      /\ Cardinality(TTs) \in Nat /\ MaxNet \in Nat /\ Cardinality(TTs) <= MaxNet
  BY <1>2, <1>3, FS_CardinalityType, TrackerConstants
<1>5. Cardinality(more) <= MaxNet
  BY <1>2, <1>3, <1>4
<1>6. \A x \in xs : LET m == Request("announce", x, event)
                    IN  /\ m \in Packet
                        /\ m.kind = "announce" /\ m.x = x /\ m.event = event
  BY DEF Request, Packet
<1>7. QED
  BY <1>3, <1>5, <1>6

\* The bound on the packets is kept, at the cost of old ones.
LEMMA PutNet ==
  ASSUME NEW n \in SUBSET Packet, IsFiniteSet(n),
         NEW more \in SUBSET Packet, IsFiniteSet(more), Cardinality(more) <= MaxNet
  PROVE  /\ Put(n, more) \in SUBSET Packet
         /\ IsFiniteSet(Put(n, more))
         /\ Cardinality(Put(n, more)) <= MaxNet
         /\ Put(n, more) \subseteq n \cup more
<1>1. IsFiniteSet(n \cup more)
  BY FS_Union
<1>2. QED
  BY <1>1 DEF Put

\* The part of the invariant that is about the packets alone.
NetOK(n) ==
    /\ n \in SUBSET Packet /\ IsFiniteSet(n) /\ Cardinality(n) <= MaxNet
    /\ \A m \in n : m.x = Conn <=> m.kind \in {"connect", "connected"}

\* Packets of `n' that are fresh were fresh in net, but for those of xs, which say
\* what has just been sent.
FreshFrom(n, xs, event) ==
    \A m \in n : m.fresh /\ m.x # Conn =>
        \/ m.x \in xs /\ m.event = event
        \/ m.x \notin xs /\ \E o \in net : o.fresh /\ o.x = m.x /\ o.event = m.event

\* tracker_udp_torrent_announce.
LEMMA AnnouncesNet ==
  ASSUME IInv, NEW xs \in SUBSET TTs, NEW event \in {2, 3}
  PROVE  NetOK(Announces(xs, event)) /\ FreshFrom(Announces(xs, event), xs, event)
<1> DEFINE n == Aged(net, xs)
           more == {Request("announce", x, event) : x \in xs}
<1>1. /\ n \in SUBSET Packet /\ IsFiniteSet(n)
      /\ \A m \in n : \E o \in net :
           /\ m.kind = o.kind /\ m.x = o.x /\ m.event = o.event
           /\ m.fresh <=> (o.fresh /\ o.x \notin xs)
  BY AgedNet DEF IInv, TypeOK
<1>2. /\ more \in SUBSET Packet /\ IsFiniteSet(more) /\ Cardinality(more) <= MaxNet
      /\ \A m \in more : m.kind = "announce" /\ m.x \in xs /\ m.event = event
  BY Sent
<1>3. Announces(xs, event) = Put(n, more)
  BY DEF Announces
<1> HIDE DEF n, more
<1>4. /\ Put(n, more) \in SUBSET Packet /\ IsFiniteSet(Put(n, more))
      /\ Cardinality(Put(n, more)) <= MaxNet /\ Put(n, more) \subseteq n \cup more
  BY <1>1, <1>2, PutNet
<1>5. \A m \in n \cup more : m.x = Conn <=> m.kind \in {"connect", "connected"}
  BY <1>1, <1>2, TrackerConstants DEF IInv, Addressed
<1>6. \A m \in n \cup more : m.fresh /\ m.x # Conn =>
        \/ m.x \in xs /\ m.event = event
        \/ m.x \notin xs /\ \E o \in net : o.fresh /\ o.x = m.x /\ o.event = m.event
  BY <1>1, <1>2
<1>7. QED
  BY <1>3, <1>4, <1>5, <1>6 DEF NetOK, FreshFrom

\* tracker_udp_send_connect.
LEMMA SendConnectNet ==
  ASSUME IInv, SendConnect
  PROVE  NetOK(net') /\ FreshFrom(net', {}, 2)
<1> DEFINE n == Aged(net, {Conn})
           m0 == Request("connect", Conn, 2)
<1>1. /\ n \in SUBSET Packet /\ IsFiniteSet(n)
      /\ \A m \in n : \E o \in net :
           /\ m.kind = o.kind /\ m.x = o.x /\ m.event = o.event
           /\ m.fresh <=> (o.fresh /\ o.x \notin {Conn})
  BY AgedNet DEF IInv, TypeOK
<1>2. m0 \in Packet /\ m0.x = Conn /\ m0.kind = "connect"
  BY DEF Packet, Request
<1>3. net' = Put(n, {m0})
  BY DEF SendConnect
<1> HIDE DEF n, m0
<1>4. {m0} \in SUBSET Packet /\ IsFiniteSet({m0}) /\ Cardinality({m0}) <= MaxNet
  <2>1. IsFiniteSet({m0}) /\ Cardinality({m0}) = 1
    BY FS_Singleton
  <2>2. QED
    BY <1>2, <2>1, TrackerConstants
<1>5. /\ net' \in SUBSET Packet /\ IsFiniteSet(net')
      /\ Cardinality(net') <= MaxNet /\ net' \subseteq n \cup {m0}
  <2>1. /\ Put(n, {m0}) \in SUBSET Packet /\ IsFiniteSet(Put(n, {m0}))
        /\ Cardinality(Put(n, {m0})) <= MaxNet /\ Put(n, {m0}) \subseteq n \cup {m0}
    BY <1>1, <1>4, PutNet
  <2>2. QED
    BY <1>3, <2>1
<1>6. \A m \in n \cup {m0} : m.x = Conn <=> m.kind \in {"connect", "connected"}
  BY <1>1, <1>2 DEF IInv, Addressed
<1>7. \A m \in n \cup {m0} : m.fresh /\ m.x # Conn =>
        \E o \in net : o.fresh /\ o.x = m.x /\ o.event = m.event
  BY <1>1, <1>2
<1>8. QED
  BY <1>5, <1>6, <1>7 DEF NetOK, FreshFrom

-----------------------------------------------------------------------------
(* Torrents.                                                                *)

\* An announcement takes a torrent off the tentative list and arms its timer.
LEMMA AnnouncedTT ==
  ASSUME tt \in [TTs -> TTRec], NEW xs \in SUBSET TTs
  PROVE  /\ Announced(xs) \in [TTs -> TTRec]
         /\ \A x \in xs :
              /\ Announced(xs)[x].here = tt[x].here /\ Announced(xs)[x].live = tt[x].live
              /\ ~Announced(xs)[x].tentative /\ Announced(xs)[x].timer
         /\ \A x \in TTs \ xs : Announced(xs)[x] = tt[x]
<1>1. \A x \in TTs : LET y == [tt[x] EXCEPT !.tentative = FALSE, !.timer = TRUE]
                    IN  /\ y \in TTRec /\ y.here = tt[x].here /\ y.live = tt[x].live
                        /\ ~y.tentative /\ y.timer
  BY DEF TTRec
<1>2. QED
  BY <1>1 DEF Announced

\* Announcements to a connected tracker keep the invariant.
LEMMA AnnouncesStep ==
  ASSUME IInv, NEW xs \in SUBSET TTs, \A x \in xs : tt[x].live,
         net' = Announces(xs, 2), tt' = Announced(xs), UNCHANGED reg,
         st' = "connected", timer' \in BOOLEAN, signal' \in BOOLEAN,
         \A x \in TTs \ xs : tt[x].here /\ tt[x].live =>
             tt[x].timer \/ (tt[x].tentative /\ signal')
  PROVE  IInv'
<1>1. NetOK(net') /\ FreshFrom(net', xs, 2)
  BY AnnouncesNet
<1>2. /\ tt' \in [TTs -> TTRec]
      /\ \A x \in xs : /\ tt'[x].here = tt[x].here /\ tt'[x].live = tt[x].live
                       /\ ~tt'[x].tentative /\ tt'[x].timer
      /\ \A x \in TTs \ xs : tt'[x] = tt[x]
  BY AnnouncedTT DEF IInv, TypeOK
<1>3. NoSilence'
  BY <1>2 DEF IInv, NoSilence
<1>4. TentativeIsLive'
  BY <1>2 DEF IInv, TentativeIsLive
<1>5. FreshIsStop'
  <2> SUFFICES ASSUME NEW m \in net', m.fresh, m.x # Conn, ~tt'[m.x].live
               PROVE  m.event = 3
      BY DEF FreshIsStop
  <2>1. m.x \in TTs
    BY <1>1 DEF NetOK, Packet
  <2>2. m.x \notin xs
    BY <1>2, <2>1
  <2>3. PICK o \in net : o.fresh /\ o.x = m.x /\ o.event = m.event
    BY <1>1, <2>2 DEF FreshFrom
  <2>4. QED
    BY <1>2, <2>1, <2>2, <2>3 DEF IInv, FreshIsStop
<1>6. st' \in States /\ reg' \subseteq TTs
  BY DEF IInv, TypeOK, States
<1>7. QED
  BY <1>1, <1>2, <1>3, <1>4, <1>5, <1>6 DEF IInv, NetOK, TypeOK, Addressed

\* tracker_torrent_destroy.
LEMMA DestroyStep ==
  ASSUME IInv, NEW x \in TTs, Destroy(x)
  PROVE  IInv' /\ ~tt'[x].here /\ \A y \in TTs \ {x} : tt'[y] = tt[y]
<1> DEFINE last == \A y \in TTs \ {x} : ~tt[y].here
           xs == IF last THEN {x, Conn} ELSE {x}
<1>0. xs \in SUBSET (TTs \cup {Conn}) /\ x \in xs
  OBVIOUS
<1>1. /\ net' = Aged(net, xs) /\ tt' = [tt EXCEPT ![x] = FreeTT]
      /\ st' = (IF last THEN "none" ELSE st) /\ timer' = (timer /\ ~last)
      /\ signal' = signal /\ reg' = reg \ {x}
  BY DEF Destroy
<1> HIDE DEF last, xs
<1>2. /\ net' \in SUBSET Packet /\ IsFiniteSet(net') /\ Cardinality(net') <= MaxNet
      /\ \A m \in net' : \E o \in net :
           /\ m.kind = o.kind /\ m.x = o.x /\ m.event = o.event
           /\ m.fresh <=> (o.fresh /\ o.x \notin xs)
  BY <1>0, <1>1, AgedNet DEF IInv, TypeOK
<1>3. NetOK(net')
  BY <1>2 DEF NetOK, IInv, Addressed
<1>4. FreeTT \in TTRec /\ ~FreeTT.here /\ ~FreeTT.tentative
  BY TrackerConstants DEF FreeTT, TTRec
<1>5. /\ tt' \in [TTs -> TTRec] /\ tt'[x] = FreeTT
      /\ \A y \in TTs \ {x} : tt'[y] = tt[y]
  BY <1>1, <1>4 DEF IInv, TypeOK
<1>6. NoSilence'
  <2>1. CASE last
    BY <1>1, <1>4, <1>5, <2>1 DEF NoSilence, last
  <2>2. CASE ~last
    BY <1>1, <1>4, <1>5, <2>2 DEF NoSilence, IInv
  <2>3. QED
    BY <2>1, <2>2
<1>7. TentativeIsLive'
  BY <1>4, <1>5 DEF TentativeIsLive, IInv
<1>8. FreshIsStop'
  <2> SUFFICES ASSUME NEW m \in net', m.fresh, m.x # Conn, ~tt'[m.x].live
               PROVE  m.event = 3
      BY DEF FreshIsStop
  <2>1. PICK o \in net : /\ m.kind = o.kind /\ m.x = o.x /\ m.event = o.event
                         /\ m.fresh <=> (o.fresh /\ o.x \notin xs)
    BY <1>2
  <2>2. m.x \in TTs \ {x}
    BY <1>0, <2>1 DEF IInv, TypeOK, Packet
  <2>3. QED
    BY <1>5, <2>1, <2>2 DEF IInv, FreshIsStop
<1>9. st' \in States /\ timer' \in BOOLEAN /\ signal' \in BOOLEAN /\ reg' \subseteq TTs
  BY <1>1 DEF IInv, TypeOK, States
<1>10. QED
  BY <1>3, <1>4, <1>5, <1>6, <1>7, <1>8, <1>9 DEF IInv, NetOK, TypeOK, Addressed

-----------------------------------------------------------------------------
(* The steps.                                                               *)

\* A step that leaves torrents, tracker and timer alone, and what is fresh fresh.
LEMMA NetStep ==
  ASSUME IInv, NetOK(net'), FreshFrom(net', {}, 2), UNCHANGED <<st, timer, tt, signal>>,
         reg' \subseteq TTs
  PROVE  IInv'
<1>1. FreshIsStop'
  BY DEF FreshIsStop, FreshFrom, IInv
<1>2. NoSilence' /\ TentativeIsLive'
  BY DEF NoSilence, TentativeIsLive, IInv
<1>3. st' \in States /\ timer' \in BOOLEAN /\ tt' \in [TTs -> TTRec] /\ signal' \in BOOLEAN
  BY DEF IInv, TypeOK
<1>4. QED
  BY <1>1, <1>2, <1>3 DEF IInv, NetOK, TypeOK, Addressed

\* tracker_udp_send_connect by whoever.
LEMMA ConnectStep ==
  ASSUME IInv, SendConnect, UNCHANGED <<tt, signal, reg>>
  PROVE  IInv'
<1>1. NetOK(net') /\ FreshFrom(net', {}, 2)
  BY SendConnectNet
<1>2. FreshIsStop'
  BY <1>1 DEF FreshIsStop, FreshFrom, IInv
<1>3. st' = "connecting" /\ timer' = TRUE
  BY DEF SendConnect
<1>4. NoSilence' /\ TentativeIsLive'
  BY <1>3 DEF NoSilence, TentativeIsLive, IInv
<1>5. st' \in States /\ timer' \in BOOLEAN /\ tt' \in [TTs -> TTRec] /\ signal' \in BOOLEAN
      /\ reg' \subseteq TTs
  BY <1>3 DEF IInv, TypeOK, States
<1>6. QED
  BY <1>1, <1>2, <1>4, <1>5 DEF IInv, NetOK, TypeOK, Addressed

\* tracker_add_torrent.
LEMMA AddTorrentStep ==
  ASSUME IInv, NEW x \in TTs, AddTorrent(x)
  PROVE  IInv'
<1> DEFINE new == [FreeTT EXCEPT !.here = TRUE, !.live = TRUE, !.tentative = TRUE]
<1>1. new \in TTRec /\ new.here /\ new.live /\ new.tentative
  <2>1. FreeTT \in TTRec
    BY TrackerConstants DEF FreeTT, TTRec
  <2>2. QED
    BY <2>1 DEF TTRec
<1>2. tt' = [tt EXCEPT ![x] = new] /\ signal' = TRUE /\ UNCHANGED <<timer, net, reg>>
      /\ st' \in {st, "dns"}
  <2>1. st' \in {st, "dns"}
    BY DEF AddTorrent
  <2>2. QED
    BY <2>1 DEF AddTorrent
<1> HIDE DEF new
<1>3. /\ tt' \in [TTs -> TTRec] /\ tt'[x] = new
      /\ \A y \in TTs \ {x} : tt'[y] = tt[y]
  BY <1>1, <1>2 DEF IInv, TypeOK
<1>4. NoSilence'
  BY <1>1, <1>2, <1>3 DEF NoSilence, IInv
<1>5. TentativeIsLive'
  BY <1>1, <1>3 DEF TentativeIsLive, IInv
<1>6. FreshIsStop'
  BY <1>1, <1>2, <1>3 DEF FreshIsStop, IInv, TypeOK, Packet
<1>7. st' \in States /\ signal' \in BOOLEAN
  BY <1>2 DEF IInv, TypeOK, States
<1>8. timer' \in BOOLEAN /\ reg' \subseteq TTs
  BY <1>2 DEF IInv, TypeOK
<1>9. QED
  BY <1>2, <1>3, <1>4, <1>5, <1>6, <1>7, <1>8 DEF IInv, TypeOK, Addressed

\* tracker_new_torrent.
LEMMA NewTorrentStep ==
  ASSUME IInv, NewTorrent
  PROVE  IInv'
<1> DEFINE xs == {x \in TTs : tt[x].here /\ tt[x].tentative}
<1>1. CASE st = "connected"
  <2>1. net' = Announces(xs, 2) /\ tt' = Announced(xs)
        /\ signal' = FALSE /\ UNCHANGED <<st, timer, reg>>
    BY <1>1 DEF NewTorrent
  <2>2. xs \in SUBSET TTs /\ \A x \in xs : tt[x].live
    BY DEF IInv, TentativeIsLive
  <2>3. \A x \in TTs \ xs : tt[x].here /\ tt[x].live => tt[x].timer
    BY <1>1 DEF IInv, NoSilence
  <2>4. timer' \in BOOLEAN /\ signal' \in BOOLEAN
    BY <2>1 DEF IInv, TypeOK
  <2> HIDE DEF xs
  <2>5. QED
    BY <1>1, <2>1, <2>2, <2>3, <2>4, AnnouncesStep
<1>2. CASE st # "connected"
  <2>1. signal' = FALSE /\ UNCHANGED <<st, timer, net, tt, reg>>
    BY <1>2 DEF NewTorrent
  <2>2. NoSilence'
    BY <1>2, <2>1 DEF IInv, NoSilence
  <2>3. QED
    BY <2>1, <2>2 DEF IInv, TypeOK, Addressed, TentativeIsLive, FreshIsStop
<1>3. QED
  BY <1>1, <1>2

\* tracker_remove_torrent.
LEMMA RemoveStep ==
  ASSUME IInv, NEW x \in TTs, Remove(x)
  PROVE  IInv'
<1>1. CASE st # "connected"
  BY <1>1, DestroyStep DEF Remove
<1>2. CASE st = "connected"
  <2>1. net' = Announces({x}, 3) /\ tt' = [Announced({x}) EXCEPT ![x].live = FALSE]
        /\ UNCHANGED <<st, timer, signal, reg>>
    BY <1>2 DEF Remove
  <2>2. NetOK(net') /\ FreshFrom(net', {x}, 3)
    BY <2>1, AnnouncesNet
  <2>3. /\ Announced({x}) \in [TTs -> TTRec]
        /\ ~Announced({x})[x].tentative /\ Announced({x})[x].timer
        /\ \A y \in TTs \ {x} : Announced({x})[y] = tt[y]
    BY AnnouncedTT DEF IInv, TypeOK
  <2>4. /\ tt' \in [TTs -> TTRec]
        /\ ~tt'[x].tentative /\ tt'[x].timer /\ ~tt'[x].live
        /\ \A y \in TTs \ {x} : tt'[y] = tt[y]
    BY <2>1, <2>3 DEF TTRec
  <2>5. NoSilence' /\ TentativeIsLive'
    BY <2>1, <2>4 DEF IInv, NoSilence, TentativeIsLive
  <2>6. FreshIsStop'
    BY <2>2, <2>4 DEF FreshIsStop, FreshFrom, IInv, TypeOK, NetOK, Packet
  <2>7. st' \in States /\ timer' \in BOOLEAN /\ signal' \in BOOLEAN /\ reg' \subseteq TTs
    BY <2>1 DEF IInv, TypeOK
  <2>8. QED
    BY <2>2, <2>4, <2>5, <2>6, <2>7 DEF IInv, NetOK, TypeOK, Addressed
<1>3. QED
  BY <1>1, <1>2

\* tracker_torrent_periodic.
LEMMA TorrentTimerStep ==
  ASSUME IInv, NEW x \in TTs, TorrentTimer(x)
  PROVE  IInv'
<1>1. CASE ~tt[x].live /\ tt[x].attempt + 1 = MaxAttempt
  BY <1>1, DestroyStep DEF TorrentTimer, StopTimer
<1>2. CASE ~tt[x].live /\ tt[x].attempt + 1 # MaxAttempt
  <2>1. tt' = [tt EXCEPT ![x].attempt = @ + 1] /\ UNCHANGED <<st, timer, signal, net, reg>>
    BY <1>2 DEF TorrentTimer, StopTimer
  <2>2. /\ tt' \in [TTs -> TTRec]
        /\ tt'[x].here = tt[x].here /\ tt'[x].live = tt[x].live
        /\ tt'[x].timer = tt[x].timer /\ tt'[x].tentative = tt[x].tentative
        /\ \A y \in TTs \ {x} : tt'[y] = tt[y]
    BY <1>2, <2>1, TrackerConstants DEF IInv, TypeOK, TTRec
  <2>3. NoSilence' /\ TentativeIsLive'
    BY <2>1, <2>2 DEF IInv, NoSilence, TentativeIsLive
  <2>4. FreshIsStop'
    BY <2>1, <2>2 DEF IInv, TypeOK, FreshIsStop, Packet
  <2>5. QED
    BY <2>1, <2>2, <2>3, <2>4 DEF IInv, TypeOK, Addressed
<1>3. CASE tt[x].live /\ st = "connected"
  <2>1. net' = Announces({x}, 2) /\ tt' = Announced({x})
        /\ UNCHANGED <<st, timer, signal, reg>>
    BY <1>3 DEF TorrentTimer
  <2>2. \A y \in TTs \ {x} : tt[y].here /\ tt[y].live =>
            tt[y].timer \/ (tt[y].tentative /\ signal')
    BY <1>3, <2>1 DEF IInv, NoSilence
  <2>3. timer' \in BOOLEAN /\ signal' \in BOOLEAN
    BY <2>1 DEF IInv, TypeOK
  <2>4. QED
    BY <1>3, <2>1, <2>2, <2>3, AnnouncesStep
<1>4. CASE tt[x].live /\ st # "connected"
  <2>1. tt' = [tt EXCEPT ![x].timer = FALSE] /\ UNCHANGED <<st, timer, signal, net, reg>>
    BY <1>4 DEF TorrentTimer
  <2>2. /\ tt' \in [TTs -> TTRec]
        /\ tt'[x].here = tt[x].here /\ tt'[x].live = tt[x].live
        /\ tt'[x].tentative = tt[x].tentative
        /\ \A y \in TTs \ {x} : tt'[y] = tt[y]
    BY <2>1 DEF IInv, TypeOK, TTRec
  <2>3. NoSilence' /\ TentativeIsLive'
    BY <1>4, <2>1, <2>2 DEF IInv, NoSilence, TentativeIsLive
  <2>4. FreshIsStop'
    BY <2>1, <2>2 DEF IInv, TypeOK, FreshIsStop, Packet
  <2>5. QED
    BY <2>1, <2>2, <2>3, <2>4 DEF IInv, TypeOK, Addressed
<1>5. QED
  BY <1>1, <1>2, <1>3, <1>4

\* tracker_udp_got_dns and tracker_udp_timer_cb.
LEMMA ConnectionSteps ==
  ASSUME IInv, ConnTimer \/ \E ok \in BOOLEAN : GotDns(ok)
  PROVE  IInv'
<1>1. CASE SendConnect /\ UNCHANGED <<tt, signal, reg>>
  BY <1>1, ConnectStep
<1>2. CASE /\ st' \in {st, "error"} /\ (st' = "connecting" => timer' = timer)
           /\ timer' \in {timer, FALSE} /\ UNCHANGED <<net, tt, signal, reg>>
  <2>1. NoSilence'
    BY <1>2 DEF IInv, NoSilence
  <2>2. st' \in States /\ timer' \in BOOLEAN
    BY <1>2 DEF IInv, TypeOK, States
  <2>3. QED
    BY <1>2, <2>1, <2>2 DEF IInv, TypeOK, Addressed, TentativeIsLive, FreshIsStop
<1>3. QED
  BY <1>1, <1>2 DEF ConnTimer, GotDns, IInv, TypeOK

\* tracker_udp_input.
LEMMA RecvStep ==
  ASSUME IInv, NEW m \in net, Recv(m)
  PROVE  IInv'
<1>1. CASE RecvConnected(m)
  <2>1. /\ net' = Announces(Live, 2) /\ tt' = Announced(Live)
        /\ st' = "connected" /\ timer' = FALSE /\ UNCHANGED <<signal, reg>>
    BY <1>1 DEF RecvConnected
  <2>2. Live \in SUBSET TTs /\ (\A x \in Live : tt[x].live)
        /\ \A x \in TTs \ Live : ~(tt[x].here /\ tt[x].live)
    BY DEF Live
  <2>3. timer' \in BOOLEAN /\ signal' \in BOOLEAN
    BY <2>1 DEF IInv, TypeOK
  <2>4. QED
    BY <2>1, <2>2, <2>3, AnnouncesStep
<1>2. ASSUME RecvAnnounced(m) \/ RecvFailed(m) PROVE IInv'
  <2>1. m.x \in TTs
    BY <1>2 DEF RecvAnnounced, RecvFailed, IInv, TypeOK, Addressed, Packet
  <2>2. CASE ~tt[m.x].live
    BY <1>2, <2>1, <2>2, DestroyStep DEF RecvAnnounced, RecvFailed
  <2>3. CASE tt[m.x].live /\ RecvFailed(m)
    BY <2>3, ConnectStep DEF RecvFailed
  <2>4. CASE tt[m.x].live /\ RecvAnnounced(m)
    <3>1. tt' = [tt EXCEPT ![m.x].timer = TRUE] /\ UNCHANGED <<st, timer, signal, net, reg>>
      BY <2>4 DEF RecvAnnounced
    <3>2. /\ tt' \in [TTs -> TTRec]
          /\ tt'[m.x].here = tt[m.x].here /\ tt'[m.x].live = tt[m.x].live
          /\ tt'[m.x].tentative = tt[m.x].tentative /\ tt'[m.x].timer
          /\ \A y \in TTs \ {m.x} : tt'[y] = tt[y]
      BY <2>1, <3>1 DEF IInv, TypeOK, TTRec
    <3>3. NoSilence' /\ TentativeIsLive'
      BY <2>1, <3>1, <3>2 DEF IInv, NoSilence, TentativeIsLive
    <3>4. FreshIsStop'
      BY <2>1, <3>1, <3>2 DEF IInv, TypeOK, FreshIsStop, Packet
    <3>5. QED
      BY <3>1, <3>2, <3>3, <3>4 DEF IInv, TypeOK, Addressed
  <2>5. QED
    BY <1>2, <2>2, <2>3, <2>4
<1>3. QED
  BY <1>1, <1>2 DEF Recv

\* The network answers, duplicates and loses.
LEMMA NetworkSteps ==
  ASSUME IInv, NEW m \in net, NEW dup \in BOOLEAN,
         Lose(m) \/ AnswerConnect(m, dup) \/ AnswerAnnounce(m, dup) \/ AnswerFailed(m, dup)
  PROVE  IInv'
<1>0. /\ net \in SUBSET Packet /\ IsFiniteSet(net) /\ Cardinality(net) <= MaxNet
      /\ \A k \in net : k.x = Conn <=> k.kind \in {"connect", "connected"}
  BY DEF IInv, TypeOK, Addressed
<1>1. /\ net \ {m} \in SUBSET Packet /\ IsFiniteSet(net \ {m})
      /\ Cardinality(net \ {m}) <= MaxNet
  <2>1. IsFiniteSet(net \ {m}) /\ Cardinality(net \ {m}) = Cardinality(net) - 1
    BY <1>0, FS_RemoveElement
  <2>2. Cardinality(net) \in Nat /\ MaxNet \in Nat
    BY <1>0, FS_CardinalityType, TrackerConstants
  <2>3. QED
    BY <1>0, <2>1, <2>2
<1>2. CASE Lose(m)
  <2>1. net' = net \ {m} /\ UNCHANGED <<st, timer, tt, signal, reg>>
    BY <1>2 DEF Lose
  <2>2. NetOK(net') /\ FreshFrom(net', {}, 2) /\ reg' \subseteq TTs
    BY <1>0, <1>1, <2>1 DEF NetOK, FreshFrom, IInv, TypeOK
  <2>3. QED
    BY <2>1, <2>2, NetStep
<1>3. ASSUME NEW kind \in {"connected", "announced", "failed"}, Answer(m, kind, dup),
             m.kind = "connect" <=> kind = "connected", m.kind \in {"connect", "announce"},
             reg' \subseteq TTs
      PROVE  IInv'
  <2> DEFINE n == IF dup THEN net ELSE net \ {m}
             r == [m EXCEPT !.kind = kind]
  <2>1. net' = Put(n, {r}) /\ UNCHANGED <<st, timer, tt, signal>>
    BY <1>3 DEF Answer
  <2>2. n \in SUBSET Packet /\ IsFiniteSet(n) /\ n \subseteq net
    BY <1>0, <1>1
  <2>3. r \in Packet /\ r.x = m.x /\ r.event = m.event /\ r.fresh = m.fresh /\ r.kind = kind
    BY <1>0 DEF Packet
  <2> HIDE DEF n, r
  <2>4. {r} \in SUBSET Packet /\ IsFiniteSet({r}) /\ Cardinality({r}) <= MaxNet
    <3>1. IsFiniteSet({r}) /\ Cardinality({r}) = 1
      BY FS_Singleton
    <3>2. QED
      BY <2>3, <3>1, TrackerConstants
  <2>5. /\ Put(n, {r}) \in SUBSET Packet /\ IsFiniteSet(Put(n, {r}))
        /\ Cardinality(Put(n, {r})) <= MaxNet /\ Put(n, {r}) \subseteq n \cup {r}
    BY <2>2, <2>4, PutNet
  <2>6. NetOK(net')
    BY <1>0, <1>3, <2>1, <2>2, <2>3, <2>5 DEF NetOK
  <2>7. FreshFrom(net', {}, 2)
    BY <2>1, <2>2, <2>3, <2>5 DEF FreshFrom
  <2>8. QED
    BY <1>3, <2>1, <2>6, <2>7, NetStep
<1>4. reg \subseteq TTs /\ (m.kind = "announce" => m.x \in TTs)
  BY <1>0 DEF IInv, TypeOK, Packet
<1>5. QED
  BY <1>2, <1>3, <1>4 DEF AnswerConnect, AnswerAnnounce, AnswerFailed

\* Every step of Next keeps the invariant, and so does a step that changes nothing.
LEMMA NextInv == IInv /\ [Next]_vars => IInv'
<1> SUFFICES ASSUME IInv, [Next]_vars PROVE IInv'
    OBVIOUS
<1>1. CASE UNCHANGED vars
  BY <1>1 DEF vars, IInv, TypeOK, NoSilence, Addressed, TentativeIsLive, FreshIsStop
<1>2. CASE \E x \in TTs : AddTorrent(x) \/ Remove(x) \/ TorrentTimer(x)
  BY <1>2, AddTorrentStep, RemoveStep, TorrentTimerStep
<1>3. CASE NewTorrent \/ ConnTimer \/ \E ok \in BOOLEAN : GotDns(ok)
  BY <1>3, NewTorrentStep, ConnectionSteps
<1>4. CASE \E m \in net : Recv(m)
  BY <1>4, RecvStep
<1>5. CASE \E m \in net : Lose(m) \/ \E dup \in BOOLEAN :
             AnswerConnect(m, dup) \/ AnswerAnnounce(m, dup) \/ AnswerFailed(m, dup)
  BY <1>5, NetworkSteps
<1>6. QED
  BY <1>1, <1>2, <1>3, <1>4, <1>5 DEF Next

\* The invariant holds throughout.
THEOREM TrackerInductive == Spec => []IInv
  BY InitInv, NextInv, PTL DEF Spec

\* Whatever is lost, duplicated or late, something is armed that goes on, and nothing is
\* announced for a torrent that is gone.
THEOREM TrackerSafe == Spec => []TrackerInv
  BY TrackerInductive, InvGivesTrackerInv, PTL

\* tracker_torrent_destroy follows on the answer to the stop request, or on the last
\* timeout, and never on the late answer to an earlier announcement.
LEMMA EndStep ==
  ASSUME IInv, [Next]_vars
  PROVE  [\A x \in TTs : tt[x].here /\ ~tt[x].live /\ ~tt'[x].here =>
            \/ tt[x].attempt + 1 = MaxAttempt
            \/ \E m \in net : m.x = x /\ m.event = 3 /\ m.kind \in {"announced", "failed"}]_vars
<1> SUFFICES ASSUME NEW x \in TTs, tt[x].here, ~tt[x].live, ~tt'[x].here,
                    tt[x].attempt + 1 # MaxAttempt
             PROVE  \E m \in net : m.x = x /\ m.event = 3 /\ m.kind \in {"announced", "failed"}
    OBVIOUS
<1>0. tt \in [TTs -> TTRec]
  BY DEF IInv, TypeOK
<1>1. ~UNCHANGED tt
  OBVIOUS
<1>2. \A xs \in SUBSET TTs : tt' # Announced(xs)
  BY <1>0, AnnouncedTT
<1>3. ASSUME NEW y \in TTs, Destroy(y) PROVE y = x
  BY <1>3, DestroyStep
<1>4. ASSUME NEW y \in TTs, AddTorrent(y) \/ Remove(y) \/ TorrentTimer(y) PROVE FALSE
  <2>1. CASE AddTorrent(y)
    BY <1>0, <2>1 DEF AddTorrent
  <2>2. CASE Remove(y) /\ st = "connected"
    <3>1. tt[y].live /\ tt' = [Announced({y}) EXCEPT ![y].live = FALSE]
      BY <2>2 DEF Remove
    <3>2. Announced({y}) \in [TTs -> TTRec] /\ \A z \in TTs \ {y} : Announced({y})[z] = tt[z]
      BY <1>0, AnnouncedTT
    <3>3. QED
      BY <3>1, <3>2
  <2>3. CASE Remove(y) /\ st # "connected"
    BY <1>3, <2>3 DEF Remove
  <2>4. CASE TorrentTimer(y) /\ tt[y].live
    <3>1. CASE st = "connected"
      BY <1>2, <2>4, <3>1 DEF TorrentTimer
    <3>2. CASE st # "connected"
      BY <1>0, <2>4, <3>2 DEF TorrentTimer, TTRec
    <3>3. QED
      BY <3>1, <3>2
  <2>5. CASE TorrentTimer(y) /\ ~tt[y].live
    BY <1>0, <1>3, <2>5 DEF TorrentTimer, StopTimer, TTRec
  <2>6. QED
    BY <1>4, <2>1, <2>2, <2>3, <2>4, <2>5
<1>5. ASSUME NewTorrent \/ ConnTimer \/ (\E ok \in BOOLEAN : GotDns(ok))
             \/ \E m \in net : RecvConnected(m)
      PROVE  FALSE
  BY <1>1, <1>2, <1>5 DEF NewTorrent, ConnTimer, GotDns, RecvConnected, Live
<1>6. ASSUME NEW m \in net,
             Lose(m) \/ \E dup \in BOOLEAN :
                AnswerConnect(m, dup) \/ AnswerAnnounce(m, dup) \/ AnswerFailed(m, dup)
      PROVE  FALSE
  BY <1>1, <1>6 DEF Lose, AnswerConnect, AnswerAnnounce, AnswerFailed, Answer
<1>7. ASSUME NEW m \in net, RecvAnnounced(m) \/ RecvFailed(m)
      PROVE  m.x = x /\ m.event = 3 /\ m.kind \in {"announced", "failed"}
  <2>1. m.x \in TTs /\ m.fresh /\ m.x # Conn /\ m.kind \in {"announced", "failed"}
    BY <1>7 DEF RecvAnnounced, RecvFailed, IInv, TypeOK, Addressed, Packet
  <2>2. CASE tt[m.x].live
    BY <1>0, <1>1, <1>7, <2>1, <2>2 DEF RecvAnnounced, RecvFailed, TTRec
  <2>3. CASE ~tt[m.x].live
    BY <1>3, <1>7, <2>1, <2>3 DEF RecvAnnounced, RecvFailed, IInv, FreshIsStop
  <2>4. QED
    BY <2>2, <2>3
<1>8. QED
  BY <1>1, <1>4, <1>5, <1>6, <1>7 DEF Next, Recv, vars

\* The same of every behaviour.
THEOREM EndsProperly == Spec => EndsByItsOwnAnswer
<1>1. IInv /\ [Next]_vars =>
        [\A x \in TTs : tt[x].here /\ ~tt[x].live /\ ~tt'[x].here =>
            \/ tt[x].attempt + 1 = MaxAttempt
            \/ \E m \in net : m.x = x /\ m.event = 3 /\ m.kind \in {"announced", "failed"}]_vars
  BY EndStep
<1>2. QED
  BY <1>1, TrackerInductive, PTL DEF Spec, EndsByItsOwnAnswer
=============================================================================
