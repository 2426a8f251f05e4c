------------------------- MODULE HttpAnnounceProofs -------------------------
(***************************************************************************)
(* Proofs about TaskPool and HttpAnnounce, for any number of threads,       *)
(* torrents and requests and any amount of other work in the pool.          *)
(***************************************************************************)
EXTENDS HttpAnnounce, FiniteSetTheorems, TLAPS

Jobs == Reqs \cup {Other}
Pcs == {"none", "loop", "woken", "wait", "run", "wake"}

\* A thread has a task as long as it runs it.
PoolType ==
    /\ tasks \in Seq(Jobs)
    /\ worker \in [Workers -> [pc : Pcs, task : Jobs \cup {0}]]
    /\ \A w \in Workers : worker[w].task # 0 <=> worker[w].pc = "run"
    /\ num_task_threads \in Int /\ num_task_threads_avail \in Int

\* num_task_threads_avail counts the threads that wait and those that were signalled
\* and have not run since; num_task_threads counts all.
Idle == At("wait") \cup At("woken")
PoolCounts ==
    /\ num_task_threads_avail = Cardinality(Idle)
    /\ num_task_threads + Cardinality(At("none")) = MaxThreads

PoolInv == PoolType /\ PoolCounts /\ NoTaskStranded

TTRec == [alive : BOOLEAN, tentative : BOOLEAN, req : Reqs \cup {None}, armed : BOOLEAN]
ReqRec == [alive : BOOLEAN, cancelled : BOOLEAN, opaque : TTs \cup {None}]

HttpType ==
    /\ tt \in [TTs -> TTRec]
    /\ ahr \in [Reqs -> ReqRec]
    /\ completed \in Seq(Reqs)
    /\ pipe \in Seq({"new", "http"})
    /\ aio \in [pc : {"poll", "new", "http"}, todo : SUBSET TTs]
    /\ aio.pc # "new" => aio.todo = {}
    /\ \A a \in Reqs : ahr[a].alive => ahr[a].opaque \in TTs
    /\ \A x \in TTs : tt[x].armed => tt[x].alive

\* A request is in one place, which it has as long as it is not freed.
InTasks == {tasks[i] : i \in 1 .. Len(tasks)}
OnThreads == {worker[w].task : w \in Workers}
Done == {completed[i] : i \in 1 .. Len(completed)}
Located ==
    /\ \A i, j \in 1 .. Len(tasks) : tasks[i] = tasks[j] /\ tasks[i] \in Reqs => i = j
    /\ \A v, w \in Workers :
          worker[v].task = worker[w].task /\ worker[v].task \in Reqs => v = w
    /\ \A i, j \in 1 .. Len(completed) : completed[i] = completed[j] => i = j
    /\ \A a \in Reqs : /\ a \notin InTasks \/ a \notin OnThreads
                       /\ a \notin Done \/ a \notin InTasks \cup OnThreads
                       /\ ahr[a].alive <=> a \in InTasks \cup OnThreads \cup Done

\* The parts of InTouch that are about a torrent and about the asyncio thread.
TorrentInTouch ==
    \A x \in TTs : tt[x].alive =>
        \/ tt[x].tentative /\ (x \in aio.todo \/ \E i \in 1 .. Len(pipe) : pipe[i] = "new")
        \/ tt[x].req # None
        \/ tt[x].armed
HttpHeard ==
    completed # <<>> => \/ aio.pc = "http"
                        \/ \E i \in 1 .. Len(pipe) : pipe[i] = "http"
                        \/ \E w \in Workers : worker[w].pc = "wake"

IInv == PoolInv /\ HttpType /\ Located /\ RequestOwned /\ TorrentInTouch /\ HttpHeard

-----------------------------------------------------------------------------
(* Sequences.                                                               *)

\* A task joins the queue at its end.
LEMMA Appended ==
  ASSUME NEW S, NEW s \in Seq(S), NEW e \in S
  PROVE  /\ Append(s, e) \in Seq(S) /\ Append(s, e) # <<>>
         /\ Len(Append(s, e)) = Len(s) + 1 /\ Len(s) \in Nat
         /\ \A i \in 1 .. Len(s) : Append(s, e)[i] = s[i]
         /\ Append(s, e)[Len(s) + 1] = e
  OBVIOUS

\* A thread takes the task at its head.
LEMMA Taken ==
  ASSUME NEW S, NEW s \in Seq(S), s # <<>>
  PROVE  /\ Tail(s) \in Seq(S) /\ Head(s) = s[1] /\ Head(s) \in S
         /\ Len(Tail(s)) = Len(s) - 1 /\ Len(s) \in Nat /\ Len(s) >= 1
         /\ \A i \in 1 .. Len(Tail(s)) : Tail(s)[i] = s[i + 1]
  OBVIOUS

\* asyncio_http_cb puts a request at the head of asyncio_http_completed.
LEMMA Prepended ==
  ASSUME NEW S, NEW s \in Seq(S), NEW e \in S
  PROVE  /\ <<e>> \o s \in Seq(S) /\ <<e>> \o s # <<>>
         /\ Len(<<e>> \o s) = Len(s) + 1 /\ Len(s) \in Nat
         /\ (<<e>> \o s)[1] = e
         /\ \A i \in 2 .. Len(s) + 1 : (<<e>> \o s)[i] = s[i - 1]
  OBVIOUS

-----------------------------------------------------------------------------
(* The pool.                                                                *)

\* The sets of threads the counters count are finite.
LEMMA FiniteWorkers ==
  /\ IsFiniteSet(Workers) /\ Cardinality(Workers) = MaxThreads
  /\ \A S \in SUBSET Workers : IsFiniteSet(S) /\ Cardinality(S) \in Nat
<1>1. IsFiniteSet(Workers) /\ Cardinality(Workers) = MaxThreads
  BY FS_Interval, PoolConstants DEF Workers
<1>2. \A S \in SUBSET Workers : IsFiniteSet(S)
  BY <1>1, FS_Subset
<1>3. QED
  BY <1>1, <1>2, FS_CardinalityType

\* Two sets of threads that differ in one thread.
LEMMA OneMore ==
  ASSUME NEW S \in SUBSET Workers, NEW T \in SUBSET Workers, NEW w \in Workers,
         S \ {w} = T \ {w}
  PROVE  Cardinality(T) = Cardinality(S) + (IF w \in T THEN 1 ELSE 0) - (IF w \in S THEN 1 ELSE 0)
<1>1. /\ IsFiniteSet(S) /\ Cardinality(S) \in Nat
      /\ IsFiniteSet(T) /\ Cardinality(T) \in Nat
  BY FiniteWorkers
<1>2. Cardinality(S \ {w}) = IF w \in S THEN Cardinality(S) - 1 ELSE Cardinality(S)
  BY <1>1, FS_RemoveElement
<1>3. Cardinality(T \ {w}) = IF w \in T THEN Cardinality(T) - 1 ELSE Cardinality(T)
  BY <1>1, FS_RemoveElement
<1>4. QED
  BY <1>1, <1>2, <1>3

\* What a thread counts for, by where it is.
IdleAt(pc) == IF pc \in {"wait", "woken"} THEN 1 ELSE 0
FreeAt(pc) == IF pc = "none" THEN 1 ELSE 0

\* How the counted sets change when one thread moves.
LEMMA ThreadMoves ==
  ASSUME NEW w \in Workers, \A v \in Workers \ {w} : worker'[v] = worker[v]
  PROVE  /\ Cardinality(Idle') = Cardinality(Idle) + IdleAt(worker'[w].pc) - IdleAt(worker[w].pc)
         /\ Cardinality(At("none")') =
              Cardinality(At("none")) + FreeAt(worker'[w].pc) - FreeAt(worker[w].pc)
<1>1. /\ Idle \in SUBSET Workers /\ Idle' \in SUBSET Workers /\ Idle \ {w} = Idle' \ {w}
      /\ w \in Idle <=> worker[w].pc \in {"wait", "woken"}
      /\ w \in Idle' <=> worker'[w].pc \in {"wait", "woken"}
  BY DEF Idle, At
<1>2. /\ At("none") \in SUBSET Workers /\ At("none")' \in SUBSET Workers
      /\ At("none") \ {w} = At("none")' \ {w}
      /\ w \in At("none") <=> worker[w].pc = "none"
      /\ w \in At("none")' <=> worker'[w].pc = "none"
  BY DEF At
<1>3. Cardinality(Idle') =
        Cardinality(Idle) + (IF w \in Idle' THEN 1 ELSE 0) - (IF w \in Idle THEN 1 ELSE 0)
  BY <1>1, OneMore
<1>4. Cardinality(At("none")') =
        Cardinality(At("none")) + (IF w \in At("none")' THEN 1 ELSE 0)
                                - (IF w \in At("none") THEN 1 ELSE 0)
  BY <1>2, OneMore
<1>5. QED
  BY <1>1, <1>2, <1>3, <1>4 DEF IdleAt, FreeAt

\* The counters, by way of a thread that moves.
LEMMA CountsMove ==
  ASSUME PoolType, PoolCounts, NEW w \in Workers,
         \A v \in Workers \ {w} : worker'[v] = worker[v],
         num_task_threads_avail' =
            num_task_threads_avail + IdleAt(worker'[w].pc) - IdleAt(worker[w].pc),
         num_task_threads' =
            num_task_threads - FreeAt(worker'[w].pc) + FreeAt(worker[w].pc)
  PROVE  PoolCounts'
<1>1. At("none") \in SUBSET Workers /\ Cardinality(At("none")) \in Nat
  BY FiniteWorkers DEF At
<1>2. MaxThreads \in Nat /\ num_task_threads \in Int
  BY PoolConstants DEF PoolType
<1>3. QED
  BY <1>1, <1>2, ThreadMoves DEF PoolCounts, FreeAt

\* task_run: a thread is woken or launched, or one is at work already.
LEMMA TaskRunPool ==
  ASSUME PoolInv, NEW t \in Jobs, task_run(t)
  PROVE  PoolInv' /\ \A w \in Workers : worker'[w].task = worker[w].task
                                       /\ (worker[w].pc = "wake" => worker'[w].pc = "wake")
<1>0. PoolType /\ PoolCounts
  BY DEF PoolInv
<1>1. tasks' = Append(tasks, t) /\ tasks' \in Seq(Jobs)
  BY <1>0, Appended DEF task_run, PoolType
<1>2. ASSUME NEW w \in Workers, NEW pc \in {"loop", "woken"},
             worker' = [worker EXCEPT ![w].pc = pc], worker[w].pc \in {"none", "wait"},
             num_task_threads_avail' =
                num_task_threads_avail + IdleAt(pc) - IdleAt(worker[w].pc),
             num_task_threads' = num_task_threads - FreeAt(pc) + FreeAt(worker[w].pc)
      PROVE  PoolInv' /\ \A v \in Workers : worker'[v].task = worker[v].task
                                       /\ (worker[v].pc = "wake" => worker'[v].pc = "wake")
  <2>1. /\ worker'[w].pc = pc /\ worker'[w].task = worker[w].task
        /\ \A v \in Workers \ {w} : worker'[v] = worker[v]
        /\ worker' \in [Workers -> [pc : Pcs, task : Jobs \cup {0}]]
    BY <1>0, <1>2 DEF PoolType, Pcs
  <2>2. num_task_threads_avail' \in Int /\ num_task_threads' \in Int
    BY <1>0, <1>2 DEF PoolType, IdleAt, FreeAt
  <2>3. PoolType'
    BY <1>0, <1>1, <1>2, <2>1, <2>2 DEF PoolType
  <2>4. PoolCounts'
    BY <1>0, <1>2, <2>1, CountsMove
  <2>5. NoTaskStranded'
    BY <1>2, <2>1 DEF NoTaskStranded
  <2>6. QED
    BY <1>2, <2>1, <2>3, <2>4, <2>5 DEF PoolInv
<1>3. CASE num_task_threads_avail > 0 /\ Signal /\ At("wait") # {}
  <2>1. PICK w \in At("wait") : worker' = [worker EXCEPT ![w].pc = "woken"]
    BY <1>3 DEF Signal
  <2>2. w \in Workers /\ worker[w].pc = "wait"
    BY DEF At
  <2>3. UNCHANGED <<num_task_threads, num_task_threads_avail>>
    BY <1>3 DEF Signal
  <2>4. num_task_threads_avail' =
                num_task_threads_avail + IdleAt("woken") - IdleAt(worker[w].pc)
        /\ num_task_threads' = num_task_threads - FreeAt("woken") + FreeAt(worker[w].pc)
    BY <1>0, <2>2, <2>3 DEF IdleAt, FreeAt, PoolType
  <2>5. QED
    BY <1>2, <2>1, <2>2, <2>4
<1>4. ASSUME UNCHANGED <<worker, num_task_threads, num_task_threads_avail>>,
             \E w \in Workers : worker[w].pc \notin {"none", "wait"}
      PROVE  PoolInv'
  BY <1>0, <1>1, <1>4 DEF PoolInv, PoolType, PoolCounts, Idle, At, NoTaskStranded
<1>5. CASE num_task_threads_avail > 0 /\ Signal /\ At("wait") = {}
  <2>1. Idle # {}
    BY <1>0, <1>5, FS_EmptySet DEF PoolCounts
  <2>2. \E w \in Workers : worker[w].pc = "woken"
    BY <1>5, <2>1 DEF Idle, At
  <2>3. UNCHANGED <<worker, num_task_threads, num_task_threads_avail>>
    BY <1>5 DEF Signal
  <2>4. QED
    BY <1>4, <2>2, <2>3
<1>6. CASE num_task_threads_avail = 0 /\ num_task_threads < MaxThreads /\ Launch
  <2> DEFINE w == CHOOSE w \in At("none") : TRUE
  <2>1. At("none") # {}
    <3>1. SUFFICES ASSUME At("none") = {} PROVE FALSE
      OBVIOUS
    <3>2. Cardinality(At("none")) = 0
      BY <3>1, FS_EmptySet
    <3>3. QED
      BY <1>0, <1>6, <3>2 DEF PoolCounts, PoolType
  <2>2. w \in Workers /\ worker[w].pc = "none"
    BY <2>1 DEF At
  <2>3. /\ worker' = [worker EXCEPT ![w].pc = "loop"]
        /\ num_task_threads' = num_task_threads + 1 /\ UNCHANGED num_task_threads_avail
    BY <1>6 DEF Launch
  <2> HIDE DEF w
  <2>4. num_task_threads_avail' =
                num_task_threads_avail + IdleAt("loop") - IdleAt(worker[w].pc)
        /\ num_task_threads' = num_task_threads - FreeAt("loop") + FreeAt(worker[w].pc)
    BY <1>0, <2>2, <2>3 DEF IdleAt, FreeAt, PoolType
  <2>5. QED
    BY <1>2, <2>2, <2>3, <2>4
<1>7. CASE /\ num_task_threads_avail = 0 /\ num_task_threads = MaxThreads
           /\ UNCHANGED <<worker, num_task_threads, num_task_threads_avail>>
  <2>1. IsFiniteSet(Idle) /\ IsFiniteSet(At("none"))
    BY FiniteWorkers DEF Idle, At
  <2>2. Cardinality(Idle) = 0 /\ Cardinality(At("none")) = 0
    BY <1>0, <1>7, <2>1, FS_CardinalityType, PoolConstants DEF PoolCounts
  <2>3. Idle = {} /\ At("none") = {}
    BY <2>1, <2>2, FS_EmptySet
  <2>4. 1 \in Workers
    BY PoolConstants DEF Workers
  <2>5. worker[1].pc \notin {"none", "wait"}
    BY <2>3, <2>4 DEF Idle, At
  <2>6. QED
    BY <1>4, <1>7, <2>4, <2>5
<1>8. QED
  BY <1>3, <1>5, <1>6, <1>7 DEF task_run, Signal

\* A thread in its loop, or one that was woken, takes a task, ends or waits.
LEMMA TaskThreadPool ==
  ASSUME PoolInv, NEW w \in Workers, TaskThread(w)
  PROVE  PoolInv'
<1>0. PoolType /\ PoolCounts
  BY DEF PoolInv
<1>1. worker[w].pc \in {"loop", "woken"} /\ worker[w].task = 0
  BY <1>0 DEF TaskThread, PoolType
<1>2. Avail(w) = num_task_threads_avail - IdleAt(worker[w].pc) /\ Avail(w) \in Int
      /\ FreeAt(worker[w].pc) = 0
  BY <1>0, <1>1 DEF Avail, IdleAt, FreeAt, PoolType
<1>3. CASE tasks # <<>>
  <2>1. /\ worker' = [worker EXCEPT ![w] = [pc |-> "run", task |-> Head(tasks)]]
        /\ tasks' = Tail(tasks) /\ num_task_threads_avail' = Avail(w)
        /\ UNCHANGED num_task_threads
    BY <1>3 DEF TaskThread
  <2>2. Head(tasks) \in Jobs /\ tasks' \in Seq(Jobs) /\ 0 \notin Jobs
    BY <1>0, <1>3, <2>1, Taken, HttpConstants DEF PoolType, Jobs
  <2>3. /\ worker'[w].pc = "run" /\ worker'[w].task = Head(tasks)
        /\ \A v \in Workers \ {w} : worker'[v] = worker[v]
        /\ worker' \in [Workers -> [pc : Pcs, task : Jobs \cup {0}]]
    BY <1>0, <2>1, <2>2 DEF PoolType, Pcs
  <2>4. PoolType'
    BY <1>0, <1>2, <2>1, <2>2, <2>3 DEF PoolType
  <2>5. PoolCounts'
    BY <1>0, <1>2, <2>1, <2>3, CountsMove DEF IdleAt, FreeAt, PoolType
  <2>6. QED
    BY <2>3, <2>4, <2>5 DEF PoolInv, NoTaskStranded
<1>4. CASE tasks = <<>> /\ Avail(w) = MaxIdle
  <2>1. /\ worker' = [worker EXCEPT ![w] = NoThread] /\ UNCHANGED tasks
        /\ num_task_threads' = num_task_threads - 1 /\ num_task_threads_avail' = Avail(w)
    BY <1>4 DEF TaskThread
  <2>2. /\ worker'[w].pc = "none" /\ worker'[w].task = 0
        /\ \A v \in Workers \ {w} : worker'[v] = worker[v]
        /\ worker' \in [Workers -> [pc : Pcs, task : Jobs \cup {0}]]
    BY <1>0, <2>1 DEF PoolType, Pcs, NoThread
  <2>3. PoolType'
    BY <1>0, <1>2, <2>1, <2>2 DEF PoolType
  <2>4. PoolCounts'
    BY <1>0, <1>2, <2>1, <2>2, CountsMove DEF IdleAt, FreeAt, PoolType
  <2>5. QED
    BY <1>4, <2>1, <2>3, <2>4 DEF PoolInv, NoTaskStranded
<1>5. CASE tasks = <<>> /\ Avail(w) # MaxIdle
  <2>1. /\ worker' = [worker EXCEPT ![w].pc = "wait"]
        /\ num_task_threads_avail' = Avail(w) + 1 /\ UNCHANGED <<tasks, num_task_threads>>
    BY <1>5 DEF TaskThread
  <2>2. /\ worker'[w].pc = "wait" /\ worker'[w].task = 0
        /\ \A v \in Workers \ {w} : worker'[v] = worker[v]
        /\ worker' \in [Workers -> [pc : Pcs, task : Jobs \cup {0}]]
    BY <1>0, <1>1, <2>1 DEF PoolType, Pcs
  <2>3. PoolType'
    BY <1>0, <1>2, <2>1, <2>2 DEF PoolType
  <2>4. PoolCounts'
    <3>1. /\ num_task_threads_avail' =
               num_task_threads_avail + IdleAt(worker'[w].pc) - IdleAt(worker[w].pc)
          /\ num_task_threads' = num_task_threads - FreeAt(worker'[w].pc) + FreeAt(worker[w].pc)
      BY <1>0, <1>2, <2>1, <2>2 DEF IdleAt, FreeAt, PoolType
    <3>2. QED
      BY <1>0, <2>2, <3>1, CountsMove
  <2>5. QED
    BY <1>5, <2>1, <2>3, <2>4 DEF PoolInv, NoTaskStranded
<1>6. QED
  BY <1>3, <1>4, <1>5

\* A task is done, in one step or in two.
LEMMA ReturnPool ==
  ASSUME PoolInv, NEW w \in Workers, worker[w].pc \in {"run", "wake"},
         NEW pc \in {"wake", "loop"}, worker' = [worker EXCEPT ![w] = [pc |-> pc, task |-> 0]],
         UNCHANGED <<tasks, num_task_threads, num_task_threads_avail>>
  PROVE  /\ PoolInv' /\ worker'[w].pc = pc /\ worker'[w].task = 0
         /\ \A v \in Workers \ {w} : worker'[v] = worker[v]
<1>0. PoolType /\ PoolCounts
  BY DEF PoolInv
<1>1. /\ worker'[w].pc = pc /\ worker'[w].task = 0
      /\ \A v \in Workers \ {w} : worker'[v] = worker[v]
      /\ worker' \in [Workers -> [pc : Pcs, task : Jobs \cup {0}]]
  BY <1>0 DEF PoolType, Pcs
<1>2. PoolType'
  BY <1>0, <1>1 DEF PoolType
<1>3. PoolCounts'
  BY <1>0, <1>1, CountsMove DEF IdleAt, FreeAt, PoolType
<1>4. QED
  BY <1>1, <1>2, <1>3 DEF PoolInv, NoTaskStranded

-----------------------------------------------------------------------------
(* Requests and their places.                                               *)

\* Nothing runs, nothing is queued.
LEMMA InitInv == Init => IInv
<1> SUFFICES ASSUME Init PROVE IInv
    OBVIOUS
<1>1. PoolType /\ NoTaskStranded
  BY DEF Init, PoolInit, PoolType, NoThread, NoTaskStranded, Pcs
<1>2. PoolCounts
  <2>1. Idle = {} /\ At("none") = Workers
    BY DEF Init, PoolInit, Idle, At, NoThread
  <2>2. QED
    BY <2>1, FS_EmptySet, FiniteWorkers, PoolConstants DEF Init, PoolInit, PoolCounts
<1>3. HttpType
  BY DEF Init, HttpType, NoTT, NoReq, TTRec, ReqRec
<1>4. Located
  BY HttpConstants DEF Init, PoolInit, Located, InTasks, OnThreads, Done, NoThread, NoReq
<1>5. RequestOwned /\ TorrentInTouch /\ HttpHeard
  BY DEF Init, RequestOwned, TorrentInTouch, HttpHeard, NoTT, NoReq
<1>6. QED
  BY <1>1, <1>2, <1>3, <1>4, <1>5 DEF IInv, PoolInv

\* asyncio_http_cancel marks one request and leaves its place alone.
LEMMA CancelOne ==
  ASSUME HttpType, NEW x \in TTs
  PROVE  /\ CancelledOf(x) \in [Reqs -> ReqRec]
         /\ \A b \in Reqs : /\ CancelledOf(x)[b].alive = ahr[b].alive
                            /\ CancelledOf(x)[b].opaque = ahr[b].opaque
                            /\ CancelledOf(x)[b].cancelled <=> ahr[b].cancelled \/ b = tt[x].req
<1>1. CASE tt[x].req = None
  BY <1>1, HttpConstants DEF CancelledOf, HttpType, ReqRec
<1>2. CASE tt[x].req # None
  BY <1>2, ZenonT(60) DEF CancelledOf, HttpType, ReqRec, TTRec
<1>3. QED
  BY <1>1, <1>2

\* tracker_http_torrent_announce: a new request takes its place at the end of the
\* queue, and the one before it is cancelled.
LEMMA AnnounceStep ==
  ASSUME IInv, NEW x \in TTs, tt[x].alive,
         NEW now \in {tt, [tt EXCEPT ![x].armed = FALSE]},
         tracker_http_torrent_announce(x, now), UNCHANGED <<completed, pipe>>,
         aio' \in [pc : {"poll", "new", "http"}, todo : SUBSET TTs],
         aio'.pc = aio.pc, aio'.todo \in {aio.todo, aio.todo \ {x}}
  PROVE  IInv'
<1>0. PoolInv /\ HttpType /\ Located /\ RequestOwned /\ TorrentInTouch /\ HttpHeard
  BY DEF IInv
<1> DEFINE new(a) == [alive |-> TRUE, cancelled |-> FALSE, opaque |-> x]
<1>1. PICK a \in Reqs : /\ ~ahr[a].alive
                        /\ ahr' = [CancelledOf(x) EXCEPT ![a] = new(a)]
                        /\ tt' = [now EXCEPT ![x].tentative = FALSE, ![x].req = a]
                        /\ task_run(a)
  BY DEF tracker_http_torrent_announce
<1>2. /\ PoolInv'
      /\ \A w \in Workers : worker'[w].task = worker[w].task
                           /\ (worker[w].pc = "wake" => worker'[w].pc = "wake")
  BY <1>0, <1>1, TaskRunPool DEF Jobs
<1>3. /\ ahr' \in [Reqs -> ReqRec]
      /\ ahr'[a].alive /\ ~ahr'[a].cancelled /\ ahr'[a].opaque = x
      /\ \A b \in Reqs \ {a} : /\ ahr'[b].alive = ahr[b].alive
                               /\ ahr'[b].opaque = ahr[b].opaque
                               /\ ahr'[b].cancelled <=> ahr[b].cancelled \/ b = tt[x].req
  <2>1. new(a) \in ReqRec /\ new(a).alive /\ ~new(a).cancelled /\ new(a).opaque = x
    BY DEF ReqRec
  <2> HIDE DEF new
  <2>2. QED
    BY <1>0, <1>1, <2>1, CancelOne
<1>4. /\ tt' \in [TTs -> TTRec] /\ tt'[x].alive /\ tt'[x].req = a
      /\ \A y \in TTs \ {x} : tt'[y] = tt[y]
  <2>1. now \in [TTs -> TTRec] /\ now[x].alive /\ \A y \in TTs \ {x} : now[y] = tt[y]
    <3>1. CASE now = tt
      BY <1>0, <3>1 DEF HttpType
    <3>2. CASE now = [tt EXCEPT ![x].armed = FALSE]
      BY <1>0, <3>2, ZenonT(60) DEF HttpType, TTRec
    <3>3. QED
      BY <3>1, <3>2
  <2> DEFINE r == [now[x] EXCEPT !.tentative = FALSE, !.req = a]
  <2>2. r \in TTRec /\ r.alive /\ r.req = a
    BY <2>1, ZenonT(60) DEF TTRec
  <2>3. tt' = [now EXCEPT ![x] = r]
    BY <1>1, <2>1
  <2> HIDE DEF r
  <2>4. QED
    BY <2>1, <2>2, <2>3
<1>5. HttpType'
  BY <1>0, <1>3, <1>4 DEF HttpType
<1>6. /\ tasks \in Seq(Jobs) /\ a \in Jobs /\ tasks' = Append(tasks, a)
      /\ Len(tasks') = Len(tasks) + 1 /\ Len(tasks) \in Nat
      /\ \A i \in 1 .. Len(tasks) : tasks'[i] = tasks[i]
      /\ tasks'[Len(tasks) + 1] = a
  BY <1>0, <1>1, Appended DEF task_run, PoolInv, PoolType, Jobs
<1>7. Located'
  <2>1. a \notin InTasks \cup OnThreads \cup Done
    BY <1>0, <1>1 DEF Located
  <2>2. InTasks' = InTasks \cup {a} /\ OnThreads' = OnThreads /\ Done' = Done
    <3>1. InTasks' = InTasks \cup {a}
      BY <1>6 DEF InTasks
    <3>2. QED
      BY <1>2, <3>1 DEF OnThreads, Done
  <2>4. \A i, j \in 1 .. Len(tasks') : tasks'[i] = tasks'[j] /\ tasks'[i] \in Reqs => i = j
    BY <1>0, <1>6, <2>1 DEF Located, InTasks
  <2>5. \A v, w \in Workers :
           worker'[v].task = worker'[w].task /\ worker'[v].task \in Reqs => v = w
    BY <1>0, <1>2 DEF Located
  <2>6. \A i, j \in 1 .. Len(completed') : completed'[i] = completed'[j] => i = j
    BY <1>0 DEF Located
  <2>7. QED
    BY <1>0, <1>3, <2>1, <2>2, <2>4, <2>5, <2>6 DEF Located
<1>8. RequestOwned'
  <2>1. ASSUME NEW b \in Reqs, ahr'[b].alive, ~ahr'[b].cancelled
        PROVE  tt'[ahr'[b].opaque].alive /\ tt'[ahr'[b].opaque].req = b
    <3>1. CASE b = a
      BY <1>3, <1>4, <3>1
    <3>2. CASE b # a
      <4>1. ahr[b].alive /\ ~ahr[b].cancelled /\ b # tt[x].req /\ ahr'[b].opaque = ahr[b].opaque
        BY <1>3, <2>1, <3>2
      <4>2. ahr[b].opaque \in TTs /\ tt[ahr[b].opaque].alive /\ tt[ahr[b].opaque].req = b
        BY <1>0, <4>1 DEF RequestOwned, HttpType
      <4>3. QED
        BY <1>4, <4>1, <4>2
    <3>3. QED
      BY <3>1, <3>2
  <2>2. ASSUME NEW y \in TTs, tt'[y].req # None
        PROVE  LET b == tt'[y].req
               IN  ahr'[b].alive /\ ~ahr'[b].cancelled /\ ahr'[b].opaque = y
    <3>1. CASE y = x
      BY <1>3, <1>4, <3>1
    <3>2. CASE y # x
      <4> DEFINE b == tt[y].req
      <4>1. tt'[y].req = b /\ b # None /\ b \in Reqs
        BY <1>0, <1>4, <2>2, <3>2 DEF HttpType, TTRec
      <4>2. ahr[b].alive /\ ~ahr[b].cancelled /\ ahr[b].opaque = y
        BY <1>0, <4>1 DEF RequestOwned
      <4>3. b # a /\ b # tt[x].req
        BY <1>0, <1>1, <3>2, <4>1, <4>2 DEF RequestOwned
      <4>4. QED
        BY <1>3, <4>1, <4>2, <4>3
    <3>3. QED
      BY <3>1, <3>2
  <2>3. QED
    BY <2>1, <2>2 DEF RequestOwned
<1>9. TorrentInTouch'
  BY <1>0, <1>4, HttpConstants DEF TorrentInTouch
<1>10. HttpHeard'
  BY <1>0, <1>2 DEF HttpHeard
<1>11. QED
  BY <1>2, <1>5, <1>7, <1>8, <1>9, <1>10 DEF IInv

-----------------------------------------------------------------------------
(* The asyncio thread.                                                      *)

\* A byte is read from the pipe, or a worker of the pipe is done.
LEMMA PipeSteps ==
  ASSUME IInv, HandlePipe \/ NewTorrentEnd \/ DeliverEnd
  PROVE  IInv'
<1>0. PoolInv /\ HttpType /\ Located /\ RequestOwned /\ TorrentInTouch /\ HttpHeard
  BY DEF IInv
<1>1. UNCHANGED <<poolVars, tt, ahr, completed>>
  BY DEF HandlePipe, NewTorrentEnd, DeliverEnd
<1>2. PoolInv' /\ Located' /\ RequestOwned'
  BY <1>0, <1>1 DEF poolVars, PoolInv, PoolType, PoolCounts, Idle, At, NoTaskStranded,
     Located, InTasks, OnThreads, Done, RequestOwned
<1>3. CASE HandlePipe
  <2>1. /\ pipe # <<>> /\ pipe' = Tail(pipe) /\ aio.pc = "poll"
        /\ aio' = [pc |-> Head(pipe), todo |-> IF Head(pipe) = "new" THEN Tentative ELSE {}]
    BY <1>3 DEF HandlePipe
  <2>2. /\ pipe' \in Seq({"new", "http"}) /\ Head(pipe) = pipe[1]
        /\ Head(pipe) \in {"new", "http"}
        /\ Len(pipe') = Len(pipe) - 1 /\ Len(pipe) \in Nat /\ Len(pipe) >= 1
        /\ \A i \in 1 .. Len(pipe') : pipe'[i] = pipe[i + 1]
    BY <1>0, <2>1, Taken DEF HttpType
  <2>3. \A c : (\E i \in 1 .. Len(pipe) : pipe[i] = c) =>
               Head(pipe) = c \/ \E i \in 1 .. Len(pipe') : pipe'[i] = c
    <3> SUFFICES ASSUME NEW c, NEW i \in 1 .. Len(pipe), pipe[i] = c, i # 1
                 PROVE  \E j \in 1 .. Len(pipe') : pipe'[j] = c
        BY <2>2
    <3>1. i - 1 \in 1 .. Len(pipe') /\ (i - 1) + 1 = i
      BY <2>2
    <3>2. QED
      BY <2>2, <3>1
  <2>4. /\ aio'.pc = Head(pipe)
        /\ aio'.todo = IF Head(pipe) = "new" THEN Tentative ELSE {}
    BY <2>1
  <2>5. aio' \in [pc : {"poll", "new", "http"}, todo : SUBSET TTs]
    BY <2>1, <2>2 DEF Tentative
  <2>6. HttpType'
    BY <1>0, <1>1, <2>2, <2>4, <2>5 DEF HttpType
  <2>7. TorrentInTouch'
    <3> SUFFICES ASSUME NEW x \in TTs, tt[x].alive, tt[x].tentative, tt[x].req = None, ~tt[x].armed
                 PROVE  x \in aio'.todo \/ \E i \in 1 .. Len(pipe') : pipe'[i] = "new"
        BY <1>0, <1>1 DEF TorrentInTouch
    <3>1. \E i \in 1 .. Len(pipe) : pipe[i] = "new"
      BY <1>0, <2>1 DEF TorrentInTouch, HttpType
    <3>2. QED
      BY <2>3, <2>4, <3>1 DEF Tentative
  <2>8. HttpHeard'
    BY <1>0, <1>1, <2>1, <2>3, <2>4 DEF HttpHeard, poolVars
  <2>9. QED
    BY <1>2, <2>6, <2>7, <2>8 DEF IInv
<1>4. CASE NewTorrentEnd \/ DeliverEnd
  <2>1. /\ aio' = [aio EXCEPT !.pc = "poll"] /\ aio.todo = {} /\ UNCHANGED pipe
        /\ aio.pc = "http" => completed = <<>>
        /\ aio.pc \in {"new", "http"}
    BY <1>0, <1>4 DEF NewTorrentEnd, DeliverEnd, HttpType
  <2>2. /\ aio'.pc = "poll" /\ aio'.todo = {}
        /\ aio' \in [pc : {"poll", "new", "http"}, todo : SUBSET TTs]
    BY <1>0, <2>1 DEF HttpType
  <2>3. HttpType'
    BY <1>0, <1>1, <2>1, <2>2 DEF HttpType
  <2>4. TorrentInTouch' /\ HttpHeard'
    BY <1>0, <1>1, <2>1, <2>2 DEF TorrentInTouch, HttpHeard, poolVars
  <2>5. QED
    BY <1>2, <2>3, <2>4 DEF IInv
<1>5. QED
  BY <1>3, <1>4

\* tracker_new_torrent announces a torrent, or its timer does.
LEMMA AnnounceSteps ==
  ASSUME IInv, NEW x \in TTs, NewTorrent(x) \/ Periodic(x)
  PROVE  IInv'
<1>0. HttpType
  BY DEF IInv
<1>1. CASE NewTorrent(x)
  <2>1. /\ tt[x].alive /\ tracker_http_torrent_announce(x, tt)
        /\ aio' = [aio EXCEPT !.todo = @ \ {x}] /\ UNCHANGED <<completed, pipe>>
    BY <1>1 DEF NewTorrent, Tentative
  <2>2. /\ aio' \in [pc : {"poll", "new", "http"}, todo : SUBSET TTs]
        /\ aio'.pc = aio.pc /\ aio'.todo = aio.todo \ {x}
    BY <1>0, <2>1 DEF HttpType
  <2>3. QED
    BY <2>1, <2>2, AnnounceStep
<1>2. CASE Periodic(x)
  <2>1. /\ tt[x].alive /\ tracker_http_torrent_announce(x, [tt EXCEPT ![x].armed = FALSE])
        /\ UNCHANGED <<completed, pipe, aio>>
    BY <1>0, <1>2 DEF Periodic, HttpType
  <2>2. /\ aio' \in [pc : {"poll", "new", "http"}, todo : SUBSET TTs]
        /\ aio'.pc = aio.pc /\ aio'.todo = aio.todo
    BY <1>0, <2>1 DEF HttpType
  <2>3. QED
    BY <2>1, <2>2, AnnounceStep
<1>3. QED
  BY <1>1, <1>2

\* ahr_deliver_cb: the request is freed, and its torrent's timer is armed if it was
\* not cancelled.
LEMMA DeliverStep ==
  ASSUME IInv, Deliver
  PROVE  IInv'
<1>0. PoolInv /\ HttpType /\ Located /\ RequestOwned /\ TorrentInTouch /\ HttpHeard
  BY DEF IInv
<1> DEFINE a == Head(completed)
           x == ahr[a].opaque
<1>1. /\ completed # <<>> /\ aio.pc = "http" /\ completed' = Tail(completed)
      /\ tt' = (IF ahr[a].cancelled THEN tt ELSE http_callback(x))
      /\ ahr' = [ahr EXCEPT ![a] = NoReq] /\ UNCHANGED <<poolVars, pipe, aio>>
  BY DEF Deliver
<1>2. /\ completed' \in Seq(Reqs) /\ a = completed[1] /\ a \in Reqs
      /\ Len(completed') = Len(completed) - 1 /\ Len(completed) \in Nat /\ Len(completed) >= 1
      /\ \A i \in 1 .. Len(completed') : completed'[i] = completed[i + 1]
  BY <1>0, <1>1, Taken DEF HttpType
<1>3. a \in Done
  BY <1>2 DEF Done
<1>4. ahr[a].alive /\ x \in TTs
  BY <1>0, <1>2, <1>3 DEF Located, HttpType
<1> HIDE DEF a, x
<1>5. /\ ahr' \in [Reqs -> ReqRec] /\ ~ahr'[a].alive
      /\ \A b \in Reqs \ {a} : ahr'[b] = ahr[b]
  BY <1>0, <1>1, <1>2 DEF HttpType, ReqRec, NoReq
<1>6. /\ tt' \in [TTs -> TTRec]
      /\ ahr[a].cancelled => tt' = tt
      /\ ~ahr[a].cancelled => /\ tt'[x].req = None /\ tt'[x].armed /\ tt'[x].alive
                              /\ \A y \in TTs \ {x} : tt'[y] = tt[y]
  <2>1. CASE ahr[a].cancelled
    BY <1>0, <1>1, <2>1 DEF HttpType
  <2>2. CASE ~ahr[a].cancelled
    <3>1. tt[x].alive
      BY <1>0, <1>2, <1>4, <2>2 DEF RequestOwned, x
    <3>2. QED
      BY <1>0, <1>1, <1>4, <2>2, <3>1 DEF http_callback, HttpType, TTRec
  <2>3. QED
    BY <2>1, <2>2
<1>7. HttpType'
  <2>1. \A y \in TTs : tt'[y].armed => tt'[y].alive
    BY <1>0, <1>6 DEF HttpType
  <2>2. \A b \in Reqs : ahr'[b].alive => ahr'[b].opaque \in TTs
    BY <1>0, <1>5 DEF HttpType
  <2>3. QED
    BY <1>0, <1>1, <1>2, <1>5, <1>6, <2>1, <2>2 DEF HttpType
<1>8. Located'
  <2>1. InTasks' = InTasks /\ OnThreads' = OnThreads
    BY <1>1 DEF poolVars, InTasks, OnThreads
  <2>2. \A i, j \in 1 .. Len(completed') : completed'[i] = completed'[j] => i = j
    BY <1>0, <1>2 DEF Located
  <2>3. Done' = Done \ {a}
    <3>1. \A i \in 1 .. Len(completed') : completed'[i] \in Done \ {a}
      BY <1>0, <1>2 DEF Located, Done
    <3>2. ASSUME NEW i \in 1 .. Len(completed), completed[i] # a
          PROVE  completed[i] \in Done'
      <4>1. i - 1 \in 1 .. Len(completed') /\ (i - 1) + 1 = i
        BY <1>2, <3>2
      <4>2. QED
        BY <1>2, <4>1 DEF Done
    <3>3. QED
      BY <3>1, <3>2 DEF Done
  <2>4. \A b \in Reqs : /\ b \notin InTasks' \/ b \notin OnThreads'
                        /\ b \notin Done' \/ b \notin InTasks' \cup OnThreads'
                        /\ ahr'[b].alive <=> b \in InTasks' \cup OnThreads' \cup Done'
    BY <1>0, <1>2, <1>3, <1>5, <2>1, <2>3 DEF Located
  <2>5. QED
    BY <1>0, <1>1, <2>2, <2>4 DEF Located, poolVars
<1>9. RequestOwned'
  <2>1. ASSUME NEW b \in Reqs, ahr'[b].alive, ~ahr'[b].cancelled
        PROVE  tt'[ahr'[b].opaque].alive /\ tt'[ahr'[b].opaque].req = b
    <3>1. b # a /\ ahr'[b] = ahr[b]
      BY <1>5, <2>1
    <3>2. ahr[b].opaque \in TTs /\ tt[ahr[b].opaque].alive /\ tt[ahr[b].opaque].req = b
      BY <1>0, <2>1, <3>1 DEF RequestOwned, HttpType
    <3>3. ~ahr[a].cancelled => ahr[b].opaque # x
      BY <1>0, <1>2, <1>4, <3>1, <3>2 DEF RequestOwned, x
    <3>4. QED
      BY <1>6, <3>1, <3>2, <3>3
  <2>2. ASSUME NEW y \in TTs, tt'[y].req # None
        PROVE  LET b == tt'[y].req
               IN  ahr'[b].alive /\ ~ahr'[b].cancelled /\ ahr'[b].opaque = y
    <3>1. tt'[y] = tt[y] /\ (~ahr[a].cancelled => y # x)
      BY <1>6, <2>2
    <3>2. /\ ahr[tt[y].req].alive /\ ~ahr[tt[y].req].cancelled /\ ahr[tt[y].req].opaque = y
          /\ tt[y].req \in Reqs
      BY <1>0, <2>2, <3>1 DEF RequestOwned, HttpType, TTRec
    <3>3. tt[y].req # a
      BY <3>1, <3>2 DEF x
    <3>4. QED
      BY <1>5, <3>1, <3>2, <3>3
  <2>3. QED
    BY <2>1, <2>2 DEF RequestOwned
<1>10. TorrentInTouch' /\ HttpHeard'
  <2>1. TorrentInTouch'
    BY <1>0, <1>1, <1>6 DEF TorrentInTouch
  <2>2. HttpHeard'
    BY <1>1 DEF HttpHeard
  <2>3. QED
    BY <2>1, <2>2
<1>11. PoolInv'
  BY <1>0, <1>1 DEF poolVars, PoolInv, PoolType, PoolCounts, Idle, At, NoTaskStranded
<1>12. QED
  BY <1>7, <1>8, <1>9, <1>10, <1>11 DEF IInv

\* tracker_remove_torrent and tracker_add_torrent.
LEMMA TorrentSteps ==
  ASSUME IInv, NEW x \in TTs, Remove(x) \/ AddTorrent(x)
  PROVE  IInv'
<1>0. PoolInv /\ HttpType /\ Located /\ RequestOwned /\ TorrentInTouch /\ HttpHeard
  BY DEF IInv
<1>1. UNCHANGED <<poolVars, completed, aio>>
  BY DEF Remove, AddTorrent
<1>2. PoolInv'
  BY <1>0, <1>1 DEF poolVars, PoolInv, PoolType, PoolCounts, Idle, At, NoTaskStranded
<1>3. CASE Remove(x)
  <2>1. ahr' = CancelledOf(x) /\ tt' = [tt EXCEPT ![x] = NoTT] /\ UNCHANGED pipe
    BY <1>3 DEF Remove
  <2>2. /\ ahr' \in [Reqs -> ReqRec]
        /\ \A b \in Reqs : /\ ahr'[b].alive = ahr[b].alive /\ ahr'[b].opaque = ahr[b].opaque
                           /\ ahr'[b].cancelled <=> ahr[b].cancelled \/ b = tt[x].req
    BY <1>0, <2>1, CancelOne
  <2>3. /\ tt' \in [TTs -> TTRec] /\ ~tt'[x].alive /\ tt'[x].req = None /\ ~tt'[x].armed
        /\ \A y \in TTs \ {x} : tt'[y] = tt[y]
    BY <1>0, <2>1 DEF HttpType, NoTT, TTRec
  <2>4. HttpType'
    BY <1>0, <1>1, <2>1, <2>2, <2>3 DEF HttpType
  <2>5. Located'
    BY <1>0, <1>1, <2>2 DEF Located, InTasks, OnThreads, Done, poolVars
  <2>6. RequestOwned'
    <3>1. ASSUME NEW b \in Reqs, ahr'[b].alive, ~ahr'[b].cancelled
          PROVE  tt'[ahr'[b].opaque].alive /\ tt'[ahr'[b].opaque].req = b
      <4>1. ahr[b].opaque \in TTs /\ tt[ahr[b].opaque].alive /\ tt[ahr[b].opaque].req = b
        BY <1>0, <2>2, <3>1 DEF RequestOwned, HttpType
      <4>2. ahr[b].opaque # x
        BY <2>2, <3>1, <4>1
      <4>3. QED
        BY <2>2, <2>3, <4>1, <4>2
    <3>2. ASSUME NEW y \in TTs, tt'[y].req # None
          PROVE  LET b == tt'[y].req
                 IN  ahr'[b].alive /\ ~ahr'[b].cancelled /\ ahr'[b].opaque = y
      <4>1. y # x /\ tt'[y] = tt[y] /\ tt[y].req \in Reqs
        BY <1>0, <2>3, <3>2 DEF HttpType, TTRec
      <4>2. ahr[tt[y].req].alive /\ ~ahr[tt[y].req].cancelled /\ ahr[tt[y].req].opaque = y
        BY <1>0, <3>2, <4>1 DEF RequestOwned
      <4>3. tt[y].req # tt[x].req
        BY <1>0, <3>2, <4>1, <4>2 DEF RequestOwned
      <4>4. QED
        BY <2>2, <4>1, <4>2, <4>3
    <3>3. QED
      BY <3>1, <3>2 DEF RequestOwned
  <2>7. TorrentInTouch' /\ HttpHeard'
    BY <1>0, <1>1, <2>1, <2>3 DEF TorrentInTouch, HttpHeard, poolVars
  <2>8. QED
    BY <1>2, <2>4, <2>5, <2>6, <2>7 DEF IInv
<1>4. CASE AddTorrent(x)
  <2> DEFINE new == [NoTT EXCEPT !.alive = TRUE, !.tentative = TRUE]
  <2>1. /\ ~tt[x].alive /\ tt' = [tt EXCEPT ![x] = new] /\ pipe' = Append(pipe, "new")
        /\ UNCHANGED ahr
    BY <1>4 DEF AddTorrent
  <2>2. new \in TTRec /\ new.alive /\ new.tentative /\ new.req = None /\ ~new.armed
    BY DEF NoTT, TTRec
  <2> HIDE DEF new
  <2>3. /\ tt' \in [TTs -> TTRec] /\ tt'[x] = new
        /\ \A y \in TTs \ {x} : tt'[y] = tt[y]
    BY <1>0, <2>1, <2>2 DEF HttpType
  <2>4. /\ pipe' \in Seq({"new", "http"}) /\ Len(pipe') = Len(pipe) + 1 /\ Len(pipe) \in Nat
        /\ \A i \in 1 .. Len(pipe) : pipe'[i] = pipe[i]
        /\ pipe'[Len(pipe) + 1] = "new"
    BY <1>0, <2>1, Appended DEF HttpType
  <2>5. HttpType'
    BY <1>0, <1>1, <2>1, <2>2, <2>3, <2>4 DEF HttpType
  <2>6. Located'
    BY <1>0, <1>1, <2>1 DEF Located, InTasks, OnThreads, Done, poolVars
  <2>7. RequestOwned'
    BY <1>0, <2>1, <2>2, <2>3 DEF RequestOwned, HttpType
  <2>8. TorrentInTouch'
    BY <1>0, <1>1, <2>2, <2>3, <2>4 DEF TorrentInTouch
  <2>9. HttpHeard'
    BY <1>0, <1>1, <2>4 DEF HttpHeard, poolVars
  <2>10. QED
    BY <1>2, <2>5, <2>6, <2>7, <2>8, <2>9 DEF IInv
<1>5. QED
  BY <1>3, <1>4

-----------------------------------------------------------------------------
(* Threads of the pool.                                                     *)

\* A task of somebody else is run: no request is touched.
LEMMA RunOtherStep ==
  ASSUME IInv, RunOther
  PROVE  IInv'
<1>0. PoolInv /\ HttpType /\ Located /\ RequestOwned /\ TorrentInTouch /\ HttpHeard
  BY DEF IInv
<1>1. task_run(Other) /\ UNCHANGED httpVars
  BY DEF RunOther
<1>2. /\ PoolInv'
      /\ \A w \in Workers : worker'[w].task = worker[w].task
                           /\ (worker[w].pc = "wake" => worker'[w].pc = "wake")
  BY <1>0, <1>1, TaskRunPool DEF Jobs
<1>3. /\ Len(tasks') = Len(tasks) + 1 /\ Len(tasks) \in Nat
      /\ \A i \in 1 .. Len(tasks) : tasks'[i] = tasks[i]
      /\ tasks'[Len(tasks) + 1] = Other
  BY <1>0, <1>1, Appended DEF task_run, PoolInv, PoolType, Jobs
<1>4. Located'
  <2>1. InTasks' = InTasks \cup {Other}
    BY <1>3 DEF InTasks
  <2>2. OnThreads' = OnThreads /\ Done' = Done
    BY <1>1, <1>2 DEF OnThreads, Done, httpVars
  <2>3. \A i, j \in 1 .. Len(tasks') : tasks'[i] = tasks'[j] /\ tasks'[i] \in Reqs => i = j
    BY <1>0, <1>3, HttpConstants DEF Located
  <2>4. \A v, w \in Workers :
           worker'[v].task = worker'[w].task /\ worker'[v].task \in Reqs => v = w
    BY <1>0, <1>2 DEF Located
  <2>5. QED
    BY <1>0, <1>1, <2>1, <2>2, <2>3, <2>4, HttpConstants DEF Located, httpVars
<1>5. HttpType' /\ RequestOwned' /\ TorrentInTouch' /\ HttpHeard'
  BY <1>0, <1>1, <1>2 DEF HttpType, RequestOwned, TorrentInTouch, HttpHeard, httpVars
<1>6. QED
  BY <1>2, <1>4, <1>5 DEF IInv

\* A thread takes a task: the request moves from the queue to the thread.
LEMMA ThreadStep ==
  ASSUME IInv, NEW w \in Workers, Thread(w)
  PROVE  IInv'
<1>0. PoolInv /\ HttpType /\ Located /\ RequestOwned /\ TorrentInTouch /\ HttpHeard
  BY DEF IInv
<1>1. TaskThread(w) /\ UNCHANGED httpVars
  BY DEF Thread
<1>2. PoolInv' /\ worker[w].pc \in {"loop", "woken"} /\ worker[w].task = 0
  BY <1>0, <1>1, TaskThreadPool DEF TaskThread, PoolInv, PoolType
<1>3. /\ \A v \in Workers \ {w} : worker'[v] = worker[v]
      /\ tasks # <<>> => worker'[w].task = Head(tasks) /\ tasks' = Tail(tasks)
      /\ tasks = <<>> => worker'[w].task = 0 /\ tasks' = tasks
  <2>1. worker \in [Workers -> [pc : Pcs, task : Jobs \cup {0}]]
    BY <1>0 DEF PoolInv, PoolType
  <2>2. QED
    BY <1>1, <1>2, <2>1 DEF TaskThread, NoThread
<1>4. Located'
  <2>1. CASE tasks = <<>>
    <3>1. \A v \in Workers : worker'[v].task = worker[v].task
      BY <1>2, <1>3, <2>1
    <3>2. tasks' = tasks /\ OnThreads' = OnThreads
      BY <1>3, <2>1, <3>1 DEF OnThreads
    <3>3. QED
      BY <1>0, <1>1, <3>1, <3>2 DEF Located, InTasks, Done, httpVars
  <2>2. CASE tasks # <<>>
    <3> DEFINE a == Head(tasks)
    <3>1. /\ a = tasks[1] /\ a \in Jobs /\ worker'[w].task = a
          /\ Len(tasks') = Len(tasks) - 1 /\ Len(tasks) \in Nat /\ Len(tasks) >= 1
          /\ \A i \in 1 .. Len(tasks') : tasks'[i] = tasks[i + 1]
      BY <1>0, <1>3, <2>2, Taken DEF PoolInv, PoolType
    <3> HIDE DEF a
    <3>2. OnThreads' \cap Reqs = (OnThreads \cup {a}) \cap Reqs
      BY <1>2, <1>3, <3>1, HttpConstants DEF OnThreads
    <3>3. \A i \in 1 .. Len(tasks') : tasks'[i] \in InTasks /\ (a \in Reqs => tasks'[i] # a)
      BY <1>0, <3>1 DEF Located, InTasks
    <3>4. ASSUME NEW i \in 1 .. Len(tasks), tasks[i] # a
          PROVE  tasks[i] \in InTasks'
      <4>1. i - 1 \in 1 .. Len(tasks') /\ (i - 1) + 1 = i
        BY <3>1, <3>4
      <4>2. QED
        BY <3>1, <4>1 DEF InTasks
    <3>5. InTasks' \cap Reqs = (InTasks \ {a}) \cap Reqs /\ a \in InTasks
      BY <3>1, <3>3, <3>4, SMTT(30) DEF InTasks
    <3>6. \A i, j \in 1 .. Len(tasks') : tasks'[i] = tasks'[j] /\ tasks'[i] \in Reqs => i = j
      BY <1>0, <3>1 DEF Located
    <3>7. \A u, v \in Workers :
             worker'[v].task = worker'[u].task /\ worker'[v].task \in Reqs => v = u
      BY <1>0, <1>3, <3>1, <3>5 DEF Located, OnThreads
    <3>8. Done' = Done /\ UNCHANGED <<ahr, completed>>
      BY <1>1 DEF Done, httpVars
    <3>9. \A b \in Reqs : /\ b \notin InTasks' \/ b \notin OnThreads'
                          /\ b \notin Done' \/ b \notin InTasks' \cup OnThreads'
                          /\ ahr'[b].alive <=> b \in InTasks' \cup OnThreads' \cup Done'
      BY <1>0, <3>2, <3>5, <3>8 DEF Located
    <3>10. QED
      BY <1>0, <3>6, <3>7, <3>8, <3>9 DEF Located
  <2>3. QED
    BY <2>1, <2>2
<1>5. HttpType' /\ RequestOwned' /\ TorrentInTouch'
  BY <1>0, <1>1 DEF HttpType, RequestOwned, TorrentInTouch, httpVars
<1>6. HttpHeard'
  BY <1>0, <1>1, <1>2, <1>3 DEF HttpHeard, httpVars
<1>7. QED
  BY <1>2, <1>4, <1>5, <1>6 DEF IInv

\* A request is done: it moves from the thread to asyncio_http_completed.
LEMMA HttpDoneStep ==
  ASSUME IInv, NEW w \in Workers, HttpDone(w)
  PROVE  IInv'
<1>0. PoolInv /\ HttpType /\ Located /\ RequestOwned /\ TorrentInTouch /\ HttpHeard
  BY DEF IInv
<1> DEFINE a == worker[w].task
<1>1. /\ worker[w].pc = "run" /\ a # Other /\ completed' = <<a>> \o completed
      /\ worker' = [worker EXCEPT ![w] = [pc |-> "wake", task |-> 0]]
      /\ UNCHANGED <<tasks, num_task_threads, num_task_threads_avail, tt, ahr, pipe, aio>>
  BY DEF HttpDone
<1>2. a \in Reqs /\ a \in OnThreads
  BY <1>0, <1>1 DEF PoolInv, PoolType, Jobs, OnThreads
<1>3. /\ PoolInv' /\ worker'[w].pc = "wake" /\ worker'[w].task = 0
      /\ \A v \in Workers \ {w} : worker'[v] = worker[v]
  BY <1>0, <1>1, ReturnPool
<1>4. /\ completed' \in Seq(Reqs) /\ Len(completed') = Len(completed) + 1
      /\ Len(completed) \in Nat /\ completed'[1] = a
      /\ \A i \in 2 .. Len(completed) + 1 : completed'[i] = completed[i - 1]
  BY <1>0, <1>1, <1>2, Prepended DEF HttpType
<1>5. Located'
  <2>1. Done' = Done \cup {a}
    <3>1. \A i \in 1 .. Len(completed') : completed'[i] \in Done \cup {a}
      BY <1>4 DEF Done
    <3>2. ASSUME NEW i \in 1 .. Len(completed) PROVE completed[i] \in Done'
      <4>1. i + 1 \in 2 .. Len(completed) + 1 /\ i + 1 \in 1 .. Len(completed') /\ (i + 1) - 1 = i
        BY <1>4
      <4>2. QED
        BY <1>4, <4>1 DEF Done
    <3>3. a \in Done'
      BY <1>4 DEF Done
    <3>4. QED
      BY <3>1, <3>2, <3>3 DEF Done
  <2>2. OnThreads' \cap Reqs = (OnThreads \ {a}) \cap Reqs
    BY <1>0, <1>2, <1>3, HttpConstants DEF OnThreads, Located
  <2>3. \A i, j \in 1 .. Len(completed') : completed'[i] = completed'[j] => i = j
    <3>1. \A i \in 1 .. Len(completed) : completed[i] # a
      BY <1>0, <1>2 DEF Located, Done
    <3>2. QED
      BY <1>0, <1>4, <3>1, SMTT(30) DEF Located
  <2>4. \A u, v \in Workers :
           worker'[v].task = worker'[u].task /\ worker'[v].task \in Reqs => v = u
    BY <1>0, <1>3, HttpConstants DEF Located
  <2>5. InTasks' = InTasks /\ UNCHANGED <<tasks, ahr>>
    BY <1>1 DEF InTasks
  <2>6. \A b \in Reqs : /\ b \notin InTasks' \/ b \notin OnThreads'
                        /\ b \notin Done' \/ b \notin InTasks' \cup OnThreads'
                        /\ ahr'[b].alive <=> b \in InTasks' \cup OnThreads' \cup Done'
    BY <1>0, <1>2, <2>1, <2>2, <2>5 DEF Located
  <2>7. QED
    BY <1>0, <2>3, <2>4, <2>5, <2>6 DEF Located
<1>6. HttpType' /\ RequestOwned' /\ TorrentInTouch'
  BY <1>0, <1>1, <1>4 DEF HttpType, RequestOwned, TorrentInTouch
<1>7. HttpHeard'
  BY <1>3 DEF HttpHeard
<1>8. QED
  BY <1>3, <1>5, <1>6, <1>7 DEF IInv

\* asyncio_wakeup_worker at the end of asyncio_http_cb, or the end of another task.
LEMMA ReturnSteps ==
  ASSUME IInv, NEW w \in Workers, HttpWake(w) \/ OtherDone(w)
  PROVE  IInv'
<1>0. PoolInv /\ HttpType /\ Located /\ RequestOwned /\ TorrentInTouch /\ HttpHeard
  BY DEF IInv
<1>1. /\ worker' = [worker EXCEPT ![w] = [pc |-> "loop", task |-> 0]]
      /\ worker[w].pc \in {"run", "wake"} /\ (worker[w].pc = "run" => worker[w].task = Other)
      /\ UNCHANGED <<tasks, num_task_threads, num_task_threads_avail, tt, ahr, completed, aio>>
  BY DEF HttpWake, OtherDone, TaskReturns, httpVars
<1>2. /\ PoolInv' /\ worker'[w].pc = "loop" /\ worker'[w].task = 0
      /\ \A v \in Workers \ {w} : worker'[v] = worker[v]
  BY <1>0, <1>1, ReturnPool
<1>3. worker[w].task \notin Reqs
  BY <1>0, <1>1, HttpConstants DEF PoolInv, PoolType
<1>4. Located'
  <2>1. OnThreads' \cap Reqs = OnThreads \cap Reqs
    BY <1>2, <1>3, HttpConstants DEF OnThreads
  <2>2. InTasks' = InTasks /\ Done' = Done
    BY <1>1 DEF InTasks, Done
  <2>3. \A u, v \in Workers :
           worker'[v].task = worker'[u].task /\ worker'[v].task \in Reqs => v = u
    BY <1>0, <1>2, HttpConstants DEF Located
  <2>4. \A b \in Reqs : /\ b \notin InTasks' \/ b \notin OnThreads'
                        /\ b \notin Done' \/ b \notin InTasks' \cup OnThreads'
                        /\ ahr'[b].alive <=> b \in InTasks' \cup OnThreads' \cup Done'
    BY <1>0, <1>1, <2>1, <2>2 DEF Located
  <2>5. QED
    BY <1>0, <1>1, <2>3, <2>4 DEF Located
<1>5. RequestOwned'
  BY <1>0, <1>1 DEF RequestOwned
<1>6. CASE OtherDone(w)
  <2>1. UNCHANGED pipe /\ worker[w].pc = "run"
    BY <1>6 DEF OtherDone, httpVars
  <2>2. HttpType' /\ TorrentInTouch' /\ HttpHeard'
    BY <1>0, <1>1, <1>2, <2>1 DEF HttpType, TorrentInTouch, HttpHeard
  <2>3. QED
    BY <1>2, <1>4, <1>5, <2>2 DEF IInv
<1>7. CASE HttpWake(w)
  <2>1. pipe' = Append(pipe, "http")
    BY <1>7 DEF HttpWake
  <2>2. /\ pipe' \in Seq({"new", "http"}) /\ Len(pipe') = Len(pipe) + 1 /\ Len(pipe) \in Nat
        /\ \A i \in 1 .. Len(pipe) : pipe'[i] = pipe[i]
        /\ pipe'[Len(pipe) + 1] = "http"
    BY <1>0, <2>1, Appended DEF HttpType
  <2>3. HttpType'
    BY <1>0, <1>1, <2>2 DEF HttpType
  <2>4. TorrentInTouch'
    BY <1>0, <1>1, <2>2 DEF TorrentInTouch
  <2>5. HttpHeard'
    BY <2>2 DEF HttpHeard
  <2>6. QED
    BY <1>2, <1>4, <1>5, <2>3, <2>4, <2>5 DEF IInv
<1>8. QED
  BY <1>6, <1>7

-----------------------------------------------------------------------------
(* The theorems.                                                            *)

LEMMA NextInv ==
  ASSUME IInv, [Next]_vars
  PROVE  IInv'
<1>1. CASE Asyncio
  BY <1>1, PipeSteps, AnnounceSteps, DeliverStep DEF Asyncio
<1>2. CASE \E x \in TTs : Periodic(x) \/ Remove(x) \/ AddTorrent(x)
  BY <1>2, AnnounceSteps, TorrentSteps
<1>3. CASE \E w \in Workers : Worker(w)
  BY <1>3, ThreadStep, HttpDoneStep, ReturnSteps DEF Worker
<1>4. CASE UNCHANGED vars
  BY <1>4 DEF vars, poolVars, httpVars, IInv, PoolInv, PoolType, PoolCounts, Idle, At,
     NoTaskStranded, HttpType, Located, InTasks, OnThreads, Done, RequestOwned,
     TorrentInTouch, HttpHeard
<1>5. QED
  BY <1>1, <1>2, <1>3, <1>4, RunOtherStep DEF Next

\* A request that is not freed is in one place only.
LEMMA OnePlace ==
  ASSUME IInv, NEW a \in Reqs, ahr[a].alive
  PROVE  Cardinality(Places(a)) = 1
<1>0. /\ Located /\ DOMAIN tasks = 1 .. Len(tasks) /\ DOMAIN completed = 1 .. Len(completed)
  BY DEF IInv, PoolInv, PoolType, HttpType
<1>1. \E p : Places(a) = {p}
  <2>1. CASE a \in InTasks
    <3>1. PICK i \in 1 .. Len(tasks) : tasks[i] = a
      BY <2>1 DEF InTasks
    <3>2. {j \in DOMAIN tasks : tasks[j] = a} = {i}
      BY <1>0, <3>1 DEF Located
    <3>3. {w \in Workers : worker[w].task = a} = {}
      BY <1>0, <2>1 DEF Located, OnThreads
    <3>4. {j \in DOMAIN completed : completed[j] = a} = {}
      BY <1>0, <2>1 DEF Located, Done
    <3>5. Places(a) = {<<"queue", i>>}
      BY <3>2, <3>3, <3>4 DEF Places
    <3>6. QED
      BY <3>5
  <2>2. CASE a \in OnThreads
    <3>1. PICK v \in Workers : worker[v].task = a
      BY <2>2 DEF OnThreads
    <3>2. {w \in Workers : worker[w].task = a} = {v}
      BY <1>0, <3>1 DEF Located
    <3>3. {j \in DOMAIN tasks : tasks[j] = a} = {}
      BY <1>0, <2>2 DEF Located, InTasks
    <3>4. {j \in DOMAIN completed : completed[j] = a} = {}
      BY <1>0, <2>2 DEF Located, Done
    <3>5. Places(a) = {<<"thread", v>>}
      BY <3>2, <3>3, <3>4 DEF Places
    <3>6. QED
      BY <3>5
  <2>3. CASE a \in Done
    <3>1. PICK i \in 1 .. Len(completed) : completed[i] = a
      BY <2>3 DEF Done
    <3>2. {j \in DOMAIN completed : completed[j] = a} = {i}
      BY <1>0, <3>1 DEF Located
    <3>3. {w \in Workers : worker[w].task = a} = {}
      BY <1>0, <2>3 DEF Located, OnThreads
    <3>4. {j \in DOMAIN tasks : tasks[j] = a} = {}
      BY <1>0, <2>3 DEF Located, InTasks
    <3>5. Places(a) = {<<"done", i>>}
      BY <3>2, <3>3, <3>4 DEF Places
    <3>6. QED
      BY <3>5
  <2>4. QED
    BY <1>0, <2>1, <2>2, <2>3 DEF Located
<1>2. QED
  BY <1>1, FS_Singleton

\* The invariant says that no tracker is forgotten.
LEMMA InvInTouch ==
  ASSUME IInv
  PROVE  InTouch
<1>1. DOMAIN pipe = 1 .. Len(pipe)
  BY DEF IInv, HttpType
<1>2. \A x \in TTs : tt[x].alive =>
           \/ tt[x].tentative /\ (x \in aio.todo \/ "new" \in {pipe[i] : i \in DOMAIN pipe})
           \/ tt[x].req # None
           \/ tt[x].armed
  BY <1>1 DEF IInv, TorrentInTouch
<1>3. completed # <<>> => Coming("http") \/ At("wake") # {}
  BY <1>1 DEF IInv, HttpHeard, Coming, At
<1>4. QED
  BY <1>2, <1>3, OnePlace DEF InTouch

\* What the pool counts is what its threads do, a request is in one place, belongs to
\* its torrent, and the asyncio thread will hear of it: in every state.
THEOREM HttpInductive == Spec => []IInv
<1>1. Init => IInv
  BY InitInv
<1>2. IInv /\ [Next]_vars => IInv'
  BY NextInv
<1>3. QED
  BY <1>1, <1>2, PTL DEF Spec

\* task_run may signal a condition nobody waits on: still no task stays in the queue
\* with all threads asleep, for any number of threads.
THEOREM PoolNeverStrands == Spec => []NoTaskStranded
<1>1. IInv => NoTaskStranded
  BY DEF IInv, PoolInv
<1>2. QED
  BY <1>1, HttpInductive, PTL

\* http_callback never touches a tracker_torrent_t that is freed or waits for another
\* request, although addresses are used again.
THEOREM CallbackFindsItsTorrent == Spec => []RequestOwned
<1>1. IInv => RequestOwned
  BY DEF IInv
<1>2. QED
  BY <1>1, HttpInductive, PTL

\* No torrent is forgotten between tracker_add_torrent, the asyncio thread, the pool
\* and ahr_deliver_cb.
THEOREM NobodyForgotten == Spec => []InTouch
<1>1. IInv => InTouch
  BY InvInTouch
<1>2. QED
  BY <1>1, HttpInductive, PTL
=============================================================================
