------------------------------ MODULE TaskPool ------------------------------
(***************************************************************************)
(* The task pool of task.c: threads that are launched when there is work   *)
(* and none of them waits, and that end when enough others wait already.   *)
(*                                                                         *)
(* A step is what a thread does while it holds task_mutex.  A thread that  *)
(* was signalled still counts as available until it runs ("woken"): a      *)
(* second task_run in between signals, and there may be nobody to hear it. *)
(***************************************************************************)
EXTENDS Integers, Sequences, FiniteSets

CONSTANTS
    MaxThreads,   \* MAX_TASK_THREADS (16)
    MaxIdle       \* MAX_IDLE_TASK_THREADS (2)

ASSUME PoolConstants == MaxThreads \in Nat \ {0} /\ MaxIdle \in Nat \ {0}

Workers == 1 .. MaxThreads

VARIABLES
    tasks,        \* the queue
    worker,       \* per thread: pc, and the task it runs
    num_task_threads,
    num_task_threads_avail

poolVars == <<tasks, worker, num_task_threads, num_task_threads_avail>>

NoThread == [pc |-> "none", task |-> 0]

PoolInit ==
    /\ tasks = <<>>
    /\ worker = [w \in Workers |-> NoThread]
    /\ num_task_threads = 0
    /\ num_task_threads_avail = 0

At(pc) == {w \in Workers : worker[w].pc = pc}

\* task_launch_thread.  A thread is as good as another.
Launch ==
    /\ worker' = [worker EXCEPT ![CHOOSE w \in At("none") : TRUE].pc = "loop"]
    /\ num_task_threads' = num_task_threads + 1
    /\ UNCHANGED num_task_threads_avail

\* hts_cond_signal: one of the threads that wait wakes up, if there is one.
Signal ==
    /\ \/ \E w \in At("wait") : worker' = [worker EXCEPT ![w].pc = "woken"]
       \/ At("wait") = {} /\ UNCHANGED worker
    /\ UNCHANGED <<num_task_threads, num_task_threads_avail>>

task_run(t) ==
    /\ tasks' = Append(tasks, t)
    /\ \/ num_task_threads_avail > 0 /\ Signal
       \/ num_task_threads_avail = 0 /\ num_task_threads < MaxThreads /\ Launch
       \/ /\ num_task_threads_avail = 0 /\ num_task_threads = MaxThreads
          /\ UNCHANGED <<worker, num_task_threads, num_task_threads_avail>>

\* The threads available once w is back in its loop.
\* Slip: a thread that was woken stays counted.
AvailKept(w) == num_task_threads_avail
Avail(w) == num_task_threads_avail - (IF worker[w].pc = "woken" THEN 1 ELSE 0)

\* task_thread with the mutex: take a task, or end, or wait.
TaskThread(w) ==
    /\ worker[w].pc \in {"loop", "woken"}
    /\ \/ /\ tasks # <<>>
          /\ worker' = [worker EXCEPT ![w] = [pc |-> "run", task |-> Head(tasks)]]
          /\ tasks' = Tail(tasks)
          /\ num_task_threads_avail' = Avail(w)
          /\ UNCHANGED num_task_threads
       \/ /\ tasks = <<>> /\ Avail(w) = MaxIdle
          /\ worker' = [worker EXCEPT ![w] = NoThread]
          /\ num_task_threads' = num_task_threads - 1
          /\ num_task_threads_avail' = Avail(w)
          /\ UNCHANGED tasks
       \/ /\ tasks = <<>> /\ Avail(w) # MaxIdle
          /\ worker' = [worker EXCEPT ![w].pc = "wait"]
          /\ num_task_threads_avail' = Avail(w) + 1
          /\ UNCHANGED <<tasks, num_task_threads>>

\* t_fn has returned.
TaskReturns(w) == worker' = [worker EXCEPT ![w] = [pc |-> "loop", task |-> 0]]

\* A task in the queue has a thread that will come for it: not all threads wait,
\* whatever signals were lost on threads already woken.
NoTaskStranded ==
    tasks # <<>> => \E w \in Workers : worker[w].pc \notin {"none", "wait"}
=============================================================================
