----------------------------- MODULE ThreadPool -----------------------------
(***************************************************************************)
(* The thread pool of epoll_study/thread_pools.h (thread_pool_yjs.cpp is   *)
(* the same code): worker threads take tasks from a queue that a mutex and *)
(* a condition variable protect, other threads commit tasks and may wait   *)
(* for their futures, and the owner destroys the pool.                     *)
(*                                                                         *)
(* One step is what a thread does between two points where another thread  *)
(* can see or change something: a read of the atomic stop, an operation on *)
(* the mutex or the condition variable, a change of the queue.             *)
(***************************************************************************)
EXTENDS Integers, Sequences, FiniteSets

CONSTANTS
    Threads,            \* the argument of the constructor
    ThreadpoolMaxNum,   \* THREADPOOL_MAX_NUM, 16 in the code
    Committers,         \* the threads that call commit
    MaxTasks,           \* bound: calls of commit
    None                \* the mutex is free

ASSUME PoolAssumption ==
    /\ Threads \in Nat
    /\ ThreadpoolMaxNum \in Nat
    /\ MaxTasks \in Nat
    /\ None \notin Int

\* create_threadpool starts no thread at all when asked for too many.
Workers == IF Threads < ThreadpoolMaxNum THEN 1..Threads ELSE {}

VARIABLES
    stop,       \* the atomic flag
    idle,       \* _idlThrNum
    tasks,      \* _tasks; a task is the number of its commit
    lock,       \* the worker that holds _lock, or None
    pc,         \* where each worker is
    task,       \* the task a worker has moved out of the queue
    cpc,        \* where each committer is
    fut,        \* the task whose future a committer has
    owner,      \* how far the destructor has come
    committed,  \* history: the tasks in the order they were queued
    started,    \* history: the tasks in the order they were begun
    finished    \* the tasks whose future is ready

vars == <<stop, idle, tasks, lock, pc, task, cpc, fut, owner, committed,
          started, finished>>

Init ==
    /\ stop = FALSE
    /\ idle = 0
    /\ tasks = <<>>
    /\ lock = None
    /\ pc = [w \in Workers |-> "check"]
    /\ task = [w \in Workers |-> 0]
    /\ cpc = [c \in Committers |-> "idle"]
    /\ fut = [c \in Committers |-> 0]
    /\ owner = "alive"
    /\ committed = <<>>
    /\ started = <<>>
    /\ finished = {}

Goto(w, place) == pc' = [pc EXCEPT ![w] = place]

-----------------------------------------------------------------------------
(* The worker function.                                                    *)

\* while (!stop)
Check(w) ==
    /\ pc[w] = "check"
    /\ Goto(w, IF stop THEN "exit" ELSE "lock")
    /\ UNCHANGED <<stop, idle, tasks, lock, task, cpc, fut, owner, committed, started, finished>>

\* Mutant: an if instead of the while inside wait: once woken, the predicate is
\* not evaluated again.
Acquire_NoRecheck(w) ==
    /\ pc[w] \in {"lock", "woken"}
    /\ lock = None
    /\ lock' = w
    /\ Goto(w, IF pc[w] = "woken" THEN "test" ELSE "pred")
    /\ UNCHANGED <<stop, idle, tasks, task, cpc, fut, owner, committed, started, finished>>

\* The unique_lock, or wait taking the mutex again after a notification.
Acquire(w) ==
    /\ pc[w] \in {"lock", "woken"}
    /\ lock = None
    /\ lock' = w
    /\ Goto(w, "pred")
    /\ UNCHANGED <<stop, idle, tasks, task, cpc, fut, owner, committed, started, finished>>

\* The predicate of wait.
Predicate(w) ==
    /\ pc[w] = "pred"
    /\ Goto(w, IF stop \/ tasks # <<>> THEN "test" ELSE "block")
    /\ UNCHANGED <<stop, idle, tasks, lock, task, cpc, fut, owner, committed, started, finished>>

\* wait releases the mutex and blocks, in one step.
Block(w) ==
    /\ pc[w] = "block"
    /\ lock' = None
    /\ Goto(w, "wait")
    /\ UNCHANGED <<stop, idle, tasks, task, cpc, fut, owner, committed, started, finished>>

\* A condition variable may wake a thread for no reason.
Spurious(w) ==
    /\ pc[w] = "wait"
    /\ Goto(w, "woken")
    /\ UNCHANGED <<stop, idle, tasks, lock, task, cpc, fut, owner, committed, started, finished>>

\* if (stop && _tasks.empty()) return;
Test(w) ==
    /\ pc[w] = "test"
    /\ IF stop /\ tasks = <<>>
       THEN Goto(w, "returned") /\ lock' = None
       ELSE Goto(w, "front") /\ UNCHANGED lock
    /\ UNCHANGED <<stop, idle, tasks, task, cpc, fut, owner, committed, started, finished>>

Front(w) ==
    /\ pc[w] = "front"
    /\ tasks # <<>>
    /\ task' = [task EXCEPT ![w] = Head(tasks)]
    /\ Goto(w, "pop")
    /\ UNCHANGED <<stop, idle, tasks, lock, cpc, fut, owner, committed, started, finished>>

\* The task leaves the queue and begins, with the mutex still held.
PopRun(w) ==
    /\ pc[w] = "pop"
    /\ tasks' = Tail(tasks)
    /\ idle' = idle - 1
    /\ started' = Append(started, task[w])
    /\ Goto(w, "run")
    /\ UNCHANGED <<stop, lock, task, cpc, fut, owner, committed, finished>>

\* The task returns, its future is ready; the end of the block unlocks.
Finish(w) ==
    /\ pc[w] = "run"
    /\ idle' = idle + 1
    /\ finished' = finished \cup {task[w]}
    /\ lock' = None
    /\ Goto(w, "check")
    /\ UNCHANGED <<stop, tasks, task, cpc, fut, owner, committed, started>>

Exit(w) ==
    /\ pc[w] = "exit"
    /\ idle' = idle + 1
    /\ Goto(w, "returned")
    /\ UNCHANGED <<stop, tasks, lock, task, cpc, fut, owner, committed, started, finished>>

-----------------------------------------------------------------------------
(* commit.  On a stopped pool it throws and changes nothing.  The pool's   *)
(* members live until the destructor returns.                              *)

Commit(c) ==
    /\ cpc[c] = "idle"
    /\ owner # "gone"
    /\ ~stop
    /\ cpc' = [cpc EXCEPT ![c] = "push"]
    /\ UNCHANGED <<stop, idle, tasks, lock, pc, task, fut, owner, committed, started, finished>>

\* Mutant: the task is put before the ones that wait.
Push_Front(c) ==
    /\ cpc[c] = "push"
    /\ lock = None
    /\ LET t == Len(committed) + 1
       IN  /\ tasks' = <<t>> \o tasks
           /\ committed' = Append(committed, t)
           /\ fut' = [fut EXCEPT ![c] = t]
    /\ cpc' = [cpc EXCEPT ![c] = "notify"]
    /\ UNCHANGED <<stop, idle, lock, pc, task, owner, started, finished>>

\* lock_guard, emplace, and the end of the block.
Push(c) ==
    /\ cpc[c] = "push"
    /\ lock = None
    /\ LET t == Len(committed) + 1
       IN  /\ tasks' = Append(tasks, t)
           /\ committed' = Append(committed, t)
           /\ fut' = [fut EXCEPT ![c] = t]
    /\ cpc' = [cpc EXCEPT ![c] = "notify"]
    /\ UNCHANGED <<stop, idle, lock, pc, task, owner, started, finished>>

\* Mutant: nobody is notified.
Notify_Never(c) ==
    /\ cpc[c] = "notify"
    /\ cpc' = [cpc EXCEPT ![c] = "idle"]
    /\ UNCHANGED <<stop, idle, tasks, lock, pc, task, fut, owner, committed, started, finished>>

\* notify_one wakes one waiting worker, if there is one; the caller then waits
\* for the future, or drops it.
Notify(c) ==
    /\ cpc[c] = "notify"
    /\ \/ \E w \in Workers : pc[w] = "wait" /\ Goto(w, "woken")
       \/ (\A w \in Workers : pc[w] # "wait") /\ UNCHANGED pc
    /\ \E next \in {"get", "idle"} : cpc' = [cpc EXCEPT ![c] = next]
    /\ UNCHANGED <<stop, idle, tasks, lock, task, fut, owner, committed, started, finished>>

\* future.get(): the task has run, or was destroyed with the queue.
Get(c) ==
    /\ cpc[c] = "get"
    /\ fut[c] \in finished \/ owner = "gone"
    /\ cpc' = [cpc EXCEPT ![c] = "idle"]
    /\ UNCHANGED <<stop, idle, tasks, lock, pc, task, fut, owner, committed, started, finished>>

-----------------------------------------------------------------------------
(* The destructor, which takes no lock.                                    *)

Stop ==
    /\ owner = "alive"
    /\ stop' = TRUE
    /\ owner' = "stopped"
    /\ UNCHANGED <<idle, tasks, lock, pc, task, cpc, fut, committed, started, finished>>

NotifyAll ==
    /\ owner = "stopped"
    /\ pc' = [w \in Workers |-> IF pc[w] = "wait" THEN "woken" ELSE pc[w]]
    /\ owner' = "joining"
    /\ UNCHANGED <<stop, idle, tasks, lock, task, cpc, fut, committed, started, finished>>

\* Every thread has been joined.  (No caller may still be inside commit.)
Join ==
    /\ owner = "joining"
    /\ \A w \in Workers : pc[w] = "returned"
    /\ \A c \in Committers : cpc[c] \notin {"push", "notify"}
    /\ owner' = "gone"
    /\ tasks' = <<>>
    /\ UNCHANGED <<stop, idle, lock, pc, task, cpc, fut, committed, started, finished>>

-----------------------------------------------------------------------------

WorkerStep(w) ==
    \/ Check(w) \/ Acquire(w) \/ Predicate(w) \/ Block(w) \/ Test(w)
    \/ Front(w) \/ PopRun(w) \/ Finish(w) \/ Exit(w)

CommitterStep(c) == Push(c) \/ Notify(c) \/ Get(c)

OwnerStep == NotifyAll \/ Join

Next ==
    \/ \E w \in Workers : WorkerStep(w) \/ Spurious(w)
    \/ \E c \in Committers : (Len(committed) < MaxTasks /\ Commit(c)) \/ CommitterStep(c)
    \/ Stop
    \/ OwnerStep

Spec == Init /\ [][Next]_vars

\* The scheduler runs every thread that can run, and every task returns; the
\* owner need not destroy the pool, and spurious wakeups need not come.
Fairness ==
    /\ \A w \in Workers : WF_vars(WorkerStep(w))
    /\ \A c \in Committers : WF_vars(CommitterStep(c))
    /\ WF_vars(OwnerStep)

FairSpec == Spec /\ Fairness

-----------------------------------------------------------------------------
(* Properties.                                                             *)

\* The places of a worker where it holds _lock.
Inside == {"pred", "block", "test", "front", "pop", "run"}

\* The types of the pool's members and of its threads.
TypeOK ==
    /\ stop \in BOOLEAN
    /\ idle \in Int
    /\ tasks \in Seq(Nat)
    /\ lock \in Workers \cup {None}
    /\ pc \in [Workers -> Inside \cup {"check", "lock", "wait", "woken", "exit", "returned"}]
    /\ task \in [Workers -> Nat]
    /\ cpc \in [Committers -> {"idle", "push", "notify", "get"}]
    /\ fut \in [Committers -> Nat]
    /\ owner \in {"alive", "stopped", "joining", "gone"}
    /\ committed \in Seq(Nat)
    /\ started \in Seq(Nat)
    /\ finished \subseteq Nat

\* A task runs with _lock held, so no two tasks run at the same time, whatever
\* the number of threads.
OneTaskAtATime ==
    \A v, w \in Workers : pc[v] = "run" /\ pc[w] = "run" => v = w

\* front() is never called on an empty queue, though the predicate of wait, the
\* test behind it and front() are separate steps and wakeups may be spurious.
NeverFrontOfEmpty ==
    \A w \in Workers : pc[w] \in {"front", "pop"} => tasks # <<>>

\* While the pool is in use no notification is lost: a queued task never finds
\* every worker blocked in wait, or gone, with nobody about to notify one.
NoLostWakeup ==
    tasks # <<>> /\ ~stop /\ Workers # {} =>
        \/ \E w \in Workers : pc[w] \notin {"wait", "exit", "returned"}
        \/ \E c \in Committers : cpc[c] = "notify"

\* Tasks are begun in the order they were queued, each once: the pool is a FIFO
\* channel from commit to the workers.
Dispatch == INSTANCE FifoChannel WITH input <- committed, output <- started

PoolIsFifo == Dispatch!Spec

\* The inductive invariant: who holds the mutex, what the holder may rely on,
\* and where each committed task is.
PoolInv ==
    /\ TypeOK
    /\ \A w \in Workers : pc[w] \in Inside => lock = w
    /\ owner = "alive" <=> ~stop
    /\ owner = "gone" => \A w \in Workers : pc[w] = "returned"
    /\ \A w \in Workers : pc[w] = "test" => stop \/ tasks # <<>>
    /\ \A w \in Workers : pc[w] = "block" /\ tasks # <<>> => stop
    /\ \A w \in Workers : pc[w] \in {"exit", "returned"} => stop
    /\ \A w \in Workers : pc[w] = "pop" /\ tasks # <<>> => task[w] = Head(tasks)
    /\ owner # "gone" => committed = started \o tasks
    /\ NeverFrontOfEmpty
    /\ NoLostWakeup

\* Every committed task is run in the end, unless the pool is destroyed.
TasksRun ==
    \A t \in 1..MaxTasks :
        t <= Len(committed) ~> (t \in finished \/ stop)

\* What the comment on join says: every thread comes to its end, and so does
\* the destructor.
JoinReturns == stop ~> owner = "gone"

=============================================================================
