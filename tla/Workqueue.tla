----------------------------- MODULE Workqueue ------------------------------
(***************************************************************************)
(* The work queue of mul_port_client_epoll/server_mulport_epoll.c: a list  *)
(* of waiting jobs, last in first out, under jobs_mutex and jobs_cond.     *)
(* The event loop adds jobs, MAX_THREAD workers run and free them, and     *)
(* workqueue_shutdown tells the workers to terminate.                      *)
(*                                                                         *)
(* The list is a sequence: jobs are only ever added and removed at its     *)
(* head, where LL_ADD and LL_REMOVE (which never set the prev pointer of a *)
(* former head) agree with it.                                             *)
(***************************************************************************)
EXTENDS Naturals, Sequences, FiniteSets

CONSTANTS
    Workers,    \* the threads workqueue_init has started
    MaxJobs,    \* bound: calls of workqueue_add_job
    None        \* no worker, no job

ASSUME QueueAssumption ==
    /\ None \notin Workers
    /\ Workers # {} /\ IsFiniteSet(Workers)     \* workqueue_init makes 1 of anything less
    /\ MaxJobs \in Nat

Jobs == 1..MaxJobs

VARIABLES
    waiting_jobs,   \* the list, its head first
    jobs_mutex,     \* its owner, or None
    terminate,      \* worker->terminate
    pc,             \* where each worker is
    job,            \* the job a worker has taken off the list
    phase,          \* how far workqueue_shutdown has come
    added,          \* the number of jobs added so far
    freed           \* the jobs that have been run and freed

vars == <<waiting_jobs, jobs_mutex, terminate, pc, job, phase, added, freed>>

Init ==
    /\ waiting_jobs = <<>>
    /\ jobs_mutex = None
    /\ terminate = [w \in Workers |-> FALSE]
    /\ pc = [w \in Workers |-> "lock"]
    /\ job = [w \in Workers |-> 0]
    /\ phase = "running"
    /\ added = 0
    /\ freed = {}

Goto(w, place) == pc' = [pc EXCEPT ![w] = place]

-----------------------------------------------------------------------------
(* worker_function.                                                        *)

\* pthread_mutex_lock, or pthread_cond_wait taking the mutex again.
Lock(w) ==
    /\ pc[w] \in {"lock", "woken"}
    /\ jobs_mutex = None
    /\ jobs_mutex' = w
    /\ Goto(w, "loop")
    /\ UNCHANGED <<waiting_jobs, terminate, job, phase, added, freed>>

\* The inner while loop up to pthread_cond_wait, which releases the mutex.  (A
\* terminate set between the test and the wait is not missed: the broadcast
\* that follows it needs the mutex.)
Wait(w) ==
    /\ pc[w] = "loop"
    /\ waiting_jobs = <<>>
    /\ ~terminate[w]
    /\ Goto(w, "wait")
    /\ jobs_mutex' = None
    /\ UNCHANGED <<waiting_jobs, terminate, job, phase, added, freed>>

\* The inner while loop ends, or is left with break.
Leave(w) ==
    /\ pc[w] = "loop"
    /\ waiting_jobs # <<>> \/ terminate[w]
    /\ Goto(w, "test")
    /\ UNCHANGED <<waiting_jobs, jobs_mutex, terminate, job, phase, added, freed>>

Spurious(w) ==
    /\ pc[w] = "wait"
    /\ Goto(w, "woken")
    /\ UNCHANGED <<waiting_jobs, jobs_mutex, terminate, job, phase, added, freed>>

\* if (worker->terminate) break; the thread ends, and jobs_mutex stays locked.
Terminate(w) ==
    /\ pc[w] = "test"
    /\ terminate[w]
    /\ Goto(w, "exited")
    /\ UNCHANGED <<waiting_jobs, jobs_mutex, terminate, job, phase, added, freed>>

\* Mutant: the job stays on the list while it runs.
Take_NoRemove(w) ==
    /\ pc[w] = "test"
    /\ ~terminate[w]
    /\ job' = [job EXCEPT ![w] = IF waiting_jobs = <<>> THEN 0 ELSE Head(waiting_jobs)]
    /\ Goto(w, IF waiting_jobs = <<>> THEN "lock" ELSE "run")
    /\ jobs_mutex' = None
    /\ UNCHANGED <<waiting_jobs, terminate, phase, added, freed>>

\* The job at the head is taken off the list and the mutex released.
Take(w) ==
    /\ pc[w] = "test"
    /\ ~terminate[w]
    /\ IF waiting_jobs = <<>>
       THEN /\ Goto(w, "lock")
            /\ UNCHANGED <<job, waiting_jobs>>
       ELSE /\ Goto(w, "run")
            /\ job' = [job EXCEPT ![w] = Head(waiting_jobs)]
            /\ waiting_jobs' = Tail(waiting_jobs)
    /\ jobs_mutex' = None
    /\ UNCHANGED <<terminate, phase, added, freed>>

\* Mutant: a worker that has run a job waits for a signal before it looks at
\* the list again.
Run_Sleeps(w) ==
    /\ pc[w] = "run"
    /\ freed' = freed \cup {job[w]}
    /\ Goto(w, "wait")
    /\ job' = [job EXCEPT ![w] = 0]
    /\ UNCHANGED <<waiting_jobs, jobs_mutex, terminate, phase, added>>

\* job_function (client_job), which frees the job.
Run(w) ==
    /\ pc[w] = "run"
    /\ freed' = freed \cup {job[w]}
    /\ Goto(w, "lock")
    /\ job' = [job EXCEPT ![w] = 0]
    /\ UNCHANGED <<waiting_jobs, jobs_mutex, terminate, phase, added>>

-----------------------------------------------------------------------------
(* workqueue_add_job and workqueue_shutdown.                               *)

\* pthread_cond_signal and pthread_cond_broadcast.
Signal ==
    \/ \E w \in Workers : pc[w] = "wait" /\ Goto(w, "woken")
    \/ (\A w \in Workers : pc[w] # "wait") /\ UNCHANGED pc

Broadcast ==
    pc' = [w \in Workers |-> IF pc[w] = "wait" THEN "woken" ELSE pc[w]]

AddJob ==
    /\ jobs_mutex = None
    /\ added' = added + 1
    /\ waiting_jobs' = <<added'>> \o waiting_jobs
    /\ Signal
    /\ UNCHANGED <<jobs_mutex, terminate, job, phase, freed>>

\* terminate is set for one worker after the other, without the mutex.
Mark(w) ==
    /\ phase \in {"running", "marking"}
    /\ ~terminate[w]
    /\ terminate' = [terminate EXCEPT ![w] = TRUE]
    /\ phase' = "marking"
    /\ UNCHANGED <<waiting_jobs, jobs_mutex, pc, job, added, freed>>

\* Then the lists are dropped and everybody is woken, with the mutex.
DropAndBroadcast ==
    /\ phase = "marking"
    /\ \A w \in Workers : terminate[w]
    /\ jobs_mutex = None
    /\ waiting_jobs' = <<>>
    /\ Broadcast
    /\ phase' = "down"
    /\ UNCHANGED <<jobs_mutex, terminate, job, added, freed>>

-----------------------------------------------------------------------------

WorkerStep(w) == Lock(w) \/ Wait(w) \/ Leave(w) \/ Terminate(w) \/ Take(w) \/ Run(w)

Next ==
    \/ \E w \in Workers : WorkerStep(w) \/ Spurious(w) \/ Mark(w)
    \/ added < MaxJobs /\ AddJob
    \/ DropAndBroadcast

Spec == Init /\ [][Next]_vars

\* The scheduler runs every worker that can run, and every job returns; nobody
\* need add a job or shut the queue down.
FairSpec == Spec /\ \A w \in Workers : WF_vars(WorkerStep(w))

-----------------------------------------------------------------------------
(* Properties.                                                             *)

\* The types of the queue's fields and of the workers.
TypeOK ==
    /\ waiting_jobs \in Seq(Jobs)
    /\ jobs_mutex \in Workers \cup {None}
    /\ terminate \in [Workers -> BOOLEAN]
    /\ pc \in [Workers -> {"lock", "loop", "wait", "woken", "test", "run", "exited"}]
    /\ job \in [Workers -> {0} \cup Jobs]
    /\ phase \in {"running", "marking", "down"}
    /\ added \in 0..MaxJobs
    /\ freed \subseteq Jobs

\* jobs_mutex has an owner exactly while some worker is between lock and unlock
\* in worker_function, or has left the function without unlocking.
MutexDiscipline ==
    /\ TypeOK
    /\ \A w \in Workers : pc[w] \in {"loop", "test", "exited"} <=> jobs_mutex = w

\* The jobs some worker is running.
Running == {job[w] : w \in {v \in Workers : pc[v] = "run"}}

\* Where a job can be, and only in one of these places: on the list once, with
\* one worker, or freed.  (A job in two of them would be run, and freed by
\* client_job, twice.)  Unless the queue was shut down none is lost.
JobsInOnePlace ==
    LET listed == {waiting_jobs[i] : i \in DOMAIN waiting_jobs}
    IN  /\ Cardinality(listed) = Len(waiting_jobs)
        /\ Cardinality(Running) = Cardinality({w \in Workers : pc[w] = "run"})
        /\ listed \cap Running = {}
        /\ (listed \cup Running) \cap freed = {}
        /\ phase # "down" => listed \cup Running \cup freed = 1..added

\* A waiting job never finds every worker asleep: each job added wakes one
\* worker, and a worker that has run its job looks at the list again.
NobodySleepsOverAJob ==
    waiting_jobs # <<>> => \E w \in Workers : pc[w] # "wait"

-----------------------------------------------------------------------------
(* The inductive invariant: who holds the mutex, where each job is, and who *)
(* is awake.                                                               *)

Listed(n) == \E i \in 1..Len(waiting_jobs) : waiting_jobs[i] = n

Runs(w, n) == pc[w] = "run" /\ job[w] = n

\* JobsInOnePlace without counting: no job twice on the list or with two workers.
OnePlace ==
    /\ \A i, j \in 1..Len(waiting_jobs) : waiting_jobs[i] = waiting_jobs[j] => i = j
    /\ \A v, w \in Workers : pc[v] = "run" /\ Runs(w, job[v]) => v = w
    /\ \A w \in Workers : pc[w] = "run" =>
           job[w] \in 1..added /\ ~Listed(job[w]) /\ job[w] \notin freed
    /\ \A i \in 1..Len(waiting_jobs) : waiting_jobs[i] \in (1..added) \ freed
    /\ freed \subseteq 1..added
    /\ phase # "down" =>
           \A n \in 1..added : n \in freed \/ Listed(n) \/ \E w \in Workers : Runs(w, n)

QueueInv == MutexDiscipline /\ OnePlace /\ NobodySleepsOverAJob
=============================================================================
