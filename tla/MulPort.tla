------------------------------ MODULE MulPort ------------------------------
(***************************************************************************)
(* server_mulport_epoll.c: an edge triggered event loop that makes every   *)
(* event of a connection a job of the work queue, and the workers that     *)
(* read, answer and close.  Past Crowd connections the loop does the work  *)
(* itself.  An actor is a worker or Loop, the event loop.                  *)
(*                                                                         *)
(* side tells whether the queue serves this program, or any caller that    *)
(* may also shut it down (main never does).  One listening socket stands   *)
(* for the MAX_PORT of them.  What an actor does to a descriptor, and to   *)
(* curfds, which has no lock, are steps of their own.                      *)
(***************************************************************************)
EXTENDS Workqueue, Integers

CONSTANTS
    Clients, Nobody, MaxFd, MaxSends,       \* of Sockets
    Loop,
    Crowd,          \* 1000 * 1000
    Serving,        \* bound: the workers that take part where the server runs
    MaxServed       \* bound: events that become jobs

ASSUME MulPortAssumption ==
    /\ Loop \notin Workers \cup {None} /\ Crowd \in Nat /\ Serving \subseteq Workers
    /\ MaxServed \in 0..MaxJobs
    /\ Nobody \notin Clients /\ MaxFd \in Nat \ {0} /\ MaxSends \in Nat

VARIABLES
    side,
    k,              \* the kernel
    ready,          \* the events of this round
    loop,           \* where the event loop is
    cur,            \* the descriptor it is busy with
    jobfd,          \* rClient->fd of every job
    act,            \* what an actor does with its descriptor
    curfds,
    nRun,
    left            \* whose input a full buffer has left behind

S == INSTANCE Sockets WITH prog <- side, pc <- loop, mem <- left

netVars == <<side, k, ready, loop, cur, jobfd, act, curfds, nRun, left>>
allVars == <<vars, netVars>>

Actors == Workers \cup {Loop}

\* got: something is in the buffer; seen: the value of curfds that was read.
Fresh == [at |-> "recv", got |-> FALSE, seen |-> 0]

\* main up to the loop.  The listening socket is edge triggered too.
MulPortInit ==
    /\ Init
    /\ side \in {"queue", "server"}
    /\ \E sock \in S!Kernels : k = S!Watch(sock, S!Listener, "in", TRUE)
    /\ loop = IF side = "queue" THEN "off" ELSE "wait"
    /\ ready = {} /\ cur = S!Listener /\ left = {}
    /\ jobfd = [j \in Jobs |-> 0]
    /\ act = [a \in Actors |-> Fresh]
    /\ curfds = 1 /\ nRun = FALSE

-----------------------------------------------------------------------------
(* client_job in a worker, client_data_process in the event loop.          *)

Fd(a) == IF a = Loop THEN cur ELSE jobfd[job[a]]

Busy(a) == IF a = Loop THEN loop = "process" ELSE side = "server" /\ pc[a] = "run"

\* The next place; the end of the job, which frees it, or of the function.
Goes(a, at, got, seen) ==
    IF at # "done"
    THEN /\ act' = [act EXCEPT ![a] = [at |-> at, got |-> got, seen |-> seen]]
         /\ UNCHANGED <<vars, loop>>
    ELSE /\ act' = [act EXCEPT ![a] = Fresh]
         /\ IF a = Loop THEN loop' = "wait" /\ UNCHANGED vars
                        ELSE Run(a) /\ UNCHANGED loop

\* Mutant: one recv, as if the socket were level triggered.
Recv_Once(a) ==
    LET f == Fd(a)
    IN  /\ Busy(a) /\ act[a].at = "recv" /\ S!Open(k, f)
        /\ k' = S!Read(k, f)
        /\ Goes(a, IF S!Result(k, f) \in {"data", "again"} THEN "done" ELSE "load", FALSE, 0)
        /\ UNCHANGED <<side, ready, cur, jobfd, curfds, nRun, left>>

\* nRecv reads until the buffer is full (any message may fill it), poll has
\* waited 5 ms for nothing, or the connection is over.  What was read is answered
\* by nSend, below Crowd only if it starts with an 'a'; that changes nothing the
\* program looks at again, and the end of the connection is then not acted upon.
\* On a closed descriptor nRecv goes round for ever: recv fails, and poll reports
\* POLLNVAL at once.
Recv(a) ==
    LET f   == Fd(a)
        c   == k.desc[f]
        got == act[a].got
    IN  /\ Busy(a) /\ act[a].at = "recv" /\ S!Open(k, f)
        /\ k' = S!Read(k, f)
        /\ \/ /\ S!Result(k, f) = "data"
              /\ \/ Goes(a, "recv", TRUE, 0) /\ UNCHANGED left
                 \/ /\ Goes(a, "done", FALSE, 0)
                    /\ left' = IF Len(k.inq[c]) > 1 THEN left \cup {c} ELSE left
           \/ /\ S!Result(k, f) = "again"
              /\ Goes(a, "done", FALSE, 0)
              /\ UNCHANGED left
           \/ /\ S!Result(k, f) \in {"eof", "error"}
              /\ Goes(a, IF got THEN "done" ELSE "load", FALSE, 0)
              /\ UNCHANGED left
        /\ UNCHANGED <<side, ready, cur, jobfd, curfds, nRun>>

\* curfds--
Load(a) ==
    /\ Busy(a) /\ act[a].at = "load"
    /\ Goes(a, "store", FALSE, curfds)
    /\ UNCHANGED <<side, k, ready, cur, jobfd, curfds, nRun, left>>

Store(a) ==
    /\ Busy(a) /\ act[a].at = "store"
    /\ curfds' = act[a].seen - 1
    /\ Goes(a, "close", FALSE, 0)
    /\ UNCHANGED <<side, k, ready, cur, jobfd, nRun, left>>

Close(a) ==
    /\ Busy(a) /\ act[a].at = "close"
    /\ k' = IF S!Open(k, Fd(a)) THEN S!Close(k, Fd(a)) ELSE k
    /\ Goes(a, "done", FALSE, 0)
    /\ UNCHANGED <<side, ready, cur, jobfd, curfds, nRun, left>>

Serve(a) == Recv(a) \/ Load(a) \/ Store(a) \/ Close(a)

-----------------------------------------------------------------------------
(* The event loop of main.                                                 *)

Pending == {f \in S!Watched : k.watch[f].on /\ k.watch[f].edge}

\* epoll_wait for at most curfds events, which is no valid number below 1.
LoopWait ==
    /\ loop = "wait" /\ ready = {}
    /\ \/ /\ curfds < 1
          /\ loop' = "stopped"
          /\ UNCHANGED <<k, ready>>
       \/ /\ \E fs \in SUBSET Pending \ {{}} :
               /\ Cardinality(fs) <= curfds
               /\ fs # Pending => Cardinality(fs) = curfds
               /\ ready' = fs
               /\ k' = [k EXCEPT !.watch = [f \in DOMAIN @ |->
                           IF f \in fs THEN [@[f] EXCEPT !.edge = FALSE] ELSE @[f]]]
          /\ UNCHANGED loop
    /\ UNCHANGED <<vars, side, cur, jobfd, act, curfds, nRun, left>>

\* One connection is accepted for an edge of the listening socket.
LoopAccept ==
    /\ S!Take(S!Listener)
    /\ IF S!FreeFds(k) = {}
       THEN loop' = "stopped" /\ UNCHANGED <<k, cur, act>>
       ELSE /\ k' = S!Accept(k)
            /\ cur' = S!FreeFd(k)
            /\ loop' = "count"
            /\ act' = [act EXCEPT ![Loop].seen = curfds]
    /\ UNCHANGED <<vars, side, jobfd, curfds, nRun, left>>

\* curfds++, nRun, and the descriptor is watched for input and output: it can
\* be written to, so that it has its first event at once.
LoopCount ==
    /\ loop = "count"
    /\ curfds' = act[Loop].seen + 1
    /\ nRun' = (nRun \/ act[Loop].seen > Crowd)
    /\ k' = IF S!Open(k, cur)
            THEN [S!Watch(k, cur, "in", TRUE) EXCEPT !.watch[cur].edge = TRUE] ELSE k
    /\ act' = [act EXCEPT ![Loop] = Fresh]
    /\ loop' = "wait"
    /\ UNCHANGED <<vars, side, ready, cur, jobfd, left>>

\* An event of a connection: a job, or its work done here.
LoopEvent(f) ==
    /\ f \in S!Fds /\ S!Take(f)
    /\ IF nRun
       THEN loop' = "process" /\ cur' = f /\ UNCHANGED <<vars, jobfd>>
       ELSE /\ added < MaxServed /\ AddJob
            /\ jobfd' = [jobfd EXCEPT ![added'] = f]
            /\ UNCHANGED <<loop, cur>>
    /\ UNCHANGED <<side, k, act, curfds, nRun, left>>

-----------------------------------------------------------------------------

\* Lock, Leave and Take in one step, and no sleep: nobody else can touch the
\* list in between, and the side "queue" shows that no sleeper is forgotten.
TakeJob(w) ==
    /\ w \in Serving /\ pc[w] = "lock" /\ waiting_jobs # <<>>
    /\ job' = [job EXCEPT ![w] = Head(waiting_jobs)]
    /\ waiting_jobs' = Tail(waiting_jobs)
    /\ Goto(w, "run")
    /\ UNCHANGED <<jobs_mutex, terminate, phase, added, freed, netVars>>

\* When main returns the process is gone, with its workers.
WorkerMove(w) ==
    \/ side = "queue" /\ WorkerStep(w) /\ UNCHANGED netVars
    \/ side = "server" /\ loop # "stopped" /\ (TakeJob(w) \/ Serve(w))

MulPortNext ==
    \/ side = "queue" /\ Next /\ UNCHANGED netVars
    \/ \E w \in Workers : WorkerMove(w)
    \/ LoopWait \/ LoopAccept \/ LoopCount \/ Serve(Loop)
    \/ \E f \in S!Fds : LoopEvent(f)
    \/ \E c \in Clients :
        /\ loop \notin {"off", "stopped"}
        /\ S!ClientConnect(c) \/ S!ClientSend(c) \/ S!ClientClose(c)
        /\ UNCHANGED <<vars, jobfd, act, curfds, nRun>>

\* The scheduler runs every worker that can run; nobody need add a job.
MulPortSpec ==
    /\ MulPortInit /\ [][MulPortNext]_allVars
    /\ \A w \in Workers : WF_allVars(WorkerMove(w))

-----------------------------------------------------------------------------
(* Properties.                                                             *)

\* An event to come or to be handled, a job that waits, an actor that is still
\* reading; or a full buffer that ended a read.
HasAJob(f) ==
    \/ k.watch[f].edge \/ f \in ready \/ (loop = "count" /\ cur = f)
    \/ \E i \in DOMAIN waiting_jobs : jobfd[waiting_jobs[i]] = f
    \/ \E a \in Actors : Busy(a) /\ Fd(a) = f /\ act[a].at = "recv"
    \/ k.desc[f] \in left

\* Input of an open connection has somebody who will come for it, although an
\* edge is reported only once: an event to come or to be handled, a job that
\* waits, or an actor that is still reading; unless a full buffer ended a read
\* of it.  Jobs of descriptors that were closed and used again are no
\* exception.
InputHasAJob ==
    \A f \in S!Fds :
        S!Open(k, f) /\ k.inq[k.desc[f]] # <<>> /\ loop # "stopped" => HasAJob(f)

\* A worker that reads from a closed descriptor.
Spins(w) == Busy(w) /\ act[w].at = "recv" /\ ~S!Open(k, Fd(w))

\* Again and again all the jobs added so far have been run, unless the queue is
\* shut down, the server ends, or a worker reads from a descriptor that another
\* has closed: that is the only way in which a worker can be lost.  (That holds
\* of finitely many jobs: the list is last in, first out.)
JobsRun ==
    []<>(\/ 1..added \subseteq freed
         \/ phase # "running"
         \/ loop = "stopped"
         \/ \E w \in Workers : Spins(w))
-----------------------------------------------------------------------------
(* The inductive invariant behind InputHasAJob.                            *)

\* The types of what the server adds to the queue.  Nothing that is sent is kept.
ServerTypeOK ==
    /\ side \in {"queue", "server"}
    /\ k \in S!KernelOf({})
    /\ ready \subseteq S!Watched /\ cur \in S!Watched
    /\ loop \in {"off", "wait", "count", "process", "stopped"}
    /\ jobfd \in [Jobs -> Nat]
    /\ act \in [Actors -> [at : {"recv", "load", "store", "close"}, got : BOOLEAN, seen : Int]]
    /\ curfds \in Int /\ nRun \in BOOLEAN /\ left \subseteq Clients

\* Where the queue serves any caller there is no server and no connection.
QueueAlone == side = "queue" => loop = "off" /\ \A f \in S!Fds : ~S!Open(k, f)

\* Every open descriptor raises an edge for input, but the one just accepted.
Registered ==
    \A f \in S!Fds : S!Open(k, f) /\ ~(loop = "count" /\ cur = f) =>
        k.watch[f].on /\ k.watch[f].et /\ k.watch[f].ev = "in"

\* Each report of the listening socket stands for a connection of its own.
ReportedWait ==
    Len(k.backlog) >= (IF S!Listener \in ready THEN 1 ELSE 0)
                    + (IF k.watch[S!Listener].edge THEN 1 ELSE 0)

\* Whoever begins with a descriptor begins with reading.
IdleAtRecv == \A a \in Actors : ~Busy(a) => act[a].at = "recv"

MulPortInv ==
    /\ QueueInv /\ ServerTypeOK /\ S!ConnectionsOK(k)
    /\ QueueAlone /\ Registered /\ ReportedWait /\ IdleAtRecv /\ InputHasAJob
=============================================================================
