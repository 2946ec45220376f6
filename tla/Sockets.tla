------------------------------ MODULE Sockets ------------------------------
(***************************************************************************)
(* What the servers of this repository see of the kernel: connections,     *)
(* descriptors that are handed out lowest first and used again, unread     *)
(* input, and the readiness that epoll, select and poll report.            *)
(*                                                                         *)
(* The kernel is one record, and a system call (with the wrapper of        *)
(* wrap.cpp around it) is a function from kernel to kernel, so that a      *)
(* handler that makes several calls is one action.  Clients connect, send, *)
(* close and reset whenever they like; a message is its number among those *)
(* of its client, stands for what one read returns, and is shorter than    *)
(* the buffer.                                                             *)
(***************************************************************************)
EXTENDS Integers, Sequences, FiniteSets, FiniteSetsExt

CONSTANTS
    Clients,
    Nobody,
    MaxFd,          \* bound: descriptors for connections
    MaxSends        \* bound: messages of all clients together

ASSUME SocketsAssumption ==
    /\ Nobody \notin Clients
    /\ MaxFd \in Nat \ {0} /\ MaxSends \in Nat

VARIABLES
    prog,           \* which server is running
    k,              \* the kernel
    ready,          \* the descriptors reported and not yet handled
    pc,             \* where the event loop is
    cur,            \* the descriptor it is busy with
    mem             \* the tables of the program

vars == <<prog, k, ready, pc, cur, mem>>

Listener == 0
Udp == 1                        \* the datagram socket of the one server that has one
Fds == 2..(MaxFd + 1)
Watched == Fds \cup {Listener, Udp}

\* A descriptor that is not registered for events.
Off == [on |-> FALSE, ev |-> "in", et |-> FALSE, edge |-> FALSE]

\* socket, bind, listen, with room for any number of connections; an epoll
\* server watches the listening descriptor, level triggered.
Kernels ==
    {[limit |-> limit,                        \* how many connections may be open
      backlog |-> <<>>,                       \* connections not accepted yet
      listening |-> TRUE,
      desc   |-> [f \in Fds |-> Nobody],      \* whose connection a descriptor is
      came   |-> {},
      closed |-> {},                          \* whose connection the server closed
      sent   |-> [c \in Clients |-> 0],
      inq    |-> [c \in Clients |-> <<>>],    \* sent and not read
      ended  |-> [c \in Clients |-> "open"],
      out    |-> [c \in Clients |-> <<>>],    \* what the server has written to it
      dgrams |-> 0,
      watch  |-> [f \in Watched |-> [Off EXCEPT !.on = f = Listener]]] : limit \in 1..MaxFd}

Started(p, m) ==
    /\ prog = p /\ mem = m
    /\ ready = {} /\ pc = "wait" /\ cur = Listener
    /\ k \in Kernels

-----------------------------------------------------------------------------
(* System calls.                                                           *)

Open(s, f) == f \in Fds /\ s.desc[f] # Nobody

\* What read returns now.
Result(s, f) ==
    LET c == s.desc[f]
    IN  IF s.inq[c] # <<>> THEN "data"
        ELSE CASE s.ended[c] = "reset" -> "error"
               [] s.ended[c] = "open"  -> "again"
               [] OTHER                -> "eof"

\* Is there something to read, or to accept?
Readable(s, f) ==
    CASE f = Listener -> s.backlog # <<>>
      [] f = Udp      -> s.dgrams > 0
      [] OTHER        -> Open(s, f) /\ Result(s, f) # "again"

FreeFds(s) == {f \in Fds : s.desc[f] = Nobody /\ f <= s.limit + 1}
FreeFd(s) == Min(FreeFds(s))

\* accept: the first connection of the backlog gets the lowest free descriptor.
Accept(s) ==
    [s EXCEPT !.backlog = Tail(@), !.desc[FreeFd(s)] = Head(s.backlog)]

\* read and recv: one message, or the error of a reset, which is told once.
Read(s, f) ==
    LET c == s.desc[f]
    IN  CASE Result(s, f) = "data"  -> [s EXCEPT !.inq[c] = Tail(@)]
          [] Result(s, f) = "error" -> [s EXCEPT !.ended[c] = "told"]
          [] OTHER                  -> s

\* write and send, which fail where the connection is gone.
Write(s, f, m) == IF Open(s, f) THEN [s EXCEPT !.out[s.desc[f]] = Append(@, m)] ELSE s

\* The answer to the message that is read next.  Where the buffer was not
\* cleared before, the C string made of it may go on behind the message: then
\* it is not clean.
Reply(s, f, clean) ==
    [from |-> s.desc[f], msg |-> Head(s.inq[s.desc[f]]), clean |-> clean]

\* read, and write the answer.
Echo(s, f, clean) == Write(Read(s, f), f, Reply(s, f, clean))

\* close, which also ends the registration for events.
Close(s, f) ==
    [s EXCEPT !.desc[f] = Nobody, !.closed = @ \cup {s.desc[f]}, !.watch[f] = Off]

\* epoll_ctl with EPOLL_CTL_ADD or EPOLL_CTL_MOD: what is ready now is reported.
Watch(s, f, ev, et) ==
    IF f \in Fds /\ ~Open(s, f) THEN s
    ELSE [s EXCEPT !.watch[f] = [on |-> TRUE, ev |-> ev, et |-> et,
                                 edge |-> et /\ (ev = "out" \/ Readable(s, f))]]

\* EPOLL_CTL_DEL
Unwatch(s, f) == [s EXCEPT !.watch[f] = Off]

\* epoll_wait: ready descriptors with level triggering, with edge triggering
\* those where something has happened since the last report.
Reportable(s) ==
    {f \in Watched :
        /\ s.watch[f].on
        /\ s.watch[f].ev = "out" \/ Readable(s, f)
        /\ s.watch[f].et => s.watch[f].edge}

Reported(s) ==
    [s EXCEPT !.watch = [f \in DOMAIN @ |->
        IF f \in Reportable(s) THEN [@[f] EXCEPT !.edge = FALSE] ELSE @[f]]]

-----------------------------------------------------------------------------
(* The event loop.                                                         *)

\* The loop is idle and the call that waits returns the descriptors fs.
Wait(fs) ==
    /\ pc = "wait" /\ ready = {} /\ fs # {}
    /\ ready' = fs
    /\ UNCHANGED <<prog, pc, cur, mem>>

EpollWait == Wait(Reportable(k)) /\ k' = Reported(k)

\* The loop takes the next reported descriptor.
Take(f) == pc = "wait" /\ f \in ready /\ ready' = ready \ {f}

\* accept, and the new connection is watched for input.
AcceptAndWatch(et) == Watch(Accept(k), FreeFd(k), "in", et)

\* Where the process has no descriptor left accept fails, which ends the program.
AcceptOrExit(accepted) ==
    IF FreeFds(k) = {} THEN pc' = "stopped" /\ UNCHANGED <<k, mem>>
    ELSE accepted /\ UNCHANGED pc

-----------------------------------------------------------------------------
(* The clients.                                                            *)

FdOf(c) == {f \in Fds : k.desc[f] = c}

\* An event on descriptors fs: an edge where one is wanted.
Stir(s, fs) ==
    [s EXCEPT !.watch = [f \in DOMAIN @ |->
        IF f \in fs /\ @[f].on /\ @[f].et /\ @[f].ev = "in" THEN [@[f] EXCEPT !.edge = TRUE]
        ELSE @[f]]]

ClientConnect(c) ==
    /\ c \notin k.came /\ k.listening
    /\ k' = Stir([k EXCEPT !.came = @ \cup {c}, !.backlog = Append(@, c)], {Listener})
    /\ UNCHANGED <<prog, ready, pc, cur, mem>>

Live(c) == c \in k.came \ k.closed /\ k.ended[c] = "open"

ClientSend(c) ==
    /\ Live(c) /\ MapThenSumSet(LAMBDA d : k.sent[d], Clients) < MaxSends
    /\ k' = Stir([k EXCEPT !.sent[c] = @ + 1, !.inq[c] = Append(@, k.sent[c] + 1)], FdOf(c))
    /\ UNCHANGED <<prog, ready, pc, cur, mem>>

ClientClose(c) ==
    /\ Live(c)
    /\ k' = Stir([k EXCEPT !.ended[c] = "fin"], FdOf(c))
    /\ UNCHANGED <<prog, ready, pc, cur, mem>>

\* A reset throws away what was not read.
ClientReset(c) ==
    /\ Live(c)
    /\ k' = Stir([k EXCEPT !.ended[c] = "reset", !.inq[c] = <<>>], FdOf(c))
    /\ UNCHANGED <<prog, ready, pc, cur, mem>>

ClientMove(c) == ClientConnect(c) \/ ClientSend(c) \/ ClientClose(c) \/ ClientReset(c)

ClientStep == \E c \in Clients : ClientMove(c)
-----------------------------------------------------------------------------
(* What is always so of a kernel.                                          *)

WatchState == [on : BOOLEAN, ev : {"in", "out"}, et : BOOLEAN, edge : BOOLEAN]

\* The kernels where the programs write members of Replies.
KernelOf(Replies) ==
    [limit : 1..MaxFd, backlog : Seq(Clients), listening : BOOLEAN,
     desc : [Fds -> Clients \cup {Nobody}], came : SUBSET Clients, closed : SUBSET Clients,
     sent : [Clients -> Nat], inq : [Clients -> Seq(Nat)],
     ended : [Clients -> {"open", "fin", "reset", "told"}], out : [Clients -> Seq(Replies)],
     dgrams : Int, watch : [Watched -> WatchState]]

\* A connection is in the backlog once, or it has one descriptor, or neither.
ConnectionsOK(s) ==
    /\ \A f, g \in Fds : s.desc[f] = s.desc[g] /\ f # g => s.desc[f] = Nobody
    /\ \A f \in Fds : Open(s, f) => s.desc[f] \in s.came
    /\ \A i \in DOMAIN s.backlog :
          /\ s.backlog[i] \in s.came
          /\ \A j \in DOMAIN s.backlog : s.backlog[i] = s.backlog[j] => i = j
          /\ \A f \in Fds : s.desc[f] # s.backlog[i]

\* Only open descriptors are registered, and the listener, for input.
WatchOK(s) == s.watch[Listener].ev = "in" /\ \A f \in Fds : s.watch[f].on => Open(s, f)
=============================================================================
