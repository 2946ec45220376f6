--------------------------- MODULE SelectServers ---------------------------
(***************************************************************************)
(* The servers built on select and poll: select_study.cpp ("select"), with *)
(* the descriptor set alone; select_advance.cpp ("array"), with an array   *)
(* of clients beside it; poll.cpp ("poll"); and udp_tcp_select_server.cpp  *)
(* ("udptcp"), which serves datagrams too.  And the ones that give every   *)
(* connection a thread, tcp_pthread_server.cpp ("pthread"), or a process,  *)
(* tcp_process_server.cpp ("process").                                     *)
(*                                                                         *)
(* A select loop accepts first and then visits the reported descriptors in *)
(* ascending order; the listener has the lowest.                           *)
(***************************************************************************)
EXTENDS Sockets

\* The next reported descriptor in the loop's order.
Visit(f) == Take(f) /\ f = Min(ready)

\* A table indexed by position: -1 is free.
EmptyTable == [i \in 1..MaxFd |-> -1]
FreeSlot(t) == Min({i \in DOMAIN t : t[i] = -1})

-----------------------------------------------------------------------------
SelectStart == Started("select", [set |-> {Listener}, maxfd |-> Listener])

\* select looks at the descriptors of old_set up to maxfd.
Selected == {f \in mem.set : f <= mem.maxfd /\ Readable(k, f)}

SelectWait == prog = "select" /\ Wait(Selected) /\ UNCHANGED k

\* FD_SET of the new connection, and maxfd follows.
Added(m, f) == [m EXCEPT !.set = @ \cup {f}, !.maxfd = IF f > @ THEN f ELSE @]

SelectAccept ==
    /\ prog = "select" /\ Visit(Listener)
    /\ AcceptOrExit(k' = Accept(k) /\ mem' = Added(mem, FreeFd(k)))
    /\ UNCHANGED <<prog, cur>>

\* Mutant: FD_CLR is forgotten.
Dropped_Kept(m, f) == m

\* FD_CLR
Dropped(m, f) == [m EXCEPT !.set = @ \ {f}]

SelectRead(f) ==
    /\ prog = "select" /\ Visit(f) /\ f # Listener
    /\ IF Result(k, f) = "data" THEN k' = Echo(k, f, TRUE) /\ UNCHANGED mem
       ELSE k' = Close(k, f) /\ mem' = Dropped(mem, f)
    /\ UNCHANGED <<prog, pc, cur>>

-----------------------------------------------------------------------------
ArrayStart == Started("array", [set |-> {Listener}, maxfd |-> Listener,
                                client |-> EmptyTable, maxi |-> 0])

ArrayWait == prog = "array" /\ Wait(Selected) /\ UNCHANGED k

\* The first free entry; maxi is the last entry ever used.
ArrayAccept ==
    /\ prog = "array" /\ Visit(Listener)
    /\ LET i == FreeSlot(mem.client)
       IN  AcceptOrExit(/\ k' = Accept(k)
                        /\ mem' = [Added(mem, FreeFd(k)) EXCEPT
                                      !.client[i] = FreeFd(k),
                                      !.maxi = IF i > @ THEN i ELSE @])
    /\ UNCHANGED <<prog, cur>>

\* The entries up to maxi are visited in turn, those reported are read; a read
\* that fails is left for the next round.
ArrayRead(i) ==
    /\ prog = "array" /\ i <= mem.maxi
    /\ Listener \notin ready /\ mem.client[i] \in ready
    /\ \A j \in 1..(i - 1) : mem.client[j] \notin ready
    /\ LET f == mem.client[i]
       IN  /\ Take(f) /\ Readable(k, f)
           /\ CASE Result(k, f) = "data"  -> k' = Echo(k, f, TRUE) /\ UNCHANGED mem
                [] Result(k, f) = "eof"   -> /\ k' = Close(k, f)
                                             /\ mem' = [Dropped(mem, f) EXCEPT !.client[i] = -1]
                [] Result(k, f) = "error" -> k' = Read(k, f) /\ UNCHANGED mem
    /\ UNCHANGED <<prog, pc, cur>>

-----------------------------------------------------------------------------
(* poll reports into revents of the entries 0..maxi; ready holds them.  The   *)
(* revents of an entry used for the first time is not initialised: when the   *)
(* round goes on it may look reported, and the read of it blocks.          *)

PollStart == Started("poll", [client |-> EmptyTable, maxi |-> 0])

PollWait ==
    /\ prog = "poll" /\ UNCHANGED k
    /\ Wait({f \in {Listener} \cup ({mem.client[i] : i \in 1..mem.maxi} \ {-1}) : Readable(k, f)})

PollAccept ==
    /\ prog = "poll" /\ pc = "wait" /\ Listener \in ready
    /\ LET i == FreeSlot(mem.client)
           stale == IF FreeFds(k) # {} /\ i > mem.maxi /\ ready # {Listener}
                    THEN {{}, {FreeFd(k)}} ELSE {{}}
       IN  AcceptOrExit(/\ k' = Accept(k)
                        /\ mem' = [mem EXCEPT !.client[i] = FreeFd(k),
                                              !.maxi = IF i > @ THEN i ELSE @])
           /\ \E s \in stale : ready' = (ready \ {Listener}) \cup s
    /\ UNCHANGED <<prog, cur>>

\* Read fails with ECONNRESET, not the ECONNREFUSED that is looked for: exit(1).
PollRead(i) ==
    /\ prog = "poll" /\ i <= mem.maxi
    /\ Listener \notin ready /\ mem.client[i] \in ready
    /\ \A j \in 1..(i - 1) : mem.client[j] \notin ready
    /\ LET f == mem.client[i]
       IN  /\ Take(f) /\ Readable(k, f)
           /\ CASE Result(k, f) = "data"  -> k' = Echo(k, f, TRUE) /\ UNCHANGED <<mem, pc>>
                [] Result(k, f) = "eof"   -> /\ k' = Close(k, f) /\ UNCHANGED pc
                                             /\ mem' = [mem EXCEPT !.client[i] = -1]
                [] Result(k, f) = "error" -> pc' = "stopped" /\ UNCHANGED <<k, mem>>
    /\ UNCHANGED <<prog, cur>>

-----------------------------------------------------------------------------
UdpTcpStart == Started("udptcp", [set |-> {Listener, Udp}, maxfd |-> Udp])

UdpTcpWait ==
    /\ prog = "udptcp" /\ Wait(Selected) /\ UNCHANGED k

\* A datagram arrives, from whomever.
Datagram ==
    /\ prog = "udptcp" /\ k.dgrams < MaxSends
    /\ k' = [k EXCEPT !.dgrams = @ + 1]
    /\ UNCHANGED <<prog, ready, pc, cur, mem>>

\* accept; when nothing else was reported the loop starts again, otherwise the
\* scan follows and the listener is still in r_set.
UdpTcpAccept ==
    /\ prog = "udptcp" /\ pc = "wait" /\ Listener \in ready
    /\ IF FreeFds(k) = {} THEN pc' = "stopped" /\ UNCHANGED <<k, mem, ready>>
       ELSE /\ k' = Accept(k) /\ mem' = Added(mem, FreeFd(k))
            /\ IF ready = {Listener} THEN ready' = {} /\ UNCHANGED pc
               ELSE pc' = "scan" /\ UNCHANGED ready
    /\ UNCHANGED <<prog, cur>>

\* The scan begins at descriptor 0: Read fails on the listener, which is closed,
\* and swallows the datagram of the udp socket; the answer has nowhere to go.  An
\* empty datagram looks like the end of a connection: the udp socket is closed.
UdpTcpRead(f) ==
    /\ prog = "udptcp" /\ f \in ready /\ f = Min(ready)
    /\ pc = "scan" \/ (pc = "wait" /\ Listener \notin ready)
    /\ cur' = IF f = Udp THEN Udp ELSE cur
    /\ ready' = ready \ {f}
    /\ CASE f = Listener -> /\ k' = [k EXCEPT !.listening = FALSE, !.backlog = <<>>]
                            /\ mem' = Dropped(mem, f)
         [] f = Udp      -> /\ k' = [k EXCEPT !.dgrams = @ - 1]
                            /\ \E empty \in BOOLEAN : mem' = IF empty THEN Dropped(mem, f) ELSE mem
         [] f \in Fds    -> IF Result(k, f) = "data" THEN k' = Echo(k, f, TRUE) /\ UNCHANGED mem
                            ELSE k' = Close(k, f) /\ mem' = Dropped(mem, f)
    /\ pc' = IF ready' # {} THEN "scan" ELSE IF cur' = Udp THEN "recvfrom" ELSE "wait"
    /\ UNCHANGED prog

\* The datagram was reported, so recvfrom follows: it blocks until the next one,
\* and fails where the socket was closed, which ends the program.
UdpTcpRecvfrom ==
    /\ prog = "udptcp" /\ pc = "recvfrom"
    /\ IF Udp \in mem.set THEN k.dgrams > 0 /\ k' = [k EXCEPT !.dgrams = @ - 1] /\ pc' = "wait"
       ELSE pc' = "stopped" /\ UNCHANGED k
    /\ cur' = Listener
    /\ UNCHANGED <<prog, ready, mem>>

-----------------------------------------------------------------------------
(* cur is not used: every connection has its own thread, and accept blocks. *)

PthreadStart == Started("pthread", [threads |-> {}])

PthreadAccept ==
    /\ prog = "pthread" /\ pc = "wait" /\ Readable(k, Listener)
    /\ AcceptOrExit(k' = Accept(k) /\ mem' = [threads |-> mem.threads \cup {FreeFd(k)}])
    /\ UNCHANGED <<prog, cur, ready>>

\* client_callback
PthreadRead(f) ==
    /\ prog = "pthread" /\ pc = "wait" /\ f \in mem.threads /\ Readable(k, f)
    /\ IF Result(k, f) = "data" THEN k' = Echo(k, f, TRUE) /\ UNCHANGED mem
       ELSE k' = Close(k, f) /\ mem' = [threads |-> mem.threads \ {f}]
    /\ UNCHANGED <<prog, pc, cur, ready>>

-----------------------------------------------------------------------------
(* A descriptor of the model is one of the child that serves it; the parent   *)
(* closes its copy at once and so never runs out of them.  SIGCHLD is blocked *)
(* from the start of main until the parent has set its handler after the      *)
(* first fork, and one pending signal stands for any number of children.   *)

ProcessStart == Started("process", [kids |-> {}, zombies |-> 0, pending |-> FALSE,
                                    handler |-> FALSE, reaping |-> FALSE, forked |-> FALSE])

\* accept, fork: from here on the child runs beside its parent.
ProcessAccept ==
    /\ prog = "process" /\ Readable(k, Listener) /\ FreeFds(k) # {}
    /\ ~mem.reaping /\ ~mem.forked
    /\ k' = Accept(k)
    /\ mem' = [mem EXCEPT !.kids = @ \cup {FreeFd(k)}, !.forked = TRUE]
    /\ UNCHANGED <<prog, ready, pc, cur>>

\* The parent, after every fork: sigaction, and the signal is unblocked.
ProcessHandler ==
    /\ prog = "process" /\ mem.forked /\ ~mem.reaping
    /\ mem' = [mem EXCEPT !.handler = TRUE, !.forked = FALSE]
    /\ UNCHANGED <<prog, k, ready, pc, cur>>

\* The child; its exit sends SIGCHLD.
ProcessRead(f) ==
    /\ prog = "process" /\ f \in mem.kids /\ Readable(k, f)
    /\ IF Result(k, f) = "data" THEN k' = Echo(k, f, TRUE) /\ UNCHANGED mem
       ELSE /\ k' = Close(k, f)
            /\ mem' = [mem EXCEPT !.kids = @ \ {f}, !.zombies = @ + 1, !.pending = TRUE]
    /\ UNCHANGED <<prog, ready, pc, cur>>

\* free_process starts, with the signal blocked while it runs.
ProcessSignal ==
    /\ prog = "process" /\ mem.pending /\ mem.handler /\ ~mem.reaping
    /\ mem' = [mem EXCEPT !.pending = FALSE, !.reaping = TRUE]
    /\ UNCHANGED <<prog, k, ready, pc, cur>>

\* Mutant: if instead of while.
ProcessReap_One ==
    /\ prog = "process" /\ mem.reaping
    /\ mem' = [mem EXCEPT !.zombies = IF @ > 0 THEN @ - 1 ELSE @, !.reaping = FALSE]
    /\ UNCHANGED <<prog, k, ready, pc, cur>>

\* waitpid(WNOHANG), until it finds no more.
ProcessReap ==
    /\ prog = "process" /\ mem.reaping
    /\ mem' = IF mem.zombies > 0 THEN [mem EXCEPT !.zombies = @ - 1]
              ELSE [mem EXCEPT !.reaping = FALSE]
    /\ UNCHANGED <<prog, k, ready, pc, cur>>

-----------------------------------------------------------------------------
SelectInit == SelectStart \/ ArrayStart \/ PollStart \/ UdpTcpStart \/ PthreadStart \/ ProcessStart

SelectStep ==
    \/ SelectWait \/ SelectAccept \/ ArrayWait \/ ArrayAccept \/ PollWait \/ PollAccept
    \/ \E i \in 1..MaxFd : ArrayRead(i) \/ PollRead(i)
    \/ UdpTcpWait \/ UdpTcpAccept \/ UdpTcpRecvfrom
    \/ \E f \in Watched : UdpTcpRead(f)
    \/ \E f \in Fds : SelectRead(f) \/ PthreadRead(f)

ThreadStep ==
    \/ PthreadAccept
    \/ ProcessAccept \/ ProcessHandler \/ ProcessSignal \/ ProcessReap
    \/ \E f \in Fds : ProcessRead(f)
=============================================================================
