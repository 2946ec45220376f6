------------------------------ MODULE Reactors ------------------------------
(***************************************************************************)
(* The servers that keep a callback in the event: epoll_reactor.cpp        *)
(* ("reactor"), which allocates an item for every connection, reactor.cpp  *)
(* ("slots"), which keeps its events in an array whose last entry is the   *)
(* listener's, and libevent_tcp_server.cpp ("libevent"), which remembers   *)
(* the events in the order of arrival.                                     *)
(***************************************************************************)
EXTENDS Sockets

ReactorStart == Started("reactor", <<>>)
ReactorWait == prog = "reactor" /\ EpollWait

\* accept_cb.  Without a descriptor it returns, and the event comes again.
ReactorAccept ==
    /\ prog = "reactor" /\ Take(Listener)
    /\ k' = IF FreeFds(k) = {} THEN k ELSE AcceptAndWatch(TRUE)
    /\ UNCHANGED <<prog, pc, cur, mem>>

\* recv_cb: a message makes the item wait for EPOLLOUT with send_cb, so that the
\* callback of an item is the one for the event it waits for.
ReactorRecv(f) ==
    /\ prog = "reactor" /\ Take(f) /\ k.watch[f].ev = "in"
    /\ k' = IF Result(k, f) = "data" THEN Watch(Read(k, f), f, "out", TRUE) ELSE Close(k, f)
    /\ UNCHANGED <<prog, pc, cur, mem>>

\* send_cb: says hello and waits for input again.
ReactorSend(f) ==
    /\ prog = "reactor" /\ Take(f) /\ k.watch[f].ev = "out"
    /\ k' = Watch(Write(k, f, "hello"), f, "in", TRUE)
    /\ UNCHANGED <<prog, pc, cur, mem>>

-----------------------------------------------------------------------------
(* slot[i] is myevents[i]; at[f] is the entry that epoll holds for f; buf[i]  *)
(* is the message read and not sent.                                       *)

Free == [fd |-> -1, ev |-> "none"]

\* size is _EVENT_SIZE_, of the order of the descriptors a process may have.
SlotsStart(size) ==
    Started("slots", [size |-> size,
                      slot |-> [i \in 0..size |-> IF i = size THEN [fd |-> Listener, ev |-> "in"] ELSE Free],
                      at   |-> [f \in Watched |-> size],
                      buf  |-> [i \in 0..size |-> Nobody]])

SlotsWait == prog = "slots" /\ EpollWait

\* The entry an event leads to, when the entry waits for such an event.
Called(f) == mem.slot[mem.at[f]]
Calls(f) == prog = "slots" /\ Take(f) /\ Called(f).ev = k.watch[f].ev

\* initAccept and eventadd: the first free entry, and behind the last one the
\* listener's own.
SlotsAccept(f) ==
    /\ Calls(f) /\ Called(f).fd = Listener
    /\ LET i == Min({j \in 0..(mem.size - 1) : mem.slot[j].fd = -1} \cup {mem.size})
       IN  AcceptOrExit(/\ k' = AcceptAndWatch(FALSE)
                        /\ mem' = [mem EXCEPT !.slot[i] = [fd |-> FreeFd(k), ev |-> "in"],
                                              !.at[FreeFd(k)] = i])
    /\ UNCHANGED <<prog, cur>>

\* readData with eventset or eventdel; a read of the wrong descriptor blocks.
\* Read after an error does nothing, and the event comes again.
SlotsRead(f) ==
    /\ Calls(f) /\ Called(f).fd \in Fds /\ Called(f).ev = "in"
    /\ Open(k, Called(f).fd) => Readable(k, Called(f).fd)
    /\ LET g == Called(f).fd
           i == mem.at[f]
           r == IF Open(k, g) THEN Result(k, g) ELSE "error"
       IN  CASE r = "data"  -> /\ k' = Watch(Read(k, g), g, "out", FALSE)
                               /\ mem' = [mem EXCEPT !.slot[i].ev = "out", !.at[g] = i,
                                                     !.buf[i] = Reply(k, g, TRUE)]
             [] r = "eof"   -> /\ k' = Close(k, g)
                               /\ mem' = [mem EXCEPT !.slot[i] = Free, !.buf[i] = Nobody]
             [] r = "error" -> /\ k' = IF Open(k, g) THEN Read(k, g) ELSE k
                               /\ UNCHANGED mem
    /\ UNCHANGED <<prog, pc, cur>>

\* Mutant: eventset is forgotten, and the answer is sent again.
SlotsSend_Again(f) ==
    /\ Calls(f) /\ Called(f).ev = "out"
    /\ k' = Write(k, Called(f).fd, mem.buf[mem.at[f]])
    /\ UNCHANGED <<prog, pc, cur, mem>>

\* senddata with eventset
SlotsSend(f) ==
    /\ Calls(f) /\ Called(f).ev = "out"
    /\ LET g == Called(f).fd
           i == mem.at[f]
       IN  /\ k' = Watch(Write(k, g, mem.buf[i]), g, "in", FALSE)
           /\ mem' = [mem EXCEPT !.slot[i].ev = "in", !.at[g] = i]
    /\ UNCHANGED <<prog, pc, cur>>

\* The entry waits for something else: the loop goes on.
SlotsSkip(f) ==
    /\ prog = "slots" /\ Take(f) /\ Called(f).ev # k.watch[f].ev
    /\ UNCHANGED <<prog, k, pc, cur, mem>>

-----------------------------------------------------------------------------
(* evs[1 .. count]: the events in the order they were added.               *)

LibeventStart == Started("libevent", [evs |-> <<>>])
LibeventWait == prog = "libevent" /\ EpollWait

\* lfd_callback
LibeventAccept ==
    /\ prog = "libevent" /\ Take(Listener)
    /\ AcceptOrExit(/\ k' = AcceptAndWatch(FALSE)
                    /\ mem' = [evs |-> Append(mem.evs, FreeFd(k))])
    /\ UNCHANGED <<prog, cur>>

\* cfd_callback: a client that leaves takes the last event away, whoever it
\* belongs to, even one that is about to be called.  The descriptor stays open.
LibeventRead(f) ==
    /\ prog = "libevent" /\ pc = "wait" /\ f \in ready
    /\ IF Result(k, f) = "data"
       THEN k' = Echo(k, f, TRUE) /\ ready' = ready \ {f} /\ UNCHANGED <<mem, pc>>
       ELSE IF mem.evs = <<>>                     \* evs[-1]
       THEN pc' = "crashed" /\ UNCHANGED <<k, ready, mem>>
       ELSE LET g == mem.evs[Len(mem.evs)]
            IN  /\ k' = Unwatch(Read(k, f), g)
                /\ ready' = ready \ {f, g}
                /\ mem' = [evs |-> SubSeq(mem.evs, 1, Len(mem.evs) - 1)]
                /\ UNCHANGED pc
    /\ UNCHANGED <<prog, cur>>

ReactorsInit == ReactorStart \/ LibeventStart \/ \E size \in 1..MaxFd : SlotsStart(size)

ReactorsStep ==
    \/ ReactorWait \/ ReactorAccept
    \/ SlotsWait \/ LibeventWait \/ LibeventAccept
    \/ \E f \in Fds : ReactorRecv(f) \/ ReactorSend(f) \/ LibeventRead(f)
    \/ \E f \in Fds \cup {Listener} : SlotsAccept(f) \/ SlotsRead(f) \/ SlotsSend(f) \/ SlotsSkip(f)
=============================================================================
