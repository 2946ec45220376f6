----------------------------- MODULE MCServers -----------------------------
(***************************************************************************)
(* The socket servers, each with the same clients, and what they promise.  *)
(* A property names the programs whose code keeps the promise; the others  *)
(* are told in README.md.                                                  *)
(***************************************************************************)
EXTENDS EpollServers, Reactors, SelectServers

CONSTANT Latecomer      \* bound: a client that comes only where the events are full

ASSUME LatecomerAssumption == Latecomer \in Clients

Init == EpollInit \/ ReactorsInit \/ SelectInit

ServerStep == EpollStep \/ ReactorsStep \/ SelectStep

Next ==
    \/ \E c \in Clients \ {Latecomer} : ClientMove(c)
    \/ prog = "slots" /\ mem.slot[mem.size].fd # Listener /\ ClientConnect(Latecomer)
    \/ Datagram \/ ServerStep \/ ThreadStep

\* A process, thread or signal handler that can go on does so in the end.
Spec == /\ Init /\ [][Next]_vars
        /\ WF_vars(ServerStep)
        /\ WF_vars(ThreadStep)

-----------------------------------------------------------------------------
(* Which programs.                                                         *)

\* The buffer is cleared before it is read into.
Clearing == {"level", "tcp", "slots", "libevent", "select", "array", "poll", "udptcp",
             "pthread", "process"}

\* Every client is answered, whatever the others do.
Steadfast == {"level", "tcp", "edge", "pooled", "rector", "reactor", "select", "array",
              "pthread", "process"}

\* The answers a client gets are its own messages, in the order it sent them and
\* none twice, however the reads of several connections interleave and whichever
\* descriptor is used again for it; and nothing of an earlier message follows
\* them where the buffer is cleared.
EchoInOrder ==
    prog # "reactor" =>
        \A c \in Clients : \A i \in 1..Len(k.out[c]) :
            /\ k.out[c][i].from = c /\ k.out[c][i].msg = i
            /\ prog \in Clearing => k.out[c][i].clean

\* The tables of the program and the descriptors of the kernel agree: whoever is
\* in a table has an open descriptor, and one entry only.
TablesAgree ==
    CASE prog = "select"   -> mem.set \ {Listener} = {f \in Fds : Open(k, f)}
      [] prog = "array"    -> /\ mem.set \ {Listener} = {f \in Fds : Open(k, f)}
                              /\ \A f \in Fds : Open(k, f) <=>
                                     \E i \in 1..mem.maxi : mem.client[i] = f
      [] prog = "poll"     -> \A f \in Fds : Open(k, f) <=>
                                     \E i \in 1..mem.maxi : mem.client[i] = f
      [] prog = "libevent" -> {f \in Fds : k.watch[f].on} = {mem.evs[i] : i \in DOMAIN mem.evs}
      [] prog = "slots"    -> mem.slot[mem.size].fd = Listener =>
                                 \A f \in Fds : Open(k, f) <=>
                                     \E i \in 0..(mem.size - 1) : mem.slot[i].fd = f
      [] prog = "pthread"  -> mem.threads = {f \in Fds : Open(k, f)}
      [] OTHER             -> TRUE

\* A child that has ended is a zombie only as long as the signal that makes the
\* parent collect it is pending or its handler is running, although one pending
\* signal stands for several children.
NoZombieForgotten ==
    prog = "process" /\ mem.zombies > 0 => mem.pending \/ mem.reaping

\* Every message is answered in the end, unless the client or the program has
\* ended or there is no descriptor to accept the client with, no matter what the
\* other clients do.
Answered ==
    \A c \in Clients \ {Latecomer} : \A n \in 1..MaxSends :
        prog \in Steadfast /\ k.sent[c] >= n
            ~> \/ Len(k.out[c]) >= n \/ k.ended[c] # "open" \/ pc = "stopped"
               \/ FreeFds(k) = {} /\ FdOf(c) = {}

\* A connection whose client has closed or reset it is closed, so that its
\* descriptor can be used again.  ("level" never closes one, "rector" not after
\* an error.)
DescriptorsReturned ==
    \A c \in Clients \ {Latecomer} :
        (\/ prog \in Steadfast \ {"level"} /\ k.ended[c] = "fin"
         \/ prog \in Steadfast \ {"level", "rector"} /\ k.ended[c] = "reset")
            ~> c \in k.closed \/ pc = "stopped" \/ (FreeFds(k) = {} /\ FdOf(c) = {})

-----------------------------------------------------------------------------
(* The inductive invariant behind EchoInOrder, TablesAgree and             *)
(* NoZombieForgotten.                                                      *)

Answer == [from : Clients, msg : Nat, clean : BOOLEAN]

KernelType == KernelOf(Answer)

\* What is unread goes on where the answers, and the one that is held, end; and
\* nothing is missing while the client may send.
StreamsOK(s, held) ==
    \A c \in Clients :
        /\ \A i \in 1..Len(s.inq[c]) : s.inq[c][i] = Len(s.out[c]) + held[c] + i
        /\ s.ended[c] = "open" => s.sent[c] = Len(s.out[c]) + held[c] + Len(s.inq[c])

\* The answers are the client's own messages, in order, and clean where they must be.
AnswersOK(s, clearing) ==
    \A c \in Clients : \A i \in 1..Len(s.out[c]) :
        s.out[c][i].from = c /\ s.out[c][i].msg = i /\ (clearing => s.out[c][i].clean)

KernelOK(s, held, clearing) ==
    /\ s \in KernelType /\ ConnectionsOK(s) /\ StreamsOK(s, held)
    /\ AnswersOK(s, clearing) /\ WatchOK(s)

\* reactor.cpp reads a message with one event and answers it with another: the
\* clients whose message is held meanwhile.
Held ==
    [c \in Clients |->
        IF prog = "slots" /\ \E i \in 0..mem.size : /\ mem.slot[i].ev = "out"
                                                    /\ k.desc[mem.slot[i].fd] = c
        THEN 1 ELSE 0]

\* What is reported is still so when its turn comes.
ReadyOK ==
    /\ ready \subseteq Watched
    /\ pc \in {"wait", "loop"} /\ Listener \in ready => k.backlog # <<>>
    /\ (prog = "slots" /\ mem.slot[mem.size].fd # Listener) \/ \A f \in ready \cap Fds : Open(k, f)
    /\ pc = "loop" => Open(k, cur) /\ cur \notin ready
    /\ pc = "recvfrom" => ready = {}
    /\ prog \in {"pthread", "process"} => ready = {} /\ pc # "loop"

Opened == {f \in Fds : Open(k, f)}

\* An array of clients: each open descriptor has one entry, up to maxi.
ArrayOK ==
    /\ mem.client \in [1..MaxFd -> Fds \cup {-1}] /\ mem.maxi \in 0..MaxFd
    /\ \A i, j \in 1..MaxFd : mem.client[i] = mem.client[j] /\ i # j => mem.client[i] = -1
    /\ \A i \in 1..MaxFd : mem.client[i] # -1 => i <= mem.maxi /\ Open(k, mem.client[i])
    /\ \A f \in Opened : \E i \in 1..MaxFd : mem.client[i] = f

\* The events of reactor.cpp: each open descriptor has one entry, the one that
\* epoll holds for it, and the listener has the last until it is overwritten.
SlotsOK ==
    /\ mem.size \in 1..MaxFd
    /\ mem.slot \in [0..mem.size -> [fd : Fds \cup {Listener, -1}, ev : {"none", "in", "out"}]]
    /\ mem.at \in [Watched -> 0..mem.size]
    /\ mem.buf \in [0..mem.size -> Answer \cup {Nobody}]
    /\ mem.at[Listener] = mem.size
    /\ \A i \in 0..mem.size :
          /\ mem.slot[i].fd = Listener => i = mem.size /\ mem.slot[i].ev = "in"
          /\ mem.slot[i].fd = -1 <=> mem.slot[i].ev = "none"
          /\ mem.slot[i].fd \in Fds => /\ Open(k, mem.slot[i].fd)
                                       /\ mem.at[mem.slot[i].fd] = i
          /\ mem.slot[i].ev = "out" =>
                mem.buf[i] = [from |-> k.desc[mem.slot[i].fd],
                              msg |-> Len(k.out[k.desc[mem.slot[i].fd]]) + 1, clean |-> TRUE]
    /\ \A f \in Opened : mem.slot[mem.at[f]].fd = f

\* The tables of each program.
MemOK ==
    /\ prog = "rector" => mem \in [dirty : BOOLEAN]
    /\ prog = "select" => /\ mem \in [set : SUBSET Watched, maxfd : Watched]
                          /\ mem.set \ {Listener} = Opened
    /\ prog = "array" => /\ mem \in [set : SUBSET Watched, maxfd : Watched,
                                      client : [1..MaxFd -> Fds \cup {-1}], maxi : 0..MaxFd]
                         /\ mem.set \ {Listener} = Opened /\ ArrayOK
    /\ prog = "poll" => /\ mem \in [client : [1..MaxFd -> Fds \cup {-1}], maxi : 0..MaxFd]
                        /\ ArrayOK
    /\ prog = "udptcp" => mem \in [set : SUBSET Watched, maxfd : Watched]
    /\ prog = "pthread" => mem = [threads |-> Opened]
    /\ prog = "process" => /\ mem \in [kids : SUBSET Fds, zombies : Nat, pending : BOOLEAN,
                                        handler : BOOLEAN, reaping : BOOLEAN, forked : BOOLEAN]
                           /\ mem.zombies > 0 => mem.pending \/ mem.reaping
    /\ prog = "libevent" =>
          /\ mem \in [evs : Seq(Fds)]
          /\ \A i, j \in DOMAIN mem.evs : mem.evs[i] = mem.evs[j] => i = j
          /\ {f \in Fds : k.watch[f].on} = {mem.evs[i] : i \in DOMAIN mem.evs}
    /\ prog = "slots" => /\ mem = [size |-> mem.size, slot |-> mem.slot,
                                    at |-> mem.at, buf |-> mem.buf]
                         /\ SlotsOK

\* Kernel, reported descriptors and tables agree, in every server but
\* epoll_reactor.cpp, which answers hello to everything and keeps no table.
ServerInv ==
    prog # "reactor" => /\ KernelOK(k, Held, prog \in Clearing)
                        /\ ReadyOK
                        /\ MemOK
=============================================================================
