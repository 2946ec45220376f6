---------------------------- MODULE EpollServers ----------------------------
(***************************************************************************)
(* The echo servers built on epoll that keep the descriptor itself in the  *)
(* event: epoll_study/epoll_server.cpp ("level") and kcp_learn/tcp         *)
(* server.c ("tcp"), level triggered, one read for each event; and the     *)
(* edge triggered ones that read until the socket is empty,                *)
(* epoll_server_edge_triggered.cpp ("edge"), the same with a thread pool   *)
(* ("pooled") and epoll_reactor/reactor_class.cpp ("rector").              *)
(***************************************************************************)
EXTENDS Sockets

LevelStart  == Started("level", <<>>)
TcpStart    == Started("tcp", <<>>)
EdgeStart   == Started("edge", <<>>)
PooledStart == Started("pooled", <<>>)
\* The buffer is a member that no constructor clears.
RectorStart == Started("rector", [dirty |-> TRUE])

LevelWait  == prog = "level"  /\ EpollWait
TcpWait    == prog = "tcp"    /\ EpollWait
EdgeWait   == prog = "edge"   /\ EpollWait
PooledWait == prog = "pooled" /\ EpollWait
RectorWait == prog = "rector" /\ EpollWait

\* One accept for each event of the listening descriptor.
AcceptEvent(et) ==
    /\ Take(Listener)
    /\ AcceptOrExit(k' = AcceptAndWatch(et) /\ UNCHANGED mem)
    /\ UNCHANGED <<prog, cur>>

LevelAccept  == prog = "level"  /\ AcceptEvent(FALSE)
TcpAccept    == prog = "tcp"    /\ AcceptEvent(FALSE)
EdgeAccept   == prog = "edge"   /\ AcceptEvent(TRUE)
PooledAccept == prog = "pooled" /\ AcceptEvent(TRUE)
RectorAccept == prog = "rector" /\ AcceptEvent(TRUE)     \* init_accept

-----------------------------------------------------------------------------
\* One read.  At its end the connection leaves the epoll set and stays open.
LevelRead(f) ==
    /\ prog = "level" /\ Take(f)
    /\ k' = IF Result(k, f) = "data" THEN Echo(k, f, TRUE) ELSE Unwatch(Read(k, f), f)
    /\ UNCHANGED <<prog, pc, cur, mem>>

\* Mutant: the connection is closed and stays among the reported ones.
TcpRead_Lost(f) ==
    /\ prog = "tcp" /\ Take(f)
    /\ k' = Read(k, f)
    /\ UNCHANGED <<prog, pc, cur, mem>>

TcpRead(f) ==
    /\ prog = "tcp" /\ Take(f)
    /\ k' = IF Result(k, f) = "data" THEN Echo(k, f, TRUE) ELSE Close(k, f)
    /\ UNCHANGED <<prog, pc, cur, mem>>

-----------------------------------------------------------------------------
\* An event of a connection: the loop that reads it empty begins.
DrainBegin(f) ==
    /\ prog \in {"edge", "pooled", "rector"} /\ Take(f) /\ f # Listener
    /\ pc' = "loop" /\ cur' = f
    /\ UNCHANGED <<prog, k, mem>>

\* Mutant: the loop is left after one message.
DrainMore_Once(clean) ==
    /\ pc = "loop" /\ Result(k, cur) = "data"
    /\ k' = Echo(k, cur, clean)
    /\ pc' = "wait" /\ cur' = Listener
    /\ UNCHANGED <<prog, ready>>

DrainMore(clean) ==
    /\ pc = "loop" /\ Result(k, cur) = "data"
    /\ k' = Echo(k, cur, clean)
    /\ UNCHANGED <<prog, ready, pc, cur>>

\* EAGAIN and the end leave the loop; results in closing close the descriptor.
DrainEnd(closing) ==
    /\ pc = "loop" /\ Result(k, cur) # "data"
    /\ k' = IF Result(k, cur) \in closing THEN Close(k, cur) ELSE Read(k, cur)
    /\ pc' = "wait" /\ cur' = Listener
    /\ UNCHANGED <<prog, ready, mem>>

\* buffer is a local array that is read into before it is ever written.
EdgeRead ==
    /\ prog = "edge"
    /\ \/ (\E clean \in BOOLEAN : DrainMore(clean)) /\ UNCHANGED mem
       \/ DrainEnd({"eof", "error"})

\* thread_read_write: the same as a task of the pool whose result the loop
\* waits for (commit(...).get()), so that the workers never run it concurrently.
PooledRead ==
    /\ prog = "pooled"
    /\ \/ (\E clean \in BOOLEAN : DrainMore(clean)) /\ UNCHANGED mem
       \/ DrainEnd({"eof", "error"})

\* read_data closes at the end and not after an error; send_data clears the
\* buffer after every answer, so only the first message of all may meet it dirty.
RectorRead ==
    /\ prog = "rector"
    /\ \/ /\ \E clean \in {TRUE, ~mem.dirty} : DrainMore(clean)
          /\ mem' = [dirty |-> FALSE]
       \/ DrainEnd({"eof"})

EpollInit == LevelStart \/ TcpStart \/ EdgeStart \/ PooledStart \/ RectorStart

EpollStep ==
    \/ LevelWait \/ TcpWait \/ EdgeWait \/ PooledWait \/ RectorWait
    \/ LevelAccept \/ TcpAccept \/ EdgeAccept \/ PooledAccept \/ RectorAccept
    \/ \E f \in Fds : LevelRead(f) \/ TcpRead(f) \/ DrainBegin(f)
    \/ EdgeRead \/ PooledRead \/ RectorRead
=============================================================================
