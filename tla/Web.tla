-------------------------------- MODULE Web --------------------------------
(***************************************************************************)
(* The web servers epoll_webserver.cpp ("web") and event_webserver.cpp     *)
(* ("eventweb").                                                           *)
(*                                                                         *)
(* "web" reads its requests with Readline of wrap.cpp, which keeps what it *)
(* read ahead in one static buffer for all connections, and throws away    *)
(* the lines behind the first until the socket is empty.  A message is a   *)
(* piece of a request; whether it ends a line, and what the line asks for, *)
(* is chosen when it is looked at.                                         *)
(***************************************************************************)
EXTENDS Sockets

\* What a first line asks for: a directory; a page, which is a file or, with
\* status 404, error.html; something else than GET.  "bad" is a line of fewer than
\* three words, where res[1] or res[2] is undefined, and a path at which UrlDecode
\* asserts.
Requests == {"directory", "page", "other", "bad"}

-----------------------------------------------------------------------------
(* static is read_buf; line collects the pieces of the first line.         *)

WebStart == Started("web", [static |-> <<>>, line |-> <<>>])
WebWait == prog = "web" /\ EpollWait

WebAccept ==
    /\ prog = "web" /\ Take(Listener)
    /\ AcceptOrExit(k' = AcceptAndWatch(FALSE) /\ UNCHANGED mem)
    /\ UNCHANGED <<prog, cur>>

\* read_client_requests begins.
WebBegin(f) ==
    /\ prog = "web" /\ Take(f) /\ f # Listener
    /\ pc' = "line" /\ cur' = f /\ mem' = [mem EXCEPT !.line = <<>>]
    /\ UNCHANGED <<prog, k>>

\* my_read: an empty buffer is filled with what is there, at most two pieces.
Ahead(s, f) == IF Len(s.inq[s.desc[f]]) > 1 THEN 2 ELSE 1
Piece(s, f, i) == [from |-> s.desc[f], msg |-> s.inq[s.desc[f]][i]]

WebFill ==
    /\ prog = "web" /\ pc \in {"line", "drain"}
    /\ mem.static = <<>> /\ Result(k, cur) = "data"
    /\ mem' = [mem EXCEPT !.static = [i \in 1..Ahead(k, cur) |-> Piece(k, cur, i)]]
    /\ k' = IF Ahead(k, cur) = 2 THEN Read(Read(k, cur), cur) ELSE Read(k, cur)
    /\ UNCHANGED <<prog, ready, pc, cur>>

\* Mutant: only one line behind the first is read.
WebTake_Once ==
    /\ prog = "web" /\ pc \in {"line", "drain"} /\ mem.static # <<>>
    /\ IF pc = "line"
       THEN /\ mem' = [static |-> Tail(mem.static), line |-> Append(mem.line, Head(mem.static))]
            /\ pc' \in {"line", "drain"}
       ELSE mem' = [mem EXCEPT !.static = Tail(@)] /\ pc' = "answer"
    /\ UNCHANGED <<prog, k, ready, cur>>

\* Readline takes a piece, of the first line or of one that is thrown away.
WebTake ==
    /\ prog = "web" /\ pc \in {"line", "drain"} /\ mem.static # <<>>
    /\ IF pc = "line"
       THEN /\ mem' = [static |-> Tail(mem.static), line |-> Append(mem.line, Head(mem.static))]
            /\ pc' \in {"line", "drain"}
       ELSE mem' = [mem EXCEPT !.static = Tail(@)] /\ UNCHANGED pc
    /\ UNCHANGED <<prog, k, ready, cur>>

\* Nothing more to read.  EAGAIN and errors in the first line close the
\* connection, the end does when nothing of a line has come.
WebEmpty ==
    /\ prog = "web" /\ pc \in {"line", "drain"}
    /\ mem.static = <<>> /\ Result(k, cur) # "data"
    /\ IF pc = "line" /\ (Result(k, cur) # "eof" \/ mem.line = <<>>)
       THEN k' = Close(k, cur) /\ pc' = "wait" /\ cur' = Listener
       ELSE k' = Read(k, cur) /\ pc' = "answer" /\ UNCHANGED cur
    /\ UNCHANGED <<prog, ready, mem>>

\* The headers and the body are sent; a listing ends with closing the connection,
\* and a method other than GET gets nothing.
WebAnswer ==
    /\ prog = "web" /\ pc = "answer"
    /\ \E asked \in Requests :
           IF asked = "bad" THEN pc' = "crashed" /\ UNCHANGED <<k, cur, mem>>
           ELSE /\ LET w == Write(k, cur, [to |-> mem.line])
                   IN  k' = CASE asked = "other"     -> k
                              [] asked = "directory" -> Close(w, cur)
                              [] OTHER               -> w
                /\ pc' = "wait" /\ cur' = Listener /\ mem' = [mem EXCEPT !.line = <<>>]
    /\ UNCHANGED <<prog, ready>>

-----------------------------------------------------------------------------
(* libevent reads into a buffer of the connection and calls read_cb.       *)

EventWebStart == Started("eventweb", [in |-> [f \in Fds |-> <<>>]])
EventWebWait == prog = "eventweb" /\ EpollWait

\* listen_cb
EventWebAccept ==
    /\ prog = "eventweb" /\ Take(Listener)
    /\ IF FreeFds(k) = {} THEN UNCHANGED <<k, mem>>
       ELSE k' = AcceptAndWatch(FALSE) /\ mem' = [mem EXCEPT !.in[FreeFd(k)] = <<>>]
    /\ UNCHANGED <<prog, pc, cur>>

\* read_cb: the first piece is the request; GET throws the others away, any
\* other method leaves them, and they are taken for a request later.
EventWebRead(f) ==
    /\ prog = "eventweb" /\ Take(f) /\ f # Listener /\ Result(k, f) = "data"
    /\ LET n   == Ahead(k, f)
           all == mem.in[f] \o [i \in 1..n |-> Piece(k, f, i)]
           s   == IF n = 2 THEN Read(Read(k, f), f) ELSE Read(k, f)
       IN  \E asked \in Requests :
               CASE asked = "bad" -> pc' = "crashed" /\ UNCHANGED <<k, mem>>
                 [] asked = "other" -> /\ k' = s /\ mem' = [mem EXCEPT !.in[f] = Tail(all)]
                                       /\ UNCHANGED pc
                 [] OTHER           -> /\ k' = Write(s, f, [to |-> <<Head(all)>>])
                                       /\ mem' = [mem EXCEPT !.in[f] = <<>>]
                                       /\ UNCHANGED pc
    /\ UNCHANGED <<prog, cur>>

\* Mutant: the event is disabled, the connection stays.
EventWebGone_Open(f) ==
    /\ prog = "eventweb" /\ Take(f) /\ f # Listener /\ Result(k, f) # "data"
    /\ k' = Unwatch(k, f)
    /\ UNCHANGED <<prog, pc, cur, mem>>

\* bevent_cb: the end or an error frees the bufferevent, which closes.
EventWebGone(f) ==
    /\ prog = "eventweb" /\ Take(f) /\ f # Listener /\ Result(k, f) # "data"
    /\ k' = Close(k, f)
    /\ UNCHANGED <<prog, pc, cur, mem>>

-----------------------------------------------------------------------------
WebInit == WebStart \/ EventWebStart

WebStep ==
    \/ WebWait \/ WebAccept \/ WebFill \/ WebTake \/ WebEmpty \/ WebAnswer
    \/ EventWebWait \/ EventWebAccept
    \/ \E f \in Fds : WebBegin(f) \/ EventWebRead(f) \/ EventWebGone(f)

WebSpec == WebInit /\ [][ClientStep \/ WebStep]_vars

-----------------------------------------------------------------------------
\* A response answers what its own client has sent, though "web" reads all
\* connections through one buffer and "eventweb" keeps input that may outlive the
\* connection whose descriptor the next client takes over.
OwnRequest ==
    prog \in {"web", "eventweb"} =>
        \A c \in Clients : \A i \in 1..Len(k.out[c]) :
            \A j \in 1..Len(k.out[c][i].to) : k.out[c][i].to[j].from = c

-----------------------------------------------------------------------------
(* Why that is so: an inductive invariant.                                 *)

Pieces == [from : Clients, msg : Nat]

WebTypeOK ==
    /\ prog \in {"web", "eventweb"}
    /\ k \in KernelOf([to : Seq(Pieces)])
    /\ ready \subseteq Watched /\ cur \in Watched
    /\ pc \in {"wait", "line", "drain", "answer", "stopped", "crashed"}
    /\ prog = "web" => mem \in [static : Seq(Pieces), line : Seq(Pieces)]
    /\ prog = "eventweb" => mem \in [in : [Fds -> Seq(Pieces)]] /\ pc \in {"wait", "crashed"}

\* read_client_requests is busy with the connection of cur.
Serving == pc \in {"line", "drain", "answer"}

\* What is reported is still so when its turn comes, and nobody closes the
\* connection that is being served.
WebReady ==
    /\ Listener \in ready => k.backlog # <<>>
    /\ \A f \in ready \cap Fds : Open(k, f)
    /\ Serving => Open(k, cur) /\ cur \notin ready

OfClient(pieces, c) == \A i \in 1..Len(pieces) : pieces[i].from = c

\* The static buffer is empty whenever the loop turns to another connection, and
\* a buffer of libevent holds what the present owner of the descriptor sent.
BuffersOwned ==
    /\ prog = "web" =>
          /\ pc \in {"wait", "answer"} => mem.static = <<>>
          /\ Serving => OfClient(mem.static, k.desc[cur]) /\ OfClient(mem.line, k.desc[cur])
    /\ prog = "eventweb" => \A f \in Fds : Open(k, f) => OfClient(mem.in[f], k.desc[f])

WebInv ==
    /\ WebTypeOK /\ ConnectionsOK(k) /\ WatchOK(k)
    /\ WebReady /\ BuffersOwned /\ OwnRequest
=============================================================================
