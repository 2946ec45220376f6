----------------------------- MODULE WebSocket -----------------------------
(***************************************************************************)
(* The WebSocket servers epoll_websocket.c ("websocket") and               *)
(* epoll_websocket.cpp ("websocketpp"): reactors whose connections wait for *)
(* the upgrade request first (WS_HANDSHARK) and for frames then            *)
(* (WS_DATATRANSFORM).                                                     *)
(*                                                                         *)
(* What a message holds is chosen when it is looked at: whether the line   *)
(* with Sec-WebSocket-Key is in it, which payload a frame carries under    *)
(* which mask.  Frames are what their bytes are: the seven length bits and *)
(* the bytes behind the two-byte header.  Messages are pieces of a stream: *)
(* one recv may return several of them, or a part of one.                  *)
(***************************************************************************)
EXTENDS Sockets

CONSTANTS Payloads, Masks       \* sequences of bytes; a mask has four

\* A byte is the set of its bits that are one.
Octets == SUBSET (0..7)
Bits(n) == {i \in 0..7 : (n \div 2^i) % 2 = 1}
Xor(a, b) == (a \ b) \cup (b \ a)

ASSUME WebSocketAssumption ==
    Payloads \subseteq Seq(Octets) /\ Masks \subseteq [1..4 -> Octets]

\* umask: exclusive or with the mask, again and again.
Umask(data, mask) == [i \in 1..Len(data) |-> Xor(data[i], mask[((i - 1) % 4) + 1])]

\* A frame as a client sends it: a length of 126 says that two more bytes hold it.
ClientFrame(p, mask) ==
    [len7 |-> IF Len(p) < 126 THEN Len(p) ELSE 126,
     body |-> (IF Len(p) < 126 THEN <<>> ELSE <<Bits(Len(p) \div 256), Bits(Len(p) % 256)>>)
              \o mask \o Umask(p, mask)]

\* A frame as a client reads it.
ClientReads(frame) == SubSeq(frame.body, 1, frame.len7)

\* decode_packet compares the mask bit, not the length, with 126 and 127, and a
\* bit is neither: every frame is taken for one with a short length.
DecodePacket(frame) ==
    Umask(SubSeq(frame.body, 5, 4 + frame.len7), SubSeq(frame.body, 1, 4))

\* encode_packet: the data is copied right behind the two-byte header, over the
\* long length that was put there.
EncodePacket(data) ==
    [len7 |-> IF Len(data) < 126 THEN Len(data) ELSE 0, body |-> data]

\* The frame that goes back for a payload under a mask.
FrameBack ==
    [p \in Payloads |-> [mask \in Masks |-> EncodePacket(DecodePacket(ClientFrame(p, mask)))]]

-----------------------------------------------------------------------------
(* The callback of an item is the one for the event it waits for.          *)

\* begun: the descriptors where the beginning of the next unread message, and
\* not its end, has been read.
NoItems == [status |-> [f \in Fds |-> "shake"], buf |-> [f \in Fds |-> Nobody], begun |-> {}]

WebSocketStart == Started("websocket", NoItems)

WebSocketWait == prog = "websocket" /\ EpollWait

\* accept_cb of both.  Without a descriptor it returns, and the event comes again.
ItemAccept ==
    /\ Take(Listener)
    /\ IF FreeFds(k) = {} THEN UNCHANGED <<k, mem>>
       ELSE /\ k' = AcceptAndWatch(TRUE)
            /\ mem' = [mem EXCEPT !.status[FreeFd(k)] = "shake", !.begun = @ \ {FreeFd(k)}]
    /\ UNCHANGED <<prog, pc, cur>>

WebSocketAccept == prog = "websocket" /\ ItemAccept

Unread(f) == k.inq[k.desc[f]]

\* How much one recv may return: the ends of n messages and, with f in begun, the
\* beginning of the next.  (Bound: a message comes in two pieces at most.)
Chunk(f, n, begun) ==
    /\ begun \in {mem.begun \ {f}, mem.begun \cup {f}}
    /\ f \in begun => n < Len(Unread(f))
    /\ n = 0 => f \in begun /\ f \notin mem.begun

\* recv of so much.
Taken(s, f, n) == [s EXCEPT !.inq[s.desc[f]] = SubSeq(@, n + 1, Len(@))]

\* What the answer is to: the message that comes first, and up to which one the
\* same recv has taken them; those behind the first go unanswered.
FirstOf(f) == Head(Unread(f))
LastOf(f, n) == FirstOf(f) + n - 1

\* Mutant: the connection goes on waiting for the upgrade request.
ToSend_Shaking(f, n, begun, reply) ==
    /\ k' = Watch(Taken(k, f, n), f, "out", TRUE)
    /\ mem' = [mem EXCEPT !.buf[f] = reply, !.begun = begun]

\* The answer is put into sendbuffer, recvbuffer is cleared and EPOLLOUT is
\* waited for.
ToSend(f, n, begun, reply) ==
    /\ k' = Watch(Taken(k, f, n), f, "out", TRUE)
    /\ mem' = [mem EXCEPT !.status[f] = "data", !.buf[f] = reply, !.begun = begun]

\* Nothing is answered, and the connection waits for the next edge: it may be
\* the one of the rest of a message, if that was yet to come.
Discard(f, n, begun) ==
    /\ \E late \in SUBSET (begun \cap {f}) : k' = Stir(Taken(k, f, n), late)
    /\ mem' = [mem EXCEPT !.begun = begun]

\* handshark: without the key nothing happens.  Whether the digest that goes back
\* is right is left open: it is measured with strlen, so one that holds a zero
\* byte makes a wrong answer, and so does a key that is cut.
Handshark(f, n, begun) ==
    \/ Discard(f, n, begun)
    \/ ToSend(f, n, begun, [kind |-> "101", msg |-> FirstOf(f), last |-> LastOf(f, n)])

\* Mutant: the frame goes out and the connection waits for input all along.
Transform_NoWait(f, n, begun) ==
    \E p \in Payloads, mask \in Masks :
        /\ k' = Taken(k, f, n)
        /\ mem' = [mem EXCEPT !.begun = begun, !.buf[f] =
               [kind |-> "frame", msg |-> FirstOf(f), last |-> LastOf(f, n), payload |-> p,
                frame |-> FrameBack[p][mask]]]

\* transform: the frame at the start of recvbuffer is unpacked, packed again and
\* sent back, and what is behind it cleared.  What is not a whole frame is taken
\* for one, and some answer goes back.
Transform(f, n, begun) ==
    IF n > 0 /\ f \notin mem.begun
    THEN \E p \in Payloads, mask \in Masks :
            ToSend(f, n, begun, [kind |-> "frame", msg |-> FirstOf(f), last |-> LastOf(f, n),
                                 payload |-> p, frame |-> FrameBack[p][mask]])
    ELSE ToSend(f, n, begun, [kind |-> "garbled", msg |-> FirstOf(f), last |-> LastOf(f, n)])

\* recv_cb
WebSocketRecv(f) ==
    /\ prog = "websocket" /\ Take(f) /\ k.watch[f].ev = "in"
    /\ \/ Result(k, f) = "again" /\ UNCHANGED <<k, mem>>
       \/ Result(k, f) \in {"eof", "error"} /\ k' = Close(k, f) /\ UNCHANGED mem
       \/ /\ Result(k, f) = "data"
          /\ \E n \in 0..Len(Unread(f)), begun \in SUBSET Fds :
                /\ Chunk(f, n, begun)
                /\ \/ mem.status[f] = "shake" /\ Handshark(f, n, begun)
                   \/ mem.status[f] = "data" /\ Transform(f, n, begun)
    /\ UNCHANGED <<prog, pc, cur>>

\* send_cb of both
ItemSend(f) ==
    /\ Take(f) /\ k.watch[f].ev = "out"
    /\ k' = Watch(Write(k, f, mem.buf[f]), f, "in", TRUE)
    /\ mem' = [mem EXCEPT !.buf[f] = Nobody]
    /\ UNCHANGED <<prog, pc, cur>>

WebSocketSend(f) == prog = "websocket" /\ ItemSend(f)

-----------------------------------------------------------------------------
WebSocketppStart == Started("websocketpp", NoItems)

WebSocketppWait == prog = "websocketpp" /\ EpollWait
WebSocketppAccept == prog = "websocketpp" /\ ItemAccept

\* handshake: two lines are cut off the end and the rest looked up; a request of
\* one line has no two lines to cut, which is undefined.
Handshake(f, n, begun) ==
    \/ Discard(f, n, begun) /\ UNCHANGED pc
    \/ /\ ToSend(f, n, begun, [kind |-> "101", msg |-> FirstOf(f), last |-> LastOf(f, n)])
       /\ UNCHANGED pc
    \/ pc' = "crashed" /\ UNCHANGED <<k, mem>>

\* recv_cb with data_tranform, which unpacks the frame, prints it and does not
\* answer: the connection keeps waiting for the next edge.
WebSocketppRecv(f) ==
    /\ prog = "websocketpp" /\ Take(f) /\ k.watch[f].ev = "in"
    /\ \/ Result(k, f) = "again" /\ UNCHANGED <<k, mem, pc>>
       \/ Result(k, f) \in {"eof", "error"} /\ k' = Close(k, f) /\ UNCHANGED <<mem, pc>>
       \/ /\ Result(k, f) = "data"
          /\ \E n \in 0..Len(Unread(f)), begun \in SUBSET Fds :
                /\ Chunk(f, n, begun)
                /\ \/ mem.status[f] = "shake" /\ Handshake(f, n, begun)
                   \/ mem.status[f] = "data" /\ Discard(f, n, begun) /\ UNCHANGED pc
    /\ UNCHANGED <<prog, cur>>

WebSocketppSend(f) == prog = "websocketpp" /\ ItemSend(f)

-----------------------------------------------------------------------------
WebSocketInit == WebSocketStart \/ WebSocketppStart

WebSocketStep ==
    \/ WebSocketWait \/ WebSocketAccept \/ WebSocketppWait \/ WebSocketppAccept
    \/ \E f \in Fds : \/ WebSocketRecv(f) \/ WebSocketSend(f)
                      \/ WebSocketppRecv(f) \/ WebSocketppSend(f)

WebSocketSpec == WebSocketInit /\ [][ClientStep \/ WebSocketStep]_vars

-----------------------------------------------------------------------------
\* The client reads the payload it wrote, if a short length allows it.
ReadBack(r) == Len(r.payload) < 126 => ClientReads(r.frame) = r.payload

\* A client is greeted first and once, and then every recv is answered once, in
\* order, no answer overwritten by the next one in sendbuffer: a frame that gets
\* no answer was read in one recv with the one before it.  The answer to a whole
\* frame is what the client wrote, for a payload that a short length allows.
FramesInOrder ==
    prog = "websocket" =>
        \A c \in Clients : \A i \in 1..Len(k.out[c]) :
            IF i = 1 THEN k.out[c][1].kind = "101"
            ELSE /\ k.out[c][i].kind # "101"
                 /\ k.out[c][i].msg = k.out[c][i - 1].last + 1
                 /\ k.out[c][i].kind = "frame" => ReadBack(k.out[c][i])

-----------------------------------------------------------------------------
(* Why that is so: an inductive invariant, of "websocket".                 *)

Answers ==
    [kind : {"101", "garbled"}, msg : Nat, last : Int]
    \cup [kind : {"frame"}, msg : Nat, last : Int, payload : Payloads,
          frame : {FrameBack[p][mask] : p \in Payloads, mask \in Masks}]

WebSocketTypeOK ==
    /\ k \in KernelOf(Answers)
    /\ ready \subseteq Watched
    /\ mem \in [status : [Fds -> {"shake", "data"}], buf : [Fds -> Answers \cup {Nobody}],
               begun : SUBSET Fds]

\* What is reported is still so when its turn comes.
ItemsReady == /\ Listener \in ready => k.backlog # <<>>
              /\ \A f \in ready \cap Fds : Open(k, f)

\* What is unread ends with what was sent last, without a gap.
InputInOrder ==
    \A c \in Clients : \A i \in 1..Len(k.inq[c]) :
        k.inq[c][i] = k.sent[c] - Len(k.inq[c]) + i

\* Nothing goes to a client before its connection is accepted.
NoneBefore ==
    /\ \A c \in Clients \ k.came : k.out[c] = <<>>
    /\ \A i \in 1..Len(k.backlog) : k.out[k.backlog[i]] = <<>>

\* sendbuffer holds what goes to the client next.
GoesNext(r, out) ==
    IF out = <<>> THEN r.kind = "101"
    ELSE /\ r.kind # "101" /\ r.msg = out[Len(out)].last + 1
         /\ r.kind = "frame" => ReadBack(r)

\* The last message of the client on f that the answer last sent, or about to be
\* sent, accounts for.
LastTaken(f) ==
    IF k.watch[f].ev = "out" THEN mem.buf[f].last
    ELSE k.out[k.desc[f]][Len(k.out[k.desc[f]])].last

\* The connection waits for output exactly while an answer is in sendbuffer; once
\* it is greeted, what is unread begins behind what the last answer accounts for.
ItemOK(f) ==
    LET c == k.desc[f]
    IN  /\ mem.status[f] = "shake" => k.out[c] = <<>> /\ k.watch[f].ev = "in"
        /\ k.watch[f].ev = "out" => mem.buf[f] \in Answers /\ GoesNext(mem.buf[f], k.out[c])
        /\ mem.status[f] = "data" =>
              /\ k.watch[f].ev = "in" => k.out[c] # <<>>
              /\ k.ended[c] = "open" \/ k.inq[c] # <<>> =>
                    LastTaken(f) = k.sent[c] - Len(k.inq[c])

WebSocketInv ==
    prog = "websocket" =>
        /\ WebSocketTypeOK /\ ConnectionsOK(k) /\ WatchOK(k) /\ ItemsReady
        /\ InputInOrder /\ NoneBefore /\ FramesInOrder
        /\ \A f \in Fds : Open(k, f) => ItemOK(f)
=============================================================================
