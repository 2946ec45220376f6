-------------------------------- MODULE Ikcp --------------------------------
(***************************************************************************)
(* The KCP automatic-repeat-request protocol of kcp_learn/ikcp.c: two      *)
(* control blocks (struct IKCPCB), one per endpoint, that exchange         *)
(* datagrams over a network that loses, duplicates, delays and reorders.   *)
(*                                                                         *)
(* The lists of the control block become                                   *)
(*   snd_queue, rcv_queue   sequences of segments,                         *)
(*   snd_buf, rcv_buf       functions from sequence number to segment (the *)
(*                          code keeps both lists sorted by sn and without *)
(*                          duplicates),                                   *)
(*   acklist                a set of sequence numbers (acknowledging one   *)
(*                          number twice in a flush is idempotent).        *)
(* The bytes of a segment are named by their position in the application's *)
(* byte stream: off is the position of the first byte, len their number.   *)
(* Time is abstracted: a flush may find any set of transmitted segments    *)
(* expired, and the probe timer due or not.                                *)
(***************************************************************************)
EXTENDS Integers, Sequences, FiniteSets

CONSTANTS
    A, B,          \* the two endpoints of one conversation (conv)
    WndRcv,        \* IKCP_WND_RCV, 128 in the code
    SndWnd,        \* snd_wnd, as configured with ikcp_wndsize
    RcvWnd,        \* rcv_wnd, as configured with ikcp_wndsize
    Mtu,           \* mtu, 1400 by default
    Stream,        \* stream mode instead of message mode
    NoCwnd,        \* nocwnd: congestion control switched off
    FastResend,    \* fastresend, 0 is off
    FastLimit,     \* fastlimit, IKCP_FASTACK_LIMIT by default
    DeadLink,      \* dead_link, IKCP_DEADLINK by default
    Lens,          \* bound: the lengths the applications pass to ikcp_send
    MaxSends,      \* bound: how many times each endpoint calls ikcp_send
    NetCap         \* datagrams in flight to one endpoint (nmax, test.h)

EP == {A, B}

Peer(e) == IF e = A THEN B ELSE A

IKCP_OVERHEAD == 24

IKCP_THRESH_MIN == 2

Mss == Mtu - IKCP_OVERHEAD

ASSUME EndpointsDiffer == A # B

\* ikcp_wndsize never leaves rcv_wnd below IKCP_WND_RCV.
ASSUME WindowAssumption ==
    /\ WndRcv \in Nat \ {0}
    /\ SndWnd \in Nat \ {0}
    /\ RcvWnd \in Nat /\ RcvWnd >= WndRcv

\* ikcp_setmtu refuses an mtu below 50.
ASSUME SegmentAssumption ==
    /\ Mtu \in Nat /\ Mtu >= 50
    /\ Lens \subseteq Nat

ASSUME TuningAssumption ==
    /\ Stream \in BOOLEAN
    /\ NoCwnd \in BOOLEAN
    /\ FastResend \in Nat
    /\ FastLimit \in Nat
    /\ DeadLink \in Nat
    /\ MaxSends \in [EP -> Nat]
    /\ NetCap \in [EP -> Nat]

VARIABLES
    \* the sending half of each control block
    snd_queue, snd_buf, snd_una, snd_nxt,
    \* its flow and congestion control
    rmt_wnd, probe_wait, cwnd, ssthresh, incr, state,
    \* the receiving half
    rcv_nxt, rcv_buf, rcv_queue, acklist, ask_tell,
    \* datagrams on their way to each endpoint
    net,
    \* history: segments in the order they were numbered, segments handed to
    \* the application, calls of ikcp_send and of ikcp_recv, bytes accepted
    numbered, delivered, sends, recvs, snd_off

sndVars == <<snd_queue, snd_buf, snd_una, snd_nxt>>
flowVars == <<rmt_wnd, probe_wait, cwnd, ssthresh, incr, state>>
rcvVars == <<rcv_nxt, rcv_buf, rcv_queue, acklist, ask_tell>>
histVars == <<numbered, delivered, sends, recvs, snd_off>>
vars == <<sndVars, flowVars, rcvVars, net, histVars>>

Minimum(x, y) == IF x <= y THEN x ELSE y
Maximum(x, y) == IF x >= y THEN x ELSE y

-----------------------------------------------------------------------------
(* Types.                                                                  *)

\* What a segment carries of the application's data (struct IKCPSEG), never
\* more than mss bytes.
Segment == [frg : Nat, off : Nat, len : 0..Mss]

\* A segment of snd_buf also counts its transmissions and the
\* acknowledgements that skipped it.
SndSegment == [frg : Nat, off : Nat, len : 0..Mss, xmit : Nat, fastack : Nat]

\* A segment of snd_buf with its counters set.
Counted(s, xmit, fastack) ==
    [frg |-> s.frg, off |-> s.off, len |-> s.len, xmit |-> xmit, fastack |-> fastack]

\* Mutant: the data pointer is advanced before the copy instead of after it.
Payload_Advanced(s) == [frg |-> s.frg, off |-> s.off + s.len, len |-> s.len]

\* What ikcp_encode_seg and the copy behind it put on the wire.
Payload(s) == [frg |-> s.frg, off |-> s.off, len |-> s.len]

\* A sorted list of segments, keyed by sequence number.
IsSnMap(f, S) ==
    /\ f = [sn \in DOMAIN f |-> f[sn]]
    /\ DOMAIN f \subseteq Nat
    /\ \A sn \in DOMAIN f : f[sn] \in S

\* One UDP datagram.  All segments of one flush carry the same wnd and una,
\* acknowledgements come first, then WASK, WINS, then PUSH segments in the
\* order of their sn.
IsDatagram(d) ==
    /\ d.wnd \in Nat
    /\ d.una \in Nat
    /\ d.acks \subseteq Nat
    /\ d.wask \in BOOLEAN
    /\ d.wins \in BOOLEAN
    /\ IsSnMap(d.push, Segment)

-----------------------------------------------------------------------------
(* ikcp_create on both sides.                                              *)

Init ==
    /\ snd_queue = [e \in EP |-> <<>>]
    /\ snd_buf = [e \in EP |-> <<>>]
    /\ snd_una = [e \in EP |-> 0]
    /\ snd_nxt = [e \in EP |-> 0]
    /\ rmt_wnd = [e \in EP |-> WndRcv]
    /\ probe_wait = [e \in EP |-> FALSE]
    /\ cwnd = [e \in EP |-> 0]
    /\ ssthresh = [e \in EP |-> IKCP_THRESH_MIN]
    /\ incr = [e \in EP |-> 0]
    /\ state = [e \in EP |-> 0]
    /\ rcv_nxt = [e \in EP |-> 0]
    /\ rcv_buf = [e \in EP |-> <<>>]
    /\ rcv_queue = [e \in EP |-> <<>>]
    /\ acklist = [e \in EP |-> {}]
    /\ ask_tell = [e \in EP |-> FALSE]
    /\ net = [e \in EP |-> {}]
    /\ numbered = [e \in EP |-> <<>>]
    /\ delivered = [e \in EP |-> <<>>]
    /\ sends = [e \in EP |-> <<>>]
    /\ recvs = [e \in EP |-> <<>>]
    /\ snd_off = [e \in EP |-> 0]

-----------------------------------------------------------------------------
(* ikcp_send.                                                              *)

\* How many bytes fit into the last segment of snd_queue (stream mode only).
Extend(e, len) ==
    IF Stream /\ snd_queue[e] # <<>>
    THEN Minimum(len, Mss - snd_queue[e][Len(snd_queue[e])].len)
    ELSE 0

\* Mutant: the merged segment keeps the length of the old one.
ExtendTail_Lost(q, ext) == q

ExtendTail(q, ext) ==
    IF ext = 0 THEN q
    ELSE [q EXCEPT ![Len(q)] = [frg |-> 0, off |-> @.off, len |-> @.len + ext]]

SplitCount(len) == IF len <= Mss THEN 1 ELSE (len + Mss - 1) \div Mss

\* Mutant: frg computed for indices that start at 0.
Fragments_OffByOne(off, len) ==
    LET count == SplitCount(len)
    IN  [i \in 1..count |->
            [frg |-> count - i - 1, off |-> off + (i - 1) * Mss,
             len |-> Minimum(Mss, len - (i - 1) * Mss)]]

\* The fragments of one message; frg counts down to 0, the last one.
Fragments(off, len) ==
    LET count == SplitCount(len)
    IN  [i \in 1..count |->
            [frg |-> IF Stream THEN 0 ELSE count - i,
             off |-> off + (i - 1) * Mss,
             len |-> Minimum(Mss, len - (i - 1) * Mss)]]

\* A message of too many fragments is refused (-2), but in stream mode only
\* after its first bytes have been appended to the last queued segment.
Send(e, len) ==
    LET ext  == Extend(e, len)
        q    == ExtendTail(snd_queue[e], ext)
        rest == len - ext
        done == Stream /\ rest = 0
        fits == done \/ SplitCount(rest) < WndRcv
    IN  /\ snd_queue' = [snd_queue EXCEPT ![e] =
                IF done \/ ~fits THEN q ELSE q \o Fragments(snd_off[e] + ext, rest)]
        /\ snd_off' = [snd_off EXCEPT ![e] = @ + (IF fits THEN len ELSE ext)]
        /\ sends' = IF fits
                    THEN [sends EXCEPT ![e] = Append(@, [off |-> snd_off[e], len |-> len])]
                    ELSE sends
        /\ UNCHANGED <<snd_buf, snd_una, snd_nxt, flowVars, rcvVars, net,
                       numbered, delivered, recvs>>

-----------------------------------------------------------------------------
(* ikcp_recv and ikcp_peeksize.                                            *)

\* Mutant: an if instead of a while, at most one segment moves.
Movable_Once(nxt, buf, room, n) ==
    IF room > 0 /\ nxt \in DOMAIN buf THEN n = 1 ELSE n = 0

\* n segments at the front of rcv_buf can move to rcv_queue, and no more:
\* they follow rcv_nxt without a gap and fit into the receive window.
Movable(nxt, buf, room, n) ==
    /\ n <= room
    /\ \A i \in 0..(n - 1) : nxt + i \in DOMAIN buf
    /\ n = room \/ nxt + n \notin DOMAIN buf

\* Mutant: the segments that are queued stay in rcv_buf.
MoveAvailable_KeepsBuf(e, queue, buf) ==
    \E n \in 0..RcvWnd :
        /\ Movable(rcv_nxt[e], buf, RcvWnd - Len(queue), n)
        /\ rcv_queue' = [rcv_queue EXCEPT ![e] =
                queue \o [i \in 1..n |-> buf[rcv_nxt[e] + i - 1]]]
        /\ rcv_buf' = [rcv_buf EXCEPT ![e] = buf]
        /\ rcv_nxt' = [rcv_nxt EXCEPT ![e] = @ + n]

\* The while loop that moves segments from rcv_buf to rcv_queue, with queue
\* and buffer as they are when the loop starts.
MoveAvailable(e, queue, buf) ==
    \E n \in 0..RcvWnd :
        /\ Movable(rcv_nxt[e], buf, RcvWnd - Len(queue), n)
        /\ rcv_queue' = [rcv_queue EXCEPT ![e] =
                queue \o [i \in 1..n |-> buf[rcv_nxt[e] + i - 1]]]
        /\ rcv_buf' = [rcv_buf EXCEPT ![e] =
                [sn \in {k \in DOMAIN buf : k >= rcv_nxt[e] + n} |-> buf[sn]]]
        /\ rcv_nxt' = [rcv_nxt EXCEPT ![e] = @ + n]

\* Mutant: the number of queued fragments is not compared with frg.
Readable_Incomplete(queue, k) ==
    /\ queue # <<>>
    /\ k \in 1..Len(queue)
    /\ \A i \in 1..(k - 1) : queue[i].frg # 0
    /\ queue[k].frg = 0 \/ k = Len(queue)

\* ikcp_peeksize finds the message at the front of rcv_queue complete, and
\* its last fragment is the k-th segment of the queue.
Readable(queue, k) ==
    /\ queue # <<>>
    /\ Head(queue).frg = 0 \/ Len(queue) >= Head(queue).frg + 1
    /\ k \in 1..Len(queue)
    /\ \A i \in 1..(k - 1) : queue[i].frg # 0
    /\ queue[k].frg = 0 \/ k = Len(queue)

\* The bytes of the first k segments of a queue.
TotalLen(queue, k) ==
    LET sum[i \in 0..k] == IF i = 0 THEN 0 ELSE sum[i - 1] + queue[i].len
    IN  sum[k]

\* A successful ikcp_recv with a buffer that is large enough.  The calls that
\* return -1, -2 or -3, and a call that only peeks, change nothing.
Recv(e) ==
    \E k \in 1..Len(rcv_queue[e]) :
        LET queue == rcv_queue[e]
            rest  == SubSeq(queue, k + 1, Len(queue))
        IN  /\ Readable(queue, k)
            /\ MoveAvailable(e, rest, rcv_buf[e])
            /\ ask_tell' = [ask_tell EXCEPT ![e] =
                    \/ @
                    \/ /\ Len(queue) >= RcvWnd
                       /\ Len(rcv_queue'[e]) < RcvWnd]
            /\ delivered' = [delivered EXCEPT ![e] = @ \o SubSeq(queue, 1, k)]
            /\ recvs' = [recvs EXCEPT ![e] =
                    Append(@, [off |-> queue[1].off, len |-> TotalLen(queue, k)])]
            /\ UNCHANGED <<sndVars, flowVars, acklist, net, numbered, sends, snd_off>>

-----------------------------------------------------------------------------
(* ikcp_input.                                                             *)

\* Mutant: una is taken as the last number received, not the next expected.
Unacked_UnaInclusive(e, d) ==
    [sn \in {k \in DOMAIN snd_buf[e] : k > d.una /\ k \notin d.acks} |->
        snd_buf[e][sn]]

\* ikcp_parse_una and ikcp_parse_ack: what a datagram leaves in snd_buf.
Unacked(e, d) ==
    [sn \in {k \in DOMAIN snd_buf[e] : k >= d.una /\ k \notin d.acks} |->
        snd_buf[e][sn]]

\* Mutant: snd_una is copied from the datagram, however old it is.
ShrinkBuf_Header(e, d, una) == una = d.una

\* ikcp_shrink_buf: snd_una becomes the first number still in the buffer.
ShrinkBuf(e, d, una) ==
    LET left == DOMAIN Unacked(e, d)
    IN  \/ left = {} /\ una = snd_nxt[e]
        \/ una \in left /\ \A sn \in left : una <= sn

\* ikcp_parse_fastack, called once per datagram with the largest
\* acknowledged number.  The count saturates at FastResend, the only value it
\* is compared with.
ParseFastack(buf, acks, una, nxt) ==
    [sn \in DOMAIN buf |->
        IF \E maxack \in acks : /\ \A k \in acks : k <= maxack
                                /\ una <= maxack /\ maxack < nxt
                                /\ sn < maxack
        THEN Counted(buf[sn], buf[sn].xmit, Minimum(buf[sn].fastack + 1, FastResend))
        ELSE buf[sn]]

\* Mutant: a segment that was already received is not acknowledged again.
InWindow_NewOnly(e, d, sn) ==
    /\ sn >= rcv_nxt[e]
    /\ sn < rcv_nxt[e] + RcvWnd

\* The PUSH segment sn is inside the receive window when its turn comes: the
\* segments before it in the datagram may already have advanced rcv_nxt.
InWindow(e, d, sn) ==
    \E n \in 0..(RcvWnd - Len(rcv_queue[e])) :
        /\ \A i \in 0..(n - 1) :
              rcv_nxt[e] + i \in DOMAIN rcv_buf[e] \cup {k \in DOMAIN d.push : k < sn}
        /\ sn < rcv_nxt[e] + n + RcvWnd

\* Mutant: the segment that is expected next is discarded as old.
ParseData_TooStrict(e, d) ==
    LET new == {sn \in DOMAIN d.push : /\ InWindow(e, d, sn)
                                       /\ sn > rcv_nxt[e]
                                       /\ sn \notin DOMAIN rcv_buf[e]}
    IN  [sn \in DOMAIN rcv_buf[e] \cup new |->
            IF sn \in new THEN d.push[sn] ELSE rcv_buf[e][sn]]

\* ikcp_parse_data without its last loop: rcv_buf with the new segments of the
\* datagram, duplicates and old segments discarded.
ParseData(e, d) ==
    LET new == {sn \in DOMAIN d.push : /\ InWindow(e, d, sn)
                                       /\ sn >= rcv_nxt[e]
                                       /\ sn \notin DOMAIN rcv_buf[e]}
    IN  [sn \in DOMAIN rcv_buf[e] \cup new |->
            IF sn \in new THEN d.push[sn] ELSE rcv_buf[e][sn]]

\* Mutant: slow start forgets to add mss to incr.
GrowCwnd_NoIncr(c, i, thresh, wnd) ==
    IF c >= wnd THEN [cwnd |-> c, incr |-> i]
    ELSE [cwnd |-> c + 1, incr |-> i]

\* Congestion window and its size in bytes after snd_una has advanced.
GrowCwnd(c, i, thresh, wnd) ==
    LET slow == c < thresh
        i1   == IF slow THEN i + Mss
                ELSE Maximum(i, Mss) + (Mss * Mss) \div Maximum(i, Mss) + Mss \div 16
        c1   == IF slow THEN c + 1
                ELSE IF (c + 1) * Mss <= i1 THEN (i1 + Mss - 1) \div Mss ELSE c
    IN  IF c >= wnd THEN [cwnd |-> c, incr |-> i]
        ELSE IF c1 > wnd THEN [cwnd |-> wnd, incr |-> wnd * Mss]
        ELSE [cwnd |-> c1, incr |-> i1]

\* ikcp_input of one well-formed datagram of this conversation.
Input(e, d) ==
    LET buf == Unacked(e, d)
    IN  /\ \E una \in 0..snd_nxt[e] :
              /\ ShrinkBuf(e, d, una)
              /\ snd_una' = [snd_una EXCEPT ![e] = una]
              /\ snd_buf' = [snd_buf EXCEPT ![e] =
                                ParseFastack(buf, d.acks, una, snd_nxt[e])]
              /\ LET g == GrowCwnd(cwnd[e], incr[e], ssthresh[e], d.wnd)
                 IN  IF una > snd_una[e]
                     THEN /\ cwnd' = [cwnd EXCEPT ![e] = g.cwnd]
                          /\ incr' = [incr EXCEPT ![e] = g.incr]
                     ELSE UNCHANGED <<cwnd, incr>>
        /\ rmt_wnd' = [rmt_wnd EXCEPT ![e] = d.wnd]
        /\ acklist' = [acklist EXCEPT ![e] =
                         @ \cup {sn \in DOMAIN d.push : InWindow(e, d, sn)}]
        /\ MoveAvailable(e, rcv_queue[e], ParseData(e, d))
        /\ ask_tell' = [ask_tell EXCEPT ![e] = @ \/ d.wask]
        /\ UNCHANGED <<snd_queue, snd_nxt, probe_wait, ssthresh, state, histVars>>

\* The network hands a datagram to the endpoint; a duplicate may stay behind.
Deliver(e, d) ==
    /\ d \in net[e]
    /\ Input(e, d)
    /\ \/ net' = [net EXCEPT ![e] = @ \ {d}]
       \/ net' = net

-----------------------------------------------------------------------------
(* ikcp_flush, as ikcp_update calls it when the flush interval has passed.  *)

WndUnused(e) == IF Len(rcv_queue[e]) < RcvWnd THEN RcvWnd - Len(rcv_queue[e]) ELSE 0

\* The number of segments that may be in flight (the local variable cwnd).
Window(e) ==
    IF NoCwnd THEN Minimum(SndWnd, rmt_wnd[e])
    ELSE Minimum(cwnd[e], Minimum(SndWnd, rmt_wnd[e]))

\* How many segments move from snd_queue to snd_buf.
MoveCount(e) ==
    Minimum(Len(snd_queue[e]), Maximum(0, snd_una[e] + Window(e) - snd_nxt[e]))

\* snd_buf after the first n queued segments have been numbered.
Numbered(e, n) ==
    [sn \in DOMAIN snd_buf[e] \cup snd_nxt[e]..(snd_nxt[e] + n - 1) |->
        IF sn \in DOMAIN snd_buf[e] THEN snd_buf[e][sn]
        ELSE Counted(snd_queue[e][sn - snd_nxt[e] + 1], 0, 0)]

\* Segments that were skipped often enough, and not yet retransmitted too
\* often, to be sent again before their timeout.
FastResendable(buf, expired) ==
    {sn \in DOMAIN buf : /\ buf[sn].xmit > 0 /\ sn \notin expired
                         /\ FastResend > 0 /\ buf[sn].fastack >= FastResend
                         /\ buf[sn].xmit <= FastLimit \/ FastLimit = 0}

\* xmit is only compared with dead_link and fastlimit: it saturates above both.
XmitCap == Maximum(DeadLink, FastLimit + 1)

Transmit(buf, send, fast) ==
    [sn \in DOMAIN buf |->
        IF sn \in send
        THEN Counted(buf[sn], Minimum(buf[sn].xmit + 1, XmitCap),
                     IF sn \in fast THEN 0 ELSE buf[sn].fastack)
        ELSE buf[sn]]

\* The datagram of a flush, counted from 0, that carries the PUSH segment sn:
\* they are packed in the order of sn behind ctl bytes of control segments, a
\* new datagram begun when the next segment would exceed the mtu.
Packed(ctl, buf, send, sn) ==
    LET need(k) == IKCP_OVERHEAD + buf[k].len
        \* the datagram and its fill once all numbers below k are done
        pack[k \in Nat] ==
            IF k = 0 THEN [bin |-> 0, fill |-> ctl]
            ELSE LET p == pack[k - 1]
                 IN  IF k - 1 \notin send THEN p
                     ELSE IF p.fill + need(k - 1) > Mtu
                          THEN [bin |-> p.bin + 1, fill |-> need(k - 1)]
                          ELSE [bin |-> p.bin, fill |-> p.fill + need(k - 1)]
    IN  pack[sn + 1].bin

\* One datagram of a flush with the PUSH segments given; only the first one
\* carries acknowledgements, WASK and WINS.
Datagram(e, first, wask, push) ==
    [wnd  |-> WndUnused(e) % 65536,
     una  |-> rcv_nxt[e],
     acks |-> IF first THEN acklist[e] ELSE {},
     wask |-> first /\ wask,
     wins |-> first /\ ask_tell[e],
     push |-> push]

\* The datagrams of one flush.  (The control segments are few enough to fit
\* into one.)
Datagrams(e, wask, buf, send) ==
    LET ctl == IKCP_OVERHEAD * (Cardinality(acklist[e]) + (IF wask THEN 1 ELSE 0)
                                + (IF ask_tell[e] THEN 1 ELSE 0))
        bins == {Packed(ctl, buf, send, sn) : sn \in send}
                  \cup (IF ctl > 0 THEN {0} ELSE {})
        push(i) == [sn \in {k \in send : Packed(ctl, buf, send, k) = i} |->
                        Payload(buf[sn])]
    IN  {Datagram(e, i = 0, wask, push(i)) : i \in bins}

\* Mutant: the closed window is never probed.
ProbeDue_Never(e, due) == FALSE

\* The remote window is closed and the probe timer, set by an earlier flush,
\* has expired (IKCP_ASK_SEND).
ProbeDue(e, due) == rmt_wnd[e] = 0 /\ probe_wait[e] /\ due

\* The transmitted segments of an endpoint, any of which may have expired.
Transmitted(e) == {sn \in DOMAIN snd_buf[e] : snd_buf[e][sn].xmit > 0}

\* The network (LatencySimulator::send): it loses some of the datagrams,
\* unless lossless, and holds at most NetCap of them.
Output(e, dgrams, lossless) ==
    \E kept \in SUBSET dgrams :
        /\ lossless => kept = dgrams
        /\ Cardinality(net[Peer(e)] \cup kept) <= NetCap[Peer(e)]
        /\ net' = [net EXCEPT ![Peer(e)] = @ \cup kept]

\* One flush.  due: the probe timer has expired; expired: the transmitted
\* segments whose resendts has passed.
Flush(e, due, expired, lossless) ==
    LET n    == MoveCount(e)
        nxt  == snd_nxt[e] + n
        buf  == Numbered(e, n)
        wask == ProbeDue(e, due)
        fast == FastResendable(buf, expired)
        send == {sn \in DOMAIN buf : buf[sn].xmit = 0} \cup expired \cup fast
        done == Transmit(buf, send, fast)
        changed == Maximum((nxt - snd_una[e]) \div 2, IKCP_THRESH_MIN)
    IN  /\ Output(e, Datagrams(e, wask, buf, send), lossless)
        /\ acklist' = [acklist EXCEPT ![e] = {}]
        /\ ask_tell' = [ask_tell EXCEPT ![e] = FALSE]
        /\ probe_wait' = [probe_wait EXCEPT ![e] = rmt_wnd[e] = 0]
        /\ snd_queue' = [snd_queue EXCEPT ![e] = SubSeq(@, n + 1, Len(@))]
        /\ snd_nxt' = [snd_nxt EXCEPT ![e] = nxt]
        /\ snd_buf' = [snd_buf EXCEPT ![e] = done]
        /\ numbered' = [numbered EXCEPT ![e] = @ \o SubSeq(snd_queue[e], 1, n)]
        /\ state' = [state EXCEPT ![e] =
                IF \E sn \in send : done[sn].xmit >= DeadLink THEN -1 ELSE @]
        /\ ssthresh' = [ssthresh EXCEPT ![e] =
                IF expired # {} THEN Maximum(Window(e) \div 2, IKCP_THRESH_MIN)
                ELSE IF fast # {} THEN changed ELSE @]
        /\ cwnd' = [cwnd EXCEPT ![e] =
                IF expired # {} THEN 1
                ELSE Maximum(1, IF fast # {} THEN changed + FastResend ELSE @)]
        /\ incr' = [incr EXCEPT ![e] =
                IF expired # {} THEN Mss
                ELSE IF fast # {} THEN (changed + FastResend) * Mss
                ELSE IF cwnd[e] < 1 THEN Mss ELSE @]
        /\ UNCHANGED <<snd_una, rmt_wnd, rcv_nxt, rcv_buf, rcv_queue,
                       delivered, sends, recvs, snd_off>>

-----------------------------------------------------------------------------

\* Any transmitted segment may have expired, and the probe timer if it runs.
FlushStep(e) ==
    \E due \in BOOLEAN, expired \in SUBSET Transmitted(e) :
        /\ due => probe_wait[e]
        /\ Flush(e, due, expired, FALSE)

Next ==
    \E e \in EP :
        \/ \E len \in Lens : Len(sends[e]) < MaxSends[e] /\ Send(e, len)
        \/ Recv(e)
        \/ \E d \in net[e] : Deliver(e, d)
        \/ FlushStep(e)

Spec == Init /\ [][Next]_vars

-----------------------------------------------------------------------------
(* Properties.                                                             *)

\* Type correctness of the control blocks, the network and the history.
TypeOK ==
    /\ snd_queue \in [EP -> Seq(Segment)]
    /\ snd_buf = [e \in EP |-> snd_buf[e]]
    /\ \A e \in EP : IsSnMap(snd_buf[e], SndSegment)
    /\ snd_una \in [EP -> Nat]
    /\ snd_nxt \in [EP -> Nat]
    /\ rmt_wnd \in [EP -> Nat]
    /\ probe_wait \in [EP -> BOOLEAN]
    /\ cwnd \in [EP -> Nat]
    /\ ssthresh \in [EP -> Nat]
    /\ incr \in [EP -> Nat]
    /\ state \in [EP -> {0, -1}]
    /\ rcv_nxt \in [EP -> Nat]
    /\ rcv_buf = [e \in EP |-> rcv_buf[e]]
    /\ \A e \in EP : IsSnMap(rcv_buf[e], Segment)
    /\ rcv_queue \in [EP -> Seq(Segment)]
    /\ acklist \in [EP -> SUBSET Nat]
    /\ ask_tell \in [EP -> BOOLEAN]
    /\ net = [e \in EP |-> net[e]]
    /\ \A e \in EP : \A d \in net[e] : IsDatagram(d)
    /\ numbered \in [EP -> Seq(Segment)]
    /\ delivered \in [EP -> Seq(Segment)]
    /\ snd_off \in [EP -> Nat]

\* What endpoint e holds, or has handed on, of its peer's segments.
Received(e) == 0..(rcv_nxt[e] - 1) \cup DOMAIN rcv_buf[e]

\* The sender forgets a segment (ikcp_parse_una, ikcp_parse_ack) only when its
\* peer holds it, whatever acknowledgements were lost, repeated or overtaken.
NothingForgotten ==
    \A e \in EP : \A sn \in 0..(snd_nxt[e] - 1) :
        sn \in DOMAIN snd_buf[e] \/ sn \in Received(Peer(e))

\* No segment reaches the application (ikcp_recv) twice, out of order, altered
\* or with a gap before it, though the network reorders and repeats.
InOrderDelivery ==
    \A e \in EP : /\ Len(delivered[Peer(e)]) <= Len(numbered[e])
                  /\ \A i \in 1..Len(delivered[Peer(e)]) :
                        delivered[Peer(e)][i] = numbered[e][i]

\* The receiver's memory is bounded by its window: rcv_queue never exceeds it,
\* and rcv_buf holds only segments less than a window ahead of rcv_nxt.
ReceiveBounded ==
    \A e \in EP : /\ Len(rcv_queue[e]) <= RcvWnd
                  /\ DOMAIN rcv_buf[e] \subseteq rcv_nxt[e]..(rcv_nxt[e] + RcvWnd - 1)

\* A segment that could be read never waits in rcv_buf: both loops that move
\* segments to rcv_queue (ikcp_parse_data, ikcp_recv) go as far as they can.
NothingStuck ==
    \A e \in EP : rcv_nxt[e] \in DOMAIN rcv_buf[e] => Len(rcv_queue[e]) = RcvWnd

\* At most snd_wnd segments are unacknowledged, however stale the remote
\* window the sender acts on.
InFlightBounded ==
    \A e \in EP : snd_nxt[e] - snd_una[e] <= SndWnd

\* snd_una and rcv_nxt never move backwards, not even on a late datagram with
\* an old una (ikcp_shrink_buf, ikcp_parse_data).
ProgressKept ==
    [][\A e \in EP : snd_una'[e] >= snd_una[e] /\ rcv_nxt'[e] >= rcv_nxt[e]]_vars

\* What endpoint e has numbered and not yet seen acknowledged is in snd_buf, as
\* it was numbered.
SenderOK(e) ==
    /\ snd_nxt[e] = Len(numbered[e])
    /\ snd_una[e] <= snd_nxt[e]
    /\ DOMAIN snd_buf[e] \subseteq snd_una[e]..(snd_nxt[e] - 1)
    /\ \A sn \in DOMAIN snd_buf[e] : Payload(snd_buf[e][sn]) = numbered[e][sn + 1]

\* A datagram on its way from e, however old, carries segments as they were
\* numbered and acknowledges only what e has received.
DatagramOK(e, d) ==
    /\ \A sn \in DOMAIN d.push : sn < snd_nxt[e] /\ d.push[sn] = numbered[e][sn + 1]
    /\ d.una <= rcv_nxt[e]
    /\ d.acks \subseteq Received(e)

\* What endpoint e holds are its peer's segments: delivered and rcv_queue the
\* first rcv_nxt of them, without a gap, rcv_buf some later ones.
ReceiverOK(e) ==
    LET sent == numbered[Peer(e)]
        read == Len(delivered[e])
    IN  /\ rcv_nxt[e] = read + Len(rcv_queue[e])
        /\ rcv_nxt[e] <= snd_nxt[Peer(e)]
        /\ \A i \in 1..read : delivered[e][i] = sent[i]
        /\ \A i \in 1..Len(rcv_queue[e]) : rcv_queue[e][i] = sent[read + i]
        /\ \A sn \in DOMAIN rcv_buf[e] :
              sn < snd_nxt[Peer(e)] /\ rcv_buf[e][sn] = sent[sn + 1]
        /\ acklist[e] \subseteq Received(e)

\* The inductive invariant of the protocol: buffers, datagrams in flight and
\* queues of both endpoints agree on one numbering of the segments
\* (ikcp_flush, ikcp_input, ikcp_recv).
ArqInv ==
    /\ \A e \in EP : /\ SenderOK(e)
                     /\ ReceiverOK(e)
                     /\ \A d \in net[Peer(e)] : DatagramOK(e, d)
    /\ NothingForgotten
    /\ ReceiveBounded
    /\ NothingStuck
    /\ InFlightBounded

\* The congestion window in segments (cwnd) and in bytes (incr), which the
\* code updates side by side in ikcp_input and ikcp_flush, stay in step.
CwndTracksIncr ==
    \A e \in EP : /\ (cwnd[e] - 1) * Mss < incr[e]
                  /\ incr[e] < (cwnd[e] + 1) * Mss

\* The reader sees the bytes in the order they were written, each once, in
\* stream mode as well, where segments are extended while they are queued.
BytesInOrder ==
    \A e \in EP : \A i \in 1..Len(recvs[e]) :
        recvs[e][i].off = IF i = 1 THEN 0 ELSE recvs[e][i - 1].off + recvs[e][i - 1].len

\* Each direction of the connection, seen as a channel of messages.
MessagesAB == INSTANCE FifoChannel WITH input <- sends[A], output <- recvs[B]
MessagesBA == INSTANCE FifoChannel WITH input <- sends[B], output <- recvs[A]

\* In message mode ikcp.c implements a reliable ordered channel: what ikcp_recv
\* returns are exactly the buffers given to ikcp_send, in order, none cut,
\* joined, repeated or left out.
MessagesImplemented ==
    MessagesAB!Spec /\ MessagesBA!Spec

-----------------------------------------------------------------------------
(* The inductive invariant behind the order of bytes and of messages.      *)

\* What ikcp_send is given and what ikcp_recv returns: a piece of the stream.
Piece == [off : Nat, len : Nat]

\* Everything that e has cut into segments, numbered or still to be numbered.
Written(e) == numbered[e] \o snd_queue[e]

\* The position behind the last of the pieces, or segments.
EndOf(s) == IF s = <<>> THEN 0 ELSE s[Len(s)].off + s[Len(s)].len

\* Each begins where the one before ends.
Consecutive(s) ==
    \A i \in 1..Len(s) :
        s[i].off = IF i = 1 THEN 0 ELSE s[i - 1].off + s[i - 1].len

\* The segments continue one another up to the last byte that was accepted, and
\* the calls of ikcp_recv have returned all that was delivered.
ByteInv ==
    /\ recvs \in [EP -> Seq(Piece)]
    /\ \A e \in EP : /\ Consecutive(Written(e)) /\ EndOf(Written(e)) = snd_off[e]
                     /\ Consecutive(recvs[e]) /\ EndOf(recvs[e]) = EndOf(delivered[e])

\* The first ends[i] of the segments w are the first i messages of those put in,
\* frg counting down to 0 in each; the read segments are the messages out.
MessageEnds(w, in, out, read, ends) ==
    /\ ends[0] = 0 /\ ends[Len(in)] = Len(w)
    /\ \A i \in 1..Len(in) :
          /\ ends[i - 1] < ends[i]
          /\ \A j \in (ends[i - 1] + 1)..ends[i] : w[j].frg = ends[i] - j
          /\ w[ends[i - 1] + 1].off = in[i].off
          /\ w[ends[i]].off + w[ends[i]].len = in[i].off + in[i].len
    /\ Len(out) <= Len(in) /\ ends[Len(out)] = read
    /\ \A i \in 1..Len(out) : out[i] = in[i]

\* In message mode what e has cut are the messages it has sent, and what its
\* peer has read are whole messages.
MessageInv ==
    /\ sends \in [EP -> Seq(Piece)]
    /\ \A e \in EP :
          \E ends \in [0..Len(sends[e]) -> 0..Len(Written(e))] :
             MessageEnds(Written(e), sends[e], recvs[Peer(e)], Len(delivered[Peer(e)]), ends)
=============================================================================
