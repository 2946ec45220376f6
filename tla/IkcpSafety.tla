----------------------------- MODULE IkcpSafety -----------------------------
(***************************************************************************)
(* Two ikcp.c endpoints keep their types, one lemma per operation.  Their  *)
(* protocol invariant ArqInv is inductive, for every window, mtu and       *)
(* network capacity, and with it what the protocol promises: nothing lost, *)
(* nothing delivered out of order, bounded buffers and acknowledgements    *)
(* that never go back.  Last, the congestion window.                       *)
(***************************************************************************)
EXTENDS Ikcp, TLAPS, SequenceTheorems

-----------------------------------------------------------------------------
(* Types, and what the helpers of the model return.                        *)

\* There are exactly two endpoints, each the other's peer.
LEMMA PeerFacts ==
    \A e \in EP : /\ Peer(e) \in EP
                  /\ Peer(e) # e
                  /\ Peer(Peer(e)) = e
                  /\ \A x \in EP : x = e \/ x = Peer(e)
BY EndpointsDiffer DEF EP, Peer

\* The mss is positive, as ikcp_setmtu refuses an mtu below 50.
LEMMA MssType == Mss \in Nat /\ Mss > 0
BY SegmentAssumption DEF Mss, IKCP_OVERHEAD

\* Division stays within the naturals.
LEMMA DivNat == \A a \in Nat, b \in Nat \ {0} : a \div b \in Nat
OBVIOUS

\* _imin_ and _imax_ of naturals.
LEMMA MinMaxNat ==
    \A x, y \in Nat : /\ Minimum(x, y) \in Nat /\ Minimum(x, y) <= x /\ Minimum(x, y) <= y
                      /\ Maximum(x, y) \in Nat /\ Maximum(x, y) >= x /\ Maximum(x, y) >= y
BY DEF Minimum, Maximum

\* The congestion window and incr stay naturals (ikcp_input).
LEMMA GrowCwndType ==
    ASSUME NEW c \in Nat, NEW i \in Nat, NEW t \in Nat, NEW w \in Nat
    PROVE  /\ GrowCwnd(c, i, t, w).cwnd \in Nat
           /\ GrowCwnd(c, i, t, w).incr \in Nat
<1> DEFINE m == Maximum(i, Mss)
<1>1. m \in Nat \ {0}
  BY MssType, MinMaxNat
<1>2. (Mss * Mss) \div m \in Nat
  BY <1>1, MssType, DivNat
<1>3. Mss \div 16 \in Nat
  BY MssType, DivNat
<1> DEFINE i1 == IF c < t THEN i + Mss ELSE m + (Mss * Mss) \div m + Mss \div 16
<1>4. i1 \in Nat
  BY <1>1, <1>2, <1>3, MssType
<1>5. (i1 + Mss - 1) \div Mss \in Nat
  <2>1. i1 + Mss - 1 \in Nat BY <1>4, MssType
  <2> QED BY <2>1, MssType, DivNat
<1>6. w * Mss \in Nat
  BY MssType
<1> HIDE DEF m, i1
<1> QED BY <1>4, <1>5, <1>6, MssType DEF GrowCwnd, i1, m

\* A quotient times its divisor is at most the dividend.
LEMMA DivMul == \A a \in Nat, b \in Nat \ {0} : (a \div b) * b <= a
OBVIOUS

\* Multiplication by a natural is monotone.
LEMMA MulMono == \A x, y, m \in Nat : x <= y => x * m <= y * m
OBVIOUS

\* ikcp_send cuts a message into segments of at most mss bytes.
LEMMA FragmentsType ==
    ASSUME NEW off \in Nat, NEW len \in Nat
    PROVE  Fragments(off, len) \in Seq(Segment)
<1> DEFINE count == SplitCount(len)
<1>1. count \in Nat \ {0} /\ \A i \in 1..count : (i - 1) * Mss \in Nat /\ (i - 1) * Mss <= len
  <2>1. CASE len <= Mss
    BY <2>1, MssType DEF SplitCount
  <2>2. CASE len > Mss
    <3> DEFINE a == len + Mss - 1
    <3>1. a \in Nat /\ a >= Mss /\ Mss \in Nat \ {0}
      BY <2>2, MssType
    <3>2. count = a \div Mss
      BY <2>2, MssType DEF SplitCount
    <3>3. count \in Nat /\ count * Mss <= a
      BY <3>1, <3>2, DivNat, DivMul
    <3>4. count # 0
      <4>1. a \div Mss # 0
        BY <3>1
      <4> QED BY <4>1, <3>2
    <3>5. ASSUME NEW i \in 1..count PROVE (i - 1) * Mss \in Nat /\ (i - 1) * Mss <= len
      <4>1. i - 1 \in Nat /\ count - 1 \in Nat /\ i - 1 <= count - 1
        BY <3>3, <3>4
      <4>2. (i - 1) * Mss <= (count - 1) * Mss
        BY <4>1, <3>1, MulMono
      <4>3. (count - 1) * Mss = count * Mss - Mss
        BY <3>3, <3>1
      <4>4. (i - 1) * Mss \in Nat
        BY <4>1, <3>1
      <4> QED BY <4>2, <4>3, <4>4, <3>3, <3>1
    <3> QED BY <3>3, <3>4, <3>5
  <2> QED BY <2>1, <2>2, MssType
<1>2. ASSUME NEW i \in 1..count
      PROVE  [frg |-> IF Stream THEN 0 ELSE count - i, off |-> off + (i - 1) * Mss,
              len |-> Minimum(Mss, len - (i - 1) * Mss)] \in Segment
  BY <1>1, MssType DEF Segment, Minimum
<1>3. Fragments(off, len) = [i \in 1..count |->
              [frg |-> IF Stream THEN 0 ELSE count - i, off |-> off + (i - 1) * Mss,
               len |-> Minimum(Mss, len - (i - 1) * Mss)]]
  BY DEF Fragments
<1> HIDE DEF count
<1>4. Fragments(off, len) \in [1..count -> Segment]
  BY <1>2, <1>3
<1> QED BY <1>1, <1>4

\* Stream mode extends the last queued segment by part of the buffer, and
\* never beyond mss (ikcp_send).
LEMMA ExtendFacts ==
    ASSUME TypeOK, NEW e \in EP, NEW len \in Nat
    PROVE  /\ Extend(e, len) \in 0..len
           /\ ExtendTail(snd_queue[e], Extend(e, len)) \in Seq(Segment)
<1> DEFINE q == snd_queue[e]
           ext == Extend(e, len)
<1>1. q \in Seq(Segment)
  BY DEF TypeOK
<1>2. CASE Stream /\ q # <<>>
  <2>1. Len(q) \in 1..Len(q) /\ q[Len(q)] \in Segment
    BY <1>1, <1>2
  <2>2. ext = Minimum(len, Mss - q[Len(q)].len)
    BY <1>2 DEF Extend
  <2>3. q[Len(q)].len \in 0..Mss
    BY <2>1 DEF Segment
  <2>4. ext \in 0..len /\ q[Len(q)].len + ext \in 0..Mss
    BY <2>2, <2>3, MssType, SMTT(30) DEF Minimum
  <2>5. [frg |-> 0, off |-> q[Len(q)].off, len |-> q[Len(q)].len + ext] \in Segment
    BY <2>1, <2>4 DEF Segment
  <2>6. ExtendTail(q, ext) \in Seq(Segment)
    <3> HIDE DEF q, ext
    <3> QED BY <1>1, <2>1, <2>5 DEF ExtendTail
  <2> QED BY <2>4, <2>6
<1>3. CASE ~(Stream /\ q # <<>>)
  BY <1>1, <1>3 DEF Extend, ExtendTail
<1> QED BY <1>2, <1>3

\* ikcp_send preserves the types.
LEMMA SendType ==
    ASSUME TypeOK, NEW e \in EP, NEW len \in Nat, Send(e, len)
    PROVE  TypeOK'
<1> DEFINE ext == Extend(e, len)
           q == ExtendTail(snd_queue[e], ext)
<1>1. ext \in 0..len /\ q \in Seq(Segment)
  BY ExtendFacts
<1>2. snd_off[e] \in Nat /\ snd_off \in [EP -> Nat] /\ snd_queue \in [EP -> Seq(Segment)]
  BY DEF TypeOK
<1>3. Fragments(snd_off[e] + ext, len - ext) \in Seq(Segment)
  BY <1>1, <1>2, FragmentsType, SMTT(30)
<1>4. q \o Fragments(snd_off[e] + ext, len - ext) \in Seq(Segment)
  BY <1>1, <1>3
<1> HIDE DEF ext, q
<1>5. snd_queue' \in [EP -> Seq(Segment)] /\ snd_off' \in [EP -> Nat]
  BY <1>1, <1>2, <1>4 DEF Send, ext, q
<1> QED BY <1>5 DEF TypeOK, Send, flowVars, rcvVars

\* The effect of MoveAvailable when n segments move.
Moved(e, queue, buf, n) ==
    /\ Movable(rcv_nxt[e], buf, RcvWnd - Len(queue), n)
    /\ rcv_nxt'[e] = rcv_nxt[e] + n
    /\ Len(rcv_queue'[e]) = Len(queue) + n
    /\ \A i \in 1..Len(queue) : rcv_queue'[e][i] = queue[i]
    /\ \A i \in 1..n : rcv_queue'[e][Len(queue) + i] = buf[rcv_nxt[e] + i - 1]
    /\ DOMAIN rcv_buf'[e] = {k \in DOMAIN buf : k >= rcv_nxt[e] + n}
    /\ \A sn \in DOMAIN rcv_buf'[e] : rcv_buf'[e][sn] = buf[sn]

\* The loop from rcv_buf to rcv_queue, in both places, preserves the types.
LEMMA MoveFacts ==
    ASSUME TypeOK, NEW e \in EP, NEW queue \in Seq(Segment), NEW buf,
           IsSnMap(buf, Segment), MoveAvailable(e, queue, buf)
    PROVE  /\ rcv_queue' \in [EP -> Seq(Segment)]
           /\ rcv_buf' = [x \in EP |-> rcv_buf'[x]]
           /\ rcv_nxt' \in [EP -> Nat]
           /\ \A x \in EP : IsSnMap(rcv_buf'[x], Segment)
           /\ \A x \in EP : x # e => /\ rcv_queue'[x] = rcv_queue[x]
                                    /\ rcv_buf'[x] = rcv_buf[x]
                                    /\ rcv_nxt'[x] = rcv_nxt[x]
           /\ \E n \in 0..RcvWnd : Moved(e, queue, buf, n)
<1>1. PICK n \in 0..RcvWnd :
        /\ Movable(rcv_nxt[e], buf, RcvWnd - Len(queue), n)
        /\ rcv_queue' = [rcv_queue EXCEPT ![e] =
                queue \o [i \in 1..n |-> buf[rcv_nxt[e] + i - 1]]]
        /\ rcv_buf' = [rcv_buf EXCEPT ![e] =
                [sn \in {k \in DOMAIN buf : k >= rcv_nxt[e] + n} |-> buf[sn]]]
        /\ rcv_nxt' = [rcv_nxt EXCEPT ![e] = @ + n]
  BY DEF MoveAvailable
<1> DEFINE moved == [i \in 1..n |-> buf[rcv_nxt[e] + i - 1]]
<1>2. RcvWnd \in Nat /\ n \in Nat /\ rcv_nxt \in [EP -> Nat] /\ rcv_nxt[e] \in Nat
  BY WindowAssumption DEF TypeOK
<1>3. moved \in Seq(Segment) /\ Len(moved) = n
  <2>1. \A i \in 1..n : rcv_nxt[e] + i - 1 \in DOMAIN buf
    <3> TAKE i \in 1..n
    <3>1. i - 1 \in 0..(n - 1) BY <1>2
    <3>2. rcv_nxt[e] + (i - 1) \in DOMAIN buf BY <1>1, <3>1 DEF Movable
    <3> QED BY <3>2, <1>2
  <2>2. moved \in [1..n -> Segment] BY <2>1 DEF IsSnMap
  <2> QED BY <2>2, <1>2
<1>4. queue \o moved \in Seq(Segment)
  BY <1>3
<1>5. /\ Len(queue \o moved) = Len(queue) + n
      /\ \A i \in 1..Len(queue) : (queue \o moved)[i] = queue[i]
      /\ \A i \in 1..n : (queue \o moved)[Len(queue) + i] = moved[i]
  BY <1>3
<1>6. rcv_queue'[e] = queue \o moved /\ \A x \in EP : x # e => rcv_queue'[x] = rcv_queue[x]
  BY <1>1 DEF TypeOK
<1>7. rcv_queue' \in [EP -> Seq(Segment)]
  BY <1>1, <1>4 DEF TypeOK
<1>8. /\ rcv_buf' = [x \in EP |-> rcv_buf'[x]]
      /\ rcv_buf'[e] = [sn \in {k \in DOMAIN buf : k >= rcv_nxt[e] + n} |-> buf[sn]]
      /\ \A x \in EP : x # e => rcv_buf'[x] = rcv_buf[x]
  BY <1>1 DEF TypeOK
<1>9. \A x \in EP : IsSnMap(rcv_buf'[x], Segment)
  <2>1. IsSnMap(rcv_buf'[e], Segment) BY <1>8 DEF IsSnMap
  <2>2. \A x \in EP : x # e => IsSnMap(rcv_buf'[x], Segment) BY <1>8 DEF TypeOK
  <2> QED BY <2>1, <2>2
<1>10. rcv_nxt' \in [EP -> Nat] /\ rcv_nxt'[e] = rcv_nxt[e] + n
       /\ \A x \in EP : x # e => rcv_nxt'[x] = rcv_nxt[x]
  BY <1>1, <1>2
<1> HIDE DEF moved
<1>11. /\ DOMAIN rcv_buf'[e] = {k \in DOMAIN buf : k >= rcv_nxt[e] + n}
       /\ \A sn \in DOMAIN rcv_buf'[e] : rcv_buf'[e][sn] = buf[sn]
  BY <1>8
<1>12. \A i \in 1..n : rcv_queue'[e][Len(queue) + i] = buf[rcv_nxt[e] + i - 1]
  BY <1>5, <1>6 DEF moved
<1>13. Len(rcv_queue'[e]) = Len(queue) + n
       /\ \A i \in 1..Len(queue) : rcv_queue'[e][i] = queue[i]
  BY <1>5, <1>6
<1>14. Moved(e, queue, buf, n)
  BY <1>1, <1>10, <1>11, <1>12, <1>13 DEF Moved
<1> QED BY <1>6, <1>7, <1>8, <1>9, <1>10, <1>14

\* ikcp_recv preserves the types.
LEMMA RecvType ==
    ASSUME TypeOK, NEW e \in EP, Recv(e)
    PROVE  TypeOK'
<1>1. PICK k \in 1..Len(rcv_queue[e]) :
        /\ MoveAvailable(e, SubSeq(rcv_queue[e], k + 1, Len(rcv_queue[e])), rcv_buf[e])
        /\ ask_tell' = [ask_tell EXCEPT ![e] =
                    \/ @
                    \/ /\ Len(rcv_queue[e]) >= RcvWnd
                       /\ Len(rcv_queue'[e]) < RcvWnd]
        /\ delivered' = [delivered EXCEPT ![e] = @ \o SubSeq(rcv_queue[e], 1, k)]
        /\ UNCHANGED <<sndVars, flowVars, acklist, net, numbered, sends, snd_off>>
  BY DEF Recv
<1>2. rcv_queue[e] \in Seq(Segment) /\ IsSnMap(rcv_buf[e], Segment)
  BY DEF TypeOK
<1>3. SubSeq(rcv_queue[e], k + 1, Len(rcv_queue[e])) \in Seq(Segment)
      /\ SubSeq(rcv_queue[e], 1, k) \in Seq(Segment)
  BY <1>2
<1>4. /\ rcv_queue' \in [EP -> Seq(Segment)]
      /\ rcv_buf' = [x \in EP |-> rcv_buf'[x]]
      /\ rcv_nxt' \in [EP -> Nat]
      /\ \A x \in EP : IsSnMap(rcv_buf'[x], Segment)
  BY <1>1, <1>2, <1>3, MoveFacts
<1>5. delivered' \in [EP -> Seq(Segment)]
  <2>1. delivered[e] \o SubSeq(rcv_queue[e], 1, k) \in Seq(Segment)
    BY <1>3 DEF TypeOK
  <2> QED BY <1>1, <2>1 DEF TypeOK
<1>6. ask_tell' \in [EP -> BOOLEAN]
  BY <1>1 DEF TypeOK
<1> QED BY <1>1, <1>4, <1>5, <1>6 DEF TypeOK, sndVars, flowVars

\* Setting the counters of a segment leaves its data alone.
LEMMA CountedType ==
    ASSUME NEW s \in SndSegment \cup Segment, NEW x \in Nat, NEW f \in Nat
    PROVE  /\ Counted(s, x, f) \in SndSegment
           /\ Payload(Counted(s, x, f)) = Payload(s)
           /\ Payload(s) \in Segment
           /\ s \in Segment => Payload(s) = s
BY DEF Counted, Payload, SndSegment, Segment

\* ikcp_parse_fastack changes counters only.
LEMMA FastackFacts ==
    ASSUME NEW buf, IsSnMap(buf, SndSegment), NEW acks, NEW una, NEW nxt
    PROVE  LET f == ParseFastack(buf, acks, una, nxt)
           IN  /\ IsSnMap(f, SndSegment)
               /\ DOMAIN f = DOMAIN buf
               /\ \A sn \in DOMAIN buf : Payload(f[sn]) = Payload(buf[sn])
<1> DEFINE skipped(sn) == \E maxack \in acks : /\ \A k \in acks : k <= maxack
                                /\ una <= maxack /\ maxack < nxt
                                /\ sn < maxack
           up(sn) == Counted(buf[sn], buf[sn].xmit, Minimum(buf[sn].fastack + 1, FastResend))
           f == [sn \in DOMAIN buf |-> IF skipped(sn) THEN up(sn) ELSE buf[sn]]
<1>1. ParseFastack(buf, acks, una, nxt) = f
  BY DEF ParseFastack
<1>2. \A sn \in DOMAIN buf : up(sn) \in SndSegment /\ Payload(up(sn)) = Payload(buf[sn])
  <2> TAKE sn \in DOMAIN buf
  <2>1. buf[sn] \in SndSegment BY DEF IsSnMap
  <2>2. buf[sn].xmit \in Nat /\ Minimum(buf[sn].fastack + 1, FastResend) \in Nat
    BY <2>1, TuningAssumption DEF SndSegment, Minimum
  <2> QED BY <2>1, <2>2, CountedType
<1> HIDE DEF skipped, up
<1>3. IsSnMap(f, SndSegment) /\ DOMAIN f = DOMAIN buf
      /\ \A sn \in DOMAIN buf : Payload(f[sn]) = Payload(buf[sn])
  BY <1>2 DEF IsSnMap
<1> QED BY <1>1, <1>3

\* ikcp_parse_una and ikcp_parse_ack only remove segments.
LEMMA UnackedFacts ==
    ASSUME TypeOK, NEW e \in EP, NEW d
    PROVE  /\ IsSnMap(Unacked(e, d), SndSegment)
           /\ DOMAIN Unacked(e, d) =
                {k \in DOMAIN snd_buf[e] : k >= d.una /\ k \notin d.acks}
           /\ \A sn \in DOMAIN Unacked(e, d) : Unacked(e, d)[sn] = snd_buf[e][sn]
BY DEF TypeOK, Unacked, IsSnMap

\* ikcp_parse_data only adds segments of the datagram, in the window and
\* not yet moved on.
LEMMA ParseDataFacts ==
    ASSUME TypeOK, NEW e \in EP, NEW d, IsDatagram(d)
    PROVE  /\ IsSnMap(ParseData(e, d), Segment)
           /\ DOMAIN ParseData(e, d) = DOMAIN rcv_buf[e] \cup
                {sn \in DOMAIN d.push : InWindow(e, d, sn) /\ sn >= rcv_nxt[e]}
           /\ \A sn \in DOMAIN ParseData(e, d) :
                ParseData(e, d)[sn] = IF sn \in DOMAIN rcv_buf[e] THEN rcv_buf[e][sn]
                                      ELSE d.push[sn]
<1> DEFINE new == {sn \in DOMAIN d.push : /\ InWindow(e, d, sn)
                                       /\ sn >= rcv_nxt[e]
                                       /\ sn \notin DOMAIN rcv_buf[e]}
           f == [sn \in DOMAIN rcv_buf[e] \cup new |->
                    IF sn \in new THEN d.push[sn] ELSE rcv_buf[e][sn]]
<1>1. ParseData(e, d) = f
  BY DEF ParseData
<1>2. IsSnMap(rcv_buf[e], Segment) /\ IsSnMap(d.push, Segment)
  BY DEF TypeOK, IsDatagram
<1>3. IsSnMap(f, Segment)
  BY <1>2 DEF IsSnMap
<1> QED BY <1>1, <1>3

\* ikcp_input preserves the types.
LEMMA InputType ==
    ASSUME TypeOK, NEW e \in EP, NEW d \in net[e], Deliver(e, d)
    PROVE  TypeOK'
<1>1. IsDatagram(d) /\ Input(e, d)
  BY DEF TypeOK, Deliver
<1>2. PICK una \in 0..snd_nxt[e] :
        /\ snd_una' = [snd_una EXCEPT ![e] = una]
        /\ snd_buf' = [snd_buf EXCEPT ![e] =
                          ParseFastack(Unacked(e, d), d.acks, una, snd_nxt[e])]
        /\ LET g == GrowCwnd(cwnd[e], incr[e], ssthresh[e], d.wnd)
           IN  IF una > snd_una[e]
               THEN /\ cwnd' = [cwnd EXCEPT ![e] = g.cwnd]
                    /\ incr' = [incr EXCEPT ![e] = g.incr]
               ELSE UNCHANGED <<cwnd, incr>>
  BY <1>1 DEF Input
<1>3. snd_una' \in [EP -> Nat]
  BY <1>2 DEF TypeOK
<1>4. snd_buf' = [x \in EP |-> snd_buf'[x]] /\ \A x \in EP : IsSnMap(snd_buf'[x], SndSegment)
  <2>1. IsSnMap(ParseFastack(Unacked(e, d), d.acks, una, snd_nxt[e]), SndSegment)
    BY UnackedFacts, FastackFacts
  <2> QED BY <1>2, <2>1 DEF TypeOK
<1>5. cwnd' \in [EP -> Nat] /\ incr' \in [EP -> Nat]
  <2>1. /\ GrowCwnd(cwnd[e], incr[e], ssthresh[e], d.wnd).cwnd \in Nat
        /\ GrowCwnd(cwnd[e], incr[e], ssthresh[e], d.wnd).incr \in Nat
    BY <1>1, GrowCwndType DEF TypeOK, IsDatagram
  <2> QED BY <1>2, <2>1 DEF TypeOK
<1>6. rmt_wnd' \in [EP -> Nat] /\ ask_tell' \in [EP -> BOOLEAN]
  BY <1>1 DEF Input, TypeOK, IsDatagram
<1>7. acklist' \in [EP -> SUBSET Nat]
  <2>1. {sn \in DOMAIN d.push : InWindow(e, d, sn)} \subseteq Nat
    BY <1>1 DEF IsDatagram, IsSnMap
  <2>2. acklist' = [acklist EXCEPT ![e] = @ \cup {sn \in DOMAIN d.push : InWindow(e, d, sn)}]
    BY <1>1 DEF Input
  <2> QED BY <2>1, <2>2 DEF TypeOK
<1>8. /\ rcv_queue' \in [EP -> Seq(Segment)]
      /\ rcv_buf' = [x \in EP |-> rcv_buf'[x]]
      /\ rcv_nxt' \in [EP -> Nat]
      /\ \A x \in EP : IsSnMap(rcv_buf'[x], Segment)
  <2>1. MoveAvailable(e, rcv_queue[e], ParseData(e, d)) BY <1>1 DEF Input
  <2>2. IsSnMap(ParseData(e, d), Segment) BY <1>1, ParseDataFacts
  <2>3. rcv_queue[e] \in Seq(Segment) BY DEF TypeOK
  <2> QED BY <2>1, <2>2, <2>3, MoveFacts
<1>9. net' = [x \in EP |-> net'[x]] /\ \A x \in EP : \A c \in net'[x] : IsDatagram(c)
  <2>1. net = [x \in EP |-> net[x]] /\ \A x \in EP : \A c \in net[x] : IsDatagram(c)
    BY DEF TypeOK
  <2>2. CASE net' = net
    BY <2>1, <2>2
  <2>3. CASE net' = [net EXCEPT ![e] = @ \ {d}]
    <3>1. net' = [x \in EP |-> net'[x]] /\ \A x \in EP : net'[x] \subseteq net[x]
      BY <2>1, <2>3
    <3> QED BY <2>1, <3>1
  <2> QED BY <2>2, <2>3 DEF Deliver
<1>10. UNCHANGED <<snd_queue, snd_nxt, probe_wait, ssthresh, state, histVars>>
  BY <1>1 DEF Input
<1> QED BY <1>3, <1>4, <1>5, <1>6, <1>7, <1>8, <1>9, <1>10 DEF TypeOK, histVars

\* ikcp_flush numbers no more segments than are queued and than the send
\* window has room for.
LEMMA MoveCountFacts ==
    ASSUME TypeOK, NEW e \in EP
    PROVE  /\ MoveCount(e) \in 0..Len(snd_queue[e])
           /\ Window(e) \in 0..SndWnd
           /\ MoveCount(e) > 0 => snd_nxt[e] + MoveCount(e) <= snd_una[e] + Window(e)
<1>1. /\ Len(snd_queue[e]) \in Nat /\ snd_una[e] \in Nat /\ snd_nxt[e] \in Nat
      /\ rmt_wnd[e] \in Nat /\ cwnd[e] \in Nat /\ SndWnd \in Nat
  BY WindowAssumption DEF TypeOK
<1>2. Window(e) \in 0..SndWnd
  BY <1>1 DEF Window, Minimum
<1> DEFINE q == Len(snd_queue[e])
           w == Window(e)
           una == snd_una[e]
           nxt == snd_nxt[e]
<1>3. MoveCount(e) = Minimum(q, Maximum(0, una + w - nxt))
  BY DEF MoveCount
<1>4. q \in Nat /\ w \in 0..SndWnd /\ SndWnd \in Nat /\ una \in Nat /\ nxt \in Nat
  BY <1>1, <1>2
<1> HIDE DEF q, w, una, nxt
<1>5. MoveCount(e) \in 0..q /\ (MoveCount(e) > 0 => nxt + MoveCount(e) <= una + w)
  BY <1>3, <1>4 DEF Minimum, Maximum
<1> QED BY <1>2, <1>5 DEF q, w, una, nxt

\* Numbering keeps snd_buf and adds the front of snd_queue to it.
LEMMA NumberedFacts ==
    ASSUME TypeOK, NEW e \in EP, NEW n \in 0..Len(snd_queue[e])
    PROVE  /\ IsSnMap(Numbered(e, n), SndSegment)
           /\ DOMAIN Numbered(e, n) =
                DOMAIN snd_buf[e] \cup snd_nxt[e]..(snd_nxt[e] + n - 1)
           /\ \A sn \in DOMAIN snd_buf[e] : Numbered(e, n)[sn] = snd_buf[e][sn]
           /\ \A sn \in snd_nxt[e]..(snd_nxt[e] + n - 1) \ DOMAIN snd_buf[e] :
                Payload(Numbered(e, n)[sn]) = snd_queue[e][sn - snd_nxt[e] + 1]
<1> DEFINE new(sn) == Counted(snd_queue[e][sn - snd_nxt[e] + 1], 0, 0)
           fresh == snd_nxt[e]..(snd_nxt[e] + n - 1)
           f == [sn \in DOMAIN snd_buf[e] \cup fresh |->
                    IF sn \in DOMAIN snd_buf[e] THEN snd_buf[e][sn] ELSE new(sn)]
<1>1. Numbered(e, n) = f
  BY DEF Numbered
<1>2. snd_queue[e] \in Seq(Segment) /\ snd_nxt[e] \in Nat /\ n \in Nat
      /\ IsSnMap(snd_buf[e], SndSegment)
  BY DEF TypeOK
<1>3. \A sn \in fresh : new(sn) \in SndSegment
                         /\ Payload(new(sn)) = snd_queue[e][sn - snd_nxt[e] + 1]
  <2> TAKE sn \in fresh
  <2>1. sn - snd_nxt[e] + 1 \in 1..Len(snd_queue[e])
    BY <1>2
  <2>2. snd_queue[e][sn - snd_nxt[e] + 1] \in Segment
    BY <1>2, <2>1
  <2> QED BY <2>2, CountedType
<1>4. fresh \subseteq Nat
  BY <1>2
<1> HIDE DEF new, fresh
<1>5. /\ IsSnMap(f, SndSegment) /\ DOMAIN f = DOMAIN snd_buf[e] \cup fresh
      /\ \A sn \in DOMAIN snd_buf[e] : f[sn] = snd_buf[e][sn]
      /\ \A sn \in fresh \ DOMAIN snd_buf[e] : f[sn] = new(sn)
  BY <1>2, <1>3, <1>4 DEF IsSnMap
<1> HIDE DEF f
<1>6. \A sn \in fresh \ DOMAIN snd_buf[e] :
        Payload(Numbered(e, n)[sn]) = snd_queue[e][sn - snd_nxt[e] + 1]
  <2> TAKE sn \in fresh \ DOMAIN snd_buf[e]
  <2>1. Numbered(e, n)[sn] = new(sn)
    BY <1>1, <1>5
  <2> QED BY <1>3, <2>1, Zenon
<1>7. IsSnMap(Numbered(e, n), SndSegment)
  BY <1>1, <1>5, Zenon
<1>8. DOMAIN Numbered(e, n) = DOMAIN snd_buf[e] \cup fresh
      /\ \A sn \in DOMAIN snd_buf[e] : Numbered(e, n)[sn] = snd_buf[e][sn]
  BY <1>1, <1>5, Zenon
<1> QED BY <1>6, <1>7, <1>8, Zenon DEF fresh

\* Sending a segment changes its counters only (ikcp_flush).
LEMMA TransmitFacts ==
    ASSUME NEW buf, IsSnMap(buf, SndSegment), NEW send, NEW fast
    PROVE  /\ IsSnMap(Transmit(buf, send, fast), SndSegment)
           /\ DOMAIN Transmit(buf, send, fast) = DOMAIN buf
           /\ \A sn \in DOMAIN buf :
                Payload(Transmit(buf, send, fast)[sn]) = Payload(buf[sn])
<1> DEFINE up(sn) == Counted(buf[sn], Minimum(buf[sn].xmit + 1, XmitCap),
                             IF sn \in fast THEN 0 ELSE buf[sn].fastack)
           f == [sn \in DOMAIN buf |-> IF sn \in send THEN up(sn) ELSE buf[sn]]
<1>1. Transmit(buf, send, fast) = f
  BY DEF Transmit
<1>2. \A sn \in DOMAIN buf : up(sn) \in SndSegment /\ Payload(up(sn)) = Payload(buf[sn])
  <2> TAKE sn \in DOMAIN buf
  <2>1. buf[sn] \in SndSegment BY DEF IsSnMap
  <2>2. buf[sn].xmit \in Nat /\ buf[sn].fastack \in Nat
    BY <2>1 DEF SndSegment
  <2>3. Minimum(buf[sn].xmit + 1, XmitCap) \in Nat
    BY <2>2, TuningAssumption DEF Minimum, Maximum, XmitCap
  <2>4. (IF sn \in fast THEN 0 ELSE buf[sn].fastack) \in Nat
    BY <2>2
  <2> QED BY <2>1, <2>3, <2>4, CountedType
<1> HIDE DEF up
<1>3. IsSnMap(f, SndSegment) /\ DOMAIN f = DOMAIN buf
      /\ \A sn \in DOMAIN buf : Payload(f[sn]) = Payload(buf[sn])
  BY <1>2 DEF IsSnMap
<1> HIDE DEF f
<1> QED BY <1>1, <1>3

\* What a datagram of a flush carries: rcv_nxt as una, collected
\* acknowledgements, and segments of snd_buf.
LEMMA DatagramFacts ==
    ASSUME TypeOK, NEW e \in EP, NEW wask \in BOOLEAN, NEW buf,
           IsSnMap(buf, SndSegment), NEW send, send \subseteq DOMAIN buf,
           NEW d \in Datagrams(e, wask, buf, send)
    PROVE  /\ IsDatagram(d)
           /\ d.una = rcv_nxt[e]
           /\ d.acks \subseteq acklist[e]
           /\ DOMAIN d.push \subseteq send
           /\ \A sn \in DOMAIN d.push : d.push[sn] = Payload(buf[sn])
<1> DEFINE ctl == IKCP_OVERHEAD * (Cardinality(acklist[e]) + (IF wask THEN 1 ELSE 0)
                                   + (IF ask_tell[e] THEN 1 ELSE 0))
           put(i) == {k \in send : Packed(ctl, buf, send, k) = i}
           sent(i) == [sn \in put(i) |-> Payload(buf[sn])]
<1> HIDE DEF ctl
<1> DEFINE bins == {Packed(ctl, buf, send, sn) : sn \in send}
                     \cup (IF ctl > 0 THEN {0} ELSE {})
           dgram(i) == Datagram(e, i = 0, wask, sent(i))
<1>0. Datagrams(e, wask, buf, send) = {dgram(i) : i \in bins}
  BY DEF Datagrams, ctl
<1>1. PICK i : d = dgram(i)
  <2> HIDE DEF dgram, bins
  <2> QED BY <1>0
<1>2. /\ DOMAIN sent(i) = put(i) /\ put(i) \subseteq send
      /\ \A sn \in put(i) : sent(i)[sn] = Payload(buf[sn])
      /\ sent(i) = [sn \in put(i) |-> sent(i)[sn]]
  OBVIOUS
<1> HIDE DEF put, sent
<1>3. d.wnd = WndUnused(e) % 65536 /\ d.una = rcv_nxt[e] /\ d.acks \subseteq acklist[e]
      /\ d.wask \in BOOLEAN /\ d.wins \in BOOLEAN /\ d.push = sent(i)
  BY <1>1 DEF Datagram
<1>4. WndUnused(e) % 65536 \in Nat
  <2>1. Len(rcv_queue[e]) \in Nat /\ RcvWnd \in Nat
    BY WindowAssumption DEF TypeOK
  <2>2. WndUnused(e) \in Nat
    BY <2>1 DEF WndUnused
  <2> QED BY <2>2
<1>5. rcv_nxt[e] \in Nat /\ acklist[e] \subseteq Nat
  BY DEF TypeOK
<1>6. \A sn \in put(i) : sn \in Nat /\ Payload(buf[sn]) \in Segment
  BY <1>2, CountedType DEF IsSnMap
<1>7. IsSnMap(sent(i), Segment)
  BY <1>2, <1>6 DEF IsSnMap
<1> QED BY <1>2, <1>3, <1>4, <1>5, <1>7 DEF IsDatagram

\* ikcp_flush preserves the types.
LEMMA FlushType ==
    ASSUME TypeOK, NEW e \in EP, NEW due \in BOOLEAN,
           NEW expired, expired \subseteq Transmitted(e), Flush(e, due, expired, FALSE)
    PROVE  TypeOK'
<1> DEFINE n == MoveCount(e)
           nxt == snd_nxt[e] + n
           buf == Numbered(e, n)
           wask == ProbeDue(e, due)
           fast == FastResendable(buf, expired)
           send == {sn \in DOMAIN buf : buf[sn].xmit = 0} \cup expired \cup fast
           done == Transmit(buf, send, fast)
           changed == Maximum((nxt - snd_una[e]) \div 2, IKCP_THRESH_MIN)
<1>1. n \in 0..Len(snd_queue[e]) /\ Window(e) \in Nat
  BY MoveCountFacts, WindowAssumption
<1>2. IsSnMap(buf, SndSegment) /\ DOMAIN snd_buf[e] \subseteq DOMAIN buf
  BY <1>1, NumberedFacts
<1>3. IsSnMap(done, SndSegment)
  BY <1>2, TransmitFacts
<1>4. send \subseteq DOMAIN buf /\ wask \in BOOLEAN
  BY <1>2 DEF Transmitted, FastResendable, ProbeDue
<1>5. /\ Output(e, Datagrams(e, wask, buf, send), FALSE)
      /\ acklist' = [acklist EXCEPT ![e] = {}]
      /\ ask_tell' = [ask_tell EXCEPT ![e] = FALSE]
      /\ probe_wait' = [probe_wait EXCEPT ![e] = rmt_wnd[e] = 0]
      /\ snd_queue' = [snd_queue EXCEPT ![e] = SubSeq(@, n + 1, Len(@))]
      /\ snd_nxt' = [snd_nxt EXCEPT ![e] = nxt]
      /\ snd_buf' = [snd_buf EXCEPT ![e] = done]
      /\ numbered' = [numbered EXCEPT ![e] = @ \o SubSeq(snd_queue[e], 1, n)]
      /\ state' = [state EXCEPT ![e] =
              IF \E sn \in send : done[sn].xmit >= DeadLink THEN -1 ELSE @]
      /\ ssthresh' = [ssthresh EXCEPT ![e] =
              IF expired # {} THEN Maximum(Window(e) \div 2, IKCP_THRESH_MIN)
              ELSE IF fast # {} THEN changed ELSE @]
      /\ cwnd' = [cwnd EXCEPT ![e] =
              IF expired # {} THEN 1
              ELSE Maximum(1, IF fast # {} THEN changed + FastResend ELSE @)]
      /\ incr' = [incr EXCEPT ![e] =
              IF expired # {} THEN Mss
              ELSE IF fast # {} THEN (changed + FastResend) * Mss
              ELSE IF cwnd[e] < 1 THEN Mss ELSE @]
      /\ UNCHANGED <<snd_una, rmt_wnd, rcv_nxt, rcv_buf, rcv_queue,
                     delivered, sends, recvs, snd_off>>
  BY DEF Flush
<1>6. changed \in Nat /\ nxt \in Nat /\ Maximum(Window(e) \div 2, IKCP_THRESH_MIN) \in Nat
  <2>1. snd_nxt[e] \in Nat /\ snd_una[e] \in Nat /\ n \in Nat
    BY <1>1 DEF TypeOK
  <2>2. (nxt - snd_una[e]) \div 2 \in Int /\ Window(e) \div 2 \in Int
    BY <2>1, <1>1
  <2> QED BY <2>1, <2>2 DEF Maximum, IKCP_THRESH_MIN
<1>7. \A c \in Datagrams(e, wask, buf, send) : IsDatagram(c)
  BY <1>2, <1>4, DatagramFacts
<1> HIDE DEF n, nxt, buf, wask, fast, send, done, changed
<1>8. net' = [x \in EP |-> net'[x]] /\ \A x \in EP : \A c \in net'[x] : IsDatagram(c)
  <2>1. PICK kept : /\ kept \subseteq Datagrams(e, wask, buf, send)
                    /\ net' = [net EXCEPT ![Peer(e)] = @ \cup kept]
    BY <1>5 DEF Output
  <2>2. net = [x \in EP |-> net[x]] /\ \A x \in EP : \A c \in net[x] : IsDatagram(c)
    BY DEF TypeOK
  <2>3. net' = [x \in EP |-> net'[x]] /\ \A x \in EP : net'[x] \subseteq net[x] \cup kept
    BY <2>1, <2>2
  <2> QED BY <2>1, <2>2, <2>3, <1>7
<1>9. /\ acklist' \in [EP -> SUBSET Nat] /\ ask_tell' \in [EP -> BOOLEAN]
      /\ probe_wait' \in [EP -> BOOLEAN] /\ snd_nxt' \in [EP -> Nat]
  <2>1. /\ acklist' = [acklist EXCEPT ![e] = {}]
        /\ ask_tell' = [ask_tell EXCEPT ![e] = FALSE]
        /\ probe_wait' = [probe_wait EXCEPT ![e] = rmt_wnd[e] = 0]
        /\ snd_nxt' = [snd_nxt EXCEPT ![e] = nxt]
    BY <1>5
  <2> QED BY <2>1, <1>6 DEF TypeOK
<1>10. snd_queue' \in [EP -> Seq(Segment)] /\ numbered' \in [EP -> Seq(Segment)]
  <2>1. /\ snd_queue \in [EP -> Seq(Segment)] /\ snd_queue[e] \in Seq(Segment)
        /\ numbered \in [EP -> Seq(Segment)] /\ numbered[e] \in Seq(Segment)
    BY DEF TypeOK
  <2>2. SubSeq(snd_queue[e], n + 1, Len(snd_queue[e])) \in Seq(Segment)
        /\ SubSeq(snd_queue[e], 1, n) \in Seq(Segment)
    BY <1>1, <2>1
  <2>3. numbered[e] \o SubSeq(snd_queue[e], 1, n) \in Seq(Segment)
    BY <2>1, <2>2
  <2>4. snd_queue' = [snd_queue EXCEPT ![e] = SubSeq(@, n + 1, Len(@))]
        /\ numbered' = [numbered EXCEPT ![e] = @ \o SubSeq(snd_queue[e], 1, n)]
    BY <1>5
  <2>5. snd_queue' \in [EP -> Seq(Segment)]
    BY <2>1, <2>2, <2>4
  <2>6. numbered' \in [EP -> Seq(Segment)]
    BY <2>1, <2>3, <2>4
  <2> QED BY <2>5, <2>6
<1>11. snd_buf' = [x \in EP |-> snd_buf'[x]] /\ \A x \in EP : IsSnMap(snd_buf'[x], SndSegment)
  BY <1>3, <1>5 DEF TypeOK
<1>12. state' \in [EP -> {0, -1}]
  BY <1>5 DEF TypeOK
<1>13. ssthresh' \in [EP -> Nat]
  <2>1. ssthresh' = [ssthresh EXCEPT ![e] =
                IF expired # {} THEN Maximum(Window(e) \div 2, IKCP_THRESH_MIN)
                ELSE IF fast # {} THEN changed ELSE @]
    BY <1>5
  <2>2. ssthresh \in [EP -> Nat]
    BY DEF TypeOK
  <2> QED BY <2>1, <2>2, <1>6
<1>14. cwnd' \in [EP -> Nat]
  <2>1. cwnd \in [EP -> Nat] /\ cwnd[e] \in Nat /\ FastResend \in Nat
    BY TuningAssumption DEF TypeOK
  <2> DEFINE grown == IF fast # {} THEN changed + FastResend ELSE cwnd[e]
  <2>2. grown \in Nat
    BY <1>6, <2>1
  <2>3. cwnd' = [cwnd EXCEPT ![e] = IF expired # {} THEN 1 ELSE Maximum(1, grown)]
    BY <1>5, <2>1
  <2> HIDE DEF grown
  <2>4. Maximum(1, grown) \in Nat
    BY <2>2, MinMaxNat
  <2> QED BY <2>1, <2>3, <2>4
<1>15. incr' \in [EP -> Nat]
  <2>1. (changed + FastResend) * Mss \in Nat
    BY <1>6, TuningAssumption, MssType
  <2>2. incr' = [incr EXCEPT ![e] =
                IF expired # {} THEN Mss
                ELSE IF fast # {} THEN (changed + FastResend) * Mss
                ELSE IF cwnd[e] < 1 THEN Mss ELSE @]
    BY <1>5
  <2>3. incr \in [EP -> Nat] /\ Mss \in Nat
    BY MssType DEF TypeOK
  <2> DEFINE bytes == (changed + FastResend) * Mss
  <2> HIDE DEF bytes
  <2>4. incr' = [incr EXCEPT ![e] =
                IF expired # {} THEN Mss
                ELSE IF fast # {} THEN bytes
                ELSE IF cwnd[e] < 1 THEN Mss ELSE @]
    BY <2>2 DEF bytes
  <2>5. bytes \in Nat
    BY <2>1 DEF bytes
  <2> QED BY <2>3, <2>4, <2>5
<1>16. UNCHANGED <<snd_una, rmt_wnd, rcv_nxt, rcv_buf, rcv_queue, delivered, snd_off>>
  BY <1>5
<1> QED BY <1>8, <1>9, <1>10, <1>11, <1>12, <1>13, <1>14, <1>15, <1>16 DEF TypeOK

\* Every reachable state of two ikcp.c control blocks and their network is
\* well typed, whatever the windows, the mtu and the network's capacity.
THEOREM TypeCorrect == Spec => []TypeOK
<1>1. Init => TypeOK
  <2>1. \A x : IsSnMap(<<>>, x)
    BY DEF IsSnMap
  <2> QED BY <2>1, WindowAssumption DEF Init, TypeOK, IKCP_THRESH_MIN
<1>2. TypeOK /\ [Next]_vars => TypeOK'
  <2> SUFFICES ASSUME TypeOK, [Next]_vars PROVE TypeOK'
    OBVIOUS
  <2>1. ASSUME NEW e \in EP, NEW len \in Lens, Send(e, len) PROVE TypeOK'
    BY <2>1, SendType, SegmentAssumption
  <2>2. ASSUME NEW e \in EP, Recv(e) PROVE TypeOK'
    BY <2>2, RecvType
  <2>3. ASSUME NEW e \in EP, NEW d \in net[e], Deliver(e, d) PROVE TypeOK'
    BY <2>3, InputType
  <2>4. ASSUME NEW e \in EP, FlushStep(e) PROVE TypeOK'
    BY <2>4, FlushType DEF FlushStep
  <2>5. CASE UNCHANGED vars
    BY <2>5 DEF TypeOK, vars, sndVars, flowVars, rcvVars, histVars
  <2> QED BY <2>1, <2>2, <2>3, <2>4, <2>5 DEF Next
<1> QED BY <1>1, <1>2, PTL DEF Spec

-----------------------------------------------------------------------------
(* The protocol invariant.                                                 *)

\* The types of one endpoint's variables.
LEMMA EndpointTypes ==
    ASSUME TypeOK, NEW e \in EP
    PROVE  /\ snd_queue[e] \in Seq(Segment) /\ IsSnMap(snd_buf[e], SndSegment)
           /\ snd_una[e] \in Nat /\ snd_nxt[e] \in Nat /\ rcv_nxt[e] \in Nat
           /\ IsSnMap(rcv_buf[e], Segment) /\ rcv_queue[e] \in Seq(Segment)
           /\ acklist[e] \subseteq Nat
           /\ numbered[e] \in Seq(Segment) /\ delivered[e] \in Seq(Segment)
BY DEF TypeOK

\* A sequence cut after its k-th element.
LEMMA SplitSeq ==
    ASSUME NEW s \in Seq(Segment), NEW k \in 0..Len(s)
    PROVE  /\ SubSeq(s, k + 1, Len(s)) \in Seq(Segment)
           /\ Len(SubSeq(s, k + 1, Len(s))) = Len(s) - k
           /\ \A i \in 1..(Len(s) - k) : SubSeq(s, k + 1, Len(s))[i] = s[k + i]
           /\ SubSeq(s, 1, k) \in Seq(Segment)
           /\ Len(SubSeq(s, 1, k)) = k
           /\ \A i \in 1..k : SubSeq(s, 1, k)[i] = s[i]
<1>1. SubSeq(s, k + 1, Len(s)) \in Seq(Segment) /\ SubSeq(s, 1, k) \in Seq(Segment)
  OBVIOUS
<1>2. Len(SubSeq(s, k + 1, Len(s))) = Len(s) - k /\ Len(SubSeq(s, 1, k)) = k
  OBVIOUS
<1>3. \A i \in 1..(Len(s) - k) : SubSeq(s, k + 1, Len(s))[i] = s[k + i]
  OBVIOUS
<1>4. \A i \in 1..k : SubSeq(s, 1, k)[i] = s[i]
  OBVIOUS
<1> QED BY <1>1, <1>2, <1>3, <1>4

\* A sequence followed by another.
LEMMA ConcatSeq ==
    ASSUME NEW s \in Seq(Segment), NEW t \in Seq(Segment)
    PROVE  /\ Len(s \o t) = Len(s) + Len(t)
           /\ \A i \in 1..Len(s) : (s \o t)[i] = s[i]
           /\ \A i \in 1..Len(t) : (s \o t)[Len(s) + i] = t[i]
OBVIOUS

\* Queue and buffer hold the peer's segments, read of them already delivered, in
\* the state in which MoveAvailable finds them.
MoveReady(e, queue, buf, read) ==
    /\ Len(queue) <= RcvWnd
    /\ read + Len(queue) = rcv_nxt[e]
    /\ rcv_nxt[e] <= snd_nxt[Peer(e)]
    /\ \A i \in 1..Len(queue) : queue[i] = numbered[Peer(e)][read + i]
    /\ DOMAIN rcv_buf[e] \subseteq DOMAIN buf
    /\ \A sn \in DOMAIN buf : /\ sn >= rcv_nxt[e]
                              /\ sn < snd_nxt[Peer(e)]
                              /\ buf[sn] = numbered[Peer(e)][sn + 1]
    /\ \A n \in 0..RcvWnd : Movable(rcv_nxt[e], buf, RcvWnd - Len(queue), n)
            => \A sn \in DOMAIN buf : sn < rcv_nxt[e] + n + RcvWnd

\* What MoveAvailable makes of them.
MoveDone(e, buf, read) ==
    /\ rcv_nxt'[e] = read + Len(rcv_queue'[e])
    /\ rcv_nxt[e] <= rcv_nxt'[e]
    /\ rcv_nxt'[e] <= snd_nxt[Peer(e)]
    /\ \A i \in 1..Len(rcv_queue'[e]) : rcv_queue'[e][i] = numbered[Peer(e)][read + i]
    /\ \A sn \in DOMAIN rcv_buf'[e] :
          sn < snd_nxt[Peer(e)] /\ rcv_buf'[e][sn] = numbered[Peer(e)][sn + 1]
    /\ Received(e) \subseteq Received(e)'
    /\ DOMAIN buf \subseteq Received(e)'
    /\ Len(rcv_queue'[e]) <= RcvWnd
    /\ DOMAIN rcv_buf'[e] \subseteq rcv_nxt'[e]..(rcv_nxt'[e] + RcvWnd - 1)
    /\ rcv_nxt'[e] \in DOMAIN rcv_buf'[e] => Len(rcv_queue'[e]) = RcvWnd

\* The loop that moves segments from rcv_buf to rcv_queue, run on any queue and
\* buffer that hold the peer's segments, keeps them in order, loses none, stops
\* only at a gap or a full queue and stays within the window.
LEMMA MoveOK ==
    ASSUME TypeOK, NEW e \in EP, NEW queue \in Seq(Segment), NEW buf, NEW read \in Nat,
           IsSnMap(buf, Segment), MoveReady(e, queue, buf, read),
           MoveAvailable(e, queue, buf)
    PROVE  MoveDone(e, buf, read)
<1>0. PICK n \in 0..RcvWnd : Moved(e, queue, buf, n)
  BY MoveFacts
<1>1. /\ Movable(rcv_nxt[e], buf, RcvWnd - Len(queue), n)
      /\ rcv_nxt'[e] = rcv_nxt[e] + n
      /\ Len(rcv_queue'[e]) = Len(queue) + n
      /\ \A i \in 1..Len(queue) : rcv_queue'[e][i] = queue[i]
      /\ \A i \in 1..n : rcv_queue'[e][Len(queue) + i] = buf[rcv_nxt[e] + i - 1]
      /\ DOMAIN rcv_buf'[e] = {k \in DOMAIN buf : k >= rcv_nxt[e] + n}
      /\ \A sn \in DOMAIN rcv_buf'[e] : rcv_buf'[e][sn] = buf[sn]
  BY <1>0 DEF Moved
<1> DEFINE nxt == rcv_nxt[e]
           nxt1 == rcv_nxt'[e]
           len == Len(queue)
           sent == numbered[Peer(e)]
           bound == snd_nxt[Peer(e)]
<1>2. /\ nxt \in Nat /\ n \in Nat /\ RcvWnd \in Nat /\ len \in Nat /\ nxt1 = nxt + n
      /\ bound \in Nat /\ DOMAIN buf \subseteq Nat
  <2>1. Peer(e) \in EP /\ RcvWnd \in Nat
    BY WindowAssumption, PeerFacts
  <2>2. rcv_nxt[e] \in Nat /\ snd_nxt[Peer(e)] \in Nat
    BY <2>1 DEF TypeOK
  <2>3. DOMAIN buf \subseteq Nat
    BY DEF IsSnMap
  <2>4. rcv_nxt'[e] = rcv_nxt[e] + n
    BY <1>1
  <2> QED BY <2>1, <2>2, <2>3, <2>4
<1>3. /\ n <= RcvWnd - len
      /\ \A i \in 0..(n - 1) : nxt + i \in DOMAIN buf
      /\ n = RcvWnd - len \/ nxt + n \notin DOMAIN buf
  BY <1>1 DEF Movable
<1>4. \A sn \in DOMAIN buf : sn >= nxt /\ sn < bound /\ buf[sn] = sent[sn + 1]
  BY DEF MoveReady
<1>5. \A sn \in DOMAIN buf : sn < nxt + n + RcvWnd
  BY <1>1 DEF MoveReady
<1>6. read + len = nxt /\ nxt <= bound /\ \A i \in 1..len : queue[i] = sent[read + i]
  BY DEF MoveReady
<1> HIDE DEF nxt, nxt1, len, sent, bound
<1>7. nxt1 <= bound
  <2>1. CASE n = 0
    BY <2>1, <1>2, <1>6
  <2>2. CASE n # 0
    <3>1. n - 1 \in 0..(n - 1)
      BY <2>2, <1>2
    <3>2. nxt + (n - 1) < bound
      BY <3>1, <1>3, <1>4
    <3> QED BY <3>2, <1>2
  <2> QED BY <2>1, <2>2
<1>8. \A i \in 1..Len(rcv_queue'[e]) : rcv_queue'[e][i] = sent[read + i]
  <2> TAKE i \in 1..Len(rcv_queue'[e])
  <2>0. Len(rcv_queue'[e]) = len + n
    BY <1>1 DEF len
  <2>1. CASE i <= len
    <3>1. i \in 1..len
      BY <2>1, <2>0, <1>2
    <3>2. rcv_queue'[e][i] = queue[i]
      BY <3>1, <1>1 DEF len
    <3> QED BY <3>1, <3>2, <1>6
  <2>2. CASE i > len
    <3> DEFINE j == i - len
    <3>1. j \in 1..n /\ i = len + j /\ j - 1 \in 0..(n - 1)
      BY <2>2, <2>0, <1>2
    <3>2. rcv_queue'[e][len + j] = buf[nxt + j - 1]
      <4> HIDE DEF j
      <4> QED BY <3>1, <1>1 DEF len, nxt
    <3>3. nxt + (j - 1) \in DOMAIN buf
      BY <3>1, <1>3
    <3>4. nxt + j - 1 = nxt + (j - 1)
      BY <3>1, <1>2
    <3>5. buf[nxt + (j - 1)] = sent[nxt + (j - 1) + 1]
      BY <3>3, <1>4
    <3>6. nxt + (j - 1) + 1 = read + i
      BY <1>2, <1>6, <3>1
    <3> QED BY <3>1, <3>2, <3>4, <3>5, <3>6
  <2> QED BY <2>1, <2>2, <1>2
<1>9. /\ DOMAIN rcv_buf'[e] = {k \in DOMAIN buf : k >= nxt1}
      /\ \A sn \in DOMAIN rcv_buf'[e] : rcv_buf'[e][sn] = buf[sn]
  BY <1>1, <1>2 DEF nxt
<1>10. \A sn \in DOMAIN rcv_buf'[e] : sn < bound /\ rcv_buf'[e][sn] = sent[sn + 1]
  BY <1>4, <1>9
<1>11. DOMAIN rcv_buf'[e] \subseteq nxt1..(nxt1 + RcvWnd - 1)
  <2>1. \A sn \in DOMAIN rcv_buf'[e] : sn \in Nat /\ nxt1 <= sn /\ sn < nxt1 + RcvWnd
    BY <1>2, <1>5, <1>9
  <2> QED BY <2>1, <1>2
<1>12. DOMAIN buf \subseteq 0..(nxt1 - 1) \cup DOMAIN rcv_buf'[e]
  BY <1>2, <1>9
<1>13. Received(e)' = 0..(nxt1 - 1) \cup DOMAIN rcv_buf'[e]
  BY DEF Received, nxt1
<1>14. Received(e) \subseteq Received(e)' /\ DOMAIN buf \subseteq Received(e)'
  <2>1. Received(e) \subseteq 0..(nxt - 1) \cup DOMAIN buf
    BY DEF Received, nxt, MoveReady
  <2>2. 0..(nxt - 1) \subseteq 0..(nxt1 - 1)
    BY <1>2
  <2> QED BY <2>1, <2>2, <1>12, <1>13
<1>15. nxt1 \in DOMAIN rcv_buf'[e] => Len(rcv_queue'[e]) = RcvWnd
  <2>1. Len(rcv_queue'[e]) = len + n
    BY <1>1 DEF len
  <2> QED BY <2>1, <1>2, <1>3, <1>9
<1>16. Len(rcv_queue'[e]) <= RcvWnd /\ nxt1 = read + Len(rcv_queue'[e]) /\ nxt <= nxt1
  <2>1. Len(rcv_queue'[e]) = len + n
    BY <1>1 DEF len
  <2> QED BY <2>1, <1>2, <1>3, <1>6
<1> QED BY <1>7, <1>8, <1>10, <1>11, <1>14, <1>15, <1>16
    DEF MoveDone, nxt, nxt1, sent, bound

\* The part of ArqInv that is about endpoint e and what it has sent.
EndpointInv(e) ==
    /\ SenderOK(e)
    /\ ReceiverOK(e)
    /\ \A d \in net[Peer(e)] : DatagramOK(e, d)
    /\ \A sn \in 0..(snd_nxt[e] - 1) :
          sn \in DOMAIN snd_buf[e] \/ sn \in Received(Peer(e))
    /\ Len(rcv_queue[e]) <= RcvWnd
    /\ DOMAIN rcv_buf[e] \subseteq rcv_nxt[e]..(rcv_nxt[e] + RcvWnd - 1)
    /\ rcv_nxt[e] \in DOMAIN rcv_buf[e] => Len(rcv_queue[e]) = RcvWnd
    /\ snd_nxt[e] - snd_una[e] <= SndWnd

\* ArqInv is the conjunction of its parts for both endpoints.
LEMMA ArqInvSplit == ArqInv <=> \A e \in EP : EndpointInv(e)
BY DEF ArqInv, EndpointInv, NothingForgotten, ReceiveBounded, NothingStuck, InFlightBounded

\* The same in the next state.
LEMMA ArqInvSplitNext == ArqInv' <=> \A e \in EP : EndpointInv(e)'
BY DEF ArqInv, EndpointInv, NothingForgotten, ReceiveBounded, NothingStuck, InFlightBounded

\* A step leaves endpoint p's control block and history alone.
Untouched(p) ==
    /\ snd_buf'[p] = snd_buf[p] /\ snd_una'[p] = snd_una[p] /\ snd_nxt'[p] = snd_nxt[p]
    /\ numbered'[p] = numbered[p] /\ delivered'[p] = delivered[p]
    /\ rcv_nxt'[p] = rcv_nxt[p] /\ rcv_buf'[p] = rcv_buf[p]
    /\ rcv_queue'[p] = rcv_queue[p] /\ acklist'[p] = acklist[p]

\* Endpoint e numbers more segments, receives more, and nothing is added to the
\* datagrams on their way to it.
Advances(e) ==
    /\ snd_nxt[e] <= snd_nxt'[e]
    /\ \A i \in 1..snd_nxt[e] : numbered'[e][i] = numbered[e][i]
    /\ net'[e] \subseteq net[e]
    /\ Received(e) \subseteq Received(e)'

\* What a step of endpoint e owes to its peer: only its own part of ArqInv has
\* to be shown again.
LEMMA PeerKept ==
    ASSUME TypeOK, TypeOK', ArqInv, NEW e \in EP,
           Untouched(Peer(e)), Advances(e), EndpointInv(e)'
    PROVE  ArqInv'
<1> DEFINE p == Peer(e)
<1>1. p \in EP /\ p # e /\ Peer(p) = e /\ \A x \in EP : x = e \/ x = p
  BY PeerFacts
<1>2. EndpointInv(p) /\ EndpointInv(e)
  BY <1>1, ArqInvSplit
<1>3. /\ snd_buf'[p] = snd_buf[p] /\ snd_una'[p] = snd_una[p] /\ snd_nxt'[p] = snd_nxt[p]
      /\ numbered'[p] = numbered[p] /\ delivered'[p] = delivered[p]
      /\ rcv_nxt'[p] = rcv_nxt[p] /\ rcv_buf'[p] = rcv_buf[p]
      /\ rcv_queue'[p] = rcv_queue[p] /\ acklist'[p] = acklist[p]
  BY DEF Untouched
<1>4. /\ snd_nxt[e] <= snd_nxt'[e]
      /\ \A i \in 1..snd_nxt[e] : numbered'[e][i] = numbered[e][i]
      /\ net'[e] \subseteq net[e]
      /\ Received(e) \subseteq Received(e)'
  BY DEF Advances
<1> HIDE DEF p
<1>5. Received(p)' = Received(p)
  BY <1>3 DEF Received
<1>6. SenderOK(p)'
  BY <1>2, <1>3 DEF EndpointInv, SenderOK
<1>7. ReceiverOK(p)'
  <2> DEFINE read == Len(delivered[p])
             que == rcv_queue[p]
             old == numbered[e]
             new == numbered'[e]
             bound == snd_nxt[e]
             nxt == rcv_nxt[p]
  <2>1. /\ nxt = read + Len(que) /\ nxt <= bound
        /\ \A i \in 1..read : delivered[p][i] = old[i]
        /\ \A i \in 1..Len(que) : que[i] = old[read + i]
        /\ \A sn \in DOMAIN rcv_buf[p] : sn < bound /\ rcv_buf[p][sn] = old[sn + 1]
        /\ acklist[p] \subseteq Received(p)
    BY <1>1, <1>2 DEF EndpointInv, ReceiverOK
  <2>2. read \in Nat /\ Len(que) \in Nat /\ bound \in Nat /\ snd_nxt'[e] \in Nat
        /\ nxt \in Nat /\ DOMAIN rcv_buf[p] \subseteq Nat
    <3>1. snd_nxt'[e] \in Nat
      BY DEF TypeOK
    <3>2. /\ delivered[p] \in Seq(Segment) /\ rcv_queue[p] \in Seq(Segment)
          /\ snd_nxt[e] \in Nat /\ rcv_nxt[p] \in Nat /\ IsSnMap(rcv_buf[p], Segment)
      BY <1>1, EndpointTypes
    <3>3. DOMAIN rcv_buf[p] \subseteq Nat
      BY <3>2 DEF IsSnMap
    <3>4. Len(delivered[p]) \in Nat /\ Len(rcv_queue[p]) \in Nat
      BY <3>2
    <3> QED BY <3>1, <3>2, <3>3, <3>4
  <2>3. \A i \in 1..bound : new[i] = old[i]
    BY <1>4
  <2>4. bound <= snd_nxt'[e]
    BY <1>4
  <2> HIDE DEF read, que, old, new, bound, nxt
  <2>5. \A i \in 1..read : delivered[p][i] = new[i]
    BY <2>1, <2>2, <2>3
  <2>6. \A i \in 1..Len(que) : que[i] = new[read + i]
    BY <2>1, <2>2, <2>3
  <2>7. \A sn \in DOMAIN rcv_buf[p] : sn < snd_nxt'[e] /\ rcv_buf[p][sn] = new[sn + 1]
    <3> TAKE sn \in DOMAIN rcv_buf[p]
    <3>1. sn \in Nat /\ sn < bound /\ rcv_buf[p][sn] = old[sn + 1]
      BY <2>1, <2>2
    <3>2. sn + 1 \in 1..bound
      BY <3>1, <2>2
    <3> QED BY <3>1, <3>2, <2>2, <2>3, <2>4
  <2>8. nxt = read + Len(que) /\ nxt <= snd_nxt'[e]
    BY <2>1, <2>2, <2>4
  <2> QED BY <1>1, <1>3, <1>5, <2>1, <2>5, <2>6, <2>7, <2>8
       DEF ReceiverOK, read, que, new, nxt
<1>8. \A d \in net'[Peer(p)] : DatagramOK(p, d)'
  <2>1. \A d \in net[e] : DatagramOK(p, d)
    BY <1>1, <1>2 DEF EndpointInv
  <2> SUFFICES ASSUME NEW d \in net[e] PROVE DatagramOK(p, d)'
    BY <1>1, <1>4
  <2> QED BY <2>1, <1>3, <1>5 DEF DatagramOK
<1>9. EndpointInv(p)'
  <2>1. \A sn \in 0..(snd_nxt'[p] - 1) : sn \in DOMAIN snd_buf'[p] \/ sn \in Received(Peer(p))'
    BY <1>1, <1>2, <1>3, <1>4 DEF EndpointInv
  <2> QED BY <1>2, <1>3, <1>6, <1>7, <1>8, <2>1 DEF EndpointInv
<1> QED BY <1>1, <1>9, ArqInvSplitNext

\* ikcp_recv preserves the invariant.
LEMMA RecvInv ==
    ASSUME TypeOK, TypeOK', ArqInv, NEW e \in EP, Recv(e)
    PROVE  ArqInv' /\ rcv_nxt'[e] >= rcv_nxt[e]
<1> DEFINE p == Peer(e)
           que == rcv_queue[e]
           sent == numbered[p]
           read == Len(delivered[e])
<1>1. p \in EP /\ p # e /\ Peer(p) = e /\ \A x \in EP : x = e \/ x = p
  BY PeerFacts
<1>2. EndpointInv(p) /\ EndpointInv(e)
  BY <1>1, ArqInvSplit
<1>3. PICK k \in 1..Len(que) :
        /\ MoveAvailable(e, SubSeq(que, k + 1, Len(que)), rcv_buf[e])
        /\ delivered' = [delivered EXCEPT ![e] = @ \o SubSeq(que, 1, k)]
        /\ UNCHANGED <<sndVars, acklist, net, numbered>>
  BY DEF Recv
<1> DEFINE rest == SubSeq(que, k + 1, Len(que))
           first == SubSeq(que, 1, k)
<1>4. /\ que \in Seq(Segment) /\ delivered[e] \in Seq(Segment)
      /\ IsSnMap(rcv_buf[e], Segment) /\ DOMAIN rcv_buf[e] \subseteq Nat
      /\ rcv_nxt[e] \in Nat /\ snd_nxt[p] \in Nat /\ RcvWnd \in Nat
  BY <1>1, EndpointTypes, WindowAssumption DEF IsSnMap
<1>5. /\ rest \in Seq(Segment) /\ Len(rest) = Len(que) - k
      /\ \A i \in 1..Len(rest) : rest[i] = que[k + i]
      /\ first \in Seq(Segment) /\ Len(first) = k
      /\ \A i \in 1..k : first[i] = que[i]
  <2>1. k \in 0..Len(que)
    BY <1>4
  <2>2. /\ rest \in Seq(Segment) /\ Len(rest) = Len(que) - k
        /\ \A i \in 1..(Len(que) - k) : rest[i] = que[k + i]
    BY <1>4, <2>1, SplitSeq DEF rest
  <2>3. /\ first \in Seq(Segment) /\ Len(first) = k
        /\ \A i \in 1..k : first[i] = que[i]
    BY <1>4, <2>1, SplitSeq DEF first
  <2> HIDE DEF rest, first, que
  <2> QED BY <2>2, <2>3
<1>6. /\ rcv_nxt[e] = read + Len(que) /\ rcv_nxt[e] <= snd_nxt[p]
      /\ \A i \in 1..read : delivered[e][i] = sent[i]
      /\ \A i \in 1..Len(que) : que[i] = sent[read + i]
      /\ \A sn \in DOMAIN rcv_buf[e] : sn < snd_nxt[p] /\ rcv_buf[e][sn] = sent[sn + 1]
      /\ acklist[e] \subseteq Received(e)
  BY <1>2 DEF EndpointInv, ReceiverOK
<1>7. /\ Len(que) <= RcvWnd
      /\ DOMAIN rcv_buf[e] \subseteq rcv_nxt[e]..(rcv_nxt[e] + RcvWnd - 1)
  BY <1>2 DEF EndpointInv
<1> DEFINE read1 == read + k
<1>8. read \in Nat /\ read1 \in Nat /\ Len(que) \in Nat /\ k \in Nat /\ k <= Len(que)
  BY <1>4
<1> HIDE DEF p, que, sent, read, rest, first
<1>9. \A i \in 1..Len(rest) : rest[i] = sent[read1 + i]
  <2> TAKE i \in 1..Len(rest)
  <2>1. k + i \in 1..Len(que) /\ rest[i] = que[k + i]
    BY <1>5, <1>8
  <2>2. read + (k + i) = read1 + i
    BY <1>8
  <2> QED BY <2>1, <2>2, <1>6
<1>10. /\ Len(rest) <= RcvWnd
       /\ read1 + Len(rest) = rcv_nxt[e]
       /\ \A sn \in DOMAIN rcv_buf[e] : sn >= rcv_nxt[e]
       /\ \A n \in 0..RcvWnd : \A sn \in DOMAIN rcv_buf[e] : sn < rcv_nxt[e] + n + RcvWnd
  BY <1>4, <1>5, <1>6, <1>7, <1>8
<1> HIDE DEF read1
<1>11. /\ rcv_nxt'[e] = read1 + Len(rcv_queue'[e])
       /\ rcv_nxt[e] <= rcv_nxt'[e]
       /\ rcv_nxt'[e] <= snd_nxt[p]
       /\ \A i \in 1..Len(rcv_queue'[e]) : rcv_queue'[e][i] = sent[read1 + i]
       /\ \A sn \in DOMAIN rcv_buf'[e] : sn < snd_nxt[p] /\ rcv_buf'[e][sn] = sent[sn + 1]
       /\ Received(e) \subseteq Received(e)'
       /\ Len(rcv_queue'[e]) <= RcvWnd
       /\ DOMAIN rcv_buf'[e] \subseteq rcv_nxt'[e]..(rcv_nxt'[e] + RcvWnd - 1)
       /\ rcv_nxt'[e] \in DOMAIN rcv_buf'[e] => Len(rcv_queue'[e]) = RcvWnd
  <2>1. MoveReady(e, rest, rcv_buf[e], read1)
    BY <1>6, <1>9, <1>10 DEF MoveReady, p, sent
  <2>2. MoveDone(e, rcv_buf[e], read1)
    BY <2>1, <1>3, <1>4, <1>5, <1>8, MoveOK DEF rest
  <2> QED BY <2>2 DEF MoveDone, p, sent
<1>12. /\ Len(delivered'[e]) = read1
       /\ \A i \in 1..read1 : delivered'[e][i] = sent[i]
  <2>1. delivered'[e] = delivered[e] \o first
    BY <1>3 DEF TypeOK, first
  <2>2. /\ Len(delivered'[e]) = read + k
        /\ \A i \in 1..read : delivered'[e][i] = delivered[e][i]
        /\ \A i \in 1..k : delivered'[e][read + i] = first[i]
    <3>1. /\ Len(delivered[e] \o first) = Len(delivered[e]) + Len(first)
          /\ \A i \in 1..Len(delivered[e]) : (delivered[e] \o first)[i] = delivered[e][i]
          /\ \A i \in 1..Len(first) : (delivered[e] \o first)[Len(delivered[e]) + i] = first[i]
      BY <1>4, <1>5, ConcatSeq
    <3> HIDE DEF first
    <3> QED BY <2>1, <3>1, <1>5 DEF read
  <2>3. ASSUME NEW i \in 1..read1 PROVE delivered'[e][i] = sent[i]
    <3>1. CASE i <= read
      BY <3>1, <2>2, <1>6, <1>8 DEF read1
    <3>2. CASE i > read
      <4> DEFINE j == i - read
      <4>1. j \in 1..k /\ i = read + j /\ j \in 1..Len(que)
        BY <3>2, <1>8 DEF read1
      <4> HIDE DEF j
      <4>2. delivered'[e][read + j] = que[j]
        BY <4>1, <2>2, <1>5
      <4> QED BY <4>1, <4>2, <1>6
    <3> QED BY <3>1, <3>2, <1>8 DEF read1
  <2> QED BY <2>2, <2>3 DEF read1
<1>13. /\ snd_buf' = snd_buf /\ snd_una' = snd_una /\ snd_nxt' = snd_nxt
       /\ numbered' = numbered /\ net' = net /\ acklist' = acklist
  BY <1>3 DEF sndVars
<1>14. ReceiverOK(e)'
  <2>1. acklist'[e] \subseteq Received(e)'
    BY <1>6, <1>11, <1>13
  <2> QED BY <2>1, <1>11, <1>12, <1>13 DEF ReceiverOK, p, sent
<1>15. Untouched(p)
  <2>1. rcv_queue'[p] = rcv_queue[p] /\ rcv_buf'[p] = rcv_buf[p] /\ rcv_nxt'[p] = rcv_nxt[p]
    BY <1>1, <1>3, <1>4, <1>5, MoveFacts DEF rest
  <2>2. delivered'[p] = delivered[p]
    BY <1>1, <1>3 DEF TypeOK
  <2> QED BY <2>1, <2>2, <1>13 DEF Untouched
<1>16. Advances(e)
  BY <1>4, <1>11, <1>13, EndpointTypes DEF Advances
<1>17. EndpointInv(e)'
  <2>1. SenderOK(e)'
    BY <1>2, <1>13 DEF EndpointInv, SenderOK
  <2>2. \A d \in net'[p] : DatagramOK(e, d)'
    <3> SUFFICES ASSUME NEW d \in net[p] PROVE DatagramOK(e, d)'
      BY <1>13
    <3>1. DatagramOK(e, d)
      BY <1>2 DEF EndpointInv, p
    <3>2. d.una \in Nat /\ rcv_nxt'[e] \in Nat
      BY <1>1 DEF TypeOK, IsDatagram
    <3>3. d.una <= rcv_nxt'[e]
      BY <3>1, <3>2, <1>4, <1>11 DEF DatagramOK
    <3> QED BY <3>1, <3>3, <1>11, <1>13 DEF DatagramOK
  <2>3. Received(p)' = Received(p)
    BY <1>15 DEF Received, Untouched
  <2>4. \A sn \in 0..(snd_nxt'[e] - 1) : sn \in DOMAIN snd_buf'[e] \/ sn \in Received(p)'
    BY <2>3, <1>2, <1>13 DEF EndpointInv, p
  <2>5. snd_nxt'[e] - snd_una'[e] <= SndWnd
    BY <1>2, <1>13 DEF EndpointInv
  <2> QED BY <2>1, <2>2, <2>4, <2>5, <1>11, <1>14 DEF EndpointInv, p
<1>18. ArqInv'
  BY <1>15, <1>16, <1>17, PeerKept DEF p
<1> QED BY <1>4, <1>11, <1>18, EndpointTypes DEF TypeOK

\* A segment that ikcp_input accepts lies within a window of the rcv_nxt that
\* ikcp_parse_data leaves behind, though the test was made against an earlier
\* rcv_nxt.
LEMMA AcceptedInWindow ==
    ASSUME TypeOK, NEW e \in EP, NEW d, IsDatagram(d),
           Len(rcv_queue[e]) <= RcvWnd,
           DOMAIN rcv_buf[e] \subseteq rcv_nxt[e]..(rcv_nxt[e] + RcvWnd - 1),
           NEW n \in 0..RcvWnd,
           Movable(rcv_nxt[e], ParseData(e, d), RcvWnd - Len(rcv_queue[e]), n),
           NEW sn \in DOMAIN ParseData(e, d)
    PROVE  sn < rcv_nxt[e] + n + RcvWnd
<1> DEFINE nxt == rcv_nxt[e]
           len == Len(rcv_queue[e])
           old == DOMAIN rcv_buf[e]
           dom == DOMAIN ParseData(e, d)
           push == DOMAIN d.push
<1>1. /\ nxt \in Nat /\ len \in Nat /\ RcvWnd \in Nat /\ n \in Nat /\ len <= RcvWnd
      /\ push \subseteq Nat /\ old \subseteq nxt..(nxt + RcvWnd - 1)
  <2>1. rcv_nxt[e] \in Nat /\ rcv_queue[e] \in Seq(Segment)
    BY EndpointTypes
  <2>2. DOMAIN d.push \subseteq Nat
    BY DEF IsDatagram, IsSnMap
  <2> QED BY <2>1, <2>2, WindowAssumption
<1>2. dom = old \cup {k \in push : InWindow(e, d, k) /\ k >= nxt}
  BY ParseDataFacts
<1>3. /\ n <= RcvWnd - len
      /\ n = RcvWnd - len \/ nxt + n \notin dom
  BY DEF Movable
<1>4. \A k \in push : InWindow(e, d, k) <=>
        \E m \in 0..(RcvWnd - len) :
            /\ \A i \in 0..(m - 1) : nxt + i \in old \cup {j \in push : j < k}
            /\ k < nxt + m + RcvWnd
  BY DEF InWindow
<1>5. sn \in dom
  OBVIOUS
<1> HIDE DEF nxt, len, old, dom, push
<1>6. CASE sn \in old
  BY <1>6, <1>1 DEF nxt
<1>7. CASE sn \in push /\ InWindow(e, d, sn)
  <2>1. PICK m \in 0..(RcvWnd - len) :
            /\ \A i \in 0..(m - 1) : nxt + i \in old \cup {j \in push : j < sn}
            /\ sn < nxt + m + RcvWnd
    BY <1>4, <1>7
  <2>2. ASSUME NEW i \in 0..(m - 1) PROVE nxt + i \in dom
    <3>1. nxt + i \in old \/ nxt + i \in push
      BY <2>1
    <3>2. CASE nxt + i \in push
      <4>1. nxt + i < nxt + 0 + RcvWnd /\ 0 \in 0..(RcvWnd - len) /\ nxt + i >= nxt
        BY <2>1, <1>1
      <4>2. \A j \in 0..(0 - 1) : nxt + j \in old \cup {l \in push : l < nxt + i}
        BY <1>1
      <4>3. InWindow(e, d, nxt + i)
        BY <3>2, <4>1, <4>2, <1>4
      <4> QED BY <3>2, <4>1, <4>3, <1>2
    <3> QED BY <3>1, <3>2, <1>2
  <2>3. m <= n
    <3>1. CASE n = RcvWnd - len
      BY <3>1, <2>1, <1>1
    <3>2. CASE nxt + n \notin dom
      <4>1. ~(n \in 0..(m - 1))
        BY <3>2, <2>2
      <4> QED BY <4>1, <2>1, <1>1
    <3> QED BY <3>1, <3>2, <1>3
  <2>4. sn \in Nat
    BY <1>1, <1>7
  <2>5. m \in Nat
    BY <2>1, <1>1
  <2> QED BY <2>1, <2>3, <2>4, <2>5, <1>1 DEF nxt
<1> QED BY <1>2, <1>5, <1>6, <1>7

\* ikcp_input, the acknowledgements: what the sender drops its peer holds, and
\* snd_una only advances.
LEMMA AckInv ==
    ASSUME TypeOK, ArqInv, NEW e \in EP, NEW d \in net[e], Input(e, d)
    PROVE  /\ snd_una'[e] \in snd_una[e]..snd_nxt[e]
           /\ DOMAIN snd_buf'[e] \subseteq snd_una'[e]..(snd_nxt[e] - 1)
           /\ \A sn \in DOMAIN snd_buf'[e] : Payload(snd_buf'[e][sn]) = numbered[e][sn + 1]
           /\ \A sn \in 0..(snd_nxt[e] - 1) :
                sn \in DOMAIN snd_buf'[e] \/ sn \in Received(Peer(e))
<1> DEFINE p == Peer(e)
           buf == Unacked(e, d)
           nxt == snd_nxt[e]
<1>1. p \in EP /\ p # e /\ Peer(p) = e /\ \A x \in EP : x = e \/ x = p
  BY PeerFacts
<1>2. EndpointInv(p) /\ EndpointInv(e)
  BY <1>1, ArqInvSplit
<1>3. PICK una \in 0..nxt :
        /\ ShrinkBuf(e, d, una)
        /\ snd_una' = [snd_una EXCEPT ![e] = una]
        /\ snd_buf' = [snd_buf EXCEPT ![e] = ParseFastack(buf, d.acks, una, nxt)]
  BY DEF Input
<1>4. /\ IsSnMap(buf, SndSegment)
      /\ DOMAIN buf = {k \in DOMAIN snd_buf[e] : k >= d.una /\ k \notin d.acks}
      /\ \A sn \in DOMAIN buf : buf[sn] = snd_buf[e][sn]
  BY UnackedFacts
<1> HIDE DEF buf
<1>5. /\ DOMAIN snd_buf'[e] = DOMAIN buf
      /\ \A sn \in DOMAIN buf : Payload(snd_buf'[e][sn]) = Payload(buf[sn])
      /\ snd_una'[e] = una
  <2>1. snd_buf'[e] = ParseFastack(buf, d.acks, una, nxt) /\ snd_una'[e] = una
    BY <1>3 DEF TypeOK
  <2> QED BY <2>1, <1>4, FastackFacts
<1>6. /\ snd_una[e] \in Nat /\ nxt \in Nat /\ snd_una[e] <= nxt
      /\ DOMAIN snd_buf[e] \subseteq snd_una[e]..(nxt - 1)
      /\ \A sn \in DOMAIN snd_buf[e] : Payload(snd_buf[e][sn]) = numbered[e][sn + 1]
  BY <1>2, EndpointTypes DEF EndpointInv, SenderOK
<1>7. \/ DOMAIN buf = {} /\ una = nxt
      \/ una \in DOMAIN buf /\ \A sn \in DOMAIN buf : una <= sn
  BY <1>3 DEF ShrinkBuf, buf
<1>8. una \in snd_una[e]..nxt
  BY <1>4, <1>6, <1>7
<1>9. DOMAIN buf \subseteq una..(nxt - 1)
  BY <1>4, <1>6, <1>7, <1>8
<1>10. \A sn \in DOMAIN buf : Payload(snd_buf'[e][sn]) = numbered[e][sn + 1]
  BY <1>4, <1>5, <1>6
<1>11. DatagramOK(p, d) /\ IsDatagram(d) /\ rcv_nxt[p] \in Nat
  BY <1>1, <1>2, EndpointTypes DEF EndpointInv, TypeOK
<1>12. ASSUME NEW sn \in 0..(nxt - 1) PROVE sn \in DOMAIN buf \/ sn \in Received(p)
  <2>1. CASE sn < d.una
    <3>1. d.una \in Nat /\ d.una <= rcv_nxt[p]
      BY <1>11 DEF DatagramOK, IsDatagram
    <3>2. sn \in 0..(rcv_nxt[p] - 1)
      BY <2>1, <3>1, <1>6, <1>11
    <3> QED BY <3>2 DEF Received
  <2>2. CASE sn \in d.acks
    BY <2>2, <1>11 DEF DatagramOK
  <2>3. CASE ~(sn < d.una) /\ sn \notin d.acks
    <3>1. sn >= d.una
      BY <2>3, <1>6, <1>11 DEF IsDatagram
    <3>2. sn \in DOMAIN snd_buf[e] \/ sn \in Received(p)
      BY <1>2 DEF EndpointInv
    <3> QED BY <2>3, <3>1, <3>2, <1>4
  <2> QED BY <2>1, <2>2, <2>3
<1> QED BY <1>5, <1>8, <1>9, <1>10, <1>12

\* ikcp_input of a datagram preserves the invariant.
LEMMA DeliverInv ==
    ASSUME TypeOK, TypeOK', ArqInv, NEW e \in EP, NEW d \in net[e], Deliver(e, d)
    PROVE  ArqInv' /\ rcv_nxt'[e] >= rcv_nxt[e] /\ snd_una'[e] >= snd_una[e]
<1> DEFINE p == Peer(e)
           sent == numbered[p]
           read == Len(delivered[e])
           buf == ParseData(e, d)
<1>1. p \in EP /\ p # e /\ Peer(p) = e /\ \A x \in EP : x = e \/ x = p
  BY PeerFacts
<1>2. EndpointInv(p) /\ EndpointInv(e) /\ Input(e, d)
  BY <1>1, ArqInvSplit DEF Deliver
<1>3. DatagramOK(p, d) /\ IsDatagram(d)
  BY <1>1, <1>2 DEF EndpointInv, TypeOK
<1>4. /\ rcv_nxt[e] = read + Len(rcv_queue[e]) /\ rcv_nxt[e] <= snd_nxt[p]
      /\ \A i \in 1..read : delivered[e][i] = sent[i]
      /\ \A i \in 1..Len(rcv_queue[e]) : rcv_queue[e][i] = sent[read + i]
      /\ \A sn \in DOMAIN rcv_buf[e] : sn < snd_nxt[p] /\ rcv_buf[e][sn] = sent[sn + 1]
      /\ acklist[e] \subseteq Received(e)
  BY <1>2 DEF EndpointInv, ReceiverOK
<1>5. /\ Len(rcv_queue[e]) <= RcvWnd
      /\ DOMAIN rcv_buf[e] \subseteq rcv_nxt[e]..(rcv_nxt[e] + RcvWnd - 1)
  BY <1>2 DEF EndpointInv
<1>6. /\ rcv_queue[e] \in Seq(Segment) /\ delivered[e] \in Seq(Segment)
      /\ rcv_nxt[e] \in Nat /\ snd_nxt[p] \in Nat /\ snd_nxt[e] \in Nat
      /\ snd_una[e] \in Nat /\ RcvWnd \in Nat
  BY <1>1, EndpointTypes, WindowAssumption
<1>7. read \in Nat /\ Len(rcv_queue[e]) \in Nat
  BY <1>6
<1>8. /\ IsSnMap(buf, Segment)
      /\ DOMAIN buf = DOMAIN rcv_buf[e] \cup
            {sn \in DOMAIN d.push : InWindow(e, d, sn) /\ sn >= rcv_nxt[e]}
      /\ \A sn \in DOMAIN buf : buf[sn] = IF sn \in DOMAIN rcv_buf[e] THEN rcv_buf[e][sn]
                                          ELSE d.push[sn]
  BY <1>3, ParseDataFacts
<1>9. \A n \in 0..RcvWnd : Movable(rcv_nxt[e], buf, RcvWnd - Len(rcv_queue[e]), n)
            => \A sn \in DOMAIN buf : sn < rcv_nxt[e] + n + RcvWnd
  BY <1>3, <1>5, AcceptedInWindow
<1>10. MoveAvailable(e, rcv_queue[e], buf)
  BY <1>2 DEF Input
<1> HIDE DEF p, sent, read, buf
<1>11. MoveDone(e, buf, read)
  <2>1. \A sn \in DOMAIN buf : sn >= rcv_nxt[e] /\ sn < snd_nxt[p] /\ buf[sn] = sent[sn + 1]
    <3> TAKE sn \in DOMAIN buf
    <3>1. CASE sn \in DOMAIN rcv_buf[e]
      BY <3>1, <1>4, <1>5, <1>6, <1>8
    <3>2. CASE sn \notin DOMAIN rcv_buf[e]
      BY <3>2, <1>3, <1>8 DEF DatagramOK, sent
    <3> QED BY <3>1, <3>2
  <2>2. MoveReady(e, rcv_queue[e], buf, read)
    BY <2>1, <1>4, <1>5, <1>6, <1>7, <1>8, <1>9 DEF MoveReady, p, sent
  <2> QED BY <2>2, <1>6, <1>7, <1>8, <1>10, MoveOK
<1>12. /\ rcv_nxt'[e] = read + Len(rcv_queue'[e])
       /\ rcv_nxt[e] <= rcv_nxt'[e]
       /\ rcv_nxt'[e] <= snd_nxt[p]
       /\ \A i \in 1..Len(rcv_queue'[e]) : rcv_queue'[e][i] = sent[read + i]
       /\ \A sn \in DOMAIN rcv_buf'[e] : sn < snd_nxt[p] /\ rcv_buf'[e][sn] = sent[sn + 1]
       /\ Received(e) \subseteq Received(e)'
       /\ DOMAIN buf \subseteq Received(e)'
       /\ Len(rcv_queue'[e]) <= RcvWnd
       /\ DOMAIN rcv_buf'[e] \subseteq rcv_nxt'[e]..(rcv_nxt'[e] + RcvWnd - 1)
       /\ rcv_nxt'[e] \in DOMAIN rcv_buf'[e] => Len(rcv_queue'[e]) = RcvWnd
  BY <1>11 DEF MoveDone, p, sent
<1>13. snd_nxt' = snd_nxt /\ numbered' = numbered /\ delivered' = delivered
  BY <1>2 DEF Input, histVars
<1>14. /\ snd_una'[p] = snd_una[p] /\ snd_buf'[p] = snd_buf[p] /\ acklist'[p] = acklist[p]
       /\ acklist'[e] = acklist[e] \cup {sn \in DOMAIN d.push : InWindow(e, d, sn)}
  BY <1>1, <1>2 DEF Input, TypeOK
<1>15. net'[e] \subseteq net[e] /\ net'[p] = net[p]
  <2>1. net = [x \in EP |-> net[x]]
    BY DEF TypeOK
  <2>2. CASE net' = net
    BY <2>2
  <2>3. CASE net' = [net EXCEPT ![e] = @ \ {d}]
    BY <2>1, <2>3, <1>1
  <2> QED BY <2>2, <2>3 DEF Deliver
<1>16. Untouched(p)
  <2>1. rcv_queue'[p] = rcv_queue[p] /\ rcv_buf'[p] = rcv_buf[p] /\ rcv_nxt'[p] = rcv_nxt[p]
    BY <1>1, <1>6, <1>8, <1>10, MoveFacts
  <2> QED BY <2>1, <1>13, <1>14 DEF Untouched
<1>17. Advances(e)
  BY <1>6, <1>12, <1>13, <1>15 DEF Advances
<1>18. acklist'[e] \subseteq Received(e)'
  <2> SUFFICES ASSUME NEW sn \in acklist'[e] PROVE sn \in Received(e)'
    OBVIOUS
  <2>1. CASE sn \in acklist[e]
    BY <2>1, <1>4, <1>12
  <2>2. CASE sn \in DOMAIN d.push /\ InWindow(e, d, sn)
    <3>1. sn \in Nat
      BY <2>2, <1>3 DEF IsDatagram, IsSnMap
    <3>2. CASE sn >= rcv_nxt[e]
      BY <3>2, <2>2, <1>8, <1>12
    <3>3. CASE sn < rcv_nxt[e]
      <4>1. sn \in Received(e)
        BY <3>1, <3>3, <1>6 DEF Received
      <4> QED BY <4>1, <1>12
    <3> QED BY <3>1, <3>2, <3>3, <1>6
  <2> QED BY <2>1, <2>2, <1>14
<1>19. ReceiverOK(e)'
  BY <1>4, <1>12, <1>13, <1>18 DEF ReceiverOK, p, sent, read
<1>20. /\ snd_una'[e] \in snd_una[e]..snd_nxt[e]
       /\ DOMAIN snd_buf'[e] \subseteq snd_una'[e]..(snd_nxt[e] - 1)
       /\ \A sn \in DOMAIN snd_buf'[e] : Payload(snd_buf'[e][sn]) = numbered[e][sn + 1]
       /\ \A sn \in 0..(snd_nxt[e] - 1) :
                sn \in DOMAIN snd_buf'[e] \/ sn \in Received(p)
  BY <1>2, AckInv DEF p
<1>21. SenderOK(e)'
  <2>1. snd_nxt[e] = Len(numbered[e])
    BY <1>2 DEF EndpointInv, SenderOK
  <2> QED BY <2>1, <1>6, <1>13, <1>20 DEF SenderOK
<1>22. EndpointInv(e)'
  <2>1. \A c \in net'[p] : DatagramOK(e, c)'
    <3> SUFFICES ASSUME NEW c \in net[p] PROVE DatagramOK(e, c)'
      BY <1>15
    <3>1. DatagramOK(e, c)
      BY <1>2 DEF EndpointInv, p
    <3>2. c.una \in Nat /\ rcv_nxt'[e] \in Nat
      BY <1>1 DEF TypeOK, IsDatagram
    <3>3. c.una <= rcv_nxt'[e]
      BY <3>1, <3>2, <1>6, <1>12 DEF DatagramOK
    <3> QED BY <3>1, <3>3, <1>12, <1>13 DEF DatagramOK
  <2>2. Received(p)' = Received(p)
    BY <1>16 DEF Received, Untouched
  <2>3. \A sn \in 0..(snd_nxt'[e] - 1) : sn \in DOMAIN snd_buf'[e] \/ sn \in Received(p)'
    BY <2>2, <1>13, <1>20
  <2>4. snd_nxt'[e] - snd_una'[e] <= SndWnd
    <3>1. snd_nxt[e] - snd_una[e] <= SndWnd /\ SndWnd \in Nat
      BY <1>2, WindowAssumption DEF EndpointInv
    <3> QED BY <3>1, <1>6, <1>13, <1>20
  <2> QED BY <2>1, <2>3, <2>4, <1>12, <1>19, <1>21 DEF EndpointInv, p
<1>23. ArqInv'
  BY <1>16, <1>17, <1>22, PeerKept DEF p
<1>24. rcv_nxt'[e] \in Nat
  BY DEF TypeOK
<1> QED BY <1>6, <1>12, <1>20, <1>23, <1>24

\* ikcp_flush preserves the invariant: it numbers the queued segments in order
\* and sends only what it holds, and it acknowledges only what it received.
LEMMA FlushInv ==
    ASSUME TypeOK, TypeOK', ArqInv, NEW e \in EP, NEW due \in BOOLEAN, NEW expired,
           expired \subseteq Transmitted(e), Flush(e, due, expired, FALSE)
    PROVE  ArqInv' /\ rcv_nxt' = rcv_nxt /\ snd_una' = snd_una
<1> DEFINE p == Peer(e)
           n == MoveCount(e)
           nxt == snd_nxt[e]
           old == numbered[e]
           new == numbered'[e]
           buf == Numbered(e, n)
           wask == ProbeDue(e, due)
           fast == FastResendable(buf, expired)
           send == {sn \in DOMAIN buf : buf[sn].xmit = 0} \cup expired \cup fast
           done == Transmit(buf, send, fast)
<1>1. p \in EP /\ p # e /\ Peer(p) = e /\ \A x \in EP : x = e \/ x = p
  BY PeerFacts
<1>2. EndpointInv(e)
  BY ArqInvSplit
<1>3. /\ Output(e, Datagrams(e, wask, buf, send), FALSE)
      /\ snd_nxt' = [snd_nxt EXCEPT ![e] = nxt + n]
      /\ snd_buf' = [snd_buf EXCEPT ![e] = done]
      /\ numbered' = [numbered EXCEPT ![e] = @ \o SubSeq(snd_queue[e], 1, n)]
      /\ acklist' = [acklist EXCEPT ![e] = {}]
      /\ UNCHANGED <<snd_una, rcv_nxt, rcv_buf, rcv_queue, delivered>>
  BY DEF Flush
<1>4. n \in 0..Len(snd_queue[e]) /\ (n > 0 => nxt + n <= snd_una[e] + SndWnd)
  <2>1. /\ n \in 0..Len(snd_queue[e]) /\ Window(e) \in 0..SndWnd /\ SndWnd \in Nat
        /\ n > 0 => nxt + n <= snd_una[e] + Window(e)
    BY MoveCountFacts, WindowAssumption
  <2>2. nxt \in Nat /\ snd_una[e] \in Nat /\ snd_queue[e] \in Seq(Segment)
    BY EndpointTypes
  <2> HIDE DEF n, nxt
  <2> QED BY <2>1, <2>2
<1>5. /\ IsSnMap(buf, SndSegment)
      /\ DOMAIN buf = DOMAIN snd_buf[e] \cup nxt..(nxt + n - 1)
      /\ \A sn \in DOMAIN snd_buf[e] : buf[sn] = snd_buf[e][sn]
      /\ \A sn \in nxt..(nxt + n - 1) \ DOMAIN snd_buf[e] :
            Payload(buf[sn]) = snd_queue[e][sn - nxt + 1]
  BY <1>4, NumberedFacts
<1>6. send \subseteq DOMAIN buf /\ wask \in BOOLEAN
  BY <1>5 DEF Transmitted, FastResendable, ProbeDue
<1>7. DOMAIN done = DOMAIN buf /\ \A sn \in DOMAIN buf : Payload(done[sn]) = Payload(buf[sn])
  BY <1>5, TransmitFacts
<1>8. \A d \in Datagrams(e, wask, buf, send) :
        /\ d.una = rcv_nxt[e] /\ d.acks \subseteq acklist[e]
        /\ DOMAIN d.push \subseteq send
        /\ \A sn \in DOMAIN d.push : d.push[sn] = Payload(buf[sn])
  BY <1>5, <1>6, DatagramFacts
<1> HIDE DEF n, buf, wask, fast, send, done
<1>9. /\ nxt \in Nat /\ snd_una[e] \in Nat /\ n \in Nat /\ SndWnd \in Nat
      /\ snd_queue[e] \in Seq(Segment) /\ old \in Seq(Segment)
      /\ Len(old) = nxt /\ snd_una[e] <= nxt /\ nxt - snd_una[e] <= SndWnd
      /\ DOMAIN snd_buf[e] \subseteq snd_una[e]..(nxt - 1)
      /\ \A sn \in DOMAIN snd_buf[e] : Payload(snd_buf[e][sn]) = old[sn + 1]
  BY <1>2, <1>4, EndpointTypes, WindowAssumption DEF EndpointInv, SenderOK
<1>10. /\ new = old \o SubSeq(snd_queue[e], 1, n) /\ snd_nxt'[e] = nxt + n
       /\ snd_buf'[e] = done
  BY <1>3 DEF TypeOK
<1>11. /\ Len(new) = nxt + n
       /\ \A i \in 1..nxt : new[i] = old[i]
       /\ \A i \in 1..n : new[nxt + i] = snd_queue[e][i]
  <2> DEFINE tail == SubSeq(snd_queue[e], 1, n)
  <2>1. tail \in Seq(Segment) /\ Len(tail) = n /\ \A i \in 1..n : tail[i] = snd_queue[e][i]
    BY <1>4, <1>9, SplitSeq
  <2>2. new = old \o tail
    BY <1>10
  <2> HIDE DEF tail, old, new, nxt
  <2>3. Len(old \o tail) = nxt + n /\ \A i \in 1..nxt : (old \o tail)[i] = old[i]
    BY <2>1, <1>9, ConcatSeq
  <2>4. \A i \in 1..n : (old \o tail)[nxt + i] = tail[i]
    BY <2>1, <1>9, ConcatSeq
  <2> QED BY <2>1, <2>2, <2>3, <2>4
<1> HIDE DEF p, nxt, old, new
<1>0. snd_nxt'[e] = nxt + n /\ snd_buf'[e] = done /\ snd_una'[e] = snd_una[e]
  <2>1. snd_una' = snd_una
    BY <1>3
  <2> QED BY <1>10, <2>1
<1>12. \A sn \in DOMAIN buf : /\ sn \in snd_una[e]..(nxt + n - 1)
                              /\ Payload(buf[sn]) = new[sn + 1]
  <2> TAKE sn \in DOMAIN buf
  <2>1. CASE sn \in DOMAIN snd_buf[e]
    <3>1. sn + 1 \in 1..nxt /\ sn \in snd_una[e]..(nxt + n - 1)
      BY <2>1, <1>9
    <3>2. Payload(buf[sn]) = old[sn + 1]
      BY <2>1, <1>5, <1>9
    <3> QED BY <3>1, <3>2, <1>11
  <2>2. CASE sn \in nxt..(nxt + n - 1) \ DOMAIN snd_buf[e]
    <3> DEFINE i == sn - nxt + 1
    <3>1. i \in 1..n /\ sn + 1 = nxt + i /\ sn \in snd_una[e]..(nxt + n - 1)
      BY <2>2, <1>9
    <3>2. Payload(buf[sn]) = snd_queue[e][i]
      BY <2>2, <1>5
    <3> HIDE DEF i
    <3>3. new[nxt + i] = snd_queue[e][i]
      BY <3>1, <1>11
    <3> QED BY <3>1, <3>2, <3>3
  <2> QED BY <2>1, <2>2, <1>5
<1>13. rcv_nxt' = rcv_nxt /\ rcv_buf' = rcv_buf /\ rcv_queue' = rcv_queue
       /\ delivered' = delivered /\ snd_una' = snd_una
  BY <1>3
<1>14. Received(e)' = Received(e) /\ Received(p)' = Received(p)
  BY <1>13 DEF Received
<1>15. PICK kept \in SUBSET Datagrams(e, wask, buf, send) :
            net' = [net EXCEPT ![p] = @ \cup kept]
  BY <1>3 DEF Output, p
<1>16. net'[e] = net[e] /\ net'[p] = net[p] \cup kept
  <2>1. net = [x \in EP |-> net[x]]
    BY DEF TypeOK
  <2> QED BY <2>1, <1>1, <1>15
<1>17. Untouched(p)
  <2>1. snd_buf'[p] = snd_buf[p] /\ snd_nxt'[p] = snd_nxt[p] /\ numbered'[p] = numbered[p]
        /\ acklist'[p] = acklist[p]
    BY <1>1, <1>3 DEF TypeOK
  <2> QED BY <2>1, <1>13 DEF Untouched
<1>18. Advances(e)
  BY <1>9, <1>10, <1>11, <1>14, <1>16 DEF Advances, nxt, old, new
<1>19. SenderOK(e)'
  <2>1. DOMAIN done \subseteq snd_una[e]..(nxt + n - 1)
    BY <1>7, <1>12
  <2>2. \A sn \in DOMAIN done : Payload(done[sn]) = new[sn + 1]
    BY <1>7, <1>12
  <2>3. snd_una[e] <= nxt + n
    BY <1>9
  <2>4. snd_nxt'[e] = Len(numbered'[e]) /\ snd_una'[e] <= snd_nxt'[e]
    BY <2>3, <1>0, <1>11 DEF new
  <2>5. DOMAIN snd_buf'[e] \subseteq snd_una'[e]..(snd_nxt'[e] - 1)
    BY <2>1, <1>0, <1>9
  <2>6. \A sn \in DOMAIN snd_buf'[e] : Payload(snd_buf'[e][sn]) = numbered'[e][sn + 1]
    BY <2>2, <1>0 DEF new
  <2> QED BY <2>4, <2>5, <2>6 DEF SenderOK
<1>20. ReceiverOK(e)'
  <2>1. numbered'[p] = numbered[p] /\ snd_nxt'[p] = snd_nxt[p]
    BY <1>17 DEF Untouched
  <2>2. acklist'[e] = {}
    BY <1>3 DEF TypeOK
  <2> QED BY <2>1, <2>2, <1>2, <1>13 DEF EndpointInv, ReceiverOK, p
<1>21. \A d \in net'[p] : DatagramOK(e, d)'
  <2> TAKE d \in net'[p]
  <2>1. CASE d \in net[p]
    <3>1. DatagramOK(e, d) /\ DOMAIN d.push \subseteq Nat
      BY <2>1, <1>1, <1>2 DEF EndpointInv, p, TypeOK, IsDatagram, IsSnMap
    <3>2. ASSUME NEW sn \in DOMAIN d.push
          PROVE  sn < nxt + n /\ d.push[sn] = new[sn + 1]
      <4>1. sn \in Nat /\ sn < nxt /\ d.push[sn] = old[sn + 1]
        BY <3>1 DEF DatagramOK, nxt, old
      <4>2. sn + 1 \in 1..nxt /\ sn < nxt + n
        BY <4>1, <1>9
      <4> QED BY <4>1, <4>2, <1>11
    <3> QED BY <3>1, <3>2, <1>10, <1>13, <1>14 DEF DatagramOK, new
  <2>2. CASE d \in kept
    <3>1. /\ d.una = rcv_nxt[e] /\ d.acks \subseteq acklist[e]
          /\ DOMAIN d.push \subseteq send
          /\ \A sn \in DOMAIN d.push : d.push[sn] = Payload(buf[sn])
      BY <2>2, <1>8
    <3>2. ASSUME NEW sn \in DOMAIN d.push
          PROVE  sn < nxt + n /\ d.push[sn] = new[sn + 1]
      <4>1. sn \in DOMAIN buf
        BY <3>1, <1>6
      <4> QED BY <4>1, <3>1, <1>9, <1>12
    <3>3. d.acks \subseteq Received(e)
      BY <3>1, <1>2 DEF EndpointInv, ReceiverOK
    <3>4. d.una <= rcv_nxt[e]
      BY <3>1, EndpointTypes
    <3> QED BY <3>2, <3>3, <3>4, <1>10, <1>13, <1>14 DEF DatagramOK, new
  <2> QED BY <2>1, <2>2, <1>16
<1>22. \A sn \in 0..(nxt + n - 1) : sn \in DOMAIN done \/ sn \in Received(p)
  <2> TAKE sn \in 0..(nxt + n - 1)
  <2>1. CASE sn < nxt
    <3>1. sn \in 0..(nxt - 1)
      BY <2>1, <1>9
    <3>2. sn \in DOMAIN snd_buf[e] \/ sn \in Received(p)
      BY <3>1, <1>2 DEF EndpointInv, p, nxt
    <3> QED BY <3>2, <1>5, <1>7
  <2>2. CASE sn >= nxt
    BY <2>2, <1>5, <1>7, <1>9
  <2> QED BY <2>1, <2>2, <1>9
<1>23. nxt + n - snd_una[e] <= SndWnd
  BY <1>4, <1>9
<1>24. EndpointInv(e)'
  <2>1. \A sn \in 0..(snd_nxt'[e] - 1) : sn \in DOMAIN snd_buf'[e] \/ sn \in Received(p)'
    BY <1>0, <1>9, <1>14, <1>22
  <2>2. snd_nxt'[e] - snd_una'[e] <= SndWnd
    BY <1>0, <1>9, <1>23
  <2> QED BY <2>1, <2>2, <1>2, <1>13, <1>19, <1>20, <1>21 DEF EndpointInv, p
<1> QED BY <1>13, <1>17, <1>18, <1>24, PeerKept DEF p

\* ikcp_create leaves two endpoints that satisfy the invariant.
LEMMA InitInv == Init => TypeOK /\ ArqInv
<1> SUFFICES ASSUME Init PROVE TypeOK /\ ArqInv
  OBVIOUS
<1>1. TypeOK
  <2>1. \A x : IsSnMap(<<>>, x)
    BY DEF IsSnMap
  <2> QED BY <2>1, WindowAssumption DEF Init, TypeOK, IKCP_THRESH_MIN
<1>2. ASSUME NEW e \in EP PROVE EndpointInv(e)
  <2>1. Peer(e) \in EP
    BY PeerFacts
  <2>2. SenderOK(e)
    BY DEF Init, SenderOK
  <2>3. ReceiverOK(e)
    BY <2>1 DEF Init, ReceiverOK
  <2> QED BY <2>1, <2>2, <2>3, WindowAssumption DEF Init, EndpointInv
<1> QED BY <1>1, <1>2, ArqInvSplit

\* Every step preserves the invariant and never takes snd_una or rcv_nxt back.
LEMMA StepInv ==
    TypeOK /\ TypeOK' /\ ArqInv /\ [Next]_vars =>
        /\ ArqInv'
        /\ \A e \in EP : snd_una'[e] >= snd_una[e] /\ rcv_nxt'[e] >= rcv_nxt[e]
<1> SUFFICES ASSUME TypeOK, TypeOK', ArqInv, [Next]_vars
    PROVE  /\ ArqInv'
           /\ \A e \in EP : snd_una'[e] >= snd_una[e] /\ rcv_nxt'[e] >= rcv_nxt[e]
  OBVIOUS
<1> DEFINE Goal == /\ ArqInv'
                   /\ \A e \in EP : snd_una'[e] >= snd_una[e] /\ rcv_nxt'[e] >= rcv_nxt[e]
<1>0. \A x \in EP : snd_una[x] \in Nat /\ rcv_nxt[x] \in Nat
  BY EndpointTypes
<1>1. ASSUME UNCHANGED <<snd_buf, snd_una, snd_nxt, rcvVars, net, numbered, delivered>>
      PROVE  Goal
  <2>1. ArqInv'
    BY <1>1, ZenonT(30) DEF ArqInv, SenderOK, ReceiverOK, DatagramOK, Received, rcvVars,
                NothingForgotten, ReceiveBounded, NothingStuck, InFlightBounded
  <2> QED BY <2>1, <1>0, <1>1 DEF rcvVars
<1>2. ASSUME NEW e \in EP, NEW len \in Lens, Send(e, len) PROVE Goal
  BY <1>1, <1>2 DEF Send
<1>3. ASSUME NEW e \in EP, Recv(e) PROVE Goal
  <2>1. ArqInv' /\ rcv_nxt'[e] >= rcv_nxt[e] /\ snd_una' = snd_una
    BY <1>3, RecvInv DEF Recv, sndVars
  <2>2. \A x \in EP : x # e => rcv_nxt'[x] = rcv_nxt[x]
    BY <1>3 DEF Recv, MoveAvailable, TypeOK
  <2> QED BY <2>1, <2>2, <1>0
<1>4. ASSUME NEW e \in EP, NEW d \in net[e], Deliver(e, d) PROVE Goal
  <2>1. ArqInv' /\ rcv_nxt'[e] >= rcv_nxt[e] /\ snd_una'[e] >= snd_una[e]
    BY <1>4, DeliverInv
  <2>2. \A x \in EP : x # e => rcv_nxt'[x] = rcv_nxt[x] /\ snd_una'[x] = snd_una[x]
    BY <1>4 DEF Deliver, Input, MoveAvailable, TypeOK
  <2> QED BY <2>1, <2>2, <1>0
<1>5. ASSUME NEW e \in EP, FlushStep(e) PROVE Goal
  <2>1. ArqInv' /\ rcv_nxt' = rcv_nxt /\ snd_una' = snd_una
    BY <1>5, FlushInv DEF FlushStep
  <2> QED BY <2>1, <1>0
<1>6. CASE UNCHANGED vars
  <2>1. UNCHANGED <<snd_buf, snd_una, snd_nxt, rcvVars, net, numbered, delivered>>
    BY <1>6 DEF vars, sndVars, histVars
  <2> QED BY <1>1, <2>1
<1> HIDE DEF Goal
<1>7. ASSUME Next PROVE Goal
  <2>1. PICK e \in EP : \/ \E len \in Lens : Send(e, len)
                        \/ Recv(e)
                        \/ \E d \in net[e] : Deliver(e, d)
                        \/ FlushStep(e)
    BY <1>7 DEF Next
  <2> QED BY <2>1, <1>2, <1>3, <1>4, <1>5
<1> QED BY <1>6, <1>7 DEF Goal

\* The protocol invariant holds in every reachable state of ikcp.c's endpoints,
\* whatever the network loses, repeats or reorders.
THEOREM ArqCorrect == Spec => []ArqInv
<1>1. Init => ArqInv
  BY InitInv
<1>2. TypeOK /\ TypeOK' /\ ArqInv /\ [Next]_vars => ArqInv'
  BY StepInv
<1> QED BY <1>1, <1>2, TypeCorrect, PTL DEF Spec

\* A segment leaves snd_buf (ikcp_parse_una, ikcp_parse_ack) only when the peer
\* holds it.
THEOREM NothingForgottenHolds == Spec => []NothingForgotten
<1>1. ArqInv => NothingForgotten
  BY DEF ArqInv
<1> QED BY <1>1, ArqCorrect, PTL

\* ikcp_recv hands the peer's segments to the application in the order in which
\* ikcp_flush numbered them, each once, without a gap.
THEOREM InOrderDeliveryHolds == Spec => []InOrderDelivery
<1>1. TypeOK /\ ArqInv => InOrderDelivery
  <2> SUFFICES ASSUME TypeOK, ArqInv, NEW e \in EP
      PROVE  /\ Len(delivered[Peer(e)]) <= Len(numbered[e])
             /\ \A i \in 1..Len(delivered[Peer(e)]) : delivered[Peer(e)][i] = numbered[e][i]
    BY DEF InOrderDelivery
  <2>1. Peer(e) \in EP /\ Peer(Peer(e)) = e
    BY PeerFacts
  <2>2. ReceiverOK(Peer(e)) /\ SenderOK(e)
    BY <2>1 DEF ArqInv
  <2>3. Len(delivered[Peer(e)]) \in Nat /\ Len(rcv_queue[Peer(e)]) \in Nat
        /\ snd_nxt[e] \in Nat
    <3>1. delivered[Peer(e)] \in Seq(Segment) /\ rcv_queue[Peer(e)] \in Seq(Segment)
          /\ snd_nxt[e] \in Nat
      BY <2>1, EndpointTypes
    <3> QED BY <3>1
  <2>4. /\ rcv_nxt[Peer(e)] = Len(delivered[Peer(e)]) + Len(rcv_queue[Peer(e)])
        /\ rcv_nxt[Peer(e)] <= snd_nxt[e]
        /\ \A i \in 1..Len(delivered[Peer(e)]) : delivered[Peer(e)][i] = numbered[e][i]
    BY <2>1, <2>2 DEF ReceiverOK
  <2>5. snd_nxt[e] = Len(numbered[e])
    BY <2>2 DEF SenderOK
  <2>6. Len(delivered[Peer(e)]) <= Len(numbered[e])
    <3> DEFINE read == Len(delivered[Peer(e)])
               left == Len(rcv_queue[Peer(e)])
               nxt == rcv_nxt[Peer(e)]
               len == Len(numbered[e])
    <3>1. read \in Nat /\ left \in Nat /\ len \in Nat /\ nxt = read + left /\ nxt <= len
      BY <2>3, <2>4, <2>5
    <3> HIDE DEF read, left, nxt, len
    <3>2. read <= len
      BY <3>1
    <3> QED BY <3>2 DEF read, len
  <2> QED BY <2>4, <2>6, Zenon
<1> QED BY <1>1, ArqCorrect, TypeCorrect, PTL

\* rcv_queue never holds more than rcv_wnd segments, rcv_buf none beyond it.
THEOREM ReceiveBoundedHolds == Spec => []ReceiveBounded
<1>1. ArqInv => ReceiveBounded
  BY DEF ArqInv
<1> QED BY <1>1, ArqCorrect, PTL

\* No readable segment is left behind in rcv_buf while rcv_queue has room.
THEOREM NothingStuckHolds == Spec => []NothingStuck
<1>1. ArqInv => NothingStuck
  BY DEF ArqInv
<1> QED BY <1>1, ArqCorrect, PTL

\* ikcp_flush never has more than snd_wnd segments unacknowledged.
THEOREM InFlightBoundedHolds == Spec => []InFlightBounded
<1>1. ArqInv => InFlightBounded
  BY DEF ArqInv
<1> QED BY <1>1, ArqCorrect, PTL

\* Neither an old acknowledgement nor an old datagram takes snd_una or rcv_nxt
\* back (ikcp_shrink_buf, ikcp_parse_data).
THEOREM ProgressKeptHolds == Spec => ProgressKept
<1>1. TypeOK /\ TypeOK' /\ ArqInv /\ [Next]_vars =>
        [\A e \in EP : snd_una'[e] >= snd_una[e] /\ rcv_nxt'[e] >= rcv_nxt[e]]_vars
  BY StepInv
<1> QED BY <1>1, ArqCorrect, TypeCorrect, PTL DEF Spec, ProgressKept

-----------------------------------------------------------------------------
(* The congestion window.                                                  *)

\* CwndTracksIncr for one endpoint.
InStep(c, i) == (c - 1) * Mss < i /\ i < (c + 1) * Mss

\* A window that is set together with its size in bytes is in step.
LEMMA InStepExact ==
    ASSUME NEW c \in Nat
    PROVE  InStep(c, c * Mss)
<1>1. Mss \in Nat /\ Mss > 0
  BY MssType
<1>2. (c - 1) * Mss = c * Mss - Mss /\ (c + 1) * Mss = c * Mss + Mss /\ c * Mss \in Nat
  BY <1>1
<1>. QED  BY <1>1, <1>2 DEF InStep

\* A dividend is its quotient times the divisor, and a rest.
LEMMA DivRest ==
    \A a \in Nat, m \in Nat \ {0} : \E r \in 0..(m - 1) : a = (a \div m) * m + r
OBVIOUS

\* So is one rounded up from the bytes.
LEMMA InStepRounded ==
    ASSUME NEW i \in Nat
    PROVE  (i + Mss - 1) \div Mss \in Nat /\ InStep((i + Mss - 1) \div Mss, i)
<1>1. Mss \in Nat \ {0} /\ i + Mss - 1 \in Nat
  BY MssType
<1>2. PICK q \in Nat : q = (i + Mss - 1) \div Mss
  BY <1>1, DivNat
<1>3. PICK r \in 0..(Mss - 1) : i + Mss - 1 = q * Mss + r
  <2>1. \E r \in 0..(Mss - 1) : i + Mss - 1 = ((i + Mss - 1) \div Mss) * Mss + r
    BY <1>1, DivRest
  <2>. QED  BY <1>2, <2>1
<1>4. (q - 1) * Mss = q * Mss - Mss /\ (q + 1) * Mss = q * Mss + Mss /\ q * Mss \in Nat
  BY <1>1
<1>5. InStep(q, i)
  BY <1>1, <1>3, <1>4 DEF InStep
<1>. QED  BY <1>2, <1>5

\* ikcp_input keeps them in step: in slow start, in congestion avoidance, where
\* incr may grow without cwnd, and at the remote window.
LEMMA GrowInStep ==
    ASSUME NEW c \in Nat, NEW i \in Nat, NEW t \in Nat, NEW w \in Nat, InStep(c, i)
    PROVE  InStep(GrowCwnd(c, i, t, w).cwnd, GrowCwnd(c, i, t, w).incr)
<1>1. Mss \in Nat \ {0}
  BY MssType
<1>2. PICK m \in Nat \ {0} : m = Maximum(i, Mss) /\ m >= i
  BY <1>1 DEF Maximum
<1>3. PICK j \in Nat : j = m + (Mss * Mss) \div m + Mss \div 16 /\ j >= i
  <2>1. (Mss * Mss) \div m \in Nat /\ Mss \div 16 \in Nat
    BY <1>1, DivNat
  <2>. QED  BY <1>2, <2>1
<1>4. (c - 1) * Mss = c * Mss - Mss /\ (c + 1) * Mss = c * Mss + Mss /\ c * Mss \in Nat
         /\ (c + 2) * Mss = c * Mss + Mss + Mss
  BY <1>1
<1>5. CASE c >= w
  BY <1>5 DEF GrowCwnd
<1>6. InStep(w, w * Mss)
  BY InStepExact
<1>7. CASE ~(c >= w) /\ c < t
  <2>1. InStep(c + 1, i + Mss)
    <3>1. c * Mss < i + Mss /\ i + Mss < (c + 2) * Mss
      BY <1>1, <1>4 DEF InStep
    <3>. QED  BY <3>1 DEF InStep
  <2>2. GrowCwnd(c, i, t, w) = IF c + 1 > w THEN [cwnd |-> w, incr |-> w * Mss]
                               ELSE [cwnd |-> c + 1, incr |-> i + Mss]
    BY <1>7 DEF GrowCwnd
  <2>. QED  BY <1>6, <2>1, <2>2
<1>8. CASE ~(c >= w) /\ ~(c < t)
  <2>1. PICK k \in Nat : /\ k = IF (c + 1) * Mss <= j THEN (j + Mss - 1) \div Mss ELSE c
                         /\ InStep(k, j)
    <3>1. CASE (c + 1) * Mss <= j
      BY <3>1, InStepRounded
    <3>2. CASE ~((c + 1) * Mss <= j)
      <4>1. InStep(c, j)
        BY <1>1, <1>3, <1>4, <3>2 DEF InStep
      <4>. QED  BY <3>2, <4>1
    <3>. QED  BY <3>1, <3>2
  <2>2. GrowCwnd(c, i, t, w) = IF k > w THEN [cwnd |-> w, incr |-> w * Mss]
                               ELSE [cwnd |-> k, incr |-> j]
    BY <1>2, <1>3, <1>8, <2>1 DEF GrowCwnd
  <2>. QED  BY <1>6, <2>1, <2>2
<1>. QED  BY <1>5, <1>7, <1>8

\* ikcp_flush sets both anew after a loss, and cwnd to one when it is zero.
LEMMA FlushInStep ==
    ASSUME TypeOK, NEW e \in EP, NEW due \in BOOLEAN, NEW expired,
           Flush(e, due, expired, FALSE), InStep(cwnd[e], incr[e])
    PROVE  InStep(cwnd'[e], incr'[e]) /\ \A x \in EP \ {e} : cwnd'[x] = cwnd[x] /\ incr'[x] = incr[x]
<1> DEFINE n == MoveCount(e)
           nxt == snd_nxt[e] + n
           buf == Numbered(e, n)
           fast == FastResendable(buf, expired)
           changed == Maximum((nxt - snd_una[e]) \div 2, IKCP_THRESH_MIN)
<1>1. /\ cwnd' = [cwnd EXCEPT ![e] =
              IF expired # {} THEN 1
              ELSE Maximum(1, IF fast # {} THEN changed + FastResend ELSE @)]
      /\ incr' = [incr EXCEPT ![e] =
              IF expired # {} THEN Mss
              ELSE IF fast # {} THEN (changed + FastResend) * Mss
              ELSE IF cwnd[e] < 1 THEN Mss ELSE @]
  BY DEF Flush
<1> HIDE DEF fast
<1>2. cwnd \in [EP -> Nat] /\ incr \in [EP -> Nat] /\ Mss \in Nat \ {0} /\ cwnd[e] \in Nat /\ 1 * Mss = Mss
  BY MssType DEF TypeOK
<1>3. changed + FastResend \in Nat /\ changed + FastResend >= 1
  <2>1. snd_nxt[e] \in Nat /\ snd_una[e] \in Nat /\ MoveCount(e) \in Nat
    <3>1. MoveCount(e) \in 0..Len(snd_queue[e]) /\ snd_queue[e] \in Seq(Segment)
      BY MoveCountFacts DEF TypeOK
    <3>. QED  BY <3>1 DEF TypeOK
  <2>2. PICK half \in Int : half = (nxt - snd_una[e]) \div 2
    BY <2>1
  <2>3. changed = Maximum(half, IKCP_THRESH_MIN)
    BY <2>2
  <2> HIDE DEF changed
  <2>4. changed \in Nat /\ changed >= 1
    BY <2>3 DEF Maximum, IKCP_THRESH_MIN
  <2>. QED  BY <2>4, TuningAssumption
<1> HIDE DEF changed
<1>4. \A x \in EP \ {e} : cwnd'[x] = cwnd[x] /\ incr'[x] = incr[x]
  BY <1>1, <1>2
<1>5. InStep(1, Mss)
  BY <1>2, InStepExact
<1>6. CASE expired # {}
  <2>1. cwnd'[e] = 1 /\ incr'[e] = Mss
    BY <1>1, <1>2, <1>6
  <2>. QED  BY <1>4, <1>5, <2>1
<1>7. CASE expired = {} /\ fast # {}
  <2>1. cwnd'[e] = changed + FastResend /\ incr'[e] = (changed + FastResend) * Mss
    BY <1>1, <1>2, <1>3, <1>7 DEF Maximum
  <2>. QED  BY <1>3, <1>4, <2>1, InStepExact
<1>8. CASE expired = {} /\ fast = {} /\ cwnd[e] < 1
  <2>1. cwnd'[e] = 1 /\ incr'[e] = Mss
    BY <1>1, <1>2, <1>8 DEF Maximum
  <2>. QED  BY <1>4, <1>5, <2>1
<1>9. CASE expired = {} /\ fast = {} /\ ~(cwnd[e] < 1)
  <2>1. cwnd'[e] = cwnd[e] /\ incr'[e] = incr[e]
    BY <1>1, <1>2, <1>9 DEF Maximum
  <2>. QED  BY <1>4, <2>1
<1>. QED  BY <1>6, <1>7, <1>8, <1>9

\* A datagram that is delivered grows the window of its receiver in step, and no other.
LEMMA DeliverInStep ==
    ASSUME TypeOK, NEW e \in EP, NEW d \in net[e], Deliver(e, d), InStep(cwnd[e], incr[e])
    PROVE  InStep(cwnd'[e], incr'[e]) /\ \A x \in EP \ {e} : cwnd'[x] = cwnd[x] /\ incr'[x] = incr[x]
<1>1. PICK una \in 0..snd_nxt[e] :
        LET g == GrowCwnd(cwnd[e], incr[e], ssthresh[e], d.wnd)
        IN  IF una > snd_una[e]
            THEN /\ cwnd' = [cwnd EXCEPT ![e] = g.cwnd]
                 /\ incr' = [incr EXCEPT ![e] = g.incr]
            ELSE UNCHANGED <<cwnd, incr>>
  BY DEF Deliver, Input
<1>2. cwnd \in [EP -> Nat] /\ incr \in [EP -> Nat] /\ ssthresh[e] \in Nat /\ d.wnd \in Nat
  BY DEF TypeOK, IsDatagram
<1>3. InStep(GrowCwnd(cwnd[e], incr[e], ssthresh[e], d.wnd).cwnd,
             GrowCwnd(cwnd[e], incr[e], ssthresh[e], d.wnd).incr)
  BY <1>2, GrowInStep
<1>. QED  BY <1>1, <1>2, <1>3

\* cwnd, which limits what ikcp_flush sends, and incr, from which ikcp_input
\* computes it, never drift apart by a segment, whatever is lost.
THEOREM CwndTracksIncrHolds == Spec => []CwndTracksIncr
<1>1. CwndTracksIncr <=> \A e \in EP : InStep(cwnd[e], incr[e])
  BY DEF CwndTracksIncr, InStep
<1>2. Init => CwndTracksIncr
  <2>1. ASSUME Init, NEW e \in EP PROVE InStep(cwnd[e], incr[e])
    <3>1. cwnd[e] = 0 /\ incr[e] = 0 /\ 0 * Mss = 0
      BY <2>1, MssType DEF Init
    <3>. QED  BY <3>1, InStepExact
  <2>. QED  BY <1>1, <2>1
<1>3. TypeOK /\ CwndTracksIncr /\ [Next]_vars => CwndTracksIncr'
  <2> SUFFICES ASSUME TypeOK, CwndTracksIncr, [Next]_vars, NEW x \in EP
               PROVE  InStep(cwnd'[x], incr'[x])
    BY DEF CwndTracksIncr, InStep
  <2>1. CASE UNCHANGED <<cwnd, incr>>
    BY <1>1, <2>1
  <2>2. ASSUME NEW e \in EP, NEW d \in net[e], Deliver(e, d) PROVE InStep(cwnd'[x], incr'[x])
    BY <1>1, <2>2, DeliverInStep
  <2>3. ASSUME NEW e \in EP, FlushStep(e) PROVE InStep(cwnd'[x], incr'[x])
    BY <1>1, <2>3, FlushInStep DEF FlushStep
  <2>4. ASSUME NEW e \in EP, NEW len \in Lens, Send(e, len) PROVE UNCHANGED <<cwnd, incr>>
    BY <2>4 DEF Send, flowVars
  <2>5. ASSUME NEW e \in EP, Recv(e) PROVE UNCHANGED <<cwnd, incr>>
    BY <2>5 DEF Recv, flowVars
  <2>6. CASE UNCHANGED vars
    BY <2>1, <2>6 DEF vars, flowVars
  <2>. QED  BY <2>1, <2>2, <2>3, <2>4, <2>5, <2>6 DEF Next
<1>. QED  BY <1>2, <1>3, TypeCorrect, PTL DEF Spec
=============================================================================
