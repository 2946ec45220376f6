---------------------------- MODULE IkcpDelivery ----------------------------
(***************************************************************************)
(* What the readers of two ikcp.c endpoints get, for every window, mtu and *)
(* length: the bytes that were written, each once and in order, and in     *)
(* message mode the very buffers given to ikcp_send, so that the protocol  *)
(* implements FifoChannel.  The invariant ArqInv says that segments arrive *)
(* as they were numbered; here the segments are followed from ikcp_send,   *)
(* which cuts and merges, to ikcp_recv, which joins.                       *)
(***************************************************************************)
EXTENDS IkcpSafety, SequenceTheorems, NaturalsInduction, WellFoundedInduction

-----------------------------------------------------------------------------
(* Sequences of pieces.                                                    *)

\* A nonempty set of natural numbers has a least member.
LEMMA LeastOf ==
    ASSUME NEW T \in SUBSET Nat, T # {}
    PROVE  \E x \in T : \A y \in T : x <= y
<1>1. IsWellFoundedOn(OpToRel(<, Nat), Nat)
  BY NatLessThanWellFounded
<1>2. PICK x \in T : \A y \in T : ~(<<y, x>> \in OpToRel(<, Nat))
  BY <1>1, WFMin
<1>3. \A y \in T : ~(y < x)
  BY <1>2 DEF OpToRel
<1>. QED  BY <1>3

\* The numbers of a segment.
LEMMA SegmentNats == \A x \in Segment : x.frg \in Nat /\ x.off \in Nat /\ x.len \in Nat
BY MssType DEF Segment

\* Three runs of segments, one behind the other.
LEMMA Rebracketed ==
    \A s, t, u \in Seq(Segment) : s \o (t \o u) = (s \o t) \o u
BY ConcatAssociative, SMTT(30)

\* t continues s: it begins where s ends, and has no gaps.
Continues(t, start) ==
    /\ t # <<>> /\ t[1].off = start
    /\ \A i \in 2..Len(t) : t[i].off = t[i - 1].off + t[i - 1].len

\* Two stretches that join make one.
LEMMA Continued ==
    ASSUME NEW S, NEW s \in Seq(S), NEW t \in Seq(S), Consecutive(s), Continues(t, EndOf(s))
    PROVE  Consecutive(s \o t) /\ EndOf(s \o t) = t[Len(t)].off + t[Len(t)].len
<1>1. PICK u \in Seq(S) : u = s \o t
  BY ConcatProperties
<1>2. PICK a \in Nat : a = Len(s)
  OBVIOUS
<1>3. PICK b \in Nat : b = Len(t)
  OBVIOUS
<1>4. b >= 1
  BY <1>3 DEF Continues
<1>5. /\ Len(u) = a + b
      /\ \A i \in 1..a : u[i] = s[i]
      /\ \A i \in 1..b : u[a + i] = t[i]
  BY <1>1, <1>2, <1>3
<1>6. ASSUME NEW i \in 1..Len(u)
      PROVE  u[i].off = IF i = 1 THEN 0 ELSE u[i - 1].off + u[i - 1].len
  <2>1. CASE i <= a
    <3>1. i \in 1..a /\ u[i] = s[i] /\ (i # 1 => u[i - 1] = s[i - 1])
      BY <1>5, <2>1
    <3>2. s[i].off = IF i = 1 THEN 0 ELSE s[i - 1].off + s[i - 1].len
      BY <1>2, <3>1 DEF Consecutive
    <3>. QED  BY <3>1, <3>2
  <2>2. CASE i = a + 1
    <3>1. u[i] = t[1]
      BY <1>4, <1>5, <2>2
    <3>2. t[1].off = EndOf(s)
      BY DEF Continues
    <3>3. EndOf(s) = IF i = 1 THEN 0 ELSE u[i - 1].off + u[i - 1].len
      <4>1. CASE a = 0
        <5>1. s = <<>>
          <6>1. s # <<>> => Len(s) \in Nat \ {0}
            BY EmptySeq
          <6>. QED  BY <1>2, <4>1, <6>1
        <5>2. i = 1
          BY <2>2, <4>1
        <5>. QED  BY <5>1, <5>2 DEF EndOf
      <4>2. CASE a # 0
        <5>1. u[i - 1] = s[a] /\ i # 1 /\ s # <<>>
          BY <1>2, <1>5, <2>2, <4>2
        <5>. QED  BY <1>2, <5>1 DEF EndOf
      <4>. QED  BY <4>1, <4>2
    <3>. QED  BY <3>1, <3>2, <3>3
  <2>3. CASE i > a + 1
    <3>1. PICK j \in 2..b : i = a + j
      <4>1. i - a \in 2..b /\ i = a + (i - a)
        BY <1>5, <2>3
      <4>. QED  BY <4>1
    <3>2. j - 1 \in 1..b /\ i - 1 = a + (j - 1)
      BY <3>1
    <3>3. u[i] = t[j] /\ u[i - 1] = t[j - 1] /\ i # 1
      BY <1>5, <2>3, <3>1, <3>2
    <3>4. t[j].off = t[j - 1].off + t[j - 1].len
      BY <1>3, <3>1 DEF Continues
    <3>. QED  BY <3>3, <3>4
  <2>. QED  BY <1>5, <2>1, <2>2, <2>3
<1>7. Len(u) # 0 /\ u[Len(u)] = t[b] /\ u # <<>>
  BY <1>4, <1>5
<1>. QED  BY <1>1, <1>3, <1>6, <1>7 DEF Consecutive, EndOf

\* ikcp_recv returns as many bytes as there are between the beginning of its
\* first segment and the end of its last.
LEMMA TotalLenIs ==
    ASSUME NEW q \in Seq(Segment), NEW k \in 1..Len(q),
           \A i \in 2..k : q[i].off = q[i - 1].off + q[i - 1].len
    PROVE  TotalLen(q, k) \in Nat /\ TotalLen(q, k) = q[k].off + q[k].len - q[1].off
<1> DEFINE Sums(f) == f = [i \in 0..k |-> IF i = 0 THEN 0 ELSE f[i - 1] + q[i].len]
<1>1. PICK sum : sum = CHOOSE f : Sums(f)
  OBVIOUS
<1>2. TotalLen(q, k) = sum[k]
  BY <1>1 DEF TotalLen
<1>3. k \in Nat /\ k >= 1 /\ \A i \in 1..k : q[i].off \in Nat /\ q[i].len \in Nat
  <2>1. Len(q) \in Nat /\ \A i \in 1..Len(q) : q[i] \in Segment
    BY ElementOfSeq
  <2>2. k \in Nat /\ k >= 1 /\ \A i \in 1..k : i \in 1..Len(q)
    BY <2>1
  <2>. QED  BY <2>1, <2>2, SegmentNats
<1> DEFINE g == [i \in 0..k |-> IF i = 0 THEN 0 ELSE q[i].off + q[i].len - q[1].off]
<1>4. Sums(g)
  <2>1. ASSUME NEW i \in 0..k, i # 0 PROVE g[i] = g[i - 1] + q[i].len
    <3>1. CASE i = 1
      <4>1. g[1] = q[1].off + q[1].len - q[1].off /\ g[0] = 0
        BY <1>3
      <4>. QED  BY <1>3, <3>1, <4>1
    <3>2. CASE i # 1
      <4>1. i \in 2..k /\ i - 1 \in 1..k
        BY <1>3, <2>1, <3>2
      <4>2. g[i] = q[i].off + q[i].len - q[1].off /\ g[i - 1] = q[i - 1].off + q[i - 1].len - q[1].off
        BY <4>1
      <4>3. q[i].off = q[i - 1].off + q[i - 1].len
        BY <4>1
      <4>. QED  BY <1>3, <4>1, <4>2, <4>3, SMTT(30)
    <3>. QED  BY <3>1, <3>2
  <2>2. g[0] = 0
    BY <1>3
  <2>3. g = [i \in 0..k |-> g[i]]
    OBVIOUS
  <2> HIDE DEF g
  <2>. QED  BY <2>1, <2>2, <2>3
<1>5. Sums(sum)
  BY <1>1, <1>4
<1>6. ASSUME NEW i \in 0..k, sum[i] # g[i] PROVE FALSE
  <2> DEFINE T == {x \in 0..k : sum[x] # g[x]}
  <2> HIDE DEF g
  <2>0. T \in SUBSET Nat /\ T # {}
    <3>1. i \in T
      BY <1>6
    <3>2. T \subseteq 0..k
      OBVIOUS
    <3> HIDE DEF T
    <3>3. 0..k \subseteq Nat
      BY <1>3
    <3>. QED  BY <3>1, <3>2, <3>3, Zenon
  <2>1. PICK x \in T : \A y \in T : x <= y
    BY <2>0, LeastOf
  <2>2. x \in 0..k /\ sum[x] # g[x]
    BY <2>1
  <2>3. sum[x] = (IF x = 0 THEN 0 ELSE sum[x - 1] + q[x].len) /\ g[x] = (IF x = 0 THEN 0 ELSE g[x - 1] + q[x].len)
    BY <1>4, <1>5, <2>2
  <2>4. x # 0 /\ x - 1 \in 0..k /\ x - 1 < x
    BY <1>3, <2>2, <2>3
  <2>5. sum[x - 1] = g[x - 1]
    BY <2>1, <2>4
  <2>. QED  BY <2>2, <2>3, <2>5
<1>7. TotalLen(q, k) = g[k]
  BY <1>2, <1>3, <1>6
<1>8. ASSUME NEW i \in 0..k, ~(g[i] >= 0) PROVE FALSE
  <2> DEFINE T == {x \in 0..k : ~(g[x] >= 0)}
  <2> HIDE DEF g
  <2>0. T \in SUBSET Nat /\ T # {}
    <3>1. i \in T
      BY <1>8
    <3>2. T \subseteq 0..k
      OBVIOUS
    <3> HIDE DEF T
    <3>3. 0..k \subseteq Nat
      BY <1>3
    <3>. QED  BY <3>1, <3>2, <3>3, Zenon
  <2>1. PICK x \in T : \A y \in T : x <= y
    BY <2>0, LeastOf
  <2>2. x \in 0..k /\ ~(g[x] >= 0)
    BY <2>1
  <2>3. g[x] = IF x = 0 THEN 0 ELSE g[x - 1] + q[x].len
    BY <1>4, <2>2
  <2>4. x # 0 /\ x - 1 \in 0..k /\ x - 1 < x /\ x \in 1..k
    BY <1>3, <2>2, <2>3
  <2>5. g[x - 1] >= 0
    BY <2>1, <2>4
  <2>6. g[x - 1] \in Int
    BY <1>3, <2>4, SMTT(30) DEF g
  <2>7. q[x].len \in Nat
    BY <1>3, <2>4
  <2>. QED  BY <2>2, <2>3, <2>4, <2>5, <2>6, <2>7
<1>9. g[k] = q[k].off + q[k].len - q[1].off /\ g[k] >= 0
  <2>1. k \in 0..k /\ k # 0
    BY <1>3
  <2>2. g[k] = q[k].off + q[k].len - q[1].off
    BY <2>1
  <2>3. g[k] >= 0
    BY <1>8, <2>1
  <2>. QED  BY <2>2, <2>3
<1> HIDE DEF g
<1>10. q[k].off + q[k].len - q[1].off \in Int
  BY <1>3
<1>. QED  BY <1>7, <1>9, <1>10

-----------------------------------------------------------------------------
(* ikcp_send.                                                              *)

\* count segments of mss bytes are enough for len bytes, and one fewer is not.
LEMMA SplitFacts ==
    ASSUME NEW len \in Nat
    PROVE  /\ SplitCount(len) \in Nat \ {0}
           /\ (SplitCount(len) - 1) * Mss <= len
           /\ len <= SplitCount(len) * Mss
<1>1. Mss \in Nat \ {0}
  BY MssType
<1>2. CASE len <= Mss
  <2>1. SplitCount(len) = 1
    BY <1>2 DEF SplitCount
  <2>2. (1 - 1) * Mss = 0 /\ 1 * Mss = Mss
    BY <1>1
  <2>. QED  BY <1>1, <1>2, <2>1, <2>2
<1>3. CASE len > Mss
  <2>1. PICK a \in Nat : a = len + Mss - 1 /\ a >= Mss
    BY <1>1, <1>3
  <2>2. PICK c \in Nat : c = a \div Mss
    BY <1>1, DivNat
  <2>4. \E r \in 0..(Mss - 1) : a = (a \div Mss) * Mss + r
    BY <1>1, DivRest
  <2>5. PICK r \in 0..(Mss - 1) : a = c * Mss + r
    BY <2>2, <2>4
  <2>6. SplitCount(len) = c
    BY <1>1, <1>3, <2>1, <2>2 DEF SplitCount
  <2>7. c # 0
    <3>1. 0 * Mss = 0
      BY <1>1
    <3>. QED  BY <1>1, <2>1, <2>5, <3>1
  <2>8. (c - 1) * Mss = c * Mss - Mss /\ c * Mss \in Nat
    BY <1>1
  <2>9. (c - 1) * Mss <= len /\ len <= c * Mss
    BY <1>1, <2>1, <2>5, <2>8
  <2>. QED  BY <2>6, <2>7, <2>9
<1>. QED  BY <1>1, <1>2, <1>3

\* The fragments of a buffer continue one another from its first byte to its
\* last, and in message mode frg counts down to 0.
LEMMA FragmentsFacts ==
    ASSUME NEW off \in Nat, NEW len \in Nat
    PROVE  \E F \in Seq(Segment) :
              /\ F = Fragments(off, len) /\ Len(F) \in Nat \ {0}
              /\ Continues(F, off)
              /\ F[Len(F)].off + F[Len(F)].len = off + len
              /\ ~Stream => \A i \in 1..Len(F) : F[i].frg = Len(F) - i
<1>0. PICK F \in Seq(Segment) : F = Fragments(off, len)
  BY FragmentsType
<1>1. PICK c \in Nat \ {0} : /\ c = SplitCount(len)
                             /\ (c - 1) * Mss <= len /\ len <= c * Mss
  BY SplitFacts
<1>2. F = [i \in 1..c |-> [frg |-> IF Stream THEN 0 ELSE c - i, off |-> off + (i - 1) * Mss,
                           len |-> Minimum(Mss, len - (i - 1) * Mss)]]
  BY <1>0, <1>1 DEF Fragments
<1>3. F \in Seq(Segment)
  OBVIOUS
<1>4. Len(F) = c /\ F # <<>>
  <2>1. DOMAIN F = 1..c
    BY <1>2
  <2>. QED  BY <1>1, <1>3, <2>1, LenProperties
<1>5. ASSUME NEW i \in 1..c
      PROVE  /\ F[i].frg = (IF Stream THEN 0 ELSE c - i)
             /\ F[i].off = off + (i - 1) * Mss
             /\ F[i].len = Minimum(Mss, len - (i - 1) * Mss)
  BY <1>2
<1>6. Mss \in Nat \ {0}
  BY MssType
<1>7. F[1].off = off
  <2>1. F[1].off = off + (1 - 1) * Mss
    BY <1>1, <1>5
  <2>2. (1 - 1) * Mss = 0
    BY <1>6
  <2>. QED  BY <2>1, <2>2
<1>8. ASSUME NEW i \in 2..c PROVE F[i].off = F[i - 1].off + F[i - 1].len
  <2>1. i - 1 \in 1..c /\ i \in 1..c /\ i - 1 \in Nat /\ i - 1 <= c - 1 /\ c - 1 \in Nat
    BY <1>1
  <2>2. PICK x \in Nat : x = (i - 1) * Mss
    BY <1>6, <2>1
  <2>3. ((i - 1) - 1) * Mss = x - Mss
    BY <1>6, <2>1, <2>2
  <2>4. x <= len
    <3>1. (i - 1) * Mss <= (c - 1) * Mss /\ (c - 1) * Mss \in Nat
      BY <1>6, <2>1, MulMono
    <3>. QED  BY <1>1, <2>2, <3>1
  <2>5. F[i].off = off + x
    BY <1>5, <2>1, <2>2
  <2>6. F[i - 1].off = off + ((i - 1) - 1) * Mss /\ F[i - 1].len = Minimum(Mss, len - ((i - 1) - 1) * Mss)
    BY <1>5, <2>1
  <2>7. F[i - 1].off = off + (x - Mss) /\ F[i - 1].len = Minimum(Mss, len - (x - Mss))
    BY <2>3, <2>6
  <2>8. F[i - 1].len = Mss
    BY <1>6, <2>4, <2>7 DEF Minimum
  <2>. QED  BY <1>6, <2>5, <2>7, <2>8
<1>9. F[c].off + F[c].len = off + len
  <2>1. c \in 1..c
    BY <1>1
  <2>2. PICK x \in Nat : x = (c - 1) * Mss
    BY <1>1, <1>6
  <2>3. c * Mss = x + Mss
    BY <1>1, <1>6, <2>2
  <2>4. F[c].off = off + x /\ F[c].len = Minimum(Mss, len - x)
    BY <1>5, <2>1, <2>2
  <2>5. len - x <= Mss /\ x <= len
    BY <1>1, <1>6, <2>2, <2>3
  <2>6. F[c].len = len - x
    BY <1>6, <2>4, <2>5 DEF Minimum
  <2>. QED  BY <2>4, <2>5, <2>6
<1>10. Continues(F, off)
  BY <1>4, <1>7, <1>8 DEF Continues
<1>11. ~Stream => \A i \in 1..Len(F) : F[i].frg = Len(F) - i
  BY <1>4, <1>5
<1>. QED  BY <1>0, <1>1, <1>4, <1>9, <1>10, <1>11

\* Bytes appended to the last segment, in stream mode.
LEMMA TailExtended ==
    ASSUME NEW u \in Seq(Segment), NEW v \in Seq(Segment), NEW ext \in Nat,
           u # <<>>, Len(v) = Len(u), Consecutive(u),
           \A i \in 1..(Len(u) - 1) : v[i] = u[i],
           v[Len(u)].off = u[Len(u)].off, v[Len(u)].len = u[Len(u)].len + ext
    PROVE  Consecutive(v) /\ EndOf(v) = EndOf(u) + ext
<1>1. PICK n \in Nat \ {0} : n = Len(u)
  BY EmptySeq
<1>2. n \in 1..Len(u) /\ u[n] \in Segment
  BY <1>1, ElementOfSeq
<1>3. u[n].off \in Nat /\ u[n].len \in Nat
  BY <1>2, SegmentNats
<1>4. ASSUME NEW i \in 1..n
      PROVE  v[i].off = IF i = 1 THEN 0 ELSE v[i - 1].off + v[i - 1].len
  <2>1. u[i].off = IF i = 1 THEN 0 ELSE u[i - 1].off + u[i - 1].len
    BY <1>1 DEF Consecutive
  <2>2. v[i].off = u[i].off
    BY <1>1
  <2>3. i # 1 => v[i - 1] = u[i - 1]
    BY <1>1
  <2>. QED  BY <2>1, <2>2, <2>3
<1>5. v # <<>>
  BY <1>1, EmptySeq
<1>6. EndOf(u) = u[n].off + u[n].len /\ EndOf(v) = v[n].off + v[n].len
  BY <1>1, <1>5 DEF EndOf
<1>7. EndOf(v) = EndOf(u) + ext
  BY <1>1, <1>3, <1>6
<1>. QED  BY <1>1, <1>4, <1>7 DEF Consecutive

\* The queue with ext more bytes continues what has been numbered.
LEMMA ExtendWritten ==
    ASSUME TypeOK, ByteInv, NEW e \in EP, NEW len \in Nat
    PROVE  \E ext \in 0..len, q \in Seq(Segment) :
              /\ ext = Extend(e, len) /\ q = ExtendTail(snd_queue[e], ext)
              /\ numbered[e] \o q \in Seq(Segment)
              /\ Consecutive(numbered[e] \o q)
              /\ EndOf(numbered[e] \o q) = snd_off[e] + ext
              /\ ~Stream => ext = 0 /\ q = snd_queue[e]
<1>0. PICK ext \in 0..len : ext = Extend(e, len)
  BY ExtendFacts
<1>1. PICK q \in Seq(Segment) : q = ExtendTail(snd_queue[e], ext)
  BY <1>0, ExtendFacts
<1>2. numbered[e] \in Seq(Segment) /\ snd_queue[e] \in Seq(Segment) /\ snd_off[e] \in Nat
  BY DEF TypeOK
<1>3. numbered[e] \o q \in Seq(Segment)
  BY <1>1, <1>2, ConcatProperties
<1>4. Consecutive(Written(e)) /\ EndOf(Written(e)) = snd_off[e]
  BY DEF ByteInv
<1>5. CASE ext = 0
  <2>1. q = snd_queue[e]
    BY <1>1, <1>5 DEF ExtendTail
  <2>. QED  BY <1>0, <1>1, <1>2, <1>3, <1>4, <1>5, <2>1 DEF Written
<1>6. CASE ext # 0
  <2>1. Stream /\ snd_queue[e] # <<>>
    BY <1>0, <1>6 DEF Extend
  <2>2. PICK b \in Nat \ {0} : b = Len(snd_queue[e])
    BY <1>2, <2>1, EmptySeq
  <2>3. PICK a \in Nat : a = Len(numbered[e])
    BY <1>2, LenProperties
  <2>4. q = [snd_queue[e] EXCEPT ![b] = [frg |-> 0, off |-> @.off, len |-> @.len + ext]]
    BY <1>1, <1>6, <2>2 DEF ExtendTail
  <2>5. DOMAIN snd_queue[e] = 1..b /\ b \in 1..b
    BY <1>2, <2>2, LenProperties
  <2>6. DOMAIN q = 1..b
    BY <2>4, <2>5
  <2>7. Len(q) = b
    <3>1. DOMAIN q = 1..Len(q) /\ Len(q) \in Nat
      BY <1>1, LenProperties
    <3>. QED  BY <2>2, <2>6, <3>1
  <2>8. \A i \in 1..(b - 1) : q[i] = snd_queue[e][i]
    BY <2>2, <2>4, <2>5
  <2>9. q[b].off = snd_queue[e][b].off /\ q[b].len = snd_queue[e][b].len + ext
    BY <2>4, <2>5
  <2>10. PICK v \in Seq(Segment) : v = numbered[e] \o q
    BY <1>3
  <2>11. PICK u \in Seq(Segment) : u = numbered[e] \o snd_queue[e]
    BY <1>2, ConcatProperties
  <2>12. /\ Len(v) = a + b
         /\ \A i \in 1..a : v[i] = numbered[e][i]
         /\ \A i \in 1..b : v[a + i] = q[i]
    <3>1. /\ Len(numbered[e] \o q) = Len(numbered[e]) + Len(q)
          /\ \A i \in 1..Len(numbered[e]) : (numbered[e] \o q)[i] = numbered[e][i]
          /\ \A i \in 1..Len(q) : (numbered[e] \o q)[Len(numbered[e]) + i] = q[i]
      BY <1>1, <1>2, ConcatSeq
    <3>. QED  BY <2>3, <2>7, <2>10, <3>1
  <2>13. /\ Len(u) = a + b
         /\ \A i \in 1..a : u[i] = numbered[e][i]
         /\ \A i \in 1..b : u[a + i] = snd_queue[e][i]
    BY <1>2, <2>2, <2>3, <2>11, ConcatSeq, ZenonT(30)
  <2>14. ASSUME NEW i \in 1..(Len(u) - 1) PROVE v[i] = u[i]
    <3>1. CASE i <= a
      BY <2>12, <2>13, <3>1
    <3>2. CASE i > a
      <4>1. PICK j \in 1..(b - 1) : i = a + j
        <5>1. i \in 1..(a + b - 1)
          BY <2>13
        <5>2. i \in Int /\ a \in Int /\ b \in Int /\ i <= a + b - 1
          BY <5>1
        <5>3. i - a >= 1 /\ i - a <= b - 1 /\ i = a + (i - a) /\ i - a \in Int
          BY <3>2, <5>2
        <5>. QED  BY <5>2, <5>3
      <4>2. j \in 1..b
        BY <2>2
      <4>. QED  BY <2>8, <2>12, <2>13, <4>1, <4>2
    <3>3. i \in Int /\ a \in Int
      BY <2>2, <2>3, <2>13
    <3>. QED  BY <3>1, <3>2, <3>3
  <2>15. v[Len(u)].off = u[Len(u)].off /\ v[Len(u)].len = u[Len(u)].len + ext
    <3>1. v[Len(u)] = q[b] /\ u[Len(u)] = snd_queue[e][b]
      BY <2>5, <2>12, <2>13
    <3>. QED  BY <2>9, <3>1
  <2>16. u # <<>> /\ Len(v) = Len(u) /\ ext \in Nat
    <3>0. Len(u) = a + b
      BY <2>13
    <3>1. Len(u) # 0
      BY <3>0
    <3>. QED  BY <1>1, <2>12, <2>13, <3>1, EmptySeq
  <2>17. Consecutive(u) /\ EndOf(u) = snd_off[e]
    BY <1>4, <2>11 DEF Written
  <2>18. Consecutive(v) /\ EndOf(v) = EndOf(u) + ext
    BY <2>14, <2>15, <2>16, <2>17, TailExtended
  <2>. QED  BY <1>0, <1>1, <1>3, <2>1, <2>10, <2>17, <2>18
<1>. QED  BY <1>5, <1>6

\* After ikcp_send the segments reach to the last byte accepted.  In message
\* mode the fragments of the message have been added, or it was refused.
LEMMA SendWritten ==
    ASSUME TypeOK, ByteInv, NEW e \in EP, NEW len \in Nat, Send(e, len)
    PROVE  /\ Consecutive(Written(e)') /\ EndOf(Written(e)') = snd_off'[e]
           /\ \A x \in EP \ {e} : Written(x)' = Written(x) /\ snd_off'[x] = snd_off[x]
           /\ ~Stream =>
                \/ Written(e)' = Written(e) /\ sends' = sends
                \/ /\ Written(e)' = Written(e) \o Fragments(snd_off[e], len)
                   /\ sends' = [sends EXCEPT ![e] = Append(@, [off |-> snd_off[e], len |-> len])]
<1>1. PICK ext \in 0..len, q \in Seq(Segment) :
      /\ ext = Extend(e, len) /\ q = ExtendTail(snd_queue[e], ext)
      /\ numbered[e] \o q \in Seq(Segment)
      /\ Consecutive(numbered[e] \o q)
      /\ EndOf(numbered[e] \o q) = snd_off[e] + ext
      /\ ~Stream => ext = 0 /\ q = snd_queue[e]
  BY ExtendWritten
<1>3. ext \in Nat /\ ext <= len
  OBVIOUS
<1>4. PICK rest \in Nat : rest = len - ext
  BY <1>3
<1>5. PICK done \in BOOLEAN : done = (Stream /\ rest = 0)
  BY TuningAssumption
<1>6. PICK fits \in BOOLEAN : fits = (done \/ SplitCount(rest) < WndRcv)
  OBVIOUS
<1>7. /\ snd_queue' = [snd_queue EXCEPT ![e] =
              IF done \/ ~fits THEN q ELSE q \o Fragments(snd_off[e] + ext, rest)]
      /\ snd_off' = [snd_off EXCEPT ![e] = @ + (IF fits THEN len ELSE ext)]
      /\ sends' = IF fits
                  THEN [sends EXCEPT ![e] = Append(@, [off |-> snd_off[e], len |-> len])]
                  ELSE sends
      /\ numbered' = numbered
  BY <1>1, <1>4, <1>5, <1>6 DEF Send
<1>8. /\ numbered[e] \in Seq(Segment) /\ snd_off \in [EP -> Nat] /\ snd_off[e] \in Nat
      /\ snd_queue \in [EP -> Seq(Segment)]
  BY DEF TypeOK
<1>9. \A x \in EP \ {e} : Written(x)' = Written(x) /\ snd_off'[x] = snd_off[x]
  BY <1>7, <1>8 DEF Written
<1>10. CASE done \/ ~fits
  <2>1. snd_queue'[e] = q /\ Written(e)' = numbered[e] \o q
    BY <1>7, <1>8, <1>10 DEF Written
  <2>2. snd_off'[e] = snd_off[e] + ext
    <3>1. CASE fits
      <4>1. rest = 0
        BY <1>5, <1>10, <3>1
      <4>2. len = ext
        BY <1>3, <1>4, <4>1
      <4>. QED  BY <1>7, <1>8, <3>1, <4>2
    <3>2. CASE ~fits
      BY <1>7, <1>8, <3>2
    <3>. QED  BY <3>1, <3>2
  <2>3. ~Stream => Written(e)' = Written(e) /\ sends' = sends
    BY <1>1, <1>5, <1>7, <1>10, <2>1 DEF Written
  <2>. QED  BY <1>1, <1>9, <2>1, <2>2, <2>3
<1>11. CASE ~done /\ fits
  <2>0. PICK o \in Nat : o = snd_off[e] + ext
    BY <1>3, <1>8
  <2>1. PICK F \in Seq(Segment) :
           /\ F = Fragments(o, rest) /\ Len(F) \in Nat \ {0}
           /\ Continues(F, o)
           /\ F[Len(F)].off + F[Len(F)].len = o + rest
    BY FragmentsFacts
  <2>2. /\ F = Fragments(snd_off[e] + ext, rest)
        /\ Continues(F, snd_off[e] + ext)
        /\ F[Len(F)].off + F[Len(F)].len = (snd_off[e] + ext) + rest
    BY <2>0, <2>1, Zenon
  <2>3. snd_queue'[e] = q \o F
    BY <1>7, <1>8, <1>11, <2>2
  <2>4. numbered[e] \o (q \o F) = (numbered[e] \o q) \o F
    BY <1>8, Rebracketed
  <2>5. Written(e)' = (numbered[e] \o q) \o F
    BY <1>7, <2>3, <2>4 DEF Written
  <2>6. Consecutive((numbered[e] \o q) \o F) /\ EndOf((numbered[e] \o q) \o F) = (snd_off[e] + ext) + rest
    BY <1>1, <2>2, Continued
  <2>7. snd_off'[e] = (snd_off[e] + ext) + rest
    BY <1>3, <1>4, <1>7, <1>8, <1>11
  <2>8. ASSUME ~Stream
        PROVE  /\ Written(e)' = Written(e) \o Fragments(snd_off[e], len)
               /\ sends' = [sends EXCEPT ![e] = Append(@, [off |-> snd_off[e], len |-> len])]
    <3>1. ext = 0 /\ q = snd_queue[e]
      BY <1>1, <2>8
    <3>2. snd_off[e] + ext = snd_off[e] /\ rest = len
      BY <1>4, <1>8, <3>1
    <3>. QED  BY <1>7, <1>11, <2>2, <2>5, <3>1, <3>2 DEF Written
  <2>. QED  BY <1>9, <2>5, <2>6, <2>7, <2>8
<1>. QED  BY <1>10, <1>11

-----------------------------------------------------------------------------
(* ikcp_flush and ikcp_input.                                              *)

\* Segments that are only moved: nothing is written or read.
OnlyMoved ==
    /\ \A x \in EP : Written(x)' = Written(x)
    /\ UNCHANGED <<delivered, sends, recvs, snd_off>>

\* ikcp_flush moves segments from snd_queue to snd_buf without cutting, joining
\* or reordering any.
LEMMA FlushWritten ==
    ASSUME TypeOK, NEW e \in EP, NEW due, NEW expired, NEW lossless,
           Flush(e, due, expired, lossless)
    PROVE  OnlyMoved
<1>1. PICK n \in Nat : n = MoveCount(e) /\ n <= Len(snd_queue[e])
  <2>1. MoveCount(e) \in 0..Len(snd_queue[e])
    BY MoveCountFacts
  <2>2. Len(snd_queue[e]) \in Nat
    BY DEF TypeOK
  <2>. QED  BY <2>1, <2>2
<1>2. /\ snd_queue' = [snd_queue EXCEPT ![e] = SubSeq(@, n + 1, Len(@))]
      /\ numbered' = [numbered EXCEPT ![e] = @ \o SubSeq(snd_queue[e], 1, n)]
      /\ UNCHANGED <<delivered, sends, recvs, snd_off>>
  BY <1>1 DEF Flush
<1>3. /\ snd_queue \in [EP -> Seq(Segment)] /\ numbered \in [EP -> Seq(Segment)]
      /\ snd_queue[e] \in Seq(Segment) /\ numbered[e] \in Seq(Segment)
  BY DEF TypeOK
<1>4. PICK q \in Seq(Segment) : q = snd_queue[e]
  BY <1>3
<1>5. n \in 0..Len(q)
  BY <1>1, <1>4
<1>6. PICK front \in Seq(Segment) : front = SubSeq(q, 1, n)
  BY <1>5, SplitSeq
<1>7. PICK back \in Seq(Segment) : back = SubSeq(q, n + 1, Len(q))
  BY <1>5, SplitSeq
<1>8. front \o back = q
  <2>1. 1 \in 1..(Len(q) + 1) /\ n \in (1 - 1)..Len(q) /\ Len(q) \in n..Len(q)
    BY <1>5
  <2>2. SubSeq(q, 1, n) \o SubSeq(q, n + 1, Len(q)) = SubSeq(q, 1, Len(q))
    BY <2>1, ConcatAdjacentSubSeq
  <2>3. SubSeq(q, 1, Len(q)) = q
    BY SubSeqFull
  <2>. QED  BY <1>6, <1>7, <2>2, <2>3
<1>9. snd_queue'[e] = back /\ numbered'[e] = numbered[e] \o front
  BY <1>2, <1>3, <1>4, <1>6, <1>7
<1>10. (numbered[e] \o front) \o back = numbered[e] \o q
  <2>1. numbered[e] \o (front \o back) = (numbered[e] \o front) \o back
    BY <1>3, Rebracketed, ZenonT(30)
  <2>. QED  BY <1>8, <2>1, Zenon
<1>11. Written(e)' = Written(e)
  BY <1>4, <1>9, <1>10 DEF Written
<1>12. \A x \in EP : x # e => Written(x)' = Written(x)
  BY <1>2, <1>3 DEF Written
<1>. QED  BY <1>2, <1>11, <1>12 DEF OnlyMoved

\* ikcp_input writes and reads nothing.
LEMMA DeliverWritten ==
    ASSUME NEW e \in EP, NEW d, Deliver(e, d)
    PROVE  OnlyMoved
<1>1. UNCHANGED <<snd_queue, histVars>>
  BY DEF Deliver, Input
<1>. QED  BY <1>1 DEF OnlyMoved, Written, histVars

-----------------------------------------------------------------------------
(* ikcp_recv.                                                              *)

\* dl and q are the r segments that e has read and the l that it holds, in the
\* order in which its peer wrote them, w.
ReadState(e, w, dl, q, r, l) ==
    /\ w = Written(Peer(e)) /\ dl = delivered[e] /\ q = rcv_queue[e]
    /\ r = Len(dl) /\ l = Len(q) /\ r + l <= Len(w)
    /\ \A i \in 1..r : dl[i] = w[i]
    /\ \A i \in 1..l : q[i] = w[r + i]

\* What has been read and what may be read next are the first segments the peer
\* has written.
LEMMA ReadIsWritten ==
    ASSUME TypeOK, ArqInv, NEW e \in EP
    PROVE  \E w \in Seq(Segment), dl \in Seq(Segment), q \in Seq(Segment), r \in Nat, l \in Nat :
              ReadState(e, w, dl, q, r, l)
<1>0. Peer(e) \in EP
  BY PeerFacts
<1>1. PICK dl \in Seq(Segment), q \in Seq(Segment) : dl = delivered[e] /\ q = rcv_queue[e]
  BY DEF TypeOK
<1>2. PICK nb \in Seq(Segment), sq \in Seq(Segment) : nb = numbered[Peer(e)] /\ sq = snd_queue[Peer(e)]
  BY <1>0 DEF TypeOK
<1>3. PICK w \in Seq(Segment) : w = nb \o sq
  BY ConcatProperties
<1>4. PICK r \in Nat, l \in Nat, m \in Nat : r = Len(dl) /\ l = Len(q) /\ m = Len(nb)
  BY LenProperties
<1>5. Len(w) >= m /\ Len(w) \in Nat
  <2>1. PICK s \in Nat : s = Len(sq)
    BY LenProperties
  <2>2. Len(w) = m + s
    BY <1>3, <1>4, <2>1, ConcatProperties
  <2>. QED  BY <2>2
<1>6. \A i \in 1..m : w[i] = nb[i]
  BY <1>3, <1>4, ConcatSeq
<1>7. r + l <= m
  <2>1. rcv_nxt[e] = Len(delivered[e]) + Len(rcv_queue[e]) /\ rcv_nxt[e] <= snd_nxt[Peer(e)]
    BY DEF ArqInv, ReceiverOK
  <2>2. snd_nxt[Peer(e)] = Len(numbered[Peer(e)])
    BY <1>0 DEF ArqInv, SenderOK
  <2>. QED  BY <1>1, <1>2, <1>4, <2>1, <2>2
<1>8. \A i \in 1..r : dl[i] = nb[i]
  BY <1>1, <1>2, <1>4 DEF ArqInv, ReceiverOK
<1>9. \A i \in 1..l : q[i] = nb[r + i]
  BY <1>1, <1>2, <1>4 DEF ArqInv, ReceiverOK
<1>10. \A i \in 1..r : i \in 1..m
  BY <1>7
<1>11. \A i \in 1..l : r + i \in 1..m
  BY <1>7
<1>12. (\A i \in 1..r : dl[i] = w[i]) /\ (\A i \in 1..l : q[i] = w[r + i])
  BY <1>6, <1>8, <1>9, <1>10, <1>11
<1>13. r + l <= Len(w)
  BY <1>5, <1>7
<1>14. w = Written(Peer(e))
  BY <1>2, <1>3 DEF Written
<1>15. ReadState(e, w, dl, q, r, l)
  BY <1>1, <1>4, <1>12, <1>13, <1>14 DEF ReadState
<1>. QED  BY <1>15, Zenon

\* What ikcp_recv hands over begins where what was delivered before ends, and
\* ends with the last segment it takes.
LEMMA RecvBytes ==
    ASSUME TypeOK, ArqInv, ByteInv, NEW e \in EP, Recv(e)
    PROVE  \E k \in 1..Len(rcv_queue[e]), piece \in Piece, front \in Seq(Segment) :
              /\ Readable(rcv_queue[e], k)
              /\ front = SubSeq(rcv_queue[e], 1, k)
              /\ delivered' = [delivered EXCEPT ![e] = @ \o front]
              /\ recvs' = [recvs EXCEPT ![e] = Append(@, piece)]
              /\ piece.off = EndOf(delivered[e]) /\ piece.off = rcv_queue[e][1].off
              /\ piece.off + piece.len = rcv_queue[e][k].off + rcv_queue[e][k].len
              /\ UNCHANGED <<numbered, snd_queue, sends, snd_off>>
<1>1. PICK w \in Seq(Segment), dl \in Seq(Segment), q \in Seq(Segment), r \in Nat, l \in Nat :
              ReadState(e, w, dl, q, r, l)
  BY ReadIsWritten
<1>0. /\ w = Written(Peer(e)) /\ dl = delivered[e] /\ q = rcv_queue[e]
      /\ r = Len(dl) /\ l = Len(q) /\ r + l <= Len(w)
      /\ \A i \in 1..r : dl[i] = w[i]
      /\ \A i \in 1..l : q[i] = w[r + i]
  BY <1>1 DEF ReadState
<1>2. PICK k \in 1..Len(rcv_queue[e]) :
        /\ Readable(rcv_queue[e], k)
        /\ delivered' = [delivered EXCEPT ![e] = @ \o SubSeq(rcv_queue[e], 1, k)]
        /\ recvs' = [recvs EXCEPT ![e] =
                Append(@, [off |-> rcv_queue[e][1].off, len |-> TotalLen(rcv_queue[e], k)])]
        /\ UNCHANGED <<numbered, snd_queue, sends, snd_off>>
  BY DEF Recv, sndVars
<1>3. k \in 1..l /\ k \in 1..Len(q)
  BY <1>0, <1>2
<1>4. r + l <= Len(w) /\ Len(w) \in Nat
  <2>1. r + l <= Len(w)
    BY <1>0, Zenon
  <2>2. Len(w) \in Nat
    BY LenProperties
  <2>. QED  BY <2>1, <2>2
<1>5. \A i \in 1..Len(w) : w[i].off = IF i = 1 THEN 0 ELSE w[i - 1].off + w[i - 1].len
  <2>1. Consecutive(w)
    BY <1>0, PeerFacts DEF ByteInv
  <2>. QED  BY <2>1 DEF Consecutive
<1>6. ASSUME NEW i \in 2..k PROVE q[i].off = q[i - 1].off + q[i - 1].len
  <2>1. i \in 1..l /\ i - 1 \in 1..l
    BY <1>3
  <2>2. r + i \in 1..Len(w) /\ r + i # 1 /\ (r + i) - 1 = r + (i - 1)
    BY <1>3, <1>4, <2>1
  <2>3. q[i] = w[r + i] /\ q[i - 1] = w[r + (i - 1)]
    BY <1>0, <2>1
  <2>. QED  BY <1>5, <2>2, <2>3, SMTT(30)
<1>7. q[1].off = EndOf(dl)
  <2>1. 1 \in 1..l /\ r + 1 \in 1..Len(w) /\ (r + 1) - 1 = r
    BY <1>3, <1>4
  <2>2. q[1] = w[r + 1]
    BY <1>0, <2>1
  <2>3. w[r + 1].off = IF r + 1 = 1 THEN 0 ELSE w[r].off + w[r].len
    BY <1>5, <2>1
  <2>4. CASE r = 0
    <3>1. dl = <<>>
      BY <1>0, <2>4, EmptySeq
    <3>. QED  BY <2>2, <2>3, <2>4, <3>1 DEF EndOf
  <2>5. CASE r # 0
    <3>1. r \in 1..r /\ r + 1 # 1
      BY <2>5
    <3>2. dl[r] = w[r]
      BY <1>0, <3>1
    <3>3. dl # <<>>
      BY <1>0, <2>5, EmptySeq
    <3>4. EndOf(dl) = dl[r].off + dl[r].len
      BY <1>0, <3>3 DEF EndOf
    <3>. QED  BY <2>2, <2>3, <3>1, <3>2, <3>4
  <2>. QED  BY <2>4, <2>5
<1>8. TotalLen(q, k) \in Nat /\ TotalLen(q, k) = q[k].off + q[k].len - q[1].off
  BY <1>3, <1>6, TotalLenIs
<1>9. q[1].off \in Nat /\ q[k].off \in Nat /\ q[k].len \in Nat
  <2>1. 1 \in 1..Len(q)
    BY <1>3
  <2>2. q[1] \in Segment /\ q[k] \in Segment
    BY <1>3, <2>1, ElementOfSeq
  <2>. QED  BY <2>2, SegmentNats
<1>10. PICK n \in Nat : n = TotalLen(q, k)
  BY <1>8
<1>11. q[1].off + n = q[k].off + q[k].len
  BY <1>8, <1>9, <1>10, SMTT(30)
<1>12. PICK piece \in Piece : piece = [off |-> q[1].off, len |-> n]
  <2>1. PICK o \in Nat : o = q[1].off
    BY <1>9
  <2>2. [off |-> o, len |-> n] \in Piece
    BY DEF Piece
  <2>. QED  BY <2>1, <2>2, Zenon
<1>13. piece.off = q[1].off /\ piece.len = n
  BY <1>12
<1>14. recvs' = [recvs EXCEPT ![e] = Append(@, piece)]
  BY <1>0, <1>2, <1>10, <1>12
<1>15. PICK front \in Seq(Segment) : front = SubSeq(q, 1, k)
  <2>1. k \in 0..Len(q)
    BY <1>3
  <2>. QED  BY <2>1, SplitSeq
<1>16. delivered' = [delivered EXCEPT ![e] = @ \o front] /\ front = SubSeq(rcv_queue[e], 1, k)
  BY <1>0, <1>2, <1>15
<1>17. /\ piece.off = EndOf(delivered[e]) /\ piece.off = rcv_queue[e][1].off
       /\ piece.off + piece.len = rcv_queue[e][k].off + rcv_queue[e][k].len
  BY <1>0, <1>7, <1>11, <1>13, Zenon
<1>. QED  BY <1>2, <1>14, <1>16, <1>17, Zenon

\* The end of two runs is that of the second.
LEMMA EndOfConcat ==
    ASSUME NEW S, NEW s \in Seq(S), NEW t \in Seq(S), t # <<>>
    PROVE  EndOf(s \o t) = EndOf(t)
<1>1. PICK u \in Seq(S) : u = s \o t
  BY ConcatProperties
<1>2. PICK a \in Nat, b \in Nat \ {0} : a = Len(s) /\ b = Len(t)
  BY EmptySeq, LenProperties
<1>3. Len(u) = a + b
  BY <1>1, <1>2, ConcatProperties
<1>4. u[a + b] = t[b]
  BY <1>1, <1>2
<1>5. a + b # 0
  BY <1>2
<1>6. u # <<>>
  BY <1>3, <1>5, EmptySeq
<1>. QED  BY <1>1, <1>2, <1>3, <1>4, <1>6 DEF EndOf

\* One more piece, read from where the last ended.
LEMMA PieceAppended ==
    ASSUME NEW s \in Seq(Piece), NEW x \in Piece, Consecutive(s), x.off = EndOf(s)
    PROVE  /\ Append(s, x) \in Seq(Piece) /\ Consecutive(Append(s, x))
           /\ EndOf(Append(s, x)) = x.off + x.len
<1>1. PICK t \in Seq(Piece) : t = <<x>>
  <2>1. <<x>> \in Seq(Piece)
    OBVIOUS
  <2>. QED  BY <2>1, Zenon
<1>2. t # <<>> /\ Len(t) = 1 /\ t[1] = x
  BY <1>1
<1>3. Continues(t, EndOf(s))
  BY <1>2 DEF Continues
<1>4. Append(s, x) = s \o t
  BY <1>1, AppendIsConcat
<1>5. Consecutive(s \o t) /\ EndOf(s \o t) = t[Len(t)].off + t[Len(t)].len
  BY <1>3, Continued
<1>6. Append(s, x) \in Seq(Piece)
  BY AppendProperties
<1>. QED  BY <1>2, <1>4, <1>5, <1>6

-----------------------------------------------------------------------------
(* The order of bytes.                                                     *)

\* ikcp_recv preserves the invariant.
LEMMA RecvByteInv ==
    ASSUME TypeOK, ArqInv, ByteInv, NEW e \in EP, Recv(e)
    PROVE  ByteInv'
<1>1. PICK k \in 1..Len(rcv_queue[e]), piece \in Piece, front \in Seq(Segment) :
              /\ Readable(rcv_queue[e], k)
              /\ front = SubSeq(rcv_queue[e], 1, k)
              /\ delivered' = [delivered EXCEPT ![e] = @ \o front]
              /\ recvs' = [recvs EXCEPT ![e] = Append(@, piece)]
              /\ piece.off = EndOf(delivered[e]) /\ piece.off = rcv_queue[e][1].off
              /\ piece.off + piece.len = rcv_queue[e][k].off + rcv_queue[e][k].len
              /\ UNCHANGED <<numbered, snd_queue, sends, snd_off>>
  BY RecvBytes
<1>2. /\ recvs \in [EP -> Seq(Piece)] /\ recvs[e] \in Seq(Piece)
      /\ Consecutive(recvs[e]) /\ EndOf(recvs[e]) = EndOf(delivered[e])
  BY DEF ByteInv
<1>3. delivered \in [EP -> Seq(Segment)] /\ delivered[e] \in Seq(Segment)
  BY DEF TypeOK
<1>4. PICK out \in Seq(Piece) :
         /\ out = Append(recvs[e], piece) /\ Consecutive(out)
         /\ EndOf(out) = piece.off + piece.len
  BY <1>1, <1>2, PieceAppended
<1>5. PICK q \in Seq(Segment) : q = rcv_queue[e]
  BY DEF TypeOK
<1>6. k \in 1..Len(q) /\ k \in 0..Len(q) /\ k \in 1..k
  BY <1>5
<1>7. Len(front) = k /\ front[k] = q[k]
  BY <1>1, <1>5, <1>6, SplitSeq
<1>8. front # <<>>
  BY <1>6, <1>7, EmptySeq
<1>9. EndOf(front) = q[k].off + q[k].len
  BY <1>7, <1>8 DEF EndOf
<1>10. EndOf(delivered[e] \o front) = q[k].off + q[k].len
  BY <1>3, <1>8, <1>9, EndOfConcat
<1>11. EndOf(delivered[e] \o front) = EndOf(out)
  BY <1>1, <1>4, <1>5, <1>10, Zenon
<1>12. delivered'[e] = delivered[e] \o front /\ \A x \in EP \ {e} : delivered'[x] = delivered[x]
  BY <1>1, <1>3
<1>13. /\ recvs' \in [EP -> Seq(Piece)] /\ recvs'[e] = out
       /\ \A x \in EP \ {e} : recvs'[x] = recvs[x]
  BY <1>1, <1>2, <1>4
<1>14. ASSUME NEW x \in EP
       PROVE  Consecutive(recvs'[x]) /\ EndOf(recvs'[x]) = EndOf(delivered'[x])
  <2>1. CASE x = e
    BY <1>4, <1>11, <1>12, <1>13, <2>1, Zenon
  <2>2. CASE x # e
    BY <1>12, <1>13, <2>2 DEF ByteInv
  <2>. QED  BY <2>1, <2>2
<1>15. ASSUME NEW x \in EP
       PROVE  Consecutive(Written(x)') /\ EndOf(Written(x)') = snd_off'[x]
  <2>1. Written(x)' = Written(x) /\ snd_off'[x] = snd_off[x]
    BY <1>1 DEF Written
  <2>. QED  BY <2>1 DEF ByteInv
<1>. QED  BY <1>13, <1>14, <1>15 DEF ByteInv

\* ikcp_send preserves the invariant.
LEMMA SendByteInv ==
    ASSUME TypeOK, ByteInv, NEW e \in EP, NEW len \in Nat, Send(e, len)
    PROVE  ByteInv'
<1>1. /\ Consecutive(Written(e)') /\ EndOf(Written(e)') = snd_off'[e]
      /\ \A x \in EP \ {e} : Written(x)' = Written(x) /\ snd_off'[x] = snd_off[x]
  BY SendWritten
<1>2. UNCHANGED <<delivered, recvs>>
  BY DEF Send
<1>3. ASSUME NEW x \in EP
      PROVE  Consecutive(Written(x)') /\ EndOf(Written(x)') = snd_off'[x]
  <2>1. CASE x = e
    BY <1>1, <2>1
  <2>2. CASE x # e
    <3>1. Written(x)' = Written(x) /\ snd_off'[x] = snd_off[x]
      BY <1>1, <2>2
    <3>. QED  BY <3>1 DEF ByteInv
  <2>. QED  BY <2>1, <2>2
<1>4. recvs' \in [EP -> Seq(Piece)]
  BY <1>2 DEF ByteInv
<1>5. ASSUME NEW x \in EP
      PROVE  Consecutive(recvs'[x]) /\ EndOf(recvs'[x]) = EndOf(delivered'[x])
  BY <1>2 DEF ByteInv
<1>. QED  BY <1>3, <1>4, <1>5 DEF ByteInv

\* Segments that only move preserve it.
LEMMA MovedByteInv ==
    ASSUME ByteInv, OnlyMoved
    PROVE  ByteInv'
<1>1. ASSUME NEW x \in EP
      PROVE  Consecutive(Written(x)') /\ EndOf(Written(x)') = snd_off'[x]
  <2>1. Written(x)' = Written(x) /\ snd_off'[x] = snd_off[x]
    BY DEF OnlyMoved
  <2>. QED  BY <2>1 DEF ByteInv
<1>2. UNCHANGED <<delivered, recvs>>
  BY DEF OnlyMoved
<1>3. recvs' \in [EP -> Seq(Piece)]
  BY <1>2 DEF ByteInv
<1>4. ASSUME NEW x \in EP
      PROVE  Consecutive(recvs'[x]) /\ EndOf(recvs'[x]) = EndOf(delivered'[x])
  BY <1>2 DEF ByteInv
<1>. QED  BY <1>1, <1>3, <1>4 DEF ByteInv

\* Nothing written, nothing read.
LEMMA InitByteInv == Init => ByteInv
<1> SUFFICES ASSUME Init PROVE ByteInv
  OBVIOUS
<1>1. ASSUME NEW e \in EP
      PROVE  /\ numbered[e] = <<>> /\ snd_queue[e] = <<>> /\ delivered[e] = <<>>
             /\ recvs[e] = <<>> /\ snd_off[e] = 0
  BY DEF Init
<1>2. recvs \in [EP -> Seq(Piece)]
  BY DEF Init
<1>3. Consecutive(<<>>) /\ EndOf(<<>>) = 0
  BY DEF Consecutive, EndOf
<1>4. <<>> \o <<>> = <<>>
  OBVIOUS
<1>. QED  BY <1>1, <1>2, <1>3, <1>4 DEF ByteInv, Written

\* Every step of the two endpoints and of the network preserves it.
LEMMA StepByteInv ==
    ASSUME TypeOK, ArqInv, ByteInv, [Next]_vars
    PROVE  ByteInv'
<1>1. CASE UNCHANGED vars
  <2>1. OnlyMoved
    BY <1>1 DEF OnlyMoved, Written, vars, sndVars, histVars
  <2>. QED  BY <2>1, MovedByteInv
<1>2. CASE Next
  <2>1. PICK e \in EP :
            \/ \E len \in Lens : Len(sends[e]) < MaxSends[e] /\ Send(e, len)
            \/ Recv(e)
            \/ \E d \in net[e] : Deliver(e, d)
            \/ FlushStep(e)
    BY <1>2 DEF Next
  <2>2. CASE \E len \in Lens : Len(sends[e]) < MaxSends[e] /\ Send(e, len)
    <3>1. PICK len \in Lens : Send(e, len)
      BY <2>2
    <3>2. len \in Nat
      BY SegmentAssumption
    <3>. QED  BY <3>1, <3>2, SendByteInv
  <2>3. CASE Recv(e)
    BY <2>3, RecvByteInv
  <2>4. CASE \E d \in net[e] : Deliver(e, d)
    BY <2>4, DeliverWritten, MovedByteInv
  <2>5. CASE FlushStep(e)
    BY <2>5, FlushWritten, MovedByteInv DEF FlushStep
  <2>. QED  BY <2>1, <2>2, <2>3, <2>4, <2>5
<1>. QED  BY <1>1, <1>2

\* The segments of both directions continue one another, and what was read of
\* them is what was delivered, in every state of the protocol.
THEOREM BytesContinue == Spec => []ByteInv
<1>1. Init => ByteInv
  BY InitByteInv
<1>2. TypeOK /\ ArqInv /\ ByteInv /\ [Next]_vars => ByteInv'
  BY StepByteInv
<1>. QED  BY <1>1, <1>2, TypeCorrect, ArqCorrect, PTL DEF Spec

\* The reader sees the bytes in the order they were written, each once, though
\* ikcp_send cuts, and in stream mode extends, and the network reorders: for
\* every window, mtu and length.
THEOREM BytesInOrderHolds == Spec => []BytesInOrder
<1>1. ByteInv => BytesInOrder
  BY DEF ByteInv, BytesInOrder, Consecutive
<1>. QED  BY <1>1, BytesContinue, PTL

-----------------------------------------------------------------------------
(* Messages.                                                               *)

\* A message that ikcp_send has cut into the fragments F is one more message.
LEMMA MessageSent ==
    ASSUME NEW w \in Seq(Segment), NEW F \in Seq(Segment), F # <<>>,
           NEW in \in Seq(Piece), NEW out \in Seq(Piece), NEW read \in Nat,
           NEW ends \in [0..Len(in) -> 0..Len(w)], MessageEnds(w, in, out, read, ends),
           NEW x \in Piece, F[1].off = x.off,
           F[Len(F)].off + F[Len(F)].len = x.off + x.len,
           \A i \in 1..Len(F) : F[i].frg = Len(F) - i
    PROVE  \E more \in [0..Len(Append(in, x)) -> 0..Len(w \o F)] :
              MessageEnds(w \o F, Append(in, x), out, read, more)
<1>1. PICK u \in Seq(Segment) : u = w \o F
  BY ConcatProperties
<1>2. PICK t \in Seq(Piece) : t = Append(in, x)
  BY AppendProperties
<1>3. PICK a \in Nat : a = Len(w)
  BY LenProperties
<1>4. PICK b \in Nat \ {0} : b = Len(F)
  BY EmptySeq
<1>5. PICK n \in Nat : n = Len(in)
  BY LenProperties
<1>6. Len(u) = a + b
  BY <1>1, <1>3, <1>4, ConcatSeq
<1>7. (\A i \in 1..a : u[i] = w[i]) /\ (\A i \in 1..b : u[a + i] = F[i])
  BY <1>1, <1>3, <1>4, ConcatSeq
<1>8. Len(t) = n + 1
  BY <1>2, <1>5, AppendProperties
<1>9. (\A i \in 1..n : t[i] = in[i]) /\ t[n + 1] = x
  BY <1>2, <1>5, AppendProperties
<1>10. PICK more : more = [i \in 0..(n + 1) |-> IF i <= n THEN ends[i] ELSE a + b]
  OBVIOUS
<1>11. ends \in [0..n -> 0..a]
  BY <1>3, <1>5
<1>12. \A i \in 0..n : more[i] = ends[i] /\ ends[i] \in 0..a
  BY <1>10, <1>11
<1>13. more[n + 1] = a + b
  BY <1>10
<1>14. more \in [0..(n + 1) -> 0..(a + b)]
  BY <1>10, <1>11, SMTT(30)
<1>15. ends[0] = 0 /\ ends[n] = a
  BY <1>3, <1>5 DEF MessageEnds
<1>16. more[0] = 0 /\ more[n] = a
  BY <1>12, <1>15
<1>17. ASSUME NEW i \in 1..(n + 1)
       PROVE  /\ more[i - 1] < more[i]
              /\ \A j \in (more[i - 1] + 1)..more[i] : u[j].frg = more[i] - j
              /\ u[more[i - 1] + 1].off = t[i].off
              /\ u[more[i]].off + u[more[i]].len = t[i].off + t[i].len
  <2>1. CASE i <= n
    <3>1. i \in 1..n /\ i \in 0..n /\ i - 1 \in 0..n
      BY <2>1, SMTT(30)
    <3>2. PICK lo \in 0..a, hi \in 0..a : lo = ends[i - 1] /\ hi = ends[i]
      BY <1>12, <3>1
    <3>3. /\ lo < hi
          /\ \A j \in (lo + 1)..hi : w[j].frg = hi - j
          /\ w[lo + 1].off = in[i].off
          /\ w[hi].off + w[hi].len = in[i].off + in[i].len
      BY <1>5, <3>1, <3>2 DEF MessageEnds
    <3>4. more[i - 1] = lo /\ more[i] = hi
      BY <1>12, <3>1, <3>2
    <3>5. lo < hi
      BY <3>3
    <3>6. lo + 1 \in 1..a /\ hi \in 1..a /\ \A j \in (lo + 1)..hi : j \in 1..a
      BY <3>5
    <3>7. /\ u[lo + 1] = w[lo + 1] /\ u[hi] = w[hi]
          /\ \A j \in (lo + 1)..hi : u[j] = w[j]
      BY <1>7, <3>6
    <3>8. t[i] = in[i]
      BY <1>9, <3>1
    <3>. QED  BY <3>3, <3>4, <3>7, <3>8
  <2>2. CASE i = n + 1
    <3>1. i - 1 = n
      BY <2>2
    <3>2. more[i - 1] = a /\ more[i] = a + b /\ t[i] = x
      BY <1>9, <1>13, <1>16, <2>2, <3>1
    <3>3. a < a + b /\ 1 \in 1..b /\ b \in 1..b
      OBVIOUS
    <3>4. u[a + 1] = F[1] /\ u[a + b] = F[b]
      BY <1>7, <3>3
    <3>5. ASSUME NEW j \in (a + 1)..(a + b) PROVE u[j].frg = (a + b) - j
      <4>1. PICK y \in 1..b : j = a + y
        <5>1. j - a \in 1..b /\ j = a + (j - a)
          OBVIOUS
        <5>. QED  BY <5>1
      <4>2. u[j] = F[y]
        BY <1>7, <4>1
      <4>3. F[y].frg = b - y
        BY <1>4
      <4>4. b - y = (a + b) - j
        BY <4>1
      <4>. QED  BY <4>2, <4>3, <4>4
    <3>6. u[a + 1].off = x.off /\ u[a + b].off + u[a + b].len = x.off + x.len
      BY <1>4, <3>4
    <3>. QED  BY <3>2, <3>3, <3>5, <3>6
  <2>. QED  BY <2>1, <2>2
<1>18. PICK r \in Nat : r = Len(out)
  BY LenProperties
<1>19. /\ r <= n /\ ends[r] = read
       /\ \A i \in 1..r : out[i] = in[i]
  BY <1>5, <1>18 DEF MessageEnds
<1>20. r <= n + 1 /\ r \in 0..n /\ \A i \in 1..r : i \in 1..n
  <2>1. r <= n
    BY <1>19
  <2>. QED  BY <2>1
<1>21. more[r] = read /\ \A i \in 1..r : out[i] = t[i]
  BY <1>9, <1>12, <1>19, <1>20
<1>22. MessageEnds(u, t, out, read, more)
  <2>1. more[0] = 0 /\ more[Len(t)] = Len(u)
    BY <1>6, <1>8, <1>13, <1>16
  <2>2. \A i \in 1..Len(t) : i \in 1..(n + 1)
    BY <1>8
  <2>3. Len(out) <= Len(t)
    BY <1>8, <1>18, <1>20
  <2>4. more[Len(out)] = read /\ \A i \in 1..Len(out) : out[i] = t[i]
    BY <1>18, <1>21
  <2>. QED  BY <1>17, <2>1, <2>2, <2>3, <2>4 DEF MessageEnds
<1>23. more \in [0..Len(t) -> 0..Len(u)]
  BY <1>6, <1>8, <1>14
<1>. QED  BY <1>1, <1>2, <1>22, <1>23, Zenon

\* The queue q holds the l segments of w behind those that were read.
QueueHolds(w, q, read, l) ==
    /\ l = Len(q) /\ read + l <= Len(w)
    /\ \A i \in 1..l : q[i] = w[read + i]

\* Where ikcp_peeksize finds a complete message, its fragments are all of the
\* next message and nothing more: frg counts down to the end of the message.
LEMMA MessageRead ==
    ASSUME NEW w \in Seq(Segment), NEW q \in Seq(Segment),
           NEW in \in Seq(Piece), NEW out \in Seq(Piece), NEW read \in Nat,
           NEW ends \in [0..Len(in) -> 0..Len(w)], MessageEnds(w, in, out, read, ends),
           NEW l \in Nat, QueueHolds(w, q, read, l),
           NEW k \in 1..l, Readable(q, k),
           NEW x \in Piece, x.off = q[1].off, x.off + x.len = q[k].off + q[k].len
    PROVE  MessageEnds(w, in, Append(out, x), read + k, ends)
<1>0. l = Len(q) /\ \A i \in 1..l : q[i] = w[read + i]
  BY DEF QueueHolds
<1>1. PICK a \in Nat : a = Len(w)
  BY LenProperties
<1>2. PICK n \in Nat, r \in Nat : n = Len(in) /\ r = Len(out)
  BY LenProperties
<1>3. ends \in [0..n -> 0..a]
  BY <1>1, <1>2
<1>4. ends[n] = a /\ ends[r] = read
  BY <1>1, <1>2 DEF MessageEnds
<1>5. r <= n
  BY <1>2 DEF MessageEnds
<1>6. read + l <= a /\ l >= 1
  BY <1>1 DEF QueueHolds
<1>7. r # n
  BY <1>4, <1>6
<1>8. r + 1 \in 1..n /\ (r + 1) - 1 = r /\ r + 1 \in 0..n
  BY <1>5, <1>7
<1>9. PICK hi \in 0..a : hi = ends[r + 1]
  BY <1>3, <1>8
<1>10. /\ read < hi
       /\ \A j \in (read + 1)..hi : w[j].frg = hi - j
       /\ w[read + 1].off = in[r + 1].off
       /\ w[hi].off + w[hi].len = in[r + 1].off + in[r + 1].len
  <2>1. /\ ends[(r + 1) - 1] < ends[r + 1]
        /\ \A j \in (ends[(r + 1) - 1] + 1)..ends[r + 1] : w[j].frg = ends[r + 1] - j
        /\ w[ends[(r + 1) - 1] + 1].off = in[r + 1].off
        /\ w[ends[r + 1]].off + w[ends[r + 1]].len = in[r + 1].off + in[r + 1].len
    BY <1>2, <1>8 DEF MessageEnds
  <2>2. ends[(r + 1) - 1] = read
    BY <1>4, <1>8
  <2>. QED  BY <1>9, <2>1, <2>2, Zenon
<1>11. read < hi
  BY <1>10
<1>12. PICK m \in Nat \ {0} : hi = read + m
  <2>1. hi - read \in Nat \ {0} /\ hi = read + (hi - read)
    BY <1>11
  <2>. QED  BY <2>1
\* The segments of the message that are queued, with their frg.
<1>13. ASSUME NEW i \in 1..l, i <= m PROVE q[i].frg = m - i
  <2>1. read + i \in (read + 1)..hi
    BY <1>12, <1>13
  <2>2. q[i] = w[read + i]
    BY <1>0
  <2>3. w[read + i].frg = hi - (read + i)
    BY <1>10, <2>1
  <2>4. hi - (read + i) = m - i
    BY <1>12
  <2>. QED  BY <2>2, <2>3, <2>4
<1>14. /\ Head(q).frg = 0 \/ l >= Head(q).frg + 1
       /\ \A i \in 1..(k - 1) : q[i].frg # 0
       /\ q[k].frg = 0 \/ k = l
  BY <1>0 DEF Readable
<1>15. l >= m
  <2>1. Head(q) = q[1]
    BY <1>0, <1>6, EmptySeq
  <2>2. 1 \in 1..l /\ 1 <= m
    BY <1>6
  <2>3. q[1].frg = m - 1
    BY <1>13, <2>2
  <2>4. m - 1 = 0 \/ l >= (m - 1) + 1
    BY <1>14, <2>1, <2>3
  <2>. QED  BY <1>6, <2>4
<1>16. k <= m
  <2>1. SUFFICES ASSUME k > m PROVE FALSE
    OBVIOUS
  <2>2. m \in 1..(k - 1) /\ m \in 1..l /\ m <= m
    BY <2>1, <1>15
  <2>3. q[m].frg # 0
    BY <1>14, <2>2
  <2>4. q[m].frg = m - m
    BY <1>13, <2>2
  <2>5. m - m = 0
    OBVIOUS
  <2>. QED  BY <2>3, <2>4, <2>5
<1>17. k = m
  <2>1. q[k].frg = m - k
    BY <1>13, <1>16
  <2>2. m - k = 0 \/ k = l
    BY <1>14, <2>1
  <2>. QED  BY <1>15, <1>16, <2>2
<1>18. read + k = hi
  BY <1>12, <1>17
<1>19. x = in[r + 1]
  <2>1. PICK y \in Piece : y = in[r + 1]
    BY <1>2, <1>8, ElementOfSeq
  <2>2. 1 \in 1..l
    BY <1>6
  <2>3. q[1] = w[read + 1] /\ q[k] = w[read + k]
    BY <1>0, <2>2
  <2>4. x.off = y.off
    BY <1>10, <2>1, <2>3
  <2>5. x.off + x.len = y.off + y.len
    BY <1>10, <1>18, <2>1, <2>3
  <2>6. x.off \in Nat /\ x.len \in Nat /\ y.off \in Nat /\ y.len \in Nat
    BY DEF Piece
  <2>7. x.len = y.len
    BY <2>4, <2>5, <2>6, SMTT(30)
  <2>8. x = [off |-> x.off, len |-> x.len] /\ y = [off |-> y.off, len |-> y.len]
    BY DEF Piece
  <2>. QED  BY <2>1, <2>4, <2>7, <2>8, Zenon
<1>20. PICK v \in Seq(Piece) : v = Append(out, x)
  BY AppendProperties
<1>21. Len(v) = r + 1
  BY <1>2, <1>20, AppendProperties
<1>22. (\A i \in 1..r : v[i] = out[i]) /\ v[r + 1] = x
  BY <1>2, <1>20, AppendProperties
<1>23. \A i \in 1..r : out[i] = in[i]
  BY <1>2 DEF MessageEnds
<1>24. ASSUME NEW i \in 1..(r + 1) PROVE v[i] = in[i]
  <2>1. CASE i = r + 1
    BY <1>19, <1>22, <2>1
  <2>2. CASE i # r + 1
    <3>1. i \in 1..r
      BY <2>2
    <3>. QED  BY <1>22, <1>23, <3>1
  <2>. QED  BY <2>1, <2>2
<1>25. Len(v) <= Len(in)
  BY <1>2, <1>8, <1>21
<1>26. ends[Len(v)] = read + k
  BY <1>9, <1>18, <1>21
<1>27. \A i \in 1..Len(v) : v[i] = in[i]
  BY <1>21, <1>24
<1>. QED  BY <1>20, <1>25, <1>26, <1>27 DEF MessageEnds

\* The invariant of one direction, from e to its peer.
Direction(e) ==
    \E ends \in [0..Len(sends[e]) -> 0..Len(Written(e))] :
        MessageEnds(Written(e), sends[e], recvs[Peer(e)], Len(delivered[Peer(e)]), ends)

\* A direction in which nothing is written or read.
LEMMA DirectionKept ==
    ASSUME NEW e \in EP, Direction(e), Written(e)' = Written(e), sends'[e] = sends[e],
           recvs'[Peer(e)] = recvs[Peer(e)], delivered'[Peer(e)] = delivered[Peer(e)]
    PROVE  Direction(e)'
BY DEF Direction

\* ikcp_send adds one message in its direction, or nothing.
LEMMA SendMessageInv ==
    ASSUME ~Stream, TypeOK, ByteInv, MessageInv, NEW e \in EP, NEW len \in Nat, Send(e, len)
    PROVE  MessageInv'
<1>1. /\ \A x \in EP \ {e} : Written(x)' = Written(x)
      /\ \/ Written(e)' = Written(e) /\ sends' = sends
         \/ /\ Written(e)' = Written(e) \o Fragments(snd_off[e], len)
            /\ sends' = [sends EXCEPT ![e] = Append(@, [off |-> snd_off[e], len |-> len])]
  BY SendWritten
<1>2. UNCHANGED <<delivered, recvs>>
  BY DEF Send
<1>3. sends \in [EP -> Seq(Piece)] /\ \A x \in EP : Direction(x)
  BY DEF MessageInv, Direction
<1>4. CASE Written(e)' = Written(e) /\ sends' = sends
  <2>1. \A x \in EP : Written(x)' = Written(x)
    BY <1>1, <1>4
  <2>2. \A x \in EP : Direction(x)'
    BY <1>2, <1>3, <1>4, <2>1, DirectionKept
  <2>. QED  BY <1>3, <1>4, <2>2 DEF MessageInv, Direction
<1>5. CASE /\ Written(e)' = Written(e) \o Fragments(snd_off[e], len)
           /\ sends' = [sends EXCEPT ![e] = Append(@, [off |-> snd_off[e], len |-> len])]
  <2>1. PICK o \in Nat : o = snd_off[e]
    BY DEF TypeOK
  <2>2. PICK x \in Piece : x = [off |-> o, len |-> len]
    BY DEF Piece
  <2>3. x.off = o /\ x.len = len
    BY <2>2
  <2>4. PICK F \in Seq(Segment) :
           /\ F = Fragments(o, len) /\ Len(F) \in Nat \ {0}
           /\ Continues(F, o)
           /\ F[Len(F)].off + F[Len(F)].len = o + len
           /\ ~Stream => \A i \in 1..Len(F) : F[i].frg = Len(F) - i
    BY FragmentsFacts
  <2>5. F # <<>> /\ F[1].off = x.off /\ F[Len(F)].off + F[Len(F)].len = x.off + x.len
    BY <2>3, <2>4, Zenon DEF Continues
  <2>6. \A i \in 1..Len(F) : F[i].frg = Len(F) - i
    BY <2>4
  <2>7. PICK in \in Seq(Piece), out \in Seq(Piece) : in = sends[e] /\ out = recvs[Peer(e)]
    BY <1>3, PeerFacts DEF ByteInv
  <2>8. PICK w \in Seq(Segment) : w = Written(e)
    <3>1. numbered[e] \in Seq(Segment) /\ snd_queue[e] \in Seq(Segment)
      BY DEF TypeOK
    <3>. QED  BY <3>1, ConcatProperties DEF Written
  <2>9. PICK read \in Nat : read = Len(delivered[Peer(e)])
    <3>1. delivered[Peer(e)] \in Seq(Segment)
      BY PeerFacts DEF TypeOK
    <3>. QED  BY <3>1, LenProperties
  <2>10. PICK ends \in [0..Len(in) -> 0..Len(w)] : MessageEnds(w, in, out, read, ends)
    <3>1. Direction(e)
      BY <1>3
    <3>. QED  BY <2>7, <2>8, <2>9, <3>1 DEF Direction
  <2>11. \E more \in [0..Len(Append(in, x)) -> 0..Len(w \o F)] :
            MessageEnds(w \o F, Append(in, x), out, read, more)
    BY <2>5, <2>6, <2>10, MessageSent
  <2>12. Written(e)' = w \o F
    BY <1>5, <2>1, <2>4, <2>8
  <2>13. /\ sends' \in [EP -> Seq(Piece)] /\ sends'[e] = Append(in, x)
         /\ \A y \in EP \ {e} : sends'[y] = sends[y]
    <3>1. Append(sends[e], x) \in Seq(Piece)
      BY <2>7, AppendProperties
    <3>2. sends' = [sends EXCEPT ![e] = Append(sends[e], x)]
      BY <1>5, <2>1, <2>2
    <3>. QED  BY <1>3, <2>7, <3>1, <3>2
  <2>14. recvs'[Peer(e)] = out /\ Len(delivered'[Peer(e)]) = read
    BY <1>2, <2>7, <2>9
  <2>15. Direction(e)'
    <3>1. /\ Len(sends'[e]) = Len(Append(in, x)) /\ Len(Written(e)') = Len(w \o F)
      BY <2>12, <2>13
    <3>. QED  BY <2>11, <2>12, <2>13, <2>14, <3>1 DEF Direction
  <2>16. ASSUME NEW y \in EP, y # e PROVE Direction(y)'
    BY <1>1, <1>2, <1>3, <2>13, <2>16, DirectionKept
  <2>. QED  BY <2>13, <2>15, <2>16 DEF MessageInv, Direction
<1>. QED  BY <1>1, <1>4, <1>5

\* ikcp_recv takes the next message out of the other direction.
LEMMA RecvMessageInv ==
    ASSUME TypeOK, ArqInv, ByteInv, MessageInv, NEW e \in EP, Recv(e)
    PROVE  MessageInv'
<1>1. PICK k \in 1..Len(rcv_queue[e]), x \in Piece, front \in Seq(Segment) :
              /\ Readable(rcv_queue[e], k)
              /\ front = SubSeq(rcv_queue[e], 1, k)
              /\ delivered' = [delivered EXCEPT ![e] = @ \o front]
              /\ recvs' = [recvs EXCEPT ![e] = Append(@, x)]
              /\ x.off = EndOf(delivered[e]) /\ x.off = rcv_queue[e][1].off
              /\ x.off + x.len = rcv_queue[e][k].off + rcv_queue[e][k].len
              /\ UNCHANGED <<numbered, snd_queue, sends, snd_off>>
  BY RecvBytes
<1>2. PICK w \in Seq(Segment), dl \in Seq(Segment), q \in Seq(Segment), read \in Nat, l \in Nat :
              ReadState(e, w, dl, q, read, l)
  BY ReadIsWritten
<1>3. /\ w = Written(Peer(e)) /\ dl = delivered[e] /\ q = rcv_queue[e]
      /\ read = Len(dl) /\ l = Len(q)
      /\ \A i \in 1..l : q[i] = w[read + i]
  BY <1>2 DEF ReadState
<1>4. read + l <= Len(w)
  BY <1>2 DEF ReadState
<1>5. Peer(e) \in EP /\ Peer(Peer(e)) = e /\ \A y \in EP : y # Peer(e) => Peer(y) # e
  BY PeerFacts
<1>6. sends \in [EP -> Seq(Piece)] /\ \A y \in EP : Direction(y)
  BY DEF MessageInv, Direction
<1>7. PICK in \in Seq(Piece), out \in Seq(Piece) : in = sends[Peer(e)] /\ out = recvs[e]
  BY <1>5, <1>6 DEF ByteInv
<1>8. PICK ends \in [0..Len(in) -> 0..Len(w)] : MessageEnds(w, in, out, read, ends)
  <2>1. Direction(Peer(e))
    BY <1>5, <1>6
  <2>. QED  BY <1>3, <1>5, <1>7, <2>1 DEF Direction
<1>9. /\ k \in 1..l /\ Readable(q, k) /\ x.off = q[1].off
      /\ x.off + x.len = q[k].off + q[k].len
  BY <1>1, <1>3, Zenon
<1>10. MessageEnds(w, in, Append(out, x), read + k, ends)
  <2>1. QueueHolds(w, q, read, l)
    BY <1>3, <1>4 DEF QueueHolds
  <2>. QED  BY <1>8, <1>9, <2>1, MessageRead
<1>11. Len(front) = k
  <2>1. k \in 0..Len(q)
    BY <1>3, <1>9
  <2>2. Len(SubSeq(q, 1, k)) = k
    BY <2>1, SplitSeq
  <2>. QED  BY <1>1, <1>3, <2>2
<1>12. Len(dl \o front) = read + k
  BY <1>3, <1>11, ConcatSeq
<1>13. delivered \in [EP -> Seq(Segment)] /\ recvs \in [EP -> Seq(Piece)]
  BY DEF TypeOK, ByteInv
<1>14. /\ Len(delivered'[e]) = read + k /\ recvs'[e] = Append(out, x)
       /\ \A y \in EP \ {e} : delivered'[y] = delivered[y] /\ recvs'[y] = recvs[y]
  <2>1. delivered'[e] = dl \o front
    BY <1>1, <1>3, <1>13
  <2>. QED  BY <1>1, <1>7, <1>12, <1>13, <2>1
<1>15. sends' = sends /\ \A y \in EP : Written(y)' = Written(y)
  BY <1>1 DEF Written
<1>16. Direction(Peer(e))'
  <2>1. Written(Peer(e))' = w /\ sends'[Peer(e)] = in
    BY <1>3, <1>5, <1>7, <1>15
  <2>. QED  BY <1>5, <1>8, <1>10, <1>14, <2>1 DEF Direction
<1>17. ASSUME NEW y \in EP, y # Peer(e) PROVE Direction(y)'
  <2>1. Peer(y) \in EP \ {e}
    BY <1>5, <1>17, PeerFacts
  <2>. QED  BY <1>6, <1>14, <1>15, <2>1, DirectionKept
<1>. QED  BY <1>6, <1>15, <1>16, <1>17 DEF MessageInv, Direction

\* Segments that only move preserve the invariant.
LEMMA MovedMessageInv ==
    ASSUME MessageInv, OnlyMoved
    PROVE  MessageInv'
<1>1. \A x \in EP : Direction(x)
  BY DEF MessageInv, Direction
<1>2. \A x \in EP : Direction(x)'
  BY <1>1, PeerFacts, DirectionKept DEF OnlyMoved
<1>. QED  BY <1>2 DEF MessageInv, Direction, OnlyMoved

\* No message yet.
LEMMA InitMessageInv == Init => MessageInv
<1> SUFFICES ASSUME Init PROVE MessageInv
  OBVIOUS
<1>1. ASSUME NEW e \in EP
      PROVE  /\ Written(e) = <<>> /\ sends[e] = <<>>
             /\ recvs[Peer(e)] = <<>> /\ delivered[Peer(e)] = <<>>
  <2>1. <<>> \o <<>> = <<>>
    OBVIOUS
  <2>. QED  BY <2>1, PeerFacts DEF Init, Written
<1>2. PICK ends : ends = [i \in 0..0 |-> 0]
  OBVIOUS
<1>3. MessageEnds(<<>>, <<>>, <<>>, 0, ends)
  BY <1>2 DEF MessageEnds
<1>4. Len(<<>>) = 0 /\ ends \in [0..0 -> 0..0]
  BY <1>2
<1>5. sends \in [EP -> Seq(Piece)]
  BY DEF Init
<1>. QED  BY <1>1, <1>3, <1>4, <1>5 DEF MessageInv

\* s is where t begins, as in FifoChannel.
Prefix(s, t) == Len(s) <= Len(t) /\ \A i \in 1..Len(s) : s[i] = t[i]

\* A sequence begins with itself, and so does a longer one.
LEMMA PrefixAppend ==
    ASSUME NEW s \in Seq(Piece), NEW x \in Piece
    PROVE  Prefix(s, s) /\ Prefix(s, Append(s, x))
<1>1. PICK n \in Nat : n = Len(s)
  BY LenProperties
<1>2. PICK t \in Seq(Piece) : t = Append(s, x)
  BY AppendProperties
<1>3. Len(t) = n + 1
  BY <1>1, <1>2, AppendProperties
<1>4. \A i \in 1..n : t[i] = s[i]
  BY <1>1, <1>2, AppendProperties
<1>5. Len(s) <= Len(t) /\ Len(s) <= Len(s)
  BY <1>1, <1>3
<1>. QED  BY <1>1, <1>2, <1>4, <1>5 DEF Prefix

\* What a step does to the direction from e: nothing, put or get.
ChannelStep(e) ==
    \/ sends'[e] = sends[e] /\ recvs'[Peer(e)] = recvs[Peer(e)]
    \/ Prefix(sends[e], sends'[e]) /\ recvs'[Peer(e)] = recvs[Peer(e)]
    \/ /\ Prefix(recvs[Peer(e)], recvs'[Peer(e)]) /\ Prefix(recvs'[Peer(e)], sends[e])
       /\ sends'[e] = sends[e]

\* Every step in message mode preserves the invariant, and is a step, or a
\* stutter, of the channel in each direction.
LEMMA StepMessageInv ==
    ASSUME ~Stream, TypeOK, ArqInv, ByteInv, MessageInv, [Next]_vars
    PROVE  MessageInv' /\ \A e \in EP : ChannelStep(e)
<1>1. ASSUME OnlyMoved PROVE MessageInv' /\ \A e \in EP : ChannelStep(e)
  <2>1. MessageInv'
    BY <1>1, MovedMessageInv
  <2>2. UNCHANGED <<sends, recvs>>
    BY <1>1 DEF OnlyMoved
  <2>. QED  BY <2>1, <2>2 DEF ChannelStep
<1>2. sends \in [EP -> Seq(Piece)] /\ recvs \in [EP -> Seq(Piece)]
  BY DEF MessageInv, ByteInv
<1>3. ASSUME NEW e \in EP, NEW len \in Lens, Send(e, len)
      PROVE  MessageInv' /\ \A y \in EP : ChannelStep(y)
  <2>1. len \in Nat
    BY SegmentAssumption
  <2>2. MessageInv'
    BY <1>3, <2>1, SendMessageInv
  <2>3. PICK o \in Nat : o = snd_off[e]
    BY DEF TypeOK
  <2>4. PICK x \in Piece : x = [off |-> o, len |-> len]
    BY <2>1 DEF Piece
  <2>5. /\ recvs' = recvs
        /\ sends' = sends \/ sends' = [sends EXCEPT ![e] = Append(@, x)]
    BY <1>3, <2>3, <2>4 DEF Send
  <2>6. Prefix(sends[e], Append(sends[e], x))
    BY <1>2, PrefixAppend
  <2>7. ASSUME NEW y \in EP PROVE ChannelStep(y)
    <3>1. sends'[y] = sends[y] \/ (y = e /\ sends'[y] = Append(sends[y], x))
      BY <1>2, <2>5
    <3>. QED  BY <2>5, <2>6, <3>1 DEF ChannelStep
  <2>. QED  BY <2>2, <2>7
<1>4. ASSUME NEW e \in EP, Recv(e) PROVE MessageInv' /\ \A y \in EP : ChannelStep(y)
  <2>1. MessageInv'
    BY <1>4, RecvMessageInv
  <2>2. PICK x \in Piece : recvs' = [recvs EXCEPT ![e] = Append(@, x)]
    BY <1>4, RecvBytes
  <2>3. sends' = sends
    BY <1>4 DEF Recv
  <2>4. Prefix(recvs[e], Append(recvs[e], x))
    BY <1>2, PrefixAppend
  <2>5. ASSUME NEW y \in EP PROVE ChannelStep(y)
    <3>1. CASE Peer(y) # e
      <4>1. recvs'[Peer(y)] = recvs[Peer(y)]
        BY <1>2, <2>2, <3>1, PeerFacts
      <4>. QED  BY <2>3, <4>1 DEF ChannelStep
    <3>2. CASE Peer(y) = e
      <4>1. recvs'[Peer(y)] = Append(recvs[e], x)
        BY <1>2, <2>2, <3>2
      <4>2. PICK ends \in [0..Len(sends'[y]) -> 0..Len(Written(y)')] :
               MessageEnds(Written(y)', sends'[y], recvs'[Peer(y)], Len(delivered'[Peer(y)]), ends)
        BY <2>1 DEF MessageInv
      <4>3. Prefix(recvs'[Peer(y)], sends'[y])
        BY <4>2 DEF MessageEnds, Prefix
      <4>. QED  BY <2>3, <2>4, <3>2, <4>1, <4>3 DEF ChannelStep
    <3>. QED  BY <3>1, <3>2
  <2>. QED  BY <2>1, <2>5
<1>5. ASSUME NEW e \in EP, NEW d \in net[e], Deliver(e, d) PROVE OnlyMoved
  BY <1>5, DeliverWritten
<1>6. ASSUME NEW e \in EP, FlushStep(e) PROVE OnlyMoved
  BY <1>6, FlushWritten DEF FlushStep
<1>7. CASE UNCHANGED vars
  <2>1. OnlyMoved
    BY <1>7 DEF OnlyMoved, Written, vars, sndVars, histVars
  <2>. QED  BY <1>1, <2>1
<1>8. CASE Next
  <2>1. PICK e \in EP :
            \/ \E len \in Lens : Send(e, len)
            \/ Recv(e)
            \/ \E d \in net[e] : Deliver(e, d)
            \/ FlushStep(e)
    BY <1>8 DEF Next
  <2>. QED  BY <1>1, <1>3, <1>4, <1>5, <1>6, <2>1
<1>. QED  BY <1>7, <1>8

\* In message mode the segments are those of the messages sent, and only whole
\* messages are read, in every state of the protocol.
THEOREM MessagesWhole ==
    ASSUME ~Stream
    PROVE  Spec => []MessageInv
<1>1. Init => MessageInv
  BY InitMessageInv
<1>2. TypeOK /\ ArqInv /\ ByteInv /\ MessageInv /\ [Next]_vars => MessageInv'
  BY StepMessageInv
<1>. QED  BY <1>1, <1>2, TypeCorrect, ArqCorrect, BytesContinue, PTL DEF Spec

\* In message mode ikcp.c implements FifoChannel in both directions: initial
\* states are initial states of the channel, ikcp_send puts or stutters,
\* ikcp_recv gets, and ikcp_input and ikcp_flush stutter.
THEOREM MessagesImplementedHolds ==
    ASSUME ~Stream
    PROVE  Spec => MessagesImplemented
<1>1. Init => MessagesAB!Init /\ MessagesBA!Init
  BY DEF Init, EP, MessagesAB!Init, MessagesBA!Init
<1>2. TypeOK /\ ArqInv /\ ByteInv /\ MessageInv /\ [Next]_vars
        => [MessagesAB!Next]_<<sends[A], recvs[B]>> /\ [MessagesBA!Next]_<<sends[B], recvs[A]>>
  <2> SUFFICES ASSUME TypeOK, ArqInv, ByteInv, MessageInv, [Next]_vars
      PROVE  [MessagesAB!Next]_<<sends[A], recvs[B]>> /\ [MessagesBA!Next]_<<sends[B], recvs[A]>>
    OBVIOUS
  <2>1. A \in EP /\ B \in EP /\ Peer(A) = B /\ Peer(B) = A
    BY EndpointsDiffer DEF EP, Peer
  <2>2. ChannelStep(A) /\ ChannelStep(B)
    BY <2>1, StepMessageInv
  <2>3. [MessagesAB!Next]_<<sends[A], recvs[B]>>
    BY <2>1, <2>2 DEF ChannelStep, Prefix, MessagesAB!Next, MessagesAB!Put, MessagesAB!Get, MessagesAB!Extends
  <2>4. [MessagesBA!Next]_<<sends[B], recvs[A]>>
    BY <2>1, <2>2 DEF ChannelStep, Prefix, MessagesBA!Next, MessagesBA!Put, MessagesBA!Get, MessagesBA!Extends
  <2>. QED  BY <2>3, <2>4
<1>. QED  BY <1>1, <1>2, TypeCorrect, ArqCorrect, BytesContinue, MessagesWhole, PTL
          DEF Spec, MessagesImplemented, MessagesAB!Spec, MessagesBA!Spec
=============================================================================
