-------------------------- MODULE IkcpTimerProofs --------------------------
(***************************************************************************)
(* Proofs about IkcpTimer: for every modulus, interval, lateness and mode  *)
(* the flushes and the retransmissions come when they should, although     *)
(* timestamps wrap and the clock may be set.  First what TimeDiff computes *)
(* modulo Modulus, then ikcp_update, then the inductive invariant.         *)
(***************************************************************************)
EXTENDS IkcpTimer, TLAPS

\* The sizes that the assumption speaks of, one by one.
LEMMA Sizes ==
    /\ Modulus \in Nat \ {0} /\ Interval \in Nat \ {0}
    /\ RtoNdl \in Nat \ {0} /\ RtoMin \in Nat \ {0} /\ RtoDef \in Nat \ {0} /\ RtoMax \in Nat \ {0}
    /\ MaxSlap \in Nat \ {0} /\ MaxLate \in Nat \ {0}
    /\ MaxXmit \in Nat \ {0} /\ MaxRto \in Nat \ {0}
BY TimerAssumption

-----------------------------------------------------------------------------
(* Arithmetic of timestamps.                                               *)

\* The modulus is a positive number.
LEMMA ModulusSize == Modulus \in Nat \ {0}
BY Sizes

\* A number is its remainder and a multiple of Modulus.
LEMMA ModRep ==
    ASSUME NEW a \in Int
    PROVE  /\ a % Modulus \in Int /\ 0 <= a % Modulus /\ a % Modulus < Modulus
           /\ \E q \in Int : a = (a % Modulus) + q * Modulus
<1>1. a % Modulus \in Int /\ 0 <= a % Modulus /\ a % Modulus < Modulus
  BY ModulusSize
<1>2. a = (a \div Modulus) * Modulus + (a % Modulus)
  BY ModulusSize
<1>3. a \div Modulus \in Int
  BY ModulusSize
<1>4. \E q \in Int : a = (a % Modulus) + q * Modulus
  <2> DEFINE q == a \div Modulus
             r == a % Modulus
  <2>1. q \in Int /\ r \in Int /\ a = r + q * Modulus
    BY <1>1, <1>2, <1>3, ModulusSize
  <2> HIDE DEF q, r
  <2>2. \E x \in Int : a = r + x * Modulus
    BY <2>1
  <2>. QED BY <2>2 DEF r
<1>. QED BY <1>1, <1>4

\* Only one multiple of Modulus is nearer to zero than Modulus.
LEMMA Mult ==
    ASSUME NEW q \in Int, q * Modulus < Modulus, q * Modulus > -Modulus
    PROVE  q = 0
<1>1. \A x \in Nat : x * Modulus \in Nat /\ x * Modulus >= 0
  BY ModulusSize
<1>2. CASE q >= 1
  <2>1. (q - 1) * Modulus >= 0
    BY <1>1, <1>2
  <2>2. (q - 1) * Modulus = q * Modulus - Modulus
    BY ModulusSize
  <2>. QED BY <2>1, <2>2, ModulusSize
<1>3. CASE q <= -1
  <2>1. (-q - 1) * Modulus >= 0
    BY <1>1, <1>3
  <2>2. (-q - 1) * Modulus = -(q * Modulus) - Modulus
    BY ModulusSize
  <2>. QED BY <2>1, <2>2, ModulusSize
<1>. QED BY <1>2, <1>3

\* TimeDiff is the one representative of the difference in the signed half range.
LEMMA DiffIs ==
    ASSUME NEW a \in Int, NEW b \in Int, NEW d \in Int, -Modulus <= 2 * d, 2 * d < Modulus,
           NEW q \in Int, a - b = d + q * Modulus
    PROVE  TimeDiff(a, b) = d
<1> DEFINE m == (a - b) % Modulus
<1>1. m \in Int /\ 0 <= m /\ m < Modulus /\ \E p \in Int : a - b = m + p * Modulus
  BY ModRep
<1> HIDE DEF m
<1>2. PICK p \in Int : a - b = m + p * Modulus
  BY <1>1
<1>3. TimeDiff(a, b) = IF 2 * m >= Modulus THEN m - Modulus ELSE m
  BY DEF TimeDiff, m
<1>4. d - m = (p - q) * Modulus
  BY <1>1, <1>2, ModulusSize
<1>5. (p - q) \in Int
  OBVIOUS
<1>6. CASE d >= 0
  <2>1. (p - q) * Modulus < Modulus /\ (p - q) * Modulus > -Modulus
    BY <1>1, <1>4, <1>6, ModulusSize
  <2>2. p - q = 0
    BY <1>5, <2>1, Mult
  <2>3. d = m
    BY <1>1, <1>4, <2>2, ModulusSize
  <2>. QED  BY <1>3, <2>3, ModulusSize
<1>7. CASE d < 0
  <2>1. (p - q + 1) * Modulus = d + Modulus - m
    BY <1>1, <1>4, ModulusSize
  <2>2. (p - q + 1) * Modulus < Modulus /\ (p - q + 1) * Modulus > -Modulus
    BY <1>1, <2>1, <1>7, ModulusSize
  <2>3. p - q + 1 = 0
    BY <2>2, Mult
  <2>4. m = d + Modulus
    BY <1>1, <2>1, <2>3, ModulusSize
  <2>. QED  BY <1>3, <2>4, ModulusSize
<1>. QED  BY <1>6, <1>7

\* TimeDiff is in the signed half range and represents the difference.
LEMMA DiffRep ==
    ASSUME NEW a \in Int, NEW b \in Int
    PROVE  /\ TimeDiff(a, b) \in Int
           /\ -Modulus <= 2 * TimeDiff(a, b) /\ 2 * TimeDiff(a, b) < Modulus
           /\ \E q \in Int : a - b = TimeDiff(a, b) + q * Modulus
<1> DEFINE m == (a - b) % Modulus
<1>1. m \in Int /\ 0 <= m /\ m < Modulus /\ \E p \in Int : a - b = m + p * Modulus
  BY ModRep
<1> HIDE DEF m
<1>2. PICK p \in Int : a - b = m + p * Modulus
  BY <1>1
<1>3. TimeDiff(a, b) = IF 2 * m >= Modulus THEN m - Modulus ELSE m
  BY DEF TimeDiff, m
<1>4. CASE 2 * m >= Modulus
  <2>1. a - b = (m - Modulus) + (p + 1) * Modulus
    BY <1>1, <1>2, ModulusSize
  <2>. QED  BY <1>1, <1>3, <1>4, <2>1, ModulusSize
<1>5. CASE ~(2 * m >= Modulus)
  BY <1>1, <1>2, <1>3, <1>5, ModulusSize
<1>. QED  BY <1>4, <1>5

\* After wraps by a multiple of Modulus.
LEMMA AfterRep ==
    ASSUME NEW t \in Int, NEW d \in Int
    PROVE  After(t, d) \in Int /\ \E q \in Int : t + d = After(t, d) + q * Modulus
<1>1. t + d \in Int
  OBVIOUS
<1>. QED  BY <1>1, ModRep DEF After

\* As long as they stay in the half range differences grow with the later time,
LEMMA Later ==
    ASSUME NEW a \in Int, NEW b \in Int, NEW n \in Int,
           -Modulus <= 2 * (TimeDiff(a, b) + n), 2 * (TimeDiff(a, b) + n) < Modulus
    PROVE  TimeDiff(After(a, n), b) = TimeDiff(a, b) + n
<1>1. PICK q \in Int : a - b = TimeDiff(a, b) + q * Modulus
  BY DiffRep
<1>2. PICK p \in Int : a + n = After(a, n) + p * Modulus
  BY AfterRep
<1>3. TimeDiff(a, b) \in Int /\ After(a, n) \in Int
  BY DiffRep, AfterRep
<1>4. After(a, n) - b = (TimeDiff(a, b) + n) + (q - p) * Modulus
  BY <1>1, <1>2, <1>3, ModulusSize
<1>. QED  BY <1>3, <1>4, DiffIs

\* shrink with the earlier one,
LEMMA Earlier ==
    ASSUME NEW a \in Int, NEW b \in Int, NEW n \in Int,
           -Modulus <= 2 * (TimeDiff(a, b) - n), 2 * (TimeDiff(a, b) - n) < Modulus
    PROVE  TimeDiff(a, After(b, n)) = TimeDiff(a, b) - n
<1>1. PICK q \in Int : a - b = TimeDiff(a, b) + q * Modulus
  BY DiffRep
<1>2. PICK p \in Int : b + n = After(b, n) + p * Modulus
  BY AfterRep
<1>3. TimeDiff(a, b) \in Int /\ After(b, n) \in Int
  BY DiffRep, AfterRep
<1>4. a - After(b, n) = (TimeDiff(a, b) - n) + (q + p) * Modulus
  BY <1>1, <1>2, <1>3, ModulusSize, SMTT(30)
<1>. QED  BY <1>3, <1>4, DiffIs

\* and may be measured from a third time: what the clock needs across a wrap.
LEMMA Between ==
    ASSUME NEW a \in Int, NEW b \in Int, NEW c \in Int,
           -Modulus <= 2 * (TimeDiff(a, c) - TimeDiff(b, c)),
           2 * (TimeDiff(a, c) - TimeDiff(b, c)) < Modulus
    PROVE  TimeDiff(a, b) = TimeDiff(a, c) - TimeDiff(b, c)
<1>1. PICK q \in Int : a - c = TimeDiff(a, c) + q * Modulus
  BY DiffRep
<1>2. PICK p \in Int : b - c = TimeDiff(b, c) + p * Modulus
  BY DiffRep
<1>3. TimeDiff(a, c) \in Int /\ TimeDiff(b, c) \in Int
  BY DiffRep
<1>4. a - b = (TimeDiff(a, c) - TimeDiff(b, c)) + (q - p) * Modulus
  BY <1>1, <1>2, <1>3, ModulusSize
<1>. QED  BY <1>3, <1>4, DiffIs

\* No time has passed since now, and differences have signs.
LEMMA DiffSelf ==
    ASSUME NEW a \in Int
    PROVE  TimeDiff(a, a) = 0
<1>1. a - a = 0 + 0 * Modulus
  BY Sizes
<1>. QED  BY <1>1, DiffIs, Sizes

\* The difference the other way round is the negative one, short of the extreme.
LEMMA DiffNeg ==
    ASSUME NEW a \in Int, NEW b \in Int, 2 * TimeDiff(b, a) > -Modulus
    PROVE  TimeDiff(a, b) = -TimeDiff(b, a)
<1>1. TimeDiff(b, a) \in Int /\ 2 * TimeDiff(b, a) < Modulus
  BY DiffRep
<1>2. TimeDiff(a, a) = 0
  BY DiffSelf
<1>. QED  BY <1>1, <1>2, Between, Sizes

\* A time d from now is d away.
LEMMA AfterNow ==
    ASSUME NEW t \in Int, NEW d \in Int, -Modulus < 2 * d, 2 * d < Modulus
    PROVE  /\ After(t, d) \in Int
           /\ TimeDiff(After(t, d), t) = d
           /\ TimeDiff(t, After(t, d)) = -d
<1>1. After(t, d) \in Int
  BY AfterRep
<1>2. TimeDiff(t, t) = 0
  BY DiffSelf
<1>3. TimeDiff(After(t, d), t) = d
  BY <1>2, Later, Sizes
<1>. QED  BY <1>1, <1>3, DiffNeg, Sizes

-----------------------------------------------------------------------------
(* Times measured from the last update.                                    *)

\* The distances are numbers.
LEMMA Distances ==
    ASSUME TimerTypeOK
    PROVE  Elapsed \in Int /\ ToFlush \in Int /\ ToResend \in Int
BY DiffRep DEF TimerTypeOK, Elapsed, ToFlush, ToResend

\* Before the driver is late for more than MaxLate the flush is as far away as
\* the last update said, less the time since.
LEMMA FlushDistance ==
    ASSUME TimerTypeOK, FlushInv, NEW bound \in Int, Steady(bound)
    PROVE  /\ TimeDiff(iclock, kcp.ts_flush) = Elapsed - ToFlush
           /\ TimeDiff(kcp.ts_flush, iclock) = ToFlush - Elapsed
           /\ Elapsed \in 0..(MaxSlap + MaxLate) /\ ToFlush \in 1..MaxSlap
           /\ Elapsed - ToFlush <= -sleep
<1>1. Elapsed \in Int /\ ToFlush \in Int /\ iclock \in Int /\ kcp.ts_flush \in Int
         /\ kcp.current \in Int /\ sleep \in Int
  BY Distances DEF TimerTypeOK
<1>2. Elapsed >= 0 /\ ToFlush \in 1..MaxSlap /\ sleep + Elapsed <= ToFlush /\ sleep >= -MaxLate
  BY DEF Steady, FlushInv
<1>3. Elapsed \in 0..(MaxSlap + MaxLate) /\ Elapsed - ToFlush <= -sleep
  BY <1>1, <1>2, Sizes
<1>4. -Modulus < 2 * (Elapsed - ToFlush) /\ 2 * (Elapsed - ToFlush) < Modulus
  BY <1>1, <1>2, <1>3, Sizes, TimerAssumption
<1>5. TimeDiff(iclock, kcp.ts_flush) = Elapsed - ToFlush
  BY <1>1, <1>4, Between, Sizes DEF Elapsed, ToFlush
<1>6. TimeDiff(kcp.ts_flush, iclock) = ToFlush - Elapsed
  BY <1>1, <1>4, <1>5, DiffNeg, Sizes
<1>. QED  BY <1>2, <1>3, <1>5, <1>6

\* So is the time at which the segment will be sent again.
LEMMA ResendDistance ==
    ASSUME TimerTypeOK, FlushInv, ResendInv, ~adjusted, seg.xmit > 0
    PROVE  /\ TimeDiff(iclock, seg.resendts) = Elapsed - ToResend
           /\ TimeDiff(seg.resendts, iclock) = ToResend - Elapsed
           /\ Steady(Interval)
<1>1. Elapsed \in Int /\ ToFlush \in Int /\ ToResend \in Int /\ sinceSent \in Nat /\ seg.rto \in 0..(2 * MaxRto)
         /\ iclock \in Int /\ seg.resendts \in Int /\ kcp.current \in Int /\ seg.xmit \in Int /\ sleep \in Int
  BY Distances DEF TimerTypeOK
<1>2. kcp.updated
  BY <1>1 DEF FlushInv
<1>3. Steady(Interval)
  BY <1>2 DEF FlushInv
<1>4. Elapsed - ToFlush <= -sleep /\ sleep >= -MaxLate /\ Elapsed >= 0
  BY <1>3, FlushDistance, Sizes DEF FlushInv, Steady
<1>5. /\ sinceSent >= Elapsed /\ sinceSent - Elapsed + ToResend <= seg.rto + seg.rto \div 8
      /\ ToFlush - ToResend <= Interval
  BY <1>1 DEF ResendInv
<1>6. ToResend <= seg.rto + seg.rto \div 8
  BY <1>1, <1>5
<1>7. -Modulus < 2 * (Elapsed - ToResend)
  BY <1>1, <1>4, <1>6, Sizes, TimerAssumption
<1>8. 2 * (Elapsed - ToResend) < Modulus
  BY <1>1, <1>4, <1>5, Sizes, TimerAssumption
<1>9. TimeDiff(iclock, seg.resendts) = Elapsed - ToResend
  BY <1>1, <1>7, <1>8, Between, Sizes DEF Elapsed, ToResend
<1>10. TimeDiff(seg.resendts, iclock) = ToResend - Elapsed
  BY <1>1, <1>7, <1>8, <1>9, DiffNeg, Sizes
<1>. QED  BY <1>3, <1>9, <1>10

-----------------------------------------------------------------------------
(* ikcp_update.                                                            *)

KcpType == [nodelay : 0..2, minrto : Nat \ {0}, current : Int, ts_flush : Int,
            updated : BOOLEAN, srtt : Int, rttval : Int, rto : 1..RtoMax]
SegType == [xmit : Int, ts : Int, rto : 0..(2 * MaxRto), resendts : Int]

\* ikcp_check never sleeps past the next flush.
LEMMA CheckBound ==
    ASSUME NEW k \in KcpType, NEW s \in SegType, TimeDiff(k.ts_flush, k.current) >= 1
    PROVE  Check(k, s) \in Int /\ 0 <= Check(k, s) /\ Check(k, s) <= TimeDiff(k.ts_flush, k.current)
<1>1. TimeDiff(k.ts_flush, k.current) \in Int /\ TimeDiff(s.resendts, k.current) \in Int
  BY DiffRep DEF KcpType, SegType
<1>. QED  BY <1>1, Sizes DEF Check, Smaller

\* ts_flush after a flush is one interval away at most, but not now.
LEMMA NextFlushSoon ==
    ASSUME NEW k \in KcpType, TimeDiff(k.current, k.ts_flush) \in 0..(MaxSlap - 1)
    PROVE  NextFlush(k) \in Int /\ TimeDiff(NextFlush(k), k.current) \in 1..Interval
<1>1. k.current \in Int /\ k.ts_flush \in Int /\ Interval \in Int
  BY Sizes DEF KcpType
<1> DEFINE t == After(k.ts_flush, Interval)
           D == TimeDiff(k.current, k.ts_flush)
<1>2. t \in Int /\ D \in Int
  BY <1>1, AfterRep, DiffRep
<1>3. -Modulus < 2 * (D - Interval) /\ 2 * (D - Interval) < Modulus
  BY <1>2, Sizes, TimerAssumption
<1>4. TimeDiff(k.current, t) = D - Interval
  BY <1>1, <1>3, Earlier, Sizes
<1>5. TimeDiff(t, k.current) = Interval - D
  BY <1>1, <1>2, <1>3, <1>4, DiffNeg, Sizes
<1>6. CASE Reached(k.current, t)
  <2>1. NextFlush(k) = After(k.current, Interval)
    BY <1>6 DEF NextFlush
  <2>2. -Modulus < 2 * Interval /\ 2 * Interval < Modulus
    BY Sizes, TimerAssumption
  <2>3. TimeDiff(After(k.current, Interval), k.current) = Interval /\ After(k.current, Interval) \in Int
    BY <1>1, <2>2, AfterNow
  <2>. QED  BY <2>1, <2>3, Sizes
<1>7. CASE ~Reached(k.current, t)
  <2>1. NextFlush(k) = t
    BY <1>7 DEF NextFlush
  <2>2. D - Interval < 0
    BY <1>2, <1>4, <1>7, Sizes DEF Reached
  <2>. QED  BY <1>2, <1>5, <2>1, <2>2, Sizes
<1>. QED  BY <1>6, <1>7

\* kcp as flush finds it.
LEMMA AwakeFacts ==
    ASSUME TimerTypeOK
    PROVE  /\ Awake(iclock) \in KcpType
           /\ Awake(iclock).current = iclock /\ Awake(iclock).updated
           /\ Awake(iclock).rto = kcp.rto /\ Awake(iclock).nodelay = kcp.nodelay
           /\ \/ Awake(iclock).ts_flush = iclock
              \/ /\ kcp.updated /\ Awake(iclock).ts_flush = kcp.ts_flush
                 /\ TimeDiff(iclock, kcp.ts_flush) \in -MaxSlap..(MaxSlap - 1)
<1>1. kcp \in KcpType /\ iclock \in Int
  BY DEF TimerTypeOK, KcpType
<1> DEFINE k == [kcp EXCEPT !.current = iclock, !.updated = TRUE]
<1>2. /\ k \in KcpType /\ k.current = iclock /\ k.updated /\ k.ts_flush = kcp.ts_flush
      /\ k.rto = kcp.rto /\ k.nodelay = kcp.nodelay
  BY <1>1 DEF KcpType
<1>3. CASE ~kcp.updated \/ Astray(k)
  <2>1. Awake(iclock) = [k EXCEPT !.ts_flush = iclock]
    BY <1>3 DEF Awake
  <2> HIDE DEF k
  <2>2. Awake(iclock) \in KcpType
    BY <1>1, <1>2, <2>1 DEF KcpType
  <2>3. Awake(iclock).current = iclock /\ Awake(iclock).updated /\ Awake(iclock).ts_flush = iclock
    BY <1>1, <1>2, <2>1 DEF KcpType
  <2>4. Awake(iclock).rto = kcp.rto /\ Awake(iclock).nodelay = kcp.nodelay
    BY <1>1, <1>2, <2>1 DEF KcpType
  <2>. QED  BY <2>2, <2>3, <2>4
<1>4. CASE kcp.updated /\ ~Astray(k)
  <2>1. Awake(iclock) = k
    BY <1>4 DEF Awake
  <2> HIDE DEF k
  <2>2. TimeDiff(iclock, kcp.ts_flush) \in -MaxSlap..(MaxSlap - 1)
    BY <1>2, <1>4 DEF Astray
  <2>. QED  BY <1>2, <1>4, <2>1, <2>2
<1>. QED  BY <1>3, <1>4

\* A segment that flush sends is due again after its rto, or an eighth more.
LEMMA ResentFacts ==
    ASSUME NEW k \in KcpType, NEW s \in SegType, NEW r, r = Resent(s, k),
           s.xmit > 0 => s.rto >= 1,
           s.xmit > 0 /\ Reached(k.current, s.resendts) => s.rto <= MaxRto
    PROVE  /\ r \in SegType
           /\ \/ /\ r = s /\ s.xmit # 0
                 /\ s.xmit > 0 => ~Reached(k.current, s.resendts)
              \/ /\ r.xmit = s.xmit + 1 /\ r.xmit > 0 /\ r.rto >= 1
                 /\ s.xmit > 0 => Reached(k.current, s.resendts)
                 /\ TimeDiff(r.resendts, k.current) \in r.rto..(r.rto + r.rto \div 8)
                 /\ ~Reached(k.current, r.resendts)
<1>1. /\ k.current \in Int /\ k.rto \in 1..RtoMax /\ k.nodelay \in 0..2
      /\ s.xmit \in Int /\ s.rto \in 0..(2 * MaxRto)
  BY DEF KcpType, SegType
<1>2. ASSUME NEW d \in Int, NEW rto \in 1..(2 * MaxRto), d \in rto..(rto + rto \div 8)
      PROVE  /\ After(k.current, d) \in Int
             /\ TimeDiff(After(k.current, d), k.current) = d
             /\ ~Reached(k.current, After(k.current, d))
  <2>1. rto \div 8 \in Int /\ 8 * (rto \div 8) <= rto
    OBVIOUS
  <2>2. 1 <= d /\ -Modulus < 2 * d /\ 2 * d < Modulus
    BY <1>2, <2>1, Sizes, TimerAssumption
  <2>. QED  BY <1>1, <2>2, AfterNow DEF Reached
<1>3. CASE s.xmit = 0
  <2>1. PICK d \in Int : d = k.rto + (IF k.nodelay = 0 THEN k.rto \div 8 ELSE 0)
    BY <1>1
  <2>2. d \in k.rto..(k.rto + k.rto \div 8) /\ k.rto \in 1..(2 * MaxRto)
    BY <1>1, <2>1, Sizes, TimerAssumption
  <2>3. r = [xmit |-> 1, ts |-> k.current, rto |-> k.rto, resendts |-> After(k.current, d)]
    BY <1>3, <2>1 DEF Resent
  <2>4. r.xmit = 1 /\ r.rto = k.rto /\ r.resendts = After(k.current, d)
    BY <2>3
  <2>5. /\ After(k.current, d) \in Int
        /\ TimeDiff(After(k.current, d), k.current) = d
        /\ ~Reached(k.current, After(k.current, d))
    BY <1>2, <2>2
  <2>6. r \in SegType
    BY <1>1, <2>2, <2>3, <2>5 DEF SegType
  <2>. QED  BY <1>1, <1>3, <2>2, <2>4, <2>5, <2>6
<1>4. CASE s.xmit > 0 /\ Reached(k.current, s.resendts)
  <2>1. PICK more \in Int : more = CASE k.nodelay = 0 -> Larger(s.rto, k.rto)
                                     [] k.nodelay = 1 -> s.rto \div 2
                                     [] k.nodelay = 2 -> k.rto \div 2
    BY <1>1 DEF Larger
  <2>2. s.rto + more \in 1..(2 * MaxRto)
    BY <1>1, <1>4, <2>1, Sizes, TimerAssumption DEF Larger
  <2>3. s.rto + more \in (s.rto + more)..((s.rto + more) + (s.rto + more) \div 8) /\ s.rto + more \in Int
    BY <1>1, <2>2
  <2>4. r = [xmit |-> s.xmit + 1, ts |-> k.current, rto |-> s.rto + more,
             resendts |-> After(k.current, s.rto + more)]
    BY <1>1, <1>4, <2>1 DEF Resent
  <2>5. r.xmit = s.xmit + 1 /\ r.rto = s.rto + more /\ r.resendts = After(k.current, s.rto + more)
    BY <2>4
  <2>6. /\ After(k.current, s.rto + more) \in Int
        /\ TimeDiff(After(k.current, s.rto + more), k.current) = s.rto + more
        /\ ~Reached(k.current, After(k.current, s.rto + more))
    BY <1>2, <2>2, <2>3
  <2>7. r \in SegType
    BY <1>1, <2>2, <2>4, <2>6 DEF SegType
  <2>8. r.rto >= 1 /\ TimeDiff(r.resendts, k.current) \in r.rto..(r.rto + r.rto \div 8)
    BY <2>2, <2>3, <2>5, <2>6
  <2>9. ~Reached(k.current, r.resendts) /\ r.xmit > 0
    BY <1>1, <1>4, <2>5, <2>6
  <2>. QED  BY <1>4, <2>5, <2>7, <2>8, <2>9
<1>5. CASE s.xmit # 0 /\ ~(s.xmit > 0 /\ Reached(k.current, s.resendts))
  <2>1. r = s
    BY <1>5 DEF Resent
  <2>. QED  BY <1>5, <2>1
<1>. QED  BY <1>3, <1>4, <1>5

\* A flush of ikcp_update: the segment is left alone, or has been sent.
Flushed ==
    /\ sinceFlush' = 0 /\ ToFlush' <= Interval
    /\ \/ /\ seg' = seg /\ sinceSent' = sinceSent
          /\ seg.xmit > 0 => ~Reached(iclock, seg.resendts)
       \/ /\ seg'.xmit = seg.xmit + 1 /\ seg'.xmit > 0 /\ seg'.rto >= 1 /\ sinceSent' = 0
          /\ seg.xmit > 0 => Reached(iclock, seg.resendts)
          /\ ToResend' \in seg'.rto..(seg'.rto + seg'.rto \div 8)
          /\ ~Reached(iclock, seg'.resendts)

\* It is too early for one.
NotFlushed ==
    /\ kcp.updated /\ kcp'.ts_flush = kcp.ts_flush
    /\ TimeDiff(iclock, kcp.ts_flush) < 0
    /\ UNCHANGED <<seg, sinceFlush, sinceSent>>

\* What ikcp_update and ikcp_check do to the times.
LEMMA UpdateFacts ==
    ASSUME TimerInv, Update
    PROVE  /\ kcp' \in KcpType /\ seg' \in SegType /\ sleep' \in Int
           /\ kcp'.current = iclock /\ kcp'.updated /\ iclock' = iclock /\ adjusted' = adjusted
           /\ Elapsed' = 0 /\ ToFlush' \in 1..MaxSlap
           /\ 0 <= sleep' /\ sleep' <= ToFlush'
           /\ Flushed \/ NotFlushed
<1>1. /\ kcp \in KcpType /\ seg \in SegType /\ iclock \in Int /\ TimerTypeOK /\ seg.xmit \in Int
      /\ sinceSent \in Nat /\ seg.rto \in 0..(2 * MaxRto)
  BY DEF TimerInv, TimerTypeOK, KcpType, SegType
<1>2. PICK k \in KcpType : k = Awake(iclock)
  BY <1>1, AwakeFacts
<1>3. /\ k.current = iclock /\ k.updated /\ k.ts_flush \in Int
      /\ \/ k.ts_flush = iclock
         \/ /\ kcp.updated /\ k.ts_flush = kcp.ts_flush
            /\ TimeDiff(iclock, kcp.ts_flush) \in -MaxSlap..(MaxSlap - 1)
  BY <1>1, <1>2, AwakeFacts DEF KcpType
<1>4. /\ iclock' = iclock /\ adjusted' = adjusted /\ sleep' = Check(kcp', seg')
      /\ IF Reached(iclock, k.ts_flush)
         THEN /\ kcp' = [k EXCEPT !.ts_flush = NextFlush(k)]
              /\ seg' = Resent(seg, k)
              /\ sinceFlush' = 0
              /\ sinceSent' = IF seg'.xmit > seg.xmit THEN 0 ELSE sinceSent
         ELSE /\ kcp' = k
              /\ UNCHANGED <<seg, sinceFlush, sinceSent>>
  BY <1>2 DEF Update
<1>5. CASE Reached(iclock, k.ts_flush)
  <2>1. TimeDiff(k.current, k.ts_flush) \in 0..(MaxSlap - 1)
    <3>1. CASE k.ts_flush = iclock
      BY <1>1, <1>3, <3>1, DiffSelf, Sizes
    <3>2. CASE k.ts_flush # iclock
      BY <1>3, <1>5, <3>2, Sizes DEF Reached
    <3>. QED  BY <3>1, <3>2
  <2>2. NextFlush(k) \in Int /\ TimeDiff(NextFlush(k), k.current) \in 1..Interval
    BY <2>1, NextFlushSoon
  <2>3. kcp' = [k EXCEPT !.ts_flush = NextFlush(k)]
    BY <1>4, <1>5
  <2>4. kcp' \in KcpType /\ kcp'.current = iclock /\ kcp'.updated /\ kcp'.ts_flush = NextFlush(k)
    BY <1>3, <2>2, <2>3 DEF KcpType
  <2>5. ToFlush' \in 1..Interval
    BY <1>3, <2>2, <2>4 DEF ToFlush
  <2>6. seg.xmit > 0 /\ Reached(k.current, seg.resendts) => seg.rto <= MaxRto
    BY <1>1, <1>3, Sizes DEF TimerInv, InTime
  <2>7. seg.xmit > 0 => seg.rto >= 1
    BY DEF TimerInv, TimerTypeOK
  <2>8. PICK r : r = Resent(seg, k)
    OBVIOUS
  <2>9. seg' = r /\ sinceFlush' = 0 /\ sinceSent' = IF seg'.xmit > seg.xmit THEN 0 ELSE sinceSent
    BY <1>4, <1>5, <2>8
  <2>10. /\ r \in SegType
         /\ \/ /\ r = seg /\ seg.xmit # 0
               /\ seg.xmit > 0 => ~Reached(k.current, seg.resendts)
            \/ /\ r.xmit = seg.xmit + 1 /\ r.xmit > 0 /\ r.rto >= 1
               /\ seg.xmit > 0 => Reached(k.current, seg.resendts)
               /\ TimeDiff(r.resendts, k.current) \in r.rto..(r.rto + r.rto \div 8)
               /\ ~Reached(k.current, r.resendts)
    BY <1>1, <2>6, <2>7, <2>8, ResentFacts
  <2>11. ToResend' = TimeDiff(r.resendts, iclock)
    BY <2>4, <2>9 DEF ToResend
  <2>12. ASSUME r = seg, seg.xmit > 0 => ~Reached(k.current, seg.resendts)
         PROVE  Flushed
    <3>1. sinceSent' = sinceSent
      BY <1>1, <2>9, <2>12
    <3>. QED  BY <1>3, <2>5, <2>9, <2>12, <3>1, Sizes DEF Flushed
  <2>13. ASSUME r.xmit = seg.xmit + 1, r.xmit > 0, r.rto >= 1,
                seg.xmit > 0 => Reached(k.current, seg.resendts),
                TimeDiff(r.resendts, k.current) \in r.rto..(r.rto + r.rto \div 8),
                ~Reached(k.current, r.resendts)
         PROVE  Flushed
    <3>1. sinceSent' = 0
      BY <1>1, <2>9, <2>13
    <3>. QED  BY <1>3, <2>5, <2>9, <2>11, <2>13, <3>1, Sizes DEF Flushed
  <2>14. Flushed
    BY <2>10, <2>12, <2>13
  <2>15. Elapsed' = 0
    BY <1>1, <1>4, <2>4, DiffSelf DEF Elapsed
  <2>16. ToFlush' = TimeDiff(kcp'.ts_flush, kcp'.current) /\ seg' \in SegType
    BY <2>9, <2>10 DEF ToFlush
  <2>17. ToFlush' \in 1..MaxSlap /\ ToFlush' >= 1
    BY <2>5, Sizes, TimerAssumption
  <2>18. sleep' \in Int /\ 0 <= sleep' /\ sleep' <= ToFlush'
    BY <1>4, <2>4, <2>16, <2>17, CheckBound
  <2>. QED  BY <1>4, <2>4, <2>14, <2>15, <2>16, <2>17, <2>18
<1>6. CASE ~Reached(iclock, k.ts_flush)
  <2>1. kcp' = k /\ seg' = seg /\ sinceFlush' = sinceFlush /\ sinceSent' = sinceSent
    BY <1>4, <1>6
  <2>2. k.ts_flush # iclock
    BY <1>1, <1>6, DiffSelf DEF Reached
  <2>3. kcp.updated /\ k.ts_flush = kcp.ts_flush /\ TimeDiff(iclock, kcp.ts_flush) \in -MaxSlap..(MaxSlap - 1)
    BY <1>3, <2>2
  <2>4. TimeDiff(iclock, kcp.ts_flush) \in -MaxSlap..-1
    BY <1>6, <2>3, Sizes DEF Reached
  <2>5. NotFlushed
    BY <2>1, <2>3, <2>4, Sizes DEF NotFlushed
  <2>6. 2 * TimeDiff(iclock, kcp.ts_flush) > -Modulus
    BY <2>4, Sizes, TimerAssumption
  <2>7. TimeDiff(kcp.ts_flush, iclock) = -TimeDiff(iclock, kcp.ts_flush)
    BY <1>1, <1>3, <2>3, <2>6, DiffNeg
  <2>8. ToFlush' = TimeDiff(kcp'.ts_flush, kcp'.current) /\ ToFlush' = TimeDiff(kcp.ts_flush, iclock)
    BY <1>3, <2>1, <2>3 DEF ToFlush
  <2>9. ToFlush' \in 1..MaxSlap /\ ToFlush' >= 1
    BY <2>4, <2>7, <2>8, Sizes
  <2>10. sleep' \in Int /\ 0 <= sleep' /\ sleep' <= ToFlush'
    BY <1>1, <1>4, <2>1, <2>8, <2>9, CheckBound
  <2>11. Elapsed' = 0
    BY <1>1, <1>3, <1>4, <2>1, DiffSelf DEF Elapsed
  <2>. QED  BY <1>1, <1>3, <1>4, <2>1, <2>5, <2>9, <2>10, <2>11
<1>. QED  BY <1>5, <1>6

-----------------------------------------------------------------------------
(* The invariant, action by action.                                        *)

\* The timer starts in the invariant.
LEMMA InitInv == TimerInit => TimerInv
<1> SUFFICES ASSUME TimerInit PROVE TimerInv
  OBVIOUS
<1>1. PICK nodelay \in 0..2 :
         kcp = [nodelay |-> nodelay, minrto |-> IF nodelay = 0 THEN RtoMin ELSE RtoNdl,
                current |-> 0, ts_flush |-> 0, updated |-> FALSE,
                srtt |-> 0, rttval |-> 0, rto |-> RtoDef]
  BY DEF TimerInit
<1>2. /\ iclock = 0 /\ sleep = 0 /\ sinceFlush = 0 /\ sinceSent = 0 /\ adjusted = FALSE
      /\ seg = [xmit |-> -1, ts |-> 0, rto |-> 0, resendts |-> 0]
  BY DEF TimerInit, NoSegment
<1>3. RtoDef \in 1..RtoMax
  BY Sizes, TimerAssumption
<1>4. TimerTypeOK
  <2>1. kcp \in [nodelay : 0..2, minrto : Nat \ {0}, current : Int, ts_flush : Int,
                 updated : BOOLEAN, srtt : Int, rttval : Int, rto : 1..RtoMax]
    BY <1>1, <1>3, Sizes
  <2>2. seg \in [xmit : Int, ts : Int, rto : 0..(2 * MaxRto), resendts : Int] /\ seg.xmit = -1
    BY <1>2, Sizes
  <2>3. iclock \in Int /\ sleep \in Int /\ sinceFlush \in Nat /\ sinceSent \in Nat
    BY <1>2
  <2>4. adjusted \in BOOLEAN
    BY <1>2, Zenon
  <2>5. ~(seg.xmit > 0)
    BY <2>2
  <2>. QED  BY <2>1, <2>2, <2>3, <2>4, <2>5, Zenon DEF TimerTypeOK
<1>5. ~kcp.updated /\ seg.xmit = -1 /\ seg.rto = 0
  BY <1>1, <1>2
<1>6. InTime(iclock)
  BY <1>5, Sizes DEF InTime
<1>7. FlushInv /\ ResendInv
  BY <1>2, <1>5, Sizes DEF FlushInv, ResendInv
<1>. QED  BY <1>4, <1>6, <1>7 DEF TimerInv

\* Steady and ResendInv of the next state from its numbers.
LEMMA SteadyNext ==
    ASSUME NEW bound, NEW e, NEW fl, NEW sl, NEW sf,
           Elapsed' = e, ToFlush' = fl, sleep' = sl, sinceFlush' = sf,
           e >= 0, fl \in 1..MaxSlap, sl + e <= fl, sf >= e, sf - e + fl <= bound
    PROVE  Steady(bound)'
BY Zenon DEF Steady

\* When the next resend is in its range after a step.
LEMMA ResendNext ==
    ASSUME NEW e, NEW fl, NEW rs, NEW ss, NEW rto,
           Elapsed' = e, ToFlush' = fl, ToResend' = rs, sinceSent' = ss, seg'.rto = rto,
           ss >= e, ss - e + rs \in rto..(rto + rto \div 8), fl - rs <= Interval
    PROVE  ResendInv'
BY Zenon DEF ResendInv

\* The driver's step.  A flush starts the count anew; without one the
\* distances shrink by the time since the last update.
LEMMA UpdateInv ==
    ASSUME TimerInv, Update
    PROVE  TimerInv'
<1>1. /\ kcp' \in KcpType /\ seg' \in SegType /\ sleep' \in Int
      /\ kcp'.current = iclock /\ kcp'.updated /\ iclock' = iclock /\ adjusted' = adjusted
      /\ Elapsed' = 0 /\ ToFlush' \in 1..MaxSlap
      /\ 0 <= sleep' /\ sleep' <= ToFlush'
      /\ Flushed \/ NotFlushed
  BY UpdateFacts
<1>2. /\ iclock \in Int /\ sleep \in Int /\ sinceFlush \in Nat /\ sinceSent \in Nat /\ adjusted \in BOOLEAN
      /\ kcp.current \in Int /\ seg.xmit \in Int /\ seg.rto \in 0..(2 * MaxRto)
      /\ seg.xmit > 0 => seg.rto >= 1
      /\ TimerTypeOK /\ FlushInv /\ ResendInv /\ InTime(iclock)
  BY DEF TimerInv, TimerTypeOK
<1>3. PICK fl \in 1..MaxSlap : ToFlush' = fl
  BY <1>1
<1>4. PICK sl \in Int : sleep' = sl
  BY <1>1
<1>5. 0 <= sl /\ sl <= fl /\ fl \in Int /\ Elapsed' = 0 /\ 0 >= 0 /\ sl + 0 <= fl
  BY <1>1, <1>3, <1>4, Sizes
<1>6. sleep \in Int /\ sinceFlush \in Nat /\ sinceSent \in Nat
  BY <1>2
<1>7. Elapsed \in Int /\ ToFlush \in Int /\ ToResend \in Int
  BY <1>2, Distances
<1>8. sinceFlush' \in Nat /\ sinceSent' \in Nat /\ (seg'.xmit > 0 => seg'.rto >= 1)
  BY <1>1, <1>2 DEF Flushed, NotFlushed
<1>9. TimerTypeOK'
  BY <1>1, <1>2, <1>8 DEF TimerTypeOK, KcpType, SegType
<1>10. InTime(iclock)'
  <2>1. CASE seg' = seg
    BY <1>1, <1>2, <2>1 DEF InTime
  <2>2. CASE ~Reached(iclock, seg'.resendts)
    BY <1>1, <2>2 DEF InTime
  <2>. QED  BY <1>1, <2>1, <2>2 DEF Flushed, NotFlushed
<1>11. ASSUME NotFlushed, NEW bound \in Int, Steady(bound)
      PROVE  ToFlush' = ToFlush - Elapsed /\ Steady(bound)'
  <2>1. TimeDiff(kcp.ts_flush, iclock) = ToFlush - Elapsed
    BY <1>2, <1>11, FlushDistance
  <2>2. ToFlush' = ToFlush - Elapsed
    BY <1>1, <1>11, <2>1 DEF ToFlush, NotFlushed
  <2>3. sinceFlush' = sinceFlush /\ sinceFlush - Elapsed + ToFlush <= bound
    BY <1>11 DEF NotFlushed, Steady
  <2>4. fl = ToFlush - Elapsed
    BY <1>3, <2>2
  <2>5. sinceFlush >= 0 /\ sinceFlush - 0 + fl <= bound
    BY <1>7, <1>5, <1>6, <2>3, <2>4, Sizes
  <2>6. Steady(bound)'
    BY <1>5, <1>3, <1>4, <2>3, <2>5, SteadyNext, Zenon
  <2>. QED  BY <2>2, <2>6
<1>12. FlushInv'
  <2>1. sleep' >= -MaxLate
    BY <1>1, Sizes
  <2>2. CASE Flushed
    <3>1. ASSUME NEW bound \in Int, bound >= Interval PROVE Steady(bound)'
      <4>1. sinceFlush' = 0 /\ fl <= Interval
        BY <1>3, <2>2 DEF Flushed
      <4>2. 0 - 0 + fl <= bound
        BY <1>5, <3>1, <4>1, Sizes
      <4>. QED  BY <1>5, <1>3, <1>4, <4>1, <4>2, SteadyNext, Zenon
    <3>2. Interval \in Int /\ Interval + MaxLate + MaxSlap \in Int
             /\ Interval >= Interval /\ Interval + MaxLate + MaxSlap >= Interval
      BY Sizes
    <3>3. Steady(Interval)' /\ Steady(Interval + MaxLate + MaxSlap)'
      BY <3>1, <3>2
    <3>. QED  BY <1>1, <2>1, <3>3 DEF FlushInv
  <2>3. CASE NotFlushed /\ ~adjusted
    <3>1. Steady(Interval)
      BY <1>2, <2>3 DEF FlushInv, NotFlushed
    <3>2. Steady(Interval)'
      BY <1>11, <2>3, <3>1, Sizes
    <3>. QED  BY <1>1, <2>1, <2>3, <3>2 DEF FlushInv
  <2>4. CASE NotFlushed /\ adjusted /\ Steady(Interval + MaxLate + MaxSlap)
    <3>1. Steady(Interval + MaxLate + MaxSlap)'
      BY <1>11, <2>4, Sizes
    <3>. QED  BY <1>1, <2>1, <2>4, <3>1 DEF FlushInv
  <2>5. CASE NotFlushed /\ adjusted /\ sinceFlush + sleep <= Interval
    <3>1. sinceFlush' = sinceFlush /\ sinceFlush <= Interval + MaxLate
      BY <1>2, <2>5, Sizes DEF NotFlushed, FlushInv
    <3>2. Steady(Interval + MaxLate + MaxSlap)'
      <4>1. sinceFlush >= 0 /\ sinceFlush - 0 + fl <= Interval + MaxLate + MaxSlap
        BY <1>5, <1>6, <1>3, <3>1, Sizes
      <4>. QED  BY <1>5, <1>3, <1>4, <3>1, <4>1, SteadyNext, Zenon
    <3>. QED  BY <1>1, <2>1, <2>5, <3>2 DEF FlushInv
  <2>6. adjusted => Steady(Interval + MaxLate + MaxSlap) \/ sinceFlush + sleep <= Interval
    BY <1>2 DEF FlushInv
  <2>. QED  BY <1>1, <2>2, <2>3, <2>4, <2>5, <2>6
<1>13. ResendInv'
  <2>1. CASE adjusted' \/ ~(seg'.xmit > 0)
    BY <2>1 DEF ResendInv
  <2>2. CASE ~adjusted /\ seg.xmit > 0 /\ seg' = seg /\ sinceSent' = sinceSent
    <3>1. /\ TimeDiff(iclock, seg.resendts) = Elapsed - ToResend
          /\ TimeDiff(seg.resendts, iclock) = ToResend - Elapsed
          /\ Steady(Interval)
      BY <1>2, <2>2, ResendDistance
    <3>2. ToResend' = ToResend - Elapsed
      BY <1>1, <2>2, <3>1 DEF ToResend
    <3>3. /\ sinceSent >= Elapsed
          /\ sinceSent - Elapsed + ToResend \in seg.rto..(seg.rto + seg.rto \div 8)
          /\ ToFlush - ToResend <= Interval
      BY <1>2, <2>2 DEF ResendInv
    <3>4. sinceSent >= 0 /\ sinceSent - 0 + (ToResend - Elapsed) = sinceSent - Elapsed + ToResend
      BY <1>7, <1>6
    <3>5. fl - (ToResend - Elapsed) <= Interval
      <4>1. CASE Flushed
        <5>1. ~Reached(iclock, seg.resendts) /\ fl <= Interval
          BY <1>2, <1>3, <2>2, <4>1 DEF Flushed
        <5>2. ToResend - Elapsed > 0
          BY <1>7, <3>1, <5>1 DEF Reached
        <5>. QED  BY <1>7, <1>5, <5>1, <5>2, Sizes
      <4>2. CASE NotFlushed
        <5>1. ToFlush' = ToFlush - Elapsed
          BY <1>11, <3>1, <4>2, Sizes
        <5>. QED  BY <1>7, <1>3, <3>3, <5>1, Sizes
      <4>. QED  BY <1>1, <4>1, <4>2
    <3>6. sinceSent - 0 + (ToResend - Elapsed) \in seg.rto..(seg.rto + seg.rto \div 8)
      BY <3>3, <3>4
    <3>7. seg'.rto = seg.rto
      BY <2>2
    <3>. QED  BY <1>5, <1>3, <2>2, <3>2, <3>4, <3>5, <3>6, <3>7, ResendNext, Zenon
  <2>3. CASE /\ seg'.rto >= 1 /\ sinceSent' = 0 /\ ToFlush' <= Interval
             /\ ToResend' \in seg'.rto..(seg'.rto + seg'.rto \div 8)
    <3>1. PICK rto \in Int : seg'.rto = rto
      BY <1>1 DEF SegType
    <3>2. PICK rs \in rto..(rto + rto \div 8) : ToResend' = rs
      BY <2>3, <3>1
    <3>3. rto \div 8 \in Int /\ rs \in Int /\ rs >= rto /\ rto >= 1 /\ fl <= Interval
      BY <1>3, <2>3, <3>1, <3>2
    <3>4. 0 - 0 + rs \in rto..(rto + rto \div 8) /\ fl - rs <= Interval
      BY <1>5, <3>2, <3>3, Sizes
    <3>. QED  BY <1>5, <1>3, <2>3, <3>1, <3>2, <3>4, ResendNext, Zenon
  <2>. QED  BY <1>1, <2>1, <2>2, <2>3 DEF Flushed, NotFlushed
<1>. QED  BY <1>9, <1>10, <1>12, <1>13 DEF TimerInv

\* Time passes: the flush and the resend come nearer by what has elapsed.
LEMMA TickInv ==
    ASSUME TimerInv, Tick
    PROVE  TimerInv'
<1>1. /\ sleep > -MaxLate /\ InTime(After(iclock, 1)) /\ iclock' = After(iclock, 1) /\ sleep' = sleep - 1
      /\ sinceFlush' = (IF kcp.updated THEN sinceFlush + 1 ELSE 0)
      /\ sinceSent' = (IF seg.xmit > 0 THEN sinceSent + 1 ELSE 0)
      /\ kcp' = kcp /\ seg' = seg /\ adjusted' = adjusted
  BY DEF Tick
<1>2. /\ iclock \in Int /\ sleep \in Int /\ sinceFlush \in Nat /\ sinceSent \in Nat /\ kcp.current \in Int
      /\ TimerTypeOK /\ FlushInv /\ ResendInv
  BY DEF TimerInv, TimerTypeOK
<1>3. Elapsed \in Int /\ ToFlush \in Int /\ ToResend \in Int
  BY <1>2, Distances
<1>4. TimerTypeOK'
  <2>1. iclock' \in Int
    BY <1>1, <1>2, AfterRep
  <2>2. sleep' \in Int /\ sinceFlush' \in Nat /\ sinceSent' \in Nat
    BY <1>1, <1>2
  <2>. QED  BY <1>1, <1>2, <2>1, <2>2 DEF TimerTypeOK
<1>5. InTime(iclock)'
  BY <1>1 DEF InTime
<1>6. ToFlush' = ToFlush /\ ToResend' = ToResend
  BY <1>1 DEF ToFlush, ToResend
<1>7. ASSUME NEW bound \in Int, Steady(bound), kcp.updated
      PROVE  Elapsed' = Elapsed + 1 /\ Steady(bound)'
  <2>1. /\ Elapsed >= 0 /\ ToFlush \in 1..MaxSlap /\ sleep + Elapsed <= ToFlush
        /\ sinceFlush >= Elapsed /\ sinceFlush - Elapsed + ToFlush <= bound
    BY <1>7 DEF Steady
  <2>2. -Modulus <= 2 * (Elapsed + 1) /\ 2 * (Elapsed + 1) < Modulus
    BY <1>1, <1>2, <1>3, <2>1, Sizes, TimerAssumption
  <2>3. Elapsed' = Elapsed + 1
    BY <1>1, <1>2, <2>2, Later DEF Elapsed
  <2>4. /\ Elapsed + 1 >= 0 /\ (sleep - 1) + (Elapsed + 1) <= ToFlush
        /\ sinceFlush + 1 >= Elapsed + 1 /\ (sinceFlush + 1) - (Elapsed + 1) + ToFlush <= bound
    BY <1>2, <1>3, <1>7, <2>1, Sizes
  <2>5. sinceFlush' = sinceFlush + 1
    BY <1>1, <1>7
  <2>6. Steady(bound)'
    BY <1>1, <1>6, <2>1, <2>3, <2>4, <2>5, SteadyNext, Zenon
  <2>. QED  BY <2>3, <2>6
<1>8. Interval \in Int /\ Interval + MaxLate + MaxSlap \in Int
  BY Sizes
<1>9. FlushInv'
  <2>1. sleep' >= -MaxLate
    BY <1>1, <1>2, Sizes
  <2>2. CASE ~kcp.updated
    BY <1>1, <1>2, <2>1, <2>2 DEF FlushInv
  <2>3. CASE kcp.updated /\ ~adjusted
    <3>1. Steady(Interval)'
      BY <1>2, <1>7, <1>8, <2>3 DEF FlushInv
    <3>. QED  BY <1>1, <2>1, <2>3, <3>1 DEF FlushInv
  <2>4. CASE kcp.updated /\ adjusted /\ Steady(Interval + MaxLate + MaxSlap)
    <3>1. Steady(Interval + MaxLate + MaxSlap)'
      BY <1>7, <1>8, <2>4
    <3>. QED  BY <1>1, <2>1, <2>4, <3>1 DEF FlushInv
  <2>5. CASE kcp.updated /\ adjusted /\ sinceFlush + sleep <= Interval
    <3>1. sinceFlush' + sleep' <= Interval
      BY <1>1, <1>2, <2>5, Sizes
    <3>. QED  BY <1>1, <2>1, <2>5, <3>1 DEF FlushInv
  <2>. QED  BY <1>2, <2>2, <2>3, <2>4, <2>5 DEF FlushInv
<1>10. ResendInv'
  <2>1. CASE adjusted \/ ~(seg.xmit > 0)
    BY <1>1, <2>1 DEF ResendInv
  <2>2. CASE ~adjusted /\ seg.xmit > 0
    <3>1. Steady(Interval) /\ kcp.updated
      <4>1. seg.xmit \in Int
        BY <1>2 DEF TimerTypeOK
      <4>. QED  BY <1>2, <2>2, <4>1, ResendDistance DEF FlushInv
    <3>2. Elapsed' = Elapsed + 1
      BY <1>7, <1>8, <3>1
    <3>3. /\ sinceSent >= Elapsed
          /\ sinceSent - Elapsed + ToResend \in seg.rto..(seg.rto + seg.rto \div 8)
          /\ ToFlush - ToResend <= Interval
      BY <1>2, <2>2 DEF ResendInv
    <3>4. /\ sinceSent + 1 >= Elapsed + 1
          /\ (sinceSent + 1) - (Elapsed + 1) + ToResend = sinceSent - Elapsed + ToResend
      BY <1>2, <1>3, <3>3
    <3>5. (sinceSent + 1) - (Elapsed + 1) + ToResend \in seg.rto..(seg.rto + seg.rto \div 8)
      BY <3>3, <3>4
    <3>6. sinceSent' = sinceSent + 1 /\ seg'.rto = seg.rto
      BY <1>1, <2>2
    <3>. QED  BY <1>6, <3>2, <3>3, <3>4, <3>5, <3>6, ResendNext, Zenon
  <2>. QED  BY <2>1, <2>2
<1>. QED  BY <1>4, <1>5, <1>9, <1>10 DEF TimerInv

\* What the clock and the flushes' times do not depend on.
LEMMA QuietInv ==
    ASSUME TimerInv, UNCHANGED <<iclock, sleep, sinceFlush, adjusted>>,
           kcp' \in KcpType, kcp'.current = kcp.current, kcp'.ts_flush = kcp.ts_flush,
           kcp'.updated = kcp.updated,
           seg' \in SegType, seg'.xmit <= 0, seg'.rto = 0, sinceSent' \in Nat
    PROVE  TimerInv'
<1>1. Elapsed' = Elapsed /\ ToFlush' = ToFlush
  BY DEF Elapsed, ToFlush
<1>2. ~(seg'.xmit > 0) /\ seg'.xmit # MaxXmit /\ ~(seg'.rto > MaxRto)
  BY Sizes DEF SegType
<1>3. TimerTypeOK'
  BY <1>2 DEF TimerInv, TimerTypeOK, KcpType, SegType
<1>4. InTime(iclock)' /\ ResendInv'
  BY <1>2 DEF InTime, ResendInv
<1>5. FlushInv'
  <2>1. \A bound : Steady(bound) => Steady(bound)'
    BY <1>1 DEF Steady
  <2>2. Steady(Interval) => Steady(Interval)'
    BY <2>1
  <2>3. Steady(Interval + MaxLate + MaxSlap) => Steady(Interval + MaxLate + MaxSlap)'
    BY <2>1
  <2>. QED  BY <1>1, <2>2, <2>3 DEF FlushInv, TimerInv
<1>. QED  BY <1>3, <1>4, <1>5 DEF TimerInv

\* A segment is sent.
LEMMA SendInv ==
    ASSUME TimerInv, SendSegment
    PROVE  TimerInv'
<1>1. seg' = [xmit |-> 0, ts |-> 0, rto |-> 0, resendts |-> 0] /\ kcp' = kcp
         /\ UNCHANGED <<iclock, sleep, sinceFlush, sinceSent, adjusted>>
  BY DEF SendSegment, NoSegment
<1>2. seg' \in SegType /\ seg'.xmit <= 0 /\ seg'.rto = 0
  BY <1>1, Sizes DEF SegType
<1>3. kcp \in KcpType /\ sinceSent \in Nat
  BY DEF TimerInv, TimerTypeOK, KcpType
<1>. QED  BY <1>1, <1>2, <1>3, QuietInv

\* Whatever round trips were measured, the rto is at least 1 and at most RtoMax.
LEMMA UpdateAckType ==
    ASSUME NEW k \in KcpType, NEW rtt \in Int
    PROVE  /\ UpdateAck(k, rtt) \in KcpType
           /\ UpdateAck(k, rtt).current = k.current /\ UpdateAck(k, rtt).ts_flush = k.ts_flush
           /\ UpdateAck(k, rtt).updated = k.updated
<1>1. k.srtt \in Int /\ k.rttval \in Int /\ k.minrto \in Nat \ {0}
  BY DEF KcpType
<1>2. PICK delta \in Int : delta = IF rtt < k.srtt THEN k.srtt - rtt ELSE rtt - k.srtt
  BY <1>1
<1>3. PICK srtt \in Int : srtt = IF k.srtt = 0 THEN rtt ELSE Larger(1, (7 * k.srtt + rtt) \div 8)
  BY <1>1 DEF Larger
<1>4. PICK val \in Int : val = IF k.srtt = 0 THEN rtt \div 2 ELSE (3 * k.rttval + delta) \div 4
  BY <1>1
<1>5. PICK rto \in 1..RtoMax : rto = Smaller(Larger(k.minrto, srtt + Larger(Interval, 4 * val)), RtoMax)
  BY <1>1, Sizes DEF Larger, Smaller
<1>6. UpdateAck(k, rtt) = [k EXCEPT !.srtt = srtt, !.rttval = val, !.rto = rto]
  BY <1>2, <1>3, <1>4, <1>5 DEF UpdateAck
<1>. QED  BY <1>6 DEF KcpType

\* A segment is acknowledged.
LEMMA AcknowledgeInv ==
    ASSUME TimerInv, Acknowledge
    PROVE  TimerInv'
<1>1. /\ seg' = [xmit |-> -1, ts |-> 0, rto |-> 0, resendts |-> 0] /\ sinceSent' = 0
      /\ UNCHANGED <<iclock, sleep, sinceFlush, adjusted>>
      /\ kcp' = kcp \/ kcp' = UpdateAck(kcp, TimeDiff(kcp.current, seg.ts))
  BY DEF Acknowledge, NoSegment
<1>2. seg' \in SegType /\ seg'.xmit <= 0 /\ seg'.rto = 0
  BY <1>1, Sizes DEF SegType
<1>3. kcp \in KcpType /\ kcp.current \in Int /\ seg.ts \in Int
  BY DEF TimerInv, TimerTypeOK, KcpType
<1>4. TimeDiff(kcp.current, seg.ts) \in Int
  BY <1>3, DiffRep
<1>5. /\ kcp' \in KcpType /\ kcp'.current = kcp.current /\ kcp'.ts_flush = kcp.ts_flush
      /\ kcp'.updated = kcp.updated
  <2>1. CASE kcp' = kcp
    BY <1>3, <2>1
  <2>2. CASE kcp' = UpdateAck(kcp, TimeDiff(kcp.current, seg.ts))
    BY <1>3, <1>4, <2>2, UpdateAckType
  <2>. QED  BY <1>1, <2>1, <2>2
<1>. QED  BY <1>1, <1>2, <1>5, QuietInv

\* The clock is set: the driver still wakes up when ikcp_check said.
LEMMA SetClockInv ==
    ASSUME TimerInv, NEW d \in Steps, SetClock(d)
    PROVE  TimerInv'
<1>1. /\ ~adjusted /\ kcp.updated /\ InTime(After(iclock, d))
      /\ iclock' = After(iclock, d) /\ adjusted' = TRUE
      /\ UNCHANGED <<sleep, kcp, seg, sinceFlush, sinceSent>>
  BY DEF SetClock
<1>2. /\ iclock \in Int /\ sleep \in Int /\ sinceFlush \in Nat /\ d \in Int
      /\ TimerTypeOK /\ FlushInv
  BY TimerAssumption DEF TimerInv, TimerTypeOK
<1>3. TimerTypeOK'
  <2>1. iclock' \in Int
    BY <1>1, <1>2, AfterRep
  <2>2. adjusted' \in BOOLEAN
    BY <1>1, Zenon
  <2>. QED  BY <1>1, <1>2, <2>1, <2>2 DEF TimerTypeOK
<1>4. InTime(iclock)' /\ ResendInv'
  BY <1>1 DEF InTime, ResendInv
<1>5. FlushInv'
  <2>1. Elapsed \in Int /\ ToFlush \in Int
    BY <1>2, Distances
  <2>2. sleep + Elapsed <= ToFlush /\ sinceFlush - Elapsed + ToFlush <= Interval /\ sleep >= -MaxLate
    BY <1>1, <1>2 DEF FlushInv, Steady
  <2>3. sinceFlush + sleep <= Interval
    BY <1>2, <2>1, <2>2, Sizes
  <2>. QED  BY <1>1, <2>2, <2>3 DEF FlushInv
<1>. QED  BY <1>3, <1>4, <1>5 DEF TimerInv

-----------------------------------------------------------------------------
(* Theorems.                                                               *)

\* Nothing happens.
LEMMA StutterInv ==
    ASSUME TimerInv, UNCHANGED timerVars
    PROVE  TimerInv'
<1>1. Elapsed' = Elapsed /\ ToFlush' = ToFlush /\ ToResend' = ToResend
  BY DEF timerVars, Elapsed, ToFlush, ToResend
<1>. QED  BY <1>1 DEF TimerInv, TimerTypeOK, InTime, FlushInv, ResendInv, Steady, timerVars

\* The driver that calls ikcp_update when ikcp_check says so always knows, from
\* the last call, how far away the next flush and the next retransmission are.
THEOREM TimerInvariant == TimerSpec => []TimerInv
<1>1. TimerInv /\ [TimerNext]_timerVars => TimerInv'
  BY UpdateInv, TickInv, SendInv, AcknowledgeInv, SetClockInv, StutterInv DEF TimerNext
<1>. QED  BY <1>1, InitInv, PTL DEF TimerSpec

\* ikcp_check never makes the driver miss a flush by more than its own lateness,
\* nor a retransmission by more than an interval besides, wherever the clock
\* wraps; after the clock was set ikcp_update is back in step within MaxSlap.
THEOREM TimerFlushedInTime == TimerSpec => []FlushedInTime
<1>1. TimerInv => FlushedInTime
  <2> SUFFICES ASSUME TimerInv PROVE FlushedInTime
    OBVIOUS
  <2>1. /\ iclock \in Int /\ sleep \in Int /\ sinceFlush \in Nat /\ sinceSent \in Nat /\ seg.rto \in Int
        /\ seg.xmit \in Int
        /\ TimerTypeOK /\ FlushInv /\ ResendInv
    BY DEF TimerInv, TimerTypeOK
  <2>2. Elapsed \in Int /\ ToFlush \in Int /\ ToResend \in Int /\ sleep >= -MaxLate
    BY <2>1, Distances DEF FlushInv
  <2>3. ASSUME NEW bound \in Int, Steady(bound) PROVE sinceFlush <= bound + MaxLate
    <3>1. sleep + Elapsed <= ToFlush /\ sinceFlush - Elapsed + ToFlush <= bound
      BY <2>3 DEF Steady
    <3>. QED  BY <2>1, <2>2, <2>3, <3>1, Sizes
  <2>4. sinceFlush <= Interval + MaxLate + (IF adjusted THEN MaxSlap + MaxLate ELSE 0)
    <3>1. CASE ~kcp.updated
      BY <2>1, <3>1, Sizes DEF FlushInv
    <3>2. CASE kcp.updated /\ ~adjusted
      BY <2>1, <2>3, <3>2, Sizes DEF FlushInv
    <3>3. CASE adjusted /\ Steady(Interval + MaxLate + MaxSlap)
      BY <2>1, <2>3, <3>3, Sizes
    <3>4. CASE adjusted /\ sinceFlush + sleep <= Interval
      BY <2>1, <2>2, <3>4, Sizes
    <3>. QED  BY <2>1, <3>1, <3>2, <3>3, <3>4 DEF FlushInv
  <2>5. ASSUME ~adjusted, seg.xmit > 0
        PROVE  sinceSent <= seg.rto + seg.rto \div 8 + Interval + MaxLate
    <3>1. Steady(Interval)
      BY <2>1, <2>5, ResendDistance
    <3>2. sleep + Elapsed <= ToFlush
      BY <3>1 DEF Steady
    <3>3. /\ sinceSent - Elapsed + ToResend \in seg.rto..(seg.rto + seg.rto \div 8)
          /\ ToFlush - ToResend <= Interval
      BY <2>1, <2>5 DEF ResendInv
    <3>4. seg.rto \div 8 \in Int
      BY <2>1
    <3>. QED  BY <2>1, <2>2, <3>2, <3>3, <3>4, Sizes
  <2>. QED  BY <2>4, <2>5 DEF FlushedInTime
<1>. QED  BY <1>1, TimerInvariant, PTL

\* ikcp_flush never takes a segment for lost before the rto it was sent with has
\* passed, however the timestamps wrap, while nobody sets the clock.
THEOREM TimerNeverEarly == TimerSpec => NeverEarly
<1>1. TimerInv /\ [TimerNext]_timerVars
        => [seg.xmit > 0 /\ seg'.xmit > seg.xmit /\ ~adjusted => sinceSent >= seg.rto]_timerVars
  <2> SUFFICES ASSUME TimerInv, TimerNext, seg.xmit > 0, seg'.xmit > seg.xmit, ~adjusted
               PROVE  sinceSent >= seg.rto
    OBVIOUS
  <2>1. seg.xmit \in Int /\ TimerTypeOK /\ FlushInv /\ ResendInv /\ sinceSent \in Nat /\ seg.rto \in Int
    BY DEF TimerInv, TimerTypeOK
  <2>2. Update
    BY <2>1 DEF TimerNext, Tick, SendSegment, Acknowledge, SetClock, NoSegment
  <2>3. Reached(iclock, seg.resendts)
    BY <2>1, <2>2, UpdateFacts DEF Flushed, NotFlushed
  <2>4. TimeDiff(iclock, seg.resendts) = Elapsed - ToResend
    BY <2>1, ResendDistance
  <2>5. sinceSent - Elapsed + ToResend \in seg.rto..(seg.rto + seg.rto \div 8)
    BY <2>1 DEF ResendInv
  <2>6. Elapsed \in Int /\ ToResend \in Int
    BY <2>1, Distances
  <2>. QED  BY <2>1, <2>3, <2>4, <2>5, <2>6 DEF Reached
<1>. QED  BY <1>1, TimerInvariant, PTL DEF TimerSpec, NeverEarly
=============================================================================
