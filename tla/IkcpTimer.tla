----------------------------- MODULE IkcpTimer -----------------------------
(***************************************************************************)
(* The clockwork of kcp_learn/ikcp.c, which Ikcp leaves open: when         *)
(* ikcp_update flushes, when ikcp_check says it should be called again,    *)
(* and when a segment is sent again.                                       *)
(*                                                                         *)
(* Timestamps are numbers modulo Modulus (2^32 in the code) and wrap.      *)
(* Variables that start with since are history: they count real time.  The *)
(* driver is the nudge thread of KCPNet: update, check, sleep.             *)
(***************************************************************************)
EXTENDS Integers

CONSTANTS
    Modulus,
    Interval,           \* kcp->interval
    RtoNdl, RtoMin, RtoDef, RtoMax,     \* IKCP_RTO_NDL and so on
    MaxSlap,            \* 10000
    MaxLate,            \* how late the driver may wake up
    Steps,              \* by how much the system's clock may be set
    MaxXmit,            \* bound: transmissions of a segment
    MaxRto              \* bound: the rto with which a segment is sent again

ASSUME TimerAssumption ==
    /\ {Modulus, Interval, RtoNdl, RtoMin, RtoDef, RtoMax, MaxSlap, MaxLate, MaxXmit, MaxRto}
         \subseteq Nat \ {0}
    /\ Steps \subseteq Int
    /\ Interval <= MaxSlap                  \* ikcp_interval allows 5000 at most
    /\ RtoDef <= RtoMax /\ RtoMax <= MaxRto
    /\ 2 * (MaxSlap + MaxLate) < Modulus    \* half of the range is the future
    /\ 5 * MaxRto < Modulus

VARIABLES
    iclock,          \* what iclock() returns, the driver's clock
    sleep,          \* how long the driver still sleeps
    kcp,            \* nodelay, minrto; current, ts_flush, updated; rx_srtt, rx_rttval, rx_rto
    seg,            \* a segment; xmit is -1: there is none, 0: it is in snd_queue
    sinceFlush, sinceSent,
    adjusted        \* the clock has been set

timerVars == <<iclock, sleep, kcp, seg, sinceFlush, sinceSent, adjusted>>

\* _itimediff: the difference as a signed number.
TimeDiff(later, earlier) ==
    LET d == (later - earlier) % Modulus
    IN  IF 2 * d >= Modulus THEN d - Modulus ELSE d

After(t, d) == (t + d) % Modulus

\* Mutant: timestamps are compared as numbers.
Reached_Plain(now, t) == now >= t

\* _itimediff(now, t) >= 0
Reached(now, t) == TimeDiff(now, t) >= 0

Larger(a, b) == IF a >= b THEN a ELSE b
Smaller(a, b) == IF a <= b THEN a ELSE b

NoSegment == [xmit |-> -1, ts |-> 0, rto |-> 0, resendts |-> 0]

\* After ikcp_create and ikcp_nodelay, which takes any of the three modes.
TimerInit ==
    /\ iclock = 0
    /\ sleep = 0
    /\ \E nodelay \in 0..2 :
         kcp = [nodelay |-> nodelay, minrto |-> IF nodelay = 0 THEN RtoMin ELSE RtoNdl,
                current |-> 0, ts_flush |-> 0, updated |-> FALSE,
                srtt |-> 0, rttval |-> 0, rto |-> RtoDef]
    /\ seg = NoSegment
    /\ sinceFlush = 0 /\ sinceSent = 0
    /\ adjusted = FALSE

-----------------------------------------------------------------------------
\* ikcp_update_ack
UpdateAck(k, rtt) ==
    LET delta == IF rtt < k.srtt THEN k.srtt - rtt ELSE rtt - k.srtt
        first == k.srtt = 0
        srtt  == IF first THEN rtt ELSE Larger(1, (7 * k.srtt + rtt) \div 8)
        val   == IF first THEN rtt \div 2 ELSE (3 * k.rttval + delta) \div 4
    IN  [k EXCEPT !.srtt = srtt, !.rttval = val,
                  !.rto = Smaller(Larger(k.minrto, srtt + Larger(Interval, 4 * val)), RtoMax)]

\* A segment that flush finds in snd_buf: sent for the first time, sent again
\* because its time has come, or left alone.
Resent(s, k) ==
    LET now  == k.current
        more == CASE k.nodelay = 0 -> Larger(s.rto, k.rto)
                  [] k.nodelay = 1 -> s.rto \div 2
                  [] k.nodelay = 2 -> k.rto \div 2
    IN  CASE s.xmit = 0 ->
               [xmit |-> 1, ts |-> now, rto |-> k.rto,
                resendts |-> After(now, k.rto + (IF k.nodelay = 0 THEN k.rto \div 8 ELSE 0))]
          [] s.xmit > 0 /\ Reached(now, s.resendts) ->
               [xmit |-> s.xmit + 1, ts |-> now, rto |-> s.rto + more,
                resendts |-> After(now, s.rto + more)]
          [] OTHER -> s

\* ts_flush too far away: the clock has been set, or nobody called for long.
Astray(k) == TimeDiff(k.current, k.ts_flush) \notin -MaxSlap..(MaxSlap - 1)

\* ikcp_update up to the flush: kcp with current, and with ts_flush put right.
Awake(now) ==
    LET k == [kcp EXCEPT !.current = now, !.updated = TRUE]
    IN  IF ~kcp.updated \/ Astray(k) THEN [k EXCEPT !.ts_flush = now] ELSE k

\* ts_flush after a flush: a multiple of the interval, or counted from now.
NextFlush(k) ==
    LET t == After(k.ts_flush, Interval)
    IN  IF Reached(k.current, t) THEN After(k.current, Interval) ELSE t

\* ikcp_check, as the time to wait.
Check(k, s) ==
    LET flush == TimeDiff(k.ts_flush, k.current)
        due   == TimeDiff(s.resendts, k.current)
    IN  IF Astray(k) \/ flush <= 0 \/ (s.xmit > 0 /\ due <= 0) THEN 0
        ELSE Smaller(Interval, IF s.xmit > 0 THEN Smaller(due, flush) ELSE flush)

\* The driver wakes up: ikcp_update and ikcp_check.
Update ==
    /\ sleep <= 0
    /\ LET k == Awake(iclock)
       IN  IF Reached(iclock, k.ts_flush)
           THEN /\ kcp' = [k EXCEPT !.ts_flush = NextFlush(k)]
                /\ seg' = Resent(seg, k)
                /\ sinceFlush' = 0
                /\ sinceSent' = IF seg'.xmit > seg.xmit THEN 0 ELSE sinceSent
           ELSE /\ kcp' = k
                /\ UNCHANGED <<seg, sinceFlush, sinceSent>>
    /\ sleep' = Check(kcp', seg')
    /\ UNCHANGED <<iclock, adjusted>>

-----------------------------------------------------------------------------
(* What goes on meanwhile.                                                 *)

\* The last copy of a segment within the bounds is acknowledged in time.
InTime(now) == seg.xmit = MaxXmit \/ seg.rto > MaxRto => ~Reached(now, seg.resendts)

\* Time passes.  The driver oversleeps by MaxLate at most.
Tick ==
    /\ sleep > -MaxLate
    /\ InTime(After(iclock, 1))
    /\ iclock' = After(iclock, 1) /\ sleep' = sleep - 1
    /\ sinceFlush' = IF kcp.updated THEN sinceFlush + 1 ELSE 0
    /\ sinceSent' = IF seg.xmit > 0 THEN sinceSent + 1 ELSE 0
    /\ UNCHANGED <<kcp, seg, adjusted>>

\* ikcp_send; the segment stays in snd_queue until the next flush.
SendSegment ==
    /\ seg.xmit = -1
    /\ seg' = [NoSegment EXCEPT !.xmit = 0]
    /\ UNCHANGED <<iclock, sleep, kcp, sinceFlush, sinceSent, adjusted>>

\* ikcp_input with the acknowledgement of the last copy, timed by kcp->current.
Acknowledge ==
    /\ seg.xmit > 0
    /\ kcp' = IF Reached(kcp.current, seg.ts) THEN UpdateAck(kcp, TimeDiff(kcp.current, seg.ts)) ELSE kcp
    /\ seg' = NoSegment
    /\ sinceSent' = 0
    /\ UNCHANGED <<iclock, sleep, sinceFlush, adjusted>>

\* iclock of the samples is the time of day, which may be set.
SetClock(d) ==
    /\ ~adjusted /\ kcp.updated /\ InTime(After(iclock, d))
    /\ iclock' = After(iclock, d)
    /\ adjusted' = TRUE
    /\ UNCHANGED <<sleep, kcp, seg, sinceFlush, sinceSent>>

TimerNext ==
    \/ Update \/ Tick \/ SendSegment \/ Acknowledge
    \/ \E d \in Steps : SetClock(d)

TimerSpec == TimerInit /\ [][TimerNext]_timerVars

-----------------------------------------------------------------------------
(* Properties.                                                             *)

\* A driver that sleeps as long as ikcp_check says never lets a flush come later
\* than one interval after the last, its own lateness aside, across the wrap of
\* the clock too; when the clock is set back the flushes stop for MaxSlap at most.
\* Nor is a segment sent again later than that after its time has come.
FlushedInTime ==
    /\ sinceFlush <= Interval + MaxLate + (IF adjusted THEN MaxSlap + MaxLate ELSE 0)
    /\ ~adjusted /\ seg.xmit > 0 =>
           sinceSent <= seg.rto + seg.rto \div 8 + Interval + MaxLate

\* No segment is sent again before its rto has passed since the last copy.
NeverEarly ==
    [][seg.xmit > 0 /\ seg'.xmit > seg.xmit /\ ~adjusted => sinceSent >= seg.rto]_timerVars

-----------------------------------------------------------------------------
(* The inductive invariant.  Between two calls of ikcp_update all times    *)
(* are measured from the last call: kcp.current.                           *)

TimerTypeOK ==
    /\ iclock \in Int /\ sleep \in Int /\ sinceFlush \in Nat /\ sinceSent \in Nat
    /\ adjusted \in BOOLEAN
    /\ kcp \in [nodelay : 0..2, minrto : Nat \ {0}, current : Int, ts_flush : Int,
                updated : BOOLEAN, srtt : Int, rttval : Int, rto : 1..RtoMax]
    /\ seg \in [xmit : Int, ts : Int, rto : 0..(2 * MaxRto), resendts : Int]
    /\ seg.xmit > 0 => seg.rto >= 1

Elapsed  == TimeDiff(iclock, kcp.current)
ToFlush  == TimeDiff(kcp.ts_flush, kcp.current)
ToResend == TimeDiff(seg.resendts, kcp.current)

\* The driver has called ikcp_update since the clock was set, if it was: it will
\* wake up before the next flush is due, and that is in time if every flush
\* comes within bound of the one before.
Steady(bound) ==
    /\ Elapsed >= 0
    /\ ToFlush \in 1..MaxSlap
    /\ sleep + Elapsed <= ToFlush
    /\ sinceFlush >= Elapsed
    /\ sinceFlush - Elapsed + ToFlush <= bound

FlushInv ==
    /\ sleep >= -MaxLate
    /\ ~kcp.updated => sinceFlush = 0 /\ seg.xmit <= 0 /\ ~adjusted
    /\ kcp.updated /\ ~adjusted => Steady(Interval)
    /\ adjusted => \/ Steady(Interval + MaxLate + MaxSlap)
                   \/ sinceFlush + sleep <= Interval

\* What is left of a segment's rto, and that it is due one interval before the
\* next flush at the earliest.
ResendInv ==
    ~adjusted /\ seg.xmit > 0 =>
        /\ sinceSent >= Elapsed
        /\ sinceSent - Elapsed + ToResend \in seg.rto..(seg.rto + seg.rto \div 8)
        /\ ToFlush - ToResend <= Interval

TimerInv == TimerTypeOK /\ InTime(iclock) /\ FlushInv /\ ResendInv
=============================================================================
