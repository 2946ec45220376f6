---------------------------- MODULE KCPNetProofs ----------------------------
(***************************************************************************)
(* KCPNet is correct for any set of peers, samples and corrections, as far *)
(* as its safety goes: the server's iterator and its announcements, the    *)
(* time correction on both sides, and the counters of heart beats.          *)
(***************************************************************************)
EXTENDS KCPNetClient, KCPNetServer, FiniteSetTheorems, TLAPS

-----------------------------------------------------------------------------
(* The client.                                                             *)

\* A client that has been constructed has had no correction yet.
LEMMA ClientStart == ClientInit => ClientInv
<1> SUFFICES ASSUME ClientInit PROVE ClientInv
  OBVIOUS
<1>1. 0 \in 0..MaxUnsigned /\ ClientTimeOut \in 0..MaxUnsigned /\ 0 \in -1..1
  BY ClientAssumption, UnsignedAssumption
<1>0. PICK callback \in BOOLEAN :
          nudger = [pc |-> "slew", timed |-> FALSE, sign |-> 0, seen |-> 0, callback |-> callback]
  BY DEF ClientInit
<1>2. ClientTypeOK
  <2>1. got \in BOOLEAN
    BY DEF ClientInit
  <2>2. target \in Int /\ correction \in Int /\ timeout \in 0..MaxUnsigned
    BY <1>1 DEF ClientInit
  <2>3. worker \in [pc : {"recv", "target", "answer"}, value : Int]
    BY DEF ClientInit
  <2>4. nudger \in [pc : {"slew", "sign", "change", "clamp", "take", "beat", "count", "store"},
                    timed : BOOLEAN, sign : -1..1, seen : 0..MaxUnsigned, callback : BOOLEAN]
    BY <1>0, <1>1
  <2>. QED  BY <2>1, <2>2, <2>3, <2>4 DEF ClientTypeOK
<1>3. CountPositive /\ SlewInv
  BY <1>0, ClientAssumption DEF ClientInit, CountPositive, SlewInv, Informed
<1>. QED  BY <1>2, <1>3 DEF ClientInv

\* Both threads keep the types.
LEMMA ClientTypes ==
    ASSUME ClientInv, ClientNext PROVE ClientTypeOK'
<1> USE ClientAssumption, UnsignedAssumption DEF ClientInv, ClientTypeOK
<1>0. 0 \in -1..1 /\ 1 \in -1..1 /\ -1 \in -1..1 /\ 0 \in 0..MaxUnsigned
  OBVIOUS
<1>1. CASE ClientRecv    BY <1>1 DEF ClientRecv
<1>2. ASSUME NEW c \in Corrections, ClientCorrection(c) PROVE ClientTypeOK'
  BY <1>2 DEF ClientCorrection
<1>3. CASE ClientTarget  BY <1>3 DEF ClientTarget
<1>4. CASE ClientAnswer  BY <1>4 DEF ClientAnswer
<1>5. CASE NudgeCompare  BY <1>5 DEF NudgeCompare
<1>6. CASE NudgeSign     BY <1>0, <1>6 DEF NudgeSign
<1>7. CASE NudgeChange
  <2>1. PICK comp \in 0..MaxComp : correction' = correction + nudger.sign * comp
    BY <1>7 DEF NudgeChange
  <2>2. correction' \in Int
    BY <2>1
  <2>. QED  BY <1>7, <2>2 DEF NudgeChange
<1>8. CASE NudgeClamp
  <2>1. nudger' = [nudger EXCEPT !.pc = "take", !.sign = 0]
        \/ nudger' = [nudger EXCEPT !.pc = "beat", !.sign = 0]
    BY <1>8 DEF NudgeClamp
  <2>. QED  BY <1>0, <1>8, <2>1 DEF NudgeClamp
<1>9. CASE NudgeTake     BY <1>9 DEF NudgeTake
<1>10. CASE NudgeBeat    BY <1>10 DEF NudgeBeat
<1>11. CASE NudgeCount   BY <1>11 DEF NudgeCount
<1>12. CASE NudgeStore
  <2>1. timeout' \in 0..MaxUnsigned
    BY <1>12 DEF NudgeStore, Decremented
  <2>. QED  BY <1>0, <1>12, <2>1 DEF NudgeStore
<1>. QED
  BY <1>1, <1>2, <1>3, <1>4, <1>5, <1>6, <1>7, <1>8, <1>9, <1>10, <1>11, <1>12 DEF ClientNext

\* With an rDisconnect, a count of zero is restored before it can be decremented.
LEMMA ClientCounts ==
    ASSUME ClientInv, ClientNext PROVE CountPositive'
<1> USE ClientAssumption DEF ClientInv, ClientTypeOK, CountPositive
<1>1. CASE ClientRecv \/ (\E c \in Corrections : ClientCorrection(c)) \/ ClientTarget \/ ClientAnswer
  <2>1. nudger' = nudger /\ (timeout' = timeout \/ timeout' = ClientTimeOut)
    BY <1>1 DEF ClientRecv, ClientCorrection, ClientTarget, ClientAnswer
  <2>2. timeout' \in Nat /\ (nudger.callback => timeout' <= ClientTimeOut)
        /\ (nudger.callback /\ nudger.pc = "count" => timeout' > 0)
    BY <2>1
  <2>. QED  BY <2>1, <2>2
<1>2. CASE NudgeCompare \/ NudgeSign \/ NudgeChange \/ NudgeClamp \/ NudgeTake
  <2>1. timeout' = timeout
    BY <1>2 DEF NudgeCompare, NudgeSign, NudgeChange, NudgeClamp, NudgeTake
  <2>2. nudger'.pc \notin {"count", "store"}
    BY <1>2 DEF NudgeCompare, NudgeSign, NudgeChange, NudgeClamp, NudgeTake
  <2>3. nudger'.callback = nudger.callback
    BY <1>2 DEF NudgeCompare, NudgeSign, NudgeChange, NudgeClamp, NudgeTake
  <2>. QED  BY <2>1, <2>2, <2>3
<1>3. CASE NudgeBeat     BY <1>3 DEF NudgeBeat
<1>4. CASE NudgeCount    BY <1>4 DEF NudgeCount
<1>5. CASE NudgeStore    BY <1>5 DEF NudgeStore, Decremented
<1>. QED  BY <1>1, <1>2, <1>3, <1>4, <1>5 DEF ClientNext

\* Slewing keeps the correction on the near side of where it started and, once
\* it is clamped, on the near side of the target.
LEMMA ClientSlews ==
    ASSUME ClientInv, ClientNext PROVE SlewInv'
<1> USE ClientAssumption DEF ClientInv, ClientTypeOK, SlewInv, Informed
<1>1. CASE ClientRecv    BY <1>1 DEF ClientRecv
<1>2. ASSUME NEW c \in Corrections, ClientCorrection(c) PROVE SlewInv'
  BY <1>2 DEF ClientCorrection
<1>3. CASE ClientTarget  BY <1>3 DEF ClientTarget
<1>4. CASE ClientAnswer  BY <1>4 DEF ClientAnswer
<1>5. CASE NudgeCompare  BY <1>5 DEF NudgeCompare
<1>6. CASE NudgeSign     BY <1>6 DEF NudgeSign
<1>7. CASE NudgeChange
  <2>1. PICK comp \in 0..MaxComp : correction' = correction + nudger.sign * comp
    BY <1>7 DEF NudgeChange
  <2>2. nudger.sign = 1 \/ nudger.sign = -1
    BY <1>7 DEF NudgeChange
  <2>3. PICK lo, hi \in Corrections : lo <= correction /\ correction <= hi
    BY <1>7 DEF NudgeChange
  <2>4. \E c \in Corrections : (correction' - c) * nudger.sign >= 0
    <3>1. CASE nudger.sign = 1   BY <2>1, <2>3, <3>1
    <3>2. CASE nudger.sign = -1  BY <2>1, <2>3, <3>2
    <3>. QED  BY <2>2, <3>1, <3>2
  <2>. QED  BY <1>7, <2>4 DEF NudgeChange
<1>8. CASE NudgeClamp
  <2>1. PICK c \in Corrections : (correction - c) * nudger.sign >= 0
    BY <1>8 DEF NudgeClamp
  <2>2. nudger.sign = 1 \/ nudger.sign = -1
    BY <1>8 DEF NudgeClamp
  <2>3. target \in Corrections /\ got
    BY <1>8 DEF NudgeClamp
  <2>4. (correction - target) * nudger.sign <= 0 =>
            \E lo, hi \in Corrections : lo <= correction /\ correction <= hi
    <3>1. CASE nudger.sign = 1   BY <2>1, <2>3, <3>1
    <3>2. CASE nudger.sign = -1  BY <2>1, <2>3, <3>2
    <3>. QED  BY <2>2, <3>1, <3>2
  <2>5. (correction - target) * nudger.sign \in Int
    BY <2>2
  <2>6. CASE (correction - target) * nudger.sign > 0
    BY <1>8, <2>3, <2>6 DEF NudgeClamp
  <2>7. CASE ~((correction - target) * nudger.sign > 0)
    BY <1>8, <2>3, <2>4, <2>5, <2>7 DEF NudgeClamp
  <2>. QED  BY <2>6, <2>7
<1>9. CASE NudgeTake     BY <1>9 DEF NudgeTake
<1>10. CASE NudgeBeat    BY <1>10 DEF NudgeBeat
<1>11. CASE NudgeCount   BY <1>11 DEF NudgeCount
<1>12. CASE NudgeStore   BY <1>12 DEF NudgeStore
<1>. QED
  BY <1>1, <1>2, <1>3, <1>4, <1>5, <1>6, <1>7, <1>8, <1>9, <1>10, <1>11, <1>12 DEF ClientNext

\* The client's two threads keep ClientInv in every interleaving of their
\* accesses to the timeout, the target and the correction.
THEOREM ClientInvariant == ClientSpec => []ClientInv
<1>1. ClientInv /\ [ClientNext]_clientVars => ClientInv'
  <2>1. CASE UNCHANGED clientVars
    BY <2>1 DEF clientVars, ClientInv, ClientTypeOK, CountPositive, SlewInv, Informed
  <2>2. CASE ClientNext
    BY <2>2, ClientTypes, ClientCounts, ClientSlews DEF ClientInv
  <2>. QED  BY <2>1, <2>2
<1>. QED  BY <1>1, ClientStart, PTL DEF ClientSpec

\* A client with an rDisconnect: mConnectionTimeOut, an unsigned number that is
\* tested, restored and decremented in steps of its own, never wraps below zero.
THEOREM ClientTimeoutInRange == ClientSpec => []TimeoutInRange
<1>1. ClientInv => TimeoutInRange
  BY ClientAssumption DEF ClientInv, ClientTypeOK, CountPositive, TimeoutInRange
<1>. QED  BY <1>1, ClientInvariant, PTL

\* The correction a client uses lies between corrections the server has sent,
\* whatever the network thread does to the target while the nudge thread slews.
THEOREM ClientCorrectionInHull == ClientSpec => []CorrectionInHull
<1>1. ClientInv => CorrectionInHull
  BY DEF ClientInv, SlewInv, Informed, CorrectionInHull
<1>. QED  BY <1>1, ClientInvariant, PTL

-----------------------------------------------------------------------------
(* The time correction of the server.                                      *)

\* A nonempty set of natural numbers has a least member.
LEMMA LeastNat ==
    ASSUME NEW T \in SUBSET Nat, T # {}
    PROVE  \E x \in T : \A y \in T : x <= y
<1>1. IsWellFoundedOn(OpToRel(<, Nat), Nat)
  BY NatLessThanWellFounded
<1>2. PICK x \in T : \A y \in T : ~(<<y, x>> \in OpToRel(<, Nat))
  BY <1>1, WFMin
<1>3. \A y \in T : ~(y < x)
  BY <1>2 DEF OpToRel
<1>. QED  BY <1>3

\* Before is a total order of samples.
LEMMA BeforeOrder ==
    /\ \A p \in Int \X Int : Before(p, p)
    /\ \A p, q \in Int \X Int : Before(p, q) \/ Before(q, p)
    /\ \A p, q, r \in Int \X Int : Before(p, q) /\ Before(q, r) => Before(p, r)
BY DEF Before

\* Among saved samples there is a first one.
LEMMA FirstSample ==
    ASSUME NEW s \in Seq(Int \X Int), s # <<>>
    PROVE  \E i \in 1..Len(s) : \A j \in 1..Len(s) : Before(s[i], s[j])
<1> DEFINE D == 1..Len(s)
           Upto(i) == {l \in D : Before(s[l], s[i])}
           T == {Cardinality(Upto(i)) : i \in D}
<1>1. Len(s) \in Nat \ {0} /\ IsFiniteSet(D) /\ \A i \in D : s[i] \in Int \X Int
  <2>1. Len(s) \in Nat \ {0} /\ \A i \in D : s[i] \in Int \X Int
    OBVIOUS
  <2>2. IsFiniteSet(D)
    BY <2>1, FS_Interval
  <2>. QED  BY <2>1, <2>2
<1>2. \A i \in D : IsFiniteSet(Upto(i)) /\ Cardinality(Upto(i)) \in Nat
  <2> TAKE i \in D
  <2>1. IsFiniteSet(Upto(i))
    BY <1>1, FS_Subset
  <2>. QED  BY <2>1, FS_CardinalityType
<1>3. T \in SUBSET Nat /\ T # {}
  <2> HIDE DEF Upto
  <2>1. 1 \in D
    BY <1>1
  <2>. QED  BY <1>2, <2>1
<1> HIDE DEF T
<1>4. PICK x \in T : \A y \in T : x <= y
  BY <1>3, LeastNat
<1>5. PICK i \in D : x = Cardinality(Upto(i))
  BY <1>4 DEF T
<1>6. ASSUME NEW j \in D, ~Before(s[i], s[j]) PROVE FALSE
  <2>1. Before(s[j], s[i])
    BY <1>1, <1>6, BeforeOrder
  <2>2. Upto(j) \subseteq Upto(i)
    <3> SUFFICES ASSUME NEW l \in D, Before(s[l], s[j]) PROVE Before(s[l], s[i])
      OBVIOUS
    <3>. QED  BY <1>1, <2>1, BeforeOrder
  <2>3. i \in Upto(i) /\ i \notin Upto(j)
    BY <1>1, <1>6, BeforeOrder
  <2>4. Cardinality(Upto(j)) <= Cardinality(Upto(i)) /\ Cardinality(Upto(i)) # Cardinality(Upto(j))
    <3> HIDE DEF Upto
    <3>1. IsFiniteSet(Upto(i)) /\ Upto(j) \in SUBSET Upto(i)
      BY <1>2, <2>2
    <3>. QED  BY <2>3, <3>1, FS_Subset
  <2>5. Cardinality(Upto(j)) \in T
    BY DEF T
  <2>6. Cardinality(Upto(i)) <= Cardinality(Upto(j))
    BY <1>4, <1>5, <2>5
  <2>7. Cardinality(Upto(i)) \in Nat /\ Cardinality(Upto(j)) \in Nat
    BY <1>2
  <2> HIDE DEF Upto
  <2>. QED  BY <2>4, <2>6, <2>7
<1>. QED  BY <1>6

\* What partial_sort_copy puts first is a saved sample of least delay.
LEMMA RankedFirst ==
    ASSUME NEW s \in Seq(Int \X Int), s # <<>>
    PROVE  \E i \in 1..Len(s) :
               Ranked(s, 1) = s[i] /\ \A j \in 1..Len(s) : s[i][1] <= s[j][1]
<1> DEFINE D == 1..Len(s)
           R == {s[i] : i \in D}
           Least(p) == /\ Cardinality({i \in D : Before(s[i], p)}) >= 1
                       /\ Cardinality({i \in D : ~ Before(p, s[i])}) < 1
<1>1. Len(s) \in Nat \ {0} /\ IsFiniteSet(D) /\ \A i \in D : s[i] \in Int \X Int
  <2>1. Len(s) \in Nat \ {0} /\ \A i \in D : s[i] \in Int \X Int
    OBVIOUS
  <2>2. IsFiniteSet(D)
    BY <2>1, FS_Interval
  <2>. QED  BY <2>1, <2>2
<1>2. \A A \in SUBSET D : Cardinality(A) \in Nat /\ (Cardinality(A) = 0 <=> A = {})
  <2> SUFFICES ASSUME NEW A \in SUBSET D
               PROVE  Cardinality(A) \in Nat /\ (Cardinality(A) = 0 <=> A = {})
    OBVIOUS
  <2>1. IsFiniteSet(A)
    BY <1>1, FS_Subset
  <2>. QED  BY <2>1, FS_CardinalityType, FS_EmptySet
<1>3. \E p \in R : Least(p)
  <2>1. PICK i \in D : \A j \in D : Before(s[i], s[j])
    BY FirstSample
  <2> DEFINE X == {l \in D : Before(s[l], s[i])}
             Y == {l \in D : ~ Before(s[i], s[l])}
  <2>2. i \in X /\ Y = {} /\ X \in SUBSET D /\ Y \in SUBSET D
    BY <2>1
  <2>3. Cardinality(X) >= 1 /\ Cardinality(Y) < 1
    <3> HIDE DEF X, Y, D
    <3>1. Cardinality(X) \in Nat /\ Cardinality(X) # 0
      BY <1>2, <2>2
    <3>2. Cardinality(Y) = 0
      BY <1>2, <2>2
    <3>. QED  BY <3>1, <3>2
  <2>4. Least(s[i])
    BY <2>3
  <2> HIDE DEF Least
  <2>. QED  BY <2>4
<1>4. Ranked(s, 1) = CHOOSE p \in R : Least(p)
  BY DEF Ranked
<1>5. Ranked(s, 1) \in R /\ Least(Ranked(s, 1))
  <2> HIDE DEF Least, R
  <2>. QED  BY <1>3, <1>4
<1>6. PICK i \in D : Ranked(s, 1) = s[i]
  BY <1>5
<1>7. \A j \in D : Before(s[i], s[j])
  <2> DEFINE Y == {l \in D : ~ Before(s[i], s[l])}
  <2>1. Cardinality(Y) < 1
    BY <1>5, <1>6
  <2>2. Y = {}
    <3>1. Y \in SUBSET D
      OBVIOUS
    <3> HIDE DEF Y, D
    <3>2. Cardinality(Y) \in Nat /\ (Cardinality(Y) = 0 <=> Y = {})
      BY <1>2, <3>1
    <3>. QED  BY <2>1, <3>2
  <2>. QED  BY <2>2
<1>8. ASSUME NEW j \in D PROVE s[i][1] <= s[j][1]
  <2>1. s[i][1] \in Int /\ s[j][1] \in Int
    BY <1>1
  <2>2. Before(s[i], s[j])
    BY <1>7
  <2> HIDE DEF D
  <2>. QED  BY <2>1, <2>2, SMTT(30) DEF Before
<1>. QED  BY <1>6, <1>8

\* What ServerInv says of one connection.
EntryOK(c) ==
    /\ c \in Connections
    /\ Len(c.points) <= MaxPoints
    /\ c.stable => Len(c.points) >= MinPoints
    /\ c.stable => \E i \in 1..Len(c.points) :
                      /\ c.correction = c.points[i][2]
                      /\ \A j \in 1..Len(c.points) : c.points[i][1] <= c.points[j][1]

MapOK == DOMAIN mKCPMap \subseteq Keys /\ \A k \in DOMAIN mKCPMap : EntryOK(mKCPMap[k])

\* A connection begins without samples.
LEMMA NewOK == EntryOK(NewConnection)
<1>1. 0 \in Int /\ TimeOut \in 0..MaxUnsigned /\ 0 <= MaxPoints
  BY ServerAssumption, UnsignedAssumption
<1>2. NewConnection \in Connections
  BY <1>1 DEF NewConnection, Connections
<1>. QED  BY <1>1, <1>2 DEF NewConnection, EntryOK

\* The number of saved samples grows to MaxPoints and stays there.
LEMMA CollectedOK ==
    ASSUME NEW s \in Seq(Int \X Int), Len(s) <= MaxPoints, NEW x \in Int \X Int
    PROVE  /\ Collected(s, x) \in Seq(Int \X Int)
           /\ Len(Collected(s, x)) \in 1..MaxPoints
           /\ Len(s) >= MinPoints => Len(Collected(s, x)) >= MinPoints
<1> DEFINE all == Append(s, x)
<1>0. all \in Seq(Int \X Int) /\ Len(all) = Len(s) + 1 /\ Len(s) \in Nat
  OBVIOUS
<1> HIDE DEF all
<1>1. all \in Seq(Int \X Int) /\ Len(all) = Len(s) + 1 /\ all # <<>> /\ Len(s) \in Nat
  BY <1>0
<1>2. Tail(all) \in Seq(Int \X Int) /\ Len(Tail(all)) = Len(s)
  BY <1>1
<1>3. MaxPoints \in Nat \ {0} /\ MinPoints \in Nat \ {0} /\ MinPoints <= MaxPoints
  BY ServerAssumption
<1>4. Collected(s, x) = IF Len(all) > MaxPoints THEN Tail(all) ELSE all
  BY DEF Collected, all
<1>5. CASE Len(all) > MaxPoints
  <2>1. Len(s) = MaxPoints /\ Collected(s, x) = Tail(all)
    BY <1>1, <1>3, <1>4, <1>5
  <2>. QED  BY <1>2, <1>3, <2>1, SMTT(30)
<1>6. CASE ~(Len(all) > MaxPoints)
  BY <1>1, <1>3, <1>4, <1>6
<1>. QED  BY <1>5, <1>6

\* A time packet leaves the connection with the best correction it has seen.
LEMMA SyncOK ==
    ASSUME NEW c, EntryOK(c), NEW x \in Samples, NEW b \in BOOLEAN
    PROVE  EntryOK(Synchronized(c, x, b))
<1> DEFINE points == Collected(c.points, x)
           spread == Ranked(points, MinPoints)[1] - Ranked(points, 1)[1]
           stable == c.stable \/ spread < MaxDelayDiff
           d == Synchronized(c, x, b)
<1>1. /\ c \in Connections /\ c.points \in Seq(Int \X Int) /\ c.stable \in BOOLEAN
      /\ c.correction \in Int /\ c.synced \in BOOLEAN /\ c.timeout \in 0..MaxUnsigned
  BY DEF EntryOK, Connections
<1>2. x \in Int \X Int
  BY ServerAssumption
<1>3. /\ points \in Seq(Int \X Int)
      /\ Len(points) \in 1..MaxPoints
      /\ Len(c.points) >= MinPoints => Len(points) >= MinPoints
  BY <1>1, <1>2, CollectedOK DEF EntryOK
<1>4. MaxPoints \in Nat \ {0} /\ MinPoints \in Nat \ {0}
  BY ServerAssumption
<1>5. d = IF Len(points) < MinPoints THEN [c EXCEPT !.points = points]
          ELSE [c EXCEPT !.points = points, !.stable = stable,
                         !.correction = IF stable THEN Ranked(points, 1)[2] ELSE @,
                         !.synced = @ \/ b]
  BY DEF Synchronized
<1>6. stable \in BOOLEAN
  OBVIOUS
<1> HIDE DEF points, stable, d
<1>7. CASE Len(points) < MinPoints
  <2>1. d = [c EXCEPT !.points = points]
    BY <1>5, <1>7
  <2>2. ~c.stable
    BY <1>1, <1>3, <1>4, <1>7 DEF EntryOK
  <2>3. d \in Connections /\ d.points = points /\ ~d.stable
    BY <1>1, <1>3, <2>1, <2>2 DEF Connections
  <2>4. Len(d.points) <= MaxPoints
    BY <1>3, <1>4, <2>3
  <2>5. EntryOK(d)
    BY <2>3, <2>4 DEF EntryOK
  <2>. QED  BY <2>5 DEF d
<1>8. CASE ~(Len(points) < MinPoints)
  <2>1. points # <<>>
    BY <1>3
  <2>2. PICK i \in 1..Len(points) :
            Ranked(points, 1) = points[i] /\ \A j \in 1..Len(points) : points[i][1] <= points[j][1]
    BY <1>3, <2>1, RankedFirst
  <2>3. points[i] \in Int \X Int
    BY <1>3
  <2>4. points[i][2] \in Int
    BY <2>3
  <2>5. d = [c EXCEPT !.points = points, !.stable = stable,
                      !.correction = IF stable THEN points[i][2] ELSE @,
                      !.synced = @ \/ b]
    BY <1>5, <1>8, <2>2
  <2>6. (c.synced \/ b) \in BOOLEAN
    BY <1>1
  <2>7. /\ d \in Connections /\ d.points = points /\ d.stable = stable
        /\ d.correction = IF stable THEN points[i][2] ELSE c.correction
    BY <1>1, <1>3, <1>6, <2>4, <2>5, <2>6 DEF Connections
  <2>8. Len(points) <= MaxPoints /\ Len(points) >= MinPoints
    BY <1>3, <1>4, <1>8
  <2>9. EntryOK(d)
    BY <2>2, <2>7, <2>8 DEF EntryOK
  <2>. QED  BY <2>9 DEF d
<1>. QED  BY <1>7, <1>8

\* The heart beat counter says nothing about the samples.
LEMMA TimeoutOK ==
    ASSUME NEW c, EntryOK(c), NEW t \in 0..MaxUnsigned
    PROVE  EntryOK([c EXCEPT !.timeout = t])
BY DEF EntryOK, Connections

\* An entry put into the map, or taken out, leaves the others alone.
LEMMA EntryFacts ==
    ASSUME NEW k, NEW r
    PROVE  /\ DOMAIN WithEntry(k, r) = DOMAIN mKCPMap \cup {k}
           /\ WithEntry(k, r)[k] = r
           /\ \A j \in DOMAIN mKCPMap : j # k => WithEntry(k, r)[j] = mKCPMap[j]
           /\ DOMAIN WithoutEntry(k) = DOMAIN mKCPMap \ {k}
           /\ \A j \in DOMAIN mKCPMap : j # k => WithoutEntry(k)[j] = mKCPMap[j]
BY DEF WithEntry, WithoutEntry

\* The parts of ServerInv that are about the entries are MapOK, before a step
\* and after it.
LEMMA MapFacts ==
    /\ ServerInv => ServerTypeOK /\ IteratorInv /\ ToldInv /\ MapOK
    /\ ServerTypeOK /\ IteratorInv /\ ToldInv /\ MapOK => ServerInv
    /\ ServerTypeOK' /\ IteratorInv' /\ ToldInv' /\ MapOK' => ServerInv'
BY DEF ServerInv, ServerTypeOK, PointsInv, CorrectionIsBest, MapOK, EntryOK

\* A map whose entries are correct stays so when a correct one is put into it.
LEMMA WithEntryOK ==
    ASSUME MapOK, NEW k \in Keys, NEW r, EntryOK(r), mKCPMap' = WithEntry(k, r)
    PROVE  MapOK' /\ DOMAIN mKCPMap' = DOMAIN mKCPMap \cup {k}
<1>1. DOMAIN mKCPMap' = DOMAIN mKCPMap \cup {k}
  BY EntryFacts
<1>2. \A j \in DOMAIN mKCPMap' : EntryOK(mKCPMap'[j])
  <2> TAKE j \in DOMAIN mKCPMap'
  <2>1. CASE j = k
    BY <2>1, EntryFacts
  <2>2. CASE j # k
    <3>1. j \in DOMAIN mKCPMap /\ mKCPMap'[j] = mKCPMap[j]
      BY <1>1, <2>2 DEF WithEntry
    <3>. QED  BY <3>1 DEF MapOK
  <2>. QED  BY <2>1, <2>2
<1>. QED  BY <1>1, <1>2 DEF MapOK, EntryOK

\* And when one is taken out of it.
LEMMA WithoutEntryOK ==
    ASSUME MapOK, NEW k, mKCPMap' = WithoutEntry(k)
    PROVE  MapOK' /\ DOMAIN mKCPMap' = DOMAIN mKCPMap \ {k}
<1>1. DOMAIN mKCPMap' = DOMAIN mKCPMap \ {k}
  BY EntryFacts
<1>2. \A j \in DOMAIN mKCPMap' : EntryOK(mKCPMap'[j])
  BY <1>1, EntryFacts DEF MapOK
<1>. QED  BY <1>1, <1>2 DEF MapOK, EntryOK

-----------------------------------------------------------------------------
(* The server.                                                             *)

\* The server begins with an empty map.
LEMMA ServerStart == ServerInit => ServerInv
<1> SUFFICES ASSUME ServerInit PROVE ServerInv
  OBVIOUS
<1>1. DOMAIN mKCPMap = {}
  BY DEF ServerInit
<1>2. MapOK
  BY <1>1 DEF MapOK
<1>3. ServerTypeOK
  <2>1. locked \in BOOLEAN /\ active \in BOOLEAN /\ open \in BOOLEAN /\ late \in BOOLEAN
    BY DEF ServerInit
  <2>. QED  BY <1>1, <2>1 DEF ServerInit, ServerTypeOK
<1>4. IteratorInv /\ ToldInv
  BY <1>1 DEF ServerInit, IteratorInv, ToldInv
<1>. QED  BY <1>2, <1>3, <1>4, MapFacts

\* The steps of the network thread that leave the map alone.
LEMMA NetQuietInv ==
    ASSUME ServerInv,
           \/ NetStart \/ NetStop \/ NetUnknown \/ NetValidate \/ NetConfigure \/ NetInput
           \/ NetDeliver \/ \E k \in Keys, time \in BOOLEAN : NetRecv(k, time)
    PROVE  ServerInv'
<1>1. UNCHANGED <<mKCPMap, locked, nudge, active, open, owner, told, late>>
  BY DEF NetStart, NetStop, NetUnknown, NetValidate, NetConfigure, NetInput, NetDeliver, NetRecv
<1>2. net' \in [pc : {"new", "recv", "lookup", "validate", "insert", "configure", "input",
                      "deliver", "ended", "crashed"},
                key : Keys \cup {NoKey}, time : BOOLEAN]
  BY DEF ServerInv, ServerTypeOK, NetGoto, NetStart, NetStop, NetUnknown, NetValidate,
         NetConfigure, NetInput, NetDeliver, NetRecv
<1>3. ToldInv'
  BY <1>1 DEF ServerInv, ServerTypeOK, ToldInv, NetGoto, NetStart, NetStop, NetUnknown,
              NetValidate, NetConfigure, NetInput, NetDeliver, NetRecv
<1>4. ServerTypeOK' /\ IteratorInv' /\ PointsInv' /\ CorrectionIsBest'
  BY <1>1, <1>2 DEF ServerInv, ServerTypeOK, IteratorInv, PointsInv, CorrectionIsBest
<1>. QED  BY <1>3, <1>4 DEF ServerInv

\* A datagram of a peer in the map changes its entry and no other.
LEMMA NetEntryInv ==
    ASSUME ServerInv, NetTimePacket \/ \E k \in Keys : NetData(k)
    PROVE  ServerInv'
<1>1. /\ net.key \in DOMAIN mKCPMap /\ ~locked
      /\ UNCHANGED <<locked, nudge, active, open, owner, told, late>>
      /\ \E place \in {"recv", "deliver"} : net' = [net EXCEPT !.pc = place]
  BY DEF NetTimePacket, NetData, NetGoto
<1>2. ServerTypeOK /\ IteratorInv /\ ToldInv /\ MapOK
  BY MapFacts
<1>3. net.key \in Keys /\ EntryOK(mKCPMap[net.key])
  BY <1>1, <1>2 DEF MapOK
<1>4. \E r : EntryOK(r) /\ mKCPMap' = WithEntry(net.key, r)
  <2>1. CASE NetTimePacket
    BY <1>3, <2>1, SyncOK DEF NetTimePacket
  <2>2. CASE \E k \in Keys : NetData(k)
    <3>1. TimeOut \in 0..MaxUnsigned
      BY ServerAssumption, UnsignedAssumption
    <3>. QED  BY <1>3, <2>2, <3>1, TimeoutOK DEF NetData
  <2>. QED  BY <2>1, <2>2
<1>5. MapOK' /\ DOMAIN mKCPMap' = DOMAIN mKCPMap
  BY <1>1, <1>2, <1>3, <1>4, WithEntryOK, ZenonT(30)
<1>6. ServerTypeOK'
  BY <1>1, <1>2, <1>5 DEF ServerTypeOK, MapOK, EntryOK
<1>7. IteratorInv' /\ ToldInv'
  BY <1>1, <1>2, <1>5 DEF ServerTypeOK, IteratorInv, ToldInv
<1>. QED  BY <1>5, <1>6, <1>7, MapFacts

\* A new entry is one that nobody has been told of, and not the one the
\* iterator of the nudge thread points to.
LEMMA NetInsertInv == ASSUME ServerInv, owner # "gone", NetInsert PROVE ServerInv'
<1>1. /\ net.pc = "insert" /\ ~locked
      /\ mKCPMap' = WithEntry(net.key, NewConnection) /\ told' = told \ {net.key}
      /\ net' = [net EXCEPT !.pc = "configure"]
      /\ UNCHANGED <<locked, active, open, owner, late>>
  BY DEF NetInsert, NetGoto
<1>2. ServerTypeOK /\ IteratorInv /\ ToldInv /\ MapOK
  BY MapFacts
<1>3. net.key \in Keys \ DOMAIN mKCPMap
  BY <1>1, <1>2 DEF ToldInv
<1>4. MapOK' /\ DOMAIN mKCPMap' = DOMAIN mKCPMap \cup {net.key}
  BY <1>1, <1>2, <1>3, NewOK, WithEntryOK
<1>5. /\ nudge'.pc = nudge.pc /\ nudge'.key = nudge.key
      /\ nudge' \in [pc : {"new", "loop", "lock", "visit", "callback", "erase", "quit", "ended"},
                      todo : SUBSET Keys, key : Keys \cup {NoKey}, beat : BOOLEAN, callback : BOOLEAN]
      /\ IF nudge.pc \in {"callback", "erase", "quit"}
         THEN nudge'.todo \subseteq DOMAIN mKCPMap' \ {nudge.key} ELSE nudge' = nudge
  <2>1. nudge \in [pc : {"new", "loop", "lock", "visit", "callback", "erase", "quit", "ended"},
                   todo : SUBSET Keys, key : Keys \cup {NoKey}, beat : BOOLEAN, callback : BOOLEAN]
    BY <1>2 DEF ServerTypeOK
  <2>2. CASE nudge.pc \in {"callback", "erase", "quit"}
    <3>1. PICK rest \in SUBSET (DOMAIN mKCPMap' \ {nudge.key}) :
              nudge' = [nudge EXCEPT !.todo = rest]
      BY <2>2 DEF NetInsert
    <3>2. rest \in SUBSET Keys
      BY <1>4 DEF MapOK
    <3>. QED  BY <2>1, <2>2, <3>1, <3>2
  <2>3. CASE nudge.pc \notin {"callback", "erase", "quit"}
    BY <2>1, <2>3 DEF NetInsert
  <2>. QED  BY <2>2, <2>3
<1>6. ServerTypeOK'
  <2>1. net' \in [pc : {"new", "recv", "lookup", "validate", "insert", "configure", "input",
                        "deliver", "ended", "crashed"},
                  key : Keys \cup {NoKey}, time : BOOLEAN]
    BY <1>1, <1>2 DEF ServerTypeOK
  <2>. QED  BY <1>1, <1>2, <1>4, <1>5, <2>1 DEF ServerTypeOK, MapOK, EntryOK
<1>7. IteratorInv'
  <2>1. nudge.pc # "visit"
    BY <1>1, <1>2 DEF IteratorInv
  <2>. QED  BY <1>1, <1>2, <1>4, <1>5, <2>1 DEF IteratorInv
<1>8. ToldInv'
  <2>1. net'.pc = "configure"
    BY <1>1, <1>2 DEF ServerTypeOK
  <2>2. nudge.pc = "erase" => nudge.key \in told \ {net.key}
    BY <1>2, <1>3 DEF ToldInv, IteratorInv
  <2>. QED  BY <1>1, <1>2, <1>3, <1>4, <1>5, <2>1, <2>2 DEF ToldInv
<1>. QED  BY <1>4, <1>6, <1>7, <1>8, MapFacts

\* The steps of the nudge thread outside of the map and of told.
LEMMA NudgeQuietInv ==
    ASSUME ServerInv, owner # "gone",
           NudgeStart \/ NudgeTest \/ NudgeUnlock \/ \E beat \in BOOLEAN : NudgeLock(beat)
    PROVE  ServerInv'
<1>1. UNCHANGED <<mKCPMap, net, open, owner, told, late>>
  BY DEF NudgeStart, NudgeTest, NudgeUnlock, NudgeLock
<1> USE DEF ServerInv, ServerTypeOK, IteratorInv, ToldInv
<1>2. nudge \in [pc : {"new", "loop", "lock", "visit", "callback", "erase", "quit", "ended"},
                 todo : SUBSET Keys, key : Keys \cup {NoKey}, beat : BOOLEAN, callback : BOOLEAN]
  OBVIOUS
<1>3. ServerTypeOK' /\ IteratorInv' /\ ToldInv'
  <2>1. CASE NudgeStart
    <3>1. locked' = locked /\ active' \in BOOLEAN /\ nudge' = [nudge EXCEPT !.pc = "loop"]
      BY <2>1 DEF NudgeStart
    <3>. QED  BY <1>1, <2>1, <3>1 DEF NudgeStart
  <2>2. CASE NudgeTest
    <3>1. locked' = locked /\ active' = active
      BY <2>2 DEF NudgeTest
    <3>2. CASE active
      <4>1. nudge' = [nudge EXCEPT !.pc = "lock"]
        BY <2>2, <3>2 DEF NudgeTest
      <4>. QED  BY <1>1, <2>2, <3>1, <4>1 DEF NudgeTest
    <3>3. CASE ~active
      <4>1. nudge' = [nudge EXCEPT !.pc = "quit", !.todo = DOMAIN mKCPMap]
        BY <2>2, <3>3 DEF NudgeTest
      <4>2. /\ nudge'.pc = "quit"
            /\ nudge' \in [pc : {"new", "loop", "lock", "visit", "callback", "erase", "quit", "ended"},
                            todo : SUBSET Keys, key : Keys \cup {NoKey}, beat : BOOLEAN, callback : BOOLEAN]
        BY <1>2, <4>1
      <4>. QED  BY <1>1, <2>2, <3>1, <4>2 DEF NudgeTest
    <3>. QED  BY <3>2, <3>3
  <2>3. CASE NudgeUnlock
    <3>1. active' = active /\ ~locked'
      BY <2>3 DEF NudgeUnlock
    <3>. QED  BY <1>1, <2>3, <3>1, ZenonT(30) DEF NudgeUnlock
  <2>4. ASSUME NEW beat \in BOOLEAN, NudgeLock(beat)
        PROVE  ServerTypeOK' /\ IteratorInv' /\ ToldInv'
    <3>1. active' = active /\ locked' /\ nudge.pc = "lock"
      BY <2>4 DEF NudgeLock
    <3>2. nudge' = [nudge EXCEPT !.pc = "visit", !.todo = DOMAIN mKCPMap, !.key = NoKey, !.beat = beat]
      BY <2>4 DEF NudgeLock
    <3>3. /\ nudge' \in [pc : {"new", "loop", "lock", "visit", "callback", "erase", "quit", "ended"},
                           todo : SUBSET Keys, key : Keys \cup {NoKey}, beat : BOOLEAN, callback : BOOLEAN]
          /\ nudge'.pc = "visit" /\ nudge'.todo = DOMAIN mKCPMap
      BY <1>2, <3>2
    <3>. QED  BY <1>1, <3>1, <3>3
  <2>. QED  BY <2>1, <2>2, <2>3, <2>4
<1>4. PointsInv' /\ CorrectionIsBest'
  BY <1>1 DEF PointsInv, CorrectionIsBest
<1>. QED  BY <1>3, <1>4 DEF ServerInv

\* The nudge thread counts an entry down, or leaves the lock with its iterator
\* on it.
LEMMA NudgeVisitInv ==
    ASSUME ServerInv, owner # "gone", NEW k \in Keys, NudgeVisit(k)
    PROVE  ServerInv'
<1>1. nudge.pc = "visit" /\ k \in nudge.todo /\ UNCHANGED <<net, active, open, owner, told, late>>
  BY DEF NudgeVisit
<1>2. ServerTypeOK /\ IteratorInv /\ ToldInv /\ MapOK
  BY MapFacts
<1>3. locked /\ nudge.todo \subseteq DOMAIN mKCPMap
  BY <1>1, <1>2 DEF IteratorInv
<1>4. mKCPMap[k].timeout \in 0..MaxUnsigned /\ EntryOK(mKCPMap[k]) /\ MaxUnsigned \in Nat
  BY <1>1, <1>2, <1>3, UnsignedAssumption DEF MapOK, EntryOK, Connections
<1>5. CASE nudge.beat /\ mKCPMap[k].timeout = 0 /\ nudge.callback
  <2>1. /\ nudge' = [nudge EXCEPT !.pc = "callback", !.todo = @ \ {k}, !.key = k]
        /\ locked' = FALSE /\ mKCPMap' = mKCPMap
    BY <1>5 DEF NudgeVisit
  <2>2. ServerTypeOK'
    BY <1>1, <1>2, <2>1 DEF ServerTypeOK
  <2>3. /\ nudge'.pc = "callback" /\ nudge'.key = k /\ nudge'.todo = nudge.todo \ {k}
    BY <1>2, <2>1 DEF ServerTypeOK
  <2>4. IteratorInv' /\ ToldInv'
    BY <1>1, <1>2, <1>3, <2>1, <2>3 DEF IteratorInv, ToldInv
  <2>5. MapOK'
    BY <1>2, <2>1 DEF MapOK, EntryOK
  <2>. QED  BY <2>2, <2>4, <2>5, MapFacts
<1>6. CASE ~(nudge.beat /\ mKCPMap[k].timeout = 0 /\ nudge.callback)
  <2> DEFINE t == IF nudge.beat THEN Decremented(mKCPMap[k].timeout) ELSE mKCPMap[k].timeout
  <2>1. /\ nudge' = [nudge EXCEPT !.todo = @ \ {k}] /\ locked' = locked
        /\ mKCPMap' = WithEntry(k, [mKCPMap[k] EXCEPT !.timeout = t])
    BY <1>6 DEF NudgeVisit
  <2>2. t \in 0..MaxUnsigned
    BY <1>4 DEF Decremented
  <2>3. MapOK' /\ DOMAIN mKCPMap' = DOMAIN mKCPMap
    BY <1>1, <1>2, <1>3, <1>4, <2>1, <2>2, TimeoutOK, WithEntryOK
  <2>4. /\ nudge'.pc = "visit" /\ nudge'.todo = nudge.todo \ {k}
        /\ nudge' \in [pc : {"new", "loop", "lock", "visit", "callback", "erase", "quit", "ended"},
                        todo : SUBSET Keys, key : Keys \cup {NoKey}, beat : BOOLEAN, callback : BOOLEAN]
    BY <1>1, <1>2, <2>1 DEF ServerTypeOK
  <2>5. ServerTypeOK'
    <3>1. \A x \in DOMAIN mKCPMap' : mKCPMap'[x] \in Connections
      BY <2>3 DEF MapOK, EntryOK
    <3>2. /\ active' = active /\ open' = open /\ late' = late /\ net' = net
          /\ owner' = owner /\ told' = told
      BY <1>1
    <3>. QED  BY <1>2, <2>1, <2>3, <2>4, <3>1, <3>2 DEF ServerTypeOK
  <2>6. IteratorInv' /\ ToldInv'
    BY <1>1, <1>2, <1>3, <2>1, <2>3, <2>4 DEF IteratorInv, ToldInv
  <2>. QED  BY <2>3, <2>5, <2>6, MapFacts
<1>. QED  BY <1>5, <1>6

\* rDisconnect is called for the entry of the iterator, or for one of the last
\* loop, and announces it.
LEMMA NudgeTellInv ==
    ASSUME ServerInv, owner # "gone", NudgeCallback \/ NudgeQuit
    PROVE  ServerInv'
<1>1. UNCHANGED <<mKCPMap, locked, net, active, open, owner, late>>
  BY DEF NudgeCallback, NudgeQuit
<1>2. ServerTypeOK'
  BY <1>1 DEF ServerInv, ServerTypeOK, IteratorInv, NudgeCallback, NudgeQuit
<1>3. IteratorInv'
  BY <1>1 DEF ServerInv, ServerTypeOK, IteratorInv, NudgeCallback, NudgeQuit
<1>4. ToldInv'
  BY <1>1 DEF ServerInv, ServerTypeOK, IteratorInv, ToldInv, NudgeCallback, NudgeQuit
<1>5. PointsInv' /\ CorrectionIsBest'
  BY <1>1 DEF ServerInv, PointsInv, CorrectionIsBest
<1>. QED  BY <1>2, <1>3, <1>4, <1>5 DEF ServerInv

\* The entry that is erased is the one that was announced.
LEMMA NudgeEraseInv == ASSUME ServerInv, owner # "gone", NudgeErase PROVE ServerInv'
<1>1. /\ nudge.pc = "erase" /\ locked' = TRUE /\ mKCPMap' = WithoutEntry(nudge.key)
      /\ nudge' = [nudge EXCEPT !.pc = "visit", !.key = NoKey]
      /\ UNCHANGED <<net, active, open, owner, told, late>>
  BY DEF NudgeErase
<1>2. ServerTypeOK /\ IteratorInv /\ ToldInv /\ MapOK
  BY MapFacts
<1>3. MapOK' /\ DOMAIN mKCPMap' = DOMAIN mKCPMap \ {nudge.key}
  BY <1>1, <1>2, WithoutEntryOK
<1>4. /\ nudge'.pc = "visit" /\ nudge'.todo = nudge.todo
      /\ nudge' \in [pc : {"new", "loop", "lock", "visit", "callback", "erase", "quit", "ended"},
                      todo : SUBSET Keys, key : Keys \cup {NoKey}, beat : BOOLEAN, callback : BOOLEAN]
  BY <1>1, <1>2 DEF ServerTypeOK
<1>5. ServerTypeOK'
  BY <1>1, <1>2, <1>3, <1>4 DEF ServerTypeOK, MapOK, EntryOK
<1>6. IteratorInv' /\ ToldInv'
  BY <1>1, <1>2, <1>3, <1>4 DEF IteratorInv, ToldInv
<1>. QED  BY <1>3, <1>5, <1>6, MapFacts

\* The destructor.
LEMMA OwnerInv ==
    ASSUME ServerInv, ServerClose \/ ServerJoin \/ ServerGiveUp \/ ServerClear
    PROVE  ServerInv'
<1>1. CASE ServerClear
  <2>1. DOMAIN mKCPMap' = {}
    BY <1>1 DEF ServerClear
  <2>2. ServerTypeOK' /\ IteratorInv' /\ ToldInv'
    BY <1>1, <2>1 DEF ServerInv, ServerTypeOK, IteratorInv, ToldInv, ServerClear
  <2>3. PointsInv' /\ CorrectionIsBest'
    BY <2>1 DEF PointsInv, CorrectionIsBest
  <2>. QED  BY <2>2, <2>3 DEF ServerInv
<1>2. CASE ServerClose \/ ServerJoin \/ ServerGiveUp
  <2>1. UNCHANGED <<mKCPMap, locked, net, nudge, told>>
    BY <1>2 DEF ServerClose, ServerJoin, ServerGiveUp
  <2>2. /\ active' \in BOOLEAN /\ open' \in BOOLEAN /\ late' \in BOOLEAN
        /\ owner' \in {"alive", "joinNet", "joinNudge", "clear", "gone"}
        /\ owner' # "gone" => owner # "gone"
    BY <1>2 DEF ServerInv, ServerTypeOK, ServerClose, ServerJoin, ServerGiveUp
  <2>. QED
    BY <2>1, <2>2
       DEF ServerInv, ServerTypeOK, IteratorInv, ToldInv, PointsInv, CorrectionIsBest
<1>. QED  BY <1>1, <1>2

\* Whatever the peers send, and however the two threads, the callbacks and the
\* destructor interleave, ServerInv holds.
THEOREM ServerInvariant == ServerSpec => []ServerInv
<1>1. ServerInv /\ [ServerNext]_serverVars => ServerInv'
  <2> SUFFICES ASSUME ServerInv, [ServerNext]_serverVars PROVE ServerInv'
    OBVIOUS
  <2>1. CASE UNCHANGED serverVars
    BY <2>1 DEF serverVars, ServerInv, ServerTypeOK, IteratorInv, ToldInv, PointsInv, CorrectionIsBest
  <2>2. CASE ServerNext
    BY <2>2, NetQuietInv, NetEntryInv, NetInsertInv, NudgeQuietInv, NudgeVisitInv, NudgeTellInv,
       NudgeEraseInv, OwnerInv
       DEF ServerNext, Alive, NetStep, NudgeStep
  <2>. QED  BY <2>1, <2>2
<1>. QED  BY <1>1, ServerStart, PTL DEF ServerSpec

\* While rDisconnect runs without the lock, the entry it is called for stays in
\* the map: the iterator that erase is given afterwards is valid.
THEOREM ServerIteratorValid == ServerSpec => []IteratorValid
<1>1. ServerInv => IteratorValid
  BY DEF ServerInv, IteratorInv, IteratorValid
<1>. QED  BY <1>1, ServerInvariant, PTL

\* No connection disappears before rDisconnect was called for it, and for none
\* it is called twice, until the destructor runs.
THEOREM ServerToldOnce == ServerSpec => ToldOnce
<1> DEFINE Once == /\ \A k \in DOMAIN mKCPMap : k \notin DOMAIN mKCPMap' => k \in told \/ owner # "alive"
                   /\ nudge.pc = "callback" /\ nudge'.pc # "callback" => nudge.key \notin told
<1>1. ServerInv /\ [ServerNext]_serverVars => [Once]_serverVars
  <2> SUFFICES ASSUME ServerInv, ServerNext PROVE Once
    OBVIOUS
  <2>1. ServerTypeOK /\ IteratorInv /\ ToldInv /\ MapOK /\ owner # "gone"
    BY MapFacts DEF ServerNext, Alive
  <2>2. nudge.pc = "callback" => nudge.key \notin told
    BY <2>1 DEF IteratorInv, ToldInv
  <2>3. ASSUME NEW k \in DOMAIN mKCPMap, k \notin DOMAIN mKCPMap' PROVE k \in told \/ owner # "alive"
    <3>1. CASE NudgeErase
      <4>1. DOMAIN mKCPMap' = DOMAIN mKCPMap \ {nudge.key} /\ nudge.pc = "erase"
        BY <3>1, EntryFacts DEF NudgeErase
      <4>. QED  BY <2>1, <2>3, <4>1 DEF ToldInv
    <3>2. CASE ServerClear
      BY <3>2 DEF ServerClear
    <3>3. CASE ~NudgeErase /\ ~ServerClear
      <4>1. \/ mKCPMap' = mKCPMap
            \/ \E j, r : mKCPMap' = WithEntry(j, r)
        BY <3>3 DEF ServerNext, NetStep, NudgeStep, NetStart, NetStop, NetUnknown, NetValidate,
             NetInsert, NetConfigure, NetInput, NetDeliver, NetRecv, NetTimePacket, NetData,
             NudgeStart, NudgeTest, NudgeCallback, NudgeUnlock, NudgeQuit, NudgeVisit, NudgeLock,
             ServerClose, ServerJoin, ServerGiveUp
      <4>2. DOMAIN mKCPMap \subseteq DOMAIN mKCPMap'
        BY <4>1 DEF WithEntry
      <4>. QED  BY <2>3, <4>2
    <3>. QED  BY <3>1, <3>2, <3>3
  <2>. QED  BY <2>2, <2>3
<1>. QED  BY <1>1, ServerInvariant, PTL DEF ServerSpec, ToldOnce

\* Once a connection's time is stable, its correction is that of the quickest
\* sample still saved, for any number of samples: what partial_sort_copy selects
\* exists, and the list never shrinks below what was enough.
THEOREM ServerCorrectionIsBest == ServerSpec => []CorrectionIsBest
<1>1. ServerInv => CorrectionIsBest
  BY DEF ServerInv
<1>. QED  BY <1>1, ServerInvariant, PTL

\* With an rDisconnect, a step that changes the map puts a count in it that is
\* at most TimeOut, or removes an entry.
LEMMA TimeoutsStep ==
    ASSUME ServerInv, TimeoutsInRange, ServerNext PROVE TimeoutsInRange'
<1>1. ServerTypeOK /\ IteratorInv /\ MapOK /\ owner # "gone"
  BY MapFacts DEF ServerNext, Alive
<1>2. nudge'.callback = nudge.callback
  BY <1>1 DEF ServerTypeOK, ServerNext, NetStep, NudgeStep, NetStart, NetStop, NetUnknown,
       NetValidate, NetInsert, NetConfigure, NetInput, NetDeliver, NetRecv, NetTimePacket, NetData,
       NudgeStart, NudgeTest, NudgeCallback, NudgeErase, NudgeUnlock, NudgeQuit, NudgeVisit,
       NudgeLock, ServerClose, ServerJoin, ServerGiveUp, ServerClear
<1> SUFFICES ASSUME nudge.callback, NEW j \in DOMAIN mKCPMap'
             PROVE  mKCPMap'[j].timeout \in 0..TimeOut
  BY <1>2 DEF TimeoutsInRange
<1>3. \A k \in DOMAIN mKCPMap : mKCPMap[k].timeout \in 0..TimeOut /\ mKCPMap[k] \in Connections
  BY <1>1 DEF TimeoutsInRange, MapOK, EntryOK
<1>4. TimeOut \in Nat /\ TimeOut \in 0..TimeOut
  BY ServerAssumption
<1>5. ASSUME NEW k, NEW r, mKCPMap' = WithEntry(k, r), r.timeout \in 0..TimeOut
      PROVE  mKCPMap'[j].timeout \in 0..TimeOut
  <2>1. DOMAIN mKCPMap' = DOMAIN mKCPMap \cup {k} /\ mKCPMap'[k] = r
    BY <1>5, EntryFacts
  <2>2. \A i \in DOMAIN mKCPMap : i # k => mKCPMap'[i] = mKCPMap[i]
    BY <1>5 DEF WithEntry
  <2>3. CASE j = k
    BY <1>5, <2>1, <2>3
  <2>4. CASE j # k
    BY <1>3, <2>1, <2>2, <2>4
  <2>. QED  BY <2>3, <2>4
<1>6. CASE mKCPMap' = mKCPMap
  BY <1>3, <1>6
<1>7. CASE NetInsert
  <2>1. NewConnection.timeout \in 0..TimeOut
    BY <1>4 DEF NewConnection
  <2>. QED  BY <1>5, <1>7, <2>1 DEF NetInsert
<1>8. CASE NetTimePacket
  <2>1. net.key \in DOMAIN mKCPMap
    BY <1>8 DEF NetTimePacket
  <2>0. PICK x \in Samples, b \in BOOLEAN :
            mKCPMap' = WithEntry(net.key, Synchronized(mKCPMap[net.key], x, b))
    BY <1>8 DEF NetTimePacket
  <2>2. Synchronized(mKCPMap[net.key], x, b).timeout = mKCPMap[net.key].timeout
    BY <1>3, <2>1 DEF Synchronized, Connections
  <2>3. Synchronized(mKCPMap[net.key], x, b).timeout \in 0..TimeOut
    BY <1>3, <2>1, <2>2
  <2>. QED  BY <1>5, <2>0, <2>3
<1>9. ASSUME NEW k \in Keys, NetData(k) PROVE mKCPMap'[j].timeout \in 0..TimeOut
  <2>1. k \in DOMAIN mKCPMap /\ mKCPMap' = WithEntry(k, [mKCPMap[k] EXCEPT !.timeout = TimeOut])
    BY <1>9 DEF NetData
  <2>2. [mKCPMap[k] EXCEPT !.timeout = TimeOut].timeout \in 0..TimeOut
    BY <1>3, <1>4, <2>1 DEF Connections
  <2>. QED  BY <1>5, <2>1, <2>2
<1>10. ASSUME NEW k \in Keys, NudgeVisit(k), mKCPMap' # mKCPMap
       PROVE  mKCPMap'[j].timeout \in 0..TimeOut
  <2> DEFINE t == IF nudge.beat THEN Decremented(mKCPMap[k].timeout) ELSE mKCPMap[k].timeout
  <2>1. k \in DOMAIN mKCPMap
    BY <1>1, <1>10 DEF NudgeVisit, IteratorInv
  <2>2. /\ ~(nudge.beat /\ mKCPMap[k].timeout = 0)
        /\ mKCPMap' = WithEntry(k, [mKCPMap[k] EXCEPT !.timeout = t])
    BY <1>10 DEF NudgeVisit
  <2>3. t \in 0..TimeOut
    BY <1>3, <1>4, <2>1, <2>2 DEF Decremented
  <2> HIDE DEF t
  <2>4. [mKCPMap[k] EXCEPT !.timeout = t].timeout \in 0..TimeOut
    BY <1>3, <2>1, <2>3 DEF Connections
  <2>. QED  BY <1>5, <2>2, <2>4
<1>11. CASE NudgeErase
  <2>1. mKCPMap' = [i \in DOMAIN mKCPMap \ {nudge.key} |-> mKCPMap[i]]
    BY <1>11 DEF NudgeErase, WithoutEntry
  <2>. QED  BY <1>3, <2>1
<1>12. CASE ServerClear
  BY <1>12 DEF ServerClear
<1>13. \/ mKCPMap' = mKCPMap \/ NetInsert \/ NetTimePacket \/ NudgeErase \/ ServerClear
       \/ \E k \in Keys : NetData(k)
       \/ \E k \in Keys : NudgeVisit(k)
  BY DEF ServerNext, NetStep, NudgeStep, NetStart, NetStop, NetUnknown, NetValidate, NetConfigure,
         NetInput, NetDeliver, NetRecv, NudgeStart, NudgeTest, NudgeCallback, NudgeUnlock,
         NudgeQuit, NudgeLock, ServerClose, ServerJoin, ServerGiveUp
<1>. QED  BY <1>6, <1>7, <1>8, <1>9, <1>10, <1>11, <1>12, <1>13

\* A server with an rDisconnect: no connection's count of heart beats wraps below
\* zero, though the lock is released between the test of it and the decrement.
THEOREM ServerTimeoutsInRange == ServerSpec => []TimeoutsInRange
<1>1. ServerInit => TimeoutsInRange
  BY DEF ServerInit, TimeoutsInRange
<1>2. ServerInv /\ TimeoutsInRange /\ [ServerNext]_serverVars => TimeoutsInRange'
  BY TimeoutsStep DEF serverVars, TimeoutsInRange
<1>. QED  BY <1>1, <1>2, ServerInvariant, PTL DEF ServerSpec
=============================================================================
