---------------------------- MODULE KCPNetClient ----------------------------
(***************************************************************************)
(* KCPNetClient of kcp-cpp/KCPNet.cpp: a network thread that answers time  *)
(* packets and feeds KCP, and a nudge thread that slews the time           *)
(* correction, counts heart beats and updates KCP.  The server is          *)
(* arbitrary.                                                              *)
(*                                                                         *)
(* Correction and target are atomics used by both threads without the      *)
(* lock: one step is one access, or several that nobody else can tell      *)
(* apart from one.                                                         *)
(***************************************************************************)
EXTENDS Integers, HeartBeat

CONSTANTS
    Corrections,        \* the corrections a server may send
    MaxComp,            \* lMaxComp: the largest change in one round
    ClientTimeOut       \* HEART_BEAT_TIME_OUT

ASSUME ClientAssumption ==
    /\ Corrections \subseteq Int
    /\ {MaxComp, ClientTimeOut} \subseteq Nat \ {0} /\ ClientTimeOut <= MaxUnsigned

VARIABLES
    got,            \* mGotCorrection
    target,         \* mCurrentCorrectionTarget
    correction,     \* mCurrentCorrection
    worker,         \* the network thread: its place and the correction it has read
    nudger,         \* the nudge thread: its place, lTimeLast is set, the sign of its
                    \* change, the count it has read, it was given an rDisconnect
    timeout         \* mConnectionTimeOut

clientVars == <<got, target, correction, worker, nudger, timeout>>

ClientInit ==
    /\ got = FALSE /\ target = 0 /\ correction = 0
    /\ worker = [pc |-> "recv", value |-> 0]
    /\ \E callback \in BOOLEAN :
          nudger = [pc |-> "slew", timed |-> FALSE, sign |-> 0, seen |-> 0, callback |-> callback]
    /\ timeout = ClientTimeOut

-----------------------------------------------------------------------------
(* netWorkerClient.                                                        *)

\* A time packet without a correction, or data for KCP: a sign of life.
ClientRecv ==
    /\ worker.pc = "recv"
    /\ timeout' = ClientTimeOut
    /\ UNCHANGED <<got, target, correction, worker, nudger>>

\* A time packet with a correction; the first one is taken over at once.
ClientCorrection(c) ==
    /\ worker.pc = "recv"
    /\ worker' = [pc |-> "target", value |-> c]
    /\ correction' = IF got THEN correction ELSE c
    /\ UNCHANGED <<got, target, nudger, timeout>>

ClientTarget ==
    /\ worker.pc = "target"
    /\ target' = worker.value
    /\ worker' = [worker EXCEPT !.pc = "answer"]
    /\ UNCHANGED <<got, correction, nudger, timeout>>

\* The packet goes back with t2 and t3.
ClientAnswer ==
    /\ worker.pc = "answer"
    /\ got' = TRUE
    /\ timeout' = ClientTimeOut
    /\ worker' = [pc |-> "recv", value |-> 0]
    /\ UNCHANGED <<target, correction, nudger>>

-----------------------------------------------------------------------------
(* kcpNudgeWorkerClient.                                                   *)

\* Does the correction have to change?  The first round with one only sets lTimeLast.
NudgeCompare ==
    /\ nudger.pc = "slew"
    /\ nudger' = [nudger EXCEPT
                     !.pc = IF got /\ nudger.timed /\ target # correction THEN "sign" ELSE "beat",
                     !.timed = @ \/ got]
    /\ UNCHANGED <<got, target, correction, worker, timeout>>

\* Which way?  The target is read again.
NudgeSign ==
    /\ nudger.pc = "sign"
    /\ nudger' = [nudger EXCEPT !.pc = "change", !.sign = IF target > correction THEN 1 ELSE -1]
    /\ UNCHANGED <<got, target, correction, worker, timeout>>

\* mCurrentCorrection += lMaxComp, which depends on the time that has passed.
NudgeChange ==
    /\ nudger.pc = "change"
    /\ \E comp \in 0..MaxComp : correction' = correction + nudger.sign * comp
    /\ nudger' = [nudger EXCEPT !.pc = "clamp"]
    /\ UNCHANGED <<got, target, worker, timeout>>

\* Mutant: the correction may pass its target.
NudgeClamp_Never ==
    /\ nudger.pc = "clamp"
    /\ nudger' = [nudger EXCEPT !.pc = "beat", !.sign = 0]
    /\ UNCHANGED <<got, target, correction, worker, timeout>>

\* Has the correction passed its target, as the target is now?
NudgeClamp ==
    /\ nudger.pc = "clamp"
    /\ nudger' = IF (correction - target) * nudger.sign > 0
                 THEN [nudger EXCEPT !.pc = "take", !.sign = 0]
                 ELSE [nudger EXCEPT !.pc = "beat", !.sign = 0]
    /\ UNCHANGED <<got, target, correction, worker, timeout>>

\* Then it becomes the target, read once more.
NudgeTake ==
    /\ nudger.pc = "take"
    /\ correction' = target
    /\ nudger' = [nudger EXCEPT !.pc = "beat"]
    /\ UNCHANGED <<got, target, worker, timeout>>

\* Mutant: the timeout is not restored after rDisconnect.
NudgeBeat_NoRestore ==
    /\ nudger.pc = "beat"
    /\ \E due \in BOOLEAN : nudger' = [nudger EXCEPT !.pc = IF due THEN "count" ELSE "slew"]
    /\ UNCHANGED <<got, target, correction, worker, timeout>>

\* Is a heart beat due, and no time left?  Then rDisconnect is called, if there
\* is one, and only then is the timeout restored.
NudgeBeat ==
    /\ nudger.pc = "beat"
    /\ \E due \in BOOLEAN :
          /\ nudger' = [nudger EXCEPT !.pc = IF due THEN "count" ELSE "slew"]
          /\ timeout' = IF due /\ timeout = 0 /\ nudger.callback THEN ClientTimeOut ELSE timeout
    /\ UNCHANGED <<got, target, correction, worker>>

\* mConnectionTimeOut--, unsigned and not atomic: what the network thread stores
\* between the read and the write is lost.
NudgeCount ==
    /\ nudger.pc = "count"
    /\ nudger' = [nudger EXCEPT !.pc = "store", !.seen = timeout]
    /\ UNCHANGED <<got, target, correction, worker, timeout>>

NudgeStore ==
    /\ nudger.pc = "store"
    /\ timeout' = Decremented(nudger.seen)
    /\ nudger' = [nudger EXCEPT !.pc = "slew", !.seen = 0]
    /\ UNCHANGED <<got, target, correction, worker>>

-----------------------------------------------------------------------------
ClientNext ==
    \/ ClientRecv \/ (\E c \in Corrections : ClientCorrection(c)) \/ ClientTarget \/ ClientAnswer
    \/ NudgeCompare \/ NudgeSign \/ NudgeChange \/ NudgeClamp \/ NudgeTake \/ NudgeBeat \/ NudgeCount \/ NudgeStore

ClientSpec == ClientInit /\ [][ClientNext]_clientVars

-----------------------------------------------------------------------------
(* Properties.                                                             *)

\* With an rDisconnect, the counter of heart beats never wraps below zero, though
\* it is tested, restored and decremented in separate steps while the network
\* thread sets it.  (Without one nothing restores it, and it does wrap.)
TimeoutInRange == nudger.callback => timeout \in 0..ClientTimeOut

\* Outside of a change, the correction lies between corrections that the server
\* sends: slewing never passes the target, even one that changes meanwhile.
CorrectionInHull ==
    got /\ nudger.pc \notin {"clamp", "take"} =>
        \E lo, hi \in Corrections : lo <= correction /\ correction <= hi

\* What the comment on MAX_TIME_DRIFT_PPM says: once there is a correction, it
\* is never changed by more than the maximum adjustment at a time.
DriftBounded ==
    [][got => correction' - correction \in -MaxComp..MaxComp]_clientVars

-----------------------------------------------------------------------------
(* The inductive invariant.                                                *)

\* The types of the client's fields and of its threads.
ClientTypeOK ==
    /\ got \in BOOLEAN /\ target \in Int /\ correction \in Int
    /\ worker \in [pc : {"recv", "target", "answer"}, value : Int]
    /\ nudger \in [pc : {"slew", "sign", "change", "clamp", "take", "beat", "count", "store"},
                   timed : BOOLEAN, sign : -1..1, seen : 0..MaxUnsigned, callback : BOOLEAN]
    /\ timeout \in 0..MaxUnsigned

\* With an rDisconnect the count that is decremented is not zero: a zero was
\* restored before, and the network thread stores none.
CountPositive ==
    nudger.callback =>
        /\ timeout <= ClientTimeOut
        /\ nudger.pc = "count" => timeout > 0
        /\ nudger.pc = "store" => nudger.seen \in 1..ClientTimeOut

\* A correction has come from the server, if only to the network thread.
Informed == got \/ worker.pc # "recv"

\* The target is what a server has sent, and slewing leaves the hull only on the
\* side it moves to.
SlewInv ==
    /\ worker.pc = "target" => worker.value \in Corrections
    /\ got \/ worker.pc = "answer" => target \in Corrections
    /\ nudger.pc \in {"sign", "change", "clamp", "take"} => got
    /\ nudger.pc \in {"change", "clamp"} => nudger.sign # 0
    /\ Informed /\ nudger.pc \notin {"clamp", "take"} =>
           \E lo, hi \in Corrections : lo <= correction /\ correction <= hi
    /\ nudger.pc = "clamp" =>
           \E c \in Corrections : (correction - c) * nudger.sign >= 0

ClientInv == ClientTypeOK /\ CountPositive /\ SlewInv
=============================================================================
