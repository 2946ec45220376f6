---------------------------- MODULE KCPNetServer ----------------------------
(***************************************************************************)
(* KCPNetServer of kcp-cpp/KCPNet.cpp: a table of connections that a       *)
(* network thread fills and a nudge thread updates, times out and empties, *)
(* with user callbacks called outside the lock, and a destructor that      *)
(* waits for both threads for a while.  The peers are arbitrary: any       *)
(* datagram may come from any address at any time.                         *)
(*                                                                         *)
(* One step is what a thread does between two points where another thread  *)
(* can interfere: taking and releasing mKCPMapMtx, a callback, a flag.  A  *)
(* critical section without a callback in it is one step.                  *)
(***************************************************************************)
EXTENDS Integers, Sequences, FiniteSets, HeartBeat

CONSTANTS
    Keys,               \* addresses of peers
    SyncKeys,           \* bound: the peers that send time packets
    Samples,            \* the <<delay, compensation>> a time packet yields
    TimeOut,            \* HEART_BEAT_TIME_OUT
    MinPoints,          \* MIN_COLLECTED_TIME_POINTS
    MaxPoints,          \* MAX_SAVED_TIME_POINTS
    MaxDelayDiff,       \* MAX_DELAY_DIFF_MS, in the unit of the samples
    NoKey

ASSUME ServerAssumption ==
    /\ SyncKeys \subseteq Keys /\ NoKey \notin Keys
    /\ Samples \subseteq Int \X Int
    /\ {TimeOut, MinPoints, MaxPoints} \subseteq Nat \ {0} /\ MinPoints <= MaxPoints
    /\ TimeOut <= MaxUnsigned
    /\ MaxDelayDiff \in Nat

VARIABLES
    mKCPMap,        \* the connections, by key
    locked,         \* the nudge thread holds mKCPMapMtx
    net,            \* the network thread: its place, the peer and kind of datagram
    nudge,          \* the nudge thread: its place, keys still to visit, current key,
                    \* a heart beat is due, it was given an rDisconnect
    active,         \* mNudgeThreadActive
    open,           \* the socket
    owner,          \* how far the destructor has come
    told,           \* history: removed-to-be connections whose rDisconnect has run
    late            \* history: a thread had not started, or not ended, in time

serverVars == <<mKCPMap, locked, net, nudge, active, open, owner, told, late>>

\* A fresh KCPServerData.
NewConnection == [timeout |-> TimeOut, stable |-> FALSE, synced |-> FALSE,
                  points |-> <<>>, correction |-> 0]

ServerInit ==
    /\ mKCPMap = << >>
    /\ locked = FALSE
    /\ net = [pc |-> "new", key |-> NoKey, time |-> FALSE]
    /\ \E callback \in BOOLEAN :
          nudge = [pc |-> "new", todo |-> {}, key |-> NoKey, beat |-> FALSE, callback |-> callback]
    /\ active = FALSE
    /\ open = TRUE
    /\ owner = "alive"
    /\ told = {}
    /\ late = FALSE

NetGoto(place) == net' = [net EXCEPT !.pc = place]

WithEntry(k, r) == [j \in DOMAIN mKCPMap \cup {k} |-> IF j = k THEN r ELSE mKCPMap[j]]
WithoutEntry(k) == [j \in DOMAIN mKCPMap \ {k} |-> mKCPMap[j]]

-----------------------------------------------------------------------------
(* netWorkerServer.                                                        *)

NetStart ==
    /\ net.pc = "new"
    /\ NetGoto("recv")
    /\ UNCHANGED <<mKCPMap, locked, nudge, active, open, owner, told, late>>

\* A datagram arrives (with mDropAll set it would be dropped here).
NetRecv(k, time) ==
    /\ net.pc = "recv" /\ open
    /\ time => k \in SyncKeys
    /\ net' = [pc |-> "lookup", key |-> k, time |-> time]
    /\ UNCHANGED <<mKCPMap, locked, nudge, active, open, owner, told, late>>

NetStop ==
    /\ net.pc = "recv" /\ ~open
    /\ NetGoto("ended")
    /\ UNCHANGED <<mKCPMap, locked, nudge, active, open, owner, told, late>>

\* An unknown key: the lock is released for rValidate.
NetUnknown ==
    /\ net.pc = "lookup" /\ ~locked
    /\ net.key \notin DOMAIN mKCPMap
    /\ NetGoto("validate")
    /\ UNCHANGED <<mKCPMap, locked, nudge, active, open, owner, told, late>>

\* rValidate rejects the peer or lets it in.
NetValidate ==
    /\ net.pc = "validate"
    /\ \E place \in {"recv", "insert"} : NetGoto(place)
    /\ UNCHANGED <<mKCPMap, locked, nudge, active, open, owner, told, late>>

\* The new entry.  The nudge thread may be in a callback, or in its last loop,
\* with an iterator into the map: the insertion may rehash the map, and which
\* entries the iterator still meets is then anybody's guess.
NetInsert ==
    /\ net.pc = "insert" /\ ~locked
    /\ mKCPMap' = WithEntry(net.key, NewConnection)
    /\ told' = told \ {net.key}
    /\ IF nudge.pc \in {"callback", "erase", "quit"}
       THEN \E rest \in SUBSET (DOMAIN mKCPMap' \ {nudge.key}) :
                nudge' = [nudge EXCEPT !.todo = rest]
       ELSE UNCHANGED nudge
    /\ NetGoto("configure")
    /\ UNCHANGED <<locked, active, open, owner, late>>

\* configureInternal, which looks the key up again; then a first datagram that
\* is a time packet is ignored.
NetConfigure ==
    /\ net.pc = "configure" /\ ~locked
    /\ NetGoto(IF net.time THEN "recv" ELSE "input")
    /\ UNCHANGED <<mKCPMap, locked, nudge, active, open, owner, told, late>>

\* ikcp_input and ikcp_recv of a new connection; mKCPMap[lKey] of an entry
\* that has gone is a null pointer.  With a message, rGotData runs on the
\* context held by this thread.
NetInput ==
    /\ net.pc = "input" /\ ~locked
    /\ NetGoto(IF net.key \in DOMAIN mKCPMap THEN "recv" ELSE "crashed")
    /\ UNCHANGED <<mKCPMap, locked, nudge, active, open, owner, told, late>>

\* mListOfDelayAndCompensation with a new sample, the oldest dropped.
Collected(points, sample) ==
    LET all == Append(points, sample)
    IN  IF Len(all) > MaxPoints THEN Tail(all) ELSE all

\* Pairs compare by delay, then by compensation.
Before(p, q) == p[1] < q[1] \/ (p[1] = q[1] /\ p[2] <= q[2])

\* The sample that partial_sort_copy puts at place n: n samples are not after
\* it, and fewer than n before it.
Ranked(points, n) ==
    CHOOSE p \in {points[i] : i \in 1..Len(points)} :
        /\ Cardinality({i \in 1..Len(points) : Before(points[i], p)}) >= n
        /\ Cardinality({i \in 1..Len(points) : ~ Before(p, points[i])}) < n

\* Mutant: the correction is set once and not followed up.
Synchronized_Once(c, sample, confirmed) ==
    LET points == Collected(c.points, sample)
        spread == Ranked(points, MinPoints)[1] - Ranked(points, 1)[1]
        stable == c.stable \/ spread < MaxDelayDiff
    IN  IF Len(points) < MinPoints THEN [c EXCEPT !.points = points]
        ELSE [c EXCEPT !.points = points,
                       !.stable = stable,
                       !.correction = IF stable /\ ~c.stable THEN Ranked(points, 1)[2] ELSE @,
                       !.synced = @ \/ confirmed]

\* A connection after a time packet: with enough samples whose delays are close
\* the time is stable, and the sample of least delay is the correction.
\* confirmed: the client says it has a correction (correctionActive = 2).
Synchronized(c, sample, confirmed) ==
    LET points == Collected(c.points, sample)
        spread == Ranked(points, MinPoints)[1] - Ranked(points, 1)[1]
        stable == c.stable \/ spread < MaxDelayDiff
    IN  IF Len(points) < MinPoints THEN [c EXCEPT !.points = points]
        ELSE [c EXCEPT !.points = points,
                       !.stable = stable,
                       !.correction = IF stable THEN Ranked(points, 1)[2] ELSE @,
                       !.synced = @ \/ confirmed]

\* Mutant: a time packet counts as a sign of life.
NetTimePacket_Refreshes ==
    /\ net.pc = "lookup" /\ ~locked
    /\ net.time /\ net.key \in DOMAIN mKCPMap
    /\ mKCPMap' = WithEntry(net.key, [mKCPMap[net.key] EXCEPT !.timeout = TimeOut])
    /\ NetGoto("recv")
    /\ UNCHANGED <<locked, nudge, active, open, owner, told, late>>

\* A time packet of a known peer; it does not count as a sign of life.
NetTimePacket ==
    /\ net.pc = "lookup" /\ ~locked
    /\ net.time /\ net.key \in DOMAIN mKCPMap
    /\ \E sample \in Samples, confirmed \in BOOLEAN :
           mKCPMap' = WithEntry(net.key, Synchronized(mKCPMap[net.key], sample, confirmed))
    /\ NetGoto("recv")
    /\ UNCHANGED <<locked, nudge, active, open, owner, told, late>>

\* Mutant: a connection whose data KCP refuses is removed here.
NetData_Removes(k) ==
    /\ net.pc = "lookup" /\ ~locked /\ net.key = k
    /\ ~net.time /\ k \in DOMAIN mKCPMap
    /\ mKCPMap' = WithoutEntry(k)
    /\ NetGoto("recv")
    /\ UNCHANGED <<locked, nudge, active, open, owner, told, late>>

\* Data of a known peer: the timeout starts again, ikcp_input, one ikcp_recv,
\* which yields a message or none.
NetData(k) ==
    /\ net.pc = "lookup" /\ ~locked /\ net.key = k
    /\ ~net.time /\ k \in DOMAIN mKCPMap
    /\ mKCPMap' = WithEntry(k, [mKCPMap[k] EXCEPT !.timeout = TimeOut])
    /\ \E place \in {"recv", "deliver"} : NetGoto(place)
    /\ UNCHANGED <<locked, nudge, active, open, owner, told, late>>

\* rGotData, on the context that mKCPMap[lKey] names, read without the lock.
NetDeliver ==
    /\ net.pc = "deliver"
    /\ NetGoto(IF net.key \in DOMAIN mKCPMap THEN "recv" ELSE "crashed")
    /\ UNCHANGED <<mKCPMap, locked, nudge, active, open, owner, told, late>>

NetStep ==
    \/ NetStart \/ NetStop \/ NetUnknown \/ NetValidate \/ NetInsert \/ NetConfigure
    \/ NetInput \/ NetTimePacket \/ NetDeliver
    \/ \E k \in Keys : NetData(k)

-----------------------------------------------------------------------------
(* kcpNudgeWorkerServer.                                                   *)

\* The flag is set here, whatever the destructor has done to it.
NudgeStart ==
    /\ nudge.pc = "new"
    /\ nudge' = [nudge EXCEPT !.pc = "loop"]
    /\ active' = TRUE
    /\ UNCHANGED <<mKCPMap, locked, net, open, owner, told, late>>

\* while (mNudgeThreadActive); on leaving, the last loop over the map begins.
NudgeTest ==
    /\ nudge.pc = "loop"
    /\ nudge' = IF active THEN [nudge EXCEPT !.pc = "lock"]
                ELSE [nudge EXCEPT !.pc = "quit", !.todo = DOMAIN mKCPMap]
    /\ UNCHANGED <<mKCPMap, locked, net, active, open, owner, told, late>>

\* After the sleep: beat, a heart beat is due.
NudgeLock(beat) ==
    /\ nudge.pc = "lock" /\ ~locked
    /\ locked' = TRUE
    /\ nudge' = [nudge EXCEPT !.pc = "visit", !.todo = DOMAIN mKCPMap, !.key = NoKey, !.beat = beat]
    /\ UNCHANGED <<mKCPMap, net, active, open, owner, told, late>>

\* Mutant: the time is counted down before rDisconnect is called.
NudgeVisit_CountsFirst(k) ==
    /\ nudge.pc = "visit" /\ k \in nudge.todo
    /\ mKCPMap' = WithEntry(k, [mKCPMap[k] EXCEPT !.timeout = IF nudge.beat THEN Decremented(@) ELSE @])
    /\ IF nudge.beat /\ mKCPMap[k].timeout = 0 /\ nudge.callback
       THEN nudge' = [nudge EXCEPT !.pc = "callback", !.todo = @ \ {k}, !.key = k] /\ locked' = FALSE
       ELSE nudge' = [nudge EXCEPT !.todo = @ \ {k}] /\ UNCHANGED locked
    /\ UNCHANGED <<net, active, open, owner, told, late>>

\* One entry: a connection without time left is announced with the lock
\* released, if there is an rDisconnect; any other is updated and may be sent a
\* time packet.  Without rDisconnect nothing is announced, and the count wraps.
NudgeVisit(k) ==
    /\ nudge.pc = "visit" /\ k \in nudge.todo
    /\ IF nudge.beat /\ mKCPMap[k].timeout = 0 /\ nudge.callback
       THEN /\ nudge' = [nudge EXCEPT !.pc = "callback", !.todo = @ \ {k}, !.key = k]
            /\ locked' = FALSE
            /\ UNCHANGED mKCPMap
       ELSE /\ nudge' = [nudge EXCEPT !.todo = @ \ {k}]
            /\ mKCPMap' = WithEntry(k, [mKCPMap[k] EXCEPT
                              !.timeout = IF nudge.beat THEN Decremented(@) ELSE @])
            /\ UNCHANGED locked
    /\ UNCHANGED <<net, active, open, owner, told, late>>

\* rDisconnect returns.
NudgeCallback ==
    /\ nudge.pc = "callback"
    /\ told' = told \cup {nudge.key}
    /\ nudge' = [nudge EXCEPT !.pc = "erase"]
    /\ UNCHANGED <<mKCPMap, locked, net, active, open, owner, late>>

\* Mutant: an entry that was heard of again during the callback stays.
NudgeErase_Spares ==
    /\ nudge.pc = "erase" /\ ~locked
    /\ locked' = TRUE
    /\ mKCPMap' = IF mKCPMap[nudge.key].timeout = 0 THEN WithoutEntry(nudge.key) ELSE mKCPMap
    /\ nudge' = [nudge EXCEPT !.pc = "visit", !.key = NoKey]
    /\ UNCHANGED <<net, active, open, owner, told, late>>

\* The lock is taken again and the entry erased, whatever has come meanwhile.
NudgeErase ==
    /\ nudge.pc = "erase" /\ ~locked
    /\ locked' = TRUE
    /\ mKCPMap' = WithoutEntry(nudge.key)
    /\ nudge' = [nudge EXCEPT !.pc = "visit", !.key = NoKey]
    /\ UNCHANGED <<net, active, open, owner, told, late>>

NudgeUnlock ==
    /\ nudge.pc = "visit" /\ nudge.todo = {}
    /\ locked' = FALSE
    /\ nudge' = [nudge EXCEPT !.pc = "loop"]
    /\ UNCHANGED <<mKCPMap, net, active, open, owner, told, late>>

\* Mutant: mNudgeThreadRunning is not reset.
NudgeQuit_StaysRunning ==
    /\ nudge.pc = "quit"
    /\ \E k \in nudge.todo : /\ nudge' = [nudge EXCEPT !.todo = @ \ {k}]
                            /\ told' = IF nudge.callback THEN told \cup {k} ELSE told
    /\ UNCHANGED <<mKCPMap, locked, net, active, open, owner, late>>

\* The last loop calls rDisconnect, if there is one, for what is left, without
\* the lock.
NudgeQuit ==
    /\ nudge.pc = "quit"
    /\ IF nudge.todo = {} THEN nudge' = [nudge EXCEPT !.pc = "ended"] /\ UNCHANGED told
       ELSE \E k \in nudge.todo : /\ nudge' = [nudge EXCEPT !.todo = @ \ {k}]
                                  /\ told' = IF nudge.callback THEN told \cup {k} ELSE told
    /\ UNCHANGED <<mKCPMap, locked, net, active, open, owner, late>>

NudgeStep ==
    \/ NudgeStart \/ NudgeTest \/ NudgeCallback \/ NudgeErase \/ NudgeUnlock \/ NudgeQuit
    \/ \E k \in Keys : NudgeVisit(k)

-----------------------------------------------------------------------------
(* The destructor.                                                         *)

Started(t) == t.pc \notin {"new", "ended"}

\* The socket is closed and the nudge thread asked to end.
ServerClose ==
    /\ owner = "alive"
    /\ open' = FALSE
    /\ active' = FALSE
    /\ owner' = "joinNet"
    /\ late' = (net.pc = "new" \/ nudge.pc = "new")
    /\ UNCHANGED <<mKCPMap, locked, net, nudge, told>>

\* Each thread is waited for until it has ended ...
ServerJoin ==
    /\ \/ owner = "joinNet" /\ ~Started(net) /\ owner' = "joinNudge"
       \/ owner = "joinNudge" /\ ~Started(nudge) /\ owner' = "clear"
    /\ UNCHANGED <<mKCPMap, locked, net, nudge, active, open, told, late>>

\* ... or for ten sleeps.
ServerGiveUp ==
    /\ \/ owner = "joinNet" /\ Started(net) /\ owner' = "joinNudge"
       \/ owner = "joinNudge" /\ Started(nudge) /\ owner' = "clear"
    /\ late' = TRUE
    /\ UNCHANGED <<mKCPMap, locked, net, nudge, active, open, told>>

ServerClear ==
    /\ owner = "clear" /\ ~locked
    /\ mKCPMap' = << >>
    /\ owner' = "gone"
    /\ UNCHANGED <<locked, net, nudge, active, open, told, late>>

Alive == owner # "gone" /\ net.pc # "crashed"

ServerNext ==
    /\ Alive
    /\ \/ NetStep
       \/ \E k \in Keys, time \in BOOLEAN : NetRecv(k, time)
       \/ NudgeStep
       \/ \E beat \in BOOLEAN : NudgeLock(beat)
       \/ ServerClose \/ ServerJoin \/ ServerGiveUp \/ ServerClear

ServerSpec == ServerInit /\ [][ServerNext]_serverVars

\* The threads run, and heart beats keep coming.
ServerFairness ==
    /\ WF_serverVars(Alive /\ NetStep)
    /\ WF_serverVars(Alive /\ NudgeStep)
    /\ SF_serverVars(Alive /\ NudgeLock(TRUE))
    /\ WF_serverVars(Alive /\ (ServerJoin \/ ServerClear))

-----------------------------------------------------------------------------
(* Properties.                                                             *)

\* While rDisconnect runs mKCPMapMtx is free, so that it may call sendData, and
\* nobody uses the freedom to erase the entry that the nudge thread's iterator
\* points to.
IteratorValid ==
    nudge.pc \in {"callback", "erase"} /\ owner # "gone" =>
        ~locked /\ nudge.key \in DOMAIN mKCPMap

\* Until the destructor runs, no connection is removed before rDisconnect has been
\* called for it, nor is it called twice for one connection.
ToldOnce ==
    [][/\ \A k \in DOMAIN mKCPMap : k \notin DOMAIN mKCPMap' => k \in told \/ owner # "alive"
       /\ nudge.pc = "callback" /\ nudge'.pc # "callback" => nudge.key \notin told]_serverVars

\* Once the time is stable, the correction is the one measured with the least
\* delay among the samples still saved.
CorrectionIsBest ==
    \A k \in DOMAIN mKCPMap : LET c == mKCPMap[k] IN c.stable =>
        \E i \in 1..Len(c.points) :
            /\ c.correction = c.points[i][2]
            /\ \A j \in 1..Len(c.points) : c.points[i][1] <= c.points[j][1]

\* With an rDisconnect no connection's counter of heart beats wraps below zero: a
\* connection without time left is announced, and erased by the critical section
\* that counts it down, whatever comes while the lock is released.
TimeoutsInRange ==
    nudge.callback => \A k \in DOMAIN mKCPMap : mKCPMap[k].timeout \in 0..TimeOut

\* With an rDisconnect a connection stays for ever only if data keeps coming: a
\* silent peer is dropped, and answering time packets does not help.
SilentDropped ==
    \A k \in Keys :
        <>[](nudge.callback /\ k \in DOMAIN mKCPMap /\ owner = "alive" /\ net.pc # "crashed")
            => []<><<NetData(k)>>_serverVars

\* If both threads were running when it began, the destructor returns without
\* having to give up on one of them.
DestructorEnds ==
    owner = "joinNet" /\ ~late ~> owner = "gone" \/ late \/ net.pc = "crashed"

-----------------------------------------------------------------------------
(* The inductive invariant.                                                *)

Connections == [timeout : 0..MaxUnsigned, stable : BOOLEAN, synced : BOOLEAN,
                points : Seq(Int \X Int), correction : Int]

\* The types of the server's fields and of its threads.
ServerTypeOK ==
    /\ DOMAIN mKCPMap \subseteq Keys
    /\ \A k \in DOMAIN mKCPMap : mKCPMap[k] \in Connections
    /\ locked \in BOOLEAN /\ active \in BOOLEAN /\ open \in BOOLEAN /\ late \in BOOLEAN
    /\ net \in [pc : {"new", "recv", "lookup", "validate", "insert", "configure", "input",
                      "deliver", "ended", "crashed"},
                key : Keys \cup {NoKey}, time : BOOLEAN]
    /\ nudge \in [pc : {"new", "loop", "lock", "visit", "callback", "erase", "quit", "ended"},
                  todo : SUBSET Keys, key : Keys \cup {NoKey}, beat : BOOLEAN, callback : BOOLEAN]
    /\ owner \in {"alive", "joinNet", "joinNudge", "clear", "gone"}
    /\ told \subseteq Keys

\* The lock is held from visit to visit; what the nudge thread has still to
\* visit is in the map, and so is the entry of its callback, until the
\* destructor clears the map.
IteratorInv ==
    /\ locked <=> nudge.pc = "visit"
    /\ owner # "gone" /\ nudge.pc \in {"visit", "callback", "erase"} =>
           nudge.todo \subseteq DOMAIN mKCPMap
    /\ owner # "gone" /\ nudge.pc \in {"callback", "erase"} =>
           nudge.key \in DOMAIN mKCPMap \ nudge.todo

\* A peer let in is not in the map, and whoever is in the map has not been told,
\* but for the entry that is about to be erased.
ToldInv ==
    /\ net.pc \in {"validate", "insert"} => net.key \in Keys \ DOMAIN mKCPMap
    /\ net.pc = "lookup" => net.key \in Keys
    /\ nudge.pc = "erase" => nudge.key \in told
    /\ nudge.pc \notin {"quit", "ended"} =>
           \A k \in DOMAIN mKCPMap \cap told : nudge.pc = "erase" /\ nudge.key = k

\* The saved samples of a stable connection are enough, and never too many.
PointsInv ==
    \A k \in DOMAIN mKCPMap :
        /\ Len(mKCPMap[k].points) <= MaxPoints
        /\ mKCPMap[k].stable => Len(mKCPMap[k].points) >= MinPoints

ServerInv == ServerTypeOK /\ IteratorInv /\ ToldInv /\ PointsInv /\ CorrectionIsBest
=============================================================================
