-------------------------- MODULE ThreadPoolProofs --------------------------
(***************************************************************************)
(* The thread pool is correct for any number of threads, committers and    *)
(* tasks, as far as it is: PoolInv is inductive, and the pool implements a *)
(* FIFO channel from commit to the workers.                                *)
(***************************************************************************)
EXTENDS ThreadPool, TLAPS

\* A worker is a number, so it is never the free mutex.
LEMMA WorkerFacts == Workers \subseteq Nat /\ None \notin Workers
BY PoolAssumption DEF Workers

\* Moving the head of a queue to the end of what has been begun leaves their
\* concatenation alone.
LEMMA MoveHead ==
    ASSUME NEW s \in Seq(Nat), NEW q \in Seq(Nat), q # <<>>
    PROVE  /\ Append(s, Head(q)) \o Tail(q) = s \o q
           /\ Tail(q) \in Seq(Nat) /\ Head(q) \in Nat
<1> DEFINE l == Append(s, Head(q)) \o Tail(q)
           r == s \o q
<1>1. Tail(q) \in Seq(Nat) /\ Head(q) \in Nat /\ Len(q) >= 1
  OBVIOUS
<1>2. l \in Seq(Nat) /\ r \in Seq(Nat)
  BY <1>1
<1>3. Len(l) = Len(s) + Len(q) /\ Len(r) = Len(s) + Len(q)
  BY <1>1
<1>4. \A i \in 1..(Len(s) + Len(q)) : l[i] = r[i]
  BY <1>1
<1>5. l = r
  BY <1>2, <1>3, <1>4
<1>. QED  BY <1>1, <1>5

\* Appending to the queue is appending to everything committed.
LEMMA PushTail ==
    ASSUME NEW s \in Seq(Nat), NEW q \in Seq(Nat), NEW t \in Nat
    PROVE  Append(s \o q, t) = s \o Append(q, t)
<1> DEFINE l == Append(s \o q, t)
           r == s \o Append(q, t)
<1>1. l \in Seq(Nat) /\ r \in Seq(Nat)
  OBVIOUS
<1>2. Len(l) = Len(s) + Len(q) + 1 /\ Len(r) = Len(s) + Len(q) + 1
  OBVIOUS
<1>3. \A i \in 1..(Len(s) + Len(q) + 1) : l[i] = r[i]
  OBVIOUS
<1>4. l = r
  <2> HIDE DEF l, r
  <2>. QED  BY <1>1, <1>2, <1>3
<1>. QED  BY <1>4

\* PoolInv holds of a pool just constructed.
LEMMA PoolInit == Init => PoolInv
<1> SUFFICES ASSUME Init PROVE PoolInv
  OBVIOUS
<1>1. TypeOK
  <2>1. tasks \in Seq(Nat) /\ committed \in Seq(Nat) /\ started \in Seq(Nat)
    BY DEF Init
  <2>2. stop \in BOOLEAN
    BY DEF Init
  <2>3. idle \in Int
    BY DEF Init
  <2>4. finished \subseteq Nat
    BY DEF Init
  <2>. QED  BY <2>1, <2>2, <2>3, <2>4 DEF Init, TypeOK, Inside
<1>2. committed = started \o tasks
  BY DEF Init
<1>3. NeverFrontOfEmpty /\ NoLostWakeup
  BY DEF Init, NeverFrontOfEmpty, NoLostWakeup
<1>4. (owner = "alive") <=> ~stop
  BY DEF Init
<1>. QED
  BY <1>1, <1>2, <1>3, <1>4 DEF Init, PoolInv, Inside

\* Every step of a worker preserves PoolInv.
LEMMA WorkerInv ==
    ASSUME PoolInv, NEW w \in Workers, WorkerStep(w) \/ Spurious(w)
    PROVE  PoolInv'
<1> USE WorkerFacts DEF PoolInv, TypeOK, Inside, NeverFrontOfEmpty, NoLostWakeup, Goto
<1>1. CASE Check(w)      BY <1>1 DEF Check
<1>2. CASE Acquire(w)    BY <1>2 DEF Acquire
<1>3. CASE Predicate(w)  BY <1>3 DEF Predicate
<1>4. CASE Block(w)      BY <1>4 DEF Block
<1>5. CASE Spurious(w)   BY <1>5 DEF Spurious
<1>6. CASE Test(w)       BY <1>6, ZenonT(30) DEF Test
<1>7. CASE Front(w)
  <2>1. Head(tasks) \in Nat /\ lock = w /\ stop = stop'
    BY <1>7 DEF Front
  <2>2. task' \in [Workers -> Nat] /\ task'[w] = Head(tasks)
    BY <1>7, <2>1 DEF Front
  <2>. QED  BY <1>7, <2>1, <2>2 DEF Front
<1>8. CASE PopRun(w)
  <2>1. tasks # <<>> /\ task[w] = Head(tasks) /\ owner # "gone" /\ lock = w
    BY <1>8 DEF PopRun
  <2>2. /\ started' \o tasks' = started \o tasks
        /\ tasks' \in Seq(Nat) /\ started' \in Seq(Nat)
    <3>1. started \in Seq(Nat) /\ tasks \in Seq(Nat)
      OBVIOUS
    <3>2. started' = Append(started, Head(tasks)) /\ tasks' = Tail(tasks)
      BY <1>8, <2>1 DEF PopRun
    <3> HIDE DEF PoolInv
    <3>3. /\ Append(started, Head(tasks)) \o Tail(tasks) = started \o tasks
          /\ Tail(tasks) \in Seq(Nat) /\ Head(tasks) \in Nat
      BY <2>1, <3>1, MoveHead
    <3>4. Append(started, Head(tasks)) \in Seq(Nat)
      BY <3>1, <3>3
    <3>. QED  BY <3>2, <3>3, <3>4
  <2>3. \A v \in Workers : v # w => pc[v] \notin Inside
    BY <2>1
  <2>4. TypeOK'
    BY <1>8, <2>2 DEF PopRun
  <2>5. NeverFrontOfEmpty' /\ NoLostWakeup'
    BY <1>8, <2>1, <2>3 DEF PopRun
  <2>. QED  BY <1>8, <2>1, <2>2, <2>3, <2>4, <2>5 DEF PopRun
<1>9. CASE Finish(w)
  <2>1. TypeOK'
    <3>1. idle' \in Int
      BY <1>9 DEF Finish
    <3>2. finished \subseteq Nat /\ task[w] \in Nat
      OBVIOUS
    <3>3. finished' \subseteq Nat
      BY <1>9, <3>2 DEF Finish
    <3>. QED  BY <1>9, <3>1, <3>3 DEF Finish
  <2>2. \A v \in Workers : v # w => pc[v] \notin Inside
    BY <1>9 DEF Finish
  <2>3. NeverFrontOfEmpty' /\ NoLostWakeup'
    BY <1>9, <2>2 DEF Finish
  <2>. QED  BY <1>9, <2>1, <2>2, <2>3 DEF Finish
<1>10. CASE Exit(w)
  <2>1. idle' \in Int /\ stop
    BY <1>10 DEF Exit
  <2>2. TypeOK'
    BY <1>10, <2>1 DEF Exit
  <2>3. NeverFrontOfEmpty' /\ NoLostWakeup'
    BY <1>10, <2>1 DEF Exit
  <2>. QED  BY <1>10, <2>1, <2>2, <2>3 DEF Exit
<1>. QED
  BY <1>1, <1>2, <1>3, <1>4, <1>5, <1>6, <1>7, <1>8, <1>9, <1>10 DEF WorkerStep

\* Every step of a thread that commits preserves PoolInv.
LEMMA CommitterInv ==
    ASSUME PoolInv, NEW c \in Committers, Commit(c) \/ CommitterStep(c)
    PROVE  PoolInv'
<1> USE WorkerFacts DEF PoolInv, TypeOK, Inside, NeverFrontOfEmpty, NoLostWakeup, Goto
<1>1. CASE Commit(c)  BY <1>1 DEF Commit
<1>2. CASE Push(c)
  <2> DEFINE t == Len(committed) + 1
  <2>1. t \in Nat
    OBVIOUS
  <2>2. owner # "gone" => committed' = started' \o tasks'
    <3>1. started \in Seq(Nat) /\ tasks \in Seq(Nat)
      OBVIOUS
    <3>2. /\ committed' = Append(committed, t) /\ tasks' = Append(tasks, t)
          /\ started' = started
      BY <1>2 DEF Push
    <3>3. owner # "gone" => committed = started \o tasks
      OBVIOUS
    <3> HIDE DEF PoolInv, t
    <3>. QED  BY <2>1, <3>1, <3>2, <3>3, PushTail, ZenonT(30)
  <2>3. tasks' \in Seq(Nat) /\ committed' \in Seq(Nat) /\ fut' \in [Committers -> Nat]
    BY <1>2, <2>1 DEF Push
  <2>4. \A w \in Workers : pc[w] \notin Inside
    BY <1>2 DEF Push
  <2>5. cpc'[c] = "notify"
    BY <1>2 DEF Push
  <2>. QED  BY <1>2, <2>2, <2>3, <2>4, <2>5 DEF Push
<1>3. CASE Notify(c)
  <2>1. CASE \E w \in Workers : pc[w] = "wait" /\ Goto(w, "woken")
    BY <1>3, <2>1, ZenonT(30) DEF Notify
  <2>2. CASE (\A w \in Workers : pc[w] # "wait") /\ UNCHANGED pc
    BY <1>3, <2>2, ZenonT(30) DEF Notify
  <2>. QED  BY <1>3, <2>1, <2>2 DEF Notify
<1>4. CASE Get(c)     BY <1>4 DEF Get
<1>. QED  BY <1>1, <1>2, <1>3, <1>4 DEF CommitterStep

\* Every step of the destructor preserves PoolInv.
LEMMA OwnerInv ==
    ASSUME PoolInv, Stop \/ OwnerStep
    PROVE  PoolInv'
<1> USE WorkerFacts DEF PoolInv, TypeOK, Inside, NeverFrontOfEmpty, NoLostWakeup
<1>1. CASE Stop       BY <1>1 DEF Stop
<1>2. CASE NotifyAll  BY <1>2 DEF NotifyAll
<1>3. CASE Join       BY <1>3 DEF Join
<1>. QED  BY <1>1, <1>2, <1>3 DEF OwnerStep

\* PoolInv is an invariant of the pool, for every number of threads.
THEOREM PoolCorrect == Spec => []PoolInv
<1>1. PoolInv /\ [Next]_vars => PoolInv'
  <2> SUFFICES ASSUME PoolInv, [Next]_vars PROVE PoolInv'
    OBVIOUS
  <2>1. CASE Next
    BY <2>1, WorkerInv, CommitterInv, OwnerInv DEF Next
  <2>2. CASE UNCHANGED vars
    BY <2>2 DEF vars, PoolInv, TypeOK, NeverFrontOfEmpty, NoLostWakeup
  <2>. QED  BY <2>1, <2>2
<1>. QED  BY PoolInit, <1>1, PTL DEF Spec

\* No two tasks ever run at the same time (the task is called with _lock held).
THEOREM OneTaskAtATimeHolds == Spec => []OneTaskAtATime
<1>1. PoolInv => OneTaskAtATime
  BY DEF PoolInv, OneTaskAtATime, Inside
<1>. QED  BY PoolCorrect, <1>1, PTL

\* The queue is never read when it is empty.
THEOREM NeverFrontOfEmptyHolds == Spec => []NeverFrontOfEmpty
<1>1. PoolInv => NeverFrontOfEmpty
  BY DEF PoolInv
<1>. QED  BY PoolCorrect, <1>1, PTL

\* notify_one after the push is enough: no queued task is overlooked.
THEOREM NoLostWakeupHolds == Spec => []NoLostWakeup
<1>1. PoolInv => NoLostWakeup
  BY DEF PoolInv
<1>. QED  BY PoolCorrect, <1>1, PTL

\* commit and the workers implement a FIFO channel: tasks are begun in the
\* order they were queued, none twice.
THEOREM PoolFifo == Spec => PoolIsFifo
<1>1. Init => Dispatch!Init
  BY DEF Init, Dispatch!Init
<1>2. PoolInv /\ [Next]_vars => [Dispatch!Next]_<<committed, started>>
  <2> SUFFICES ASSUME PoolInv, [Next]_vars,
                      ~ UNCHANGED <<committed, started>>
               PROVE  Dispatch!Next
    OBVIOUS
  <2>1. committed \in Seq(Nat) /\ started \in Seq(Nat) /\ tasks \in Seq(Nat)
    BY DEF PoolInv, TypeOK
  <2>2. CASE \E c \in Committers : Push(c)
    <3>1. committed' = Append(committed, Len(committed) + 1) /\ UNCHANGED started
      BY <2>2 DEF Push
    <3>2. Dispatch!Extends(committed, committed')
      BY <2>1, <3>1 DEF Dispatch!Extends
    <3>. QED  BY <3>1, <3>2, Zenon DEF Dispatch!Put, Dispatch!Next
  <2>3. CASE \E w \in Workers : PopRun(w)
    <3>1. PICK w \in Workers : PopRun(w)
      BY <2>3
    <3>2. tasks # <<>> /\ task[w] = Head(tasks) /\ committed = started \o tasks
      BY <3>1, WorkerFacts DEF PoolInv, PopRun, NeverFrontOfEmpty
    <3>3. started' = Append(started, Head(tasks)) /\ UNCHANGED committed
      BY <3>1, <3>2 DEF PopRun
    <3>4. Len(tasks) >= 1 /\ Head(tasks) = tasks[1]
      BY <2>1, <3>2
    <3>5. Len(committed) = Len(started) + Len(tasks)
      BY <2>1, <3>2
    <3>6. \A i \in 1..(Len(started) + 1) : started'[i] = committed[i]
      BY <2>1, <3>2, <3>3, <3>4
    <3>7. /\ Len(started') = Len(started) + 1
          /\ \A i \in 1..Len(started) : started'[i] = started[i]
      BY <2>1, <3>3, <3>4
    <3>8. Dispatch!Extends(started, started')
      BY <2>1, <3>7 DEF Dispatch!Extends
    <3>9. Dispatch!Extends(started', committed)
      BY <2>1, <3>4, <3>5, <3>6, <3>7 DEF Dispatch!Extends
    <3>. QED  BY <3>3, <3>8, <3>9, Zenon DEF Dispatch!Get, Dispatch!Next
  <2>4. ASSUME NEW w \in Workers, WorkerStep(w) \/ Spurious(w) PROVE PopRun(w)
    BY <2>4 DEF WorkerStep, Check, Acquire, Predicate, Block, Spurious, Test, Front,
       Finish, Exit
  <2>5. ASSUME NEW c \in Committers, Commit(c) \/ CommitterStep(c) PROVE Push(c)
    BY <2>5 DEF CommitterStep, Commit, Notify, Get
  <2>6. ~ (Stop \/ OwnerStep) /\ ~ UNCHANGED vars
    BY DEF Stop, OwnerStep, NotifyAll, Join, vars
  <2>7. (\E c \in Committers : Push(c)) \/ (\E w \in Workers : PopRun(w))
    BY <2>4, <2>5, <2>6 DEF Next
  <2>. QED  BY <2>2, <2>3, <2>7
<1>. QED  BY PoolCorrect, <1>1, <1>2, PTL DEF Spec, PoolIsFifo, Dispatch!Spec
=============================================================================
