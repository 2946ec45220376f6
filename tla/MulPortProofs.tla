-------------------------- MODULE MulPortProofs ---------------------------
(***************************************************************************)
(* The work queue is correct for any number of workers and jobs: no job is *)
(* lost, run twice or slept over, and a worker that terminates takes the   *)
(* mutex with it.  The same holds of the multi-port server that runs its   *)
(* handlers through it, for any number of clients, descriptors and         *)
(* messages, and there no input waits that nobody is going to read.        *)
(***************************************************************************)
EXTENDS MulPort, SequenceTheorems, FiniteSetTheorems, NaturalsInduction,
        WellFoundedInduction, TLAPS

\* Taking the head off a list of distinct jobs: the others stay, the head goes.
LEMMA TailFacts ==
    ASSUME NEW E, NEW s \in Seq(E), s # <<>>
    PROVE  /\ Tail(s) \in Seq(E) /\ Head(s) \in E /\ Head(s) = s[1]
           /\ Len(s) \in Nat \ {0} /\ Len(Tail(s)) = Len(s) - 1
           /\ \A i \in 1..(Len(s) - 1) : Tail(s)[i] = s[i + 1]
OBVIOUS

\* Putting a job at the head of the list moves the others back by one.
LEMMA ConsFacts ==
    ASSUME NEW E, NEW s \in Seq(E), NEW x \in E
    PROVE  /\ <<x>> \o s \in Seq(E) /\ Len(s) \in Nat
           /\ Len(<<x>> \o s) = Len(s) + 1
           /\ (<<x>> \o s)[1] = x
           /\ \A i \in 2..(Len(s) + 1) : (<<x>> \o s)[i] = s[i - 1]
OBVIOUS

\* A set listed without repetition has as many members as there are places.
LEMMA DistinctCount ==
    ASSUME NEW E, IsFiniteSet(E), NEW f, \A x, y \in E : f[x] = f[y] => x = y
    PROVE  Cardinality({f[x] : x \in E}) = Cardinality(E)
<1> DEFINE T == {f[x] : x \in E}
           g == [x \in E |-> f[x]]
<1>1. g \in Bijection(E, T)
  BY DEF Bijection, Injection, Surjection, IsInjective
<1>2. ExistsBijection(E, T)
  BY <1>1 DEF ExistsBijection
<1>. QED  BY <1>2, FS_Bijection

\* There are n numbers from 1 to n.
LEMMA UpTo == ASSUME NEW n \in Nat PROVE IsFiniteSet(1..n) /\ Cardinality(1..n) = n
<1>1. IsFiniteSet(1..n) /\ Cardinality(1..n) = IF 1 > n THEN 0 ELSE n - 1 + 1
  BY FS_Interval
<1>. QED  BY <1>1

\* QueueInv holds when workqueue_init has started the workers.
LEMMA QueueInit == Init => QueueInv
<1> SUFFICES ASSUME Init PROVE QueueInv
  OBVIOUS
<1>1. TypeOK
  BY QueueAssumption DEF Init, TypeOK, Jobs
<1>2. MutexDiscipline
  BY <1>1, QueueAssumption DEF Init, MutexDiscipline
<1>3. OnePlace
  BY DEF Init, OnePlace, Listed, Runs
<1>4. NobodySleepsOverAJob
  BY DEF Init, NobodySleepsOverAJob
<1>. QED  BY <1>2, <1>3, <1>4 DEF QueueInv

\* OnePlace looks at the list, the running workers and what is freed only.
LEMMA OnePlaceKept ==
    ASSUME OnePlace, UNCHANGED <<waiting_jobs, job, phase, added, freed>>,
           \A v \in Workers : pc'[v] = "run" <=> pc[v] = "run"
    PROVE  OnePlace'
<1>1. \A n : Listed(n)' <=> Listed(n)
  BY DEF Listed
<1>2. \A v \in Workers : \A n : Runs(v, n)' <=> Runs(v, n)
  BY DEF Runs
<1>3. \A u, v \in Workers : pc'[u] = "run" /\ Runs(v, job[u])' => u = v
  BY <1>2 DEF OnePlace
<1>4. \A v \in Workers : pc'[v] = "run" =>
          job'[v] \in 1..added' /\ ~Listed(job[v])' /\ job'[v] \notin freed'
  BY <1>1 DEF OnePlace
<1>5. phase' # "down" => \A n \in 1..added' :
          n \in freed' \/ Listed(n)' \/ \E v \in Workers : Runs(v, n)'
  BY <1>1, <1>2 DEF OnePlace
<1>. QED  BY <1>3, <1>4, <1>5 DEF OnePlace

\* The steps of a worker that leave the list and its jobs alone.
LEMMA QuietInv ==
    ASSUME QueueInv, NEW w \in Workers,
           Lock(w) \/ Wait(w) \/ Leave(w) \/ Spurious(w) \/ Terminate(w)
    PROVE  QueueInv'
<1> USE QueueAssumption DEF QueueInv, MutexDiscipline, TypeOK, Goto
<1>1. MutexDiscipline'
  <2>1. CASE Lock(w)       BY <2>1 DEF Lock
  <2>2. CASE Wait(w)       BY <2>2 DEF Wait
  <2>3. CASE Leave(w)      BY <2>3 DEF Leave
  <2>4. CASE Spurious(w)   BY <2>4 DEF Spurious
  <2>5. CASE Terminate(w)  BY <2>5 DEF Terminate
  <2>. QED  BY <2>1, <2>2, <2>3, <2>4, <2>5
<1>2. OnePlace'
  <2>1. UNCHANGED <<waiting_jobs, job, phase, added, freed>>
    BY DEF Lock, Wait, Leave, Spurious, Terminate
  <2>2. \A v \in Workers : pc'[v] = "run" <=> pc[v] = "run"
    BY DEF Lock, Wait, Leave, Spurious, Terminate
  <2>. QED  BY <2>1, <2>2, OnePlaceKept
<1>3. NobodySleepsOverAJob'
  BY DEF NobodySleepsOverAJob, Lock, Wait, Leave, Spurious, Terminate
<1>. QED  BY <1>1, <1>2, <1>3

\* A worker that holds the mutex, or needs none, takes the head of the list: the
\* job leaves the list, so nobody else has it.
LEMMA HeadTakenInv ==
    ASSUME QueueInv, NEW w \in Workers, pc[w] \in {"lock", "test"}, waiting_jobs # <<>>,
           job' = [job EXCEPT ![w] = Head(waiting_jobs)], Goto(w, "run"),
           waiting_jobs' = Tail(waiting_jobs),
           jobs_mutex' = IF pc[w] = "test" THEN None ELSE jobs_mutex,
           UNCHANGED <<terminate, phase, added, freed>>
    PROVE  QueueInv'
<1> USE QueueAssumption DEF QueueInv, MutexDiscipline, TypeOK, Goto
<1>0. PICK h \in Jobs : h = Head(waiting_jobs)
  BY TailFacts
<1>1. /\ waiting_jobs' = Tail(waiting_jobs)
      /\ job' = [job EXCEPT ![w] = h] /\ pc' = [pc EXCEPT ![w] = "run"]
      /\ UNCHANGED <<phase, added, freed>>
  BY <1>0
<1>2. /\ waiting_jobs' \in Seq(Jobs) /\ h \in Jobs /\ h = waiting_jobs[1]
      /\ Len(waiting_jobs) \in Nat \ {0} /\ Len(waiting_jobs') = Len(waiting_jobs) - 1
      /\ \A i \in 1..Len(waiting_jobs') :
             waiting_jobs'[i] = waiting_jobs[i + 1] /\ i + 1 \in 1..Len(waiting_jobs)
  BY <1>0, <1>1, TailFacts
<1>3. MutexDiscipline'
  BY <1>1, <1>2
<1>4. \A v \in Workers : v # w => pc'[v] = pc[v] /\ job'[v] = job[v]
  BY <1>1
<1>5. pc'[w] = "run" /\ job'[w] = h /\ h \in (1..added) \ freed /\ pc[w] # "run"
  BY <1>1, <1>2 DEF OnePlace
<1>6. ~Listed(h)'
  BY <1>2 DEF OnePlace, Listed
<1>7. \A n : Listed(n)' => Listed(n)
  BY <1>2 DEF Listed
<1>8. \A n : Listed(n) => n = h \/ Listed(n)'
  <2> SUFFICES ASSUME NEW n, Listed(n), n # h PROVE Listed(n)'
    OBVIOUS
  <2>1. PICK i \in 1..Len(waiting_jobs) : waiting_jobs[i] = n
    BY DEF Listed
  <2>2. i - 1 \in 1..Len(waiting_jobs') /\ waiting_jobs'[i - 1] = n
    BY <1>2, <2>1
  <2>. QED  BY <2>2 DEF Listed
<1>9. Listed(h)
  BY <1>2 DEF Listed
<1>10. OnePlace'
  <2>1. \A i, j \in 1..Len(waiting_jobs') : waiting_jobs'[i] = waiting_jobs'[j] => i = j
    BY <1>2 DEF OnePlace
  <2>2. \A u, v \in Workers : pc'[u] = "run" /\ Runs(v, job[u])' => u = v
    BY <1>4, <1>5, <1>9 DEF OnePlace, Runs
  <2>3. \A v \in Workers : pc'[v] = "run" =>
            job'[v] \in 1..added' /\ ~Listed(job[v])' /\ job'[v] \notin freed'
    BY <1>1, <1>4, <1>5, <1>6, <1>7 DEF OnePlace
  <2>4. \A i \in 1..Len(waiting_jobs') : waiting_jobs'[i] \in (1..added') \ freed'
    BY <1>1, <1>2 DEF OnePlace
  <2>5. phase' # "down" => \A n \in 1..added' :
            n \in freed' \/ Listed(n)' \/ \E v \in Workers : Runs(v, n)'
    BY <1>1, <1>4, <1>5, <1>8 DEF OnePlace, Runs
  <2>. QED  BY <1>1, <2>1, <2>2, <2>3, <2>4, <2>5 DEF OnePlace
<1>11. NobodySleepsOverAJob'
  BY <1>5 DEF NobodySleepsOverAJob
<1>. QED  BY <1>3, <1>10, <1>11

\* worker_function takes the job at the head, or finds the list empty.
LEMMA TakeInv == ASSUME QueueInv, NEW w \in Workers, Take(w) PROVE QueueInv'
<1> USE QueueAssumption DEF QueueInv, MutexDiscipline, TypeOK, Goto
<1>1. CASE waiting_jobs = <<>>
  <2>1. UNCHANGED <<waiting_jobs, job, phase, added, freed>>
    BY <1>1 DEF Take
  <2>2. \A v \in Workers : pc'[v] = "run" <=> pc[v] = "run"
    BY <1>1 DEF Take
  <2>3. OnePlace'
    BY <2>1, <2>2, OnePlaceKept
  <2>4. MutexDiscipline' /\ NobodySleepsOverAJob'
    BY <1>1 DEF Take, NobodySleepsOverAJob
  <2>. QED  BY <2>3, <2>4
<1>2. CASE waiting_jobs # <<>>
  BY <1>2, HeadTakenInv DEF Take
<1>. QED  BY <1>1, <1>2

\* A job that has run is freed once: it was with one worker and nowhere else.
LEMMA RunInv == ASSUME QueueInv, NEW w \in Workers, Run(w) PROVE QueueInv'
<1> USE QueueAssumption DEF QueueInv, MutexDiscipline, TypeOK, Goto
<1>1. /\ pc[w] = "run" /\ pc' = [pc EXCEPT ![w] = "lock"] /\ job' = [job EXCEPT ![w] = 0]
      /\ freed' = freed \cup {job[w]} /\ UNCHANGED <<waiting_jobs, phase, added>>
  BY DEF Run
<1>2. job[w] \in 1..added /\ ~Listed(job[w])
  BY <1>1 DEF OnePlace
<1>3. MutexDiscipline'
  <2>1. job[w] \in Jobs
    BY <1>2 DEF Jobs
  <2>. QED  BY <1>1, <2>1 DEF Run
<1>4. \A v \in Workers : pc'[v] = "run" => v # w /\ pc[v] = "run" /\ job'[v] = job[v]
  BY <1>1
<1>5. OnePlace'
  <2>1. \A n : Listed(n)' <=> Listed(n)
    BY <1>1 DEF Listed
  <2>2. \A u, v \in Workers : pc'[u] = "run" /\ Runs(v, job[u])' => u = v
    BY <1>4 DEF OnePlace, Runs
  <2>3. \A v \in Workers : pc'[v] = "run" => job'[v] # job[w]
    BY <1>1, <1>4 DEF OnePlace, Runs
  <2>4. \A v \in Workers : pc'[v] = "run" =>
            job'[v] \in 1..added' /\ ~Listed(job[v])' /\ job'[v] \notin freed'
    BY <1>1, <1>4, <2>1, <2>3 DEF OnePlace
  <2>5. \A i \in 1..Len(waiting_jobs') : waiting_jobs'[i] \in (1..added') \ freed'
    BY <1>1, <1>2 DEF OnePlace, Listed
  <2>6. phase' # "down" => \A n \in 1..added' :
            n \in freed' \/ Listed(n)' \/ \E v \in Workers : Runs(v, n)'
    <3> SUFFICES ASSUME phase' # "down", NEW n \in 1..added', n \notin freed', ~Listed(n)'
                 PROVE  \E v \in Workers : Runs(v, n)'
      OBVIOUS
    <3>1. PICK v \in Workers : Runs(v, n)
      BY <1>1, <2>1 DEF OnePlace
    <3>2. v # w
      BY <1>1, <3>1 DEF Runs
    <3>. QED  BY <1>1, <3>1, <3>2 DEF Runs
  <2>. QED  BY <1>1, <1>2, <2>2, <2>4, <2>5, <2>6, ZenonT(30) DEF OnePlace
<1>6. NobodySleepsOverAJob'
  BY <1>1 DEF NobodySleepsOverAJob
<1>. QED  BY <1>3, <1>5, <1>6

\* A job that is added is new, and finds or makes a worker that is awake.
LEMMA AddInv == ASSUME QueueInv, added < MaxJobs, AddJob PROVE QueueInv'
<1> USE QueueAssumption DEF QueueInv, MutexDiscipline, TypeOK, Goto
<1>1. /\ added' = added + 1 /\ waiting_jobs' = <<added'>> \o waiting_jobs
      /\ jobs_mutex = None /\ UNCHANGED <<jobs_mutex, terminate, job, phase, freed>>
  BY DEF AddJob
<1>2. added \in 0..MaxJobs /\ added' \in Jobs /\ added' \in 1..MaxJobs
  BY <1>1 DEF Jobs
<1>3. /\ waiting_jobs' \in Seq(Jobs) /\ Len(waiting_jobs') = Len(waiting_jobs) + 1
      /\ Len(waiting_jobs) \in Nat /\ waiting_jobs'[1] = added'
      /\ \A i \in 2..Len(waiting_jobs') :
             waiting_jobs'[i] = waiting_jobs[i - 1] /\ i - 1 \in 1..Len(waiting_jobs)
  BY <1>1, <1>2, ConsFacts
<1>4. /\ pc' \in [Workers -> {"lock", "loop", "wait", "woken", "test", "run", "exited"}]
      /\ \A v \in Workers : pc'[v] = pc[v] \/ (pc[v] = "wait" /\ pc'[v] = "woken")
      /\ \E v \in Workers : pc'[v] # "wait"
  BY DEF AddJob, Signal
<1>5. MutexDiscipline'
  <2>1. \A v \in Workers : pc'[v] \in {"loop", "test", "exited"} <=> jobs_mutex' = v
    BY <1>1, <1>4
  <2>. QED  BY <1>1, <1>2, <1>3, <1>4, <2>1
<1>6. OnePlace'
  <2>1. ~Listed(added + 1)
    BY <1>2 DEF OnePlace, Listed
  <2>2. \A n : Listed(n)' <=> Listed(n) \/ n = added + 1
    <3>1. ASSUME NEW n, Listed(n)' PROVE Listed(n) \/ n = added + 1
      <4>1. PICK i \in 1..Len(waiting_jobs') : waiting_jobs'[i] = n
        BY <3>1 DEF Listed
      <4>. QED  BY <1>1, <1>3, <4>1 DEF Listed
    <3>2. ASSUME NEW n, Listed(n) PROVE Listed(n)'
      <4>1. PICK i \in 1..Len(waiting_jobs) : waiting_jobs[i] = n
        BY <3>2 DEF Listed
      <4>2. i + 1 \in 1..Len(waiting_jobs') /\ waiting_jobs'[i + 1] = n
        BY <1>3, <4>1
      <4>. QED  BY <4>2 DEF Listed
    <3>3. ASSUME NEW n, n = added + 1 PROVE Listed(n)'
      BY <1>1, <1>3, <3>3 DEF Listed
    <3>. QED  BY <3>1, <3>2, <3>3
  <2>3. \A i, j \in 1..Len(waiting_jobs') : waiting_jobs'[i] = waiting_jobs'[j] => i = j
    BY <1>1, <1>3, <2>1, SMTT(30) DEF OnePlace, Listed
  <2>4. \A v \in Workers : pc'[v] = "run" <=> pc[v] = "run"
    BY <1>4
  <2>5. \A v \in Workers : pc'[v] = "run" =>
            job'[v] \in 1..added' /\ ~Listed(job[v])' /\ job'[v] \notin freed'
    BY <1>1, <1>2, <2>2, <2>4 DEF OnePlace
  <2>6. \A i \in 1..Len(waiting_jobs') : waiting_jobs'[i] \in (1..added') \ freed'
    BY <1>1, <1>2, <1>3 DEF OnePlace
  <2>7. phase' # "down" => \A n \in 1..added' :
            n \in freed' \/ Listed(n)' \/ \E v \in Workers : Runs(v, n)'
    BY <1>1, <1>2, <2>2, <2>4 DEF OnePlace, Runs
  <2>8. freed' \subseteq 1..added'
    BY <1>1, <1>2 DEF OnePlace
  <2>9. \A u, v \in Workers : pc'[u] = "run" /\ Runs(v, job[u])' => u = v
    BY <1>1, <2>4 DEF OnePlace, Runs
  <2>. QED  BY <2>3, <2>5, <2>6, <2>7, <2>8, <2>9 DEF OnePlace
<1>7. NobodySleepsOverAJob'
  BY <1>4 DEF NobodySleepsOverAJob
<1>. QED  BY <1>5, <1>6, <1>7

\* Shutting down loses the jobs on the list, and runs none twice.
LEMMA ShutdownInv ==
    ASSUME QueueInv, (\E w \in Workers : Mark(w)) \/ DropAndBroadcast
    PROVE  QueueInv'
<1> USE QueueAssumption DEF QueueInv, MutexDiscipline, TypeOK
<1>1. ASSUME NEW w \in Workers, Mark(w) PROVE QueueInv'
  <2>1. MutexDiscipline' /\ NobodySleepsOverAJob'
    BY <1>1 DEF Mark, NobodySleepsOverAJob
  <2>2. OnePlace'
    BY <1>1, SMTT(30) DEF Mark, OnePlace, Listed, Runs
  <2>. QED  BY <2>1, <2>2
<1>2. ASSUME DropAndBroadcast PROVE QueueInv'
  <2>1. /\ waiting_jobs' = <<>> /\ phase' = "down"
        /\ UNCHANGED <<jobs_mutex, terminate, job, added, freed>>
    BY <1>2 DEF DropAndBroadcast
  <2>2. /\ pc' \in [Workers -> {"lock", "loop", "wait", "woken", "test", "run", "exited"}]
        /\ \A v \in Workers : pc'[v] = pc[v] \/ (pc[v] = "wait" /\ pc'[v] = "woken")
    BY <1>2 DEF DropAndBroadcast, Broadcast
  <2>3. MutexDiscipline'
    BY <2>1, <2>2
  <2>4. NobodySleepsOverAJob'
    BY <2>1 DEF NobodySleepsOverAJob
  <2>5. OnePlace'
    <3>1. Len(waiting_jobs') = 0
      BY <2>1
    <3>2. \A v \in Workers : pc'[v] = "run" <=> pc[v] = "run"
      BY <2>2
    <3>. QED  BY <2>1, <3>1, <3>2 DEF OnePlace, Listed, Runs
  <2>. QED  BY <2>3, <2>4, <2>5
<1>. QED  BY <1>1, <1>2

\* Every step of the queue preserves QueueInv.
LEMMA QueueStep == QueueInv /\ [Next]_vars => QueueInv'
<1> SUFFICES ASSUME QueueInv, [Next]_vars PROVE QueueInv'
  OBVIOUS
<1>1. CASE UNCHANGED vars
  BY <1>1 DEF vars, QueueInv, MutexDiscipline, TypeOK, OnePlace, Listed, Runs,
              NobodySleepsOverAJob
<1>2. ASSUME NEW w \in Workers, WorkerStep(w) \/ Spurious(w) \/ Mark(w) PROVE QueueInv'
  BY <1>2, QuietInv, TakeInv, RunInv, ShutdownInv DEF WorkerStep
<1>. QED  BY <1>1, <1>2, AddInv, ShutdownInv DEF Next

\* The queue's mutex is held exactly where worker_function says, jobs are in one
\* place, and a waiting job finds a worker awake, in every reachable state.
THEOREM QueueInvariant == Spec => []QueueInv
BY QueueInit, QueueStep, PTL DEF Spec

\* What OnePlace says without counting is what JobsInOnePlace says.
LEMMA OnePlaceCounts == QueueInv => JobsInOnePlace
<1> SUFFICES ASSUME QueueInv PROVE JobsInOnePlace
  OBVIOUS
<1> USE DEF QueueInv, MutexDiscipline, TypeOK
<1> DEFINE listed == {waiting_jobs[i] : i \in DOMAIN waiting_jobs}
           runners == {w \in Workers : pc[w] = "run"}
<1>1. /\ DOMAIN waiting_jobs = 1..Len(waiting_jobs) /\ Len(waiting_jobs) \in Nat
      /\ \A n : n \in listed <=> Listed(n)
  BY DEF Listed
<1>2. Cardinality(listed) = Len(waiting_jobs)
  <2>1. IsFiniteSet(1..Len(waiting_jobs)) /\ Cardinality(1..Len(waiting_jobs)) = Len(waiting_jobs)
    BY <1>1, UpTo
  <2>2. \A i, j \in 1..Len(waiting_jobs) : waiting_jobs[i] = waiting_jobs[j] => i = j
    BY DEF OnePlace
  <2>. QED  BY <1>1, <2>1, <2>2, DistinctCount
<1>3. Cardinality(Running) = Cardinality(runners)
  <2>1. IsFiniteSet(runners)
    BY QueueAssumption, FS_Subset
  <2>2. \A v, w \in runners : job[v] = job[w] => v = w
    BY DEF OnePlace, Runs
  <2>3. Running = {job[w] : w \in runners}
    BY DEF Running
  <2>. QED  BY <2>1, <2>2, <2>3, DistinctCount
<1>4. \A n : n \in Running <=> \E w \in Workers : Runs(w, n)
  BY DEF Running, Runs
<1>5. listed \cap Running = {}
  BY <1>1, <1>4 DEF OnePlace, Runs
<1>6. (listed \cup Running) \cap freed = {}
  BY <1>1, <1>4 DEF OnePlace, Runs, Listed
<1>7. phase # "down" => listed \cup Running \cup freed = 1..added
  <2> HIDE DEF listed
  <2>1. \A n \in listed \cup Running \cup freed : n \in 1..added
    <3>1. \A n : Listed(n) => n \in 1..added
      BY DEF OnePlace, Listed
    <3>2. \A w \in Workers : \A n : Runs(w, n) => n \in 1..added
      BY DEF OnePlace, Runs
    <3>3. freed \subseteq 1..added
      BY DEF OnePlace
    <3>. QED  BY <1>1, <1>4, <3>1, <3>2, <3>3
  <2>2. phase # "down" => \A n \in 1..added : n \in listed \cup Running \cup freed
    BY <1>1, <1>4 DEF OnePlace
  <2>. QED  BY <2>1, <2>2
<1>. QED  BY <1>2, <1>3, <1>5, <1>6, <1>7 DEF JobsInOnePlace

\* No job is on the list twice, with two workers, run again after client_job has
\* freed it, or lost while the queue is up, for any number of workers and jobs.
THEOREM QueueJobsInOnePlace == Spec => []JobsInOnePlace
BY QueueInvariant, OnePlaceCounts, PTL

\* The signal of workqueue_add_job is never lost: a waiting job always finds a
\* worker that does not sleep in pthread_cond_wait.
THEOREM QueueNobodySleeps == Spec => []NobodySleepsOverAJob
<1>1. QueueInv => NobodySleepsOverAJob
  BY DEF QueueInv
<1>. QED  BY <1>1, QueueInvariant, PTL

-----------------------------------------------------------------------------
(* The multi-port server: what a system call does to the kernel.           *)

Kernel == S!KernelOf({})

\* The descriptors of connections are natural numbers other than the two of the
\* listening sockets.
LEMMA FdFacts ==
    /\ S!Fds \subseteq Nat /\ S!Listener \notin S!Fds /\ S!Listener \in S!Watched
    /\ S!Fds \subseteq S!Watched /\ S!Watched \subseteq Nat
BY MulPortAssumption DEF S!Fds, S!Listener, S!Udp, S!Watched

\* A nonempty set of natural numbers has a least member.
LEMMA LeastFacts ==
    ASSUME NEW T \in SUBSET Nat, T # {}
    PROVE  S!Min(T) \in T
<1>1. IsWellFoundedOn(OpToRel(<, Nat), Nat)
  BY NatLessThanWellFounded
<1>2. PICK x \in T : \A y \in T : ~(<<y, x>> \in OpToRel(<, Nat))
  BY <1>1, WFMin
<1>3. \A y \in T : ~(y < x)
  BY <1>2 DEF OpToRel
<1>4. \A y \in T : x <= y
  BY <1>3
<1>. QED  BY <1>4 DEF S!Min

\* What a kernel of the type holds.
LEMMA KernelFields ==
    ASSUME NEW s \in Kernel
    PROVE  /\ s.backlog \in Seq(Clients) /\ s.came \subseteq Clients /\ s.closed \subseteq Clients
           /\ s.desc \in [S!Fds -> Clients \cup {Nobody}]
           /\ s.sent \in [Clients -> Nat] /\ s.inq \in [Clients -> Seq(Nat)]
           /\ s.ended \in [Clients -> {"open", "fin", "reset", "told"}]
           /\ s.watch \in [S!Watched -> S!WatchState]
           /\ \A f \in S!Fds : S!Open(s, f) => s.desc[f] \in Clients
BY DEF Kernel, S!KernelOf, S!Open

\* recv takes one message, the error of a reset, or nothing.
LEMMA ReadFacts ==
    ASSUME NEW s \in Kernel, NEW f \in S!Fds, S!Open(s, f)
    PROVE  /\ S!Read(s, f) \in Kernel
           /\ S!Read(s, f).desc = s.desc /\ S!Read(s, f).backlog = s.backlog
           /\ S!Read(s, f).came = s.came /\ S!Read(s, f).watch = s.watch
           /\ \A c \in Clients \ {s.desc[f]} : S!Read(s, f).inq[c] = s.inq[c]
           /\ S!Result(s, f) = "data" => S!Read(s, f).inq[s.desc[f]] = Tail(s.inq[s.desc[f]])
           /\ S!Result(s, f) # "data" => S!Read(s, f).inq = s.inq /\ s.inq[s.desc[f]] = <<>>
<1>1. PICK c \in Clients : c = s.desc[f]
  BY KernelFields
<1>2. s.inq \in [Clients -> Seq(Nat)] /\ s.ended \in [Clients -> {"open", "fin", "reset", "told"}]
  BY KernelFields
<1>3. S!Result(s, f) = "data" <=> s.inq[c] # <<>>
  <2>1. CASE s.inq[c] # <<>>
    BY <1>1, <2>1 DEF S!Result
  <2>2. CASE s.inq[c] = <<>>
    <3>1. S!Result(s, f) = CASE s.ended[c] = "reset" -> "error"
                             [] s.ended[c] = "open"  -> "again"
                             [] OTHER                -> "eof"
      BY <1>1, <2>2 DEF S!Result
    <3>. QED  BY <2>2, <3>1
  <2>. QED  BY <2>1, <2>2
<1>4. CASE S!Result(s, f) = "data"
  <2>1. Tail(s.inq[c]) \in Seq(Nat)
    BY <1>2, <1>3, <1>4, TailFacts
  <2>2. PICK q \in [Clients -> Seq(Nat)] : q = [s.inq EXCEPT ![c] = Tail(s.inq[c])]
    BY <1>2, <2>1
  <2>3. q[c] = Tail(s.inq[c]) /\ \A d \in Clients \ {c} : q[d] = s.inq[d]
    BY <1>2, <2>2
  <2>4. PICK t : t = [s EXCEPT !.inq = q]
    OBVIOUS
  <2>5. S!Read(s, f) = t
    BY <1>1, <1>4, <2>2, <2>4 DEF S!Read, Kernel, S!KernelOf
  <2>6. t \in Kernel /\ t.inq = q /\ t.desc = s.desc /\ t.backlog = s.backlog /\ t.came = s.came
        /\ t.watch = s.watch
    BY <2>4 DEF Kernel, S!KernelOf
  <2>. QED  BY <1>1, <1>4, <2>3, <2>5, <2>6
<1>5. CASE S!Result(s, f) = "error"
  <2>1. PICK e \in [Clients -> {"open", "fin", "reset", "told"}] : e = [s.ended EXCEPT ![c] = "told"]
    BY <1>2
  <2>2. PICK t : t = [s EXCEPT !.ended = e]
    OBVIOUS
  <2>3. S!Read(s, f) = t
    BY <1>1, <1>5, <2>1, <2>2 DEF S!Read, Kernel, S!KernelOf
  <2>4. t \in Kernel /\ t.inq = s.inq /\ t.desc = s.desc /\ t.backlog = s.backlog /\ t.came = s.came
        /\ t.watch = s.watch
    BY <2>2 DEF Kernel, S!KernelOf
  <2>. QED  BY <1>1, <1>3, <1>5, <2>3, <2>4
<1>6. CASE S!Result(s, f) \notin {"data", "error"}
  <2>1. S!Read(s, f) = s
    BY <1>6 DEF S!Read
  <2>. QED  BY <1>1, <1>3, <1>6, <2>1
<1>. QED  BY <1>4, <1>5, <1>6

\* close frees the descriptor and ends its registration.
LEMMA CloseFacts ==
    ASSUME NEW s \in Kernel, S!ConnectionsOK(s), NEW f \in S!Fds, S!Open(s, f)
    PROVE  /\ S!Close(s, f) \in Kernel /\ S!ConnectionsOK(S!Close(s, f))
           /\ S!Close(s, f).inq = s.inq /\ S!Close(s, f).backlog = s.backlog
           /\ ~S!Open(S!Close(s, f), f)
           /\ \A g \in S!Watched \ {f} : S!Close(s, f).watch[g] = s.watch[g]
           /\ \A g \in S!Fds \ {f} : S!Close(s, f).desc[g] = s.desc[g]
<1>1. PICK d \in [S!Fds -> Clients \cup {Nobody}] : d = [s.desc EXCEPT ![f] = Nobody]
  BY KernelFields
<1>2. d[f] = Nobody /\ \A g \in S!Fds \ {f} : d[g] = s.desc[g]
  BY <1>1, KernelFields
<1>3. PICK w \in [S!Watched -> S!WatchState] : w = [s.watch EXCEPT ![f] = S!Off]
  BY KernelFields DEF S!WatchState, S!Off
<1>4. \A g \in S!Watched \ {f} : w[g] = s.watch[g]
  BY <1>3, KernelFields
<1>5. PICK cl \in SUBSET Clients : cl = s.closed \cup {s.desc[f]}
  BY KernelFields
<1>6. PICK t : t = [s EXCEPT !.desc = d, !.closed = cl, !.watch = w]
  OBVIOUS
<1>7. S!Close(s, f) = t
  BY <1>1, <1>3, <1>5, <1>6 DEF S!Close, Kernel, S!KernelOf
<1>8. t \in Kernel /\ t.inq = s.inq /\ t.desc = d /\ t.backlog = s.backlog /\ t.came = s.came
      /\ t.watch = w
  BY <1>6 DEF Kernel, S!KernelOf
<1>9. \A g \in S!Fds : S!Open(t, g) <=> g # f /\ S!Open(s, g)
  BY <1>2, <1>8 DEF S!Open
<1>10. S!ConnectionsOK(t)
  <2>1. ASSUME NEW g \in S!Fds, NEW h \in S!Fds, d[g] = d[h], g # h PROVE d[g] = Nobody
    BY <1>2, <2>1 DEF S!ConnectionsOK
  <2>2. \A g \in S!Fds : S!Open(t, g) => d[g] \in s.came
    BY <1>2, <1>9 DEF S!ConnectionsOK
  <2>3. ASSUME NEW i \in DOMAIN s.backlog PROVE \A g \in S!Fds : d[g] # s.backlog[i]
    <3>1. s.backlog[i] \in Clients
      BY KernelFields
    <3>2. s.backlog[i] # Nobody
      BY <3>1, MulPortAssumption
    <3>. QED  BY <1>2, <3>2 DEF S!ConnectionsOK
  <2>. QED  BY <1>8, <2>1, <2>2, <2>3 DEF S!ConnectionsOK
<1>. QED  BY <1>2, <1>4, <1>7, <1>8, <1>9, <1>10
\* accept moves the first connection of the backlog to a free descriptor.
LEMMA AcceptFacts ==
    ASSUME NEW s \in Kernel, S!ConnectionsOK(s), s.backlog # <<>>, S!FreeFds(s) # {}
    PROVE  /\ S!Accept(s) \in Kernel /\ S!ConnectionsOK(S!Accept(s))
           /\ S!FreeFd(s) \in S!Fds
           /\ S!Accept(s).inq = s.inq /\ S!Accept(s).watch = s.watch
           /\ Len(s.backlog) \in Nat \ {0} /\ Len(S!Accept(s).backlog) = Len(s.backlog) - 1
           /\ \A g \in S!Fds \ {S!FreeFd(s)} : S!Accept(s).desc[g] = s.desc[g]
<1>1. PICK f0 \in S!Fds : f0 = S!FreeFd(s) /\ s.desc[f0] = Nobody
  <2>1. S!FreeFds(s) \in SUBSET Nat
    BY FdFacts DEF S!FreeFds
  <2>2. S!FreeFd(s) \in S!FreeFds(s)
    BY <2>1, LeastFacts DEF S!FreeFd
  <2>. QED  BY <2>2 DEF S!FreeFds
<1>2. s.backlog \in Seq(Clients) /\ s.desc \in [S!Fds -> Clients \cup {Nobody}]
  BY KernelFields
<1>3. PICK n \in Nat \ {0} : n = Len(s.backlog)
  BY <1>2, TailFacts
<1>4. PICK c \in Clients : c = Head(s.backlog) /\ c = s.backlog[1]
  BY <1>2, TailFacts
<1>5. PICK b \in Seq(Clients) : b = Tail(s.backlog)
  BY <1>2, TailFacts
<1>6. Len(b) = n - 1 /\ DOMAIN b = 1..(n - 1) /\ \A i \in 1..(n - 1) : b[i] = s.backlog[i + 1]
  BY <1>2, <1>3, <1>5
<1>7. DOMAIN s.backlog = 1..n
  BY <1>2, <1>3
<1>8. PICK d \in [S!Fds -> Clients \cup {Nobody}] : d = [s.desc EXCEPT ![f0] = c]
  BY <1>1, <1>2
<1>9. d[f0] = c /\ \A f \in S!Fds \ {f0} : d[f] = s.desc[f]
  BY <1>2, <1>8
<1>10. PICK t : t = [s EXCEPT !.backlog = b, !.desc = d]
  OBVIOUS
<1>11. S!Accept(s) = t
  BY <1>1, <1>4, <1>5, <1>8, <1>10 DEF S!Accept, Kernel, S!KernelOf
<1>12. t \in Kernel /\ t.inq = s.inq /\ t.watch = s.watch /\ t.backlog = b /\ t.desc = d
       /\ t.came = s.came
  BY <1>10 DEF Kernel, S!KernelOf
<1>13. \A f \in S!Fds : S!Open(t, f) => f = f0 \/ S!Open(s, f)
  BY <1>9, <1>12 DEF S!Open
<1>14. S!ConnectionsOK(t)
  <2>1. 1 \in 1..n
    OBVIOUS
  <2>2. c \in s.came /\ \A f \in S!Fds : s.desc[f] # c
    BY <1>4, <1>7, <2>1 DEF S!ConnectionsOK
  <2>3. ASSUME NEW f \in S!Fds, NEW g \in S!Fds, d[f] = d[g], f # g PROVE d[f] = Nobody
    BY <1>9, <2>2, <2>3 DEF S!ConnectionsOK
  <2>4. \A f \in S!Fds : S!Open(t, f) => d[f] \in s.came
    BY <1>9, <1>13, <2>2 DEF S!ConnectionsOK
  <2>5. ASSUME NEW i \in 1..(n - 1)
        PROVE  /\ b[i] \in s.came
               /\ \A j \in 1..(n - 1) : b[i] = b[j] => i = j
               /\ \A f \in S!Fds : d[f] # b[i]
    <3>1. i + 1 \in 1..n /\ i + 1 # 1 /\ b[i] = s.backlog[i + 1]
      BY <1>6
    <3>2. b[i] \in s.came /\ \A f \in S!Fds : s.desc[f] # b[i]
      BY <1>7, <3>1 DEF S!ConnectionsOK
    <3>3. c # b[i]
      BY <1>4, <1>7, <2>1, <3>1 DEF S!ConnectionsOK
    <3>4. ASSUME NEW j \in 1..(n - 1), b[i] = b[j] PROVE i = j
      <4>1. j + 1 \in 1..n /\ b[j] = s.backlog[j + 1]
        BY <1>6
      <4>2. i + 1 = j + 1
        BY <1>7, <3>1, <3>4, <4>1 DEF S!ConnectionsOK
      <4>. QED  BY <4>2
    <3>. QED  BY <1>9, <3>2, <3>3, <3>4
  <2>. QED  BY <1>6, <1>12, <2>3, <2>4, <2>5 DEF S!ConnectionsOK
<1>. QED  BY <1>1, <1>3, <1>6, <1>9, <1>11, <1>12, <1>14

\* A kernel of which only the registrations are others.
LEMMA RewatchFacts ==
    ASSUME NEW s \in Kernel, S!ConnectionsOK(s), NEW w \in [S!Watched -> S!WatchState]
    PROVE  /\ [s EXCEPT !.watch = w] \in Kernel /\ S!ConnectionsOK([s EXCEPT !.watch = w])
           /\ [s EXCEPT !.watch = w].watch = w /\ [s EXCEPT !.watch = w].inq = s.inq
           /\ [s EXCEPT !.watch = w].desc = s.desc /\ [s EXCEPT !.watch = w].backlog = s.backlog
<1>1. PICK t : t = [s EXCEPT !.watch = w]
  OBVIOUS
<1>2. t \in Kernel /\ t.watch = w /\ t.inq = s.inq /\ t.desc = s.desc /\ t.backlog = s.backlog
      /\ t.came = s.came
  BY <1>1 DEF Kernel, S!KernelOf
<1>3. S!ConnectionsOK(t)
  BY <1>2 DEF S!ConnectionsOK, S!Open
<1>. QED  BY <1>1, <1>2, <1>3

\* An event makes an edge where a descriptor is registered for input, and takes
\* none away.
LEMMA StirFacts ==
    ASSUME NEW s \in Kernel, S!ConnectionsOK(s), NEW fs
    PROVE  /\ S!Stir(s, fs) \in Kernel /\ S!ConnectionsOK(S!Stir(s, fs))
           /\ S!Stir(s, fs).desc = s.desc /\ S!Stir(s, fs).inq = s.inq
           /\ S!Stir(s, fs).backlog = s.backlog
           /\ \A f \in S!Watched :
                 /\ S!Stir(s, fs).watch[f].on = s.watch[f].on
                 /\ S!Stir(s, fs).watch[f].et = s.watch[f].et
                 /\ S!Stir(s, fs).watch[f].ev = s.watch[f].ev
                 /\ f \notin fs => S!Stir(s, fs).watch[f] = s.watch[f]
                 /\ s.watch[f].edge => S!Stir(s, fs).watch[f].edge
                 /\ f \in fs /\ s.watch[f].on /\ s.watch[f].et /\ s.watch[f].ev = "in"
                        => S!Stir(s, fs).watch[f].edge
<1>1. s.watch \in [S!Watched -> S!WatchState]
  BY KernelFields
<1>2. PICK w : w = [f \in DOMAIN s.watch |->
                        IF f \in fs /\ s.watch[f].on /\ s.watch[f].et /\ s.watch[f].ev = "in"
                        THEN [s.watch[f] EXCEPT !.edge = TRUE] ELSE s.watch[f]]
  OBVIOUS
<1>3. w \in [S!Watched -> S!WatchState]
  <2>1. ASSUME NEW f \in S!Watched PROVE w[f] \in S!WatchState
    BY <1>1, <1>2 DEF S!WatchState
  <2>2. DOMAIN s.watch = S!Watched
    BY <1>1
  <2>3. w = [f \in S!Watched |-> w[f]]
    BY <1>2, <2>2
  <2>. QED  BY <2>1, <2>3
<1>4. ASSUME NEW f \in S!Watched
      PROVE  /\ w[f].on = s.watch[f].on /\ w[f].et = s.watch[f].et /\ w[f].ev = s.watch[f].ev
             /\ f \notin fs => w[f] = s.watch[f]
             /\ s.watch[f].edge => w[f].edge
             /\ f \in fs /\ s.watch[f].on /\ s.watch[f].et /\ s.watch[f].ev = "in" => w[f].edge
  BY <1>1, <1>2 DEF S!WatchState
<1>5. S!Stir(s, fs) = [s EXCEPT !.watch = w]
  BY <1>2 DEF S!Stir
<1>6. PICK t : t = [s EXCEPT !.watch = w]
  OBVIOUS
<1>7. t \in Kernel /\ S!ConnectionsOK(t) /\ t.watch = w /\ t.inq = s.inq /\ t.desc = s.desc
      /\ t.backlog = s.backlog
  BY <1>3, <1>6, RewatchFacts
<1>. QED  BY <1>4, <1>5, <1>6, <1>7
-----------------------------------------------------------------------------
(* The actors.                                                             *)

\* The invariant without the queue's part of it.
ServerInv ==
    /\ ServerTypeOK /\ S!ConnectionsOK(k)
    /\ QueueAlone /\ Registered /\ ReportedWait /\ IdleAtRecv /\ InputHasAJob

ActTypes == [at : {"recv", "load", "store", "close"}, got : BOOLEAN, seen : Int]
Places == {"recv", "load", "store", "close"}

\* What a step of actor a leaves alone, wherever it goes: the list, the other
\* actors, and a's own descriptor if it goes on with it.
Went(a, at) ==
    /\ QueueInv'
    /\ act' \in [Actors -> ActTypes]
    /\ loop' = loop \/ (loop = "process" /\ loop' = "wait")
    /\ waiting_jobs' = waiting_jobs
    /\ \A b \in Actors \ {a} : Busy(b)' = Busy(b) /\ act'[b] = act[b] /\ (Busy(b) => Fd(b)' = Fd(b))
    /\ at # "done" => Busy(a)' /\ Fd(a)' = Fd(a) /\ act'[a].at = at
    /\ at = "done" => ~Busy(a)' /\ act'[a].at = "recv"

\* An actor goes on with its descriptor, or is done with it and with its job.
LEMMA GoesFacts ==
    ASSUME QueueInv, ServerTypeOK, NEW a \in Actors, Busy(a),
           NEW at \in Places \cup {"done"}, NEW got \in BOOLEAN, NEW seen \in Int,
           Goes(a, at, got, seen), UNCHANGED <<side, cur, jobfd>>
    PROVE  Went(a, at)
<1> USE DEF ServerTypeOK, ActTypes, Places
<1>1. act \in [Actors -> ActTypes]
  OBVIOUS
<1>2. CASE at # "done"
  <2>1. act' = [act EXCEPT ![a] = [at |-> at, got |-> got, seen |-> seen]] /\ UNCHANGED <<vars, loop>>
    BY <1>2 DEF Goes
  <2>2. UNCHANGED <<waiting_jobs, pc, job>> /\ QueueInv'
    <3>1. [Next]_vars
      BY <2>1
    <3>2. QueueInv'
      BY <3>1, QueueStep
    <3>. QED  BY <2>1, <3>2 DEF vars
  <2>3. [at |-> at, got |-> got, seen |-> seen] \in ActTypes
    BY <1>2
  <2>4. act' \in [Actors -> ActTypes] /\ act'[a].at = at /\ \A b \in Actors \ {a} : act'[b] = act[b]
    BY <1>1, <2>1, <2>3
  <2>5. \A b \in Actors : Busy(b)' = Busy(b) /\ Fd(b)' = Fd(b)
    BY <2>1, <2>2 DEF Busy, Fd
  <2>. QED  BY <1>2, <2>1, <2>2, <2>4, <2>5 DEF Went
<1>3. CASE at = "done"
  <2>1. act' = [act EXCEPT ![a] = Fresh]
    BY <1>3 DEF Goes
  <2>2. Fresh \in ActTypes /\ Fresh.at = "recv"
    BY DEF Fresh
  <2>3. act' \in [Actors -> ActTypes] /\ act'[a].at = "recv" /\ \A b \in Actors \ {a} : act'[b] = act[b]
    BY <1>1, <2>1, <2>2
  <2>4. CASE a = Loop
    <3>1. loop' = "wait" /\ loop = "process" /\ UNCHANGED vars
      BY <1>3, <2>4 DEF Goes, Busy
    <3>2. UNCHANGED <<waiting_jobs, pc, job>>
      BY <3>1 DEF vars
    <3>3. [Next]_vars
      BY <3>1
    <3>4. QueueInv'
      BY <3>3, QueueStep
    <3>5. \A b \in Actors \ {a} : Busy(b)' = Busy(b) /\ Fd(b)' = Fd(b)
      BY <2>4, <3>2 DEF Busy, Fd
    <3>6. ~Busy(a)'
      BY <2>4, <3>1 DEF Busy
    <3>. QED  BY <1>3, <2>3, <3>1, <3>2, <3>4, <3>5, <3>6 DEF Went
  <2>5. CASE a # Loop
    <3>1. a \in Workers /\ Run(a) /\ UNCHANGED loop
      BY <1>3, <2>5 DEF Goes, Actors
    <3>2. QueueInv'
      BY <3>1, RunInv
    <3>3. /\ waiting_jobs' = waiting_jobs /\ pc \in [Workers -> {"lock", "loop", "wait", "woken", "test", "run", "exited"}]
          /\ job \in [Workers -> {0} \cup Jobs]
          /\ pc' = [pc EXCEPT ![a] = "lock"] /\ job' = [job EXCEPT ![a] = 0]
      BY <3>1 DEF Run, Goto, QueueInv, MutexDiscipline, TypeOK
    <3>4. ASSUME NEW b \in Actors \ {a} PROVE Busy(b)' = Busy(b) /\ Fd(b)' = Fd(b)
      <4>1. CASE b = Loop
        BY <3>1, <4>1 DEF Busy, Fd
      <4>2. CASE b # Loop
        <5>1. b \in Workers /\ pc'[b] = pc[b] /\ job'[b] = job[b]
          BY <3>3, <4>2 DEF Actors
        <5>. QED  BY <4>2, <5>1 DEF Busy, Fd
      <4>. QED  BY <4>1, <4>2
    <3>5. ~Busy(a)'
      BY <2>5, <3>1, <3>3 DEF Busy
    <3>. QED  BY <1>3, <2>3, <3>1, <3>2, <3>3, <3>4, <3>5 DEF Went
  <2>. QED  BY <2>4, <2>5
<1>. QED  BY <1>2, <1>3

\* Who covers a descriptor still does after a step of an actor that reads another
\* one, does not read, or goes on reading.
LEMMA CoverKept ==
    ASSUME NEW a \in Actors, Busy(a), NEW at, Went(a, at), NEW f \in S!Fds, HasAJob(f),
           k'.watch[f] = k.watch[f], k'.desc[f] = k.desc[f], left \subseteq left',
           UNCHANGED <<ready, cur, jobfd>>,
           Fd(a) # f \/ act[a].at # "recv" \/ at = "recv"
    PROVE  HasAJob(f)'
<1>1. CASE k.watch[f].edge \/ f \in ready \/ k.desc[f] \in left
  BY <1>1 DEF HasAJob
<1>2. CASE loop = "count" /\ cur = f
  BY <1>2 DEF HasAJob, Went
<1>3. CASE \E i \in DOMAIN waiting_jobs : jobfd[waiting_jobs[i]] = f
  BY <1>3 DEF HasAJob, Went
<1>4. ASSUME NEW b \in Actors, Busy(b), Fd(b) = f, act[b].at = "recv" PROVE HasAJob(f)'
  <2>1. Busy(b)' /\ Fd(b)' = f /\ act'[b].at = "recv"
    BY <1>4 DEF Went
  <2>. QED  BY <2>1 DEF HasAJob
<1>. QED  BY <1>1, <1>2, <1>3, <1>4 DEF HasAJob

\* The parts that only look at who is where.
LEMMA WentIdle ==
    ASSUME ServerInv, NEW a \in Actors, Busy(a), NEW at \in Places \cup {"done"}, Went(a, at)
    PROVE  IdleAtRecv' /\ loop' \in {"off", "wait", "count", "process", "stopped"}
           /\ (loop' = "count" <=> loop = "count") /\ (loop = "stopped" => loop' = "stopped")
<1>1. IdleAtRecv'
  BY DEF IdleAtRecv, Went, ServerInv
<1>. QED  BY <1>1 DEF Went, ServerInv, ServerTypeOK
\* An actor that works belongs to the server.
LEMMA BusyServes == ASSUME ServerInv, NEW a \in Actors, Busy(a) PROVE side = "server"
BY DEF ServerInv, ServerTypeOK, QueueAlone, Busy

\* recv: what an actor leaves unread it comes back for, or a full buffer is to
\* blame; nobody else's input changes.
LEMMA RecvInv ==
    ASSUME QueueInv, ServerInv, NEW a \in Actors, Recv(a)
    PROVE  QueueInv' /\ ServerInv'
<1>1. /\ Busy(a) /\ act[a].at = "recv" /\ S!Open(k, Fd(a)) /\ k' = S!Read(k, Fd(a))
      /\ UNCHANGED <<side, ready, cur, jobfd, curfds, nRun>>
  BY DEF Recv
<1>2. PICK f \in S!Fds : f = Fd(a)
  BY <1>1 DEF S!Open
<1>3. k \in Kernel /\ S!ConnectionsOK(k) /\ ServerTypeOK
  BY DEF ServerInv, ServerTypeOK, Kernel
<1>4. PICK c \in Clients : c = k.desc[f]
  BY <1>1, <1>2, <1>3, KernelFields
<1>5. k.inq[c] \in Seq(Nat)
  BY <1>3, KernelFields
<1>6. PICK at \in {"recv", "load", "done"}, got \in BOOLEAN :
         /\ Goes(a, at, got, 0)
         /\ left \subseteq left' /\ left' \subseteq Clients
         /\ at = "recv" \/ S!Result(k, f) # "data" \/ c \in left' \/ ~(Len(k.inq[c]) > 1)
  <2>1. left \subseteq Clients
    BY <1>3 DEF ServerTypeOK
  <2>2. CASE Goes(a, "recv", TRUE, 0) /\ UNCHANGED left
    BY <2>1, <2>2
  <2>3. CASE /\ Goes(a, "done", FALSE, 0)
             /\ left' = IF Len(k.inq[c]) > 1 THEN left \cup {c} ELSE left
    <3>1. left \subseteq left' /\ left' \subseteq Clients /\ (c \in left' \/ ~(Len(k.inq[c]) > 1))
      BY <2>1, <2>3, Zenon
    <3>. QED  BY <2>3, <3>1
  <2>4. CASE S!Result(k, f) = "again" /\ Goes(a, "done", FALSE, 0) /\ UNCHANGED left
    BY <2>1, <2>4
  <2>5. CASE /\ S!Result(k, f) \in {"eof", "error"}
             /\ Goes(a, IF act[a].got THEN "done" ELSE "load", FALSE, 0) /\ UNCHANGED left
    <3>1. S!Result(k, f) # "data"
      BY <2>5
    <3>. QED  BY <2>1, <2>5, <3>1
  <2>. QED  BY <1>2, <1>4, <2>2, <2>3, <2>4, <2>5 DEF Recv
<1>7. Went(a, at)
  <2>1. at \in Places \cup {"done"} /\ 0 \in Int
    BY DEF Places
  <2>. QED  BY <1>1, <1>3, <1>6, <2>1, GoesFacts
<1>8. /\ k' \in Kernel /\ k'.desc = k.desc /\ k'.backlog = k.backlog /\ k'.came = k.came
      /\ k'.watch = k.watch
      /\ \A d \in Clients \ {c} : k'.inq[d] = k.inq[d]
      /\ S!Result(k, f) = "data" => k'.inq[c] = Tail(k.inq[c])
      /\ S!Result(k, f) # "data" => k'.inq[c] = k.inq[c] /\ k.inq[c] = <<>>
  BY <1>1, <1>2, <1>3, <1>4, ReadFacts
<1>9. S!ConnectionsOK(k')
  BY <1>3, <1>8 DEF S!ConnectionsOK, S!Open
<1>10. \A g \in S!Fds : S!Open(k', g) <=> S!Open(k, g)
  BY <1>8 DEF S!Open
<1>11. /\ IdleAtRecv' /\ loop' \in {"off", "wait", "count", "process", "stopped"}
       /\ (loop' = "count" <=> loop = "count") /\ (loop = "stopped" => loop' = "stopped")
  BY <1>1, <1>6, <1>7, WentIdle DEF Places
<1>12. ServerTypeOK'
  BY <1>1, <1>3, <1>6, <1>7, <1>8, <1>11 DEF ServerTypeOK, Went, ActTypes, Kernel
<1>13. side' = "server"
  BY <1>1, BusyServes
<1>14. Registered' /\ ReportedWait'
  BY <1>1, <1>8, <1>10, <1>11 DEF Registered, ReportedWait, ServerInv
<1>15. InputHasAJob'
  <2> SUFFICES ASSUME NEW g \in S!Fds, S!Open(k', g), k'.inq[k'.desc[g]] # <<>>, loop' # "stopped"
               PROVE  HasAJob(g)'
    BY DEF InputHasAJob
  <2>1. CASE g = f
    <3>1. k'.inq[c] # <<>>
      BY <1>4, <1>8, <2>1
    <3>2. S!Result(k, f) = "data" /\ k.inq[c] # <<>>
      BY <1>4, <1>8, <3>1 DEF S!Result
    <3>3. CASE at = "recv"
      <4>1. Busy(a)' /\ Fd(a)' = g /\ act'[a].at = "recv"
        BY <1>2, <1>7, <2>1, <3>3 DEF Went
      <4>. QED  BY <4>1 DEF HasAJob
    <3>4. CASE c \in left'
      BY <1>4, <1>8, <2>1, <3>4 DEF HasAJob
    <3>5. CASE ~(Len(k.inq[c]) > 1)
      <4>1. PICK q \in Seq(Nat) : q = k.inq[c] /\ q # <<>>
        BY <1>5, <3>2
      <4>2. ~(Len(q) > 1)
        BY <3>5, <4>1, Zenon
      <4>3. PICK n \in Nat \ {0} : n = Len(q) /\ Len(Tail(q)) = n - 1 /\ Tail(q) \in Seq(Nat)
        BY <4>1, TailFacts
      <4>4. Tail(q) = <<>>
        <5>1. n = 1
          BY <4>2, <4>3
        <5>2. Len(Tail(q)) = 0
          BY <4>3, <5>1
        <5>. QED  BY <4>3, <5>2, EmptySeq
      <4>. QED  BY <1>8, <3>1, <3>2, <4>1, <4>4
    <3>. QED  BY <1>6, <3>2, <3>3, <3>4, <3>5
  <2>2. CASE g # f
    <3>1. k.desc[g] \in Clients \ {c} /\ k'.desc[g] = k.desc[g]
      BY <1>3, <1>4, <1>8, <1>10, <2>2, KernelFields DEF S!ConnectionsOK, S!Open
    <3>2. k.inq[k.desc[g]] # <<>> /\ loop # "stopped"
      BY <1>8, <1>11, <3>1
    <3>3. HasAJob(g)
      BY <1>10, <3>2 DEF ServerInv, InputHasAJob
    <3>. QED  BY <1>1, <1>2, <1>6, <1>7, <1>8, <2>2, <3>3, CoverKept
  <2>. QED  BY <2>1, <2>2
<1>16. QueueInv'
  BY <1>7 DEF Went
<1>. QED  BY <1>9, <1>11, <1>12, <1>13, <1>14, <1>15, <1>16 DEF ServerInv, QueueAlone

\* curfds-- and close: the descriptor that is closed needs nobody any more, and
\* whoever covers another one still does.
LEMMA DropInv ==
    ASSUME QueueInv, ServerInv, NEW a \in Actors, Load(a) \/ Store(a) \/ Close(a)
    PROVE  QueueInv' /\ ServerInv'
<1>1. /\ Busy(a) /\ act[a].at # "recv"
      /\ k' = k \/ (S!Open(k, Fd(a)) /\ k' = S!Close(k, Fd(a)))
      /\ UNCHANGED <<side, ready, cur, jobfd, nRun, left>>
  BY DEF Load, Store, Close
<1>2. k \in Kernel /\ S!ConnectionsOK(k) /\ ServerTypeOK
  BY DEF ServerInv, ServerTypeOK, Kernel
<1>3. act[a].seen \in Int /\ act[a].seen - 1 \in Int /\ curfds \in Int
  BY <1>2 DEF ServerTypeOK
<1>4. PICK at \in {"store", "close", "done"}, seen \in Int : Goes(a, at, FALSE, seen)
  <2>1. CASE Load(a)
    BY <1>3, <2>1 DEF Load
  <2>2. CASE Store(a) \/ Close(a)
    <3>1. Goes(a, "close", FALSE, 0) \/ Goes(a, "done", FALSE, 0)
      BY <2>2 DEF Store, Close
    <3>2. 0 \in Int
      OBVIOUS
    <3>. QED  BY <3>1, <3>2, Zenon
  <2>. QED  BY <2>1, <2>2
<1>5. curfds' \in Int
  BY <1>3 DEF Load, Store, Close
<1>6. Went(a, at)
  BY <1>1, <1>2, <1>4, GoesFacts DEF Places
<1>7. /\ k' \in Kernel /\ S!ConnectionsOK(k') /\ k'.inq = k.inq /\ k'.backlog = k.backlog
      /\ k'.watch[S!Listener] = k.watch[S!Listener]
      /\ \A g \in S!Fds : S!Open(k', g) =>
             S!Open(k, g) /\ k'.watch[g] = k.watch[g] /\ k'.desc[g] = k.desc[g]
  <2>1. CASE k' = k
    BY <1>2, <2>1
  <2>2. CASE S!Open(k, Fd(a)) /\ k' = S!Close(k, Fd(a))
    <3>1. PICK f \in S!Fds : f = Fd(a)
      BY <2>2 DEF S!Open
    <3>2. /\ k' \in Kernel /\ S!ConnectionsOK(k') /\ k'.inq = k.inq /\ k'.backlog = k.backlog
          /\ ~S!Open(k', f)
          /\ \A g \in S!Watched \ {f} : k'.watch[g] = k.watch[g]
          /\ \A g \in S!Fds \ {f} : k'.desc[g] = k.desc[g]
      BY <1>2, <2>2, <3>1, CloseFacts
    <3>. QED  BY <3>2, FdFacts DEF S!Open
  <2>. QED  BY <1>1, <2>1, <2>2
<1>8. /\ IdleAtRecv' /\ loop' \in {"off", "wait", "count", "process", "stopped"}
      /\ (loop' = "count" <=> loop = "count") /\ (loop = "stopped" => loop' = "stopped")
  BY <1>1, <1>4, <1>6, WentIdle DEF Places
<1>9. ServerTypeOK'
  BY <1>1, <1>2, <1>5, <1>6, <1>7, <1>8 DEF ServerTypeOK, Went, ActTypes, Kernel
<1>10. side' = "server"
  BY <1>1, BusyServes
<1>11. Registered' /\ ReportedWait'
  BY <1>1, <1>7, <1>8 DEF Registered, ReportedWait, ServerInv
<1>12. InputHasAJob'
  <2> SUFFICES ASSUME NEW g \in S!Fds, S!Open(k', g), k'.inq[k'.desc[g]] # <<>>, loop' # "stopped"
               PROVE  HasAJob(g)'
    BY DEF InputHasAJob
  <2>1. S!Open(k, g) /\ k'.watch[g] = k.watch[g] /\ k'.desc[g] = k.desc[g]
    BY <1>7
  <2>2. HasAJob(g)
    BY <1>7, <1>8, <2>1 DEF ServerInv, InputHasAJob
  <2>. QED  BY <1>1, <1>6, <2>1, <2>2, CoverKept
<1>13. QueueInv'
  BY <1>6 DEF Went
<1>. QED  BY <1>7, <1>8, <1>9, <1>10, <1>11, <1>12, <1>13 DEF ServerInv, QueueAlone
-----------------------------------------------------------------------------
(* The event loop and the clients.                                         *)

\* A step that leaves the queue alone.
LEMMA QueueSame ==
    ASSUME QueueInv, UNCHANGED vars
    PROVE  /\ QueueInv' /\ UNCHANGED <<waiting_jobs, pc, job>>
<1>1. [Next]_vars
  OBVIOUS
<1>2. QueueInv'
  BY <1>1, QueueStep
<1>. QED  BY <1>2 DEF vars

\* epoll_wait: an edge that is forgotten has become an event of this round.
LEMMA LoopWaitInv ==
    ASSUME QueueInv, ServerInv, LoopWait
    PROVE  QueueInv' /\ ServerInv'
<1>1. /\ loop = "wait" /\ ready = {} /\ UNCHANGED vars
      /\ UNCHANGED <<side, cur, jobfd, act, curfds, nRun, left>>
  BY DEF LoopWait
<1>2. QueueInv' /\ UNCHANGED <<waiting_jobs, pc, job>>
  BY <1>1, QueueSame
<1>3. k \in Kernel /\ S!ConnectionsOK(k) /\ ServerTypeOK /\ side = "server"
  BY <1>1 DEF ServerInv, ServerTypeOK, Kernel, QueueAlone
<1>4. \A b \in Actors \ {Loop} : Busy(b)' = Busy(b) /\ Fd(b)' = Fd(b)
  BY <1>1, <1>2 DEF Busy, Fd
<1>5. ~Busy(Loop) /\ Loop \in Actors
  BY <1>1 DEF Busy, Actors
<1>6. CASE loop' = "stopped" /\ UNCHANGED <<k, ready>>
  <2>1. ServerTypeOK'
    BY <1>1, <1>3, <1>6 DEF ServerTypeOK
  <2>2. ~Busy(Loop)'
    BY <1>6 DEF Busy
  <2>3. IdleAtRecv'
    BY <1>1, <1>4, <1>5, <2>2 DEF IdleAtRecv, ServerInv
  <2>4. Registered' /\ ReportedWait' /\ InputHasAJob' /\ QueueAlone'
    BY <1>1, <1>3, <1>6 DEF Registered, ReportedWait, InputHasAJob, QueueAlone, ServerInv
  <2>. QED  BY <1>2, <1>3, <1>6, <2>1, <2>3, <2>4 DEF ServerInv
<1>7. ASSUME NEW fs \in SUBSET Pending, ready' = fs, loop' = loop,
             k' = [k EXCEPT !.watch = [f \in DOMAIN @ |->
                      IF f \in fs THEN [@[f] EXCEPT !.edge = FALSE] ELSE @[f]]]
      PROVE  QueueInv' /\ ServerInv'
  <2>1. k.watch \in [S!Watched -> S!WatchState]
    BY <1>3, KernelFields
  <2>2. PICK w : w = [f \in DOMAIN k.watch |->
                         IF f \in fs THEN [k.watch[f] EXCEPT !.edge = FALSE] ELSE k.watch[f]]
    OBVIOUS
  <2>3. w \in [S!Watched -> S!WatchState]
    BY <2>1, <2>2 DEF S!WatchState
  <2>4. \A f \in S!Watched :
            /\ w[f].on = k.watch[f].on /\ w[f].et = k.watch[f].et /\ w[f].ev = k.watch[f].ev
            /\ f \notin fs => w[f] = k.watch[f]
            /\ f \in fs => w[f].edge = FALSE
    BY <2>1, <2>2 DEF S!WatchState
  <2>5. k' = [k EXCEPT !.watch = w]
    BY <1>7, <2>2
  <2>6. k' \in Kernel /\ S!ConnectionsOK(k') /\ k'.watch = w /\ k'.inq = k.inq /\ k'.desc = k.desc
        /\ k'.backlog = k.backlog
    BY <1>3, <2>3, <2>5, RewatchFacts
  <2>7. fs \subseteq S!Watched /\ \A f \in fs : k.watch[f].edge
    BY DEF Pending
  <2>8. ServerTypeOK'
    BY <1>1, <1>3, <1>7, <2>6, <2>7 DEF ServerTypeOK, Kernel
  <2>9. IdleAtRecv'
    <3>1. ~Busy(Loop)'
      BY <1>1, <1>7 DEF Busy
    <3>. QED  BY <1>1, <1>4, <1>5, <3>1 DEF IdleAtRecv, ServerInv
  <2>10. \A f \in S!Fds : S!Open(k', f) <=> S!Open(k, f)
    BY <2>6 DEF S!Open
  <2>11. Registered'
    <3>1. ASSUME NEW f \in S!Fds, S!Open(k', f)
          PROVE  k'.watch[f].on /\ k'.watch[f].et /\ k'.watch[f].ev = "in"
      <4>1. S!Open(k, f) /\ f \in S!Watched
        BY <2>10, <3>1, FdFacts
      <4>2. k.watch[f].on /\ k.watch[f].et /\ k.watch[f].ev = "in"
        BY <1>1, <4>1 DEF Registered, ServerInv
      <4>. QED  BY <2>4, <2>6, <4>1, <4>2
    <3>. QED  BY <3>1, Zenon DEF Registered
  <2>12. ReportedWait'
    <3>1. k.backlog \in Seq(Clients) /\ Len(k.backlog) \in Nat
      BY <1>3, KernelFields
    <3>2. k.watch[S!Listener].edge => Len(k.backlog) >= 1
      BY <1>1, <3>1 DEF ReportedWait, ServerInv
    <3>3. S!Listener \in ready' => k.watch[S!Listener].edge /\ ~k'.watch[S!Listener].edge
      BY <1>7, <2>4, <2>6, <2>7, FdFacts
    <3>4. S!Listener \notin ready' => k'.watch[S!Listener] = k.watch[S!Listener]
      BY <1>7, <2>4, <2>6, FdFacts
    <3>5. k'.backlog = k.backlog
      BY <2>6
    <3>. QED  BY <3>1, <3>2, <3>3, <3>4, <3>5 DEF ReportedWait
  <2>13. InputHasAJob'
    <3> SUFFICES ASSUME NEW f \in S!Fds, S!Open(k', f), k'.inq[k'.desc[f]] # <<>>
                 PROVE  HasAJob(f)'
      BY DEF InputHasAJob
    <3>1. HasAJob(f)
      BY <1>1, <2>6, <2>10 DEF InputHasAJob, ServerInv
    <3>2. CASE f \in fs
      BY <1>7, <3>2 DEF HasAJob
    <3>3. CASE f \notin fs
      <4>1. k'.watch[f] = k.watch[f]
        BY <2>4, <2>6, <3>3, FdFacts
      <4>2. ASSUME NEW b \in Actors, Busy(b), Fd(b) = f, act[b].at = "recv" PROVE HasAJob(f)'
        <5>1. Busy(b)' /\ Fd(b)' = f /\ act'[b].at = "recv"
          BY <1>1, <1>4, <1>5, <4>2
        <5>. QED  BY <5>1 DEF HasAJob
      <4>. QED  BY <1>1, <1>2, <2>6, <3>1, <4>1, <4>2 DEF HasAJob
    <3>. QED  BY <3>2, <3>3
  <2>14. QueueAlone'
    BY <1>1, <1>3 DEF QueueAlone
  <2>. QED  BY <1>2, <2>6, <2>8, <2>9, <2>11, <2>12, <2>13, <2>14 DEF ServerInv
<1>. QED  BY <1>6, <1>7 DEF LoopWait

\* accept: the new descriptor is the one the loop goes on with.
LEMMA LoopAcceptInv ==
    ASSUME QueueInv, ServerInv, LoopAccept
    PROVE  QueueInv' /\ ServerInv'
<1>1. /\ loop = "wait" /\ S!Listener \in ready /\ ready' = ready \ {S!Listener} /\ UNCHANGED vars
      /\ UNCHANGED <<side, jobfd, curfds, nRun, left>>
  BY DEF LoopAccept, S!Take
<1>2. QueueInv' /\ UNCHANGED <<waiting_jobs, pc, job>>
  BY <1>1, QueueSame
<1>3. k \in Kernel /\ S!ConnectionsOK(k) /\ ServerTypeOK /\ side = "server"
  BY <1>1 DEF ServerInv, ServerTypeOK, Kernel, QueueAlone
<1>4. \A b \in Actors \ {Loop} : Busy(b)' = Busy(b) /\ Fd(b)' = Fd(b)
  BY <1>1, <1>2 DEF Busy, Fd
<1>5. ~Busy(Loop) /\ Loop \in Actors
  BY <1>1 DEF Busy, Actors
<1>6. PICK n \in Nat \ {0} : n = Len(k.backlog) /\ (k.watch[S!Listener].edge => n >= 2)
  <2>1. Len(k.backlog) \in Nat
    BY <1>3, KernelFields
  <2>. QED  BY <1>1, <2>1 DEF ReportedWait, ServerInv
<1>7. CASE S!FreeFds(k) = {}
  <2>1. loop' = "stopped" /\ UNCHANGED <<k, cur, act>>
    BY <1>7 DEF LoopAccept
  <2>2. ServerTypeOK'
    BY <1>1, <1>3, <2>1 DEF ServerTypeOK
  <2>3. ~Busy(Loop)'
    BY <2>1 DEF Busy
  <2>4. IdleAtRecv'
    BY <1>4, <1>5, <2>1, <2>3 DEF IdleAtRecv, ServerInv
  <2>5. Registered' /\ InputHasAJob' /\ QueueAlone'
    BY <1>1, <1>3, <2>1 DEF Registered, InputHasAJob, QueueAlone, ServerInv
  <2>6. ReportedWait'
    BY <1>1, <1>6, <2>1 DEF ReportedWait
  <2>. QED  BY <1>2, <1>3, <2>1, <2>2, <2>4, <2>5, <2>6 DEF ServerInv
<1>8. CASE S!FreeFds(k) # {}
  <2>1. /\ k' = S!Accept(k) /\ cur' = S!FreeFd(k) /\ loop' = "count"
        /\ act' = [act EXCEPT ![Loop].seen = curfds]
    BY <1>8 DEF LoopAccept
  <2>2. k.backlog # <<>>
    <3>1. k.backlog \in Seq(Clients)
      BY <1>3, KernelFields
    <3>. QED  BY <1>6, <3>1
  <2>3. /\ k' \in Kernel /\ S!ConnectionsOK(k') /\ cur' \in S!Fds
        /\ k'.inq = k.inq /\ k'.watch = k.watch /\ Len(k'.backlog) = n - 1
        /\ \A g \in S!Fds \ {cur'} : k'.desc[g] = k.desc[g]
    BY <1>3, <1>6, <1>8, <2>1, <2>2, AcceptFacts
  <2>4. act' \in [Actors -> ActTypes] /\ \A b \in Actors : act'[b].at = act[b].at
    BY <1>3, <1>5, <2>1 DEF ServerTypeOK, ActTypes
  <2>5. ServerTypeOK'
    BY <1>1, <1>3, <2>1, <2>3, <2>4, FdFacts DEF ServerTypeOK, Kernel, ActTypes
  <2>6. ~Busy(Loop)'
    BY <2>1 DEF Busy
  <2>7. IdleAtRecv'
    BY <1>4, <1>5, <2>4, <2>6 DEF IdleAtRecv, ServerInv
  <2>8. \A g \in S!Fds \ {cur'} : S!Open(k', g) <=> S!Open(k, g)
    BY <2>3 DEF S!Open
  <2>9. Registered'
    BY <1>1, <2>1, <2>3, <2>8 DEF Registered, ServerInv
  <2>10. ReportedWait'
    BY <1>1, <1>6, <2>3 DEF ReportedWait
  <2>11. InputHasAJob'
    <3> SUFFICES ASSUME NEW f \in S!Fds, f # cur', S!Open(k', f), k'.inq[k'.desc[f]] # <<>>
                 PROVE  HasAJob(f)'
      BY <2>1 DEF InputHasAJob, HasAJob
    <3>1. HasAJob(f)
      BY <1>1, <2>3, <2>8 DEF InputHasAJob, ServerInv
    <3>2. f # S!Listener
      BY FdFacts
    <3>3. ASSUME NEW b \in Actors, Busy(b), Fd(b) = f, act[b].at = "recv" PROVE HasAJob(f)'
      <4>1. Busy(b)' /\ Fd(b)' = f /\ act'[b].at = "recv"
        BY <1>4, <1>5, <2>4, <3>3
      <4>. QED  BY <4>1 DEF HasAJob
    <3>. QED  BY <1>1, <1>2, <2>3, <3>1, <3>2, <3>3 DEF HasAJob
  <2>12. QueueAlone'
    BY <1>1, <1>3 DEF QueueAlone
  <2>. QED  BY <1>2, <2>3, <2>5, <2>7, <2>9, <2>10, <2>11, <2>12 DEF ServerInv
<1>. QED  BY <1>7, <1>8
\* Registered for input, with an event to report.
Stirred(r) == r \in S!WatchState /\ r.on /\ r.et /\ r.ev = "in" /\ r.edge

\* Raising the edge of a registration for input.
LEMMA EdgeRaised ==
    ASSUME NEW r \in S!WatchState, r.on, r.et, r.ev = "in"
    PROVE  Stirred([r EXCEPT !.edge = TRUE])
BY DEF S!WatchState, Stirred

\* The new descriptor is registered, and has its first event.
LEMMA LoopCountInv ==
    ASSUME QueueInv, ServerInv, LoopCount
    PROVE  QueueInv' /\ ServerInv'
<1>1. /\ loop = "count" /\ loop' = "wait" /\ UNCHANGED vars
      /\ curfds' = act[Loop].seen + 1 /\ nRun' = (nRun \/ act[Loop].seen > Crowd)
      /\ act' = [act EXCEPT ![Loop] = Fresh]
      /\ UNCHANGED <<side, ready, cur, jobfd, left>>
  BY DEF LoopCount
<1>2. QueueInv' /\ UNCHANGED <<waiting_jobs, pc, job>>
  BY <1>1, QueueSame
<1>3. k \in Kernel /\ S!ConnectionsOK(k) /\ ServerTypeOK /\ side = "server"
  BY <1>1 DEF ServerInv, ServerTypeOK, Kernel, QueueAlone
<1>4. \A b \in Actors \ {Loop} : Busy(b)' = Busy(b) /\ Fd(b)' = Fd(b)
  BY <1>1, <1>2 DEF Busy, Fd
<1>5. ~Busy(Loop) /\ Loop \in Actors /\ ~Busy(Loop)'
  BY <1>1 DEF Busy, Actors
<1>6. /\ act' \in [Actors -> ActTypes] /\ act'[Loop].at = "recv"
      /\ \A b \in Actors \ {Loop} : act'[b] = act[b]
  <2>1. Fresh \in ActTypes /\ Fresh.at = "recv"
    BY DEF Fresh, ActTypes
  <2>2. act \in [Actors -> ActTypes]
    BY <1>3 DEF ServerTypeOK, ActTypes
  <2>. QED  BY <1>1, <1>5, <2>1, <2>2
<1>7. /\ k' \in Kernel /\ S!ConnectionsOK(k') /\ k'.inq = k.inq /\ k'.desc = k.desc
      /\ k'.backlog = k.backlog
      /\ \A g \in S!Watched \ {cur} : k'.watch[g] = k.watch[g]
      /\ S!Open(k, cur) => Stirred(k'.watch[cur])
      /\ ~S!Open(k, cur) => k' = k
  <2>1. CASE ~S!Open(k, cur)
    BY <1>3, <2>1 DEF LoopCount
  <2>2. CASE S!Open(k, cur)
    <3>1. k' = [S!Watch(k, cur, "in", TRUE) EXCEPT !.watch[cur].edge = TRUE] /\ cur \in S!Fds
      BY <2>2 DEF LoopCount, S!Open
    <3>2. k.watch \in [S!Watched -> S!WatchState] /\ cur \in S!Watched
      BY <1>3, <3>1, KernelFields, FdFacts
    <3>3. PICK e \in BOOLEAN : e = (TRUE /\ ("in" = "out" \/ S!Readable(k, cur)))
      OBVIOUS
    <3>4. PICK r : r = [on |-> TRUE, ev |-> "in", et |-> TRUE, edge |-> e]
      OBVIOUS
    <3>5. r \in S!WatchState /\ Stirred([r EXCEPT !.edge = TRUE])
      <4>1. r \in S!WatchState /\ r.on /\ r.et /\ r.ev = "in"
        BY <3>3, <3>4 DEF S!WatchState
      <4>. QED  BY <4>1, EdgeRaised
    <3>6. PICK v : v = [k.watch EXCEPT ![cur] = r]
      OBVIOUS
    <3>7. PICK s : s = [k EXCEPT !.watch = v]
      OBVIOUS
    <3>8. S!Watch(k, cur, "in", TRUE) = s
      BY <1>3, <2>2, <3>3, <3>4, <3>6, <3>7 DEF S!Watch, Kernel, S!KernelOf
    <3>9. PICK q : q = [v EXCEPT ![cur] = [r EXCEPT !.edge = TRUE]]
      OBVIOUS
    <3>10. v[cur] = r /\ v \in [S!Watched -> S!WatchState]
      BY <3>2, <3>5, <3>6
    <3>11. /\ q \in [S!Watched -> S!WatchState] /\ Stirred(q[cur])
           /\ \A g \in S!Watched \ {cur} : q[g] = k.watch[g]
      <4>1. PICK r2 \in S!WatchState : r2 = [r EXCEPT !.edge = TRUE]
        BY <3>5 DEF Stirred
      <4>2. q = [v EXCEPT ![cur] = r2] /\ Stirred(r2)
        BY <3>5, <3>9, <4>1
      <4>. QED  BY <3>2, <3>6, <3>10, <4>2
    <3>12. s.watch = v /\ s \in Kernel
      BY <1>3, <3>7, <3>10 DEF Kernel, S!KernelOf
    <3>13. k' = [s EXCEPT !.watch = q]
      BY <3>1, <3>8, <3>9, <3>10, <3>12 DEF Kernel, S!KernelOf
    <3>14. k' = [k EXCEPT !.watch = q]
      BY <1>3, <3>7, <3>13 DEF Kernel, S!KernelOf
    <3>. QED  BY <1>3, <2>2, <3>11, <3>14, RewatchFacts
  <2>. QED  BY <2>1, <2>2
<1>8. ServerTypeOK'
  <2>1. curfds' \in Int /\ nRun' \in BOOLEAN
    BY <1>1, <1>3, <1>5 DEF ServerTypeOK
  <2>. QED  BY <1>1, <1>3, <1>6, <1>7, <2>1 DEF ServerTypeOK, Kernel, ActTypes
<1>9. IdleAtRecv'
  BY <1>4, <1>5, <1>6 DEF IdleAtRecv, ServerInv
<1>10. \A f \in S!Fds : S!Open(k', f) <=> S!Open(k, f)
  BY <1>7 DEF S!Open
<1>11. Registered'
  <2> SUFFICES ASSUME NEW f \in S!Fds, S!Open(k', f)
               PROVE  k'.watch[f].on /\ k'.watch[f].et /\ k'.watch[f].ev = "in"
    BY DEF Registered
  <2>1. CASE f = cur
    BY <1>7, <1>10, <2>1 DEF Stirred
  <2>2. CASE f # cur
    BY <1>7, <1>10, <2>2, FdFacts DEF Registered, ServerInv
  <2>. QED  BY <2>1, <2>2
<1>12. ReportedWait'
  <2>1. S!Listener = cur => ~S!Open(k, cur)
    BY FdFacts DEF S!Open
  <2>2. k'.watch[S!Listener] = k.watch[S!Listener]
    BY <1>7, <2>1, FdFacts
  <2>. QED  BY <1>1, <1>7, <2>2 DEF ReportedWait, ServerInv
<1>13. InputHasAJob'
  <2> SUFFICES ASSUME NEW f \in S!Fds, S!Open(k', f), k'.inq[k'.desc[f]] # <<>>
               PROVE  HasAJob(f)'
    BY DEF InputHasAJob
  <2>1. CASE f = cur
    BY <1>7, <1>10, <2>1 DEF HasAJob, Stirred
  <2>2. CASE f # cur
    <3>1. HasAJob(f)
      BY <1>1, <1>7, <1>10 DEF InputHasAJob, ServerInv
    <3>2. k'.watch[f] = k.watch[f]
      BY <1>7, <2>2, FdFacts
    <3>3. ASSUME NEW b \in Actors, Busy(b), Fd(b) = f, act[b].at = "recv" PROVE HasAJob(f)'
      <4>1. Busy(b)' /\ Fd(b)' = f /\ act'[b].at = "recv"
        BY <1>4, <1>5, <1>6, <3>3
      <4>. QED  BY <4>1 DEF HasAJob
    <3>. QED  BY <1>1, <1>2, <1>7, <2>2, <3>1, <3>2, <3>3 DEF HasAJob
  <2>. QED  BY <2>1, <2>2
<1>14. QueueAlone'
  BY <1>1, <1>3 DEF QueueAlone
<1>. QED  BY <1>2, <1>7, <1>8, <1>9, <1>11, <1>12, <1>13, <1>14 DEF ServerInv

\* An event becomes a job, or the loop's own work.
LEMMA LoopEventInv ==
    ASSUME QueueInv, ServerInv, NEW f \in S!Fds, LoopEvent(f)
    PROVE  QueueInv' /\ ServerInv'
<1>1. /\ loop = "wait" /\ f \in ready /\ ready' = ready \ {f}
      /\ UNCHANGED <<side, k, act, curfds, nRun, left>>
  BY DEF LoopEvent, S!Take
<1>2. k \in Kernel /\ S!ConnectionsOK(k) /\ ServerTypeOK /\ side = "server"
  BY <1>1 DEF ServerInv, ServerTypeOK, Kernel, QueueAlone
<1>3. ~Busy(Loop) /\ Loop \in Actors /\ act[Loop].at = "recv"
  BY <1>1 DEF Busy, Actors, IdleAtRecv, ServerInv
<1>4. f # S!Listener /\ f \in S!Watched /\ f \in Nat
  BY FdFacts
<1>5. ReportedWait'
  BY <1>1, <1>4 DEF ReportedWait, ServerInv
<1>6. CASE nRun
  <2>1. loop' = "process" /\ cur' = f /\ UNCHANGED vars /\ UNCHANGED jobfd
    BY <1>6 DEF LoopEvent
  <2>2. QueueInv' /\ UNCHANGED <<waiting_jobs, pc, job>>
    BY <2>1, QueueSame
  <2>3. \A b \in Actors \ {Loop} : Busy(b)' = Busy(b) /\ Fd(b)' = Fd(b)
    BY <1>1, <2>1, <2>2 DEF Busy, Fd
  <2>4. ServerTypeOK'
    BY <1>1, <1>2, <1>4, <2>1 DEF ServerTypeOK
  <2>5. Busy(Loop)' /\ Fd(Loop)' = f
    BY <2>1 DEF Busy, Fd
  <2>6. IdleAtRecv'
    BY <1>1, <2>3, <2>5 DEF IdleAtRecv, ServerInv
  <2>7. Registered' /\ QueueAlone'
    BY <1>1, <1>2, <2>1 DEF Registered, QueueAlone, ServerInv
  <2>8. InputHasAJob'
    <3> SUFFICES ASSUME NEW g \in S!Fds, S!Open(k, g), k.inq[k.desc[g]] # <<>>
                 PROVE  HasAJob(g)'
      BY <1>1 DEF InputHasAJob
    <3>1. CASE g = f
      BY <1>1, <1>3, <2>5, <3>1 DEF HasAJob
    <3>2. CASE g # f
      <4>1. HasAJob(g)
        BY <1>1 DEF InputHasAJob, ServerInv
      <4>2. ASSUME NEW b \in Actors, Busy(b), Fd(b) = g, act[b].at = "recv" PROVE HasAJob(g)'
        <5>1. Busy(b)' /\ Fd(b)' = g /\ act'[b].at = "recv"
          BY <1>1, <1>3, <2>3, <4>2
        <5>. QED  BY <5>1 DEF HasAJob
      <4>. QED  BY <1>1, <2>1, <2>2, <3>2, <4>1, <4>2 DEF HasAJob
    <3>. QED  BY <3>1, <3>2
  <2>. QED  BY <1>1, <1>2, <1>5, <2>2, <2>4, <2>6, <2>7, <2>8 DEF ServerInv
<1>7. CASE ~nRun
  <2>1. /\ added < MaxServed /\ AddJob /\ jobfd' = [jobfd EXCEPT ![added'] = f]
        /\ UNCHANGED <<loop, cur>>
    BY <1>7 DEF LoopEvent
  <2>2. PICK n \in Nat : n = added
    BY DEF QueueInv, MutexDiscipline, TypeOK
  <2>3. QueueInv'
    <3>1. added < MaxJobs
      BY <2>1, <2>2, MulPortAssumption, QueueAssumption
    <3>. QED  BY <2>1, <3>1, AddInv
  <2>4. added' = n + 1 /\ n + 1 \in Jobs /\ n + 1 \in Nat
    BY <2>1, <2>2, MulPortAssumption, QueueAssumption DEF AddJob, Jobs
  <2>5. jobfd \in [Jobs -> Nat]
    BY <1>2 DEF ServerTypeOK
  <2>6. jobfd' \in [Jobs -> Nat] /\ jobfd'[n + 1] = f /\ \A j \in 1..n : jobfd'[j] = jobfd[j]
    <3>1. \A j \in 1..n : j \in Jobs /\ j # n + 1
      BY <2>4, QueueAssumption DEF Jobs
    <3>. QED  BY <1>4, <2>1, <2>4, <2>5, <3>1
  <2>7. /\ waiting_jobs \in Seq(Jobs) /\ waiting_jobs' = <<n + 1>> \o waiting_jobs
        /\ \A i \in 1..Len(waiting_jobs) : waiting_jobs[i] \in 1..n
        /\ \A w \in Workers : pc[w] = "run" => job[w] \in 1..n
    BY <2>1, <2>2, <2>4 DEF AddJob, QueueInv, OnePlace, MutexDiscipline, TypeOK
  <2>8. /\ Len(waiting_jobs) \in Nat /\ Len(waiting_jobs') = Len(waiting_jobs) + 1
        /\ waiting_jobs' \in Seq(Jobs) /\ waiting_jobs'[1] = n + 1
        /\ \A i \in 2..(Len(waiting_jobs) + 1) : waiting_jobs'[i] = waiting_jobs[i - 1]
    BY <2>4, <2>7, ConsFacts
  <2>9. job' = job /\ \A w \in Workers : pc'[w] = "run" <=> pc[w] = "run"
    BY <2>1 DEF AddJob, Signal, Goto, QueueInv, MutexDiscipline, TypeOK
  <2>10. ASSUME NEW b \in Actors PROVE Busy(b)' = Busy(b) /\ (Busy(b) => Fd(b)' = Fd(b))
    <3>1. CASE b = Loop
      BY <2>1, <3>1 DEF Busy, Fd
    <3>2. CASE b # Loop
      <4>1. b \in Workers
        BY <3>2 DEF Actors
      <4>2. Busy(b)' = Busy(b)
        BY <1>1, <2>9, <3>2, <4>1 DEF Busy
      <4>3. Busy(b) => Fd(b)' = Fd(b)
        BY <2>6, <2>7, <2>9, <3>2, <4>1 DEF Busy, Fd
      <4>. QED  BY <4>2, <4>3
    <3>. QED  BY <3>1, <3>2
  <2>11. ServerTypeOK'
    BY <1>1, <1>2, <2>1, <2>6 DEF ServerTypeOK
  <2>12. IdleAtRecv'
    BY <1>1, <2>10 DEF IdleAtRecv, ServerInv
  <2>13. Registered' /\ QueueAlone'
    BY <1>1, <1>2, <2>1 DEF Registered, QueueAlone, ServerInv
  <2>14. InputHasAJob'
    <3> SUFFICES ASSUME NEW g \in S!Fds, S!Open(k, g), k.inq[k.desc[g]] # <<>>
                 PROVE  HasAJob(g)'
      BY <1>1 DEF InputHasAJob
    <3>0. DOMAIN waiting_jobs = 1..Len(waiting_jobs) /\ DOMAIN waiting_jobs' = 1..(Len(waiting_jobs) + 1)
      BY <2>7, <2>8
    <3>1. CASE g = f
      <4>1. 1 \in DOMAIN waiting_jobs' /\ jobfd'[waiting_jobs'[1]] = g
        BY <2>6, <2>8, <3>0, <3>1
      <4>. QED  BY <4>1 DEF HasAJob
    <3>2. CASE g # f
      <4>1. HasAJob(g)
        BY <1>1 DEF InputHasAJob, ServerInv
      <4>2. ASSUME NEW b \in Actors, Busy(b), Fd(b) = g, act[b].at = "recv" PROVE HasAJob(g)'
        <5>1. Busy(b)' /\ Fd(b)' = g /\ act'[b].at = "recv"
          BY <1>1, <2>10, <4>2
        <5>. QED  BY <5>1 DEF HasAJob
      <4>3. ASSUME NEW i \in DOMAIN waiting_jobs, jobfd[waiting_jobs[i]] = g PROVE HasAJob(g)'
        <5>1. i + 1 \in DOMAIN waiting_jobs' /\ waiting_jobs'[i + 1] = waiting_jobs[i]
          BY <2>8, <3>0
        <5>2. jobfd'[waiting_jobs'[i + 1]] = g
          BY <2>6, <2>7, <3>0, <4>3, <5>1
        <5>. QED  BY <5>1, <5>2 DEF HasAJob
      <4>. QED  BY <1>1, <2>1, <3>2, <4>1, <4>2, <4>3 DEF HasAJob
    <3>. QED  BY <3>1, <3>2
  <2>. QED  BY <1>1, <1>2, <1>5, <2>3, <2>11, <2>12, <2>13, <2>14 DEF ServerInv
<1>. QED  BY <1>6, <1>7
\* A worker that takes a job begins to read the job's descriptor.
LEMMA TakeJobInv ==
    ASSUME QueueInv, ServerInv, NEW w \in Workers, TakeJob(w), side = "server"
    PROVE  QueueInv' /\ ServerInv'
<1>1. /\ pc[w] = "lock" /\ waiting_jobs # <<>> /\ Goto(w, "run")
      /\ job' = [job EXCEPT ![w] = Head(waiting_jobs)] /\ waiting_jobs' = Tail(waiting_jobs)
      /\ UNCHANGED <<jobs_mutex, terminate, phase, added, freed>>
      /\ UNCHANGED <<side, k, ready, loop, cur, jobfd, act, curfds, nRun, left>>
  BY DEF TakeJob, netVars
<1>2. QueueInv'
  BY <1>1, HeadTakenInv
<1>3. /\ waiting_jobs \in Seq(Jobs) /\ job \in [Workers -> {0} \cup Jobs]
      /\ pc \in [Workers -> {"lock", "loop", "wait", "woken", "test", "run", "exited"}]
  BY DEF QueueInv, MutexDiscipline, TypeOK
<1>4. PICK h \in Jobs : h = Head(waiting_jobs) /\ h = waiting_jobs[1]
  BY <1>1, <1>3, TailFacts
<1>5. /\ Len(waiting_jobs) \in Nat \ {0} /\ waiting_jobs' \in Seq(Jobs)
      /\ Len(waiting_jobs') = Len(waiting_jobs) - 1
      /\ \A i \in 1..(Len(waiting_jobs) - 1) : waiting_jobs'[i] = waiting_jobs[i + 1]
  BY <1>1, <1>3, TailFacts
<1>6. pc'[w] = "run" /\ job'[w] = h /\ \A v \in Workers \ {w} : pc'[v] = pc[v] /\ job'[v] = job[v]
  BY <1>1, <1>3, <1>4 DEF Goto
<1>7. w # Loop /\ w \in Actors
  BY MulPortAssumption DEF Actors
<1>8. Busy(w)' /\ Fd(w)' = jobfd[h] /\ ~Busy(w)
  BY <1>1, <1>6, <1>7 DEF Busy, Fd
<1>9. ASSUME NEW b \in Actors \ {w} PROVE Busy(b)' = Busy(b) /\ Fd(b)' = Fd(b)
  <2>1. CASE b = Loop
    BY <1>1, <2>1 DEF Busy, Fd
  <2>2. CASE b # Loop
    <3>1. b \in Workers \ {w}
      BY <2>2 DEF Actors
    <3>. QED  BY <1>1, <1>6, <2>2, <3>1 DEF Busy, Fd
  <2>. QED  BY <2>1, <2>2
<1>10. act[w].at = "recv"
  BY <1>7, <1>8 DEF ServerInv, IdleAtRecv
<1>11. IdleAtRecv'
  BY <1>1, <1>8, <1>9 DEF ServerInv, IdleAtRecv
<1>12. ServerTypeOK' /\ S!ConnectionsOK(k') /\ Registered' /\ ReportedWait' /\ QueueAlone'
  BY <1>1 DEF ServerInv, ServerTypeOK, Registered, ReportedWait, QueueAlone
<1>13. InputHasAJob'
  <2> SUFFICES ASSUME NEW f \in S!Fds, S!Open(k, f), k.inq[k.desc[f]] # <<>>, loop # "stopped"
               PROVE  HasAJob(f)'
    BY <1>1 DEF InputHasAJob
  <2>1. HasAJob(f)
    BY DEF ServerInv, InputHasAJob
  <2>2. ASSUME NEW b \in Actors, Busy(b), Fd(b) = f, act[b].at = "recv" PROVE HasAJob(f)'
    <3>1. Busy(b)' /\ Fd(b)' = f /\ act'[b].at = "recv"
      BY <1>1, <1>8, <1>9, <2>2
    <3>. QED  BY <3>1 DEF HasAJob
  <2>3. ASSUME NEW i \in DOMAIN waiting_jobs, jobfd[waiting_jobs[i]] = f PROVE HasAJob(f)'
    <3>1. CASE i = 1
      <4>1. Fd(w)' = f
        BY <1>4, <1>8, <2>3, <3>1
      <4>. QED  BY <1>1, <1>7, <1>8, <1>10, <4>1 DEF HasAJob
    <3>2. CASE i # 1
      <4>1. i - 1 \in DOMAIN waiting_jobs' /\ waiting_jobs'[i - 1] = waiting_jobs[i]
        BY <1>3, <1>5, <3>2
      <4>. QED  BY <1>1, <2>3, <4>1 DEF HasAJob
    <3>. QED  BY <3>1, <3>2
  <2>. QED  BY <1>1, <2>1, <2>2, <2>3 DEF HasAJob
<1>. QED  BY <1>2, <1>11, <1>12, <1>13 DEF ServerInv

\* What a client does to the kernel: it may stir the listening socket when one
\* more connection waits, and it stirs its own descriptor when it sends.
LEMMA ClientFacts ==
    ASSUME k \in Kernel, S!ConnectionsOK(k), NEW c \in Clients,
           S!ClientConnect(c) \/ S!ClientSend(c) \/ S!ClientClose(c)
    PROVE  /\ k' \in Kernel /\ S!ConnectionsOK(k') /\ k'.desc = k.desc
           /\ UNCHANGED <<side, ready, loop, cur, left>>
           /\ Len(k.backlog) \in Nat
           /\ Len(k'.backlog) = Len(k.backlog) + 1
              \/ (Len(k'.backlog) = Len(k.backlog) /\ k'.watch[S!Listener] = k.watch[S!Listener])
           /\ \A f \in S!Fds :
                 /\ k'.watch[f].on = k.watch[f].on /\ k'.watch[f].et = k.watch[f].et
                 /\ k'.watch[f].ev = k.watch[f].ev /\ (k.watch[f].edge => k'.watch[f].edge)
                 /\ \/ k.desc[f] # c
                    \/ k'.inq = k.inq
                    \/ k.watch[f].on /\ k.watch[f].et /\ k.watch[f].ev = "in" => k'.watch[f].edge
           /\ \A d \in Clients \ {c} : k'.inq[d] = k.inq[d]
<1>1. /\ k.backlog \in Seq(Clients) /\ k.came \subseteq Clients /\ k.sent \in [Clients -> Nat]
      /\ k.inq \in [Clients -> Seq(Nat)] /\ k.ended \in [Clients -> {"open", "fin", "reset", "told"}]
      /\ k.desc \in [S!Fds -> Clients \cup {Nobody}]
  BY KernelFields
<1>2. Len(k.backlog) \in Nat
  BY <1>1
<1>3. S!Listener \in S!Watched /\ S!Fds \subseteq S!Watched /\ S!Listener \notin S!FdOf(c)
  BY FdFacts DEF S!FdOf
<1>4. CASE S!ClientConnect(c)
  <2>1. PICK s : s = [k EXCEPT !.came = k.came \cup {c}, !.backlog = Append(k.backlog, c)]
    OBVIOUS
  <2>2. c \notin k.came /\ k' = S!Stir(s, {S!Listener}) /\ UNCHANGED <<side, ready, loop, cur, left>>
    BY <1>4, <2>1 DEF S!ClientConnect
  <2>3. PICK b \in Seq(Clients) : b = Append(k.backlog, c)
    <3>1. Append(k.backlog, c) \in Seq(Clients)
      BY <1>1, AppendProperties
    <3>. QED  BY <3>1, Zenon
  <2>4. /\ Len(b) = Len(k.backlog) + 1 /\ DOMAIN b = 1..(Len(k.backlog) + 1)
        /\ b[Len(k.backlog) + 1] = c /\ \A i \in 1..Len(k.backlog) : b[i] = k.backlog[i]
        /\ DOMAIN k.backlog = 1..Len(k.backlog)
    BY <1>1, <2>3
  <2>5. s \in Kernel /\ s.desc = k.desc /\ s.inq = k.inq /\ s.watch = k.watch /\ s.backlog = b
        /\ s.came = k.came \cup {c}
    BY <1>1, <2>1, <2>3 DEF Kernel, S!KernelOf
  <2>6. S!ConnectionsOK(s)
    <3>1. \A f \in S!Fds : k.desc[f] # c
      BY <2>2, MulPortAssumption DEF S!ConnectionsOK, S!Open
    <3>2. \A f \in S!Fds : S!Open(s, f) => s.desc[f] \in s.came
      BY <2>5 DEF S!ConnectionsOK, S!Open
    <3>3. ASSUME NEW i \in DOMAIN b
          PROVE  /\ b[i] \in s.came /\ \A f \in S!Fds : k.desc[f] # b[i]
                 /\ \A j \in DOMAIN b : b[i] = b[j] => i = j
      <4>1. \A j \in DOMAIN b : j \in DOMAIN k.backlog \/ j = Len(k.backlog) + 1
        BY <1>2, <2>4
      <4>2. \A j \in DOMAIN k.backlog : b[j] = k.backlog[j] /\ b[j] \in k.came /\ b[j] # c
        BY <2>2, <2>4 DEF S!ConnectionsOK
      <4>3. b[i] \in s.came /\ \A f \in S!Fds : k.desc[f] # b[i]
        BY <2>4, <2>5, <3>1, <4>1, <4>2 DEF S!ConnectionsOK
      <4>4. \A j \in DOMAIN b : b[i] = b[j] => i = j
        BY <2>4, <4>1, <4>2 DEF S!ConnectionsOK
      <4>. QED  BY <4>3, <4>4
    <3>. QED  BY <2>5, <3>2, <3>3 DEF S!ConnectionsOK
  <2>7. /\ k' \in Kernel /\ S!ConnectionsOK(k') /\ k'.desc = s.desc /\ k'.inq = s.inq
        /\ k'.backlog = s.backlog
        /\ \A f \in S!Watched :
              /\ k'.watch[f].on = s.watch[f].on /\ k'.watch[f].et = s.watch[f].et
              /\ k'.watch[f].ev = s.watch[f].ev /\ (s.watch[f].edge => k'.watch[f].edge)
    BY <2>2, <2>5, <2>6, StirFacts
  <2>8. k'.desc = k.desc /\ k'.inq = k.inq /\ Len(k'.backlog) = Len(k.backlog) + 1
    BY <2>4, <2>5, <2>7
  <2>9. \A f \in S!Fds :
           /\ k'.watch[f].on = k.watch[f].on /\ k'.watch[f].et = k.watch[f].et
           /\ k'.watch[f].ev = k.watch[f].ev /\ (k.watch[f].edge => k'.watch[f].edge)
    BY <1>3, <2>5, <2>7
  <2>. QED  BY <1>2, <2>2, <2>7, <2>8, <2>9
<1>5. CASE S!ClientSend(c)
  <2>0. PICK n \in Nat : n = k.sent[c] + 1
    <3>1. k.sent[c] + 1 \in Nat
      BY <1>1
    <3>. QED  BY <3>1, Zenon
  <2>1. PICK q \in [Clients -> Seq(Nat)] : q = [k.inq EXCEPT ![c] = Append(k.inq[c], n)]
    <3>1. PICK m \in Seq(Nat) : m = Append(k.inq[c], n)
      <4>1. k.inq[c] \in Seq(Nat)
        BY <1>1
      <4>2. Append(k.inq[c], n) \in Seq(Nat)
        BY <4>1, AppendProperties
      <4>. QED  BY <4>2, Zenon
    <3>. QED  BY <1>1, <3>1
  <2>2. PICK z \in [Clients -> Nat] : z = [k.sent EXCEPT ![c] = n]
    BY <1>1
  <2>3. \A d \in Clients \ {c} : q[d] = k.inq[d]
    BY <1>1, <2>1
  <2>4. PICK s : s = [k EXCEPT !.sent = z, !.inq = q]
    OBVIOUS
  <2>5. k' = S!Stir(s, S!FdOf(c)) /\ UNCHANGED <<side, ready, loop, cur, left>>
    BY <1>5, <2>0, <2>1, <2>2, <2>4 DEF S!ClientSend, Kernel, S!KernelOf
  <2>6. s \in Kernel /\ s.desc = k.desc /\ s.inq = q /\ s.watch = k.watch /\ s.backlog = k.backlog
        /\ s.came = k.came
    BY <2>4 DEF Kernel, S!KernelOf
  <2>7. S!ConnectionsOK(s)
    BY <2>6 DEF S!ConnectionsOK, S!Open
  <2>8. /\ k' \in Kernel /\ S!ConnectionsOK(k') /\ k'.desc = s.desc /\ k'.inq = s.inq
        /\ k'.backlog = s.backlog
        /\ \A f \in S!Watched :
              /\ k'.watch[f].on = s.watch[f].on /\ k'.watch[f].et = s.watch[f].et
              /\ k'.watch[f].ev = s.watch[f].ev /\ (s.watch[f].edge => k'.watch[f].edge)
              /\ f \notin S!FdOf(c) => k'.watch[f] = s.watch[f]
              /\ f \in S!FdOf(c) /\ s.watch[f].on /\ s.watch[f].et /\ s.watch[f].ev = "in"
                     => k'.watch[f].edge
    BY <2>5, <2>6, <2>7, StirFacts
  <2>9. \A f \in S!Fds : k.desc[f] = c => f \in S!FdOf(c)
    BY DEF S!FdOf
  <2>. QED  BY <1>2, <1>3, <2>3, <2>5, <2>6, <2>8, <2>9
<1>6. CASE S!ClientClose(c)
  <2>1. PICK e \in [Clients -> {"open", "fin", "reset", "told"}] : e = [k.ended EXCEPT ![c] = "fin"]
    BY <1>1
  <2>2. PICK s : s = [k EXCEPT !.ended = e]
    OBVIOUS
  <2>3. k' = S!Stir(s, S!FdOf(c)) /\ UNCHANGED <<side, ready, loop, cur, left>>
    BY <1>6, <2>1, <2>2 DEF S!ClientClose, Kernel, S!KernelOf
  <2>4. s \in Kernel /\ s.desc = k.desc /\ s.inq = k.inq /\ s.watch = k.watch
        /\ s.backlog = k.backlog /\ s.came = k.came
    BY <2>2 DEF Kernel, S!KernelOf
  <2>5. S!ConnectionsOK(s)
    BY <2>4 DEF S!ConnectionsOK, S!Open
  <2>6. /\ k' \in Kernel /\ S!ConnectionsOK(k') /\ k'.desc = s.desc /\ k'.inq = s.inq
        /\ k'.backlog = s.backlog
        /\ \A f \in S!Watched :
              /\ k'.watch[f].on = s.watch[f].on /\ k'.watch[f].et = s.watch[f].et
              /\ k'.watch[f].ev = s.watch[f].ev /\ (s.watch[f].edge => k'.watch[f].edge)
              /\ f \notin S!FdOf(c) => k'.watch[f] = s.watch[f]
    BY <2>3, <2>4, <2>5, StirFacts
  <2>. QED  BY <1>2, <1>3, <2>3, <2>4, <2>6
<1>. QED  BY <1>4, <1>5, <1>6
\* What a client sends raises an edge, or comes before the descriptor is registered.
LEMMA ClientInv ==
    ASSUME QueueInv, ServerInv, NEW c \in Clients,
           S!ClientConnect(c) \/ S!ClientSend(c) \/ S!ClientClose(c),
           loop \notin {"off", "stopped"}, UNCHANGED <<vars, jobfd, act, curfds, nRun>>
    PROVE  QueueInv' /\ ServerInv'
<1>1. QueueInv' /\ UNCHANGED <<waiting_jobs, pc, job>>
  BY QueueSame
<1>2. k \in Kernel /\ S!ConnectionsOK(k) /\ ServerTypeOK /\ side = "server"
  BY DEF ServerInv, ServerTypeOK, Kernel, QueueAlone
<1>3. /\ k' \in Kernel /\ S!ConnectionsOK(k') /\ k'.desc = k.desc
      /\ UNCHANGED <<side, ready, loop, cur, left>>
      /\ Len(k.backlog) \in Nat
      /\ Len(k'.backlog) = Len(k.backlog) + 1
         \/ (Len(k'.backlog) = Len(k.backlog) /\ k'.watch[S!Listener] = k.watch[S!Listener])
      /\ \A f \in S!Fds :
            /\ k'.watch[f].on = k.watch[f].on /\ k'.watch[f].et = k.watch[f].et
            /\ k'.watch[f].ev = k.watch[f].ev /\ (k.watch[f].edge => k'.watch[f].edge)
            /\ \/ k.desc[f] # c
               \/ k'.inq = k.inq
               \/ k.watch[f].on /\ k.watch[f].et /\ k.watch[f].ev = "in" => k'.watch[f].edge
      /\ \A d \in Clients \ {c} : k'.inq[d] = k.inq[d]
  BY <1>2, ClientFacts
<1>4. \A f \in S!Fds : S!Open(k', f) <=> S!Open(k, f)
  BY <1>3 DEF S!Open
<1>5. \A b \in Actors : Busy(b)' = Busy(b) /\ Fd(b)' = Fd(b)
  BY <1>1, <1>3 DEF Busy, Fd
<1>6. ServerTypeOK'
  BY <1>2, <1>3 DEF ServerTypeOK, Kernel
<1>7. IdleAtRecv'
  BY <1>5 DEF IdleAtRecv, ServerInv
<1>8. Registered'
  BY <1>3, <1>4 DEF Registered, ServerInv
<1>9. ReportedWait'
  <2>1. CASE Len(k'.backlog) = Len(k.backlog) /\ k'.watch[S!Listener] = k.watch[S!Listener]
    BY <1>3, <2>1 DEF ReportedWait, ServerInv
  <2>2. CASE Len(k'.backlog) = Len(k.backlog) + 1
    <3>1. S!Listener \in ready => Len(k.backlog) >= 1
      BY <1>3 DEF ReportedWait, ServerInv
    <3>. QED  BY <1>3, <2>2, <3>1 DEF ReportedWait
  <2>. QED  BY <1>3, <2>1, <2>2
<1>10. QueueAlone'
  BY <1>2, <1>3 DEF QueueAlone
<1>11. InputHasAJob'
  <2> SUFFICES ASSUME NEW f \in S!Fds, S!Open(k', f), k'.inq[k'.desc[f]] # <<>>
               PROVE  HasAJob(f)'
    BY DEF InputHasAJob
  <2>1. S!Open(k, f) /\ k.desc[f] \in Clients /\ k'.desc[f] = k.desc[f]
    BY <1>2, <1>3, <1>4, KernelFields
  <2>2. CASE k.inq[k.desc[f]] # <<>>
    <3>1. HasAJob(f)
      BY <2>1, <2>2 DEF InputHasAJob, ServerInv
    <3>2. ASSUME NEW b \in Actors, Busy(b), Fd(b) = f, act[b].at = "recv" PROVE HasAJob(f)'
      <4>1. Busy(b)' /\ Fd(b)' = f /\ act'[b].at = "recv"
        BY <1>5, <3>2
      <4>. QED  BY <4>1 DEF HasAJob
    <3>. QED  BY <1>1, <1>3, <2>1, <3>1, <3>2 DEF HasAJob
  <2>3. CASE k.inq[k.desc[f]] = <<>>
    <3>1. k.watch[f].on /\ k.watch[f].et /\ k.watch[f].ev = "in" => k'.watch[f].edge
      BY <1>3, <2>1, <2>3
    <3>2. CASE loop = "count" /\ cur = f
      BY <1>3, <3>2 DEF HasAJob
    <3>3. CASE ~(loop = "count" /\ cur = f)
      <4>1. k'.watch[f].edge
        BY <2>1, <3>1, <3>3 DEF Registered, ServerInv
      <4>. QED  BY <4>1 DEF HasAJob
    <3>. QED  BY <3>2, <3>3
  <2>. QED  BY <2>2, <2>3
<1>. QED  BY <1>1, <1>3, <1>6, <1>7, <1>8, <1>9, <1>10, <1>11 DEF ServerInv

\* Where there is no server the queue's steps are all there is.
LEMMA QueueSideInv ==
    ASSUME QueueInv, ServerInv, side = "queue", Next, UNCHANGED netVars
    PROVE  QueueInv' /\ ServerInv'
<1>1. QueueInv'
  BY QueueStep
<1>2. UNCHANGED <<side, k, ready, loop, cur, jobfd, act, curfds, nRun, left>>
  BY DEF netVars
<1>3. loop = "off" /\ \A f \in S!Fds : ~S!Open(k, f)
  BY DEF ServerInv, QueueAlone
<1>4. ServerTypeOK' /\ S!ConnectionsOK(k') /\ QueueAlone' /\ Registered' /\ ReportedWait'
  BY <1>2 DEF ServerInv, ServerTypeOK, QueueAlone, Registered, ReportedWait
<1>5. InputHasAJob'
  BY <1>2, <1>3 DEF InputHasAJob
<1>6. \A a \in Actors : ~Busy(a) /\ ~Busy(a)'
  BY <1>2, <1>3 DEF Busy
<1>7. IdleAtRecv'
  BY <1>2, <1>6 DEF ServerInv, IdleAtRecv
<1>. QED  BY <1>1, <1>4, <1>5, <1>7 DEF ServerInv

\* main has a listening socket that no connection waits at.
LEMMA MulPortInitInv == MulPortInit => QueueInv /\ ServerInv
<1> SUFFICES ASSUME MulPortInit PROVE QueueInv /\ ServerInv
  OBVIOUS
<1>1. QueueInv
  BY QueueInit DEF MulPortInit
<1>2. PICK sock \in S!Kernels : k = S!Watch(sock, S!Listener, "in", TRUE)
  BY DEF MulPortInit
<1>3. PICK limit \in 1..MaxFd :
         sock = [limit |-> limit, backlog |-> <<>>, listening |-> TRUE,
                 desc |-> [f \in S!Fds |-> Nobody], came |-> {}, closed |-> {},
                 sent |-> [c \in Clients |-> 0], inq |-> [c \in Clients |-> <<>>],
                 ended |-> [c \in Clients |-> "open"], out |-> [c \in Clients |-> <<>>],
                 dgrams |-> 0,
                 watch |-> [f \in S!Watched |-> [S!Off EXCEPT !.on = f = S!Listener]]]
  BY <1>2 DEF S!Kernels
<1>4. sock.watch \in [S!Watched -> S!WatchState]
  BY <1>3 DEF S!WatchState, S!Off
<1>5. sock \in Kernel /\ sock.backlog = <<>> /\ \A f \in S!Fds : sock.desc[f] = Nobody
  <2>1. [c \in Clients |-> <<>>] \in [Clients -> Seq({})] /\ [c \in Clients |-> <<>>] \in [Clients -> Seq(Nat)]
    BY EmptySeq
  <2>2. <<>> \in Seq(Clients)
    OBVIOUS
  <2>. QED  BY <1>3, <1>4, <2>1, <2>2 DEF Kernel, S!KernelOf
<1>6. PICK r : r = [on |-> TRUE, ev |-> "in", et |-> TRUE,
                    edge |-> TRUE /\ ("in" = "out" \/ S!Readable(sock, S!Listener))]
  OBVIOUS
<1>7. r \in S!WatchState /\ ~r.edge
  <2>1. ~S!Readable(sock, S!Listener)
    BY <1>5 DEF S!Readable, S!Listener, S!Udp
  <2>. QED  BY <1>6, <2>1 DEF S!WatchState
<1>8. PICK w \in [S!Watched -> S!WatchState] : w = [sock.watch EXCEPT ![S!Listener] = r]
  BY <1>4, <1>7
<1>9. k = [sock EXCEPT !.watch = w] /\ w[S!Listener] = r
  BY <1>2, <1>4, <1>5, <1>6, <1>8, FdFacts DEF S!Watch, Kernel, S!KernelOf
<1>10. S!ConnectionsOK(sock)
  BY <1>5 DEF S!ConnectionsOK, S!Open
<1>11. k \in Kernel /\ S!ConnectionsOK(k) /\ k.watch = w /\ k.desc = sock.desc /\ k.backlog = <<>>
  BY <1>5, <1>8, <1>9, <1>10, RewatchFacts
<1>12. \A f \in S!Fds : ~S!Open(k, f)
  BY <1>5, <1>11 DEF S!Open
<1>13. ServerTypeOK
  <2>1. Fresh \in ActTypes
    BY DEF Fresh, ActTypes
  <2>2. act \in [Actors -> ActTypes] /\ jobfd \in [Jobs -> Nat]
    BY <2>1 DEF MulPortInit
  <2>3. /\ side \in {"queue", "server"} /\ loop \in {"off", "wait"}
        /\ ready = {} /\ cur = S!Listener /\ left = {} /\ curfds = 1 /\ nRun = FALSE
    BY DEF MulPortInit
  <2>4. k \in S!KernelOf({})
    BY <1>11 DEF Kernel
  <2>5. ready \subseteq S!Watched /\ cur \in S!Watched /\ left \subseteq Clients
    BY <2>3, FdFacts
  <2>6. curfds \in Int /\ loop \in {"off", "wait", "count", "process", "stopped"}
    BY <2>3
  <2>7. nRun \in BOOLEAN
    BY <2>3, Zenon
  <2>. QED  BY <2>2, <2>3, <2>4, <2>5, <2>6, <2>7, Zenon DEF ServerTypeOK, ActTypes
<1>14. QueueAlone /\ Registered /\ InputHasAJob
  BY <1>12 DEF MulPortInit, QueueAlone, Registered, InputHasAJob
<1>15. ReportedWait
  <2>1. k.watch[S!Listener].edge = FALSE
    BY <1>7, <1>9, <1>11 DEF S!WatchState
  <2>2. ready = {} /\ Len(k.backlog) = 0
    BY <1>11 DEF MulPortInit
  <2>. QED  BY <2>1, <2>2 DEF ReportedWait
<1>16. IdleAtRecv
  BY DEF MulPortInit, IdleAtRecv, Fresh
<1>. QED  BY <1>1, <1>11, <1>13, <1>14, <1>15, <1>16 DEF ServerInv

\* Every step of the server or of the queue alone preserves the invariant.
LEMMA MulPortStep == QueueInv /\ ServerInv /\ [MulPortNext]_allVars => QueueInv' /\ ServerInv'
<1> SUFFICES ASSUME QueueInv, ServerInv, [MulPortNext]_allVars PROVE QueueInv' /\ ServerInv'
  OBVIOUS
<1>1. CASE UNCHANGED allVars
  <2>1. UNCHANGED vars /\ UNCHANGED <<side, k, ready, loop, cur, jobfd, act, curfds, nRun, left>>
    BY <1>1 DEF allVars, netVars
  <2>2. QueueInv' /\ UNCHANGED <<waiting_jobs, pc, job>>
    BY <2>1, QueueSame
  <2>3. \A a \in Actors : Busy(a)' = Busy(a) /\ Fd(a)' = Fd(a)
    BY <2>1, <2>2 DEF Busy, Fd
  <2>4. IdleAtRecv'
    BY <2>1, <2>3 DEF IdleAtRecv, ServerInv
  <2>5. \A f \in S!Fds : HasAJob(f)' <=> HasAJob(f)
    BY <2>1, <2>2, <2>3 DEF HasAJob
  <2>6. ServerTypeOK' /\ S!ConnectionsOK(k') /\ QueueAlone' /\ Registered' /\ ReportedWait'
    BY <2>1 DEF ServerInv, ServerTypeOK, QueueAlone, Registered, ReportedWait
  <2>7. InputHasAJob'
    BY <2>1, <2>5 DEF ServerInv, InputHasAJob
  <2>. QED  BY <2>2, <2>4, <2>6, <2>7 DEF ServerInv
<1>2. CASE side = "queue" /\ Next /\ UNCHANGED netVars
  BY <1>2, QueueSideInv
<1>3. ASSUME NEW w \in Workers, WorkerMove(w) PROVE QueueInv' /\ ServerInv'
  <2>1. CASE side = "queue" /\ WorkerStep(w) /\ UNCHANGED netVars
    BY <2>1, QueueSideInv DEF Next
  <2>2. CASE side = "server" /\ TakeJob(w)
    BY <2>2, TakeJobInv
  <2>3. CASE Serve(w)
    BY <2>3, RecvInv, DropInv DEF Serve, Actors
  <2>. QED  BY <1>3, <2>1, <2>2, <2>3 DEF WorkerMove
<1>4. CASE Serve(Loop)
  BY <1>4, RecvInv, DropInv DEF Serve, Actors
<1>5. ASSUME NEW c \in Clients, loop \notin {"off", "stopped"},
             S!ClientConnect(c) \/ S!ClientSend(c) \/ S!ClientClose(c),
             UNCHANGED <<vars, jobfd, act, curfds, nRun>>
      PROVE  QueueInv' /\ ServerInv'
  BY <1>5, ClientInv
<1>. QED
  BY <1>1, <1>2, <1>3, <1>4, <1>5, LoopWaitInv, LoopAcceptInv, LoopCountInv, LoopEventInv
  DEF MulPortNext

\* The list, the mutex, the registrations and who is busy with what agree in
\* every reachable state, with or without the server.
THEOREM MulPortInvariant == MulPortSpec => []MulPortInv
<1>1. MulPortInit => QueueInv /\ ServerInv
  BY MulPortInitInv
<1>2. QueueInv /\ ServerInv /\ [MulPortNext]_allVars => (QueueInv /\ ServerInv)'
  BY MulPortStep
<1>3. QueueInv /\ ServerInv => MulPortInv
  BY DEF ServerInv, MulPortInv
<1>. QED  BY <1>1, <1>2, <1>3, PTL DEF MulPortSpec

\* Input of an open connection is never forgotten, although an edge is reported
\* once, jobs run in any order and descriptors are closed and used again under
\* them, for any number of workers, clients, descriptors and jobs.
THEOREM MulPortInput == MulPortSpec => []InputHasAJob
<1>1. MulPortInv => InputHasAJob
  BY DEF MulPortInv
<1>. QED  BY <1>1, MulPortInvariant, PTL

\* Composed with the server no job is lost, in two places or run after client_job
\* has freed it.
THEOREM MulPortJobsInOnePlace == MulPortSpec => []JobsInOnePlace
<1>1. MulPortInv => JobsInOnePlace
  BY OnePlaceCounts DEF MulPortInv
<1>. QED  BY <1>1, MulPortInvariant, PTL

\* Composed with the server no job waits while all workers sleep.
THEOREM MulPortNobodySleeps == MulPortSpec => []NobodySleepsOverAJob
<1>1. MulPortInv => NobodySleepsOverAJob
  BY DEF MulPortInv, QueueInv
<1>. QED  BY <1>1, MulPortInvariant, PTL
=============================================================================
