--------------------------- MODULE ServersProofs ---------------------------
(***************************************************************************)
(* The socket servers, for any number of clients, descriptors and          *)
(* messages: every client gets its own messages back in order, the tables  *)
(* of the programs agree with the kernel, and no child is left a zombie.   *)
(* First what a system call does to the kernel, then the handlers.         *)
(***************************************************************************)
EXTENDS MCServers, SequenceTheorems, FiniteSetTheorems, NaturalsInduction,
        WellFoundedInduction, TLAPS

-----------------------------------------------------------------------------
(* Descriptors.                                                            *)

\* The descriptors of connections are natural numbers other than the two of the
\* listening sockets.
LEMMA FdFacts ==
    /\ Fds \subseteq Nat /\ Listener \notin Fds /\ Udp \notin Fds
    /\ Listener \in Watched /\ Udp \in Watched /\ Fds \subseteq Watched
    /\ Watched \subseteq Nat /\ Listener # Udp /\ -1 \notin Watched
BY SocketsAssumption DEF Fds, Listener, Udp, Watched

\* A nonempty set of natural numbers has a least member, Min.
LEMMA MinFacts ==
    ASSUME NEW T \in SUBSET Nat, T # {}
    PROVE  Min(T) \in T /\ \A y \in T : Min(T) <= y
<1>1. IsWellFoundedOn(OpToRel(<, Nat), Nat)
  BY NatLessThanWellFounded
<1>2. PICK x \in T : \A y \in T : ~(<<y, x>> \in OpToRel(<, Nat))
  BY <1>1, WFMin
<1>3. \A y \in T : ~(y < x)
  BY <1>2 DEF OpToRel
<1>4. \A y \in T : x <= y
  BY <1>3
<1>. QED  BY <1>4 DEF Min

\* accept hands out a free descriptor.
LEMMA FreeFdFacts ==
    ASSUME NEW s, FreeFds(s) # {}
    PROVE  FreeFd(s) \in Fds /\ s.desc[FreeFd(s)] = Nobody
<1>1. FreeFds(s) \in SUBSET Nat
  BY FdFacts DEF FreeFds
<1>2. FreeFd(s) \in FreeFds(s)
  BY <1>1, MinFacts DEF FreeFd
<1>. QED  BY <1>2 DEF FreeFds

-----------------------------------------------------------------------------
(* System calls.  held tells which client's message has been read and not  *)
(* answered.                                                               *)

\* The connections, and the streams, of two kernels are the same.
SameConnections(s, t) == t.backlog = s.backlog /\ t.desc = s.desc /\ t.came = s.came
SameStreams(s, t) == t.sent = s.sent /\ t.inq = s.inq /\ t.ended = s.ended /\ t.out = s.out

\* What each part of KernelOK looks at.
LEMMA KernelKept ==
    ASSUME NEW s, NEW held, NEW clearing, KernelOK(s, held, clearing),
           NEW t \in KernelType, SameConnections(s, t), SameStreams(s, t), WatchOK(t)
    PROVE  KernelOK(t, held, clearing)
<1>1. ConnectionsOK(t)
  BY DEF KernelOK, ConnectionsOK, SameConnections, Open
<1>2. StreamsOK(t, held) /\ AnswersOK(t, clearing)
  BY DEF KernelOK, StreamsOK, AnswersOK, SameStreams
<1>. QED  BY <1>1, <1>2 DEF KernelOK

\* Only the registrations change, and only open descriptors are registered.
LEMMA WatchKept ==
    ASSUME NEW s, NEW held, NEW clearing, KernelOK(s, held, clearing),
           NEW w \in [Watched -> WatchState], w[Listener].ev = "in",
           \A f \in Fds : w[f].on => Open(s, f)
    PROVE  /\ KernelOK([s EXCEPT !.watch = w], held, clearing)
           /\ SameConnections(s, [s EXCEPT !.watch = w]) /\ SameStreams(s, [s EXCEPT !.watch = w])
           /\ [s EXCEPT !.watch = w].watch = w
<1>1. s \in KernelType
  BY DEF KernelOK
<1>2. PICK t : t = [s EXCEPT !.watch = w]
  OBVIOUS
<1>3. t \in KernelType
  BY <1>1, <1>2 DEF KernelType, KernelOf
<1>4. SameConnections(s, t) /\ SameStreams(s, t) /\ t.watch = w
  BY <1>1, <1>2 DEF KernelType, KernelOf, SameConnections, SameStreams
<1>5. WatchOK(t)
  BY <1>4 DEF WatchOK, SameConnections, Open
<1>6. KernelOK(t, held, clearing)
  BY <1>3, <1>4, <1>5, KernelKept
<1>. QED  BY <1>2, <1>4, <1>6

\* epoll_wait forgets the edges it reports.
LEMMA ReportedOK ==
    ASSUME NEW s, NEW held, NEW clearing, KernelOK(s, held, clearing)
    PROVE  /\ KernelOK(Reported(s), held, clearing)
           /\ SameConnections(s, Reported(s)) /\ SameStreams(s, Reported(s))
           /\ \A f \in Watched : Reported(s).watch[f].on = s.watch[f].on
<1>1. s.watch \in [Watched -> WatchState]
  BY DEF KernelOK, KernelType, KernelOf
<1>2. PICK w : w = [f \in DOMAIN s.watch |-> IF f \in Reportable(s)
                        THEN [s.watch[f] EXCEPT !.edge = FALSE] ELSE s.watch[f]]
  OBVIOUS
<1>3. w \in [Watched -> WatchState] /\ \A f \in Watched : w[f].on = s.watch[f].on /\ w[f].ev = s.watch[f].ev
  BY <1>1, <1>2 DEF WatchState
<1>4. Reported(s) = [s EXCEPT !.watch = w]
  BY <1>2 DEF Reported
<1>5. w[Listener].ev = "in" /\ \A f \in Fds : w[f].on => Open(s, f)
  BY <1>3, FdFacts DEF KernelOK, WatchOK
<1>. QED  BY <1>3, <1>4, <1>5, WatchKept

\* An event on a descriptor makes an edge.
LEMMA StirOK ==
    ASSUME NEW s, NEW held, NEW clearing, KernelOK(s, held, clearing), NEW fs
    PROVE  /\ KernelOK(Stir(s, fs), held, clearing)
           /\ SameConnections(s, Stir(s, fs)) /\ SameStreams(s, Stir(s, fs))
           /\ \A f \in Watched : Stir(s, fs).watch[f].on = s.watch[f].on
<1>1. s.watch \in [Watched -> WatchState]
  BY DEF KernelOK, KernelType, KernelOf
<1>2. PICK w : w = [f \in DOMAIN s.watch |->
                        IF f \in fs /\ s.watch[f].on /\ s.watch[f].et /\ s.watch[f].ev = "in"
                        THEN [s.watch[f] EXCEPT !.edge = TRUE] ELSE s.watch[f]]
  OBVIOUS
<1>3. w \in [Watched -> WatchState] /\ \A f \in Watched : w[f].on = s.watch[f].on /\ w[f].ev = s.watch[f].ev
  BY <1>1, <1>2 DEF WatchState
<1>4. Stir(s, fs) = [s EXCEPT !.watch = w]
  BY <1>2 DEF Stir
<1>5. w[Listener].ev = "in" /\ \A f \in Fds : w[f].on => Open(s, f)
  BY <1>3, FdFacts DEF KernelOK, WatchOK
<1>. QED  BY <1>3, <1>4, <1>5, WatchKept

\* EPOLL_CTL_DEL
LEMMA UnwatchOK ==
    ASSUME NEW s, NEW held, NEW clearing, KernelOK(s, held, clearing), NEW f \in Fds
    PROVE  /\ KernelOK(Unwatch(s, f), held, clearing)
           /\ SameConnections(s, Unwatch(s, f)) /\ SameStreams(s, Unwatch(s, f))
           /\ ~Unwatch(s, f).watch[f].on
           /\ \A g \in Watched \ {f} : Unwatch(s, f).watch[g] = s.watch[g]
<1>1. s.watch \in [Watched -> WatchState] /\ s \in KernelType
  BY DEF KernelOK, KernelType, KernelOf
<1>2. PICK w : w = [s.watch EXCEPT ![f] = Off]
  OBVIOUS
<1>3. /\ w \in [Watched -> WatchState] /\ ~w[f].on
      /\ \A g \in Watched \ {f} : w[g] = s.watch[g]
  BY <1>1, <1>2, FdFacts DEF WatchState, Off
<1>4. Unwatch(s, f) = [s EXCEPT !.watch = w]
  BY <1>1, <1>2 DEF Unwatch, KernelType, KernelOf
<1>5. w[Listener].ev = "in" /\ \A g \in Fds : w[g].on => Open(s, g)
  BY <1>3, FdFacts DEF KernelOK, WatchOK
<1>. QED  BY <1>3, <1>4, <1>5, WatchKept

\* EPOLL_CTL_ADD and EPOLL_CTL_MOD
LEMMA WatchIsOK ==
    ASSUME NEW s, NEW held, NEW clearing, KernelOK(s, held, clearing), NEW f \in Fds, Open(s, f),
           NEW ev \in {"in", "out"}, NEW et \in BOOLEAN
    PROVE  /\ KernelOK(Watch(s, f, ev, et), held, clearing)
           /\ SameConnections(s, Watch(s, f, ev, et)) /\ SameStreams(s, Watch(s, f, ev, et))
           /\ Watch(s, f, ev, et).watch[f].on
           /\ \A g \in Watched \ {f} : Watch(s, f, ev, et).watch[g] = s.watch[g]
<1>1. s.watch \in [Watched -> WatchState] /\ s \in KernelType
  BY DEF KernelOK, KernelType, KernelOf
<1>2. PICK e \in BOOLEAN : e = (et /\ (ev = "out" \/ Readable(s, f)))
  OBVIOUS
<1>3. PICK w : w = [s.watch EXCEPT ![f] = [on |-> TRUE, ev |-> ev, et |-> et, edge |-> e]]
  OBVIOUS
<1>4. /\ w \in [Watched -> WatchState] /\ w[f].on
      /\ \A g \in Watched \ {f} : w[g] = s.watch[g]
  BY <1>1, <1>2, <1>3, FdFacts DEF WatchState
<1>5. Watch(s, f, ev, et) = [s EXCEPT !.watch = w]
  BY <1>1, <1>2, <1>3 DEF Watch, KernelType, KernelOf
<1>6. w[Listener].ev = "in" /\ \A g \in Fds : w[g].on => Open(s, g)
  BY <1>4, FdFacts DEF KernelOK, WatchOK
<1>. QED  BY <1>4, <1>5, <1>6, WatchKept

\* accept moves the first connection of the backlog to a free descriptor.
LEMMA AcceptOK ==
    ASSUME NEW s, NEW held, NEW clearing, KernelOK(s, held, clearing),
           s.backlog # <<>>, FreeFds(s) # {}
    PROVE  /\ KernelOK(Accept(s), held, clearing) /\ SameStreams(s, Accept(s))
           /\ FreeFd(s) \in Fds /\ ~Open(s, FreeFd(s))
           /\ Accept(s).desc = [s.desc EXCEPT ![FreeFd(s)] = Head(s.backlog)]
           /\ \A f \in Fds : Open(Accept(s), f) <=> f = FreeFd(s) \/ Open(s, f)
           /\ Accept(s).watch = s.watch
<1>0. s \in KernelType /\ ConnectionsOK(s) /\ WatchOK(s)
  BY DEF KernelOK
<1>1. PICK f0 \in Fds : f0 = FreeFd(s) /\ s.desc[f0] = Nobody
  BY FreeFdFacts
<1>2. s.backlog \in Seq(Clients) /\ s.desc \in [Fds -> Clients \cup {Nobody}]
  BY <1>0 DEF KernelType, KernelOf
<1>3. PICK n \in Nat \ {0} : n = Len(s.backlog)
  BY <1>2, EmptySeq
<1>4. PICK c \in Clients : c = Head(s.backlog) /\ c = s.backlog[1]
  BY <1>2, <1>3
<1>5. PICK b \in Seq(Clients) : b = Tail(s.backlog)
  <2>1. Tail(s.backlog) \in Seq(Clients)
    BY <1>2, HeadTailProperties
  <2>. QED  BY <2>1, Zenon
<1>6. DOMAIN b = 1..(n - 1) /\ \A i \in 1..(n - 1) : b[i] = s.backlog[i + 1]
  BY <1>2, <1>3, <1>5
<1>7. DOMAIN s.backlog = 1..n
  BY <1>2, <1>3
<1>8. PICK d \in [Fds -> Clients \cup {Nobody}] : d = [s.desc EXCEPT ![f0] = c]
  BY <1>1, <1>2
<1>9. d[f0] = c /\ \A f \in Fds \ {f0} : d[f] = s.desc[f]
  BY <1>2, <1>8
<1>10. PICK t : t = [s EXCEPT !.backlog = b, !.desc = d]
  OBVIOUS
<1>11. Accept(s) = t
  BY <1>0, <1>1, <1>4, <1>5, <1>8, <1>10 DEF Accept, KernelType, KernelOf
<1>12. t \in KernelType
  BY <1>0, <1>10 DEF KernelType, KernelOf
<1>13. SameStreams(s, t) /\ t.watch = s.watch /\ t.backlog = b /\ t.desc = d /\ t.came = s.came
  BY <1>0, <1>10 DEF KernelType, KernelOf, SameStreams
<1>14. c # Nobody
  BY SocketsAssumption
<1>15. \A f \in Fds : Open(t, f) <=> f = f0 \/ Open(s, f)
  BY <1>9, <1>13, <1>14 DEF Open
<1>16. ConnectionsOK(t)
  <2>1. 1 \in 1..n
    OBVIOUS
  <2>2. c \in s.came /\ \A f \in Fds : s.desc[f] # c
    BY <1>0, <1>4, <1>7, <2>1 DEF ConnectionsOK
  <2>3. ASSUME NEW f \in Fds, NEW g \in Fds, d[f] = d[g], f # g PROVE d[f] = Nobody
    BY <1>0, <1>9, <2>2, <2>3 DEF ConnectionsOK
  <2>4. \A f \in Fds : Open(t, f) => d[f] \in s.came
    BY <1>0, <1>9, <1>15, <2>2 DEF ConnectionsOK
  <2>5. ASSUME NEW i \in 1..(n - 1)
        PROVE  /\ b[i] \in s.came
               /\ \A j \in 1..(n - 1) : b[i] = b[j] => i = j
               /\ \A f \in Fds : d[f] # b[i]
    <3>1. i + 1 \in 1..n /\ i + 1 # 1 /\ b[i] = s.backlog[i + 1]
      BY <1>6
    <3>2. b[i] \in s.came /\ \A f \in Fds : s.desc[f] # b[i]
      BY <1>0, <1>7, <3>1 DEF ConnectionsOK
    <3>3. c # b[i]
      BY <1>0, <1>4, <1>7, <2>1, <3>1 DEF ConnectionsOK
    <3>4. ASSUME NEW j \in 1..(n - 1), b[i] = b[j] PROVE i = j
      <4>1. j + 1 \in 1..n /\ b[j] = s.backlog[j + 1]
        BY <1>6
      <4>2. i + 1 = j + 1
        BY <1>0, <1>7, <3>1, <3>4, <4>1 DEF ConnectionsOK
      <4>. QED  BY <4>2
    <3>. QED  BY <1>9, <3>2, <3>3, <3>4
  <2>. QED  BY <1>6, <1>13, <2>3, <2>4, <2>5 DEF ConnectionsOK
<1>17. WatchOK(t)
  BY <1>0, <1>13, <1>15 DEF WatchOK
<1>18. StreamsOK(t, held) /\ AnswersOK(t, clearing)
  BY <1>13 DEF KernelOK, StreamsOK, AnswersOK, SameStreams
<1>19. ~Open(s, f0)
  BY <1>1 DEF Open
<1>. QED  BY <1>1, <1>4, <1>8, <1>11, <1>12, <1>13, <1>15, <1>16, <1>17, <1>18, <1>19 DEF KernelOK

\* close
LEMMA CloseOK ==
    ASSUME NEW s, NEW held, NEW clearing, KernelOK(s, held, clearing), NEW f \in Fds, Open(s, f)
    PROVE  /\ KernelOK(Close(s, f), held, clearing) /\ SameStreams(s, Close(s, f))
           /\ Close(s, f).desc = [s.desc EXCEPT ![f] = Nobody]
           /\ \A g \in Fds : Open(Close(s, f), g) <=> g # f /\ Open(s, g)
           /\ Close(s, f).backlog = s.backlog
<1>0. s \in KernelType /\ ConnectionsOK(s) /\ WatchOK(s)
  BY DEF KernelOK
<1>1. s.desc \in [Fds -> Clients \cup {Nobody}] /\ s.watch \in [Watched -> WatchState]
      /\ s.closed \subseteq Clients
  BY <1>0 DEF KernelType, KernelOf
<1>2. PICK cl \in SUBSET Clients : cl = s.closed \cup {s.desc[f]}
  BY <1>1 DEF Open
<1>3. PICK d \in [Fds -> Clients \cup {Nobody}] : d = [s.desc EXCEPT ![f] = Nobody]
  BY <1>1
<1>4. PICK w \in [Watched -> WatchState] : w = [s.watch EXCEPT ![f] = Off]
  BY <1>1 DEF WatchState, Off
<1>5. d[f] = Nobody /\ \A g \in Fds \ {f} : d[g] = s.desc[g]
  BY <1>1, <1>3
<1>6. ~w[f].on /\ \A g \in Watched \ {f} : w[g] = s.watch[g]
  BY <1>1, <1>4, FdFacts DEF Off
<1>7. PICK t : t = [s EXCEPT !.desc = d, !.closed = cl, !.watch = w]
  OBVIOUS
<1>8. Close(s, f) = t
  BY <1>0, <1>2, <1>3, <1>4, <1>7 DEF Close, KernelType, KernelOf
<1>9. t \in KernelType
  BY <1>0, <1>7 DEF KernelType, KernelOf
<1>10. SameStreams(s, t) /\ t.watch = w /\ t.backlog = s.backlog /\ t.desc = d /\ t.came = s.came
  BY <1>0, <1>7 DEF KernelType, KernelOf, SameStreams
<1>11. \A g \in Fds : Open(t, g) <=> g # f /\ Open(s, g)
  BY <1>5, <1>10 DEF Open
<1>12. ConnectionsOK(t)
  <2>1. ASSUME NEW g \in Fds, NEW h \in Fds, d[g] = d[h], g # h PROVE d[g] = Nobody
    BY <1>0, <1>5, <2>1 DEF ConnectionsOK
  <2>2. \A g \in Fds : Open(t, g) => d[g] \in s.came
    BY <1>0, <1>5, <1>11 DEF ConnectionsOK
  <2>3. ASSUME NEW i \in DOMAIN s.backlog PROVE \A g \in Fds : d[g] # s.backlog[i]
    <3>1. s.backlog \in Seq(Clients)
      BY <1>0 DEF KernelType, KernelOf
    <3>2. s.backlog[i] \in Clients
      BY <3>1
    <3>3. s.backlog[i] # Nobody
      BY <3>2, SocketsAssumption
    <3>. QED  BY <1>0, <1>5, <3>3 DEF ConnectionsOK
  <2>. QED  BY <1>0, <1>10, <2>1, <2>2, <2>3 DEF ConnectionsOK
<1>13. WatchOK(t)
  BY <1>0, <1>6, <1>10, <1>11, FdFacts DEF WatchOK
<1>14. StreamsOK(t, held) /\ AnswersOK(t, clearing)
  BY <1>10 DEF KernelOK, StreamsOK, AnswersOK, SameStreams
<1>. QED  BY <1>3, <1>8, <1>9, <1>10, <1>11, <1>12, <1>13, <1>14 DEF KernelOK

\* read at the end, or after a reset: nothing of the stream changes.
LEMMA ReadEndOK ==
    ASSUME NEW s, NEW held, NEW clearing, KernelOK(s, held, clearing), NEW f \in Fds, Open(s, f),
           Result(s, f) # "data"
    PROVE  /\ KernelOK(Read(s, f), held, clearing) /\ SameConnections(s, Read(s, f))
           /\ Read(s, f).out = s.out /\ Read(s, f).watch = s.watch
<1>0. s \in KernelType
  BY DEF KernelOK
<1>1. PICK c \in Clients : c = s.desc[f]
  BY <1>0 DEF KernelType, KernelOf, Open
<1>2. CASE Result(s, f) # "error"
  <2>1. Read(s, f) = s
    BY <1>2 DEF Read
  <2>. QED  BY <2>1 DEF SameConnections
<1>3. CASE Result(s, f) = "error"
  <2>1. s.ended[c] = "reset"
    BY <1>1, <1>3 DEF Result
  <2>2. s.ended \in [Clients -> {"open", "fin", "reset", "told"}]
    BY <1>0 DEF KernelType, KernelOf
  <2>3. PICK e \in [Clients -> {"open", "fin", "reset", "told"}] : e = [s.ended EXCEPT ![c] = "told"]
    BY <2>2
  <2>4. e[c] = "told" /\ \A x \in Clients \ {c} : e[x] = s.ended[x]
    BY <2>2, <2>3
  <2>5. PICK t : t = [s EXCEPT !.ended = e]
    OBVIOUS
  <2>6. Read(s, f) = t
    BY <1>0, <1>1, <1>3, <2>3, <2>5 DEF Read, KernelType, KernelOf
  <2>7. t \in KernelType
    BY <1>0, <2>5 DEF KernelType, KernelOf
  <2>8. /\ SameConnections(s, t) /\ t.out = s.out /\ t.watch = s.watch /\ t.sent = s.sent
        /\ t.inq = s.inq /\ t.ended = e
    BY <1>0, <2>5 DEF KernelType, KernelOf, SameConnections
  <2>9. ConnectionsOK(t) /\ WatchOK(t) /\ AnswersOK(t, clearing)
    BY <2>8 DEF KernelOK, ConnectionsOK, WatchOK, AnswersOK, SameConnections, Open
  <2>10. StreamsOK(t, held)
    <3>1. \A x \in Clients : t.ended[x] = "open" => s.ended[x] = "open"
      BY <2>4, <2>8
    <3>. QED  BY <2>8, <3>1 DEF KernelOK, StreamsOK
  <2>. QED  BY <2>6, <2>7, <2>8, <2>9, <2>10 DEF KernelOK
<1>. QED  BY <1>2, <1>3

\* held with the message of c that is read and not answered yet.
TakenFor(held, c) == [held EXCEPT ![c] = 1]

\* read of a message, which is the next one to be answered, and is then held.
LEMMA ReadDataOK ==
    ASSUME NEW s, NEW held \in [Clients -> 0..1], NEW clearing, KernelOK(s, held, clearing),
           NEW f \in Fds, Open(s, f), Result(s, f) = "data", held[s.desc[f]] = 0
    PROVE  /\ s.desc[f] \in Clients /\ s.inq[s.desc[f]] # <<>>
           /\ Head(s.inq[s.desc[f]]) = Len(s.out[s.desc[f]]) + 1
           /\ KernelOK(Read(s, f), TakenFor(held, s.desc[f]), clearing)
           /\ SameConnections(s, Read(s, f))
           /\ Read(s, f).out = s.out /\ Read(s, f).watch = s.watch
<1>0. s \in KernelType
  BY DEF KernelOK
<1>1. PICK c \in Clients : c = s.desc[f]
  BY <1>0 DEF KernelType, KernelOf, Open
<1>2. s.inq[c] # <<>>
  BY <1>1 DEF Result
<1>3. s.inq \in [Clients -> Seq(Nat)] /\ s.out \in [Clients -> Seq(Answer)] /\ s.sent \in [Clients -> Nat]
  BY <1>0 DEF KernelType, KernelOf
<1>4. PICK q \in Seq(Nat) : q = s.inq[c]
  BY <1>3
<1>5. PICK n \in Nat \ {0} : n = Len(q)
  BY <1>2, <1>4, EmptySeq
<1>6. PICK m \in Nat : m = Len(s.out[c])
  <2>1. s.out[c] \in Seq(Answer)
    BY <1>3
  <2>. QED  BY <2>1, LenProperties
<1>7. PICK r \in Seq(Nat) : r = Tail(q)
  <2>1. Tail(q) \in Seq(Nat)
    BY <1>2, <1>4, HeadTailProperties
  <2>. QED  BY <2>1, Zenon
<1>8. Len(r) = n - 1
  BY <1>2, <1>4, <1>5, <1>7, HeadTailProperties
<1>9. \A i \in 1..(n - 1) : r[i] = q[i + 1]
  BY <1>2, <1>4, <1>5, <1>7, HeadTailProperties
<1>10. \A i \in 1..n : q[i] = m + 0 + i
  BY <1>1, <1>4, <1>5, <1>6 DEF KernelOK, StreamsOK
<1>11. Head(q) = m + 1
  <2>1. 1 \in 1..n
    OBVIOUS
  <2>2. q[1] = m + 0 + 1
    BY <1>10, <2>1
  <2>3. Head(q) = q[1]
    BY <1>2, <1>4
  <2>. QED  BY <2>2, <2>3
<1>12. \A i \in 1..(n - 1) : r[i] = m + 1 + i
  <2> SUFFICES ASSUME NEW i \in 1..(n - 1) PROVE r[i] = m + 1 + i
    OBVIOUS
  <2>1. i + 1 \in 1..n
    OBVIOUS
  <2>2. q[i + 1] = m + 0 + (i + 1)
    BY <1>10, <2>1
  <2>. QED  BY <1>9, <2>2
<1>13. PICK iq \in [Clients -> Seq(Nat)] : iq = [s.inq EXCEPT ![c] = r]
  BY <1>3
<1>14. iq[c] = r /\ \A x \in Clients \ {c} : iq[x] = s.inq[x]
  BY <1>3, <1>13
<1>15. PICK t : t = [s EXCEPT !.inq = iq]
  OBVIOUS
<1>16. Read(s, f) = t
  BY <1>0, <1>1, <1>4, <1>7, <1>13, <1>15 DEF Read, KernelType, KernelOf
<1>17. t \in KernelType
  BY <1>0, <1>15 DEF KernelType, KernelOf
<1>18. /\ SameConnections(s, t) /\ t.out = s.out /\ t.watch = s.watch /\ t.sent = s.sent
       /\ t.inq = iq /\ t.ended = s.ended
  BY <1>0, <1>15 DEF KernelType, KernelOf, SameConnections
<1>19. ConnectionsOK(t) /\ WatchOK(t) /\ AnswersOK(t, clearing)
  BY <1>18 DEF KernelOK, ConnectionsOK, WatchOK, AnswersOK, SameConnections, Open
<1>20. PICK h : h = [held EXCEPT ![c] = 1]
  OBVIOUS
<1>21. h[c] = 1 /\ \A x \in Clients \ {c} : h[x] = held[x]
  BY <1>20
<1>22. ASSUME NEW x \in Clients
       PROVE  /\ \A i \in 1..Len(iq[x]) : iq[x][i] = Len(s.out[x]) + h[x] + i
              /\ s.ended[x] = "open" => s.sent[x] = Len(s.out[x]) + h[x] + Len(iq[x])
  <2>1. CASE x = c
    <3>1. \A i \in 1..Len(iq[c]) : iq[c][i] = Len(s.out[c]) + h[c] + i
      BY <1>6, <1>8, <1>12, <1>14, <1>21
    <3>2. s.ended[c] = "open" => s.sent[c] = Len(s.out[c]) + h[c] + Len(iq[c])
      <4>1. s.ended[c] = "open" => s.sent[c] = m + 0 + n
        BY <1>1, <1>4, <1>5, <1>6 DEF KernelOK, StreamsOK
      <4>2. m + 0 + n = m + 1 + (n - 1)
        OBVIOUS
      <4>. QED  BY <1>6, <1>8, <1>14, <1>21, <4>1, <4>2, Zenon
    <3>. QED  BY <2>1, <3>1, <3>2
  <2>2. CASE x # c
    <3>1. /\ \A i \in 1..Len(s.inq[x]) : s.inq[x][i] = Len(s.out[x]) + held[x] + i
          /\ s.ended[x] = "open" => s.sent[x] = Len(s.out[x]) + held[x] + Len(s.inq[x])
      BY DEF KernelOK, StreamsOK
    <3>2. iq[x] = s.inq[x] /\ h[x] = held[x]
      BY <1>14, <1>21, <2>2
    <3>. QED  BY <3>1, <3>2, Zenon
  <2>. QED  BY <2>1, <2>2
<1>23. StreamsOK(t, h)
  BY <1>18, <1>22 DEF StreamsOK
<1>24. KernelOK(t, h, clearing)
  BY <1>17, <1>19, <1>23 DEF KernelOK
<1>. QED  BY <1>1, <1>2, <1>4, <1>6, <1>11, <1>16, <1>18, <1>20, <1>24 DEF TakenFor

\* f is open, with a message to read, and none of its client is held.
ReadingOf(s, held, clearing, f) ==
    /\ held \in [Clients -> 0..1] /\ KernelOK(s, held, clearing)
    /\ f \in Fds /\ Open(s, f) /\ Result(s, f) = "data" /\ held[s.desc[f]] = 0

\* ReadDataOK with its hypotheses in one.
LEMMA ReadingOK ==
    ASSUME NEW s, NEW held, NEW clearing, NEW f, ReadingOf(s, held, clearing, f)
    PROVE  /\ Head(s.inq[s.desc[f]]) = Len(s.out[s.desc[f]]) + 1
           /\ KernelOK(Read(s, f), TakenFor(held, s.desc[f]), clearing)
           /\ SameConnections(s, Read(s, f))
           /\ Read(s, f).out = s.out /\ Read(s, f).watch = s.watch
BY ReadDataOK DEF ReadingOf

\* The answer to the message that is held.
AnswerTo(s, f, clean) ==
    [from |-> s.desc[f], msg |-> Len(s.out[s.desc[f]]) + 1, clean |-> clean]

\* The message of c that was held has been answered.
AnsweredFor(held, c) == [held EXCEPT ![c] = 0]

\* f is open, and the message of its client is held.
Holding(s, held, clearing, f, clean) ==
    /\ held \in [Clients -> 0..1] /\ KernelOK(s, held, clearing)
    /\ f \in Fds /\ Open(s, f) /\ held[s.desc[f]] = 1
    /\ clean \in BOOLEAN /\ (clearing => clean)

\* write of the answer to the message that is held.
LEMMA WriteHeldOK ==
    ASSUME NEW s, NEW held, NEW clearing, NEW f, NEW clean, Holding(s, held, clearing, f, clean)
    PROVE  /\ KernelOK(Write(s, f, AnswerTo(s, f, clean)), AnsweredFor(held, s.desc[f]), clearing)
           /\ SameConnections(s, Write(s, f, AnswerTo(s, f, clean)))
           /\ Write(s, f, AnswerTo(s, f, clean)).watch = s.watch
           /\ \A x \in Clients \ {s.desc[f]} : Write(s, f, AnswerTo(s, f, clean)).out[x] = s.out[x]
<1>. USE DEF Holding, AnsweredFor
<1>b. PICK c \in Clients : c = s.desc[f] /\ held[c] = 1
  BY DEF KernelOK, KernelType, KernelOf, Open
<1>0. s \in KernelType
  BY DEF KernelOK
<1>a. PICK a : a = AnswerTo(s, f, clean)
  OBVIOUS
<1>2. s.inq \in [Clients -> Seq(Nat)] /\ s.out \in [Clients -> Seq(Answer)] /\ s.sent \in [Clients -> Nat]
  BY <1>0 DEF KernelType, KernelOf
<1>3. PICK o \in Seq(Answer) : o = s.out[c]
  BY <1>2
<1>4. PICK m \in Nat : m = Len(o)
  BY LenProperties
<1>5. a \in Answer /\ a.from = c /\ a.msg = m + 1 /\ a.clean = clean
  BY <1>3, <1>4, <1>a, <1>b DEF Answer, AnswerTo
<1>6. PICK p \in Seq(Answer) : p = Append(o, a)
  BY <1>5, AppendProperties
<1>7. Len(p) = m + 1
  BY <1>4, <1>5, <1>6, AppendProperties
<1>8. (\A i \in 1..m : p[i] = o[i]) /\ p[m + 1] = a
  BY <1>4, <1>5, <1>6, AppendProperties
<1>9. PICK out \in [Clients -> Seq(Answer)] : out = [s.out EXCEPT ![c] = p]
  BY <1>2
<1>10. out[c] = p /\ \A x \in Clients \ {c} : out[x] = s.out[x]
  BY <1>2, <1>9
<1>11. PICK t : t = [s EXCEPT !.out = out]
  OBVIOUS
<1>12. Write(s, f, a) = t
  BY <1>b, <1>0, <1>3, <1>6, <1>9, <1>11 DEF Write, KernelType, KernelOf
<1>13. t \in KernelType
  BY <1>0, <1>11 DEF KernelType, KernelOf
<1>14. /\ SameConnections(s, t) /\ t.out = out /\ t.watch = s.watch /\ t.sent = s.sent
       /\ t.inq = s.inq /\ t.ended = s.ended
  BY <1>0, <1>11 DEF KernelType, KernelOf, SameConnections
<1>15. ConnectionsOK(t) /\ WatchOK(t)
  BY <1>14 DEF KernelOK, ConnectionsOK, WatchOK, SameConnections, Open
<1>16. AnswersOK(t, clearing)
  <2>1. ASSUME NEW x \in Clients, NEW i \in 1..Len(out[x])
        PROVE  out[x][i].from = x /\ out[x][i].msg = i /\ (clearing => out[x][i].clean)
    <3>1. CASE x # c
      <4>1. out[x] = s.out[x]
        BY <1>10, <3>1
      <4>2. \A j \in 1..Len(s.out[x]) :
               s.out[x][j].from = x /\ s.out[x][j].msg = j /\ (clearing => s.out[x][j].clean)
        BY Zenon DEF KernelOK, AnswersOK
      <4>. QED  BY <2>1, <4>1, <4>2, Zenon
    <3>2. CASE x = c /\ i = m + 1
      <4>1. out[x][i] = a
        BY <1>8, <1>10, <3>2
      <4>. QED  BY <1>5, <3>2, <4>1, Zenon
    <3>3. CASE x = c /\ i # m + 1
      <4>1. i \in 1..m
        BY <1>7, <1>10, <3>3
      <4>2. o[i].from = c /\ o[i].msg = i /\ (clearing => o[i].clean)
        BY <1>3, <1>4, <4>1 DEF KernelOK, AnswersOK
      <4>. QED  BY <1>8, <1>10, <3>3, <4>1, <4>2
    <3>. QED  BY <3>1, <3>2, <3>3
  <2>. QED  BY <1>14, <2>1 DEF AnswersOK
<1>17. PICK h : h = [held EXCEPT ![c] = 0]
  OBVIOUS
<1>18. h[c] = 0 /\ \A x \in Clients \ {c} : h[x] = held[x]
  BY <1>17
<1>19. ASSUME NEW x \in Clients
       PROVE  /\ \A i \in 1..Len(s.inq[x]) : s.inq[x][i] = Len(out[x]) + h[x] + i
              /\ s.ended[x] = "open" => s.sent[x] = Len(out[x]) + h[x] + Len(s.inq[x])
  <2>1. CASE x = c
    <3>1. m + 1 = m + 1 + 0
      OBVIOUS
    <3>2. /\ \A i \in 1..Len(s.inq[c]) : s.inq[c][i] = m + 1 + i
          /\ s.ended[c] = "open" => s.sent[c] = m + 1 + Len(s.inq[c])
      BY <1>3, <1>4, <1>b DEF KernelOK, StreamsOK
    <3>. QED  BY <1>7, <1>10, <1>18, <2>1, <3>1, <3>2, Zenon
  <2>2. CASE x # c
    <3>1. /\ \A i \in 1..Len(s.inq[x]) : s.inq[x][i] = Len(s.out[x]) + held[x] + i
          /\ s.ended[x] = "open" => s.sent[x] = Len(s.out[x]) + held[x] + Len(s.inq[x])
      BY DEF KernelOK, StreamsOK
    <3>2. out[x] = s.out[x] /\ h[x] = held[x]
      BY <1>10, <1>18, <2>2
    <3>. QED  BY <3>1, <3>2, Zenon
  <2>. QED  BY <2>1, <2>2
<1>20. StreamsOK(t, h)
  BY <1>14, <1>19 DEF StreamsOK
<1>21. KernelOK(t, h, clearing)
  BY <1>13, <1>15, <1>16, <1>20 DEF KernelOK
<1>. QED  BY <1>10, <1>12, <1>14, <1>17, <1>21, <1>a, <1>b

\* read and write: the client gets its next message back.
LEMMA EchoOK ==
    ASSUME NEW s, NEW held \in [Clients -> 0..1], NEW clearing, KernelOK(s, held, clearing),
           NEW f \in Fds, Open(s, f), Result(s, f) = "data", held[s.desc[f]] = 0,
           NEW clean \in BOOLEAN, clearing => clean
    PROVE  /\ KernelOK(Echo(s, f, clean), held, clearing)
           /\ SameConnections(s, Echo(s, f, clean)) /\ Echo(s, f, clean).watch = s.watch
<1>1. PICK c \in Clients : c = s.desc[f]
  BY DEF KernelOK, KernelType, KernelOf, Open
<1>2. PICK t : t = Read(s, f)
  OBVIOUS
<1>3. PICK h \in [Clients -> 0..1] : h = [held EXCEPT ![c] = 1]
  <2>1. 1 \in 0..1
    OBVIOUS
  <2>2. [held EXCEPT ![c] = 1] \in [Clients -> 0..1]
    BY <2>1
  <2>. QED  BY <2>2, Zenon
<1>4. /\ Head(s.inq[c]) = Len(s.out[c]) + 1
      /\ KernelOK(t, h, clearing) /\ SameConnections(s, t)
      /\ t.out = s.out /\ t.watch = s.watch
  <2>1. /\ Head(s.inq[s.desc[f]]) = Len(s.out[s.desc[f]]) + 1
        /\ KernelOK(Read(s, f), TakenFor(held, s.desc[f]), clearing)
        /\ SameConnections(s, Read(s, f))
        /\ Read(s, f).out = s.out /\ Read(s, f).watch = s.watch
    BY ReadDataOK
  <2>. QED  BY <1>1, <1>2, <1>3, <2>1, Zenon DEF TakenFor
<1>5. t.desc[f] = c /\ Open(t, f) /\ h[c] = 1
  BY <1>1, <1>3, <1>4 DEF SameConnections, Open
<1>6. AnswerTo(t, f, clean) = Reply(s, f, clean)
  BY <1>1, <1>4, <1>5 DEF Reply, AnswerTo
<1>7. PICK u : /\ u = Write(t, f, AnswerTo(t, f, clean))
               /\ KernelOK(u, AnsweredFor(h, c), clearing)
               /\ SameConnections(t, u) /\ u.watch = t.watch
               /\ \A x \in Clients \ {c} : u.out[x] = t.out[x]
  <2>1. Holding(t, h, clearing, f, clean)
    BY <1>4, <1>5 DEF Holding
  <2>2. /\ KernelOK(Write(t, f, AnswerTo(t, f, clean)), AnsweredFor(h, t.desc[f]), clearing)
        /\ SameConnections(t, Write(t, f, AnswerTo(t, f, clean)))
        /\ Write(t, f, AnswerTo(t, f, clean)).watch = t.watch
        /\ \A x \in Clients \ {t.desc[f]} : Write(t, f, AnswerTo(t, f, clean)).out[x] = t.out[x]
    BY <2>1, WriteHeldOK
  <2>. QED  BY <1>5, <2>2
<1>8. AnsweredFor(h, c) = held
  BY <1>1, <1>3 DEF AnsweredFor
<1>9. Echo(s, f, clean) = u
  BY <1>2, <1>6, <1>7 DEF Echo
<1>. QED  BY <1>4, <1>7, <1>8, <1>9 DEF SameConnections

-----------------------------------------------------------------------------
(* The clients.                                                            *)

\* The kernel when c connects, sends, and ends its connection, before the event.
Connecting(s, c) == [s EXCEPT !.came = @ \cup {c}, !.backlog = Append(@, c)]
Sending(s, c) == [s EXCEPT !.sent[c] = @ + 1, !.inq[c] = Append(@, s.sent[c] + 1)]
Ending(s, c, how, iq) == [s EXCEPT !.ended[c] = how, !.inq = iq]

\* A new connection goes into the backlog.
LEMMA ConnectOK ==
    ASSUME NEW s, NEW held, NEW clearing, KernelOK(s, held, clearing), NEW c \in Clients, c \notin s.came
    PROVE  /\ KernelOK(Connecting(s, c), held, clearing) /\ SameStreams(s, Connecting(s, c))
           /\ Connecting(s, c).desc = s.desc /\ Connecting(s, c).backlog # <<>>
           /\ Connecting(s, c).watch = s.watch
<1>0. s \in KernelType /\ ConnectionsOK(s)
  BY DEF KernelOK
<1>1. PICK b \in Seq(Clients) : b = s.backlog
  BY <1>0 DEF KernelType, KernelOf
<1>2. PICK n \in Nat : n = Len(b)
  BY LenProperties
<1>3. PICK p \in Seq(Clients) : p = Append(b, c)
  BY AppendProperties
<1>4. DOMAIN p = 1..(n + 1) /\ DOMAIN b = 1..n /\ p # <<>>
  BY <1>2, <1>3
<1>5. (\A i \in 1..n : p[i] = b[i]) /\ p[n + 1] = c
  BY <1>2, <1>3, AppendProperties
<1>6. PICK cm \in SUBSET Clients : cm = s.came \cup {c}
  BY <1>0 DEF KernelType, KernelOf
<1>7. PICK t : t = [s EXCEPT !.came = cm, !.backlog = p]
  OBVIOUS
<1>t. Connecting(s, c) = t
  BY <1>0, <1>1, <1>3, <1>6, <1>7 DEF KernelType, KernelOf, Connecting
<1>8. t \in KernelType
  BY <1>0, <1>7 DEF KernelType, KernelOf
<1>9. /\ SameStreams(s, t) /\ t.desc = s.desc /\ t.watch = s.watch /\ t.backlog = p /\ t.came = cm
  BY <1>0, <1>7 DEF KernelType, KernelOf, SameStreams
<1>10. ConnectionsOK(t)
  <2>1. \A f, g \in Fds : s.desc[f] = s.desc[g] /\ f # g => s.desc[f] = Nobody
    BY <1>0 DEF ConnectionsOK
  <2>2. \A f \in Fds : Open(s, f) => s.desc[f] \in cm
    BY <1>0, <1>6 DEF ConnectionsOK
  <2>3. \A f \in Fds : s.desc[f] # c
    BY <1>0, SocketsAssumption DEF ConnectionsOK, Open
  <2>4. \A i \in 1..n : b[i] \in s.came /\ b[i] # c /\ \A f \in Fds : s.desc[f] # b[i]
    BY <1>0, <1>1, <1>4 DEF ConnectionsOK
  <2>5. \A i, j \in 1..n : b[i] = b[j] => i = j
    BY <1>0, <1>1, <1>4 DEF ConnectionsOK
  <2>6. \A i \in 1..(n + 1) : i = n + 1 \/ i \in 1..n
    OBVIOUS
  <2>7. \A i \in 1..(n + 1) : p[i] \in cm /\ \A f \in Fds : s.desc[f] # p[i]
    BY <1>5, <1>6, <2>3, <2>4, <2>6
  <2>8. \A i, j \in 1..(n + 1) : p[i] = p[j] => i = j
    BY <1>5, <2>4, <2>5, <2>6
  <2>. QED  BY <1>4, <1>9, <2>1, <2>2, <2>7, <2>8 DEF ConnectionsOK, Open
<1>11. StreamsOK(t, held) /\ AnswersOK(t, clearing)
  BY <1>9 DEF KernelOK, StreamsOK, AnswersOK, SameStreams
<1>12. WatchOK(t)
  BY <1>9 DEF KernelOK, WatchOK, Open
<1>. QED  BY <1>4, <1>8, <1>9, <1>10, <1>11, <1>12, <1>t DEF KernelOK

\* A message is put behind those that are unread.
LEMMA SendOK ==
    ASSUME NEW s, NEW held \in [Clients -> 0..1], NEW clearing, KernelOK(s, held, clearing),
           NEW c \in Clients, s.ended[c] = "open"
    PROVE  /\ KernelOK(Sending(s, c), held, clearing) /\ SameConnections(s, Sending(s, c))
           /\ Sending(s, c).watch = s.watch /\ Sending(s, c).out = s.out
<1>0. s \in KernelType
  BY DEF KernelOK
<1>1. s.inq \in [Clients -> Seq(Nat)] /\ s.sent \in [Clients -> Nat] /\ s.out \in [Clients -> Seq(Answer)]
  BY <1>0 DEF KernelType, KernelOf
<1>2. PICK q \in Seq(Nat), x \in Nat : q = s.inq[c] /\ x = s.sent[c]
  BY <1>1
<1>3. PICK n \in Nat : n = Len(q)
  BY LenProperties
<1>4. PICK m \in Nat : m = Len(s.out[c])
  <2>1. s.out[c] \in Seq(Answer)
    BY <1>1
  <2>. QED  BY <2>1, LenProperties
<1>5. PICK h \in 0..1 : h = held[c]
  OBVIOUS
<1>6. x = m + h + n
  BY <1>2, <1>3, <1>4, <1>5 DEF KernelOK, StreamsOK
<1>7. PICK p \in Seq(Nat) : p = Append(q, x + 1)
  <2>1. x + 1 \in Nat
    OBVIOUS
  <2>2. Append(q, x + 1) \in Seq(Nat)
    BY <2>1, AppendProperties
  <2>. QED  BY <2>2, Zenon
<1>8. Len(p) = n + 1
  BY <1>3, <1>7, AppendProperties
<1>9. (\A i \in 1..n : p[i] = q[i]) /\ p[n + 1] = x + 1
  BY <1>3, <1>7, AppendProperties
<1>10. \A i \in 1..n : q[i] = m + h + i
  BY <1>2, <1>3, <1>4, <1>5 DEF KernelOK, StreamsOK
<1>11. \A i \in 1..(n + 1) : p[i] = m + h + i
  <2> SUFFICES ASSUME NEW i \in 1..(n + 1) PROVE p[i] = m + h + i
    OBVIOUS
  <2>1. CASE i = n + 1
    BY <1>6, <1>9, <2>1
  <2>2. CASE i # n + 1
    <3>1. i \in 1..n
      BY <2>2
    <3>. QED  BY <1>9, <1>10, <3>1
  <2>. QED  BY <2>1, <2>2
<1>12. PICK iq \in [Clients -> Seq(Nat)] : iq = [s.inq EXCEPT ![c] = p]
  BY <1>1
<1>13. PICK st \in [Clients -> Nat] : st = [s.sent EXCEPT ![c] = x + 1]
  <2>1. x + 1 \in Nat
    OBVIOUS
  <2>2. [s.sent EXCEPT ![c] = x + 1] \in [Clients -> Nat]
    BY <1>1, <2>1
  <2>. QED  BY <2>2, Zenon
<1>14. /\ iq[c] = p /\ st[c] = x + 1
       /\ \A y \in Clients \ {c} : iq[y] = s.inq[y] /\ st[y] = s.sent[y]
  BY <1>1, <1>12, <1>13
<1>15. PICK t : t = [s EXCEPT !.sent = st, !.inq = iq]
  OBVIOUS
<1>16. t \in KernelType
  BY <1>0, <1>15 DEF KernelType, KernelOf
<1>17. /\ SameConnections(s, t) /\ t.out = s.out /\ t.watch = s.watch /\ t.sent = st
       /\ t.inq = iq /\ t.ended = s.ended
  BY <1>0, <1>15 DEF KernelType, KernelOf, SameConnections
<1>18. ConnectionsOK(t) /\ WatchOK(t) /\ AnswersOK(t, clearing)
  BY <1>17 DEF KernelOK, ConnectionsOK, WatchOK, AnswersOK, SameConnections, Open
<1>19. ASSUME NEW y \in Clients
       PROVE  /\ \A i \in 1..Len(iq[y]) : iq[y][i] = Len(s.out[y]) + held[y] + i
              /\ s.ended[y] = "open" => st[y] = Len(s.out[y]) + held[y] + Len(iq[y])
  <2>1. CASE y = c
    <3>1. x + 1 = m + h + (n + 1)
      <4>1. h \in Int
        OBVIOUS
      <4>. QED  BY <1>6, <4>1
    <3>2. st[c] = Len(s.out[c]) + held[c] + Len(iq[c])
      BY <1>4, <1>5, <1>8, <1>14, <3>1, Zenon
    <3>3. \A i \in 1..Len(iq[c]) : iq[c][i] = Len(s.out[c]) + held[c] + i
      BY <1>4, <1>5, <1>8, <1>11, <1>14, Zenon
    <3>. QED  BY <2>1, <3>2, <3>3
  <2>2. CASE y # c
    <3>1. /\ \A i \in 1..Len(s.inq[y]) : s.inq[y][i] = Len(s.out[y]) + held[y] + i
          /\ s.ended[y] = "open" => s.sent[y] = Len(s.out[y]) + held[y] + Len(s.inq[y])
      BY DEF KernelOK, StreamsOK
    <3>2. iq[y] = s.inq[y] /\ st[y] = s.sent[y]
      BY <1>14, <2>2
    <3>. QED  BY <3>1, <3>2, Zenon
  <2>. QED  BY <2>1, <2>2
<1>20. StreamsOK(t, held)
  BY <1>17, <1>19 DEF StreamsOK
<1>21. Sending(s, c) = t
  BY <1>0, <1>2, <1>7, <1>12, <1>13, <1>15 DEF KernelType, KernelOf, Sending
<1>. QED  BY <1>16, <1>17, <1>18, <1>20, <1>21 DEF KernelOK

\* A client that closes, or resets, its connection sends nothing more.
LEMMA EndOK ==
    ASSUME NEW s, NEW held, NEW clearing, KernelOK(s, held, clearing),
           NEW c \in Clients, NEW how \in {"fin", "reset"}, NEW iq \in [Clients -> Seq(Nat)],
           \A x \in Clients : iq[x] = s.inq[x] \/ iq[x] = <<>>,
           \A x \in Clients \ {c} : iq[x] = s.inq[x]
    PROVE  /\ KernelOK(Ending(s, c, how, iq), held, clearing)
           /\ SameConnections(s, Ending(s, c, how, iq))
           /\ Ending(s, c, how, iq).watch = s.watch /\ Ending(s, c, how, iq).out = s.out
<1>0. s \in KernelType
  BY DEF KernelOK
<1>1. s.ended \in [Clients -> {"open", "fin", "reset", "told"}]
  BY <1>0 DEF KernelType, KernelOf
<1>2. PICK e \in [Clients -> {"open", "fin", "reset", "told"}] : e = [s.ended EXCEPT ![c] = how]
  BY <1>1
<1>3. e[c] # "open" /\ \A x \in Clients \ {c} : e[x] = s.ended[x]
  BY <1>1, <1>2
<1>4. PICK t : t = [s EXCEPT !.ended = e, !.inq = iq]
  OBVIOUS
<1>t. Ending(s, c, how, iq) = t
  BY <1>0, <1>2, <1>4 DEF KernelType, KernelOf, Ending
<1>5. t \in KernelType
  BY <1>0, <1>4 DEF KernelType, KernelOf
<1>6. /\ SameConnections(s, t) /\ t.out = s.out /\ t.watch = s.watch /\ t.sent = s.sent
      /\ t.inq = iq /\ t.ended = e
  BY <1>0, <1>4 DEF KernelType, KernelOf, SameConnections
<1>7. ConnectionsOK(t) /\ WatchOK(t) /\ AnswersOK(t, clearing)
  BY <1>6 DEF KernelOK, ConnectionsOK, WatchOK, AnswersOK, SameConnections, Open
<1>8. ASSUME NEW y \in Clients
      PROVE  /\ \A i \in 1..Len(iq[y]) : iq[y][i] = Len(s.out[y]) + held[y] + i
             /\ e[y] = "open" => s.sent[y] = Len(s.out[y]) + held[y] + Len(iq[y])
  <2>1. /\ \A i \in 1..Len(s.inq[y]) : s.inq[y][i] = Len(s.out[y]) + held[y] + i
        /\ s.ended[y] = "open" => s.sent[y] = Len(s.out[y]) + held[y] + Len(s.inq[y])
    BY DEF KernelOK, StreamsOK
  <2>2. CASE y = c
    <3>1. \A i \in 1..Len(iq[y]) : iq[y][i] = Len(s.out[y]) + held[y] + i
      <4>1. CASE iq[y] = s.inq[y]
        BY <2>1, <4>1, Zenon
      <4>2. CASE iq[y] = <<>>
        <5>1. \A i \in 1..Len(iq[y]) : FALSE
          BY <4>2
        <5>. QED  BY <5>1, Zenon
      <4>. QED  BY <4>1, <4>2
    <3>. QED  BY <1>3, <2>2, <3>1
  <2>3. CASE y # c
    <3>1. iq[y] = s.inq[y] /\ e[y] = s.ended[y]
      BY <1>3, <2>3
    <3>. QED  BY <2>1, <3>1, Zenon
  <2>. QED  BY <2>2, <2>3
<1>9. StreamsOK(t, held)
  BY <1>6, <1>8 DEF StreamsOK
<1>. QED  BY <1>5, <1>6, <1>7, <1>9, <1>t DEF KernelOK

-----------------------------------------------------------------------------
(* The servers other than reactor.cpp and epoll_reactor.cpp hold nothing:  *)
(* they answer in the handler that reads.                                  *)

None == [c \in Clients |-> 0]

Plain == {"level", "tcp", "edge", "pooled", "rector", "libevent", "select", "array",
          "poll", "udptcp", "pthread", "process"}

\* ReadyOK of such a server, of kernel s, reported descriptors r, and a loop at
\* q that is busy with c.
ReadyIn(s, r, q, c) ==
    /\ r \subseteq Watched
    /\ q \in {"wait", "loop"} /\ Listener \in r => s.backlog # <<>>
    /\ \A f \in r \cap Fds : Open(s, f)
    /\ q = "loop" => Open(s, c) /\ c \notin r
    /\ q = "recvfrom" => r = {}

\* What the invariant says of a plain server.
LEMMA PlainInv ==
    ASSUME ServerInv, prog \in Plain
    PROVE  /\ KernelOK(k, None, prog \in Clearing) /\ ReadyIn(k, ready, pc, cur) /\ MemOK
           /\ prog \in {"pthread", "process"} => ready = {} /\ pc # "loop"
<1>1. prog # "slots" /\ prog # "reactor"
  BY DEF Plain
<1>2. Held = None
  BY <1>1 DEF Held, None
<1>3. KernelOK(k, Held, prog \in Clearing) /\ ReadyOK /\ MemOK
  BY <1>1 DEF ServerInv
<1>4. ReadyIn(k, ready, pc, cur) /\ (prog \in {"pthread", "process"} => ready = {} /\ pc # "loop")
  BY <1>1, <1>3 DEF ReadyOK, ReadyIn
<1>. QED  BY <1>2, <1>3, <1>4

\* What is to be shown of a step of one.
LEMMA PlainStep ==
    ASSUME prog' = prog, prog \in Plain, KernelOK(k', None, prog \in Clearing),
           ReadyIn(k', ready', pc', cur'), MemOK',
           prog \in {"pthread", "process"} => ready' = {} /\ pc' # "loop"
    PROVE  ServerInv'
<1>1. prog' # "slots" /\ prog' # "reactor"
  BY DEF Plain
<1>2. Held' = None
  BY <1>1 DEF Held, None
<1>3. ReadyOK'
  BY <1>1 DEF ReadyOK, ReadyIn
<1>. QED  BY <1>2, <1>3 DEF ServerInv

\* Nothing is held.
LEMMA NoneFacts == None \in [Clients -> 0..1] /\ \A c \in Clients : None[c] = 0
BY DEF None

\* What is readable can be accepted, or is open.
LEMMA ReadableFacts ==
    ASSUME NEW s
    PROVE  /\ Readable(s, Listener) => s.backlog # <<>>
           /\ \A f \in Fds : Readable(s, f) => Open(s, f)
<1>1. \A f \in Fds : f # Listener /\ f # Udp
  BY FdFacts
<1>2. Readable(s, Listener) => s.backlog # <<>>
  BY DEF Readable, Listener, Udp
<1>3. ASSUME NEW f \in Fds PROVE Readable(s, f) = (Open(s, f) /\ Result(s, f) # "again")
  BY <1>1 DEF Readable
<1>. QED  BY <1>2, <1>3, Zenon

\* read and write in one handler.
LEMMA PlainEcho ==
    ASSUME NEW s, NEW clearing, KernelOK(s, None, clearing), NEW f \in Fds, Open(s, f),
           Result(s, f) = "data", NEW clean \in BOOLEAN, clearing => clean
    PROVE  /\ KernelOK(Echo(s, f, clean), None, clearing)
           /\ SameConnections(s, Echo(s, f, clean)) /\ Echo(s, f, clean).watch = s.watch
<1>1. s.desc[f] \in Clients
  BY DEF KernelOK, KernelType, KernelOf, Open
<1>2. None[s.desc[f]] = 0 /\ None \in [Clients -> 0..1]
  BY <1>1, NoneFacts
<1>. QED  BY <1>2, EchoOK

\* accept and EPOLL_CTL_ADD.
LEMMA AcceptAndWatchOK ==
    ASSUME NEW held, NEW clearing, KernelOK(k, held, clearing), k.backlog # <<>>, FreeFds(k) # {},
           NEW et \in BOOLEAN
    PROVE  /\ KernelOK(AcceptAndWatch(et), held, clearing) /\ SameStreams(k, AcceptAndWatch(et))
           /\ FreeFd(k) \in Fds /\ ~Open(k, FreeFd(k))
           /\ AcceptAndWatch(et).desc = [k.desc EXCEPT ![FreeFd(k)] = Head(k.backlog)]
           /\ \A f \in Fds : Open(AcceptAndWatch(et), f) <=> f = FreeFd(k) \/ Open(k, f)
           /\ AcceptAndWatch(et).watch[FreeFd(k)].on
           /\ \A f \in Watched \ {FreeFd(k)} : AcceptAndWatch(et).watch[f] = k.watch[f]
<1>1. PICK s : s = Accept(k)
  OBVIOUS
<1>2. PICK g \in Fds : g = FreeFd(k)
  BY AcceptOK
<1>3. /\ KernelOK(s, held, clearing) /\ SameStreams(k, s) /\ ~Open(k, g)
      /\ s.desc = [k.desc EXCEPT ![g] = Head(k.backlog)]
      /\ \A f \in Fds : Open(s, f) <=> f = g \/ Open(k, f)
      /\ s.watch = k.watch
  BY <1>1, <1>2, AcceptOK
<1>4. PICK t : t = Watch(s, g, "in", et)
  OBVIOUS
<1>5. Open(s, g)
  BY <1>3
<1>6. /\ KernelOK(t, held, clearing) /\ SameConnections(s, t) /\ SameStreams(s, t) /\ t.watch[g].on
      /\ \A f \in Watched \ {g} : t.watch[f] = s.watch[f]
  BY <1>3, <1>4, <1>5, WatchIsOK
<1>7. AcceptAndWatch(et) = t
  BY <1>1, <1>2, <1>4 DEF AcceptAndWatch
<1>8. t.desc = s.desc /\ \A f \in Fds : Open(t, f) <=> Open(s, f)
  BY <1>6 DEF SameConnections, Open
<1>9. SameStreams(k, t)
  BY <1>3, <1>6 DEF SameStreams
<1>. QED  BY <1>2, <1>3, <1>6, <1>7, <1>8, <1>9

\* The reported descriptors stay open while the connections stay the same,
LEMMA ReadySame ==
    ASSUME NEW s, NEW r, NEW q, NEW c, ReadyIn(s, r, q, c), NEW t, SameConnections(s, t),
           NEW r2 \in SUBSET r
    PROVE  ReadyIn(t, r2, q, c)
BY DEF ReadyIn, SameConnections, Open

\* when one is closed that is not among them any more,
LEMMA ReadyClosed ==
    ASSUME NEW s, NEW r, NEW q, NEW c, ReadyIn(s, r, q, c), NEW t, t.backlog = s.backlog,
           NEW f, \A g \in Fds : Open(t, g) <=> g # f /\ Open(s, g), q # "loop"
    PROVE  ReadyIn(t, r \ {f}, q, c)
BY DEF ReadyIn

\* and when a connection is accepted.
LEMMA ReadyAccepted ==
    ASSUME NEW s, NEW r, NEW c, ReadyIn(s, r, "wait", c), NEW t,
           \A g \in Fds : Open(s, g) => Open(t, g)
    PROVE  ReadyIn(t, r \ {Listener}, "wait", c)
BY DEF ReadyIn

\* A program that has ended reports nothing.
LEMMA ReadyEnded ==
    ASSUME NEW s, NEW r, NEW q, NEW c, ReadyIn(s, r, q, c), NEW r2 \in SUBSET r,
           NEW p \in {"stopped", "crashed"}
    PROVE  ReadyIn(s, r2, p, c)
BY DEF ReadyIn

-----------------------------------------------------------------------------
(* The servers on epoll.                                                   *)

\* What epoll_wait reports can be accepted, or is open.
LEMMA ReportableFacts ==
    ASSUME NEW s, NEW held, NEW clearing, KernelOK(s, held, clearing)
    PROVE  /\ Reportable(s) \subseteq Watched
           /\ Listener \in Reportable(s) => s.backlog # <<>>
           /\ \A f \in Reportable(s) \cap Fds : Open(s, f)
<1>1. WatchOK(s)
  BY DEF KernelOK
<1>2. \A f \in Reportable(s) : /\ f \in Watched /\ s.watch[f].on
                               /\ s.watch[f].ev = "out" \/ Readable(s, f)
  BY DEF Reportable
<1>3. Listener \in Reportable(s) => Readable(s, Listener)
  BY <1>1, <1>2 DEF WatchOK
<1>. QED  BY <1>1, <1>2, <1>3, ReadableFacts DEF WatchOK

\* epoll_wait
LEMMA EpollWaitStep ==
    ASSUME ServerInv, prog \in {"level", "tcp", "edge", "pooled", "rector", "libevent"}, EpollWait
    PROVE  ServerInv'
<1>1. prog \in Plain /\ prog \notin {"pthread", "process"}
  BY DEF Plain
<1>2. KernelOK(k, None, prog \in Clearing) /\ ReadyIn(k, ready, pc, cur) /\ MemOK
  BY <1>1, PlainInv
<1>3. /\ pc = "wait" /\ ready' = Reportable(k) /\ k' = Reported(k)
      /\ prog' = prog /\ pc' = pc /\ mem' = mem
  BY DEF EpollWait, Wait
<1>4. /\ KernelOK(k', None, prog \in Clearing) /\ SameConnections(k, k')
      /\ \A f \in Watched : k'.watch[f].on = k.watch[f].on
  BY <1>2, <1>3, ReportedOK
<1>5. ReadyIn(k', ready', pc', cur')
  <2>1. /\ Reportable(k) \subseteq Watched
        /\ Listener \in Reportable(k) => k.backlog # <<>>
        /\ \A f \in Reportable(k) \cap Fds : Open(k, f)
    BY <1>2, ReportableFacts
  <2>. QED  BY <1>3, <1>4, <2>1 DEF ReadyIn, SameConnections, Open
<1>6. MemOK'
  <2>1. CASE prog # "libevent"
    BY <1>2, <1>3, <2>1 DEF MemOK
  <2>2. CASE prog = "libevent"
    <3>1. \A f \in Fds : k'.watch[f].on = k.watch[f].on
      BY <1>4, FdFacts
    <3>. QED  BY <1>2, <1>3, <2>2, <3>1 DEF MemOK
  <2>. QED  BY <2>1, <2>2
<1>. QED  BY <1>1, <1>3, <1>4, <1>5, <1>6, PlainStep

\* The accept of the servers that keep the descriptor in the event.
LEMMA AcceptEventStep ==
    ASSUME ServerInv, prog \in {"level", "tcp", "edge", "pooled", "rector"}, NEW et \in BOOLEAN,
           AcceptEvent(et)
    PROVE  ServerInv'
<1>1. prog \in Plain /\ prog \notin {"pthread", "process"}
  BY DEF Plain
<1>2. KernelOK(k, None, prog \in Clearing) /\ ReadyIn(k, ready, pc, cur) /\ MemOK
  BY <1>1, PlainInv
<1>3. /\ pc = "wait" /\ Listener \in ready /\ ready' = ready \ {Listener}
      /\ prog' = prog /\ cur' = cur /\ mem' = mem
  BY DEF AcceptEvent, Take, AcceptOrExit
<1>4. MemOK'
  BY <1>2, <1>3 DEF MemOK
<1>5. CASE FreeFds(k) = {}
  <2>1. pc' = "stopped" /\ k' = k
    BY <1>5 DEF AcceptEvent, AcceptOrExit
  <2>2. ReadyIn(k', ready', pc', cur')
    BY <1>2, <1>3, <2>1, ReadyEnded
  <2>. QED  BY <1>1, <1>2, <1>3, <1>4, <2>1, <2>2, PlainStep
<1>6. CASE FreeFds(k) # {}
  <2>1. pc' = "wait" /\ k' = AcceptAndWatch(et)
    BY <1>3, <1>6 DEF AcceptEvent, AcceptOrExit
  <2>2. k.backlog # <<>>
    BY <1>2, <1>3 DEF ReadyIn
  <2>3. /\ KernelOK(k', None, prog \in Clearing)
        /\ \A f \in Fds : Open(k', f) <=> f = FreeFd(k) \/ Open(k, f)
    BY <1>2, <1>6, <2>1, <2>2, AcceptAndWatchOK
  <2>4. ReadyIn(k', ready', pc', cur')
    BY <1>2, <1>3, <2>1, <2>3, ReadyAccepted
  <2>. QED  BY <1>1, <1>3, <1>4, <2>3, <2>4, PlainStep
<1>. QED  BY <1>5, <1>6

\* The readers of epoll_server.cpp and of the tcp sample.
LEMMA LevelReadStep ==
    ASSUME ServerInv, NEW f \in Fds, LevelRead(f) \/ TcpRead(f)
    PROVE  ServerInv'
<1>1. /\ prog \in {"level", "tcp"} /\ prog' = prog /\ pc = "wait" /\ f \in ready
      /\ ready' = ready \ {f} /\ pc' = pc /\ cur' = cur /\ mem' = mem
  BY DEF LevelRead, TcpRead, Take
<1>2. prog \in Plain /\ prog \notin {"pthread", "process"} /\ TRUE \in BOOLEAN
  BY <1>1 DEF Plain
<1>3. KernelOK(k, None, prog \in Clearing) /\ ReadyIn(k, ready, pc, cur)
  BY <1>2, PlainInv
<1>4. Open(k, f)
  BY <1>1, <1>3 DEF ReadyIn
<1>5. MemOK'
  BY <1>1 DEF MemOK
<1>6. CASE Result(k, f) = "data"
  <2>1. k' = Echo(k, f, TRUE)
    BY <1>6 DEF LevelRead, TcpRead
  <2>2. KernelOK(k', None, prog \in Clearing) /\ SameConnections(k, k')
    BY <1>2, <1>3, <1>4, <1>6, <2>1, PlainEcho
  <2>3. ReadyIn(k', ready', pc', cur')
    BY <1>1, <1>3, <2>2, ReadySame
  <2>. QED  BY <1>1, <1>2, <1>5, <2>2, <2>3, PlainStep
<1>7. CASE Result(k, f) # "data" /\ prog = "level"
  <2>1. PICK s : s = Read(k, f)
    OBVIOUS
  <2>2. k' = Unwatch(s, f)
    BY <1>7, <2>1 DEF LevelRead, TcpRead
  <2>3. KernelOK(s, None, prog \in Clearing) /\ SameConnections(k, s)
    BY <1>3, <1>4, <1>7, <2>1, ReadEndOK
  <2>4. KernelOK(k', None, prog \in Clearing) /\ SameConnections(s, k')
    BY <2>2, <2>3, UnwatchOK
  <2>5. SameConnections(k, k')
    BY <2>3, <2>4 DEF SameConnections
  <2>6. ReadyIn(k', ready', pc', cur')
    BY <1>1, <1>3, <2>5, ReadySame
  <2>. QED  BY <1>1, <1>2, <1>5, <2>4, <2>6, PlainStep
<1>8. CASE Result(k, f) # "data" /\ prog = "tcp"
  <2>1. k' = Close(k, f)
    BY <1>8 DEF LevelRead, TcpRead
  <2>2. /\ KernelOK(k', None, prog \in Clearing) /\ k'.backlog = k.backlog
        /\ \A g \in Fds : Open(k', g) <=> g # f /\ Open(k, g)
    BY <1>3, <1>4, <2>1, CloseOK
  <2>3. ReadyIn(k', ready', pc', cur')
    BY <1>1, <1>3, <2>2, ReadyClosed
  <2>. QED  BY <1>1, <1>2, <1>5, <2>2, <2>3, PlainStep
<1>. QED  BY <1>1, <1>6, <1>7, <1>8

\* An edge triggered server turns to a connection.
LEMMA DrainBeginStep ==
    ASSUME ServerInv, NEW f \in Fds, DrainBegin(f)
    PROVE  ServerInv'
<1>1. /\ prog \in {"edge", "pooled", "rector"} /\ prog' = prog /\ pc = "wait" /\ f \in ready
      /\ ready' = ready \ {f} /\ pc' = "loop" /\ cur' = f /\ mem' = mem /\ k' = k
  BY DEF DrainBegin, Take
<1>2. prog \in Plain /\ prog \notin {"pthread", "process"}
  BY <1>1 DEF Plain
<1>3. KernelOK(k, None, prog \in Clearing) /\ ReadyIn(k, ready, pc, cur) /\ MemOK
  BY <1>2, PlainInv
<1>4. MemOK'
  BY <1>1, <1>3 DEF MemOK
<1>5. ReadyIn(k', ready', pc', cur')
  BY <1>1, <1>3 DEF ReadyIn
<1>. QED  BY <1>1, <1>2, <1>3, <1>4, <1>5, PlainStep

\* It reads one message, and answers it,
LEMMA DrainMoreStep ==
    ASSUME ServerInv, prog \in {"edge", "pooled", "rector"}, NEW clean \in BOOLEAN,
           DrainMore(clean), MemOK'
    PROVE  ServerInv'
<1>1. /\ prog' = prog /\ pc = "loop" /\ Result(k, cur) = "data" /\ k' = Echo(k, cur, clean)
      /\ ready' = ready /\ pc' = pc /\ cur' = cur
  BY DEF DrainMore
<1>2. prog \in Plain /\ prog \notin {"pthread", "process"} /\ prog \notin Clearing
  BY <1>1 DEF Plain, Clearing
<1>3. KernelOK(k, None, prog \in Clearing) /\ ReadyIn(k, ready, pc, cur)
  BY <1>2, PlainInv
<1>4. Open(k, cur) /\ cur \in Fds
  BY <1>1, <1>3 DEF ReadyIn, Open
<1>5. KernelOK(k', None, prog \in Clearing) /\ SameConnections(k, k')
  BY <1>1, <1>2, <1>3, <1>4, PlainEcho
<1>6. ReadyIn(k', ready', pc', cur')
  BY <1>1, <1>3, <1>5, ReadySame
<1>. QED  BY <1>1, <1>2, <1>5, <1>6, PlainStep

\* until there is none: then it closes the connection, or leaves it.
LEMMA DrainEndStep ==
    ASSUME ServerInv, prog \in {"edge", "pooled", "rector"}, NEW closing, DrainEnd(closing)
    PROVE  ServerInv'
<1>1. /\ prog' = prog /\ pc = "loop" /\ Result(k, cur) # "data"
      /\ k' = IF Result(k, cur) \in closing THEN Close(k, cur) ELSE Read(k, cur)
      /\ ready' = ready /\ pc' = "wait" /\ cur' = Listener /\ mem' = mem
  BY DEF DrainEnd
<1>2. prog \in Plain /\ prog \notin {"pthread", "process"}
  BY <1>1 DEF Plain
<1>3. KernelOK(k, None, prog \in Clearing) /\ ReadyIn(k, ready, pc, cur) /\ MemOK
  BY <1>2, PlainInv
<1>4. Open(k, cur) /\ cur \in Fds /\ cur \notin ready
  BY <1>1, <1>3 DEF ReadyIn, Open
<1>5. MemOK'
  BY <1>1, <1>3 DEF MemOK
<1>6. CASE Result(k, cur) \in closing
  <2>1. k' = Close(k, cur)
    BY <1>1, <1>6
  <2>2. /\ KernelOK(k', None, prog \in Clearing) /\ k'.backlog = k.backlog
        /\ \A g \in Fds : Open(k', g) <=> g # cur /\ Open(k, g)
    BY <1>3, <1>4, <2>1, CloseOK
  <2>3. ReadyIn(k', ready', pc', cur')
    BY <1>1, <1>3, <1>4, <2>2 DEF ReadyIn
  <2>. QED  BY <1>1, <1>2, <1>5, <2>2, <2>3, PlainStep
<1>7. CASE Result(k, cur) \notin closing
  <2>1. k' = Read(k, cur)
    BY <1>1, <1>7
  <2>2. KernelOK(k', None, prog \in Clearing) /\ SameConnections(k, k')
    BY <1>1, <1>3, <1>4, <2>1, ReadEndOK
  <2>3. ReadyIn(k', ready', pc', cur')
    BY <1>1, <1>3, <2>2 DEF ReadyIn, SameConnections, Open
  <2>. QED  BY <1>1, <1>2, <1>5, <2>2, <2>3, PlainStep
<1>. QED  BY <1>6, <1>7

\* The steps of the servers on epoll that keep the descriptor in the event.
LEMMA EpollSteps == ServerInv /\ EpollStep => ServerInv'
<1>. SUFFICES ASSUME ServerInv, EpollStep PROVE ServerInv'
  OBVIOUS
<1>1. CASE LevelWait \/ TcpWait \/ EdgeWait \/ PooledWait \/ RectorWait
  BY <1>1, EpollWaitStep DEF LevelWait, TcpWait, EdgeWait, PooledWait, RectorWait
<1>2. CASE LevelAccept \/ TcpAccept \/ EdgeAccept \/ PooledAccept \/ RectorAccept
  <2>1. TRUE \in BOOLEAN /\ FALSE \in BOOLEAN
    OBVIOUS
  <2>. QED  BY <1>2, <2>1, AcceptEventStep DEF LevelAccept, TcpAccept, EdgeAccept, PooledAccept, RectorAccept
<1>3. CASE \E f \in Fds : LevelRead(f) \/ TcpRead(f) \/ DrainBegin(f)
  BY <1>3, LevelReadStep, DrainBeginStep
<1>4. CASE EdgeRead \/ PooledRead
  <2>1. CASE (\E clean \in BOOLEAN : DrainMore(clean)) /\ UNCHANGED mem
    <3>1. prog \in {"edge", "pooled"}
      BY <1>4 DEF EdgeRead, PooledRead
    <3>2. PICK clean \in BOOLEAN : DrainMore(clean)
      BY <2>1
    <3>3. MemOK'
      BY <3>1, <3>2 DEF MemOK, DrainMore
    <3>. QED  BY <3>1, <3>2, <3>3, DrainMoreStep
  <2>2. CASE DrainEnd({"eof", "error"})
    <3>1. prog \in {"edge", "pooled"}
      BY <1>4 DEF EdgeRead, PooledRead
    <3>. QED  BY <2>2, <3>1, DrainEndStep
  <2>. QED  BY <1>4, <2>1, <2>2 DEF EdgeRead, PooledRead
<1>5. CASE RectorRead
  <2>0. prog = "rector"
    BY <1>5 DEF RectorRead
  <2>1. CASE (\E clean \in {TRUE, ~mem.dirty} : DrainMore(clean)) /\ mem' = [dirty |-> FALSE]
    <3>2. PICK clean \in BOOLEAN : DrainMore(clean)
      BY <2>1
    <3>3. MemOK'
      <4>1. prog' = "rector"
        BY <2>0, <3>2 DEF DrainMore
      <4>2. mem' \in [dirty : BOOLEAN]
        BY <2>1
      <4>. QED  BY <4>1, <4>2 DEF MemOK
    <3>. QED  BY <2>0, <3>2, <3>3, DrainMoreStep
  <2>2. CASE DrainEnd({"eof"})
    BY <2>0, <2>2, DrainEndStep
  <2>. QED  BY <1>5, <2>1, <2>2 DEF RectorRead
<1>. QED  BY <1>1, <1>2, <1>3, <1>4, <1>5 DEF EpollStep

-----------------------------------------------------------------------------
(* Steps that are not the server's.                                        *)

\* Whatever the clients do, the descriptors and the tables stay as they are.
LEMMA QuietStep ==
    ASSUME ServerInv, prog' = prog, mem' = mem, ready' = ready, pc' = pc, cur' = cur,
           prog # "reactor" => /\ k'.desc = k.desc /\ k'.out = k.out
                               /\ k.backlog # <<>> => k'.backlog # <<>>
                               /\ \A f \in Watched : k'.watch[f].on = k.watch[f].on
                               /\ KernelOK(k', Held, prog \in Clearing)
    PROVE  ServerInv'
<1>1. CASE prog = "reactor"
  BY <1>1 DEF ServerInv
<1>2. CASE prog # "reactor"
  <2>1. ReadyOK /\ MemOK
    BY <1>2 DEF ServerInv
  <2>2. Held' = Held
    BY <1>2 DEF Held
  <2>3. \A f : Open(k', f) <=> Open(k, f)
    BY <1>2 DEF Open
  <2>4. Opened' = Opened
    BY <2>3 DEF Opened
  <2>5. ReadyOK'
    BY <1>2, <2>1, <2>3 DEF ReadyOK
  <2>6. ArrayOK => ArrayOK'
    BY <2>3, <2>4 DEF ArrayOK
  <2>7. SlotsOK => SlotsOK'
    <3>1. k'.desc = k.desc /\ k'.out = k.out
      BY <1>2
    <3>2. mem' = mem
      OBVIOUS
    <3>. SUFFICES ASSUME SlotsOK PROVE SlotsOK'
      OBVIOUS
    <3>3. ASSUME NEW i \in 0..mem'.size
          PROVE  /\ mem'.slot[i].fd = Listener => i = mem'.size /\ mem'.slot[i].ev = "in"
                 /\ mem'.slot[i].fd = -1 <=> mem'.slot[i].ev = "none"
                 /\ mem'.slot[i].fd \in Fds => /\ Open(k', mem'.slot[i].fd)
                                              /\ mem'.at[mem'.slot[i].fd] = i
      <4>0. i \in 0..mem.size
        BY <3>2
      <4>1. /\ mem.slot[i].fd = Listener => i = mem.size /\ mem.slot[i].ev = "in"
            /\ mem.slot[i].fd = -1 <=> mem.slot[i].ev = "none"
            /\ mem.slot[i].fd \in Fds => /\ Open(k, mem.slot[i].fd)
                                         /\ mem.at[mem.slot[i].fd] = i
        BY <4>0 DEF SlotsOK
      <4>. QED  BY <2>3, <3>2, <4>1, Zenon
    <3>4. ASSUME NEW i \in 0..mem'.size, mem'.slot[i].ev = "out"
          PROVE  mem'.buf[i] = [from |-> k'.desc[mem'.slot[i].fd],
                               msg |-> Len(k'.out[k'.desc[mem'.slot[i].fd]]) + 1, clean |-> TRUE]
      <4>0. i \in 0..mem.size /\ mem.slot[i].ev = "out"
        BY <3>2, <3>4, Zenon
      <4>1. mem.buf[i] = [from |-> k.desc[mem.slot[i].fd],
                          msg |-> Len(k.out[k.desc[mem.slot[i].fd]]) + 1, clean |-> TRUE]
        BY <4>0 DEF SlotsOK
      <4>. QED  BY <3>1, <3>2, <4>1
    <3>5. /\ mem'.size \in 1..MaxFd
          /\ mem'.slot \in [0..mem'.size -> [fd : Fds \cup {Listener, -1}, ev : {"none", "in", "out"}]]
          /\ mem'.at \in [Watched -> 0..mem'.size]
          /\ mem'.buf \in [0..mem'.size -> Answer \cup {Nobody}]
          /\ mem'.at[Listener] = mem'.size
      BY <3>2 DEF SlotsOK
    <3>6. \A f \in Opened' : mem'.slot[mem'.at[f]].fd = f
      BY <2>4, <3>2 DEF SlotsOK
    <3>. QED  BY <3>3, <3>4, <3>5, <3>6, Zenon DEF SlotsOK
  <2>8. {f \in Fds : k'.watch[f].on} = {f \in Fds : k.watch[f].on}
    BY <1>2, FdFacts
  <2>9. MemOK'
    BY <2>1, <2>4, <2>6, <2>7, <2>8 DEF MemOK
  <2>. QED  BY <1>2, <2>2, <2>5, <2>9 DEF ServerInv
<1>. QED  BY <1>1, <1>2

\* Nothing is held twice.
LEMMA HeldType == Held \in [Clients -> 0..1]
BY DEF Held

\* A client connects, sends, closes or resets.
LEMMA ClientSteps ==
    ASSUME ServerInv, NEW c \in Clients, ClientMove(c)
    PROVE  ServerInv'
<1>1. prog' = prog /\ mem' = mem /\ ready' = ready /\ pc' = pc /\ cur' = cur
  BY DEF ClientMove, ClientConnect, ClientSend, ClientClose, ClientReset
<1>. SUFFICES ASSUME prog # "reactor"
              PROVE  /\ k'.desc = k.desc /\ k'.out = k.out
                     /\ k.backlog # <<>> => k'.backlog # <<>>
                     /\ \A f \in Watched : k'.watch[f].on = k.watch[f].on
                     /\ KernelOK(k', Held, prog \in Clearing)
  BY <1>1, QuietStep
<1>2. KernelOK(k, Held, prog \in Clearing) /\ k \in KernelType
  BY DEF ServerInv, KernelOK
<1>3. CASE ClientConnect(c)
  <2>1. PICK s : s = Connecting(k, c)
    OBVIOUS
  <2>2. c \notin k.came /\ k' = Stir(s, {Listener})
    BY <1>3, <2>1 DEF ClientConnect, Connecting
  <2>3. /\ KernelOK(s, Held, prog \in Clearing) /\ SameStreams(k, s)
        /\ s.desc = k.desc /\ s.backlog # <<>> /\ s.watch = k.watch
    BY <1>2, <2>1, <2>2, ConnectOK
  <2>4. /\ KernelOK(k', Held, prog \in Clearing) /\ SameConnections(s, k') /\ SameStreams(s, k')
        /\ \A f \in Watched : k'.watch[f].on = s.watch[f].on
    BY <2>2, <2>3, StirOK
  <2>. QED  BY <2>3, <2>4 DEF SameConnections, SameStreams
<1>4. CASE ClientSend(c)
  <2>1. k.ended[c] = "open"
    BY <1>4 DEF ClientSend, Live
  <2>2. PICK s : /\ s = Sending(k, c)
                 /\ KernelOK(s, Held, prog \in Clearing) /\ SameConnections(k, s)
                 /\ s.watch = k.watch /\ s.out = k.out
    BY <1>2, <2>1, HeldType, SendOK
  <2>3. k' = Stir(s, FdOf(c))
    BY <1>4, <2>2 DEF ClientSend, Sending
  <2>4. /\ KernelOK(k', Held, prog \in Clearing) /\ SameConnections(s, k') /\ SameStreams(s, k')
        /\ \A f \in Watched : k'.watch[f].on = s.watch[f].on
    BY <2>2, <2>3, StirOK
  <2>. QED  BY <2>2, <2>4 DEF SameConnections, SameStreams
<1>5. CASE ClientClose(c) \/ ClientReset(c)
  <2>1. PICK how \in {"fin", "reset"}, iq \in [Clients -> Seq(Nat)] :
           /\ \A x \in Clients : iq[x] = k.inq[x] \/ iq[x] = <<>>
           /\ \A x \in Clients \ {c} : iq[x] = k.inq[x]
           /\ k' = Stir(Ending(k, c, how, iq), FdOf(c))
    <3>1. k.inq \in [Clients -> Seq(Nat)] /\ <<>> \in Seq(Nat)
      BY <1>2 DEF KernelType, KernelOf
    <3>2. CASE ClientClose(c)
      <4>1. [k EXCEPT !.ended[c] = "fin"] = [k EXCEPT !.ended[c] = "fin", !.inq = k.inq]
        BY <1>2 DEF KernelType, KernelOf
      <4>2. k' = Stir(Ending(k, c, "fin", k.inq), FdOf(c))
        BY <3>2, <4>1 DEF ClientClose, Ending
      <4>. QED  BY <3>1, <4>2
    <3>3. CASE ClientReset(c)
      <4>1. PICK iq \in [Clients -> Seq(Nat)] : iq = [k.inq EXCEPT ![c] = <<>>]
        BY <3>1
      <4>2. k' = Stir(Ending(k, c, "reset", iq), FdOf(c))
        BY <1>2, <3>3, <4>1 DEF ClientReset, KernelType, KernelOf, Ending
      <4>3. iq[c] = <<>> /\ \A x \in Clients \ {c} : iq[x] = k.inq[x]
        BY <3>1, <4>1
      <4>. QED  BY <4>2, <4>3
    <3>. QED  BY <1>5, <3>2, <3>3
  <2>2. PICK s : s = Ending(k, c, how, iq)
    OBVIOUS
  <2>3. KernelOK(s, Held, prog \in Clearing) /\ SameConnections(k, s) /\ s.watch = k.watch /\ s.out = k.out
    BY <1>2, <2>1, <2>2, EndOK
  <2>4. /\ KernelOK(k', Held, prog \in Clearing) /\ SameConnections(s, k') /\ SameStreams(s, k')
        /\ \A f \in Watched : k'.watch[f].on = s.watch[f].on
    BY <2>1, <2>2, <2>3, StirOK
  <2>. QED  BY <2>3, <2>4 DEF SameConnections, SameStreams
<1>. QED  BY <1>3, <1>4, <1>5 DEF ClientMove

\* A datagram comes, or is taken.
LEMMA DatagramOK ==
    ASSUME NEW s, NEW held, NEW clearing, KernelOK(s, held, clearing), NEW n \in Int
    PROVE  /\ KernelOK([s EXCEPT !.dgrams = n], held, clearing)
           /\ SameConnections(s, [s EXCEPT !.dgrams = n]) /\ SameStreams(s, [s EXCEPT !.dgrams = n])
           /\ [s EXCEPT !.dgrams = n].watch = s.watch
<1>1. s \in KernelType /\ WatchOK(s)
  BY DEF KernelOK
<1>2. PICK t : t = [s EXCEPT !.dgrams = n]
  OBVIOUS
<1>3. t \in KernelType
  BY <1>1, <1>2 DEF KernelType, KernelOf
<1>4. SameConnections(s, t) /\ SameStreams(s, t) /\ t.watch = s.watch
  BY <1>1, <1>2 DEF KernelType, KernelOf, SameConnections, SameStreams
<1>5. WatchOK(t)
  BY <1>1, <1>4 DEF WatchOK, SameConnections, Open
<1>6. KernelOK(t, held, clearing)
  BY <1>3, <1>4, <1>5, KernelKept
<1>. QED  BY <1>2, <1>4, <1>6

\* A datagram touches no connection.
LEMMA DatagramStep == ServerInv /\ Datagram => ServerInv'
<1>. SUFFICES ASSUME ServerInv, Datagram PROVE ServerInv'
  OBVIOUS
<1>1. prog' = prog /\ mem' = mem /\ ready' = ready /\ pc' = pc /\ cur' = cur /\ prog = "udptcp"
  BY DEF Datagram
<1>2. KernelOK(k, Held, prog \in Clearing)
  BY <1>1 DEF ServerInv
<1>3. PICK n \in Int : n = k.dgrams + 1
  <2>1. k.dgrams \in Int
    BY <1>2 DEF KernelOK, KernelType, KernelOf
  <2>. QED  BY <2>1
<1>4. k' = [k EXCEPT !.dgrams = n]
  BY <1>3 DEF Datagram
<1>5. /\ KernelOK(k', Held, prog \in Clearing) /\ SameConnections(k, k') /\ SameStreams(k, k')
      /\ k'.watch = k.watch
  BY <1>2, <1>4, DatagramOK
<1>. QED  BY <1>1, <1>5, QuietStep DEF SameConnections, SameStreams

-----------------------------------------------------------------------------
(* libevent_tcp_server.cpp: the events that are registered are those of    *)
(* evs, each once.                                                         *)

\* What MemOK says of them.
EventsOK(s, evs) ==
    /\ evs \in Seq(Fds)
    /\ \A i, j \in DOMAIN evs : evs[i] = evs[j] => i = j
    /\ \A f \in Fds : s.watch[f].on <=> \E i \in DOMAIN evs : evs[i] = f

\* This is what MemOK says of libevent_tcp_server.cpp.
LEMMA EventsFacts ==
    /\ prog = "libevent" /\ MemOK => mem = [evs |-> mem.evs] /\ EventsOK(k, mem.evs)
    /\ \A evs : prog' = "libevent" /\ mem' = [evs |-> evs] /\ EventsOK(k', evs) => MemOK'
<1>1. ASSUME prog = "libevent", MemOK PROVE mem = [evs |-> mem.evs] /\ EventsOK(k, mem.evs)
  <2>1. /\ mem \in [evs : Seq(Fds)]
        /\ \A i, j \in DOMAIN mem.evs : mem.evs[i] = mem.evs[j] => i = j
        /\ {f \in Fds : k.watch[f].on} = {mem.evs[i] : i \in DOMAIN mem.evs}
    BY <1>1 DEF MemOK
  <2>2. mem = [evs |-> mem.evs] /\ mem.evs \in Seq(Fds)
    BY <2>1
  <2>3. \A f \in Fds : k.watch[f].on <=> f \in {mem.evs[i] : i \in DOMAIN mem.evs}
    BY <2>1
  <2>. QED  BY <2>1, <2>2, <2>3 DEF EventsOK
<1>2. ASSUME NEW evs, prog' = "libevent", mem' = [evs |-> evs], EventsOK(k', evs) PROVE MemOK'
  <2>1. evs \in Seq(Fds) /\ mem'.evs = evs /\ mem' \in [evs : Seq(Fds)]
    BY <1>2 DEF EventsOK
  <2>2. \A i \in DOMAIN evs : evs[i] \in Fds
    BY <2>1
  <2>3. {f \in Fds : k'.watch[f].on} = {evs[i] : i \in DOMAIN evs}
    BY <1>2, <2>2 DEF EventsOK
  <2>. QED  BY <1>2, <2>1, <2>3 DEF MemOK, EventsOK
<1>. QED  BY <1>1, <1>2

\* lfd_callback
LEMMA LibeventAcceptStep == ServerInv /\ LibeventAccept => ServerInv'
<1>. SUFFICES ASSUME ServerInv, LibeventAccept PROVE ServerInv'
  OBVIOUS
<1>1. /\ prog = "libevent" /\ prog' = prog /\ pc = "wait" /\ Listener \in ready
      /\ ready' = ready \ {Listener} /\ cur' = cur
  BY DEF LibeventAccept, Take
<1>2. prog \in Plain /\ prog \notin {"pthread", "process"}
  BY <1>1 DEF Plain
<1>3. KernelOK(k, None, prog \in Clearing) /\ ReadyIn(k, ready, pc, cur) /\ MemOK
  BY <1>2, PlainInv
<1>4. mem = [evs |-> mem.evs] /\ EventsOK(k, mem.evs)
  BY <1>1, <1>3, EventsFacts
<1>5. CASE FreeFds(k) = {}
  <2>1. pc' = "stopped" /\ k' = k /\ mem' = mem
    BY <1>5 DEF LibeventAccept, AcceptOrExit
  <2>2. ReadyIn(k', ready', pc', cur')
    BY <1>1, <1>3, <2>1, ReadyEnded
  <2>3. MemOK'
    BY <1>1, <1>4, <2>1, EventsFacts
  <2>. QED  BY <1>1, <1>2, <1>3, <2>1, <2>2, <2>3, PlainStep
<1>6. CASE FreeFds(k) # {}
  <2>1. pc' = "wait" /\ k' = AcceptAndWatch(FALSE) /\ mem' = [evs |-> Append(mem.evs, FreeFd(k))]
    BY <1>1, <1>6 DEF LibeventAccept, AcceptOrExit
  <2>2. k.backlog # <<>> /\ FALSE \in BOOLEAN
    BY <1>1, <1>3 DEF ReadyIn
  <2>3. /\ KernelOK(k', None, prog \in Clearing)
        /\ FreeFd(k) \in Fds /\ ~Open(k, FreeFd(k))
        /\ \A f \in Fds : Open(k', f) <=> f = FreeFd(k) \/ Open(k, f)
        /\ k'.watch[FreeFd(k)].on
        /\ \A f \in Watched \ {FreeFd(k)} : k'.watch[f] = k.watch[f]
    BY <1>3, <1>6, <2>1, <2>2, AcceptAndWatchOK
  <2>4. ReadyIn(k', ready', pc', cur')
    BY <1>1, <1>3, <2>1, <2>3, ReadyAccepted
  <2>5. PICK g \in Fds : g = FreeFd(k)
    BY <2>3
  <2>6. PICK evs \in Seq(Fds) : evs = mem.evs
    BY <1>4 DEF EventsOK
  <2>7. PICK n \in Nat : n = Len(evs)
    BY LenProperties
  <2>8. PICK new \in Seq(Fds) : new = Append(evs, g)
    BY AppendProperties
  <2>9. DOMAIN new = 1..(n + 1) /\ DOMAIN evs = 1..n
    BY <2>7, <2>8
  <2>10. (\A i \in 1..n : new[i] = evs[i]) /\ new[n + 1] = g
    BY <2>7, <2>8, AppendProperties
  <2>11. \A i \in 1..(n + 1) : i \in 1..n \/ i = n + 1
    OBVIOUS
  <2>12. 1..n \subseteq 1..(n + 1) /\ n + 1 \in 1..(n + 1)
    OBVIOUS
  <2>13. ~k.watch[g].on
    BY <1>3, <2>3, <2>5 DEF KernelOK, WatchOK
  <2>14. \A i \in 1..n : evs[i] # g
    BY <1>4, <2>6, <2>9, <2>13 DEF EventsOK
  <2>15. \A i, j \in 1..(n + 1) : new[i] = new[j] => i = j
    <3>1. \A i, j \in 1..n : evs[i] = evs[j] => i = j
      BY <1>4, <2>6, <2>9 DEF EventsOK
    <3>. QED  BY <2>10, <2>11, <2>14, <3>1
  <2>16. ASSUME NEW f \in Fds PROVE k'.watch[f].on <=> \E i \in 1..(n + 1) : new[i] = f
    <3>1. CASE f = g
      BY <2>3, <2>5, <2>10, <2>12, <3>1
    <3>2. CASE f # g
      <4>1. k'.watch[f].on <=> k.watch[f].on
        BY <2>3, <2>5, <3>2, FdFacts
      <4>2. k.watch[f].on <=> \E i \in 1..n : evs[i] = f
        BY <1>4, <2>6, <2>9 DEF EventsOK
      <4>. QED  BY <2>10, <2>11, <2>12, <3>2, <4>1, <4>2
    <3>. QED  BY <3>1, <3>2
  <2>17. EventsOK(k', new)
    BY <2>9, <2>15, <2>16 DEF EventsOK
  <2>18. MemOK'
    BY <1>1, <2>1, <2>5, <2>6, <2>8, <2>17, EventsFacts
  <2>. QED  BY <1>1, <1>2, <2>3, <2>4, <2>18, PlainStep
<1>. QED  BY <1>5, <1>6

\* cfd_callback
LEMMA LibeventReadStep ==
    ASSUME ServerInv, NEW f \in Fds, LibeventRead(f)
    PROVE  ServerInv'
<1>1. prog = "libevent" /\ prog' = prog /\ pc = "wait" /\ f \in ready /\ cur' = cur
  BY DEF LibeventRead
<1>2. prog \in Plain /\ prog \notin {"pthread", "process"} /\ TRUE \in BOOLEAN
  BY <1>1 DEF Plain
<1>3. KernelOK(k, None, prog \in Clearing) /\ ReadyIn(k, ready, pc, cur) /\ MemOK
  BY <1>2, PlainInv
<1>4. mem = [evs |-> mem.evs] /\ EventsOK(k, mem.evs)
  BY <1>1, <1>3, EventsFacts
<1>5. Open(k, f)
  BY <1>1, <1>3 DEF ReadyIn
<1>6. CASE Result(k, f) = "data"
  <2>1. k' = Echo(k, f, TRUE) /\ ready' = ready \ {f} /\ mem' = mem /\ pc' = pc
    BY <1>6 DEF LibeventRead
  <2>2. KernelOK(k', None, prog \in Clearing) /\ SameConnections(k, k') /\ k'.watch = k.watch
    BY <1>2, <1>3, <1>5, <1>6, <2>1, PlainEcho
  <2>3. ReadyIn(k', ready', pc', cur')
    BY <1>1, <1>3, <2>1, <2>2, ReadySame
  <2>4. EventsOK(k', mem.evs)
    BY <1>4, <2>2 DEF EventsOK
  <2>5. MemOK'
    BY <1>1, <1>4, <2>1, <2>4, EventsFacts
  <2>. QED  BY <1>1, <1>2, <2>2, <2>3, <2>5, PlainStep
<1>7. CASE Result(k, f) # "data" /\ mem.evs = <<>>
  <2>1. k' = k /\ ready' = ready /\ mem' = mem /\ pc' = "crashed"
    BY <1>7 DEF LibeventRead
  <2>2. ReadyIn(k', ready', pc', cur')
    BY <1>1, <1>3, <2>1, ReadyEnded
  <2>3. MemOK'
    BY <1>1, <1>4, <2>1, EventsFacts
  <2>. QED  BY <1>1, <1>2, <1>3, <2>1, <2>2, <2>3, PlainStep
<1>8. CASE Result(k, f) # "data" /\ mem.evs # <<>>
  <2>1. PICK evs \in Seq(Fds) : evs = mem.evs
    BY <1>4 DEF EventsOK
  <2>2. PICK n \in Nat \ {0} : n = Len(evs)
    BY <1>8, <2>1, EmptySeq
  <2>3. DOMAIN evs = 1..n /\ n \in 1..n
    BY <2>2
  <2>4. PICK g \in Fds : g = evs[n]
    BY <2>3
  <2>5. PICK new \in Seq(Fds) : new = SubSeq(evs, 1, n - 1)
    <3>1. \A i \in 1..(n - 1) : evs[i] \in Fds
      BY <2>3
    <3>2. SubSeq(evs, 1, n - 1) \in Seq(Fds)
      BY <2>2, <3>1, SubSeqProperties
    <3>. QED  BY <3>2, Zenon
  <2>6. DOMAIN new = 1..(n - 1) /\ \A i \in 1..(n - 1) : new[i] = evs[i]
    BY <2>2, <2>5
  <2>7. k' = Unwatch(Read(k, f), g) /\ ready' = ready \ {f, g} /\ mem' = [evs |-> new] /\ pc' = pc
    BY <1>8, <2>1, <2>2, <2>4, <2>5 DEF LibeventRead
  <2>8. PICK s : s = Read(k, f)
    OBVIOUS
  <2>9. KernelOK(s, None, prog \in Clearing) /\ SameConnections(k, s) /\ s.watch = k.watch
    BY <1>3, <1>5, <1>8, <2>8, ReadEndOK
  <2>10. /\ KernelOK(k', None, prog \in Clearing) /\ SameConnections(s, k') /\ ~k'.watch[g].on
         /\ \A h \in Watched \ {g} : k'.watch[h] = s.watch[h]
    BY <2>7, <2>8, <2>9, UnwatchOK
  <2>11. SameConnections(k, k')
    BY <2>9, <2>10 DEF SameConnections
  <2>12. ReadyIn(k', ready', pc', cur')
    BY <1>1, <1>3, <2>7, <2>11, ReadySame
  <2>13. \A i \in 1..n : i \in 1..(n - 1) \/ i = n
    OBVIOUS
  <2>14. n \notin 1..(n - 1) /\ 1..(n - 1) \subseteq 1..n
    OBVIOUS
  <2>15. \A i, j \in 1..n : evs[i] = evs[j] => i = j
    BY <1>4, <2>1, <2>3 DEF EventsOK
  <2>16. \A i, j \in 1..(n - 1) : new[i] = new[j] => i = j
    BY <2>6, <2>14, <2>15
  <2>17. \A i \in 1..(n - 1) : evs[i] # g
    BY <2>3, <2>4, <2>14, <2>15
  <2>18. ASSUME NEW h \in Fds PROVE k'.watch[h].on <=> \E i \in 1..(n - 1) : new[i] = h
    <3>1. CASE h = g
      BY <2>6, <2>10, <2>17, <3>1
    <3>2. CASE h # g
      <4>1. k'.watch[h].on <=> k.watch[h].on
        BY <2>9, <2>10, <3>2, FdFacts
      <4>2. k.watch[h].on <=> \E i \in 1..n : evs[i] = h
        BY <1>4, <2>1, <2>3 DEF EventsOK
      <4>. QED  BY <2>4, <2>6, <2>13, <2>14, <3>2, <4>1, <4>2
    <3>. QED  BY <3>1, <3>2
  <2>19. EventsOK(k', new)
    BY <2>6, <2>16, <2>18 DEF EventsOK
  <2>20. MemOK'
    BY <1>1, <2>7, <2>19, EventsFacts
  <2>. QED  BY <1>1, <1>2, <2>10, <2>12, <2>20, PlainStep
<1>. QED  BY <1>6, <1>7, <1>8

-----------------------------------------------------------------------------
(* The servers on select.                                                  *)

Sets == [set : SUBSET Watched, maxfd : Watched]

\* What select reports.
LEMMA SelectedFacts ==
    ASSUME mem.set \in SUBSET Watched
    PROVE  /\ Selected \subseteq Watched
           /\ Listener \in Selected => k.backlog # <<>>
           /\ \A f \in Selected \cap Fds : Open(k, f)
<1>1. \A f \in Selected : f \in mem.set /\ Readable(k, f)
  BY DEF Selected
<1>. QED  BY <1>1, ReadableFacts

\* A wait that changes nothing but the reported descriptors.
LEMMA WaitStep ==
    ASSUME ServerInv, prog \in Plain \ {"pthread", "process", "libevent"}, NEW fs, Wait(fs), UNCHANGED k,
           fs \subseteq Watched, Listener \in fs => k.backlog # <<>>,
           \A f \in fs \cap Fds : Open(k, f)
    PROVE  ServerInv'
<1>1. /\ pc = "wait" /\ ready' = fs /\ k' = k /\ prog' = prog /\ pc' = pc /\ cur' = cur /\ mem' = mem
  BY DEF Wait
<1>2. KernelOK(k, None, prog \in Clearing) /\ ReadyIn(k, ready, pc, cur) /\ MemOK
  BY PlainInv
<1>3. ReadyIn(k', ready', pc', cur')
  BY <1>1 DEF ReadyIn
<1>4. MemOK'
  <2>1. Opened' = Opened
    BY <1>1 DEF Opened
  <2>2. ArrayOK => ArrayOK'
    BY <1>1, <2>1 DEF ArrayOK
  <2>3. prog # "slots" /\ prog # "libevent"
    BY DEF Plain
  <2>. QED  BY <1>1, <1>2, <2>1, <2>2, <2>3 DEF MemOK
<1>. QED  BY <1>1, <1>2, <1>3, <1>4, PlainStep

\* FD_SET and FD_CLR.
LEMMA AddedFacts ==
    ASSUME NEW m \in Sets, NEW g \in Fds
    PROVE  Added(m, g) \in Sets /\ Added(m, g).set = m.set \cup {g}
<1>1. g \in Watched
  BY FdFacts
<1>2. PICK h \in Watched : h = IF g > m.maxfd THEN g ELSE m.maxfd
  BY <1>1 DEF Sets
<1>3. PICK z \in SUBSET Watched : z = m.set \cup {g}
  BY <1>1 DEF Sets
<1>4. Added(m, g) = [m EXCEPT !.set = z, !.maxfd = h]
  BY <1>2, <1>3 DEF Added, Sets
<1>. QED  BY <1>3, <1>4 DEF Sets

\* FD_CLR takes one descriptor out of the set.
LEMMA DroppedFacts ==
    ASSUME NEW m \in Sets, NEW g
    PROVE  Dropped(m, g) \in Sets /\ Dropped(m, g).set = m.set \ {g}
BY DEF Dropped, Sets

\* accept in such a server.
LEMMA PlainAccept ==
    ASSUME ServerInv, prog \in Plain, FreeFds(k) # {}, k.backlog # <<>>, k' = Accept(k)
    PROVE  /\ KernelOK(k', None, prog \in Clearing) /\ FreeFd(k) \in Fds /\ ~Open(k, FreeFd(k))
           /\ \A f \in Fds : Open(k', f) <=> f = FreeFd(k) \/ Open(k, f)
           /\ Opened' = Opened \cup {FreeFd(k)}
<1>1. KernelOK(k, None, prog \in Clearing)
  BY PlainInv
<1>2. /\ KernelOK(k', None, prog \in Clearing) /\ FreeFd(k) \in Fds /\ ~Open(k, FreeFd(k))
      /\ \A f \in Fds : Open(k', f) <=> f = FreeFd(k) \/ Open(k, f)
  BY <1>1, AcceptOK
<1>3. Opened' = Opened \cup {FreeFd(k)}
  BY <1>2 DEF Opened
<1>. QED  BY <1>2, <1>3

\* close in such a server.
LEMMA PlainClose ==
    ASSUME ServerInv, prog \in Plain, NEW f \in Fds, Open(k, f), k' = Close(k, f)
    PROVE  /\ KernelOK(k', None, prog \in Clearing) /\ k'.backlog = k.backlog
           /\ \A g \in Fds : Open(k', g) <=> g # f /\ Open(k, g)
           /\ Opened' = Opened \ {f}
<1>1. KernelOK(k, None, prog \in Clearing)
  BY PlainInv
<1>2. /\ KernelOK(k', None, prog \in Clearing) /\ k'.backlog = k.backlog
      /\ \A g \in Fds : Open(k', g) <=> g # f /\ Open(k, g)
  BY <1>1, CloseOK
<1>3. Opened' = Opened \ {f}
  BY <1>2 DEF Opened
<1>. QED  BY <1>2, <1>3

\* Connections that stay the same keep the descriptors open.
LEMMA OpenedSame == SameConnections(k, k') => Opened' = Opened
BY DEF SameConnections, Opened, Open

\* select_study.cpp
LEMMA SelectSteps ==
    ASSUME ServerInv, SelectWait \/ SelectAccept \/ \E f \in Fds : SelectRead(f)
    PROVE  ServerInv'
<1>1. prog = "select" /\ prog \in Plain /\ TRUE \in BOOLEAN
  BY DEF SelectWait, SelectAccept, SelectRead, Plain
<1>2. KernelOK(k, None, prog \in Clearing) /\ ReadyIn(k, ready, pc, cur) /\ MemOK
  BY <1>1, PlainInv
<1>3. mem \in Sets /\ mem.set \ {Listener} = Opened
  BY <1>1, <1>2 DEF MemOK, Sets
<1>4. ASSUME prog' = "select", mem' \in Sets, mem'.set \ {Listener} = Opened' PROVE MemOK'
  BY <1>4 DEF MemOK, Sets
<1>5. CASE SelectWait
  <2>1. mem.set \in SUBSET Watched
    BY <1>3 DEF Sets
  <2>. QED  BY <1>1, <1>5, <2>1, SelectedFacts, WaitStep DEF SelectWait
<1>6. CASE SelectAccept
  <2>1. /\ prog' = prog /\ pc = "wait" /\ Listener \in ready /\ ready' = ready \ {Listener} /\ cur' = cur
    BY <1>6 DEF SelectAccept, Visit, Take
  <2>2. CASE FreeFds(k) = {}
    <3>1. pc' = "stopped" /\ k' = k /\ mem' = mem
      BY <1>6, <2>2 DEF SelectAccept, AcceptOrExit
    <3>2. ReadyIn(k', ready', pc', cur')
      BY <1>2, <2>1, <3>1, ReadyEnded
    <3>3. MemOK'
      BY <1>1, <1>3, <1>4, <2>1, <3>1 DEF Opened
    <3>. QED  BY <1>1, <1>2, <2>1, <3>1, <3>2, <3>3, PlainStep
  <2>3. CASE FreeFds(k) # {}
    <3>1. pc' = "wait" /\ k' = Accept(k) /\ mem' = Added(mem, FreeFd(k))
      BY <1>6, <2>1, <2>3 DEF SelectAccept, AcceptOrExit
    <3>2. k.backlog # <<>>
      BY <1>2, <2>1 DEF ReadyIn
    <3>3. /\ KernelOK(k', None, prog \in Clearing) /\ FreeFd(k) \in Fds /\ ~Open(k, FreeFd(k))
          /\ \A f \in Fds : Open(k', f) <=> f = FreeFd(k) \/ Open(k, f)
          /\ Opened' = Opened \cup {FreeFd(k)}
      BY <1>1, <2>3, <3>1, <3>2, PlainAccept
    <3>4. ReadyIn(k', ready', pc', cur')
      BY <1>2, <2>1, <3>1, <3>3, ReadyAccepted
    <3>5. mem' \in Sets /\ mem'.set = mem.set \cup {FreeFd(k)}
      BY <1>3, <3>1, <3>3, AddedFacts
    <3>6. FreeFd(k) # Listener
      BY <3>3, FdFacts
    <3>7. MemOK'
      BY <1>1, <1>3, <1>4, <2>1, <3>3, <3>5, <3>6
    <3>. QED  BY <1>1, <2>1, <3>3, <3>4, <3>7, PlainStep
  <2>. QED  BY <2>2, <2>3
<1>7. CASE \E f \in Fds : SelectRead(f)
  <2>1. PICK f \in Fds : SelectRead(f)
    BY <1>7
  <2>2. prog' = prog /\ pc = "wait" /\ f \in ready /\ ready' = ready \ {f} /\ pc' = pc /\ cur' = cur
    BY <2>1 DEF SelectRead, Visit, Take
  <2>3. Open(k, f)
    BY <1>2, <2>2 DEF ReadyIn
  <2>4. CASE Result(k, f) = "data"
    <3>1. k' = Echo(k, f, TRUE) /\ mem' = mem
      BY <2>1, <2>4 DEF SelectRead
    <3>2. KernelOK(k', None, prog \in Clearing) /\ SameConnections(k, k')
      BY <1>1, <1>2, <2>3, <2>4, <3>1, PlainEcho
    <3>3. ReadyIn(k', ready', pc', cur')
      BY <1>2, <2>2, <3>2, ReadySame
    <3>4. MemOK'
      BY <1>1, <1>3, <1>4, <2>2, <3>1, <3>2, OpenedSame
    <3>. QED  BY <1>1, <2>2, <3>2, <3>3, <3>4, PlainStep
  <2>5. CASE Result(k, f) # "data"
    <3>1. k' = Close(k, f) /\ mem' = Dropped(mem, f)
      BY <2>1, <2>5 DEF SelectRead
    <3>2. /\ KernelOK(k', None, prog \in Clearing) /\ k'.backlog = k.backlog
          /\ \A g \in Fds : Open(k', g) <=> g # f /\ Open(k, g)
          /\ Opened' = Opened \ {f}
      BY <1>1, <2>3, <3>1, PlainClose
    <3>3. ReadyIn(k', ready', pc', cur')
      BY <1>2, <2>2, <3>2, ReadyClosed
    <3>4. mem' \in Sets /\ mem'.set = mem.set \ {f}
      BY <1>3, <3>1, DroppedFacts
    <3>5. MemOK'
      BY <1>1, <1>3, <1>4, <2>2, <3>2, <3>4
    <3>. QED  BY <1>1, <2>2, <3>2, <3>3, <3>5, PlainStep
  <2>. QED  BY <2>4, <2>5
<1>. QED  BY <1>5, <1>6, <1>7

-----------------------------------------------------------------------------
(* A thread, or a process, for each connection.                            *)

\* tcp_pthread_server.cpp
LEMMA PthreadSteps ==
    ASSUME ServerInv, PthreadAccept \/ \E f \in Fds : PthreadRead(f)
    PROVE  ServerInv'
<1>1. prog = "pthread" /\ prog \in Plain /\ TRUE \in BOOLEAN
  BY DEF PthreadAccept, PthreadRead, Plain
<1>2. KernelOK(k, None, prog \in Clearing) /\ ReadyIn(k, ready, pc, cur) /\ MemOK /\ ready = {}
  BY <1>1, PlainInv
<1>3. mem = [threads |-> Opened]
  BY <1>1, <1>2 DEF MemOK
<1>4. ASSUME prog' = "pthread", mem' = [threads |-> Opened'] PROVE MemOK'
  BY <1>4 DEF MemOK
<1>5. prog' = prog /\ ready' = {} /\ cur' = cur /\ pc = "wait"
  BY <1>2 DEF PthreadAccept, PthreadRead
<1>6. CASE PthreadAccept
  <2>1. CASE FreeFds(k) = {}
    <3>1. pc' = "stopped" /\ k' = k /\ mem' = mem
      BY <1>6, <2>1 DEF PthreadAccept, AcceptOrExit
    <3>2. ReadyIn(k', ready', pc', cur')
      BY <1>5, <3>1 DEF ReadyIn
    <3>3. MemOK'
      BY <1>1, <1>3, <1>4, <1>5, <3>1 DEF Opened
    <3>. QED  BY <1>1, <1>2, <1>5, <3>1, <3>2, <3>3, PlainStep
  <2>2. CASE FreeFds(k) # {}
    <3>1. pc' = "wait" /\ k' = Accept(k) /\ mem' = [threads |-> mem.threads \cup {FreeFd(k)}]
      BY <1>5, <1>6, <2>2 DEF PthreadAccept, AcceptOrExit
    <3>2. k.backlog # <<>>
      BY <1>6, ReadableFacts DEF PthreadAccept
    <3>3. KernelOK(k', None, prog \in Clearing) /\ Opened' = Opened \cup {FreeFd(k)}
      BY <1>1, <2>2, <3>1, <3>2, PlainAccept
    <3>4. ReadyIn(k', ready', pc', cur')
      BY <1>5, <3>1 DEF ReadyIn
    <3>5. MemOK'
      BY <1>1, <1>3, <1>4, <1>5, <3>1, <3>3
    <3>. QED  BY <1>1, <1>5, <3>1, <3>3, <3>4, <3>5, PlainStep
  <2>. QED  BY <2>1, <2>2
<1>7. CASE \E f \in Fds : PthreadRead(f)
  <2>1. PICK f \in Fds : PthreadRead(f)
    BY <1>7
  <2>2. pc' = pc /\ Open(k, f)
    BY <2>1, ReadableFacts DEF PthreadRead
  <2>3. ReadyIn(k', ready', pc', cur')
    BY <1>5, <2>2 DEF ReadyIn
  <2>4. CASE Result(k, f) = "data"
    <3>1. k' = Echo(k, f, TRUE) /\ mem' = mem
      BY <2>1, <2>4 DEF PthreadRead
    <3>2. KernelOK(k', None, prog \in Clearing) /\ SameConnections(k, k')
      BY <1>1, <1>2, <2>2, <2>4, <3>1, PlainEcho
    <3>3. MemOK'
      BY <1>1, <1>3, <1>4, <1>5, <3>1, <3>2, OpenedSame
    <3>. QED  BY <1>1, <1>5, <2>2, <2>3, <3>2, <3>3, PlainStep
  <2>5. CASE Result(k, f) # "data"
    <3>1. k' = Close(k, f) /\ mem' = [threads |-> mem.threads \ {f}]
      BY <2>1, <2>5 DEF PthreadRead
    <3>2. KernelOK(k', None, prog \in Clearing) /\ Opened' = Opened \ {f}
      BY <1>1, <2>2, <3>1, PlainClose
    <3>3. MemOK'
      BY <1>1, <1>3, <1>4, <1>5, <3>1, <3>2
    <3>. QED  BY <1>1, <1>5, <2>2, <2>3, <3>2, <3>3, PlainStep
  <2>. QED  BY <2>4, <2>5
<1>. QED  BY <1>6, <1>7

Family == [kids : SUBSET Fds, zombies : Nat, pending : BOOLEAN, handler : BOOLEAN, reaping : BOOLEAN,
           forked : BOOLEAN]

\* tcp_process_server.cpp
LEMMA ProcessSteps ==
    ASSUME ServerInv,
           ProcessAccept \/ ProcessHandler \/ ProcessSignal \/ ProcessReap \/ \E f \in Fds : ProcessRead(f)
    PROVE  ServerInv'
<1>1. prog = "process" /\ prog \in Plain /\ TRUE \in BOOLEAN
  BY DEF ProcessAccept, ProcessHandler, ProcessSignal, ProcessReap, ProcessRead, Plain
<1>2. /\ KernelOK(k, None, prog \in Clearing) /\ ReadyIn(k, ready, pc, cur) /\ MemOK
      /\ ready = {} /\ pc # "loop"
  BY <1>1, PlainInv
<1>3. mem \in Family /\ (mem.zombies > 0 => mem.pending \/ mem.reaping)
  BY <1>1, <1>2 DEF MemOK, Family
<1>4. ASSUME prog' = "process", mem' \in Family, mem'.zombies > 0 => mem'.pending \/ mem'.reaping
      PROVE  MemOK'
  BY <1>4 DEF MemOK, Family
<1>5. prog' = prog /\ ready' = {} /\ cur' = cur /\ pc' = pc /\ pc' # "loop"
  BY <1>2 DEF ProcessAccept, ProcessHandler, ProcessSignal, ProcessReap, ProcessRead
<1>6. CASE ProcessAccept
  <2>1. k' = Accept(k) /\ mem' = [mem EXCEPT !.kids = @ \cup {FreeFd(k)}, !.forked = TRUE]
    BY <1>6 DEF ProcessAccept
  <2>2. k.backlog # <<>> /\ FreeFds(k) # {}
    BY <1>6, ReadableFacts DEF ProcessAccept
  <2>3. /\ KernelOK(k', None, prog \in Clearing) /\ FreeFd(k) \in Fds
        /\ \A f \in Fds : Open(k', f) <=> f = FreeFd(k) \/ Open(k, f)
    BY <1>1, <2>1, <2>2, PlainAccept
  <2>4. ReadyIn(k', ready', pc', cur')
    BY <1>2, <1>5, <2>3 DEF ReadyIn, Open
  <2>5. mem' \in Family /\ (mem'.zombies > 0 => mem'.pending \/ mem'.reaping)
    BY <1>3, <2>1, <2>3 DEF Family
  <2>. QED  BY <1>1, <1>4, <1>5, <2>3, <2>4, <2>5, PlainStep
<1>7. CASE ProcessHandler \/ ProcessSignal \/ ProcessReap
  <2>1. k' = k
    BY <1>7 DEF ProcessHandler, ProcessSignal, ProcessReap
  <2>2. ReadyIn(k', ready', pc', cur')
    BY <1>2, <1>5, <2>1
  <2>3. mem' \in Family /\ (mem'.zombies > 0 => mem'.pending \/ mem'.reaping)
    <3>1. CASE ProcessSignal
      BY <1>3, <3>1 DEF ProcessSignal, Family
    <3>2. CASE ProcessReap
      <4>1. CASE mem.zombies > 0
        <5>1. mem.reaping /\ mem' = [mem EXCEPT !.zombies = mem.zombies - 1]
          BY <3>2, <4>1 DEF ProcessReap
        <5>2. mem.zombies \in Nat /\ mem.zombies - 1 \in Nat
          BY <1>3, <4>1 DEF Family
        <5>. QED  BY <1>3, <5>1, <5>2 DEF Family
      <4>2. CASE ~(mem.zombies > 0)
        <5>1. mem' = [mem EXCEPT !.reaping = FALSE]
          BY <3>2, <4>2 DEF ProcessReap
        <5>. QED  BY <1>3, <4>2, <5>1 DEF Family
      <4>. QED  BY <4>1, <4>2
    <3>3. CASE ProcessHandler
      BY <1>3, <3>3 DEF ProcessHandler, Family
    <3>. QED  BY <1>7, <3>1, <3>2, <3>3
  <2>. QED  BY <1>1, <1>2, <1>4, <1>5, <2>1, <2>2, <2>3, PlainStep
<1>8. CASE \E f \in Fds : ProcessRead(f)
  <2>1. PICK f \in Fds : ProcessRead(f)
    BY <1>8
  <2>2. Open(k, f)
    BY <2>1, ReadableFacts DEF ProcessRead
  <2>3. CASE Result(k, f) = "data"
    <3>1. k' = Echo(k, f, TRUE) /\ mem' = mem
      BY <2>1, <2>3 DEF ProcessRead
    <3>2. KernelOK(k', None, prog \in Clearing) /\ SameConnections(k, k')
      BY <1>1, <1>2, <2>2, <2>3, <3>1, PlainEcho
    <3>3. ReadyIn(k', ready', pc', cur')
      BY <1>2, <1>5, <3>2, ReadySame
    <3>. QED  BY <1>1, <1>3, <1>4, <1>5, <3>1, <3>2, <3>3, PlainStep
  <2>4. CASE Result(k, f) # "data"
    <3>1. /\ k' = Close(k, f)
          /\ mem' = [mem EXCEPT !.kids = @ \ {f}, !.zombies = @ + 1, !.pending = TRUE]
      BY <2>1, <2>4 DEF ProcessRead
    <3>2. KernelOK(k', None, prog \in Clearing)
      BY <1>1, <2>2, <3>1, PlainClose
    <3>3. ReadyIn(k', ready', pc', cur')
      BY <1>5 DEF ReadyIn
    <3>4. mem.zombies + 1 \in Nat
      BY <1>3 DEF Family
    <3>5. mem' \in Family /\ mem'.pending
      BY <1>3, <3>1, <3>4 DEF Family
    <3>6. MemOK'
      BY <1>1, <1>4, <1>5, <3>5
    <3>. QED  BY <1>1, <1>5, <3>2, <3>3, <3>6, PlainStep
  <2>. QED  BY <2>3, <2>4
<1>. QED  BY <1>6, <1>7, <1>8

-----------------------------------------------------------------------------
(* select_advance.cpp and poll.cpp: the clients are in an array.           *)

\* ArrayOK of kernel s, table t and last entry m.
ArrayIn(s, t, m) ==
    /\ t \in [1..MaxFd -> Fds \cup {-1}] /\ m \in 0..MaxFd
    /\ \A i, j \in 1..MaxFd : t[i] = t[j] /\ i # j => t[i] = -1
    /\ \A i \in 1..MaxFd : t[i] # -1 => i <= m /\ Open(s, t[i])
    /\ \A f \in Fds : Open(s, f) => \E i \in 1..MaxFd : t[i] = f

\* This is what ArrayOK says.
LEMMA ArrayFacts ==
    /\ ArrayOK <=> ArrayIn(k, mem.client, mem.maxi)
    /\ ArrayOK' <=> ArrayIn(k', mem'.client, mem'.maxi)
BY DEF ArrayOK, ArrayIn, Opened, Open

\* Where there is a free descriptor there is a free entry: otherwise MaxFd entries
\* would hold different descriptors out of fewer than MaxFd.
LEMMA FreeSlotFacts ==
    ASSUME NEW s, NEW t, NEW m, ArrayIn(s, t, m), NEW g \in Fds, ~Open(s, g)
    PROVE  FreeSlot(t) \in 1..MaxFd /\ t[FreeSlot(t)] = -1
<1>1. t \in [1..MaxFd -> Fds \cup {-1}]
  BY DEF ArrayIn
<1>2. PICK T : T = {i \in DOMAIN t : t[i] = -1}
  OBVIOUS
<1>3. T # {}
  <2>. SUFFICES ASSUME T = {} PROVE FALSE
    OBVIOUS
  <2>1. \A i \in 1..MaxFd : t[i] # -1
    BY <1>1, <1>2
  <2>2. \A i \in 1..MaxFd : t[i] \in Fds \ {g}
    BY <1>1, <2>1 DEF ArrayIn
  <2>3. t \in [1..MaxFd -> Fds \ {g}]
    BY <1>1, <2>2
  <2>4. MaxFd \in Nat /\ MaxFd >= 1 /\ 1 \in Int /\ 2 \in Int /\ MaxFd + 1 \in Int
    BY SocketsAssumption
  <2>5. IsFiniteSet(1..MaxFd) /\ Cardinality(1..MaxFd) = MaxFd
    BY <2>4, FS_Interval
  <2>6. IsFiniteSet(Fds) /\ Cardinality(Fds) = MaxFd
    BY <2>4, FS_Interval DEF Fds
  <2>7. IsFiniteSet(Fds \ {g}) /\ Cardinality(Fds \ {g}) = MaxFd - 1
    BY <2>6, FS_RemoveElement
  <2>8. Cardinality(Fds \ {g}) < Cardinality(1..MaxFd)
    BY <2>4, <2>5, <2>7
  <2>9. PICK x, y \in 1..MaxFd : x # y /\ t[x] = t[y]
    BY <2>3, <2>5, <2>7, <2>8, FS_PigeonHole
  <2>. QED  BY <2>1, <2>9 DEF ArrayIn
<1>4. T \in SUBSET Nat
  BY <1>1, <1>2
<1>5. Min(T) \in T
  BY <1>3, <1>4, MinFacts
<1>6. FreeSlot(t) = Min(T)
  BY <1>2 DEF FreeSlot
<1>. QED  BY <1>1, <1>2, <1>5, <1>6

\* An entry is taken, and given back.
LEMMA ArrayAccepted ==
    ASSUME NEW s, NEW t, NEW m, ArrayIn(s, t, m), NEW i \in 1..MaxFd, t[i] = -1,
           NEW g \in Fds, ~Open(s, g), NEW u, \A f \in Fds : Open(u, f) <=> f = g \/ Open(s, f)
    PROVE  ArrayIn(u, [t EXCEPT ![i] = g], IF i > m THEN i ELSE m)
<1>1. t \in [1..MaxFd -> Fds \cup {-1}] /\ m \in 0..MaxFd
  BY DEF ArrayIn
<1>2. PICK v \in [1..MaxFd -> Fds \cup {-1}] : v = [t EXCEPT ![i] = g]
  BY <1>1
<1>3. v[i] = g /\ \A j \in 1..MaxFd \ {i} : v[j] = t[j]
  BY <1>1, <1>2
<1>4. MaxFd \in Nat
  BY SocketsAssumption
<1>5. PICK n \in 0..MaxFd : n = (IF i > m THEN i ELSE m) /\ i <= n /\ m <= n
  <2>1. i \in Int /\ m \in Int /\ i \in 0..MaxFd
    BY <1>1, <1>4
  <2>. QED  BY <1>1, <1>4, <2>1
<1>6. g # -1
  BY FdFacts
<1>7. \A j \in 1..MaxFd : t[j] # g
  BY <1>6 DEF ArrayIn
<1>8. ASSUME NEW a \in 1..MaxFd, NEW b \in 1..MaxFd, v[a] = v[b], a # b PROVE v[a] = -1
  BY <1>3, <1>7, <1>8 DEF ArrayIn
<1>9. ASSUME NEW j \in 1..MaxFd, v[j] # -1 PROVE j <= n /\ Open(u, v[j])
  <2>1. CASE j = i
    BY <1>3, <1>5, <2>1
  <2>2. CASE j # i
    <3>1. t[j] # -1 /\ v[j] = t[j]
      BY <1>3, <1>9, <2>2
    <3>2. j <= m /\ Open(s, t[j]) /\ t[j] \in Fds
      BY <1>1, <3>1 DEF ArrayIn
    <3>3. j <= n
      <4>1. j \in Int /\ m \in Int /\ n \in Int
        BY <1>1, <1>4
      <4>. QED  BY <1>5, <3>2, <4>1
    <3>. QED  BY <3>1, <3>2, <3>3
  <2>. QED  BY <2>1, <2>2
<1>10. ASSUME NEW f \in Fds, Open(u, f) PROVE \E j \in 1..MaxFd : v[j] = f
  <2>1. CASE f = g
    BY <1>3, <2>1
  <2>2. CASE f # g
    <3>1. PICK j \in 1..MaxFd : t[j] = f
      BY <1>10, <2>2 DEF ArrayIn
    <3>2. f # -1
      BY FdFacts
    <3>. QED  BY <1>3, <3>1, <3>2
  <2>. QED  BY <2>1, <2>2
<1>11. ArrayIn(u, v, n)
  BY <1>8, <1>9, <1>10 DEF ArrayIn
<1>. QED  BY <1>2, <1>5, <1>11

\* A client that leaves gives its entry back.
LEMMA ArrayClosed ==
    ASSUME NEW s, NEW t, NEW m, ArrayIn(s, t, m), NEW i \in 1..MaxFd, t[i] \in Fds,
           NEW u, \A g \in Fds : Open(u, g) <=> g # t[i] /\ Open(s, g)
    PROVE  ArrayIn(u, [t EXCEPT ![i] = -1], m)
<1>1. t \in [1..MaxFd -> Fds \cup {-1}] /\ m \in 0..MaxFd
  BY DEF ArrayIn
<1>2. PICK v \in [1..MaxFd -> Fds \cup {-1}] : v = [t EXCEPT ![i] = -1]
  BY <1>1
<1>3. v[i] = -1 /\ \A j \in 1..MaxFd \ {i} : v[j] = t[j]
  BY <1>1, <1>2
<1>4. PICK f \in Fds : f = t[i] /\ f # -1
  BY FdFacts
<1>5. ASSUME NEW a \in 1..MaxFd, NEW b \in 1..MaxFd, v[a] = v[b], a # b PROVE v[a] = -1
  BY <1>3, <1>5 DEF ArrayIn
<1>6. ASSUME NEW j \in 1..MaxFd, v[j] # -1 PROVE j <= m /\ Open(u, v[j])
  <2>1. j # i /\ t[j] # -1 /\ v[j] = t[j]
    BY <1>3, <1>6
  <2>2. j <= m /\ Open(s, t[j]) /\ t[j] \in Fds /\ t[j] # f
    BY <1>1, <1>4, <2>1 DEF ArrayIn
  <2>. QED  BY <1>4, <2>1, <2>2
<1>7. ASSUME NEW g \in Fds, Open(u, g) PROVE \E j \in 1..MaxFd : v[j] = g
  <2>1. g # f /\ Open(s, g)
    BY <1>4, <1>7
  <2>2. PICK j \in 1..MaxFd : t[j] = g
    BY <2>1 DEF ArrayIn
  <2>. QED  BY <1>3, <1>4, <2>1, <2>2
<1>8. ArrayIn(u, v, m)
  BY <1>1, <1>5, <1>6, <1>7 DEF ArrayIn
<1>. QED  BY <1>2, <1>8

\* The tables of select_advance.cpp.
Tables == [set : SUBSET Watched, maxfd : Watched, client : [1..MaxFd -> Fds \cup {-1}], maxi : 0..MaxFd]

\* select_advance.cpp
LEMMA ArraySteps ==
    ASSUME ServerInv, ArrayWait \/ ArrayAccept \/ \E i \in 1..MaxFd : ArrayRead(i)
    PROVE  ServerInv'
<1>1. prog = "array" /\ prog \in Plain /\ TRUE \in BOOLEAN
  BY DEF ArrayWait, ArrayAccept, ArrayRead, Plain
<1>2. KernelOK(k, None, prog \in Clearing) /\ ReadyIn(k, ready, pc, cur) /\ MemOK
  BY <1>1, PlainInv
<1>3. mem \in Tables /\ mem.set \ {Listener} = Opened /\ ArrayIn(k, mem.client, mem.maxi)
  BY <1>1, <1>2, ArrayFacts DEF MemOK, Tables
<1>4. ASSUME prog' = "array", mem' \in Tables, mem'.set \ {Listener} = Opened',
             ArrayIn(k', mem'.client, mem'.maxi)
      PROVE  MemOK'
  BY <1>4, ArrayFacts DEF MemOK, Tables
<1>5. CASE ArrayWait
  <2>1. mem.set \in SUBSET Watched
    BY <1>3 DEF Tables
  <2>. QED  BY <1>1, <1>5, <2>1, SelectedFacts, WaitStep DEF ArrayWait
<1>6. CASE ArrayAccept
  <2>1. /\ prog' = prog /\ pc = "wait" /\ Listener \in ready /\ ready' = ready \ {Listener} /\ cur' = cur
    BY <1>6 DEF ArrayAccept, Visit, Take
  <2>2. CASE FreeFds(k) = {}
    <3>1. pc' = "stopped" /\ k' = k /\ mem' = mem
      BY <1>6, <2>2 DEF ArrayAccept, AcceptOrExit
    <3>2. ReadyIn(k', ready', pc', cur')
      BY <1>2, <2>1, <3>1, ReadyEnded
    <3>3. MemOK'
      BY <1>1, <1>3, <1>4, <2>1, <3>1 DEF Opened
    <3>. QED  BY <1>1, <1>2, <2>1, <3>1, <3>2, <3>3, PlainStep
  <2>3. CASE FreeFds(k) # {}
    <3>1. k.backlog # <<>>
      BY <1>2, <2>1 DEF ReadyIn
    <3>2. /\ pc' = "wait" /\ k' = Accept(k)
          /\ mem' = [Added(mem, FreeFd(k)) EXCEPT
                        !.client[FreeSlot(mem.client)] = FreeFd(k),
                        !.maxi = IF FreeSlot(mem.client) > @ THEN FreeSlot(mem.client) ELSE @]
      BY <1>6, <2>1, <2>3 DEF ArrayAccept, AcceptOrExit
    <3>3. /\ KernelOK(k', None, prog \in Clearing) /\ FreeFd(k) \in Fds /\ ~Open(k, FreeFd(k))
          /\ \A f \in Fds : Open(k', f) <=> f = FreeFd(k) \/ Open(k, f)
          /\ Opened' = Opened \cup {FreeFd(k)}
      BY <1>1, <2>3, <3>1, <3>2, PlainAccept
    <3>4. ReadyIn(k', ready', pc', cur')
      BY <1>2, <2>1, <3>2, <3>3, ReadyAccepted
    <3>5. PICK g \in Fds : g = FreeFd(k)
      BY <3>3
    <3>6. PICK i \in 1..MaxFd : i = FreeSlot(mem.client) /\ mem.client[i] = -1
      BY <1>3, <3>3, <3>5, FreeSlotFacts
    <3>7. PICK v : v = [mem.client EXCEPT ![i] = g]
      OBVIOUS
    <3>8. PICK n : n = IF i > mem.maxi THEN i ELSE mem.maxi
      OBVIOUS
    <3>9. ArrayIn(k', v, n)
      BY <1>3, <3>3, <3>5, <3>6, <3>7, <3>8, ArrayAccepted
    <3>10. v \in [1..MaxFd -> Fds \cup {-1}] /\ n \in 0..MaxFd
      BY <3>9 DEF ArrayIn
    <3>11. PICK z \in SUBSET Watched : z = mem.set \cup {g}
      BY <1>3, FdFacts DEF Tables
    <3>12. PICK h \in Watched : h = IF g > mem.maxfd THEN g ELSE mem.maxfd
      BY <1>3, FdFacts DEF Tables
    <3>13. mem' = [set |-> z, maxfd |-> h, client |-> v, maxi |-> n]
      BY <1>3, <3>2, <3>5, <3>6, <3>7, <3>8, <3>11, <3>12 DEF Added, Tables
    <3>14. g # Listener
      BY FdFacts
    <3>15. mem' \in Tables /\ mem'.set \ {Listener} = Opened' /\ mem'.client = v /\ mem'.maxi = n
      BY <1>3, <3>3, <3>5, <3>10, <3>11, <3>13, <3>14 DEF Tables
    <3>16. MemOK'
      BY <1>1, <1>4, <2>1, <3>9, <3>15
    <3>. QED  BY <1>1, <2>1, <3>3, <3>4, <3>16, PlainStep
  <2>. QED  BY <2>2, <2>3
<1>7. CASE \E i \in 1..MaxFd : ArrayRead(i)
  <2>1. PICK i \in 1..MaxFd : ArrayRead(i)
    BY <1>7
  <2>2. PICK f : f = mem.client[i]
    OBVIOUS
  <2>3. /\ prog' = prog /\ pc = "wait" /\ f \in ready /\ ready' = ready \ {f} /\ pc' = pc /\ cur' = cur
        /\ Readable(k, f)
    BY <2>1, <2>2 DEF ArrayRead, Take
  <2>4. f \in Fds
    <3>1. f \in Fds \cup {-1}
      BY <1>3, <2>2 DEF ArrayIn
    <3>2. f # -1
      BY <1>2, <2>3, FdFacts DEF ReadyIn
    <3>. QED  BY <3>1, <3>2
  <2>5. Open(k, f)
    BY <1>2, <2>3, <2>4 DEF ReadyIn
  <2>6. CASE Result(k, f) = "data"
    <3>1. k' = Echo(k, f, TRUE) /\ mem' = mem
      BY <2>1, <2>2, <2>6 DEF ArrayRead
    <3>2. KernelOK(k', None, prog \in Clearing) /\ SameConnections(k, k')
      BY <1>1, <1>2, <2>4, <2>5, <2>6, <3>1, PlainEcho
    <3>3. ReadyIn(k', ready', pc', cur')
      BY <1>2, <2>3, <3>2, ReadySame
    <3>4. ArrayIn(k', mem.client, mem.maxi)
      BY <1>3, <3>2 DEF ArrayIn, SameConnections, Open
    <3>5. MemOK'
      BY <1>1, <1>3, <1>4, <2>3, <3>1, <3>2, <3>4, OpenedSame
    <3>. QED  BY <1>1, <2>3, <3>2, <3>3, <3>5, PlainStep
  <2>7. CASE Result(k, f) = "eof"
    <3>1. k' = Close(k, f) /\ mem' = [Dropped(mem, f) EXCEPT !.client[i] = -1]
      BY <2>1, <2>2, <2>7 DEF ArrayRead
    <3>2. /\ KernelOK(k', None, prog \in Clearing) /\ k'.backlog = k.backlog
          /\ \A g \in Fds : Open(k', g) <=> g # f /\ Open(k, g)
          /\ Opened' = Opened \ {f}
      BY <1>1, <2>4, <2>5, <3>1, PlainClose
    <3>3. ReadyIn(k', ready', pc', cur')
      BY <1>2, <2>3, <3>2, ReadyClosed
    <3>4. PICK v : v = [mem.client EXCEPT ![i] = -1]
      OBVIOUS
    <3>5. ArrayIn(k', v, mem.maxi)
      BY <1>3, <2>2, <2>4, <3>2, <3>4, ArrayClosed
    <3>6. v \in [1..MaxFd -> Fds \cup {-1}]
      BY <3>5 DEF ArrayIn
    <3>7. PICK z \in SUBSET Watched : z = mem.set \ {f}
      BY <1>3 DEF Tables
    <3>8. mem' = [set |-> z, maxfd |-> mem.maxfd, client |-> v, maxi |-> mem.maxi]
      BY <1>3, <3>1, <3>4, <3>7 DEF Dropped, Tables
    <3>9. mem' \in Tables /\ mem'.set \ {Listener} = Opened' /\ mem'.client = v /\ mem'.maxi = mem.maxi
      BY <1>3, <3>2, <3>6, <3>7, <3>8 DEF Tables
    <3>10. MemOK'
      BY <1>1, <1>4, <2>3, <3>5, <3>9
    <3>. QED  BY <1>1, <2>3, <3>2, <3>3, <3>10, PlainStep
  <2>8. CASE Result(k, f) = "error"
    <3>1. k' = Read(k, f) /\ mem' = mem
      BY <2>1, <2>2, <2>8 DEF ArrayRead
    <3>2. KernelOK(k', None, prog \in Clearing) /\ SameConnections(k, k')
      BY <1>1, <1>2, <2>4, <2>5, <2>8, <3>1, ReadEndOK
    <3>3. ReadyIn(k', ready', pc', cur')
      BY <1>2, <2>3, <3>2, ReadySame
    <3>4. ArrayIn(k', mem.client, mem.maxi)
      BY <1>3, <3>2 DEF ArrayIn, SameConnections, Open
    <3>5. MemOK'
      BY <1>1, <1>3, <1>4, <2>3, <3>1, <3>2, <3>4, OpenedSame
    <3>. QED  BY <1>1, <2>3, <3>2, <3>3, <3>5, PlainStep
  <2>9. Result(k, f) \in {"data", "eof", "error"}
    <3>1. f # Listener /\ f # Udp
      BY <2>4, FdFacts
    <3>2. Result(k, f) # "again"
      BY <2>3, <3>1 DEF Readable
    <3>. QED  BY <3>2 DEF Result
  <2>. QED  BY <2>6, <2>7, <2>8, <2>9
<1>. QED  BY <1>5, <1>6, <1>7

\* The table of poll.cpp.
Polled == [client : [1..MaxFd -> Fds \cup {-1}], maxi : 0..MaxFd]

\* poll.cpp
LEMMA PollSteps ==
    ASSUME ServerInv, PollWait \/ PollAccept \/ \E i \in 1..MaxFd : PollRead(i)
    PROVE  ServerInv'
<1>1. prog = "poll" /\ prog \in Plain /\ TRUE \in BOOLEAN
  BY DEF PollWait, PollAccept, PollRead, Plain
<1>2. KernelOK(k, None, prog \in Clearing) /\ ReadyIn(k, ready, pc, cur) /\ MemOK
  BY <1>1, PlainInv
<1>3. mem \in Polled /\ ArrayIn(k, mem.client, mem.maxi)
  BY <1>1, <1>2, ArrayFacts DEF MemOK, Polled
<1>4. ASSUME prog' = "poll", mem' \in Polled, ArrayIn(k', mem'.client, mem'.maxi)
      PROVE  MemOK'
  BY <1>4, ArrayFacts DEF MemOK, Polled
<1>5. CASE PollWait
  <2>1. PICK fs : fs = {f \in {Listener} \cup ({mem.client[i] : i \in 1..mem.maxi} \ {-1}) : Readable(k, f)}
    OBVIOUS
  <2>2. \A i \in 1..mem.maxi : mem.client[i] \in Fds \cup {-1}
    <3>1. 1..mem.maxi \subseteq 1..MaxFd
      BY <1>3, SocketsAssumption DEF Polled
    <3>. QED  BY <1>3, <3>1 DEF Polled
  <2>3. fs \subseteq Watched /\ \A f \in fs : Readable(k, f)
    BY <2>1, <2>2, FdFacts
  <2>4. /\ Listener \in fs => k.backlog # <<>>
        /\ \A f \in fs \cap Fds : Open(k, f)
    BY <2>3, ReadableFacts
  <2>. QED  BY <1>1, <1>5, <2>1, <2>3, <2>4, WaitStep DEF PollWait
<1>6. CASE PollAccept
  <2>1. /\ prog' = prog /\ pc = "wait" /\ Listener \in ready /\ cur' = cur
    BY <1>6 DEF PollAccept
  <2>2. CASE FreeFds(k) = {}
    <3>1. pc' = "stopped" /\ k' = k /\ mem' = mem /\ ready' = ready \ {Listener}
      BY <1>6, <2>2 DEF PollAccept, AcceptOrExit
    <3>2. ReadyIn(k', ready', pc', cur')
      BY <1>2, <2>1, <3>1, ReadyEnded
    <3>3. MemOK'
      BY <1>1, <1>3, <1>4, <2>1, <3>1
    <3>. QED  BY <1>1, <1>2, <2>1, <3>1, <3>2, <3>3, PlainStep
  <2>3. CASE FreeFds(k) # {}
    <3>1. k.backlog # <<>>
      BY <1>2, <2>1 DEF ReadyIn
    <3>2. /\ pc' = "wait" /\ k' = Accept(k)
          /\ mem' = [mem EXCEPT
                        !.client[FreeSlot(mem.client)] = FreeFd(k),
                        !.maxi = IF FreeSlot(mem.client) > @ THEN FreeSlot(mem.client) ELSE @]
      BY <1>6, <2>1, <2>3 DEF PollAccept, AcceptOrExit
    <3>s. ready' \subseteq (ready \ {Listener}) \cup {FreeFd(k)}
      BY <1>6 DEF PollAccept
    <3>3. /\ KernelOK(k', None, prog \in Clearing) /\ FreeFd(k) \in Fds /\ ~Open(k, FreeFd(k))
          /\ \A f \in Fds : Open(k', f) <=> f = FreeFd(k) \/ Open(k, f)
      BY <1>1, <2>3, <3>1, <3>2, PlainAccept
    <3>5. PICK g \in Fds : g = FreeFd(k)
      BY <3>3
    <3>4. ReadyIn(k', ready', pc', cur')
      <4>1. g # Listener /\ g \in Watched
        BY FdFacts
      <4>2. Listener \notin ready' /\ ready' \subseteq Watched
        BY <1>2, <3>s, <3>5, <4>1 DEF ReadyIn
      <4>3. \A f \in ready' \cap Fds : Open(k', f)
        BY <1>2, <3>s, <3>3 DEF ReadyIn
      <4>. QED  BY <3>2, <4>2, <4>3 DEF ReadyIn
    <3>6. PICK i \in 1..MaxFd : i = FreeSlot(mem.client) /\ mem.client[i] = -1
      BY <1>3, <3>3, <3>5, FreeSlotFacts
    <3>7. PICK v : v = [mem.client EXCEPT ![i] = g]
      OBVIOUS
    <3>8. PICK n : n = IF i > mem.maxi THEN i ELSE mem.maxi
      OBVIOUS
    <3>9. ArrayIn(k', v, n)
      BY <1>3, <3>3, <3>5, <3>6, <3>7, <3>8, ArrayAccepted
    <3>10. v \in [1..MaxFd -> Fds \cup {-1}] /\ n \in 0..MaxFd
      BY <3>9 DEF ArrayIn
    <3>11. mem' = [client |-> v, maxi |-> n]
      BY <1>3, <3>2, <3>5, <3>6, <3>7, <3>8 DEF Polled
    <3>12. mem' \in Polled /\ mem'.client = v /\ mem'.maxi = n
      BY <3>10, <3>11 DEF Polled
    <3>13. MemOK'
      BY <1>1, <1>4, <2>1, <3>9, <3>12
    <3>. QED  BY <1>1, <2>1, <3>3, <3>4, <3>13, PlainStep
  <2>. QED  BY <2>2, <2>3
<1>7. CASE \E i \in 1..MaxFd : PollRead(i)
  <2>1. PICK i \in 1..MaxFd : PollRead(i)
    BY <1>7
  <2>2. PICK f : f = mem.client[i]
    OBVIOUS
  <2>3. /\ prog' = prog /\ pc = "wait" /\ f \in ready /\ ready' = ready \ {f} /\ cur' = cur
        /\ Readable(k, f)
    BY <2>1, <2>2 DEF PollRead, Take
  <2>4. f \in Fds
    <3>1. f \in Fds \cup {-1}
      BY <1>3, <2>2 DEF ArrayIn
    <3>2. f # -1
      BY <1>2, <2>3, FdFacts DEF ReadyIn
    <3>. QED  BY <3>1, <3>2
  <2>5. Open(k, f)
    BY <1>2, <2>3, <2>4 DEF ReadyIn
  <2>6. CASE Result(k, f) = "data"
    <3>1. k' = Echo(k, f, TRUE) /\ mem' = mem /\ pc' = pc
      BY <2>1, <2>2, <2>6 DEF PollRead
    <3>2. KernelOK(k', None, prog \in Clearing) /\ SameConnections(k, k')
      BY <1>1, <1>2, <2>4, <2>5, <2>6, <3>1, PlainEcho
    <3>3. ReadyIn(k', ready', pc', cur')
      BY <1>2, <2>3, <3>1, <3>2, ReadySame
    <3>4. ArrayIn(k', mem.client, mem.maxi)
      BY <1>3, <3>2 DEF ArrayIn, SameConnections, Open
    <3>5. MemOK'
      BY <1>1, <1>3, <1>4, <2>3, <3>1, <3>4
    <3>. QED  BY <1>1, <2>3, <3>2, <3>3, <3>5, PlainStep
  <2>7. CASE Result(k, f) = "eof"
    <3>1. k' = Close(k, f) /\ mem' = [mem EXCEPT !.client[i] = -1] /\ pc' = pc
      BY <2>1, <2>2, <2>7 DEF PollRead
    <3>2. /\ KernelOK(k', None, prog \in Clearing) /\ k'.backlog = k.backlog
          /\ \A g \in Fds : Open(k', g) <=> g # f /\ Open(k, g)
      BY <1>1, <2>4, <2>5, <3>1, PlainClose
    <3>3. ReadyIn(k', ready', pc', cur')
      BY <1>2, <2>3, <3>1, <3>2, ReadyClosed
    <3>4. PICK v : v = [mem.client EXCEPT ![i] = -1]
      OBVIOUS
    <3>5. ArrayIn(k', v, mem.maxi)
      BY <1>3, <2>2, <2>4, <3>2, <3>4, ArrayClosed
    <3>6. v \in [1..MaxFd -> Fds \cup {-1}]
      BY <3>5 DEF ArrayIn
    <3>7. mem' = [client |-> v, maxi |-> mem.maxi]
      BY <1>3, <3>1, <3>4 DEF Polled
    <3>8. mem' \in Polled /\ mem'.client = v /\ mem'.maxi = mem.maxi
      BY <1>3, <3>6, <3>7 DEF Polled
    <3>9. MemOK'
      BY <1>1, <1>4, <2>3, <3>5, <3>8
    <3>. QED  BY <1>1, <2>3, <3>2, <3>3, <3>9, PlainStep
  <2>8. CASE Result(k, f) = "error"
    <3>1. k' = k /\ mem' = mem /\ pc' = "stopped"
      BY <2>1, <2>2, <2>8 DEF PollRead
    <3>2. ReadyIn(k', ready', pc', cur')
      BY <1>2, <2>3, <3>1, ReadyEnded
    <3>3. MemOK'
      BY <1>1, <1>3, <1>4, <2>3, <3>1
    <3>. QED  BY <1>1, <1>2, <2>3, <3>1, <3>2, <3>3, PlainStep
  <2>9. Result(k, f) \in {"data", "eof", "error"}
    <3>1. f # Listener /\ f # Udp
      BY <2>4, FdFacts
    <3>2. Result(k, f) # "again"
      BY <2>3, <3>1 DEF Readable
    <3>. QED  BY <3>2 DEF Result
  <2>. QED  BY <2>6, <2>7, <2>8, <2>9
<1>. QED  BY <1>5, <1>6, <1>7

-----------------------------------------------------------------------------
(* udp_tcp_select_server.cpp, which closes its own listener.               *)

\* The listener is closed, and the connections that wait are lost.
LEMMA UnlistenOK ==
    ASSUME NEW s, NEW held, NEW clearing, KernelOK(s, held, clearing)
    PROVE  /\ KernelOK([s EXCEPT !.listening = FALSE, !.backlog = <<>>], held, clearing)
           /\ [s EXCEPT !.listening = FALSE, !.backlog = <<>>].desc = s.desc
<1>1. s \in KernelType /\ WatchOK(s) /\ ConnectionsOK(s)
  BY DEF KernelOK
<1>2. PICK t : t = [s EXCEPT !.listening = FALSE, !.backlog = <<>>]
  OBVIOUS
<1>3. t \in KernelType
  <2>1. <<>> \in Seq(Clients)
    OBVIOUS
  <2>. QED  BY <1>1, <1>2, <2>1 DEF KernelType, KernelOf
<1>4. /\ SameStreams(s, t) /\ t.watch = s.watch /\ t.desc = s.desc /\ t.came = s.came
      /\ t.backlog = <<>>
  BY <1>1, <1>2 DEF KernelType, KernelOf, SameStreams
<1>5. WatchOK(t)
  BY <1>1, <1>4 DEF WatchOK, Open
<1>6. ConnectionsOK(t)
  BY <1>1, <1>4 DEF ConnectionsOK, Open
<1>7. StreamsOK(t, held) /\ AnswersOK(t, clearing)
  BY <1>4 DEF KernelOK, StreamsOK, AnswersOK, SameStreams
<1>8. KernelOK(t, held, clearing)
  BY <1>3, <1>5, <1>6, <1>7 DEF KernelOK
<1>. QED  BY <1>2, <1>4, <1>8

\* The steps of udp_tcp_select_server.cpp.
LEMMA UdpTcpSteps ==
    ASSUME ServerInv,
           UdpTcpWait \/ UdpTcpAccept \/ UdpTcpRecvfrom \/ \E f \in Watched : UdpTcpRead(f)
    PROVE  ServerInv'
<1>1. prog = "udptcp" /\ prog \in Plain /\ TRUE \in BOOLEAN /\ prog' = prog
  BY DEF UdpTcpWait, UdpTcpAccept, UdpTcpRecvfrom, UdpTcpRead, Plain, Wait
<1>2. KernelOK(k, None, prog \in Clearing) /\ ReadyIn(k, ready, pc, cur) /\ MemOK
  BY <1>1, PlainInv
<1>3. mem \in Sets
  BY <1>1, <1>2 DEF MemOK, Sets
<1>4. ASSUME mem' \in Sets PROVE MemOK'
  BY <1>1, <1>4 DEF MemOK, Sets
<1>5. CASE UdpTcpWait
  <2>1. mem.set \in SUBSET Watched
    BY <1>3 DEF Sets
  <2>. QED  BY <1>1, <1>5, <2>1, SelectedFacts, WaitStep DEF UdpTcpWait
<1>6. CASE UdpTcpAccept
  <2>1. pc = "wait" /\ Listener \in ready /\ cur' = cur
    BY <1>6 DEF UdpTcpAccept
  <2>2. CASE FreeFds(k) = {}
    <3>1. pc' = "stopped" /\ k' = k /\ mem' = mem /\ ready' = ready
      BY <1>6, <2>2 DEF UdpTcpAccept
    <3>2. ReadyIn(k', ready', pc', cur')
      BY <1>2, <2>1, <3>1, ReadyEnded
    <3>. QED  BY <1>1, <1>2, <1>3, <1>4, <3>1, <3>2, PlainStep
  <2>3. CASE FreeFds(k) # {}
    <3>1. k' = Accept(k) /\ mem' = Added(mem, FreeFd(k))
      BY <1>6, <2>3 DEF UdpTcpAccept
    <3>2. k.backlog # <<>>
      BY <1>2, <2>1 DEF ReadyIn
    <3>3. /\ KernelOK(k', None, prog \in Clearing) /\ FreeFd(k) \in Fds
          /\ \A f \in Fds : Open(k', f) <=> f = FreeFd(k) \/ Open(k, f)
      BY <1>1, <2>3, <3>1, <3>2, PlainAccept
    <3>4. ReadyIn(k', ready', pc', cur')
      <4>1. (ready' = {} /\ pc' = "wait") \/ (ready' = ready /\ pc' = "scan")
        BY <1>6, <2>1, <2>3 DEF UdpTcpAccept
      <4>. QED  BY <1>2, <3>3, <4>1 DEF ReadyIn
    <3>5. MemOK'
      BY <1>3, <1>4, <3>1, <3>3, AddedFacts
    <3>. QED  BY <1>1, <3>3, <3>4, <3>5, PlainStep
  <2>. QED  BY <2>2, <2>3
<1>7. CASE UdpTcpRecvfrom
  <2>1. /\ pc = "recvfrom" /\ pc' \in {"wait", "stopped"} /\ cur' = Listener
        /\ ready' = ready /\ mem' = mem
    BY <1>7 DEF UdpTcpRecvfrom
  <2>2. PICK n \in Int : n = k.dgrams - 1
    <3>1. k.dgrams \in Int
      BY <1>2 DEF KernelOK, KernelType, KernelOf
    <3>. QED  BY <3>1
  <2>3. k' = k \/ k' = [k EXCEPT !.dgrams = n]
    BY <1>7, <2>2 DEF UdpTcpRecvfrom
  <2>4. KernelOK(k', None, prog \in Clearing)
    BY <1>2, <2>3, DatagramOK
  <2>5. ReadyIn(k', ready', pc', cur')
    BY <1>2, <2>1 DEF ReadyIn
  <2>. QED  BY <1>1, <1>3, <1>4, <2>1, <2>4, <2>5, PlainStep
<1>8. CASE \E f \in Watched : UdpTcpRead(f)
  <2>1. PICK f \in Watched : UdpTcpRead(f)
    BY <1>8
  <2>2. /\ f \in ready /\ ready' = ready \ {f} /\ pc' \in {"scan", "recvfrom", "wait"}
        /\ pc' # "scan" => ready' = {}
    BY <2>1 DEF UdpTcpRead
  <2>3. ASSUME \A g \in Fds \ {f} : Open(k, g) => Open(k', g)
        PROVE  ReadyIn(k', ready', pc', cur')
    BY <1>2, <2>2, <2>3 DEF ReadyIn
  <2>4. CASE f = Listener
    <3>1. k' = [k EXCEPT !.listening = FALSE, !.backlog = <<>>] /\ mem' = Dropped(mem, f)
      BY <2>1, <2>4, FdFacts DEF UdpTcpRead
    <3>2. KernelOK(k', None, prog \in Clearing) /\ k'.desc = k.desc
      BY <1>2, <3>1, UnlistenOK
    <3>3. ReadyIn(k', ready', pc', cur')
      BY <2>3, <3>2 DEF Open
    <3>4. MemOK'
      BY <1>3, <1>4, <3>1, DroppedFacts
    <3>. QED  BY <1>1, <3>2, <3>3, <3>4, PlainStep
  <2>5. CASE f = Udp
    <3>1. PICK n \in Int : n = k.dgrams - 1
      <4>1. k.dgrams \in Int
        BY <1>2 DEF KernelOK, KernelType, KernelOf
      <4>. QED  BY <4>1
    <3>2. k' = [k EXCEPT !.dgrams = n] /\ (mem' = mem \/ mem' = Dropped(mem, f))
      BY <2>1, <2>5, <3>1, FdFacts DEF UdpTcpRead
    <3>5. MemOK'
      BY <1>3, <1>4, <3>2, DroppedFacts
    <3>3. KernelOK(k', None, prog \in Clearing) /\ SameConnections(k, k')
      BY <1>2, <3>2, DatagramOK
    <3>4. ReadyIn(k', ready', pc', cur')
      BY <2>3, <3>3 DEF SameConnections, Open
    <3>. QED  BY <1>1, <3>3, <3>4, <3>5, PlainStep
  <2>6. CASE f \in Fds
    <3>0. Open(k, f) /\ f # Listener /\ f # Udp
      BY <1>2, <2>2, <2>6, FdFacts DEF ReadyIn
    <3>1. CASE Result(k, f) = "data"
      <4>1. k' = Echo(k, f, TRUE) /\ mem' = mem
        BY <2>1, <2>6, <3>0, <3>1 DEF UdpTcpRead
      <4>2. KernelOK(k', None, prog \in Clearing) /\ SameConnections(k, k')
        BY <1>1, <1>2, <2>6, <3>0, <3>1, <4>1, PlainEcho
      <4>3. ReadyIn(k', ready', pc', cur')
        BY <2>3, <4>2 DEF SameConnections, Open
      <4>. QED  BY <1>1, <1>3, <1>4, <4>1, <4>2, <4>3, PlainStep
    <3>2. CASE Result(k, f) # "data"
      <4>1. k' = Close(k, f) /\ mem' = Dropped(mem, f)
        BY <2>1, <2>6, <3>0, <3>2 DEF UdpTcpRead
      <4>2. /\ KernelOK(k', None, prog \in Clearing)
            /\ \A g \in Fds : Open(k', g) <=> g # f /\ Open(k, g)
        BY <1>1, <2>6, <3>0, <4>1, PlainClose
      <4>3. ReadyIn(k', ready', pc', cur')
        BY <2>3, <4>2
      <4>4. MemOK'
        BY <1>3, <1>4, <4>1, DroppedFacts
      <4>. QED  BY <1>1, <4>2, <4>3, <4>4, PlainStep
    <3>. QED  BY <3>1, <3>2
  <2>. QED  BY <2>4, <2>5, <2>6 DEF Watched
<1>. QED  BY <1>5, <1>6, <1>7, <1>8

-----------------------------------------------------------------------------
(* reactor.cpp.  The parts of the invariant, of kernel s and of a table of *)
(* size n with entries sl, of the entry at that epoll holds for each       *)
(* descriptor, and of the messages b.                                      *)

Entry == [fd : Fds \cup {Listener, -1}, ev : {"none", "in", "out"}]

EntryOK(s, n, sl, at, b, i) ==
    /\ sl[i].fd = Listener => i = n /\ sl[i].ev = "in"
    /\ sl[i].fd = -1 <=> sl[i].ev = "none"
    /\ sl[i].fd \in Fds => Open(s, sl[i].fd) /\ at[sl[i].fd] = i
    /\ sl[i].ev = "out" => b[i] = AnswerTo(s, sl[i].fd, TRUE)

SlotsType(n, sl, at, b) ==
    /\ n \in 1..MaxFd /\ sl \in [0..n -> Entry] /\ at \in [Watched -> 0..n]
    /\ b \in [0..n -> Answer \cup {Nobody}] /\ at[Listener] = n

SlotsIn(s, n, sl, at, b) ==
    /\ SlotsType(n, sl, at, b)
    /\ \A i \in 0..n : EntryOK(s, n, sl, at, b, i)
    /\ \A f \in Fds : Open(s, f) => sl[at[f]].fd = f

HoldsFor(s, sl, c, i) == sl[i].ev = "out" /\ s.desc[sl[i].fd] = c

HoldsAny(s, n, sl, c) == \E i \in 0..n : HoldsFor(s, sl, c, i)
HeldIn(s, n, sl) == [c \in Clients |-> IF HoldsAny(s, n, sl, c) THEN 1 ELSE 0]

SlotsReady(s, r, q, c, n, sl) ==
    /\ r \subseteq Watched
    /\ q \in {"wait", "loop"} /\ Listener \in r => s.backlog # <<>>
    /\ sl[n].fd # Listener \/ \A f \in r \cap Fds : Open(s, f)
    /\ q = "loop" => Open(s, c) /\ c \notin r
    /\ q = "recvfrom" => r = {}

\* What the invariant says of reactor.cpp, without the function Held.
LEMMA SlotsInv ==
    ASSUME ServerInv, prog = "slots"
    PROVE  /\ KernelOK(k, HeldIn(k, mem.size, mem.slot), prog \in Clearing) /\ prog \in Clearing
           /\ mem = [size |-> mem.size, slot |-> mem.slot, at |-> mem.at, buf |-> mem.buf]
           /\ SlotsIn(k, mem.size, mem.slot, mem.at, mem.buf)
           /\ SlotsReady(k, ready, pc, cur, mem.size, mem.slot)
<1>1. KernelOK(k, Held, prog \in Clearing) /\ ReadyOK /\ MemOK /\ prog \in Clearing
  BY DEF ServerInv, Clearing
<1>2. Held = HeldIn(k, mem.size, mem.slot)
  BY DEF Held, HeldIn, HoldsAny, HoldsFor
<1>3. SlotsReady(k, ready, pc, cur, mem.size, mem.slot)
  BY <1>1 DEF ReadyOK, SlotsReady
<1>4. SlotsOK /\ mem = [size |-> mem.size, slot |-> mem.slot, at |-> mem.at, buf |-> mem.buf]
  BY <1>1 DEF MemOK
<1>5. SlotsIn(k, mem.size, mem.slot, mem.at, mem.buf)
  <2>1. SlotsType(mem.size, mem.slot, mem.at, mem.buf)
    BY <1>4 DEF SlotsOK, SlotsType, Entry
  <2>2. ASSUME NEW i \in 0..mem.size PROVE EntryOK(k, mem.size, mem.slot, mem.at, mem.buf, i)
    BY <1>4 DEF SlotsOK, EntryOK, AnswerTo
  <2>3. \A f \in Fds : Open(k, f) => mem.slot[mem.at[f]].fd = f
    BY <1>4 DEF SlotsOK, Opened
  <2>. QED  BY <2>1, <2>2, <2>3 DEF SlotsIn
<1>. QED  BY <1>1, <1>2, <1>3, <1>4, <1>5

\* What is to be shown of a step of it.
LEMMA SlotsStep ==
    ASSUME prog' = prog, prog = "slots", NEW n, NEW sl, NEW at, NEW b,
           mem' = [size |-> n, slot |-> sl, at |-> at, buf |-> b],
           KernelOK(k', HeldIn(k', n, sl), prog \in Clearing),
           SlotsIn(k', n, sl, at, b), SlotsReady(k', ready', pc', cur', n, sl)
    PROVE  ServerInv'
<1>0. mem'.size = n /\ mem'.slot = sl /\ mem'.at = at /\ mem'.buf = b
  OBVIOUS
<1>1. Held' = HeldIn(k', n, sl)
  BY <1>0 DEF Held, HeldIn, HoldsAny, HoldsFor
<1>2. ReadyOK'
  BY <1>0 DEF ReadyOK, SlotsReady
<1>3. SlotsOK'
  <2>1. ASSUME NEW i \in 0..n
        PROVE  /\ sl[i].fd = Listener => i = n /\ sl[i].ev = "in"
               /\ sl[i].fd = -1 <=> sl[i].ev = "none"
               /\ sl[i].fd \in Fds => Open(k', sl[i].fd) /\ at[sl[i].fd] = i
               /\ sl[i].ev = "out" =>
                     b[i] = [from |-> k'.desc[sl[i].fd],
                             msg |-> Len(k'.out[k'.desc[sl[i].fd]]) + 1, clean |-> TRUE]
    BY DEF SlotsIn, EntryOK, AnswerTo
  <2>2. /\ n \in 1..MaxFd /\ sl \in [0..n -> [fd : Fds \cup {Listener, -1}, ev : {"none", "in", "out"}]]
        /\ at \in [Watched -> 0..n] /\ b \in [0..n -> Answer \cup {Nobody}] /\ at[Listener] = n
    BY DEF SlotsIn, SlotsType, Entry
  <2>3. \A f \in Opened' : sl[at[f]].fd = f
    BY DEF SlotsIn, Opened
  <2>. QED  BY <1>0, <2>1, <2>2, <2>3 DEF SlotsOK
<1>4. MemOK'
  BY <1>0, <1>3 DEF MemOK
<1>. QED  BY <1>1, <1>2, <1>4 DEF ServerInv

\* An entry that waits to send is that of an open descriptor.
LEMMA SendingEntry ==
    ASSUME NEW s, NEW n, NEW sl, NEW at, NEW b, SlotsIn(s, n, sl, at, b), NEW i \in 0..n
    PROVE  /\ sl[i].ev = "out" => sl[i].fd \in Fds
           /\ sl[i] \in Entry
<1>1. sl[i] \in Entry
  BY DEF SlotsIn, SlotsType
<1>2. EntryOK(s, n, sl, at, b, i)
  BY DEF SlotsIn
<1>. QED  BY <1>1, <1>2 DEF EntryOK, Entry

\* Nothing changes that the tables depend on.
LEMMA SlotsSame ==
    ASSUME NEW s, NEW n, NEW sl, NEW at, NEW b, SlotsIn(s, n, sl, at, b),
           NEW t, SameConnections(s, t), t.out = s.out
    PROVE  SlotsIn(t, n, sl, at, b) /\ HeldIn(t, n, sl) = HeldIn(s, n, sl)
<1>1. \A f : Open(t, f) <=> Open(s, f)
  BY DEF SameConnections, Open
<1>2. \A f : AnswerTo(t, f, TRUE) = AnswerTo(s, f, TRUE)
  BY DEF SameConnections, AnswerTo
<1>3. \A i \in 0..n : EntryOK(t, n, sl, at, b, i)
  BY <1>1, <1>2, ZenonT(30) DEF SlotsIn, EntryOK
<1>4. HeldIn(t, n, sl) = HeldIn(s, n, sl)
  BY DEF HeldIn, HoldsAny, HoldsFor, SameConnections
<1>. QED  BY <1>1, <1>3, <1>4 DEF SlotsIn

\* Two descriptors of one client are one, and its entry holds its message.
LEMMA HoldingEntry ==
    ASSUME NEW s, NEW n, NEW sl, NEW at, NEW b, SlotsIn(s, n, sl, at, b), ConnectionsOK(s),
           NEW c \in Clients, NEW g \in Fds, s.desc[g] = c, NEW i \in 0..n, HoldsFor(s, sl, c, i)
    PROVE  sl[i].fd = g /\ at[g] = i
<1>1. sl[i].fd \in Fds /\ s.desc[sl[i].fd] = c
  BY SendingEntry DEF HoldsFor
<1>2. sl[i].fd = g
  BY <1>1, SocketsAssumption DEF ConnectionsOK
<1>3. EntryOK(s, n, sl, at, b, i)
  BY DEF SlotsIn
<1>. QED  BY <1>1, <1>2, <1>3 DEF EntryOK

\* The entries, and the entry of g, with entry i for g.
Placed(sl, i, g) == [sl EXCEPT ![i] = [fd |-> g, ev |-> "in"]]
Moved(at, g, i) == [at EXCEPT ![g] = i]

\* Descriptor g is new in kernel t, and entry i has none, or the listener's.
Placing(s, n, sl, at, b, i, g, t) ==
    /\ SlotsIn(s, n, sl, at, b) /\ i \in 0..n /\ sl[i].fd \notin Fds /\ g \in Fds /\ ~Open(s, g)
    /\ t.out = s.out /\ \A f \in Fds \ {g} : t.desc[f] = s.desc[f]
    /\ \A f \in Fds : Open(t, f) <=> f = g \/ Open(s, f)

\* eventadd
LEMMA SlotsAccepted ==
    ASSUME NEW s, NEW n, NEW sl, NEW at, NEW b, NEW i, NEW g, NEW t,
           Placing(s, n, sl, at, b, i, g, t)
    PROVE  /\ SlotsIn(t, n, Placed(sl, i, g), Moved(at, g, i), b)
           /\ HeldIn(t, n, Placed(sl, i, g)) = HeldIn(s, n, sl)
<1>. USE DEF Placing
<1>a. PICK new : new = Placed(sl, i, g)
  OBVIOUS
<1>b. PICK at2 : at2 = Moved(at, g, i)
  OBVIOUS
<1>0. SlotsType(n, sl, at, b)
  BY DEF SlotsIn
<1>1. g \in Watched /\ g # Listener /\ g # -1
  BY FdFacts
<1>2. new[i] = [fd |-> g, ev |-> "in"] /\ \A j \in 0..n \ {i} : new[j] = sl[j]
  BY <1>0, <1>a DEF SlotsType, Placed
<1>3. at2[g] = i /\ \A f \in Watched \ {g} : at2[f] = at[f]
  BY <1>0, <1>1, <1>b DEF SlotsType, Moved
<1>4. SlotsType(n, new, at2, b)
  <2>1. new \in [0..n -> Entry]
    BY <1>0, <1>a DEF SlotsType, Entry, Placed
  <2>2. at2 \in [Watched -> 0..n]
    BY <1>0, <1>b DEF SlotsType, Moved
  <2>. QED  BY <1>0, <1>1, <1>3, <2>1, <2>2, FdFacts DEF SlotsType
<1>5. ASSUME NEW j \in 0..n PROVE sl[j].fd # g
  <2>1. EntryOK(s, n, sl, at, b, j)
    BY DEF SlotsIn
  <2>. QED  BY <2>1 DEF EntryOK
<1>6. ASSUME NEW j \in 0..n PROVE EntryOK(t, n, new, at2, b, j)
  <2>1. CASE j = i
    <3>1. new[j].fd = g /\ new[j].ev = "in" /\ at2[new[j].fd] = j /\ Open(t, g)
      BY <1>2, <1>3, <2>1
    <3>. QED  BY <1>1, <3>1 DEF EntryOK
  <2>2. CASE j # i
    <3>1. new[j] = sl[j] /\ EntryOK(s, n, sl, at, b, j) /\ sl[j].fd # g
      BY <1>2, <1>5, <2>2 DEF SlotsIn
    <3>2. sl[j].fd \in Fds => /\ Open(t, sl[j].fd) /\ at2[sl[j].fd] = at[sl[j].fd]
                              /\ AnswerTo(t, sl[j].fd, TRUE) = AnswerTo(s, sl[j].fd, TRUE)
      <4>1. sl[j].fd \in Fds => Open(s, sl[j].fd) /\ t.desc[sl[j].fd] = s.desc[sl[j].fd]
        BY <3>1 DEF EntryOK
      <4>2. sl[j].fd \in Fds => at2[sl[j].fd] = at[sl[j].fd]
        BY <1>3, <3>1, FdFacts
      <4>. QED  BY <4>1, <4>2 DEF AnswerTo
    <3>3. sl[j].ev = "out" => sl[j].fd \in Fds
      BY SendingEntry
    <3>. QED  BY <3>1, <3>2, <3>3 DEF EntryOK
  <2>. QED  BY <2>1, <2>2
<1>7. ASSUME NEW f \in Fds, Open(t, f) PROVE new[at2[f]].fd = f
  <2>1. CASE f = g
    BY <1>2, <1>3, <2>1
  <2>2. CASE f # g
    <3>1. sl[at[f]].fd = f /\ at2[f] = at[f]
      BY <1>3, <1>7, <2>2, FdFacts DEF SlotsIn
    <3>2. at[f] \in 0..n /\ at[f] # i
      BY <1>0, <3>1, FdFacts DEF SlotsType
    <3>. QED  BY <1>2, <3>1, <3>2
  <2>. QED  BY <2>1, <2>2
<1>8. ASSUME NEW c \in Clients, NEW j \in 0..n PROVE HoldsFor(t, new, c, j) <=> HoldsFor(s, sl, c, j)
  <2>1. CASE j = i
    <3>1. sl[i].ev # "out"
      BY SendingEntry
    <3>. QED  BY <1>2, <2>1, <3>1 DEF HoldsFor
  <2>2. CASE j # i
    <3>1. new[j] = sl[j] /\ sl[j].fd # g
      BY <1>2, <1>5, <2>2
    <3>2. sl[j].ev = "out" => sl[j].fd \in Fds
      BY SendingEntry
    <3>. QED  BY <3>1, <3>2 DEF HoldsFor
  <2>. QED  BY <2>1, <2>2
<1>9. HeldIn(t, n, new) = HeldIn(s, n, sl)
  <2>1. \A c \in Clients : HoldsAny(t, n, new, c) <=> HoldsAny(s, n, sl, c)
    BY <1>8 DEF HoldsAny
  <2>. QED  BY <2>1, Zenon DEF HeldIn
<1>. QED  BY <1>4, <1>6, <1>7, <1>9, <1>a, <1>b DEF SlotsIn

\* The entries, and the messages, without entry i.
Freed(sl, i) == [sl EXCEPT ![i] = Free]
Emptied(b, i) == [b EXCEPT ![i] = Nobody]

\* Entry i is that of g, which is closed in kernel t.
Leaving(s, n, sl, at, b, i, g, t) ==
    /\ SlotsIn(s, n, sl, at, b) /\ i \in 0..n /\ g \in Fds /\ sl[i].fd = g /\ sl[i].ev = "in"
    /\ t.out = s.out /\ \A f \in Fds \ {g} : t.desc[f] = s.desc[f]
    /\ \A f \in Fds : Open(t, f) <=> f # g /\ Open(s, f)

\* eventdel
LEMMA SlotsClosed ==
    ASSUME NEW s, NEW n, NEW sl, NEW at, NEW b, NEW i, NEW g, NEW t,
           Leaving(s, n, sl, at, b, i, g, t)
    PROVE  /\ SlotsIn(t, n, Freed(sl, i), at, Emptied(b, i))
           /\ HeldIn(t, n, Freed(sl, i)) = HeldIn(s, n, sl)
<1>. USE DEF Leaving
<1>a. PICK new : new = Freed(sl, i)
  OBVIOUS
<1>b. PICK b2 : b2 = Emptied(b, i)
  OBVIOUS
<1>0. SlotsType(n, sl, at, b)
  BY DEF SlotsIn
<1>1. g \in Watched /\ g # Listener /\ g # -1 /\ Listener # -1 /\ -1 \notin Fds
  BY FdFacts DEF Listener
<1>2. new[i] = Free /\ \A j \in 0..n \ {i} : new[j] = sl[j]
  BY <1>0, <1>a DEF SlotsType, Freed
<1>3. \A j \in 0..n \ {i} : b2[j] = b[j]
  BY <1>0, <1>b DEF SlotsType, Emptied
<1>4. SlotsType(n, new, at, b2)
  <2>1. new \in [0..n -> Entry]
    BY <1>0, <1>a DEF SlotsType, Entry, Freed, Free
  <2>2. b2 \in [0..n -> Answer \cup {Nobody}]
    BY <1>0, <1>b DEF SlotsType, Emptied
  <2>. QED  BY <1>0, <2>1, <2>2 DEF SlotsType
<1>5. ASSUME NEW j \in 0..n, j # i PROVE sl[j].fd # g
  <2>1. EntryOK(s, n, sl, at, b, j) /\ EntryOK(s, n, sl, at, b, i)
    BY DEF SlotsIn
  <2>. QED  BY <1>5, <2>1 DEF EntryOK
<1>6. ASSUME NEW j \in 0..n PROVE EntryOK(t, n, new, at, b2, j)
  <2>1. CASE j = i
    <3>1. new[j].fd = -1 /\ new[j].ev = "none"
      BY <1>2, <2>1 DEF Free
    <3>. QED  BY <1>1, <3>1 DEF EntryOK
  <2>2. CASE j # i
    <3>1. new[j] = sl[j] /\ b2[j] = b[j] /\ EntryOK(s, n, sl, at, b, j) /\ sl[j].fd # g
      BY <1>2, <1>3, <1>5, <2>2 DEF SlotsIn
    <3>2. sl[j].fd \in Fds => /\ Open(t, sl[j].fd)
                              /\ AnswerTo(t, sl[j].fd, TRUE) = AnswerTo(s, sl[j].fd, TRUE)
      <4>1. sl[j].fd \in Fds => Open(s, sl[j].fd) /\ t.desc[sl[j].fd] = s.desc[sl[j].fd]
        BY <3>1 DEF EntryOK
      <4>. QED  BY <3>1, <4>1 DEF AnswerTo
    <3>3. sl[j].ev = "out" => sl[j].fd \in Fds
      BY SendingEntry
    <3>. QED  BY <3>1, <3>2, <3>3 DEF EntryOK
  <2>. QED  BY <2>1, <2>2
<1>7. ASSUME NEW f \in Fds, Open(t, f) PROVE new[at[f]].fd = f
  <2>1. f # g /\ Open(s, f)
    BY <1>7
  <2>2. sl[at[f]].fd = f
    BY <2>1 DEF SlotsIn
  <2>3. at[f] \in 0..n /\ at[f] # i
    BY <1>0, <2>1, <2>2, FdFacts DEF SlotsType
  <2>. QED  BY <1>2, <2>2, <2>3
<1>8. ASSUME NEW c \in Clients, NEW j \in 0..n PROVE HoldsFor(t, new, c, j) <=> HoldsFor(s, sl, c, j)
  <2>1. CASE j = i
    BY <1>2, <2>1 DEF HoldsFor, Free
  <2>2. CASE j # i
    <3>1. new[j] = sl[j] /\ sl[j].fd # g
      BY <1>2, <1>5, <2>2
    <3>2. sl[j].ev = "out" => sl[j].fd \in Fds
      BY SendingEntry
    <3>. QED  BY <3>1, <3>2 DEF HoldsFor
  <2>. QED  BY <2>1, <2>2
<1>9. HeldIn(t, n, new) = HeldIn(s, n, sl)
  <2>1. \A c \in Clients : HoldsAny(t, n, new, c) <=> HoldsAny(s, n, sl, c)
    BY <1>8 DEF HoldsAny
  <2>. QED  BY <2>1, Zenon DEF HeldIn
<1>. QED  BY <1>4, <1>6, <1>7, <1>9, <1>a, <1>b DEF SlotsIn

\* The entries, where entry i waits for event ev.
Turned(sl, i, ev) == [sl EXCEPT ![i].ev = ev]

\* Entry i is that of g, and kernel t differs in what client c has got.
Turning(s, n, sl, at, b, i, g, t, c, ev, b2) ==
    /\ SlotsIn(s, n, sl, at, b) /\ ConnectionsOK(s) /\ s \in KernelType
    /\ i \in 0..n /\ g \in Fds /\ sl[i].fd = g /\ c \in Clients /\ s.desc[g] = c
    /\ SameConnections(s, t) /\ \A x \in Clients \ {c} : t.out[x] = s.out[x]
    /\ ev \in {"in", "out"} /\ b2 \in [0..n -> Answer \cup {Nobody}]
    /\ \A j \in 0..n \ {i} : b2[j] = b[j]
    /\ ev = "out" => b2[i] = AnswerTo(t, g, TRUE)

\* eventset: the entries of the other clients, and what they hold, do not change.
LEMMA SlotsTurned ==
    ASSUME NEW s, NEW n, NEW sl, NEW at, NEW b, NEW i, NEW g, NEW t, NEW c, NEW ev, NEW b2,
           Turning(s, n, sl, at, b, i, g, t, c, ev, b2)
    PROVE  /\ SlotsIn(t, n, Turned(sl, i, ev), Moved(at, g, i), b2)
           /\ HoldsAny(s, n, sl, c) <=> sl[i].ev = "out"
           /\ HoldsAny(t, n, Turned(sl, i, ev), c) <=> ev = "out"
           /\ \A x \in Clients \ {c} : HoldsAny(t, n, Turned(sl, i, ev), x) <=> HoldsAny(s, n, sl, x)
<1>. USE DEF Turning
<1>a. PICK new : new = Turned(sl, i, ev)
  OBVIOUS
<1>b. PICK at2 : at2 = Moved(at, g, i)
  OBVIOUS
<1>0. SlotsType(n, sl, at, b)
  BY DEF SlotsIn
<1>1. g \in Watched /\ g # Listener /\ g # -1 /\ Listener # -1 /\ -1 \notin Fds
  BY FdFacts DEF Listener
<1>2. EntryOK(s, n, sl, at, b, i) /\ sl[i] \in Entry
  <2>1. EntryOK(s, n, sl, at, b, i)
    BY DEF SlotsIn
  <2>. QED  BY <1>0, <2>1 DEF SlotsType
<1>3. new[i].fd = g /\ new[i].ev = ev /\ \A j \in 0..n \ {i} : new[j] = sl[j]
  BY <1>0, <1>2, <1>a DEF SlotsType, Entry, Turned
<1>4. at2 = at /\ at[g] = i
  <2>1. at[g] = i /\ at \in [Watched -> 0..n]
    BY <1>0, <1>2 DEF EntryOK, SlotsType
  <2>. QED  BY <1>1, <1>b, <2>1 DEF Moved
<1>5. SlotsType(n, new, at, b2)
  <2>1. new \in [0..n -> Entry]
    <3>1. [sl[i] EXCEPT !.ev = ev] \in Entry
      BY <1>2 DEF Entry
    <3>2. new = [sl EXCEPT ![i] = [sl[i] EXCEPT !.ev = ev]]
      BY <1>0, <1>a DEF SlotsType, Turned
    <3>. QED  BY <1>0, <3>1, <3>2 DEF SlotsType
  <2>. QED  BY <1>0, <2>1 DEF SlotsType
<1>6. ASSUME NEW j \in 0..n, j # i PROVE sl[j].fd # g
  <2>1. EntryOK(s, n, sl, at, b, j)
    BY DEF SlotsIn
  <2>. QED  BY <1>2, <1>6, <2>1 DEF EntryOK
<1>7. \A f : Open(t, f) <=> Open(s, f)
  BY DEF SameConnections, Open
<1>8. ASSUME NEW j \in 0..n PROVE EntryOK(t, n, new, at, b2, j)
  <2>1. CASE j = i
    <3>1. Open(t, g) /\ at[g] = j
      BY <1>2, <1>4, <1>7, <2>1 DEF EntryOK
    <3>2. new[j].fd = g /\ new[j].ev = ev /\ (ev = "out" => b2[j] = AnswerTo(t, g, TRUE))
      BY <1>3, <2>1
    <3>. QED  BY <1>1, <3>1, <3>2 DEF EntryOK
  <2>2. CASE j # i
    <3>1. new[j] = sl[j] /\ b2[j] = b[j] /\ EntryOK(s, n, sl, at, b, j) /\ sl[j].fd # g
      BY <1>3, <1>6, <2>2 DEF SlotsIn
    <3>2. sl[j].fd \in Fds => AnswerTo(t, sl[j].fd, TRUE) = AnswerTo(s, sl[j].fd, TRUE)
      <4>. SUFFICES ASSUME sl[j].fd \in Fds PROVE AnswerTo(t, sl[j].fd, TRUE) = AnswerTo(s, sl[j].fd, TRUE)
        OBVIOUS
      <4>1. s.desc[sl[j].fd] # c
        BY <3>1, SocketsAssumption DEF ConnectionsOK
      <4>2. s.desc[sl[j].fd] \in Clients
        <5>1. Open(s, sl[j].fd)
          BY <3>1 DEF EntryOK
        <5>. QED  BY <5>1 DEF KernelType, KernelOf, Open
      <4>. QED  BY <4>1, <4>2 DEF AnswerTo, SameConnections
    <3>3. sl[j].ev = "out" => sl[j].fd \in Fds
      BY SendingEntry
    <3>. QED  BY <1>7, <3>1, <3>2, <3>3 DEF EntryOK
  <2>. QED  BY <2>1, <2>2
<1>9. \A f \in Fds : Open(t, f) => new[at[f]].fd = f
  <2>. SUFFICES ASSUME NEW f \in Fds, Open(t, f) PROVE new[at[f]].fd = f
    OBVIOUS
  <2>1. sl[at[f]].fd = f /\ at[f] \in 0..n
    BY <1>0, <1>7, FdFacts DEF SlotsIn, SlotsType
  <2>. QED  BY <1>3, <2>1
<1>10. SlotsIn(t, n, new, at2, b2)
  BY <1>4, <1>5, <1>8, <1>9 DEF SlotsIn
<1>11. \A x \in Clients, j \in 0..n : j # i => (HoldsFor(t, new, x, j) <=> HoldsFor(s, sl, x, j))
  BY <1>3 DEF HoldsFor, SameConnections
<1>12. \A x \in Clients : HoldsFor(s, sl, x, i) <=> sl[i].ev = "out" /\ x = c
  BY DEF HoldsFor
<1>13. \A x \in Clients : HoldsFor(t, new, x, i) <=> ev = "out" /\ x = c
  BY <1>3 DEF HoldsFor, SameConnections
<1>14. \A j \in 0..n : HoldsFor(s, sl, c, j) => j = i
  BY <1>4, HoldingEntry
<1>15. HoldsAny(s, n, sl, c) <=> sl[i].ev = "out"
  BY <1>12, <1>14 DEF HoldsAny
<1>16. HoldsAny(t, n, new, c) <=> ev = "out"
  BY <1>11, <1>13, <1>14 DEF HoldsAny
<1>17. ASSUME NEW x \in Clients, x # c PROVE HoldsAny(t, n, new, x) <=> HoldsAny(s, n, sl, x)
  <2>1. \A j \in 0..n : HoldsFor(t, new, x, j) <=> HoldsFor(s, sl, x, j)
    BY <1>11, <1>12, <1>13, <1>17
  <2>. QED  BY <2>1 DEF HoldsAny
<1>. QED  BY <1>10, <1>15, <1>16, <1>17, <1>a, <1>b

\* epoll_wait, and an event whose entry waits for another one.
LEMMA SlotsWaitStep ==
    ASSUME ServerInv, SlotsWait \/ \E f \in Fds \cup {Listener} : SlotsSkip(f)
    PROVE  ServerInv'
<1>1. prog = "slots" /\ prog' = prog /\ mem' = mem /\ pc' = pc /\ cur' = cur /\ pc = "wait"
  BY DEF SlotsWait, SlotsSkip, EpollWait, Wait, Take
<1>2. /\ KernelOK(k, HeldIn(k, mem.size, mem.slot), prog \in Clearing)
      /\ mem = [size |-> mem.size, slot |-> mem.slot, at |-> mem.at, buf |-> mem.buf]
      /\ SlotsIn(k, mem.size, mem.slot, mem.at, mem.buf)
      /\ SlotsReady(k, ready, pc, cur, mem.size, mem.slot)
  BY <1>1, SlotsInv
<1>3. PICK n, sl, at, b : n = mem.size /\ sl = mem.slot /\ at = mem.at /\ b = mem.buf
  OBVIOUS
<1>4. CASE SlotsWait
  <2>1. ready' = Reportable(k) /\ k' = Reported(k)
    BY <1>4 DEF SlotsWait, EpollWait, Wait
  <2>2. KernelOK(k', HeldIn(k, n, sl), prog \in Clearing) /\ SameConnections(k, k') /\ SameStreams(k, k')
    BY <1>2, <1>3, <2>1, ReportedOK
  <2>3. k'.out = k.out
    BY <2>2 DEF SameStreams
  <2>4. SlotsIn(k', n, sl, at, b) /\ HeldIn(k', n, sl) = HeldIn(k, n, sl)
    BY <1>2, <1>3, <2>2, <2>3, SlotsSame
  <2>5. SlotsReady(k', ready', pc', cur', n, sl)
    <3>1. /\ Reportable(k) \subseteq Watched
          /\ Listener \in Reportable(k) => k.backlog # <<>>
          /\ \A f \in Reportable(k) \cap Fds : Open(k, f)
      BY <1>2, ReportableFacts
    <3>. QED  BY <1>1, <2>1, <2>2, <3>1 DEF SlotsReady, SameConnections, Open
  <2>6. mem' = [size |-> n, slot |-> sl, at |-> at, buf |-> b]
    BY <1>1, <1>2, <1>3
  <2>7. KernelOK(k', HeldIn(k', n, sl), prog \in Clearing)
    BY <2>2, <2>4
  <2>. QED  BY <1>1, <2>4, <2>5, <2>6, <2>7, SlotsStep
<1>5. CASE \E f \in Fds \cup {Listener} : SlotsSkip(f)
  <2>1. k' = k /\ ready' \subseteq ready
    BY <1>5 DEF SlotsSkip, Take
  <2>2. SlotsReady(k', ready', pc', cur', n, sl)
    BY <1>1, <1>2, <1>3, <2>1 DEF SlotsReady
  <2>3. mem' = [size |-> n, slot |-> sl, at |-> at, buf |-> b]
    BY <1>1, <1>2, <1>3
  <2>4. KernelOK(k', HeldIn(k', n, sl), prog \in Clearing) /\ SlotsIn(k', n, sl, at, b)
    BY <1>2, <1>3, <2>1
  <2>. QED  BY <1>1, <2>2, <2>3, <2>4, SlotsStep
<1>. QED  BY <1>4, <1>5

\* initAccept
LEMMA SlotsAcceptStep ==
    ASSUME ServerInv, NEW f \in Fds \cup {Listener}, SlotsAccept(f)
    PROVE  ServerInv'
<1>1. /\ prog = "slots" /\ prog' = prog /\ cur' = cur /\ pc = "wait" /\ f \in ready
      /\ ready' = ready \ {f} /\ Called(f).fd = Listener
  BY DEF SlotsAccept, Calls, Take
<1>2. /\ KernelOK(k, HeldIn(k, mem.size, mem.slot), prog \in Clearing)
      /\ mem = [size |-> mem.size, slot |-> mem.slot, at |-> mem.at, buf |-> mem.buf]
      /\ SlotsIn(k, mem.size, mem.slot, mem.at, mem.buf)
      /\ SlotsReady(k, ready, pc, cur, mem.size, mem.slot)
  BY <1>1, SlotsInv
<1>3. PICK n, sl, at, b : n = mem.size /\ sl = mem.slot /\ at = mem.at /\ b = mem.buf
  OBVIOUS
<1>4. SlotsType(n, sl, at, b)
  BY <1>2, <1>3 DEF SlotsIn
<1>5. sl[n].fd = Listener /\ f = Listener
  <2>1. at[f] \in 0..n /\ sl[at[f]].fd = Listener
    BY <1>1, <1>3, <1>4, FdFacts DEF SlotsType, Called
  <2>2. EntryOK(k, n, sl, at, b, at[f])
    BY <1>2, <1>3, <2>1 DEF SlotsIn
  <2>3. at[f] = n
    BY <2>1, <2>2 DEF EntryOK
  <2>4. ASSUME f \in Fds PROVE FALSE
    <3>1. Open(k, f)
      BY <1>1, <1>2, <1>3, <2>1, <2>3, <2>4 DEF SlotsReady
    <3>2. sl[at[f]].fd = f
      BY <1>2, <1>3, <2>4, <3>1 DEF SlotsIn
    <3>. QED  BY <2>1, <2>4, <3>2, FdFacts
  <2>. QED  BY <2>1, <2>3, <2>4
<1>6. k.backlog # <<>>
  BY <1>1, <1>2, <1>5 DEF SlotsReady
<1>7. CASE FreeFds(k) = {}
  <2>1. pc' = "stopped" /\ k' = k /\ mem' = mem
    BY <1>7 DEF SlotsAccept, AcceptOrExit
  <2>2. SlotsReady(k', ready', pc', cur', n, sl)
    BY <1>1, <1>2, <1>3, <2>1 DEF SlotsReady
  <2>3. mem' = [size |-> n, slot |-> sl, at |-> at, buf |-> b]
    BY <1>2, <1>3, <2>1
  <2>4. KernelOK(k', HeldIn(k', n, sl), prog \in Clearing) /\ SlotsIn(k', n, sl, at, b)
    BY <1>2, <1>3, <2>1
  <2>. QED  BY <1>1, <2>2, <2>3, <2>4, SlotsStep
<1>8. CASE FreeFds(k) # {}
  <2>1. PICK T : T = {j \in 0..(n - 1) : sl[j].fd = -1} \cup {n}
    OBVIOUS
  <2>2. PICK i : i = Min(T)
    OBVIOUS
  <2>3. i \in 0..n /\ sl[i].fd \notin Fds
    <3>1. n \in Nat /\ T \in SUBSET Nat /\ T # {} /\ T \subseteq 0..n
      BY <1>4, <2>1, SocketsAssumption DEF SlotsType
    <3>2. i \in T
      BY <2>2, <3>1, MinFacts
    <3>3. sl[i].fd = -1 \/ i = n
      BY <2>1, <3>2
    <3>. QED  BY <1>5, <3>1, <3>2, <3>3, FdFacts
  <2>4. PICK et \in BOOLEAN : et = FALSE
    OBVIOUS
  <2>5. /\ pc' = "wait" /\ k' = AcceptAndWatch(et)
        /\ mem' = [mem EXCEPT !.slot[i] = [fd |-> FreeFd(k), ev |-> "in"], !.at[FreeFd(k)] = i]
    BY <1>1, <1>3, <1>8, <2>1, <2>2, <2>4 DEF SlotsAccept, AcceptOrExit
  <2>6. /\ KernelOK(k', HeldIn(k, n, sl), prog \in Clearing) /\ SameStreams(k, k')
        /\ FreeFd(k) \in Fds /\ ~Open(k, FreeFd(k))
        /\ k'.desc = [k.desc EXCEPT ![FreeFd(k)] = Head(k.backlog)]
        /\ \A h \in Fds : Open(k', h) <=> h = FreeFd(k) \/ Open(k, h)
    BY <1>2, <1>3, <1>6, <1>8, <2>5, AcceptAndWatchOK
  <2>7. PICK g \in Fds : g = FreeFd(k)
    BY <2>6
  <2>8. k'.out = k.out /\ \A h \in Fds \ {g} : k'.desc[h] = k.desc[h]
    <3>1. k.desc \in [Fds -> Clients \cup {Nobody}]
      BY <1>2 DEF KernelOK, KernelType, KernelOf
    <3>. QED  BY <2>6, <2>7, <3>1 DEF SameStreams
  <2>9. PICK new, at2 : new = Placed(sl, i, g) /\ at2 = Moved(at, g, i)
    OBVIOUS
  <2>10. Placing(k, n, sl, at, b, i, g, k')
    BY <1>2, <1>3, <2>3, <2>6, <2>7, <2>8 DEF Placing
  <2>11. SlotsIn(k', n, new, at2, b) /\ HeldIn(k', n, new) = HeldIn(k, n, sl)
    BY <2>9, <2>10, SlotsAccepted
  <2>12. mem' = [size |-> n, slot |-> new, at |-> at2, buf |-> b]
    BY <1>2, <1>3, <2>5, <2>7, <2>9 DEF Placed, Moved
  <2>13. KernelOK(k', HeldIn(k', n, new), prog \in Clearing)
    BY <2>6, <2>11
  <2>14. SlotsReady(k', ready', pc', cur', n, new)
    <3>1. \A h \in ready \cap Fds : Open(k, h)
      BY <1>2, <1>3, <1>5 DEF SlotsReady
    <3>2. \A h \in ready' \cap Fds : Open(k', h)
      BY <1>1, <2>6, <3>1
    <3>3. Listener \notin ready' /\ ready' \subseteq Watched
      BY <1>1, <1>2, <1>5 DEF SlotsReady
    <3>. QED  BY <2>5, <3>2, <3>3 DEF SlotsReady
  <2>. QED  BY <1>1, <2>11, <2>12, <2>13, <2>14, SlotsStep
<1>. QED  BY <1>7, <1>8

\* Where an event leads: to an entry, whose descriptor, if it has one, is open,
\* and is the one of the event as long as the listener has the last entry.
LEMMA CalledFacts ==
    ASSUME ServerInv, prog = "slots", NEW f \in Fds \cup {Listener}, f \in ready, Called(f).fd \in Fds
    PROVE  /\ mem.at[f] \in 0..mem.size /\ Called(f) = mem.slot[mem.at[f]]
           /\ Open(k, Called(f).fd) /\ k.desc[Called(f).fd] \in Clients
           /\ mem.slot[mem.size].fd = Listener => Called(f).fd = f
           /\ EntryOK(k, mem.size, mem.slot, mem.at, mem.buf, mem.at[f])
<1>1. /\ KernelOK(k, HeldIn(k, mem.size, mem.slot), prog \in Clearing)
      /\ SlotsIn(k, mem.size, mem.slot, mem.at, mem.buf)
      /\ SlotsReady(k, ready, pc, cur, mem.size, mem.slot)
  BY SlotsInv
<1>2. SlotsType(mem.size, mem.slot, mem.at, mem.buf)
  BY <1>1 DEF SlotsIn
<1>3. mem.at[f] \in 0..mem.size /\ Called(f) = mem.slot[mem.at[f]]
  BY <1>2, FdFacts DEF SlotsType, Called
<1>4. EntryOK(k, mem.size, mem.slot, mem.at, mem.buf, mem.at[f])
  BY <1>1, <1>3 DEF SlotsIn
<1>5. Open(k, Called(f).fd)
  BY <1>3, <1>4 DEF EntryOK
<1>6. k.desc[Called(f).fd] \in Clients
  BY <1>1, <1>5 DEF KernelOK, KernelType, KernelOf, Open
<1>7. ASSUME mem.slot[mem.size].fd = Listener PROVE Called(f).fd = f
  <2>1. CASE f = Listener
    <3>1. Called(f).fd = Listener
      BY <1>2, <1>3, <1>7, <2>1 DEF SlotsType
    <3>. QED  BY <3>1, FdFacts
  <2>2. CASE f \in Fds
    <3>1. Open(k, f)
      BY <1>1, <1>7, <2>2 DEF SlotsReady
    <3>. QED  BY <1>1, <1>3, <2>2, <3>1 DEF SlotsIn
  <2>. QED  BY <2>1, <2>2
<1>. QED  BY <1>3, <1>4, <1>5, <1>6, <1>7

\* An event that changes one entry and no connection.
LEMMA SlotsReadyKept ==
    ASSUME NEW s, NEW r, NEW q, NEW c, NEW n, NEW sl, SlotsReady(s, r, q, c, n, sl),
           NEW t, SameConnections(s, t), NEW r2 \in SUBSET r, NEW new, new[n].fd = sl[n].fd
    PROVE  SlotsReady(t, r2, q, c, n, new)
BY DEF SlotsReady, SameConnections, Open

\* A client whose message is held, or answered.
LEMMA HeldTurned ==
    ASSUME NEW s, NEW n, NEW sl, NEW t, NEW new, NEW c \in Clients,
           \A x \in Clients \ {c} : HoldsAny(t, n, new, x) <=> HoldsAny(s, n, sl, x)
    PROVE  /\ HoldsAny(t, n, new, c) => HeldIn(t, n, new) = [HeldIn(s, n, sl) EXCEPT ![c] = 1]
           /\ ~HoldsAny(t, n, new, c) => HeldIn(t, n, new) = [HeldIn(s, n, sl) EXCEPT ![c] = 0]
BY DEF HeldIn

\* readData
LEMMA SlotsReadStep ==
    ASSUME ServerInv, NEW f \in Fds \cup {Listener}, SlotsRead(f)
    PROVE  ServerInv'
<1>1. /\ prog = "slots" /\ prog' = prog /\ cur' = cur /\ pc = "wait" /\ f \in ready /\ pc' = pc
      /\ ready' = ready \ {f} /\ Called(f).fd \in Fds /\ Called(f).ev = "in"
  BY DEF SlotsRead, Calls, Take
<1>2. /\ KernelOK(k, HeldIn(k, mem.size, mem.slot), prog \in Clearing)
      /\ mem = [size |-> mem.size, slot |-> mem.slot, at |-> mem.at, buf |-> mem.buf]
      /\ SlotsIn(k, mem.size, mem.slot, mem.at, mem.buf)
      /\ SlotsReady(k, ready, pc, cur, mem.size, mem.slot)
  BY <1>1, SlotsInv
<1>3. PICK n, sl, at, b : n = mem.size /\ sl = mem.slot /\ at = mem.at /\ b = mem.buf
  OBVIOUS
<1>4. SlotsType(n, sl, at, b)
  BY <1>2, <1>3 DEF SlotsIn
<1>5. PICK i, g : i = mem.at[f] /\ g = Called(f).fd
  OBVIOUS
<1>6. /\ i \in 0..n /\ g \in Fds /\ sl[i].fd = g /\ sl[i].ev = "in" /\ Open(k, g)
      /\ k.desc[g] \in Clients /\ (sl[n].fd = Listener => g = f)
  BY <1>1, <1>3, <1>5, CalledFacts
<1>7. PICK c \in Clients : c = k.desc[g]
  BY <1>6
<1>8. Readable(k, g)
  BY <1>5, <1>6 DEF SlotsRead
<1>9. k \in KernelType /\ ConnectionsOK(k)
  BY <1>2 DEF KernelOK
<1>10. CASE Result(k, g) = "data"
  <2>1. /\ k' = Watch(Read(k, g), g, "out", FALSE)
        /\ mem' = [mem EXCEPT !.slot[i].ev = "out", !.at[g] = i, !.buf[i] = Reply(k, g, TRUE)]
    BY <1>5, <1>6, <1>10 DEF SlotsRead
  <2>2. PICK s : s = Read(k, g)
    OBVIOUS
  <2>3. HeldIn(k, n, sl) \in [Clients -> 0..1]
    BY DEF HeldIn
  <2>4. HeldIn(k, n, sl)[c] = 0
    <3>1. \A j \in 0..n : ~HoldsFor(k, sl, c, j)
      <4>. SUFFICES ASSUME NEW j \in 0..n, HoldsFor(k, sl, c, j) PROVE FALSE
        OBVIOUS
      <4>1. at[g] = j
        BY <1>2, <1>3, <1>6, <1>7, <1>9, HoldingEntry
      <4>2. at[g] = i
        BY <1>2, <1>3, <1>6 DEF SlotsIn, EntryOK
      <4>. QED  BY <1>6, <4>1, <4>2 DEF HoldsFor
    <3>. QED  BY <3>1 DEF HeldIn, HoldsAny
  <2>5. /\ Head(k.inq[c]) = Len(k.out[c]) + 1
        /\ KernelOK(s, [HeldIn(k, n, sl) EXCEPT ![c] = 1], prog \in Clearing)
        /\ SameConnections(k, s) /\ s.out = k.out /\ s.watch = k.watch
    <3>1. HeldIn(k, n, sl)[k.desc[g]] = 0 /\ KernelOK(k, HeldIn(k, n, sl), prog \in Clearing)
      BY <1>2, <1>3, <1>7, <2>4
    <3>2. /\ Head(k.inq[k.desc[g]]) = Len(k.out[k.desc[g]]) + 1
          /\ KernelOK(Read(k, g), [HeldIn(k, n, sl) EXCEPT ![k.desc[g]] = 1], prog \in Clearing)
          /\ SameConnections(k, Read(k, g)) /\ Read(k, g).out = k.out /\ Read(k, g).watch = k.watch
      <4>1. PICK h0, cl : h0 = HeldIn(k, n, sl) /\ cl = (prog \in Clearing)
        OBVIOUS
      <4>2. KernelOK(k, h0, cl) /\ h0[k.desc[g]] = 0 /\ h0 \in [Clients -> 0..1]
        BY <2>3, <3>1, <4>1, Zenon
      <4>3. /\ Head(k.inq[k.desc[g]]) = Len(k.out[k.desc[g]]) + 1
            /\ KernelOK(Read(k, g), TakenFor(h0, k.desc[g]), cl)
            /\ SameConnections(k, Read(k, g)) /\ Read(k, g).out = k.out /\ Read(k, g).watch = k.watch
        <5>1. ReadingOf(k, h0, cl, g)
          BY <1>6, <1>10, <4>2 DEF ReadingOf
        <5>. QED  BY <5>1, ReadingOK
      <4>. QED  BY <4>1, <4>3, Zenon DEF TakenFor
    <3>. QED  BY <1>7, <2>2, <3>2, Zenon
  <2>6. PICK h : h = [HeldIn(k, n, sl) EXCEPT ![c] = 1]
    OBVIOUS
  <2>7. Open(s, g) /\ "out" \in {"in", "out"} /\ FALSE \in BOOLEAN
    BY <1>6, <2>5 DEF SameConnections, Open
  <2>8. KernelOK(k', h, prog \in Clearing) /\ SameConnections(s, k') /\ SameStreams(s, k')
    BY <1>6, <2>1, <2>2, <2>5, <2>6, <2>7, WatchIsOK
  <2>9. SameConnections(k, k') /\ k'.out = k.out
    BY <2>5, <2>8 DEF SameConnections, SameStreams
  <2>10. AnswerTo(k', g, TRUE) = Reply(k, g, TRUE)
    BY <1>7, <2>5, <2>9 DEF AnswerTo, Reply, SameConnections
  <2>11. AnswerTo(k', g, TRUE) \in Answer
    <3>1. k.out[c] \in Seq(Answer)
      BY <1>9 DEF KernelType, KernelOf
    <3>2. Len(k.out[c]) + 1 \in Nat
      BY <3>1, LenProperties
    <3>3. k'.desc[g] = c /\ k'.out[c] = k.out[c]
      BY <1>7, <2>9 DEF SameConnections
    <3>. QED  BY <3>2, <3>3 DEF AnswerTo, Answer
  <2>12. PICK b2 : b2 = [b EXCEPT ![i] = AnswerTo(k', g, TRUE)]
    OBVIOUS
  <2>13. /\ b2 \in [0..n -> Answer \cup {Nobody}] /\ b2[i] = AnswerTo(k', g, TRUE)
         /\ \A j \in 0..n \ {i} : b2[j] = b[j]
    BY <1>4, <1>6, <2>11, <2>12 DEF SlotsType
  <2>14. Turning(k, n, sl, at, b, i, g, k', c, "out", b2)
    BY <1>2, <1>3, <1>6, <1>7, <1>9, <2>7, <2>9, <2>13 DEF Turning
  <2>15. PICK new, at2 : new = Turned(sl, i, "out") /\ at2 = Moved(at, g, i)
    OBVIOUS
  <2>16. /\ SlotsIn(k', n, new, at2, b2) /\ HoldsAny(k', n, new, c)
         /\ \A x \in Clients \ {c} : HoldsAny(k', n, new, x) <=> HoldsAny(k, n, sl, x)
    BY <2>14, <2>15, SlotsTurned
  <2>17. HeldIn(k', n, new) = h
    BY <2>6, <2>16, HeldTurned
  <2>18. mem' = [size |-> n, slot |-> new, at |-> at2, buf |-> b2]
    BY <1>2, <1>3, <2>1, <2>10, <2>12, <2>15 DEF Turned, Moved
  <2>19. KernelOK(k', HeldIn(k', n, new), prog \in Clearing)
    BY <2>8, <2>17
  <2>20. new[n].fd = sl[n].fd
    <3>1. n \in 0..n /\ sl[i] \in Entry
      BY <1>4, <1>6, SocketsAssumption DEF SlotsType
    <3>. QED  BY <1>4, <1>6, <2>15, <3>1 DEF Turned, SlotsType, Entry
  <2>21. SlotsReady(k', ready', pc', cur', n, new)
    BY <1>1, <1>2, <1>3, <2>9, <2>20, SlotsReadyKept
  <2>. QED  BY <1>1, <2>16, <2>18, <2>19, <2>21, SlotsStep
<1>11. CASE Result(k, g) = "eof"
  <2>1. k' = Close(k, g) /\ mem' = [mem EXCEPT !.slot[i] = Free, !.buf[i] = Nobody]
    BY <1>5, <1>6, <1>11 DEF SlotsRead
  <2>2. /\ KernelOK(k', HeldIn(k, n, sl), prog \in Clearing) /\ SameStreams(k, k')
        /\ k'.desc = [k.desc EXCEPT ![g] = Nobody] /\ k'.backlog = k.backlog
        /\ \A x \in Fds : Open(k', x) <=> x # g /\ Open(k, x)
    BY <1>2, <1>3, <1>6, <2>1, CloseOK
  <2>3. k'.out = k.out /\ \A x \in Fds \ {g} : k'.desc[x] = k.desc[x]
    <3>1. k.desc \in [Fds -> Clients \cup {Nobody}]
      BY <1>9 DEF KernelType, KernelOf
    <3>. QED  BY <2>2, <3>1 DEF SameStreams
  <2>4. Leaving(k, n, sl, at, b, i, g, k')
    BY <1>2, <1>3, <1>6, <2>2, <2>3 DEF Leaving
  <2>5. PICK new, b2 : new = Freed(sl, i) /\ b2 = Emptied(b, i)
    OBVIOUS
  <2>6. SlotsIn(k', n, new, at, b2) /\ HeldIn(k', n, new) = HeldIn(k, n, sl)
    BY <2>4, <2>5, SlotsClosed
  <2>7. mem' = [size |-> n, slot |-> new, at |-> at, buf |-> b2]
    BY <1>2, <1>3, <2>1, <2>5 DEF Freed, Emptied
  <2>8. KernelOK(k', HeldIn(k', n, new), prog \in Clearing)
    BY <2>2, <2>6
  <2>9. SlotsReady(k', ready', pc', cur', n, new)
    <3>1. CASE sl[n].fd = Listener
      <4>1. \A x \in ready \cap Fds : Open(k, x)
        BY <1>2, <1>3, <3>1 DEF SlotsReady
      <4>2. \A x \in ready' \cap Fds : Open(k', x)
        BY <1>1, <1>6, <2>2, <3>1, <4>1
      <4>. QED  BY <1>1, <1>2, <1>3, <2>2, <4>2 DEF SlotsReady
    <3>2. CASE sl[n].fd # Listener
      <4>1. new[n].fd # Listener
        <5>1. n \in 0..n /\ Listener # -1
          BY <1>4, SocketsAssumption, FdFacts DEF SlotsType
        <5>. QED  BY <1>4, <1>6, <2>5, <3>2, <5>1 DEF Freed, Free, SlotsType
      <4>. QED  BY <1>1, <1>2, <1>3, <2>2, <4>1 DEF SlotsReady
    <3>. QED  BY <3>1, <3>2
  <2>. QED  BY <1>1, <2>6, <2>7, <2>8, <2>9, SlotsStep
<1>12. CASE Result(k, g) = "error"
  <2>1. k' = Read(k, g) /\ mem' = mem
    BY <1>5, <1>6, <1>12 DEF SlotsRead
  <2>2. /\ KernelOK(k', HeldIn(k, n, sl), prog \in Clearing) /\ SameConnections(k, k') /\ k'.out = k.out
    BY <1>2, <1>3, <1>6, <1>12, <2>1, ReadEndOK
  <2>3. SlotsIn(k', n, sl, at, b) /\ HeldIn(k', n, sl) = HeldIn(k, n, sl)
    BY <1>2, <1>3, <2>2, SlotsSame
  <2>4. mem' = [size |-> n, slot |-> sl, at |-> at, buf |-> b]
    BY <1>2, <1>3, <2>1
  <2>5. KernelOK(k', HeldIn(k', n, sl), prog \in Clearing)
    BY <2>2, <2>3
  <2>6. SlotsReady(k', ready', pc', cur', n, sl)
    BY <1>1, <1>2, <1>3, <2>2, SlotsReadyKept
  <2>. QED  BY <1>1, <2>3, <2>4, <2>5, <2>6, SlotsStep
<1>13. Result(k, g) \in {"data", "eof", "error"}
  <2>1. g # Listener /\ g # Udp
    BY <1>6, FdFacts
  <2>2. Result(k, g) # "again"
    BY <1>8, <2>1 DEF Readable
  <2>. QED  BY <2>2 DEF Result
<1>. QED  BY <1>10, <1>11, <1>12, <1>13

\* senddata
LEMMA SlotsSendStep ==
    ASSUME ServerInv, NEW f \in Fds \cup {Listener}, SlotsSend(f)
    PROVE  ServerInv'
<1>1. /\ prog = "slots" /\ prog' = prog /\ cur' = cur /\ pc = "wait" /\ f \in ready /\ pc' = pc
      /\ ready' = ready \ {f} /\ Called(f).ev = "out"
  BY DEF SlotsSend, Calls, Take
<1>2. /\ KernelOK(k, HeldIn(k, mem.size, mem.slot), prog \in Clearing) /\ prog \in Clearing
      /\ mem = [size |-> mem.size, slot |-> mem.slot, at |-> mem.at, buf |-> mem.buf]
      /\ SlotsIn(k, mem.size, mem.slot, mem.at, mem.buf)
      /\ SlotsReady(k, ready, pc, cur, mem.size, mem.slot)
  BY <1>1, SlotsInv
<1>3. PICK n, sl, at, b : n = mem.size /\ sl = mem.slot /\ at = mem.at /\ b = mem.buf
  OBVIOUS
<1>4. SlotsType(n, sl, at, b)
  BY <1>2, <1>3 DEF SlotsIn
<1>5. PICK i, g : i = mem.at[f] /\ g = Called(f).fd
  OBVIOUS
<1>6. Called(f).fd \in Fds
  <2>1. at[f] \in 0..n /\ Called(f) = sl[at[f]]
    BY <1>3, <1>4, FdFacts DEF SlotsType, Called
  <2>. QED  BY <1>1, <1>2, <1>3, <2>1, SendingEntry
<1>7. /\ i \in 0..n /\ g \in Fds /\ sl[i].fd = g /\ sl[i].ev = "out" /\ Open(k, g)
      /\ k.desc[g] \in Clients /\ EntryOK(k, n, sl, at, b, i)
  BY <1>1, <1>3, <1>5, <1>6, CalledFacts
<1>8. PICK c \in Clients : c = k.desc[g]
  BY <1>7
<1>9. k \in KernelType /\ ConnectionsOK(k)
  BY <1>2 DEF KernelOK
<1>10. b[i] = AnswerTo(k, g, TRUE)
  BY <1>7 DEF EntryOK
<1>11. /\ k' = Watch(Write(k, g, AnswerTo(k, g, TRUE)), g, "in", FALSE)
       /\ mem' = [mem EXCEPT !.slot[i].ev = "in", !.at[g] = i]
  BY <1>3, <1>5, <1>10 DEF SlotsSend
<1>12. HeldIn(k, n, sl) \in [Clients -> 0..1] /\ HeldIn(k, n, sl)[c] = 1
  <2>1. HoldsFor(k, sl, c, i)
    BY <1>7, <1>8 DEF HoldsFor
  <2>. QED  BY <1>7, <2>1 DEF HeldIn, HoldsAny
<1>13. Holding(k, HeldIn(k, n, sl), prog \in Clearing, g, TRUE)
  BY <1>2, <1>3, <1>7, <1>8, <1>12 DEF Holding
<1>14. PICK s : s = Write(k, g, AnswerTo(k, g, TRUE))
  OBVIOUS
<1>15. /\ KernelOK(s, AnsweredFor(HeldIn(k, n, sl), k.desc[g]), prog \in Clearing)
       /\ SameConnections(k, s)
       /\ \A x \in Clients \ {k.desc[g]} : s.out[x] = k.out[x]
  <2>1. PICK h0, cl, tt : h0 = HeldIn(k, n, sl) /\ cl = (prog \in Clearing) /\ tt = TRUE
    OBVIOUS
  <2>2. Holding(k, h0, cl, g, tt)
    BY <1>13, <2>1, Zenon
  <2>3. /\ KernelOK(Write(k, g, AnswerTo(k, g, tt)), AnsweredFor(h0, k.desc[g]), cl)
        /\ SameConnections(k, Write(k, g, AnswerTo(k, g, tt)))
        /\ Write(k, g, AnswerTo(k, g, tt)).watch = k.watch
        /\ \A x \in Clients \ {k.desc[g]} : Write(k, g, AnswerTo(k, g, tt)).out[x] = k.out[x]
    BY <2>2, WriteHeldOK
  <2>4. s = Write(k, g, AnswerTo(k, g, tt))
    BY <1>14, <2>1, Zenon
  <2>5. /\ KernelOK(s, AnsweredFor(h0, k.desc[g]), cl) /\ SameConnections(k, s)
        /\ \A x \in Clients \ {k.desc[g]} : s.out[x] = k.out[x]
    BY <2>3, <2>4, Zenon
  <2>. QED  BY <2>1, <2>5, Zenon
<1>16. PICK h : h = AnsweredFor(HeldIn(k, n, sl), c)
  OBVIOUS
<1>17. Open(s, g) /\ "in" \in {"in", "out"} /\ FALSE \in BOOLEAN
  BY <1>7, <1>15 DEF SameConnections, Open
<1>18. KernelOK(k', h, prog \in Clearing) /\ SameConnections(s, k') /\ SameStreams(s, k')
  <2>1. KernelOK(s, h, prog \in Clearing)
    BY <1>8, <1>15, <1>16
  <2>. QED  BY <1>7, <1>11, <1>14, <1>17, <2>1, WatchIsOK
<1>19. SameConnections(k, k') /\ \A x \in Clients \ {c} : k'.out[x] = k.out[x]
  BY <1>8, <1>15, <1>18 DEF SameConnections, SameStreams
<1>20. Turning(k, n, sl, at, b, i, g, k', c, "in", b)
  <2>1. b \in [0..n -> Answer \cup {Nobody}]
    BY <1>4 DEF SlotsType
  <2>. QED  BY <1>2, <1>3, <1>7, <1>8, <1>9, <1>17, <1>19, <2>1 DEF Turning
<1>21. PICK new, at2 : new = Turned(sl, i, "in") /\ at2 = Moved(at, g, i)
  OBVIOUS
<1>22. /\ SlotsIn(k', n, new, at2, b) /\ ~HoldsAny(k', n, new, c)
       /\ \A x \in Clients \ {c} : HoldsAny(k', n, new, x) <=> HoldsAny(k, n, sl, x)
  BY <1>20, <1>21, SlotsTurned
<1>23. HeldIn(k', n, new) = h
  BY <1>16, <1>22, HeldTurned DEF AnsweredFor
<1>24. mem' = [size |-> n, slot |-> new, at |-> at2, buf |-> b]
  BY <1>2, <1>3, <1>11, <1>21 DEF Turned, Moved
<1>25. KernelOK(k', HeldIn(k', n, new), prog \in Clearing)
  BY <1>18, <1>23
<1>26. new[n].fd = sl[n].fd
  <2>1. n \in 0..n /\ sl[i] \in Entry
    BY <1>4, <1>7, SocketsAssumption DEF SlotsType
  <2>. QED  BY <1>4, <1>7, <1>21, <2>1 DEF Turned, SlotsType, Entry
<1>27. SlotsReady(k', ready', pc', cur', n, new)
  BY <1>1, <1>2, <1>3, <1>19, <1>26, SlotsReadyKept
<1>. QED  BY <1>1, <1>22, <1>24, <1>25, <1>27, SlotsStep

\* The steps of reactor.cpp, libevent_tcp_server.cpp and epoll_reactor.cpp.
LEMMA ReactorsSteps == ServerInv /\ ReactorsStep => ServerInv'
<1>. SUFFICES ASSUME ServerInv, ReactorsStep PROVE ServerInv'
  OBVIOUS
<1>1. CASE ReactorWait \/ ReactorAccept \/ \E f \in Fds : ReactorRecv(f) \/ ReactorSend(f)
  <2>1. prog = "reactor" /\ prog' = prog
    BY <1>1 DEF ReactorWait, ReactorAccept, ReactorRecv, ReactorSend, EpollWait, Wait
  <2>. QED  BY <2>1 DEF ServerInv
<1>2. CASE LibeventWait
  BY <1>2, EpollWaitStep DEF LibeventWait
<1>3. CASE LibeventAccept
  BY <1>3, LibeventAcceptStep
<1>4. CASE \E f \in Fds : LibeventRead(f)
  BY <1>4, LibeventReadStep
<1>5. CASE SlotsWait \/ \E f \in Fds \cup {Listener} : SlotsSkip(f)
  BY <1>5, SlotsWaitStep
<1>6. CASE \E f \in Fds \cup {Listener} : SlotsAccept(f) \/ SlotsRead(f) \/ SlotsSend(f)
  BY <1>6, SlotsAcceptStep, SlotsReadStep, SlotsSendStep
<1>. QED  BY <1>1, <1>2, <1>3, <1>4, <1>5, <1>6 DEF ReactorsStep

-----------------------------------------------------------------------------
(* The servers when they start.                                            *)

\* The kernel before anybody has come.
LEMMA KernelStart ==
    ASSUME NEW s \in Kernels, NEW clearing
    PROVE  KernelOK(s, None, clearing) /\ (\A f \in Fds : ~Open(s, f) /\ ~s.watch[f].on)
<1>1. PICK limit \in 1..MaxFd :
        s = [limit |-> limit, backlog |-> <<>>, listening |-> TRUE,
             desc |-> [f \in Fds |-> Nobody], came |-> {}, closed |-> {},
             sent |-> [c \in Clients |-> 0], inq |-> [c \in Clients |-> <<>>],
             ended |-> [c \in Clients |-> "open"], out |-> [c \in Clients |-> <<>>],
             dgrams |-> 0, watch |-> [f \in Watched |-> [Off EXCEPT !.on = f = Listener]]]
  BY DEF Kernels
<1>2. \A f \in Watched : /\ [Off EXCEPT !.on = f = Listener] \in WatchState
                         /\ [Off EXCEPT !.on = f = Listener].on = (f = Listener)
                         /\ [Off EXCEPT !.on = f = Listener].ev = "in"
  BY DEF Off, WatchState
<1>3. /\ s.watch \in [Watched -> WatchState]
      /\ \A f \in Watched : s.watch[f].on = (f = Listener) /\ s.watch[f].ev = "in"
  BY <1>1, <1>2
<1>4. s \in KernelType
  <2>1. /\ s.limit \in 1..MaxFd /\ s.backlog \in Seq(Clients) /\ s.listening \in BOOLEAN
        /\ s.desc \in [Fds -> Clients \cup {Nobody}]
        /\ s.came \in SUBSET Clients /\ s.closed \in SUBSET Clients
    BY <1>1
  <2>2. /\ s.sent \in [Clients -> Nat] /\ s.inq \in [Clients -> Seq(Nat)]
        /\ s.ended \in [Clients -> {"open", "fin", "reset", "told"}]
        /\ s.out \in [Clients -> Seq(Answer)] /\ s.dgrams \in Int
    BY <1>1
  <2>3. s = [limit |-> s.limit, backlog |-> s.backlog, listening |-> s.listening,
             desc |-> s.desc, came |-> s.came, closed |-> s.closed, sent |-> s.sent,
             inq |-> s.inq, ended |-> s.ended, out |-> s.out, dgrams |-> s.dgrams,
             watch |-> s.watch]
    BY <1>1
  <2>. QED  BY <1>3, <2>1, <2>2, <2>3 DEF KernelType, KernelOf
<1>5. \A f \in Fds : ~Open(s, f) /\ ~s.watch[f].on
  BY <1>1, <1>3, FdFacts DEF Open
<1>6. ConnectionsOK(s)
  <2>1. DOMAIN s.backlog = {} /\ \A f \in Fds : s.desc[f] = Nobody
    BY <1>1
  <2>. QED  BY <1>5, <2>1 DEF ConnectionsOK
<1>7. StreamsOK(s, None) /\ AnswersOK(s, clearing)
  <2>1. \A c \in Clients : /\ s.inq[c] = <<>> /\ s.out[c] = <<>> /\ s.sent[c] = 0
                           /\ None[c] = 0
    BY <1>1, NoneFacts
  <2>2. \A c \in Clients : 1..Len(s.inq[c]) = {} /\ 1..Len(s.out[c]) = {}
    BY <2>1
  <2>3. \A c \in Clients : s.sent[c] = Len(s.out[c]) + None[c] + Len(s.inq[c])
    BY <2>1
  <2>. QED  BY <2>2, <2>3 DEF StreamsOK, AnswersOK
<1>8. WatchOK(s)
  BY <1>3, <1>5, FdFacts DEF WatchOK
<1>. QED  BY <1>4, <1>5, <1>6, <1>7, <1>8 DEF KernelOK

\* A plain server starts with tables that fit.
LEMMA PlainStarted ==
    ASSUME prog \in Plain, NEW m, Started(prog, m), MemOK
    PROVE  ServerInv
<1>1. ready = {} /\ pc = "wait" /\ k \in Kernels /\ prog # "slots" /\ prog # "reactor"
  BY DEF Started, Plain
<1>2. Held = None
  BY <1>1 DEF Held, None
<1>3. KernelOK(k, None, prog \in Clearing)
  BY <1>1, KernelStart
<1>4. ReadyOK
  BY <1>1 DEF ReadyOK
<1>. QED  BY <1>2, <1>3, <1>4 DEF ServerInv

\* reactor.cpp starts with the listener in its last event.
LEMMA SlotsStarted ==
    ASSUME NEW size \in 1..MaxFd, SlotsStart(size)
    PROVE  ServerInv
<1>1. /\ prog = "slots" /\ ready = {} /\ pc = "wait" /\ k \in Kernels
      /\ mem.size = size /\ mem.at = [f \in Watched |-> size]
      /\ mem.buf = [i \in 0..size |-> Nobody]
      /\ mem.slot = [i \in 0..size |-> IF i = size THEN [fd |-> Listener, ev |-> "in"] ELSE Free]
      /\ mem = [size |-> mem.size, slot |-> mem.slot, at |-> mem.at, buf |-> mem.buf]
  BY DEF SlotsStart, Started
<1>2. KernelOK(k, None, prog \in Clearing) /\ \A f \in Fds : ~Open(k, f)
  BY <1>1, KernelStart
<1>3. size \in 0..size /\ size \in Nat
  BY SocketsAssumption
<1>4. /\ mem.slot[size].fd = Listener /\ mem.slot[size].ev = "in"
      /\ \A i \in 0..size : i # size => mem.slot[i].fd = -1 /\ mem.slot[i].ev = "none"
  BY <1>1, <1>3 DEF Free
<1>5. Held = None
  BY <1>1, <1>3, <1>4 DEF Held, None
<1>6. ReadyOK
  BY <1>1 DEF ReadyOK
<1>7. SlotsOK
  <2>1. mem.slot \in [0..size -> Entry]
    BY <1>1 DEF Entry, Free
  <2>2. /\ mem.at \in [Watched -> 0..size] /\ mem.at[Listener] = size
        /\ mem.buf \in [0..size -> Answer \cup {Nobody}]
    BY <1>1, <1>3, FdFacts
  <2>3. Opened = {}
    BY <1>2 DEF Opened
  <2>4. -1 # Listener /\ -1 \notin Fds /\ Listener \notin Fds
    BY SocketsAssumption DEF Listener, Fds
  <2>5. ASSUME NEW i \in 0..size
        PROVE  /\ mem.slot[i].fd = Listener => i = size /\ mem.slot[i].ev = "in"
               /\ mem.slot[i].fd = -1 <=> mem.slot[i].ev = "none"
               /\ mem.slot[i].fd \notin Fds /\ mem.slot[i].ev # "out"
    BY <1>4, <2>4
  <2>. QED  BY <1>1, <2>1, <2>2, <2>3, <2>5 DEF SlotsOK, Entry
<1>8. MemOK
  BY <1>1, <1>7 DEF MemOK
<1>. QED  BY <1>2, <1>5, <1>6, <1>8 DEF ServerInv

\* Every server starts in the invariant.
LEMMA ServersStarted == Init => ServerInv
<1>. SUFFICES ASSUME Init PROVE ServerInv
  OBVIOUS
<1>1. CASE EpollInit
  <2>1. PICK p, m : /\ p \in {"level", "tcp", "edge", "pooled", "rector"} /\ Started(p, m)
                    /\ p = "rector" => m = [dirty |-> TRUE]
    BY <1>1 DEF EpollInit, LevelStart, TcpStart, EdgeStart, PooledStart, RectorStart
  <2>2. prog = p /\ mem = m
    BY <2>1 DEF Started
  <2>3. MemOK
    <3>0. [dirty |-> TRUE] \in [dirty : BOOLEAN]
      OBVIOUS
    <3>1. prog = "rector" => mem \in [dirty : BOOLEAN]
      BY <2>1, <2>2, <3>0, Zenon
    <3>. QED  BY <2>1, <2>2, <3>1 DEF MemOK
  <2>. QED  BY <2>1, <2>2, <2>3, PlainStarted DEF Plain
<1>2. CASE ReactorStart
  BY <1>2 DEF ReactorStart, Started, ServerInv
<1>3. CASE \E size \in 1..MaxFd : SlotsStart(size)
  BY <1>3, SlotsStarted
<1>4. CASE LibeventStart
  <2>1. prog = "libevent" /\ mem = [evs |-> <<>>] /\ k \in Kernels
    BY <1>4 DEF LibeventStart, Started
  <2>2. \A f \in Fds : ~k.watch[f].on
    BY <2>1, KernelStart
  <2>3. MemOK
    <3>1. mem \in [evs : Seq(Fds)] /\ DOMAIN mem.evs = {}
      BY <2>1
    <3>. QED  BY <2>1, <2>2, <3>1 DEF MemOK
  <2>. QED  BY <1>4, <2>1, <2>3, PlainStarted DEF LibeventStart, Plain
<1>5. CASE SelectInit
  <2>0. Listener \in Watched /\ Udp \in Watched
    BY DEF Watched
  <2>1. SUFFICES MemOK /\ prog \in Plain /\ \E m : Started(prog, m)
    BY PlainStarted
  <2>2. k \in Kernels /\ \E m : Started(prog, m)
    BY <1>5 DEF SelectInit, SelectStart, ArrayStart, PollStart, UdpTcpStart, PthreadStart,
                ProcessStart, Started
  <2>3. Opened = {} /\ -1 \notin Fds
    BY <2>2, KernelStart, SocketsAssumption DEF Opened, Fds
  <2>4. CASE SelectStart
    <3>1. prog = "select" /\ mem = [set |-> {Listener}, maxfd |-> Listener]
      BY <2>4 DEF SelectStart, Started
    <3>. QED  BY <2>0, <2>2, <2>3, <3>1 DEF MemOK, Plain
  <2>5. CASE ArrayStart
    <3>1. prog = "array" /\ mem = [set |-> {Listener}, maxfd |-> Listener,
                                   client |-> EmptyTable, maxi |-> 0]
      BY <2>5 DEF ArrayStart, Started
    <3>2. EmptyTable \in [1..MaxFd -> Fds \cup {-1}] /\ 0 \in 0..MaxFd
      BY SocketsAssumption DEF EmptyTable
    <3>3. ArrayOK
      BY <2>3, <3>1, <3>2 DEF ArrayOK, EmptyTable
    <3>. QED  BY <2>0, <2>2, <2>3, <3>1, <3>2, <3>3 DEF MemOK, Plain
  <2>6. CASE PollStart
    <3>1. prog = "poll" /\ mem = [client |-> EmptyTable, maxi |-> 0]
      BY <2>6 DEF PollStart, Started
    <3>2. EmptyTable \in [1..MaxFd -> Fds \cup {-1}] /\ 0 \in 0..MaxFd
      BY SocketsAssumption DEF EmptyTable
    <3>3. ArrayOK
      BY <2>3, <3>1, <3>2 DEF ArrayOK, EmptyTable
    <3>. QED  BY <2>2, <3>1, <3>2, <3>3 DEF MemOK, Plain
  <2>7. CASE UdpTcpStart
    <3>1. prog = "udptcp" /\ mem = [set |-> {Listener, Udp}, maxfd |-> Udp]
      BY <2>7 DEF UdpTcpStart, Started
    <3>. QED  BY <2>0, <2>2, <3>1 DEF MemOK, Plain
  <2>8. CASE PthreadStart
    <3>1. prog = "pthread" /\ mem = [threads |-> {}]
      BY <2>8 DEF PthreadStart, Started
    <3>. QED  BY <2>2, <2>3, <3>1 DEF MemOK, Plain
  <2>9. CASE ProcessStart
    <3>1. prog = "process" /\ mem = [kids |-> {}, zombies |-> 0, pending |-> FALSE,
                                     handler |-> FALSE, reaping |-> FALSE, forked |-> FALSE]
      BY <2>9 DEF ProcessStart, Started
    <3>. QED  BY <2>2, <3>1 DEF MemOK, Plain
  <2>. QED  BY <1>5, <2>4, <2>5, <2>6, <2>7, <2>8, <2>9 DEF SelectInit
<1>. QED  BY <1>1, <1>2, <1>3, <1>4, <1>5 DEF Init, ReactorsInit

-----------------------------------------------------------------------------
(* All of them together.                                                   *)

\* Whoever takes a step, the invariant stays.
LEMMA ServersStep == ServerInv /\ [Next]_vars => ServerInv'
<1>. SUFFICES ASSUME ServerInv, [Next]_vars PROVE ServerInv'
  OBVIOUS
<1>1. CASE \E c \in Clients \ {Latecomer} : ClientMove(c)
  BY <1>1, ClientSteps
<1>2. CASE ClientConnect(Latecomer)
  BY <1>2, ClientSteps, LatecomerAssumption DEF ClientMove
<1>3. CASE Datagram
  BY <1>3, DatagramStep
<1>4. CASE EpollStep
  BY <1>4, EpollSteps
<1>5. CASE ReactorsStep
  BY <1>5, ReactorsSteps
<1>6. CASE SelectStep
  BY <1>6, SelectSteps, ArraySteps, PollSteps, UdpTcpSteps, PthreadSteps DEF SelectStep
<1>7. CASE ThreadStep
  BY <1>7, PthreadSteps, ProcessSteps DEF ThreadStep
<1>8. CASE UNCHANGED vars
  <2>1. /\ k' = k /\ prog' = prog /\ mem' = mem /\ ready' = ready /\ pc' = pc /\ cur' = cur
    BY <1>8 DEF vars
  <2>2. prog # "reactor" => KernelOK(k', Held, prog \in Clearing)
    BY <2>1 DEF ServerInv
  <2>. QED  BY <2>1, <2>2, QuietStep
<1>. QED  BY <1>1, <1>2, <1>3, <1>4, <1>5, <1>6, <1>7, <1>8 DEF Next, ServerStep

\* Kernel, reported descriptors and tables agree in every state of every server,
\* for any number of clients, descriptors and messages.
THEOREM ServersInvariant == Spec => []ServerInv
<1>1. Init => ServerInv
  BY ServersStarted
<1>2. ServerInv /\ [Next]_vars => ServerInv'
  BY ServersStep
<1>. QED  BY <1>1, <1>2, PTL DEF Spec

\* A client is answered with its own messages, in order, none twice, and without
\* a rest of an earlier message where the server clears its buffer.
THEOREM EchoInOrderHolds == Spec => []EchoInOrder
<1>1. ServerInv => EchoInOrder
  BY DEF ServerInv, KernelOK, AnswersOK, EchoInOrder
<1>. QED  BY <1>1, ServersInvariant, PTL

\* Whoever is in a table of a server has an open descriptor, and one entry only.
THEOREM TablesAgreeHolds == Spec => []TablesAgree
<1>1. ServerInv => TablesAgree
  <2>. SUFFICES ASSUME ServerInv, prog # "reactor" PROVE TablesAgree
    BY DEF TablesAgree
  <2>0. KernelOK(k, Held, prog \in Clearing) /\ MemOK
    BY DEF ServerInv
  <2>1. CASE prog = "select"
    BY <2>0, <2>1 DEF MemOK, TablesAgree, Opened
  <2>2. CASE prog \in {"array", "poll"}
    <3>1. ArrayOK
      BY <2>0, <2>2 DEF MemOK
    <3>2. prog = "array" => mem.set \ {Listener} = {f \in Fds : Open(k, f)}
      BY <2>0 DEF MemOK, Opened
    <3>3. ASSUME NEW f \in Fds
          PROVE  Open(k, f) <=> \E i \in 1..mem.maxi : mem.client[i] = f
      <4>1. mem.maxi \in 0..MaxFd /\ f # -1 /\ MaxFd \in Nat
        BY <3>1, SocketsAssumption DEF ArrayOK, Fds
      <4>2. ASSUME Open(k, f) PROVE \E i \in 1..mem.maxi : mem.client[i] = f
        <5>1. PICK i \in 1..MaxFd : mem.client[i] = f
          BY <3>1, <4>2 DEF ArrayOK, Opened
        <5>2. i <= mem.maxi
          BY <3>1, <4>1, <5>1 DEF ArrayOK
        <5>3. i \in 1..mem.maxi
          BY <4>1, <5>2
        <5>. QED  BY <5>1, <5>3
      <4>3. ASSUME NEW i \in 1..mem.maxi, mem.client[i] = f PROVE Open(k, f)
        <5>1. i \in 1..MaxFd
          BY <4>1
        <5>. QED  BY <3>1, <4>1, <4>3, <5>1 DEF ArrayOK
      <4>. QED  BY <4>2, <4>3
    <3>. QED  BY <2>2, <3>2, <3>3 DEF TablesAgree
  <2>3. CASE prog = "libevent"
    BY <2>0, <2>3 DEF MemOK, TablesAgree
  <2>4. CASE prog = "slots"
    <3>1. SlotsOK
      BY <2>0, <2>4 DEF MemOK
    <3>2. ASSUME mem.slot[mem.size].fd = Listener, NEW f \in Fds
          PROVE  Open(k, f) <=> \E i \in 0..(mem.size - 1) : mem.slot[i].fd = f
      <4>1. mem.size \in 1..MaxFd /\ f # Listener /\ f \in Watched /\ MaxFd \in Nat
        BY <3>1, FdFacts, SocketsAssumption DEF SlotsOK
      <4>2. ASSUME Open(k, f) PROVE \E i \in 0..(mem.size - 1) : mem.slot[i].fd = f
        <5>1. mem.at[f] \in 0..mem.size /\ mem.slot[mem.at[f]].fd = f
          BY <3>1, <4>1, <4>2 DEF SlotsOK, Opened
        <5>2. mem.at[f] # mem.size
          BY <3>2, <4>1, <5>1
        <5>3. mem.at[f] \in 0..(mem.size - 1)
          BY <4>1, <5>1, <5>2
        <5>. QED  BY <5>1, <5>3
      <4>3. ASSUME NEW i \in 0..(mem.size - 1), mem.slot[i].fd = f PROVE Open(k, f)
        <5>1. i \in 0..mem.size
          BY <4>1
        <5>. QED  BY <3>1, <4>3, <5>1 DEF SlotsOK
      <4>. QED  BY <4>2, <4>3
    <3>. QED  BY <2>4, <3>2 DEF TablesAgree
  <2>5. CASE prog = "pthread"
    BY <2>0, <2>5 DEF MemOK, TablesAgree, Opened
  <2>6. CASE prog \notin {"select", "array", "poll", "libevent", "slots", "pthread"}
    BY <2>6 DEF TablesAgree
  <2>. QED  BY <2>1, <2>2, <2>3, <2>4, <2>5, <2>6
<1>. QED  BY <1>1, ServersInvariant, PTL

\* A child of tcp_process_server.cpp that has ended is a zombie only as long as
\* the signal is pending or free_process is running.
THEOREM NoZombieForgottenHolds == Spec => []NoZombieForgotten
<1>1. ServerInv => NoZombieForgotten
  BY DEF ServerInv, MemOK, NoZombieForgotten
<1>. QED  BY <1>1, ServersInvariant, PTL
=============================================================================
