----------------------------- MODULE WebProofs -----------------------------
(***************************************************************************)
(* The web servers and the WebSocket server, for any number of clients,    *)
(* descriptors, messages and payloads: a response answers what its own     *)
(* client has sent, and every recv of frames is answered once and in       *)
(* order.  First what a system call does to the kernel, then the handlers. *)
(***************************************************************************)
EXTENDS Web, WebSocket, SequenceTheorems, NaturalsInduction, WellFoundedInduction, TLAPS

-----------------------------------------------------------------------------
(* Descriptors and sequences.                                              *)

\* The descriptors of connections are natural numbers other than the two of the
\* listening sockets.
LEMMA FdFacts ==
    /\ Fds \subseteq Nat /\ Listener \notin Fds /\ Listener \in Watched
    /\ Fds \subseteq Watched /\ Watched \subseteq Nat
BY SocketsAssumption DEF Fds, Listener, Udp, Watched

\* accept hands out a free descriptor.
LEMMA FreeFdFacts ==
    ASSUME NEW s, FreeFds(s) # {}
    PROVE  FreeFd(s) \in Fds /\ s.desc[FreeFd(s)] = Nobody
<1>1. FreeFds(s) \in SUBSET Nat
  BY FdFacts DEF FreeFds
<1>2. IsWellFoundedOn(OpToRel(<, Nat), Nat)
  BY NatLessThanWellFounded
<1>3. PICK x \in FreeFds(s) : \A y \in FreeFds(s) : ~(<<y, x>> \in OpToRel(<, Nat))
  BY <1>1, <1>2, WFMin
<1>4. \A y \in FreeFds(s) : ~(y < x)
  BY <1>1, <1>3 DEF OpToRel
<1>5. \A y \in FreeFds(s) : x <= y
  BY <1>1, <1>4
<1>6. FreeFd(s) \in FreeFds(s)
  BY <1>5 DEF FreeFd, Min
<1>. QED  BY <1>6 DEF FreeFds

\* The head of a sequence and what is behind it.
LEMMA TailFacts ==
    ASSUME NEW E, NEW s \in Seq(E), s # <<>>
    PROVE  /\ Tail(s) \in Seq(E) /\ Head(s) \in E /\ Head(s) = s[1]
           /\ Len(s) \in Nat \ {0} /\ Len(Tail(s)) = Len(s) - 1
           /\ \A i \in 1..(Len(s) - 1) : Tail(s)[i] = s[i + 1]
OBVIOUS

\* A function on 1..n is a sequence of length n.
LEMMA ListFacts ==
    ASSUME NEW E, NEW n \in Nat, NEW p \in [1..n -> E]
    PROVE  p \in Seq(E) /\ Len(p) = n
OBVIOUS

\* One sequence behind another.
LEMMA JoinFacts ==
    ASSUME NEW E, NEW s \in Seq(E), NEW t \in Seq(E)
    PROVE  /\ s \o t \in Seq(E) /\ Len(s \o t) = Len(s) + Len(t)
           /\ \A i \in 1..Len(s) : (s \o t)[i] = s[i]
           /\ \A i \in 1..Len(t) : (s \o t)[Len(s) + i] = t[i]
OBVIOUS

\* One more at the end of a sequence.
LEMMA AppendFacts ==
    ASSUME NEW E, NEW s \in Seq(E), NEW x \in E
    PROVE  /\ Append(s, x) \in Seq(E) /\ Len(s) \in Nat /\ Len(Append(s, x)) = Len(s) + 1
           /\ Append(s, x)[Len(s) + 1] = x /\ \A i \in 1..Len(s) : Append(s, x)[i] = s[i]
           /\ Append(s, x) # <<>>
OBVIOUS

-----------------------------------------------------------------------------
(* System calls, on a kernel where the programs write members of R.        *)

\* What holds of the kernel of every server.
Sound(s, R) == s \in KernelOf(R) /\ ConnectionsOK(s) /\ WatchOK(s)

\* The connections, and the streams, of two kernels are the same.
SameConnections(s, t) == t.backlog = s.backlog /\ t.desc = s.desc /\ t.came = s.came
SameStreams(s, t) == t.sent = s.sent /\ t.inq = s.inq /\ t.ended = s.ended /\ t.out = s.out

\* What a kernel holds.
LEMMA KernelFields ==
    ASSUME NEW R, NEW s \in KernelOf(R)
    PROVE  /\ s.backlog \in Seq(Clients) /\ s.came \subseteq Clients /\ s.closed \subseteq Clients
           /\ s.desc \in [Fds -> Clients \cup {Nobody}]
           /\ s.sent \in [Clients -> Nat] /\ s.inq \in [Clients -> Seq(Nat)]
           /\ s.ended \in [Clients -> {"open", "fin", "reset", "told"}]
           /\ s.watch \in [Watched -> WatchState] /\ s.out \in [Clients -> Seq(R)]
           /\ \A f \in Fds : Open(s, f) => s.desc[f] \in Clients
BY DEF KernelOf, Open

\* What the invariants of a kernel look at.
LEMMA SoundKept ==
    ASSUME NEW R, NEW s, Sound(s, R), NEW t \in KernelOf(R), SameConnections(s, t), WatchOK(t)
    PROVE  Sound(t, R)
BY DEF Sound, ConnectionsOK, SameConnections, Open

\* Only the registrations change, and only open descriptors are registered.
LEMMA RewatchOK ==
    ASSUME NEW R, NEW s, Sound(s, R), NEW w \in [Watched -> WatchState], w[Listener].ev = "in",
           \A f \in Fds : w[f].on => Open(s, f)
    PROVE  /\ Sound([s EXCEPT !.watch = w], R)
           /\ SameConnections(s, [s EXCEPT !.watch = w]) /\ SameStreams(s, [s EXCEPT !.watch = w])
           /\ [s EXCEPT !.watch = w].watch = w
<1>1. PICK t : t = [s EXCEPT !.watch = w]
  OBVIOUS
<1>2. t \in KernelOf(R)
  BY <1>1 DEF Sound, KernelOf
<1>3. SameConnections(s, t) /\ SameStreams(s, t) /\ t.watch = w
  BY <1>1 DEF Sound, KernelOf, SameConnections, SameStreams
<1>4. WatchOK(t)
  BY <1>3 DEF WatchOK, SameConnections, Open
<1>. QED  BY <1>1, <1>2, <1>3, <1>4, SoundKept

\* epoll_wait forgets the edges it reports.
LEMMA ReportedOK ==
    ASSUME NEW R, NEW s, Sound(s, R)
    PROVE  /\ Sound(Reported(s), R)
           /\ SameConnections(s, Reported(s)) /\ SameStreams(s, Reported(s))
           /\ \A f \in Watched : Reported(s).watch[f].ev = s.watch[f].ev
<1>1. s.watch \in [Watched -> WatchState]
  BY KernelFields DEF Sound
<1>2. PICK w : w = [f \in DOMAIN s.watch |-> IF f \in Reportable(s)
                        THEN [s.watch[f] EXCEPT !.edge = FALSE] ELSE s.watch[f]]
  OBVIOUS
<1>3. w \in [Watched -> WatchState] /\ \A f \in Watched : w[f].on = s.watch[f].on /\ w[f].ev = s.watch[f].ev
  BY <1>1, <1>2 DEF WatchState
<1>4. Reported(s) = [s EXCEPT !.watch = w]
  BY <1>2 DEF Reported
<1>5. w[Listener].ev = "in" /\ \A f \in Fds : w[f].on => Open(s, f)
  BY <1>3, FdFacts DEF Sound, WatchOK
<1>. QED  BY <1>3, <1>4, <1>5, RewatchOK

\* An event on a descriptor makes an edge.
LEMMA StirOK ==
    ASSUME NEW R, NEW s, Sound(s, R), NEW fs
    PROVE  /\ Sound(Stir(s, fs), R)
           /\ SameConnections(s, Stir(s, fs)) /\ SameStreams(s, Stir(s, fs))
           /\ \A f \in Watched : Stir(s, fs).watch[f].ev = s.watch[f].ev
<1>1. s.watch \in [Watched -> WatchState]
  BY KernelFields DEF Sound
<1>2. PICK w : w = [f \in DOMAIN s.watch |->
                        IF f \in fs /\ s.watch[f].on /\ s.watch[f].et /\ s.watch[f].ev = "in"
                        THEN [s.watch[f] EXCEPT !.edge = TRUE] ELSE s.watch[f]]
  OBVIOUS
<1>3. w \in [Watched -> WatchState] /\ \A f \in Watched : w[f].on = s.watch[f].on /\ w[f].ev = s.watch[f].ev
  BY <1>1, <1>2 DEF WatchState
<1>4. Stir(s, fs) = [s EXCEPT !.watch = w]
  BY <1>2 DEF Stir
<1>5. w[Listener].ev = "in" /\ \A f \in Fds : w[f].on => Open(s, f)
  BY <1>3, FdFacts DEF Sound, WatchOK
<1>. QED  BY <1>3, <1>4, <1>5, RewatchOK

\* EPOLL_CTL_ADD and EPOLL_CTL_MOD
LEMMA WatchIsOK ==
    ASSUME NEW R, NEW s, Sound(s, R), NEW f \in Fds, Open(s, f),
           NEW ev \in {"in", "out"}, NEW et \in BOOLEAN
    PROVE  /\ Sound(Watch(s, f, ev, et), R)
           /\ SameConnections(s, Watch(s, f, ev, et)) /\ SameStreams(s, Watch(s, f, ev, et))
           /\ Watch(s, f, ev, et).watch[f].ev = ev
           /\ \A g \in Watched \ {f} : Watch(s, f, ev, et).watch[g] = s.watch[g]
<1>1. s.watch \in [Watched -> WatchState]
  BY KernelFields DEF Sound
<1>2. PICK e \in BOOLEAN : e = (et /\ (ev = "out" \/ Readable(s, f)))
  OBVIOUS
<1>3. PICK w : w = [s.watch EXCEPT ![f] = [on |-> TRUE, ev |-> ev, et |-> et, edge |-> e]]
  OBVIOUS
<1>4. /\ w \in [Watched -> WatchState] /\ w[f].ev = ev
      /\ \A g \in Watched \ {f} : w[g] = s.watch[g]
  BY <1>1, <1>2, <1>3, FdFacts DEF WatchState
<1>5. Watch(s, f, ev, et) = [s EXCEPT !.watch = w]
  BY <1>1, <1>2, <1>3 DEF Watch, Sound, KernelOf
<1>6. w[Listener].ev = "in" /\ \A g \in Fds : w[g].on => Open(s, g)
  BY <1>4, FdFacts DEF Sound, WatchOK
<1>. QED  BY <1>4, <1>5, <1>6, RewatchOK

\* The same, of the kernel that results.
LEMMA WaitsFor ==
    ASSUME NEW R, NEW s, Sound(s, R), NEW f \in Fds, Open(s, f), NEW ev \in {"in", "out"},
           NEW et \in BOOLEAN, NEW t, t = Watch(s, f, ev, et)
    PROVE  /\ Sound(t, R) /\ SameConnections(s, t) /\ SameStreams(s, t)
           /\ t.watch[f].ev = ev /\ \A g \in Watched \ {f} : t.watch[g] = s.watch[g]
BY WatchIsOK

\* accept moves the first connection of the backlog to a free descriptor.
LEMMA AcceptOK ==
    ASSUME NEW R, NEW s, Sound(s, R), s.backlog # <<>>, FreeFds(s) # {}
    PROVE  /\ Sound(Accept(s), R) /\ SameStreams(s, Accept(s))
           /\ FreeFd(s) \in Fds /\ ~Open(s, FreeFd(s)) /\ Open(Accept(s), FreeFd(s))
           /\ Head(s.backlog) = s.backlog[1]
           /\ Accept(s).desc[FreeFd(s)] = Head(s.backlog)
           /\ \A g \in Fds \ {FreeFd(s)} : Accept(s).desc[g] = s.desc[g]
           /\ Accept(s).backlog = Tail(s.backlog) /\ Accept(s).came = s.came
           /\ Accept(s).watch = s.watch
<1>0. s \in KernelOf(R) /\ ConnectionsOK(s) /\ WatchOK(s)
  BY DEF Sound
<1>1. PICK f0 \in Fds : f0 = FreeFd(s) /\ s.desc[f0] = Nobody
  BY FreeFdFacts
<1>2. s.backlog \in Seq(Clients) /\ s.desc \in [Fds -> Clients \cup {Nobody}]
  BY <1>0, KernelFields
<1>3. PICK n \in Nat \ {0} : n = Len(s.backlog)
  BY <1>2, TailFacts
<1>4. PICK c \in Clients : c = Head(s.backlog) /\ c = s.backlog[1]
  BY <1>2, TailFacts
<1>5. PICK b \in Seq(Clients) : b = Tail(s.backlog)
  BY <1>2, TailFacts
<1>6. Len(b) = n - 1 /\ DOMAIN b = 1..(n - 1) /\ \A i \in 1..(n - 1) : b[i] = s.backlog[i + 1]
  BY <1>2, <1>3, <1>5
<1>7. DOMAIN s.backlog = 1..n
  BY <1>2, <1>3
<1>8. PICK d \in [Fds -> Clients \cup {Nobody}] : d = [s.desc EXCEPT ![f0] = c]
  BY <1>1, <1>2
<1>9. d[f0] = c /\ \A f \in Fds \ {f0} : d[f] = s.desc[f]
  BY <1>2, <1>8
<1>10. PICK t : t = [s EXCEPT !.backlog = b, !.desc = d]
  OBVIOUS
<1>11. Accept(s) = t
  BY <1>0, <1>1, <1>4, <1>5, <1>8, <1>10 DEF Accept, KernelOf
<1>12. t \in KernelOf(R)
  BY <1>0, <1>10 DEF KernelOf
<1>13. SameStreams(s, t) /\ t.watch = s.watch /\ t.backlog = b /\ t.desc = d /\ t.came = s.came
  BY <1>0, <1>10 DEF KernelOf, SameStreams
<1>14. c # Nobody
  BY SocketsAssumption
<1>15. \A f \in Fds : Open(t, f) <=> f = f0 \/ Open(s, f)
  BY <1>9, <1>13, <1>14 DEF Open
<1>16. ConnectionsOK(t)
  <2>1. 1 \in 1..n
    OBVIOUS
  <2>2. c \in s.came /\ \A f \in Fds : s.desc[f] # c
    BY <1>0, <1>4, <1>7, <2>1 DEF ConnectionsOK
  <2>3. ASSUME NEW f \in Fds, NEW g \in Fds, d[f] = d[g], f # g PROVE d[f] = Nobody
    BY <1>0, <1>9, <2>2, <2>3 DEF ConnectionsOK
  <2>4. \A f \in Fds : Open(t, f) => d[f] \in s.came
    BY <1>0, <1>9, <1>15, <2>2 DEF ConnectionsOK
  <2>5. ASSUME NEW i \in 1..(n - 1)
        PROVE  /\ b[i] \in s.came
               /\ \A j \in 1..(n - 1) : b[i] = b[j] => i = j
               /\ \A f \in Fds : d[f] # b[i]
    <3>1. i + 1 \in 1..n /\ i + 1 # 1 /\ b[i] = s.backlog[i + 1]
      BY <1>6
    <3>2. b[i] \in s.came /\ \A f \in Fds : s.desc[f] # b[i]
      BY <1>0, <1>7, <3>1 DEF ConnectionsOK
    <3>3. c # b[i]
      BY <1>0, <1>4, <1>7, <2>1, <3>1 DEF ConnectionsOK
    <3>4. ASSUME NEW j \in 1..(n - 1), b[i] = b[j] PROVE i = j
      <4>1. j + 1 \in 1..n /\ b[j] = s.backlog[j + 1]
        BY <1>6
      <4>2. i + 1 = j + 1
        BY <1>0, <1>7, <3>1, <3>4, <4>1 DEF ConnectionsOK
      <4>. QED  BY <4>2
    <3>. QED  BY <1>9, <3>2, <3>3, <3>4
  <2>. QED  BY <1>6, <1>13, <2>3, <2>4, <2>5 DEF ConnectionsOK
<1>17. WatchOK(t)
  BY <1>0, <1>13, <1>15 DEF WatchOK
<1>18. ~Open(s, f0)
  BY <1>1 DEF Open
<1>. QED  BY <1>1, <1>4, <1>5, <1>9, <1>11, <1>12, <1>13, <1>15, <1>16, <1>17, <1>18 DEF Sound

\* accept, and the new connection is watched for input.
LEMMA AcceptAndWatchOK ==
    ASSUME NEW R, Sound(k, R), k.backlog # <<>>, FreeFds(k) # {}, NEW et \in BOOLEAN,
           NEW t, t = AcceptAndWatch(et)
    PROVE  /\ Sound(t, R) /\ SameStreams(k, t)
           /\ FreeFd(k) \in Fds /\ ~Open(k, FreeFd(k)) /\ Open(t, FreeFd(k))
           /\ k.backlog[1] \in Clients /\ t.desc[FreeFd(k)] = k.backlog[1]
           /\ t.watch[FreeFd(k)].ev = "in"
           /\ t.backlog = Tail(k.backlog) /\ t.came = k.came
           /\ \A g \in Fds \ {FreeFd(k)} :
                 t.desc[g] = k.desc[g] /\ t.watch[g] = k.watch[g] /\ (Open(t, g) <=> Open(k, g))
<1>1. PICK s : s = Accept(k)
  OBVIOUS
<1>2. PICK f0 : f0 = FreeFd(k)
  OBVIOUS
<1>3. /\ Sound(s, R) /\ SameStreams(k, s)
      /\ f0 \in Fds /\ ~Open(k, f0) /\ Open(s, f0)
      /\ s.desc[f0] = k.backlog[1]
      /\ \A g \in Fds \ {f0} : s.desc[g] = k.desc[g]
      /\ s.backlog = Tail(k.backlog) /\ s.came = k.came /\ s.watch = k.watch
  BY <1>1, <1>2, AcceptOK
<1>4. t = Watch(s, f0, "in", et)
  BY <1>1, <1>2 DEF AcceptAndWatch
<1>5. /\ Sound(t, R) /\ SameConnections(s, t) /\ SameStreams(s, t)
      /\ t.watch[f0].ev = "in" /\ \A g \in Watched \ {f0} : t.watch[g] = s.watch[g]
  BY <1>3, <1>4, WatchIsOK
<1>6. \A g \in Fds : Open(t, g) <=> Open(s, g)
  BY <1>5 DEF Open, SameConnections
<1>7. \A g \in Fds \ {f0} : Open(s, g) <=> Open(k, g)
  BY <1>3 DEF Open
<1>8. k.backlog[1] \in Clients
  BY KernelFields, TailFacts DEF Sound
<1>. QED  BY <1>2, <1>3, <1>5, <1>6, <1>7, <1>8, FdFacts DEF SameStreams, SameConnections

\* close frees the descriptor and ends its registration.
LEMMA CloseOK ==
    ASSUME NEW R, NEW s, Sound(s, R), NEW f \in Fds, Open(s, f)
    PROVE  /\ Sound(Close(s, f), R) /\ SameStreams(s, Close(s, f))
           /\ ~Open(Close(s, f), f)
           /\ \A g \in Fds \ {f} : /\ Close(s, f).desc[g] = s.desc[g]
                                   /\ Close(s, f).watch[g] = s.watch[g]
                                   /\ Open(Close(s, f), g) <=> Open(s, g)
           /\ Close(s, f).backlog = s.backlog /\ Close(s, f).came = s.came
<1>0. s \in KernelOf(R) /\ ConnectionsOK(s) /\ WatchOK(s)
  BY DEF Sound
<1>1. s.desc \in [Fds -> Clients \cup {Nobody}] /\ s.watch \in [Watched -> WatchState]
      /\ s.closed \subseteq Clients /\ s.desc[f] \in Clients
  BY <1>0, KernelFields
<1>2. PICK cl \in SUBSET Clients : cl = s.closed \cup {s.desc[f]}
  BY <1>1
<1>3. PICK d \in [Fds -> Clients \cup {Nobody}] : d = [s.desc EXCEPT ![f] = Nobody]
  BY <1>1
<1>4. PICK w \in [Watched -> WatchState] : w = [s.watch EXCEPT ![f] = Off]
  BY <1>1 DEF WatchState, Off
<1>5. d[f] = Nobody /\ \A g \in Fds \ {f} : d[g] = s.desc[g]
  BY <1>1, <1>3
<1>6. ~w[f].on /\ \A g \in Watched \ {f} : w[g] = s.watch[g]
  BY <1>1, <1>4, FdFacts DEF Off
<1>7. PICK t : t = [s EXCEPT !.desc = d, !.closed = cl, !.watch = w]
  OBVIOUS
<1>8. Close(s, f) = t
  BY <1>0, <1>2, <1>3, <1>4, <1>7 DEF Close, KernelOf
<1>9. t \in KernelOf(R)
  BY <1>0, <1>7 DEF KernelOf
<1>10. SameStreams(s, t) /\ t.watch = w /\ t.backlog = s.backlog /\ t.desc = d /\ t.came = s.came
  BY <1>0, <1>7 DEF KernelOf, SameStreams
<1>11. \A g \in Fds : Open(t, g) <=> g # f /\ Open(s, g)
  BY <1>5, <1>10 DEF Open
<1>12. ConnectionsOK(t)
  <2>1. ASSUME NEW g \in Fds, NEW h \in Fds, d[g] = d[h], g # h PROVE d[g] = Nobody
    BY <1>0, <1>5, <2>1 DEF ConnectionsOK
  <2>2. \A g \in Fds : Open(t, g) => d[g] \in s.came
    BY <1>0, <1>5, <1>11 DEF ConnectionsOK
  <2>3. ASSUME NEW i \in DOMAIN s.backlog PROVE \A g \in Fds : d[g] # s.backlog[i]
    <3>1. s.backlog \in Seq(Clients)
      BY <1>0, KernelFields
    <3>2. s.backlog[i] \in Clients
      BY <3>1
    <3>3. s.backlog[i] # Nobody
      BY <3>2, SocketsAssumption
    <3>. QED  BY <1>0, <1>5, <3>3 DEF ConnectionsOK
  <2>. QED  BY <1>0, <1>10, <2>1, <2>2, <2>3 DEF ConnectionsOK
<1>13. WatchOK(t)
  BY <1>0, <1>6, <1>10, <1>11, FdFacts DEF WatchOK
<1>. QED  BY <1>5, <1>6, <1>8, <1>9, <1>10, <1>11, <1>12, <1>13, FdFacts DEF Sound

\* What read returns says whether there is input.
LEMMA ResultFacts ==
    ASSUME NEW s, NEW f
    PROVE  Result(s, f) = "data" <=> s.inq[s.desc[f]] # <<>>
<1>1. CASE s.inq[s.desc[f]] # <<>>
  BY <1>1 DEF Result
<1>2. CASE s.inq[s.desc[f]] = <<>>
  <2>1. Result(s, f) = CASE s.ended[s.desc[f]] = "reset" -> "error"
                         [] s.ended[s.desc[f]] = "open"  -> "again"
                         [] OTHER                        -> "eof"
    BY <1>2 DEF Result
  <2>. QED  BY <1>2, <2>1
<1>. QED  BY <1>1, <1>2

\* read takes one message, the error of a reset, or nothing.
LEMMA ReadOK ==
    ASSUME NEW R, NEW s, Sound(s, R), NEW f \in Fds, Open(s, f)
    PROVE  /\ Sound(Read(s, f), R) /\ SameConnections(s, Read(s, f))
           /\ Read(s, f).watch = s.watch /\ Read(s, f).out = s.out /\ Read(s, f).sent = s.sent
           /\ \A c \in Clients \ {s.desc[f]} : /\ Read(s, f).inq[c] = s.inq[c]
                                               /\ Read(s, f).ended[c] = s.ended[c]
           /\ Result(s, f) = "data" => /\ Read(s, f).inq[s.desc[f]] = Tail(s.inq[s.desc[f]])
                                       /\ Read(s, f).ended = s.ended
           /\ Result(s, f) # "data" => Read(s, f).inq = s.inq
<1>0. s \in KernelOf(R)
  BY DEF Sound
<1>1. PICK c \in Clients : c = s.desc[f]
  BY <1>0, KernelFields
<1>2. s.inq \in [Clients -> Seq(Nat)] /\ s.ended \in [Clients -> {"open", "fin", "reset", "told"}]
  BY <1>0, KernelFields
<1>4. CASE Result(s, f) = "data"
  <2>1. Tail(s.inq[c]) \in Seq(Nat)
    BY <1>1, <1>2, <1>4, ResultFacts, TailFacts
  <2>2. PICK q \in [Clients -> Seq(Nat)] : q = [s.inq EXCEPT ![c] = Tail(s.inq[c])]
    BY <1>2, <2>1
  <2>3. q[c] = Tail(s.inq[c]) /\ \A d \in Clients \ {c} : q[d] = s.inq[d]
    BY <1>2, <2>2
  <2>4. PICK t : t = [s EXCEPT !.inq = q]
    OBVIOUS
  <2>5. Read(s, f) = t
    BY <1>0, <1>1, <1>4, <2>2, <2>4 DEF Read, KernelOf
  <2>6. t \in KernelOf(R) /\ t.inq = q /\ t.watch = s.watch
    BY <1>0, <2>4 DEF KernelOf
  <2>7. SameConnections(s, t) /\ t.out = s.out /\ t.sent = s.sent /\ t.ended = s.ended
    BY <1>0, <2>4 DEF KernelOf, SameConnections
  <2>8. WatchOK(t)
    BY <2>6, <2>7 DEF Sound, WatchOK, SameConnections, Open
  <2>9. Sound(t, R)
    BY <2>6, <2>7, <2>8, SoundKept
  <2>. QED  BY <1>1, <1>4, <2>3, <2>5, <2>6, <2>7, <2>9
<1>5. CASE Result(s, f) = "error"
  <2>1. PICK e \in [Clients -> {"open", "fin", "reset", "told"}] : e = [s.ended EXCEPT ![c] = "told"]
    BY <1>2
  <2>2. \A d \in Clients \ {c} : e[d] = s.ended[d]
    BY <1>2, <2>1
  <2>3. PICK t : t = [s EXCEPT !.ended = e]
    OBVIOUS
  <2>4. Read(s, f) = t
    BY <1>0, <1>1, <1>5, <2>1, <2>3 DEF Read, KernelOf
  <2>5. t \in KernelOf(R) /\ t.inq = s.inq /\ t.watch = s.watch /\ t.ended = e
    BY <1>0, <2>3 DEF KernelOf
  <2>6. SameConnections(s, t) /\ t.out = s.out /\ t.sent = s.sent
    BY <1>0, <2>3 DEF KernelOf, SameConnections
  <2>7. WatchOK(t)
    BY <2>5, <2>6 DEF Sound, WatchOK, SameConnections, Open
  <2>8. Sound(t, R)
    BY <2>5, <2>6, <2>7, SoundKept
  <2>. QED  BY <1>1, <1>5, <2>2, <2>4, <2>5, <2>6, <2>8
<1>6. CASE Result(s, f) \notin {"data", "error"}
  <2>1. Read(s, f) = s
    BY <1>6 DEF Read
  <2>. QED  BY <1>6, <2>1 DEF SameConnections
<1>. QED  BY <1>4, <1>5, <1>6

\* write adds to what the server has written.
LEMMA WriteOK ==
    ASSUME NEW R, NEW s, Sound(s, R), NEW f \in Fds, Open(s, f), NEW m \in R
    PROVE  /\ Sound(Write(s, f, m), R) /\ SameConnections(s, Write(s, f, m))
           /\ Write(s, f, m).watch = s.watch /\ Write(s, f, m).sent = s.sent
           /\ Write(s, f, m).inq = s.inq /\ Write(s, f, m).ended = s.ended
           /\ Write(s, f, m).out[s.desc[f]] = Append(s.out[s.desc[f]], m)
           /\ \A c \in Clients \ {s.desc[f]} : Write(s, f, m).out[c] = s.out[c]
<1>0. s \in KernelOf(R)
  BY DEF Sound
<1>1. PICK c \in Clients : c = s.desc[f]
  BY <1>0, KernelFields
<1>2. s.out \in [Clients -> Seq(R)]
  BY <1>0, KernelFields
<1>3. PICK a \in Seq(R) : a = Append(s.out[c], m)
  <2>1. s.out[c] \in Seq(R)
    BY <1>2
  <2>2. Append(s.out[c], m) \in Seq(R)
    BY <2>1, AppendFacts
  <2>. QED  BY <2>2, Zenon
<1>4. PICK o \in [Clients -> Seq(R)] : o = [s.out EXCEPT ![c] = a]
  BY <1>2
<1>5. o[c] = a /\ \A d \in Clients \ {c} : o[d] = s.out[d]
  BY <1>2, <1>4
<1>6. PICK t : t = [s EXCEPT !.out = o]
  OBVIOUS
<1>7. Write(s, f, m) = t
  BY <1>0, <1>1, <1>3, <1>4, <1>6 DEF Write, KernelOf
<1>8. t \in KernelOf(R) /\ t.out = o /\ t.watch = s.watch
  BY <1>0, <1>6 DEF KernelOf
<1>9. SameConnections(s, t) /\ t.inq = s.inq /\ t.sent = s.sent /\ t.ended = s.ended
  BY <1>0, <1>6 DEF KernelOf, SameConnections
<1>10. WatchOK(t)
  BY <1>8, <1>9 DEF Sound, WatchOK, SameConnections, Open
<1>11. Sound(t, R)
  BY <1>8, <1>9, <1>10, SoundKept
<1>. QED  BY <1>1, <1>3, <1>5, <1>7, <1>8, <1>9, <1>11

-----------------------------------------------------------------------------
(* The clients.                                                            *)

\* What a client does to the kernel: it connects, for the first time; it sends the
\* next message; or it ends its stream, and with a reset throws away what is unread.
ClientConnected(c) ==
    /\ c \notin k.came /\ k'.came = k.came \cup {c} /\ k'.backlog = Append(k.backlog, c)
    /\ k'.sent = k.sent /\ k'.inq = k.inq /\ k'.ended = k.ended

ClientSent(c) ==
    /\ k'.came = k.came /\ k'.backlog = k.backlog
    /\ k.ended[c] = "open" /\ k'.ended = k.ended
    /\ k'.sent[c] = k.sent[c] + 1 /\ k'.inq[c] = Append(k.inq[c], k.sent[c] + 1)
    /\ \A d \in Clients \ {c} : k'.sent[d] = k.sent[d] /\ k'.inq[d] = k.inq[d]

ClientEnded(c) ==
    /\ k'.came = k.came /\ k'.backlog = k.backlog /\ k'.sent = k.sent
    /\ k'.ended[c] # "open" /\ (k'.inq[c] = k.inq[c] \/ k'.inq[c] = <<>>)
    /\ \A d \in Clients \ {c} : k'.ended[d] = k.ended[d] /\ k'.inq[d] = k.inq[d]

\* Every move of a client is one of these, and takes no descriptor, registration or
\* answer from anyone.
LEMMA ClientOK ==
    ASSUME NEW R, Sound(k, R), NEW c \in Clients, ClientMove(c)
    PROVE  /\ Sound(k', R) /\ k'.desc = k.desc /\ k'.out = k.out
           /\ \A f \in Watched : k'.watch[f].ev = k.watch[f].ev
           /\ UNCHANGED <<prog, ready, pc, cur, mem>>
           /\ ClientConnected(c) \/ ClientSent(c) \/ ClientEnded(c)
<1>0. k \in KernelOf(R) /\ ConnectionsOK(k) /\ WatchOK(k)
  BY DEF Sound
<1>1. /\ k.backlog \in Seq(Clients) /\ k.came \subseteq Clients /\ k.sent \in [Clients -> Nat]
      /\ k.inq \in [Clients -> Seq(Nat)] /\ k.ended \in [Clients -> {"open", "fin", "reset", "told"}]
      /\ k.desc \in [Fds -> Clients \cup {Nobody}]
  BY <1>0, KernelFields
<1>2. UNCHANGED <<prog, ready, pc, cur, mem>>
  BY DEF ClientMove, ClientConnect, ClientSend, ClientClose, ClientReset
<1>3. CASE ClientConnect(c)
  <2>1. PICK s : s = [k EXCEPT !.came = k.came \cup {c}, !.backlog = Append(k.backlog, c)]
    OBVIOUS
  <2>2. c \notin k.came /\ k' = Stir(s, {Listener})
    BY <1>3, <2>1 DEF ClientConnect
  <2>3. PICK b \in Seq(Clients) : b = Append(k.backlog, c)
    <3>1. Append(k.backlog, c) \in Seq(Clients)
      BY <1>1, AppendFacts
    <3>. QED  BY <3>1, Zenon
  <2>4. /\ Len(k.backlog) \in Nat /\ DOMAIN b = 1..(Len(k.backlog) + 1)
        /\ b[Len(k.backlog) + 1] = c /\ \A i \in 1..Len(k.backlog) : b[i] = k.backlog[i]
        /\ DOMAIN k.backlog = 1..Len(k.backlog)
    BY <1>1, <2>3
  <2>5. s \in KernelOf(R) /\ s.desc = k.desc /\ s.watch = k.watch /\ s.backlog = b
        /\ s.came = k.came \cup {c}
    BY <1>0, <1>1, <2>1, <2>3 DEF KernelOf
  <2>6. SameStreams(k, s)
    BY <1>0, <2>1 DEF KernelOf, SameStreams
  <2>7. ConnectionsOK(s)
    <3>1. \A f \in Fds : k.desc[f] # c
      BY <1>0, <2>2, SocketsAssumption DEF ConnectionsOK, Open
    <3>2. \A f \in Fds : Open(s, f) => s.desc[f] \in s.came
      BY <1>0, <2>5 DEF ConnectionsOK, Open
    <3>3. ASSUME NEW i \in DOMAIN b
          PROVE  /\ b[i] \in s.came /\ \A f \in Fds : k.desc[f] # b[i]
                 /\ \A j \in DOMAIN b : b[i] = b[j] => i = j
      <4>1. \A j \in DOMAIN b : j \in DOMAIN k.backlog \/ j = Len(k.backlog) + 1
        BY <2>4
      <4>2. \A j \in DOMAIN k.backlog : b[j] = k.backlog[j] /\ b[j] \in k.came /\ b[j] # c
        BY <1>0, <2>2, <2>4 DEF ConnectionsOK
      <4>3. b[i] \in s.came /\ \A f \in Fds : k.desc[f] # b[i]
        BY <1>0, <2>4, <2>5, <3>1, <4>1, <4>2 DEF ConnectionsOK
      <4>4. \A j \in DOMAIN b : b[i] = b[j] => i = j
        BY <1>0, <2>4, <4>1, <4>2 DEF ConnectionsOK
      <4>. QED  BY <4>3, <4>4
    <3>4. \A f, g \in Fds : s.desc[f] = s.desc[g] /\ f # g => s.desc[f] = Nobody
      BY <1>0, <2>5 DEF ConnectionsOK
    <3>. QED  BY <2>5, <3>2, <3>3, <3>4 DEF ConnectionsOK
  <2>8. Sound(s, R)
    BY <1>0, <2>5, <2>7 DEF Sound, WatchOK, Open
  <2>9. /\ Sound(k', R) /\ SameConnections(s, k') /\ SameStreams(s, k')
        /\ \A f \in Watched : k'.watch[f].ev = s.watch[f].ev
    BY <2>2, <2>8, StirOK
  <2>10. ClientConnected(c)
    BY <2>2, <2>3, <2>5, <2>6, <2>9 DEF ClientConnected, SameConnections, SameStreams
  <2>. QED  BY <1>2, <2>5, <2>6, <2>9, <2>10 DEF SameConnections, SameStreams
<1>4. CASE ClientSend(c)
  <2>1. PICK n \in Nat : n = k.sent[c] + 1
    <3>1. k.sent[c] + 1 \in Nat
      BY <1>1
    <3>. QED  BY <3>1, Zenon
  <2>2. PICK m \in Seq(Nat) : m = Append(k.inq[c], n)
    <3>1. k.inq[c] \in Seq(Nat)
      BY <1>1
    <3>2. Append(k.inq[c], n) \in Seq(Nat)
      BY <3>1, AppendFacts
    <3>. QED  BY <3>2, Zenon
  <2>3. PICK q \in [Clients -> Seq(Nat)] : q = [k.inq EXCEPT ![c] = m]
    BY <1>1
  <2>4. PICK z \in [Clients -> Nat] : z = [k.sent EXCEPT ![c] = n]
    BY <1>1
  <2>5. q[c] = m /\ z[c] = n /\ \A d \in Clients \ {c} : q[d] = k.inq[d] /\ z[d] = k.sent[d]
    BY <1>1, <2>3, <2>4
  <2>6. PICK s : s = [k EXCEPT !.sent = z, !.inq = q]
    OBVIOUS
  <2>7. k' = Stir(s, FdOf(c)) /\ k.ended[c] = "open"
    BY <1>0, <1>4, <2>1, <2>2, <2>3, <2>4, <2>6 DEF ClientSend, Live, KernelOf
  <2>8. s \in KernelOf(R) /\ s.inq = q /\ s.watch = k.watch
    BY <1>0, <2>6 DEF KernelOf
  <2>9. SameConnections(k, s) /\ s.sent = z /\ s.ended = k.ended /\ s.out = k.out
    BY <1>0, <2>6 DEF KernelOf, SameConnections
  <2>10. WatchOK(s)
    BY <1>0, <2>8, <2>9 DEF WatchOK, SameConnections, Open
  <2>11. Sound(s, R)
    BY <2>8, <2>9, <2>10, SoundKept
  <2>12. /\ Sound(k', R) /\ SameConnections(s, k') /\ SameStreams(s, k')
         /\ \A f \in Watched : k'.watch[f].ev = s.watch[f].ev
    BY <2>7, <2>11, StirOK
  <2>13. ClientSent(c)
    BY <2>1, <2>2, <2>5, <2>7, <2>8, <2>9, <2>12 DEF ClientSent, SameConnections, SameStreams
  <2>. QED  BY <1>2, <2>8, <2>9, <2>12, <2>13 DEF SameConnections, SameStreams
<1>5. CASE ClientClose(c) \/ ClientReset(c)
  <2>1. PICK q \in [Clients -> Seq(Nat)] : q = [k.inq EXCEPT ![c] = <<>>]
    <3>1. PICK m \in Seq(Nat) : m = <<>>
      BY EmptySeq, Zenon
    <3>. QED  BY <1>1, <3>1
  <2>2. q[c] = <<>> /\ \A d \in Clients \ {c} : q[d] = k.inq[d]
    BY <1>1, <2>1
  <2>3. PICK e \in [Clients -> {"open", "fin", "reset", "told"}], p \in {k.inq, q} :
           /\ e[c] # "open" /\ \A d \in Clients \ {c} : e[d] = k.ended[d]
           /\ k' = Stir([k EXCEPT !.ended = e, !.inq = p], FdOf(c))
    <3>1. CASE ClientClose(c)
      <4>1. PICK e \in [Clients -> {"open", "fin", "reset", "told"}] : e = [k.ended EXCEPT ![c] = "fin"]
        BY <1>1
      <4>2. e[c] # "open" /\ \A d \in Clients \ {c} : e[d] = k.ended[d]
        BY <1>1, <4>1
      <4>3. [k EXCEPT !.ended[c] = "fin"] = [k EXCEPT !.ended = e, !.inq = k.inq]
        BY <1>0, <4>1 DEF KernelOf
      <4>. QED  BY <3>1, <4>2, <4>3 DEF ClientClose
    <3>2. CASE ClientReset(c)
      <4>1. PICK e \in [Clients -> {"open", "fin", "reset", "told"}] : e = [k.ended EXCEPT ![c] = "reset"]
        BY <1>1
      <4>2. e[c] # "open" /\ \A d \in Clients \ {c} : e[d] = k.ended[d]
        BY <1>1, <4>1
      <4>3. [k EXCEPT !.ended[c] = "reset", !.inq[c] = <<>>] = [k EXCEPT !.ended = e, !.inq = q]
        BY <1>0, <2>1, <4>1 DEF KernelOf
      <4>. QED  BY <3>2, <4>2, <4>3 DEF ClientReset
    <3>. QED  BY <1>5, <3>1, <3>2
  <2>4. PICK s : s = [k EXCEPT !.ended = e, !.inq = p]
    OBVIOUS
  <2>5. p \in [Clients -> Seq(Nat)] /\ (p[c] = k.inq[c] \/ p[c] = <<>>)
        /\ \A d \in Clients \ {c} : p[d] = k.inq[d]
    BY <1>1, <2>2, <2>3
  <2>6. s \in KernelOf(R) /\ s.inq = p /\ s.watch = k.watch
    BY <1>0, <2>4, <2>5 DEF KernelOf
  <2>7. SameConnections(k, s) /\ s.sent = k.sent /\ s.ended = e /\ s.out = k.out
    BY <1>0, <2>4 DEF KernelOf, SameConnections
  <2>8. WatchOK(s)
    BY <1>0, <2>6, <2>7 DEF WatchOK, SameConnections, Open
  <2>9. Sound(s, R)
    BY <2>6, <2>7, <2>8, SoundKept
  <2>10. /\ Sound(k', R) /\ SameConnections(s, k') /\ SameStreams(s, k')
         /\ \A f \in Watched : k'.watch[f].ev = s.watch[f].ev
    <3>1. k' = Stir(s, FdOf(c))
      BY <2>3, <2>4, Zenon
    <3>. QED  BY <2>9, <3>1, StirOK
  <2>11. ClientEnded(c)
    BY <2>3, <2>5, <2>6, <2>7, <2>10 DEF ClientEnded, SameConnections, SameStreams
  <2>. QED  BY <1>2, <2>6, <2>7, <2>10, <2>11 DEF SameConnections, SameStreams
<1>. QED  BY <1>3, <1>4, <1>5 DEF ClientMove

-----------------------------------------------------------------------------
(* The event loop.                                                         *)

\* What epoll_wait reports: open connections, and the listening socket when a
\* connection waits at it.
LEMMA ReportableFacts ==
    ASSUME NEW R, NEW s, Sound(s, R)
    PROVE  /\ Reportable(s) \subseteq Watched
           /\ Listener \in Reportable(s) => s.backlog # <<>>
           /\ \A f \in Reportable(s) \cap Fds : Open(s, f)
<1>1. ASSUME Listener \in Reportable(s) PROVE s.backlog # <<>>
  <2>1. Readable(s, Listener)
    BY <1>1 DEF Reportable, Sound, WatchOK
  <2>2. Readable(s, Listener) <=> s.backlog # <<>>
    BY DEF Readable, Listener, Udp
  <2>. QED  BY <2>1, <2>2
<1>. QED  BY <1>1 DEF Reportable, Sound, WatchOK

\* The kernel with which a server starts.
LEMMA StartOK ==
    ASSUME NEW R, NEW s \in Kernels
    PROVE  /\ Sound(s, R) /\ s.came = {} /\ s.backlog = <<>>
           /\ \A f \in Fds : ~Open(s, f)
           /\ \A c \in Clients : s.out[c] = <<>> /\ s.inq[c] = <<>>
<1>1. PICK limit \in 1..MaxFd :
         s = [limit |-> limit, backlog |-> <<>>, listening |-> TRUE,
              desc |-> [f \in Fds |-> Nobody], came |-> {}, closed |-> {},
              sent |-> [c \in Clients |-> 0], inq |-> [c \in Clients |-> <<>>],
              ended |-> [c \in Clients |-> "open"], out |-> [c \in Clients |-> <<>>],
              dgrams |-> 0,
              watch |-> [f \in Watched |-> [Off EXCEPT !.on = f = Listener]]]
  BY DEF Kernels
<1>2. s.watch \in [Watched -> WatchState] /\ \A f \in Fds : ~s.watch[f].on
  BY <1>1, FdFacts DEF WatchState, Off
<1>3. s.watch[Listener].ev = "in"
  BY <1>1, FdFacts DEF Off
<1>4. [c \in Clients |-> <<>>] \in [Clients -> Seq(R)] /\ [c \in Clients |-> <<>>] \in [Clients -> Seq(Nat)]
  BY EmptySeq
<1>5. s \in KernelOf(R)
  <2>1. <<>> \in Seq(Clients)
    OBVIOUS
  <2>. QED  BY <1>1, <1>2, <1>4, <2>1 DEF KernelOf
<1>6. s.came = {} /\ s.backlog = <<>> /\ \A f \in Fds : s.desc[f] = Nobody
  BY <1>1
<1>7. \A f \in Fds : ~Open(s, f)
  BY <1>6 DEF Open
<1>8. ConnectionsOK(s)
  BY <1>6, <1>7 DEF ConnectionsOK
<1>9. WatchOK(s)
  BY <1>2, <1>3 DEF WatchOK
<1>10. \A c \in Clients : s.out[c] = <<>> /\ s.inq[c] = <<>>
  BY <1>1
<1>. QED  BY <1>5, <1>6, <1>7, <1>8, <1>9, <1>10 DEF Sound

-----------------------------------------------------------------------------
(* The web servers.                                                        *)

Responses == [to : Seq(Pieces)]

\* What OwnRequest says of a kernel.
OwnList(out, c) ==
    \A i \in 1..Len(out) : \A j \in 1..Len(out[i].to) : out[i].to[j].from = c

OwnOut(s) == \A c \in Clients : OwnList(s.out[c], c)

\* It holds as long as nothing is written.
LEMMA OwnKept == ASSUME NEW s, OwnOut(s), NEW t, t.out = s.out PROVE OwnOut(t)
BY DEF OwnOut

\* A response made of its client's pieces goes to its client.
LEMMA OwnWritten ==
    ASSUME NEW s, Sound(s, Responses), OwnOut(s), NEW f \in Fds, Open(s, f),
           NEW m \in Responses, OfClient(m.to, s.desc[f])
    PROVE  OwnOut(Write(s, f, m))
<1>1. PICK t : t = Write(s, f, m)
  OBVIOUS
<1>2. PICK c \in Clients : c = s.desc[f]
  BY KernelFields DEF Sound
<1>3. t.out[c] = Append(s.out[c], m) /\ \A d \in Clients \ {c} : t.out[d] = s.out[d]
  BY <1>1, <1>2, WriteOK
<1>4. s.out[c] \in Seq(Responses)
  BY KernelFields DEF Sound
<1>5. PICK a : a = Append(s.out[c], m)
  OBVIOUS
<1>6. /\ Len(s.out[c]) \in Nat /\ Len(a) = Len(s.out[c]) + 1
      /\ a[Len(s.out[c]) + 1] = m /\ \A i \in 1..Len(s.out[c]) : a[i] = s.out[c][i]
  BY <1>4, <1>5, AppendFacts
<1>7. OwnList(s.out[c], c)
  BY DEF OwnOut
<1>8. ASSUME NEW i \in 1..Len(a) PROVE \A j \in 1..Len(a[i].to) : a[i].to[j].from = c
  <2>1. CASE i = Len(s.out[c]) + 1
    BY <1>2, <1>6, <2>1 DEF OfClient
  <2>2. CASE i # Len(s.out[c]) + 1
    <3>1. i \in 1..Len(s.out[c])
      BY <1>6, <2>2
    <3>2. a[i] = s.out[c][i]
      BY <1>6, <3>1
    <3>3. \A j \in 1..Len(s.out[c][i].to) : s.out[c][i].to[j].from = c
      BY <1>7, <3>1, Zenon DEF OwnList
    <3>. QED  BY <3>2, <3>3, Zenon
  <2>. QED  BY <2>1, <2>2
<1>9. OwnList(a, c)
  BY <1>8, Zenon DEF OwnList
<1>10. ASSUME NEW d \in Clients PROVE OwnList(t.out[d], d)
  <2>1. CASE d = c
    BY <1>3, <1>5, <1>9, <2>1
  <2>2. CASE d # c
    <3>1. t.out[d] = s.out[d]
      BY <1>3, <2>2
    <3>2. OwnList(s.out[d], d)
      BY DEF OwnOut
    <3>. QED  BY <3>1, <3>2
  <2>. QED  BY <2>1, <2>2
<1>. QED  BY <1>1, <1>10 DEF OwnOut

\* The invariant, taken apart.
LEMMA WebParts ==
    ASSUME WebInv
    PROVE  /\ prog \in {"web", "eventweb"} /\ Sound(k, Responses) /\ OwnOut(k)
           /\ ready \subseteq Watched /\ cur \in Watched
BY DEF WebInv, WebTypeOK, Sound, Responses, OwnRequest, OwnOut, OwnList

\* The input that is read ahead: one or two pieces, of the connection's client.
LEMMA AheadOK ==
    ASSUME NEW s, Sound(s, Responses), NEW f \in Fds, Open(s, f), Result(s, f) = "data",
           NEW t, t = IF Ahead(s, f) = 2 THEN Read(Read(s, f), f) ELSE Read(s, f),
           NEW p, p = [i \in 1..Ahead(s, f) |-> Piece(s, f, i)]
    PROVE  /\ p \in Seq(Pieces) /\ p # <<>> /\ OfClient(p, s.desc[f])
           /\ Sound(t, Responses) /\ SameConnections(s, t) /\ t.out = s.out
<1>1. PICK c \in Clients : c = s.desc[f]
  BY KernelFields DEF Sound
<1>2. PICK q \in Seq(Nat) : q = s.inq[c]
  BY KernelFields DEF Sound
<1>3. q # <<>>
  BY <1>1, <1>2, ResultFacts
<1>4. PICK n \in {1, 2} : n = Ahead(s, f)
  BY DEF Ahead
<1>5. n <= Len(q) /\ Len(q) \in Nat
  BY <1>1, <1>2, <1>3, <1>4, TailFacts DEF Ahead
<1>6. p = [i \in 1..n |-> [from |-> c, msg |-> q[i]]]
  BY <1>1, <1>2, <1>4 DEF Piece
<1>7. \A i \in 1..n : [from |-> c, msg |-> q[i]] \in Pieces
  BY <1>5 DEF Pieces
<1>8. n \in Nat /\ n # 0
  BY <1>4
<1>9. p \in Seq(Pieces) /\ Len(p) = n
  <2>1. p \in [1..n -> Pieces]
    BY <1>6, <1>7, Zenon
  <2>. QED  BY <1>8, <2>1, ListFacts
<1>10. p # <<>>
  BY <1>8, <1>9
<1>11. OfClient(p, c)
  <2>1. ASSUME NEW i \in 1..Len(p) PROVE p[i].from = c
    <3>1. PICK r : r = [from |-> c, msg |-> q[i]]
      OBVIOUS
    <3>2. p[i] = r
      BY <1>6, <1>9, <3>1, Zenon
    <3>. QED  BY <3>1, <3>2
  <2>. QED  BY <2>1, Zenon DEF OfClient
<1>12. Sound(t, Responses) /\ SameConnections(s, t) /\ t.out = s.out
  <2>1. PICK r : r = Read(s, f)
    OBVIOUS
  <2>2. Sound(r, Responses) /\ SameConnections(s, r) /\ r.out = s.out
    BY <2>1, ReadOK
  <2>3. Open(r, f)
    BY <2>2 DEF Open, SameConnections
  <2>4. PICK u : u = Read(r, f)
    OBVIOUS
  <2>5. Sound(u, Responses) /\ SameConnections(r, u) /\ u.out = r.out
    BY <2>2, <2>3, <2>4, ReadOK
  <2>6. t = r \/ t = u
    BY <2>1, <2>4
  <2>. QED  BY <2>2, <2>5, <2>6 DEF SameConnections
<1>. QED  BY <1>1, <1>9, <1>10, <1>11, <1>12

\* The servers start with empty buffers.
LEMMA WebInitInv == WebInit => WebInv
<1> SUFFICES ASSUME WebInit PROVE WebInv
  OBVIOUS
<1>1. /\ k \in Kernels /\ ready = {} /\ pc = "wait" /\ cur = Listener /\ prog \in {"web", "eventweb"}
      /\ prog = "web" => mem = [static |-> <<>>, line |-> <<>>]
      /\ prog = "eventweb" => mem = [in |-> [f \in Fds |-> <<>>]]
  BY DEF WebInit, WebStart, EventWebStart, Started
<1>2. /\ Sound(k, Responses) /\ \A f \in Fds : ~Open(k, f)
      /\ \A c \in Clients : k.out[c] = <<>>
  BY <1>1, StartOK
<1>3. prog = "web" => mem \in [static : Seq(Pieces), line : Seq(Pieces)] /\ mem.static = <<>>
  <2>1. PICK e \in Seq(Pieces) : e = <<>>
    BY EmptySeq, Zenon
  <2>2. prog = "web" => mem = [static |-> e, line |-> e]
    BY <1>1, <2>1, Zenon
  <2>3. [static |-> e, line |-> e] \in [static : Seq(Pieces), line : Seq(Pieces)]
        /\ [static |-> e, line |-> e].static = <<>>
    BY <2>1
  <2>. QED  BY <2>2, <2>3, Zenon
<1>4. prog = "eventweb" => mem \in [in : [Fds -> Seq(Pieces)]]
  <2>1. [f \in Fds |-> <<>>] \in [Fds -> Seq(Pieces)]
    BY EmptySeq
  <2>2. PICK e \in [Fds -> Seq(Pieces)] : e = [f \in Fds |-> <<>>]
    BY <2>1, Zenon
  <2>3. prog = "eventweb" => mem = [in |-> e]
    BY <1>1, <2>2, Zenon
  <2>4. [in |-> e] \in [in : [Fds -> Seq(Pieces)]]
    OBVIOUS
  <2>. QED  BY <2>3, <2>4, Zenon
<1>5. WebTypeOK
  BY <1>1, <1>2, <1>3, <1>4, FdFacts DEF WebTypeOK, Sound, Responses
<1>6. WebReady
  BY <1>1 DEF WebReady, Serving
<1>7. BuffersOwned
  BY <1>1, <1>2, <1>3 DEF BuffersOwned, Serving
<1>8. OwnRequest
  <2>1. \A c \in Clients : 1..Len(k.out[c]) = {}
    BY <1>2
  <2>. QED  BY <2>1 DEF OwnRequest
<1>. QED  BY <1>2, <1>5, <1>6, <1>7, <1>8 DEF WebInv, Sound

\* A client moves.
LEMMA WebClient == WebInv /\ ClientStep => WebInv'
<1> SUFFICES ASSUME WebInv, NEW c \in Clients, ClientMove(c) PROVE WebInv'
  BY DEF ClientStep
<1>1. Sound(k, Responses) /\ OwnOut(k) /\ prog \in {"web", "eventweb"}
  BY WebParts
<1>2. /\ Sound(k', Responses) /\ k'.desc = k.desc /\ k'.out = k.out
      /\ UNCHANGED <<prog, ready, pc, cur, mem>>
      /\ ClientConnected(c) \/ ClientSent(c) \/ ClientEnded(c)
  BY <1>1, ClientOK
<1>3. k.backlog # <<>> => k'.backlog # <<>>
  <2>1. k.backlog \in Seq(Clients)
    BY <1>1, KernelFields DEF Sound
  <2>2. Append(k.backlog, c) # <<>>
    BY <2>1, AppendFacts
  <2>. QED  BY <1>2, <2>2 DEF ClientConnected, ClientSent, ClientEnded
<1>4. \A f : Open(k', f) <=> Open(k, f)
  BY <1>2 DEF Open
<1>5. WebTypeOK'
  BY <1>2 DEF WebInv, WebTypeOK, Sound, Responses
<1>6. WebReady'
  BY <1>2, <1>3, <1>4 DEF WebInv, WebReady, Serving
<1>7. BuffersOwned'
  BY <1>2, <1>4 DEF WebInv, BuffersOwned, Serving
<1>8. OwnRequest'
  BY <1>2 DEF WebInv, OwnRequest
<1>. QED  BY <1>2, <1>5, <1>6, <1>7, <1>8 DEF WebInv, Sound

\* epoll_wait, and the loop of libevent.
LEMMA WebWaitInv == WebInv /\ EpollWait => WebInv'
<1> SUFFICES ASSUME WebInv, EpollWait PROVE WebInv'
  OBVIOUS
<1>1. Sound(k, Responses) /\ OwnOut(k) /\ prog \in {"web", "eventweb"}
  BY WebParts
<1>2. pc = "wait" /\ ready' = Reportable(k) /\ k' = Reported(k) /\ UNCHANGED <<prog, pc, cur, mem>>
  BY DEF EpollWait, Wait
<1>3. Sound(k', Responses) /\ SameConnections(k, k') /\ SameStreams(k, k')
  BY <1>1, <1>2, ReportedOK
<1>4. k'.desc = k.desc /\ k'.out = k.out /\ k'.backlog = k.backlog
  BY <1>3 DEF SameConnections, SameStreams
<1>5. \A f : Open(k', f) <=> Open(k, f)
  BY <1>4 DEF Open
<1>6. /\ ready' \subseteq Watched /\ (Listener \in ready' => k.backlog # <<>>)
      /\ \A f \in ready' \cap Fds : Open(k, f)
  BY <1>1, <1>2, ReportableFacts
<1>7. WebTypeOK'
  BY <1>2, <1>3, <1>6 DEF WebInv, WebTypeOK, Sound, Responses
<1>8. WebReady'
  BY <1>2, <1>4, <1>5, <1>6 DEF WebReady, Serving
<1>9. BuffersOwned'
  BY <1>2, <1>4, <1>5 DEF WebInv, BuffersOwned, Serving
<1>10. OwnRequest'
  BY <1>2, <1>4 DEF WebInv, OwnRequest
<1>. QED  BY <1>3, <1>7, <1>8, <1>9, <1>10 DEF WebInv, Sound

\* The mem of "web".
LEMMA WebMem ==
    ASSUME WebInv, prog = "web"
    PROVE  /\ mem.static \in Seq(Pieces) /\ mem.line \in Seq(Pieces)
           /\ mem = [static |-> mem.static, line |-> mem.line]
<1>1. mem \in [static : Seq(Pieces), line : Seq(Pieces)]
  BY DEF WebInv, WebTypeOK
<1>. QED  BY <1>1

\* What is to be shown of a step of "web".
LEMMA WebStepInv ==
    ASSUME prog' = "web", Sound(k', Responses), OwnOut(k'), ready' \subseteq Watched, cur' \in Watched,
           pc' \in {"wait", "line", "drain", "answer", "stopped", "crashed"},
           NEW st \in Seq(Pieces), NEW ln \in Seq(Pieces), mem' = [static |-> st, line |-> ln],
           Listener \in ready' => k'.backlog # <<>>,
           \A f \in ready' \cap Fds : Open(k', f),
           pc' \in {"line", "drain", "answer"} =>
               /\ Open(k', cur') /\ cur' \notin ready'
               /\ OfClient(st, k'.desc[cur']) /\ OfClient(ln, k'.desc[cur']),
           pc' \in {"wait", "answer"} => st = <<>>
    PROVE  WebInv'
<1>1. mem'.static = st /\ mem'.line = ln /\ mem' \in [static : Seq(Pieces), line : Seq(Pieces)]
  OBVIOUS
<1>2. WebTypeOK'
  BY <1>1 DEF WebTypeOK, Sound, Responses
<1>3. WebReady'
  BY DEF WebReady, Serving
<1>4. BuffersOwned'
  BY <1>1 DEF BuffersOwned, Serving
<1>5. OwnRequest'
  BY DEF OwnRequest, OwnOut, OwnList
<1>. QED  BY <1>2, <1>3, <1>4, <1>5 DEF WebInv, Sound

\* The same for "eventweb".
LEMMA EventWebStepInv ==
    ASSUME prog' = "eventweb", Sound(k', Responses), OwnOut(k'), ready' \subseteq Watched, cur' \in Watched,
           pc' \in {"wait", "crashed"},
           NEW buf \in [Fds -> Seq(Pieces)], mem' = [in |-> buf],
           Listener \in ready' => k'.backlog # <<>>,
           \A f \in ready' \cap Fds : Open(k', f),
           \A f \in Fds : Open(k', f) => OfClient(buf[f], k'.desc[f])
    PROVE  WebInv'
<1>1. mem'.in = buf /\ mem' \in [in : [Fds -> Seq(Pieces)]]
  OBVIOUS
<1>2. WebTypeOK'
  BY <1>1 DEF WebTypeOK, Sound, Responses
<1>3. WebReady'
  BY DEF WebReady, Serving
<1>4. BuffersOwned'
  BY <1>1 DEF BuffersOwned
<1>5. OwnRequest'
  BY DEF OwnRequest, OwnOut, OwnList
<1>. QED  BY <1>2, <1>3, <1>4, <1>5 DEF WebInv, Sound

\* A descriptor that is not open becomes a new connection.
LEMMA WebAcceptInv == WebInv /\ WebAccept => WebInv'
<1> SUFFICES ASSUME WebInv, WebAccept PROVE WebInv'
  OBVIOUS
<1>1. /\ Sound(k, Responses) /\ OwnOut(k) /\ ready \subseteq Watched /\ cur \in Watched
      /\ prog = "web" /\ prog' = "web" /\ cur' = cur
  BY WebParts DEF WebAccept
<1>2. /\ pc = "wait" /\ Listener \in ready /\ ready' = ready \ {Listener} /\ k.backlog # <<>>
      /\ mem.static = <<>> /\ \A f \in ready \cap Fds : Open(k, f)
  BY <1>1 DEF WebAccept, Take, WebInv, WebReady, BuffersOwned
<1>3. mem.static \in Seq(Pieces) /\ mem.line \in Seq(Pieces)
      /\ mem = [static |-> mem.static, line |-> mem.line]
  BY <1>1, WebMem
<1>4. CASE FreeFds(k) = {}
  <2>1. pc' = "stopped" /\ k' = k /\ mem' = mem
    BY <1>4 DEF WebAccept, AcceptOrExit
  <2>. QED  BY <1>1, <1>2, <1>3, <2>1, WebStepInv
<1>5. CASE FreeFds(k) # {}
  <2>1. pc' = pc /\ k' = AcceptAndWatch(FALSE) /\ mem' = mem
    BY <1>5 DEF WebAccept, AcceptOrExit
  <2>2. /\ Sound(k', Responses) /\ SameStreams(k, k') /\ Open(k', FreeFd(k))
        /\ \A g \in Fds \ {FreeFd(k)} : Open(k', g) <=> Open(k, g)
    BY <1>1, <1>2, <1>5, <2>1, AcceptAndWatchOK
  <2>3. OwnOut(k')
    BY <1>1, <2>2, OwnKept DEF SameStreams
  <2>4. \A f \in ready' \cap Fds : Open(k', f)
    BY <1>2, <2>2
  <2>. QED  BY <1>1, <1>2, <1>3, <2>1, <2>2, <2>3, <2>4, WebStepInv
<1>. QED  BY <1>4, <1>5

\* A connection is begun with an empty line, and the static buffer is empty too.
LEMMA WebBeginInv == ASSUME WebInv, NEW f \in Fds, WebBegin(f) PROVE WebInv'
<1>1. /\ Sound(k, Responses) /\ OwnOut(k) /\ ready \subseteq Watched /\ f \in Watched
      /\ prog = "web" /\ prog' = "web" /\ cur' = f /\ k' = k /\ pc' = "line"
  BY WebParts, FdFacts DEF WebBegin
<1>2. /\ pc = "wait" /\ f \in ready /\ ready' = ready \ {f} /\ mem.static = <<>>
      /\ (Listener \in ready => k.backlog # <<>>) /\ \A g \in ready \cap Fds : Open(k, g)
  BY <1>1 DEF WebBegin, Take, WebInv, WebReady, BuffersOwned
<1>3. PICK e \in Seq(Pieces) : e = <<>>
  BY EmptySeq, Zenon
<1>4. mem' = [static |-> e, line |-> e]
  <2>1. mem = [static |-> e, line |-> mem.line]
    BY <1>1, <1>2, <1>3, WebMem
  <2>2. mem' = [mem EXCEPT !.line = e]
    BY <1>3 DEF WebBegin
  <2>. QED  BY <2>1, <2>2
<1>5. OfClient(e, k.desc[f])
  <2>1. 1..Len(e) = {}
    BY <1>3
  <2>. QED  BY <2>1 DEF OfClient
<1>6. Open(k, f)
  BY <1>2
<1>. QED  BY <1>1, <1>2, <1>3, <1>4, <1>5, <1>6, WebStepInv

\* What read_client_requests knows while it reads: the connection is open, and the
\* buffers hold its client's pieces.
LEMMA ServingFacts ==
    ASSUME WebInv, prog = "web", pc \in {"line", "drain", "answer"}
    PROVE  /\ Sound(k, Responses) /\ OwnOut(k) /\ ready \subseteq Watched
           /\ cur \in Fds /\ cur \in Watched /\ Open(k, cur) /\ cur \notin ready
           /\ (Listener \in ready => k.backlog # <<>>) /\ \A g \in ready \cap Fds : Open(k, g)
           /\ mem.static \in Seq(Pieces) /\ mem.line \in Seq(Pieces)
           /\ mem = [static |-> mem.static, line |-> mem.line]
           /\ OfClient(mem.static, k.desc[cur]) /\ OfClient(mem.line, k.desc[cur])
           /\ pc = "answer" => mem.static = <<>>
<1>1. Open(k, cur) /\ cur \notin ready /\ (Listener \in ready => k.backlog # <<>>)
      /\ \A g \in ready \cap Fds : Open(k, g)
  BY DEF WebInv, WebReady, Serving
<1>2. OfClient(mem.static, k.desc[cur]) /\ OfClient(mem.line, k.desc[cur])
      /\ (pc = "answer" => mem.static = <<>>)
  BY DEF WebInv, BuffersOwned, Serving
<1>3. cur \in Fds
  BY <1>1 DEF Open
<1>. QED  BY <1>1, <1>2, <1>3, WebParts, WebMem

\* The static buffer is filled from the connection that is served.
LEMMA WebFillInv == WebInv /\ WebFill => WebInv'
<1> SUFFICES ASSUME WebInv, WebFill PROVE WebInv'
  OBVIOUS
<1>1. /\ prog = "web" /\ pc \in {"line", "drain"} /\ Result(k, cur) = "data"
      /\ UNCHANGED <<prog, ready, pc, cur>>
  BY DEF WebFill
<1>2. /\ Sound(k, Responses) /\ OwnOut(k) /\ ready \subseteq Watched
      /\ cur \in Fds /\ cur \in Watched /\ Open(k, cur) /\ cur \notin ready
      /\ (Listener \in ready => k.backlog # <<>>) /\ \A g \in ready \cap Fds : Open(k, g)
      /\ mem.line \in Seq(Pieces) /\ mem = [static |-> mem.static, line |-> mem.line]
      /\ OfClient(mem.line, k.desc[cur])
  BY <1>1, ServingFacts
<1>3. PICK p : p = [i \in 1..Ahead(k, cur) |-> Piece(k, cur, i)]
  OBVIOUS
<1>4. k' = IF Ahead(k, cur) = 2 THEN Read(Read(k, cur), cur) ELSE Read(k, cur)
  BY DEF WebFill
<1>5. /\ p \in Seq(Pieces) /\ OfClient(p, k.desc[cur])
      /\ Sound(k', Responses) /\ SameConnections(k, k') /\ k'.out = k.out
  BY <1>1, <1>2, <1>3, <1>4, AheadOK
<1>6. mem' = [static |-> p, line |-> mem.line]
  <2>1. mem' = [mem EXCEPT !.static = p]
    BY <1>3 DEF WebFill
  <2>. QED  BY <1>2, <2>1
<1>7. OwnOut(k') /\ k'.desc = k.desc /\ k'.backlog = k.backlog
  BY <1>2, <1>5, OwnKept DEF SameConnections
<1>8. \A g : Open(k', g) <=> Open(k, g)
  BY <1>7 DEF Open
<1>. QED  BY <1>1, <1>2, <1>5, <1>6, <1>7, <1>8, WebStepInv

\* A piece is taken from the buffer.
LEMMA WebTakeInv == WebInv /\ WebTake => WebInv'
<1> SUFFICES ASSUME WebInv, WebTake PROVE WebInv'
  OBVIOUS
<1>1. /\ prog = "web" /\ pc \in {"line", "drain"} /\ mem.static # <<>> /\ pc' \in {"line", "drain"}
      /\ UNCHANGED <<prog, k, ready, cur>>
  BY DEF WebTake
<1>2. /\ Sound(k, Responses) /\ OwnOut(k) /\ ready \subseteq Watched
      /\ cur \in Fds /\ cur \in Watched /\ Open(k, cur) /\ cur \notin ready
      /\ (Listener \in ready => k.backlog # <<>>) /\ \A g \in ready \cap Fds : Open(k, g)
      /\ mem.static \in Seq(Pieces) /\ mem.line \in Seq(Pieces)
      /\ mem = [static |-> mem.static, line |-> mem.line]
      /\ OfClient(mem.static, k.desc[cur]) /\ OfClient(mem.line, k.desc[cur])
  BY <1>1, ServingFacts
<1>3. PICK st \in Seq(Pieces), x \in Pieces :
         /\ st = Tail(mem.static) /\ x = Head(mem.static) /\ x = mem.static[1]
         /\ Len(mem.static) \in Nat \ {0} /\ Len(st) = Len(mem.static) - 1
         /\ \A i \in 1..(Len(mem.static) - 1) : st[i] = mem.static[i + 1]
  <2>1. Tail(mem.static) \in Seq(Pieces) /\ Head(mem.static) \in Pieces
    BY <1>1, <1>2, TailFacts
  <2>2. /\ Head(mem.static) = mem.static[1] /\ Len(mem.static) \in Nat \ {0}
        /\ Len(Tail(mem.static)) = Len(mem.static) - 1
        /\ \A i \in 1..(Len(mem.static) - 1) : Tail(mem.static)[i] = mem.static[i + 1]
    BY <1>1, <1>2, TailFacts
  <2>. QED  BY <2>1, <2>2, Zenon
<1>4. OfClient(st, k.desc[cur]) /\ x.from = k.desc[cur]
  <2>1. ASSUME NEW i \in 1..Len(st) PROVE st[i].from = k.desc[cur]
    <3>1. i + 1 \in 1..Len(mem.static) /\ st[i] = mem.static[i + 1]
      BY <1>3
    <3>2. mem.static[i + 1].from = k.desc[cur]
      BY <1>2, <3>1, Zenon DEF OfClient
    <3>. QED  BY <3>1, <3>2
  <2>2. 1 \in 1..Len(mem.static)
    BY <1>3
  <2>3. mem.static[1].from = k.desc[cur]
    BY <1>2, <2>2, Zenon DEF OfClient
  <2>4. OfClient(st, k.desc[cur])
    BY <2>1, Zenon DEF OfClient
  <2>. QED  BY <1>3, <2>3, <2>4
<1>5. PICK ln \in Seq(Pieces) : ln = Append(mem.line, x)
  <2>1. Append(mem.line, x) \in Seq(Pieces)
    BY <1>2, AppendFacts
  <2>. QED  BY <2>1, Zenon
<1>6. OfClient(ln, k.desc[cur])
  <2>1. /\ Len(mem.line) \in Nat /\ Len(ln) = Len(mem.line) + 1
        /\ ln[Len(mem.line) + 1] = x /\ \A i \in 1..Len(mem.line) : ln[i] = mem.line[i]
    BY <1>2, <1>5, AppendFacts
  <2>2. ASSUME NEW i \in 1..Len(ln) PROVE ln[i].from = k.desc[cur]
    <3>1. CASE i = Len(mem.line) + 1
      BY <1>4, <2>1, <3>1
    <3>2. CASE i # Len(mem.line) + 1
      <4>1. i \in 1..Len(mem.line)
        BY <2>1, <3>2
      <4>2. mem.line[i].from = k.desc[cur]
        BY <1>2, <4>1, Zenon DEF OfClient
      <4>. QED  BY <2>1, <4>1, <4>2
    <3>. QED  BY <3>1, <3>2
  <2>. QED  BY <2>2, Zenon DEF OfClient
<1>7. CASE pc = "line"
  <2>1. mem' = [static |-> st, line |-> ln]
    BY <1>3, <1>5, <1>7 DEF WebTake
  <2>. QED  BY <1>1, <1>2, <1>4, <1>6, <2>1, WebStepInv
<1>8. CASE pc # "line"
  <2>1. mem' = [mem EXCEPT !.static = st]
    BY <1>3, <1>8 DEF WebTake
  <2>2. mem' = [static |-> st, line |-> mem.line]
    BY <1>2, <2>1
  <2>. QED  BY <1>1, <1>2, <1>4, <2>2, WebStepInv
<1>. QED  BY <1>7, <1>8

\* Nothing more is there: the connection is closed, or the line answered.
LEMMA WebEmptyInv == WebInv /\ WebEmpty => WebInv'
<1> SUFFICES ASSUME WebInv, WebEmpty PROVE WebInv'
  OBVIOUS
<1>1. /\ prog = "web" /\ pc \in {"line", "drain"} /\ mem.static = <<>> /\ Result(k, cur) # "data"
      /\ UNCHANGED <<prog, ready, mem>>
  BY DEF WebEmpty
<1>2. /\ Sound(k, Responses) /\ OwnOut(k) /\ ready \subseteq Watched
      /\ cur \in Fds /\ cur \in Watched /\ Open(k, cur) /\ cur \notin ready
      /\ (Listener \in ready => k.backlog # <<>>) /\ \A g \in ready \cap Fds : Open(k, g)
      /\ mem.static \in Seq(Pieces) /\ mem.line \in Seq(Pieces)
      /\ mem = [static |-> mem.static, line |-> mem.line]
      /\ OfClient(mem.static, k.desc[cur]) /\ OfClient(mem.line, k.desc[cur])
  BY <1>1, ServingFacts
<1>3. CASE k' = Close(k, cur) /\ pc' = "wait" /\ cur' = Listener
  <2>1. /\ Sound(k', Responses) /\ SameStreams(k, k') /\ k'.backlog = k.backlog
        /\ \A g \in Fds \ {cur} : Open(k', g) <=> Open(k, g)
    BY <1>2, <1>3, CloseOK
  <2>2. OwnOut(k')
    BY <1>2, <2>1, OwnKept DEF SameStreams
  <2>3. \A g \in ready' \cap Fds : Open(k', g)
    BY <1>1, <1>2, <2>1
  <2>. QED  BY <1>1, <1>2, <1>3, <2>1, <2>2, <2>3, FdFacts, WebStepInv
<1>4. CASE k' = Read(k, cur) /\ pc' = "answer" /\ cur' = cur
  <2>1. Sound(k', Responses) /\ SameConnections(k, k') /\ k'.out = k.out
    BY <1>2, <1>4, ReadOK
  <2>2. OwnOut(k') /\ k'.desc = k.desc /\ k'.backlog = k.backlog
    BY <1>2, <2>1, OwnKept DEF SameConnections
  <2>3. \A g : Open(k', g) <=> Open(k, g)
    BY <2>2 DEF Open
  <2>. QED  BY <1>1, <1>2, <1>4, <2>1, <2>2, <2>3, WebStepInv
<1>. QED  BY <1>3, <1>4 DEF WebEmpty

\* The line is answered, and the loop goes on.
LEMMA WebAnswerInv == WebInv /\ WebAnswer => WebInv'
<1> SUFFICES ASSUME WebInv, WebAnswer PROVE WebInv'
  OBVIOUS
<1>1. prog = "web" /\ pc = "answer" /\ UNCHANGED <<prog, ready>>
  BY DEF WebAnswer
<1>2. /\ Sound(k, Responses) /\ OwnOut(k) /\ ready \subseteq Watched
      /\ cur \in Fds /\ cur \in Watched /\ Open(k, cur) /\ cur \notin ready
      /\ (Listener \in ready => k.backlog # <<>>) /\ \A g \in ready \cap Fds : Open(k, g)
      /\ mem.static \in Seq(Pieces) /\ mem.line \in Seq(Pieces)
      /\ mem = [static |-> mem.static, line |-> mem.line]
      /\ OfClient(mem.line, k.desc[cur]) /\ mem.static = <<>>
  BY <1>1, ServingFacts
<1>3. PICK m \in Responses : m = [to |-> mem.line]
  BY <1>2 DEF Responses
<1>4. PICK w : w = Write(k, cur, m)
  OBVIOUS
<1>5. Sound(w, Responses) /\ SameConnections(k, w) /\ OwnOut(w)
  BY <1>2, <1>3, <1>4, WriteOK, OwnWritten
<1>6. Open(w, cur) /\ w.backlog = k.backlog /\ \A g : Open(w, g) <=> Open(k, g)
  BY <1>2, <1>5 DEF Open, SameConnections
<1>7. PICK asked \in Requests :
         IF asked = "bad" THEN pc' = "crashed" /\ UNCHANGED <<k, cur, mem>>
         ELSE /\ k' = CASE asked = "other"     -> k
                        [] asked = "directory" -> Close(w, cur)
                        [] OTHER               -> w
              /\ pc' = "wait" /\ cur' = Listener /\ mem' = [mem EXCEPT !.line = <<>>]
  BY <1>3, <1>4 DEF WebAnswer
<1>8. CASE asked = "bad"
  BY <1>1, <1>2, <1>7, <1>8, WebStepInv
<1>9. CASE asked # "bad"
  <2>1. k' \in {k, w, Close(w, cur)} /\ pc' = "wait" /\ cur' = Listener
        /\ mem' = [mem EXCEPT !.line = <<>>]
    BY <1>7, <1>9 DEF Requests
  <2>2. /\ Sound(Close(w, cur), Responses) /\ SameStreams(w, Close(w, cur))
        /\ Close(w, cur).backlog = w.backlog
        /\ \A g \in Fds \ {cur} : Open(Close(w, cur), g) <=> Open(w, g)
    BY <1>2, <1>5, <1>6, CloseOK
  <2>3. OwnOut(Close(w, cur))
    BY <1>5, <2>2, OwnKept DEF SameStreams
  <2>4. Sound(k', Responses) /\ OwnOut(k') /\ k'.backlog = k.backlog
    BY <1>2, <1>5, <1>6, <2>1, <2>2, <2>3
  <2>5. \A g \in ready' \cap Fds : Open(k', g)
    BY <1>1, <1>2, <1>6, <2>1, <2>2
  <2>6. PICK e \in Seq(Pieces) : e = <<>>
    BY EmptySeq, Zenon
  <2>7. mem' = [static |-> mem.static, line |-> e]
    <3>1. mem' = [mem EXCEPT !.line = e]
      BY <2>1, <2>6, Zenon
    <3>. QED  BY <1>2, <3>1
  <2>. QED  BY <1>1, <1>2, <2>1, <2>4, <2>5, <2>7, FdFacts, WebStepInv
<1>. QED  BY <1>8, <1>9

\* What read_cb, bevent_cb and listen_cb find.
LEMMA EventWebFacts ==
    ASSUME WebInv, prog = "eventweb"
    PROVE  /\ Sound(k, Responses) /\ OwnOut(k) /\ ready \subseteq Watched /\ cur \in Watched
           /\ (Listener \in ready => k.backlog # <<>>) /\ \A g \in ready \cap Fds : Open(k, g)
           /\ mem.in \in [Fds -> Seq(Pieces)] /\ mem = [in |-> mem.in]
           /\ \A g \in Fds : Open(k, g) => OfClient(mem.in[g], k.desc[g])
<1>1. mem \in [in : [Fds -> Seq(Pieces)]]
  BY DEF WebInv, WebTypeOK
<1>2. mem.in \in [Fds -> Seq(Pieces)] /\ mem = [in |-> mem.in]
  BY <1>1
<1>3. (Listener \in ready => k.backlog # <<>>) /\ \A g \in ready \cap Fds : Open(k, g)
  BY DEF WebInv, WebReady
<1>4. \A g \in Fds : Open(k, g) => OfClient(mem.in[g], k.desc[g])
  BY DEF WebInv, BuffersOwned
<1>. QED  BY <1>2, <1>3, <1>4, WebParts

\* The buffer of a new connection is empty.
LEMMA EventWebAcceptInv == WebInv /\ EventWebAccept => WebInv'
<1> SUFFICES ASSUME WebInv, EventWebAccept PROVE WebInv'
  OBVIOUS
<1>1. /\ prog = "eventweb" /\ pc = "wait" /\ Listener \in ready /\ ready' = ready \ {Listener}
      /\ UNCHANGED <<prog, pc, cur>>
  BY DEF EventWebAccept, Take
<1>2. /\ Sound(k, Responses) /\ OwnOut(k) /\ ready \subseteq Watched /\ cur \in Watched
      /\ k.backlog # <<>> /\ \A g \in ready \cap Fds : Open(k, g)
      /\ mem.in \in [Fds -> Seq(Pieces)] /\ mem = [in |-> mem.in]
      /\ \A g \in Fds : Open(k, g) => OfClient(mem.in[g], k.desc[g])
  BY <1>1, EventWebFacts
<1>3. CASE FreeFds(k) = {}
  <2>1. k' = k /\ mem' = mem
    BY <1>3 DEF EventWebAccept
  <2>. QED  BY <1>1, <1>2, <2>1, EventWebStepInv
<1>4. CASE FreeFds(k) # {}
  <2>1. k' = AcceptAndWatch(FALSE) /\ mem' = [mem EXCEPT !.in[FreeFd(k)] = <<>>]
    BY <1>4 DEF EventWebAccept
  <2>2. PICK f0 \in Fds : f0 = FreeFd(k)
    BY <1>4, FreeFdFacts
  <2>3. /\ Sound(k', Responses) /\ SameStreams(k, k')
        /\ \A g \in Fds \ {f0} : k'.desc[g] = k.desc[g] /\ (Open(k', g) <=> Open(k, g))
        /\ Open(k', f0)
    BY <1>2, <1>4, <2>1, <2>2, AcceptAndWatchOK
  <2>4. OwnOut(k')
    BY <1>2, <2>3, OwnKept DEF SameStreams
  <2>5. PICK e \in Seq(Pieces) : e = <<>>
    BY EmptySeq, Zenon
  <2>6. PICK b \in [Fds -> Seq(Pieces)] : b = [mem.in EXCEPT ![f0] = e]
    BY <1>2
  <2>7. b[f0] = e /\ \A g \in Fds \ {f0} : b[g] = mem.in[g]
    BY <1>2, <2>6
  <2>8. mem' = [in |-> b]
    <3>1. mem' = [mem EXCEPT !.in = b]
      BY <1>2, <2>1, <2>2, <2>5, <2>6
    <3>. QED  BY <1>2, <3>1
  <2>9. \A g \in Fds : Open(k', g) => OfClient(b[g], k'.desc[g])
    <3>1. 1..Len(e) = {}
      BY <2>5
    <3>2. OfClient(e, k'.desc[f0])
      BY <3>1 DEF OfClient
    <3>. QED  BY <1>2, <2>3, <2>7, <3>2
  <2>10. \A g \in ready' \cap Fds : Open(k', g)
    BY <1>1, <1>2, <2>3
  <2>. QED  BY <1>1, <1>2, <2>3, <2>4, <2>8, <2>9, <2>10, EventWebStepInv
<1>. QED  BY <1>3, <1>4

\* read_cb: what is in the buffer and what is read are the client's.
LEMMA EventWebReadInv == ASSUME WebInv, NEW f \in Fds, EventWebRead(f) PROVE WebInv'
<1>1. /\ prog = "eventweb" /\ pc = "wait" /\ f \in ready /\ ready' = ready \ {f}
      /\ Result(k, f) = "data" /\ UNCHANGED <<prog, cur>>
  BY DEF EventWebRead, Take
<1>2. /\ Sound(k, Responses) /\ OwnOut(k) /\ ready \subseteq Watched /\ cur \in Watched
      /\ (Listener \in ready => k.backlog # <<>>) /\ \A g \in ready \cap Fds : Open(k, g)
      /\ mem.in \in [Fds -> Seq(Pieces)] /\ mem = [in |-> mem.in]
      /\ \A g \in Fds : Open(k, g) => OfClient(mem.in[g], k.desc[g])
      /\ Open(k, f)
  BY <1>1, EventWebFacts
<1>3. PICK p : p = [i \in 1..Ahead(k, f) |-> Piece(k, f, i)]
  OBVIOUS
<1>4. PICK s : s = IF Ahead(k, f) = 2 THEN Read(Read(k, f), f) ELSE Read(k, f)
  OBVIOUS
<1>5. /\ p \in Seq(Pieces) /\ p # <<>> /\ OfClient(p, k.desc[f])
      /\ Sound(s, Responses) /\ SameConnections(k, s) /\ s.out = k.out
  BY <1>1, <1>2, <1>3, <1>4, AheadOK
<1>6. OwnOut(s) /\ s.desc = k.desc /\ s.backlog = k.backlog /\ \A g : Open(s, g) <=> Open(k, g)
  BY <1>2, <1>5, OwnKept DEF SameConnections, Open
<1>7. PICK q \in Seq(Pieces) : q = mem.in[f]
  BY <1>2
<1>8. PICK all \in Seq(Pieces) : all = q \o p
  BY <1>5, ConcatProperties
<1>9. /\ Len(q) \in Nat /\ Len(p) \in Nat /\ Len(all) = Len(q) + Len(p)
      /\ \A i \in 1..Len(q) : all[i] = q[i]
      /\ \A i \in 1..Len(p) : all[Len(q) + i] = p[i]
  BY <1>5, <1>8
<1>10. all # <<>>
  BY <1>5, <1>9
<1>11. OfClient(all, k.desc[f])
  <2>1. ASSUME NEW i \in 1..Len(all) PROVE all[i].from = k.desc[f]
    <3>1. CASE i <= Len(q)
      <4>1. i \in 1..Len(q) /\ OfClient(q, k.desc[f])
        BY <1>2, <1>7, <1>9, <3>1
      <4>2. q[i].from = k.desc[f]
        BY <4>1, Zenon DEF OfClient
      <4>. QED  BY <1>9, <4>1, <4>2
    <3>2. CASE ~(i <= Len(q))
      <4>1. PICK j \in 1..Len(p) : i = Len(q) + j
        <5>1. i - Len(q) \in 1..Len(p) /\ i = Len(q) + (i - Len(q))
          BY <1>9, <3>2
        <5>. QED  BY <5>1, Zenon
      <4>2. p[j].from = k.desc[f]
        BY <1>5, <4>1, Zenon DEF OfClient
      <4>. QED  BY <1>9, <4>1, <4>2
    <3>. QED  BY <3>1, <3>2
  <2>. QED  BY <2>1, Zenon DEF OfClient
<1>12. /\ Tail(all) \in Seq(Pieces) /\ Head(all) \in Pieces /\ Head(all) = all[1]
       /\ Len(all) \in Nat \ {0} /\ Len(Tail(all)) = Len(all) - 1
       /\ \A i \in 1..(Len(all) - 1) : Tail(all)[i] = all[i + 1]
  BY <1>10, TailFacts
<1>13. PICK rest \in Seq(Pieces) : rest = Tail(all)
  BY <1>12, Zenon
<1>14. OfClient(rest, k.desc[f])
  <2>1. ASSUME NEW i \in 1..Len(rest) PROVE rest[i].from = k.desc[f]
    <3>1. i + 1 \in 1..Len(all) /\ rest[i] = all[i + 1]
      BY <1>12, <1>13
    <3>2. all[i + 1].from = k.desc[f]
      BY <1>11, <3>1, Zenon DEF OfClient
    <3>. QED  BY <3>1, <3>2
  <2>. QED  BY <2>1, Zenon DEF OfClient
<1>15. PICK m \in Responses : m = [to |-> <<Head(all)>>]
  <2>1. PICK x \in Pieces : x = Head(all)
    BY <1>12, Zenon
  <2>2. PICK l \in Seq(Pieces) : l = <<Head(all)>>
    <3>1. <<x>> \in Seq(Pieces)
      OBVIOUS
    <3>. QED  BY <2>1, <3>1, Zenon
  <2>3. PICK r : r = [to |-> l]
    OBVIOUS
  <2>4. r \in Responses
    BY <2>3 DEF Responses
  <2>. QED  BY <2>2, <2>3, <2>4, Zenon
<1>16. OfClient(m.to, k.desc[f])
  <2>1. PICK x \in Pieces : x = Head(all)
    BY <1>12, Zenon
  <2>2. x.from = k.desc[f]
    <3>1. 1 \in 1..Len(all)
      BY <1>12
    <3>2. all[1].from = k.desc[f]
      BY <1>11, <3>1, Zenon DEF OfClient
    <3>. QED  BY <1>12, <2>1, <3>2, Zenon
  <2>3. PICK l : l = <<x>>
    OBVIOUS
  <2>4. m.to = l
    BY <1>15, <2>1, <2>3
  <2>5. \A i \in 1..Len(l) : l[i] = x
    BY <2>3
  <2>6. OfClient(l, k.desc[f])
    BY <2>2, <2>5, Zenon DEF OfClient
  <2>. QED  BY <2>4, <2>6
<1>17. PICK w : w = Write(s, f, m)
  OBVIOUS
<1>18. Sound(w, Responses) /\ SameConnections(s, w) /\ OwnOut(w)
  BY <1>2, <1>5, <1>6, <1>16, <1>17, WriteOK, OwnWritten
<1>19. w.desc = k.desc /\ w.backlog = k.backlog /\ \A g : Open(w, g) <=> Open(k, g)
  BY <1>6, <1>18 DEF SameConnections, Open
<1>20. PICK e \in Seq(Pieces) : e = <<>>
  BY EmptySeq, Zenon
<1>21. OfClient(e, k.desc[f])
  <2>1. 1..Len(e) = {}
    BY <1>20
  <2>. QED  BY <2>1 DEF OfClient
<1>22. ASSUME NEW t \in {s, w}, k' = t, pc' = pc,
              NEW n \in Seq(Pieces), OfClient(n, k.desc[f]), mem' = [mem EXCEPT !.in[f] = n]
       PROVE  WebInv'
  <2>1. /\ Sound(k', Responses) /\ OwnOut(k') /\ k'.desc = k.desc /\ k'.backlog = k.backlog
        /\ \A g : Open(k', g) <=> Open(k, g)
    BY <1>5, <1>6, <1>18, <1>19, <1>22
  <2>2. PICK b \in [Fds -> Seq(Pieces)] : b = [mem.in EXCEPT ![f] = n]
    BY <1>2
  <2>3. b[f] = n /\ \A g \in Fds \ {f} : b[g] = mem.in[g]
    BY <1>2, <2>2
  <2>4. mem' = [in |-> b]
    <3>1. mem' = [mem EXCEPT !.in = b]
      BY <1>2, <1>22, <2>2
    <3>. QED  BY <1>2, <3>1
  <2>5. \A g \in Fds : Open(k', g) => OfClient(b[g], k'.desc[g])
    BY <1>2, <1>22, <2>1, <2>3
  <2>. QED  BY <1>1, <1>2, <1>22, <2>1, <2>4, <2>5, EventWebStepInv
<1>23. PICK asked \in Requests :
          CASE asked = "bad" -> pc' = "crashed" /\ UNCHANGED <<k, mem>>
            [] asked = "other" -> k' = s /\ mem' = [mem EXCEPT !.in[f] = rest] /\ UNCHANGED pc
            [] OTHER -> k' = w /\ mem' = [mem EXCEPT !.in[f] = e] /\ UNCHANGED pc
  BY <1>3, <1>4, <1>7, <1>8, <1>13, <1>15, <1>17, <1>20, Zenon DEF EventWebRead
<1>24. CASE asked = "bad"
  <2>1. pc' = "crashed" /\ k' = k /\ mem' = mem
    BY <1>23, <1>24
  <2>. QED  BY <1>1, <1>2, <2>1, EventWebStepInv
<1>25. CASE asked = "other"
  <2>1. k' = s /\ mem' = [mem EXCEPT !.in[f] = rest] /\ pc' = pc
    BY <1>23, <1>25
  <2>. QED  BY <1>14, <1>22, <2>1
<1>26. CASE asked \notin {"bad", "other"}
  <2>1. k' = w /\ mem' = [mem EXCEPT !.in[f] = e] /\ pc' = pc
    BY <1>23, <1>26
  <2>. QED  BY <1>21, <1>22, <2>1
<1>. QED  BY <1>24, <1>25, <1>26

\* bevent_cb closes the connection; its buffer stays, and is emptied when the
\* descriptor is used again.
LEMMA EventWebGoneInv == ASSUME WebInv, NEW f \in Fds, EventWebGone(f) PROVE WebInv'
<1>1. /\ prog = "eventweb" /\ pc = "wait" /\ f \in ready /\ ready' = ready \ {f}
      /\ k' = Close(k, f) /\ UNCHANGED <<prog, pc, cur, mem>>
  BY DEF EventWebGone, Take
<1>2. /\ Sound(k, Responses) /\ OwnOut(k) /\ ready \subseteq Watched /\ cur \in Watched
      /\ (Listener \in ready => k.backlog # <<>>) /\ \A g \in ready \cap Fds : Open(k, g)
      /\ mem.in \in [Fds -> Seq(Pieces)] /\ mem = [in |-> mem.in]
      /\ \A g \in Fds : Open(k, g) => OfClient(mem.in[g], k.desc[g])
      /\ Open(k, f)
  BY <1>1, EventWebFacts
<1>3. /\ Sound(k', Responses) /\ SameStreams(k, k') /\ k'.backlog = k.backlog /\ ~Open(k', f)
      /\ \A g \in Fds \ {f} : k'.desc[g] = k.desc[g] /\ (Open(k', g) <=> Open(k, g))
  BY <1>1, <1>2, CloseOK
<1>4. OwnOut(k')
  BY <1>2, <1>3, OwnKept DEF SameStreams
<1>5. \A g \in ready' \cap Fds : Open(k', g)
  BY <1>1, <1>2, <1>3
<1>6. \A g \in Fds : Open(k', g) => OfClient(mem.in[g], k'.desc[g])
  BY <1>2, <1>3
<1>. QED  BY <1>1, <1>2, <1>3, <1>4, <1>5, <1>6, EventWebStepInv

\* Every step of clients and servers keeps the invariant.
LEMMA WebStepsInv == WebInv /\ [ClientStep \/ WebStep]_vars => WebInv'
<1>1. CASE ClientStep
  BY <1>1, WebClient
<1>2. CASE WebWait \/ EventWebWait
  BY <1>2, WebWaitInv DEF WebWait, EventWebWait
<1>3. CASE WebAccept \/ WebFill \/ WebTake \/ WebEmpty \/ WebAnswer \/ EventWebAccept
  BY <1>3, WebAcceptInv, WebFillInv, WebTakeInv, WebEmptyInv, WebAnswerInv, EventWebAcceptInv
<1>4. CASE \E f \in Fds : WebBegin(f) \/ EventWebRead(f) \/ EventWebGone(f)
  BY <1>4, WebBeginInv, EventWebReadInv, EventWebGoneInv
<1>5. CASE UNCHANGED vars
  BY <1>5 DEF vars, WebInv, WebTypeOK, WebReady, Serving, BuffersOwned, OwnRequest
<1>. QED  BY <1>1, <1>2, <1>3, <1>4, <1>5 DEF WebStep

\* The static buffer of epoll_webserver.cpp is empty between connections, and a
\* buffer of event_webserver.cpp is its connection's.
THEOREM WebInvariant == WebSpec => []WebInv
<1>. QED  BY WebInitInv, WebStepsInv, PTL DEF WebSpec

\* A response answers what its own client has sent.
THEOREM OwnRequestHolds == WebSpec => []OwnRequest
<1>1. WebInv => OwnRequest
  BY DEF WebInv
<1>. QED  BY <1>1, WebInvariant, PTL

-----------------------------------------------------------------------------
(* Frames.                                                                 *)

\* Masking twice with the same byte gives the byte back.
LEMMA XorTwice == ASSUME NEW a, NEW b PROVE Xor(Xor(a, b), b) = a
BY DEF Xor

\* transform takes a masked frame apart and packs the payload again: what goes back
\* for a payload that a short length allows is the payload.
LEMMA FrameReadBack ==
    ASSUME NEW p \in Payloads, NEW mask \in Masks, Len(p) < 126
    PROVE  ClientReads(FrameBack[p][mask]) = p
<1>1. p \in Seq(Octets) /\ mask \in [1..4 -> Octets]
  BY WebSocketAssumption
<1>2. PICK n \in Nat : n = Len(p)
  BY <1>1
<1>3. DOMAIN p = 1..n /\ p = [i \in 1..n |-> p[i]]
  BY <1>1, <1>2
<1>4. mask \in Seq(Octets) /\ Len(mask) = 4
  BY <1>1, ListFacts
<1>5. PICK x \in Seq(Octets) : x = Umask(p, mask) /\ Len(x) = n
                               /\ \A i \in 1..n : x[i] = Xor(p[i], mask[((i - 1) % 4) + 1])
  <2>1. \A i \in 1..n : ((i - 1) % 4) + 1 \in 1..4
    BY <1>2
  <2>2. \A i \in 1..n : Xor(p[i], mask[((i - 1) % 4) + 1]) \in Octets
    BY <1>1, <1>2, <2>1 DEF Xor, Octets
  <2>3. PICK x : x = [i \in 1..n |-> Xor(p[i], mask[((i - 1) % 4) + 1])]
    OBVIOUS
  <2>4. x \in [1..n -> Octets] /\ \A i \in 1..n : x[i] = Xor(p[i], mask[((i - 1) % 4) + 1])
    BY <2>2, <2>3, Zenon
  <2>5. x \in Seq(Octets) /\ Len(x) = n
    BY <1>2, <2>4, ListFacts
  <2>6. x = Umask(p, mask)
    BY <1>2, <2>3, Zenon DEF Umask
  <2>. QED  BY <2>4, <2>5, <2>6, Zenon
<1>6. PICK b \in Seq(Octets) : b = mask \o x
  BY <1>4, <1>5, JoinFacts
<1>7. /\ Len(b) = 4 + n
      /\ \A i \in 1..4 : b[i] = mask[i]
      /\ \A i \in 1..n : b[4 + i] = x[i]
  <2>1. /\ Len(mask \o x) = Len(mask) + Len(x)
        /\ \A i \in 1..Len(mask) : (mask \o x)[i] = mask[i]
        /\ \A i \in 1..Len(x) : (mask \o x)[Len(mask) + i] = x[i]
    <3>1. mask \in Seq(Octets) /\ x \in Seq(Octets)
      BY <1>4, <1>5
    <3>. QED  BY <3>1, JoinFacts
  <2>2. /\ Len(b) = Len(mask) + Len(x)
        /\ \A i \in 1..Len(mask) : b[i] = mask[i]
        /\ \A i \in 1..Len(x) : b[Len(mask) + i] = x[i]
    BY <1>6, <2>1, Zenon
  <2>3. Len(mask) = 4 /\ Len(x) = n
    BY <1>4, <1>5, Zenon
  <2>. QED  BY <2>2, <2>3, Zenon
<1>8. PICK fr : fr = [len7 |-> n, body |-> b]
  OBVIOUS
<1>9. fr = ClientFrame(p, mask)
  <2>1. <<>> \o mask = mask
    BY <1>4
  <2>2. ClientFrame(p, mask) = [len7 |-> n, body |-> <<>> \o mask \o Umask(p, mask)]
    BY <1>2, Zenon DEF ClientFrame
  <2>. QED  BY <1>5, <1>6, <1>8, <2>1, <2>2, Zenon
<1>10. fr.len7 = n /\ fr.body = b
  BY <1>8
<1>11. SubSeq(b, 1, 4) = mask
  <2>1. /\ SubSeq(b, 1, 4) \in Seq(Octets) /\ Len(SubSeq(b, 1, 4)) = 4
        /\ \A i \in 1..4 : SubSeq(b, 1, 4)[i] = b[i]
    BY <1>7
  <2>2. \A i \in 1..4 : SubSeq(b, 1, 4)[i] = mask[i]
    BY <1>7, <2>1
  <2>. QED  BY <1>4, <2>1, <2>2, SeqEqual
<1>12. SubSeq(b, 5, 4 + n) = x
  <2>1. PICK y : y = SubSeq(b, 5, 4 + n)
    OBVIOUS
  <2>2. y \in Seq(Octets) /\ Len(y) = n /\ \A i \in 1..n : y[i] = b[4 + i]
    BY <1>2, <1>7, <2>1
  <2>3. \A i \in 1..n : y[i] = x[i]
    BY <1>7, <2>2
  <2>. QED  BY <1>5, <2>1, <2>2, <2>3, SeqEqual
<1>13. Umask(x, mask) = p
  <2>1. \A i \in 1..n : Xor(x[i], mask[((i - 1) % 4) + 1]) = p[i]
    BY <1>5, XorTwice
  <2>2. Umask(x, mask) = [i \in 1..n |-> p[i]]
    BY <1>5, <2>1 DEF Umask
  <2>. QED  BY <1>3, <2>2
<1>14. DecodePacket(fr) = p
  BY <1>10, <1>11, <1>12, <1>13 DEF DecodePacket
<1>15. PICK back : back = [len7 |-> n, body |-> p]
  OBVIOUS
<1>16. FrameBack[p][mask] = back
  <2>1. EncodePacket(p) = back
    BY <1>2, <1>15, Zenon DEF EncodePacket
  <2>2. FrameBack[p][mask] = EncodePacket(DecodePacket(ClientFrame(p, mask)))
    BY DEF FrameBack
  <2>. QED  BY <1>9, <1>14, <2>1, <2>2, Zenon
<1>17. SubSeq(p, 1, n) = p
  BY <1>1, <1>2
<1>. QED  BY <1>15, <1>16, <1>17 DEF ClientReads

-----------------------------------------------------------------------------
(* Answers and streams.                                                    *)

\* The answers that go to one client: what FramesInOrder says of them.
OutOK(out) ==
    \A i \in 1..Len(out) :
        IF i = 1 THEN out[1].kind = "101"
        ELSE /\ out[i].kind # "101"
             /\ out[i].msg = out[i - 1].last + 1
             /\ out[i].kind = "frame" => ReadBack(out[i])

\* What InputInOrder says of one client.
InOK(sent, inq) == \A i \in 1..Len(inq) : inq[i] = sent - Len(inq) + i

\* What ItemOK says, of the parts of the state it looks at.
TalkOK(st, ev, r, out, ended, sent, inq) ==
    /\ st = "shake" => out = <<>> /\ ev = "in"
    /\ ev = "out" => r \in Answers /\ GoesNext(r, out)
    /\ st = "data" =>
          /\ ev = "in" => out # <<>>
          /\ ended = "open" \/ inq # <<>> =>
                (IF ev = "out" THEN r.last ELSE out[Len(out)].last) = sent - Len(inq)

\* The next answer keeps the order.
LEMMA OutNext ==
    ASSUME NEW out \in Seq(Answers), NEW r \in Answers, OutOK(out), GoesNext(r, out)
    PROVE  OutOK(Append(out, r))
<1>1. PICK n \in Nat : n = Len(out)
  OBVIOUS
<1>2. PICK a : a = Append(out, r)
  OBVIOUS
<1>3. Len(a) = n + 1 /\ a[n + 1] = r /\ \A i \in 1..n : a[i] = out[i]
  BY <1>1, <1>2, AppendFacts
<1>4. ASSUME NEW i \in 1..(n + 1)
      PROVE  IF i = 1 THEN a[1].kind = "101"
             ELSE /\ a[i].kind # "101"
                  /\ a[i].msg = a[i - 1].last + 1
                  /\ a[i].kind = "frame" => ReadBack(a[i])
  <2>1. CASE i = n + 1 /\ n = 0
    <3>1. out = <<>>
      BY <1>1, <2>1, EmptySeq
    <3>. QED  BY <1>3, <2>1, <3>1 DEF GoesNext
  <2>2. CASE i = n + 1 /\ n # 0
    <3>1. out # <<>> /\ n \in 1..n /\ i # 1 /\ i - 1 = n
      BY <1>1, <2>2
    <3>2. r.kind # "101" /\ r.msg = out[n].last + 1 /\ (r.kind = "frame" => ReadBack(r))
      BY <1>1, <3>1 DEF GoesNext
    <3>3. a[i] = r /\ a[i - 1] = out[n]
      BY <1>3, <2>2, <3>1
    <3>. QED  BY <3>1, <3>2, <3>3
  <2>3. CASE i # n + 1
    <3>1. i \in 1..n /\ (i # 1 => i - 1 \in 1..n) /\ 1 \in 1..n
      BY <1>1, <2>3
    <3>2. IF i = 1 THEN out[1].kind = "101"
          ELSE /\ out[i].kind # "101"
               /\ out[i].msg = out[i - 1].last + 1
               /\ out[i].kind = "frame" => ReadBack(out[i])
      BY <1>1, <3>1, Zenon DEF OutOK
    <3>3. a[i] = out[i] /\ (i # 1 => a[i - 1] = out[i - 1])
      BY <1>3, <3>1
    <3>. QED  BY <3>2, <3>3
  <2>. QED  BY <2>1, <2>2, <2>3
<1>5. OutOK(a)
  BY <1>3, <1>4, Zenon DEF OutOK
<1>. QED  BY <1>2, <1>5

\* The messages that are read are the ones behind those that were read before.
LEMMA InTaken ==
    ASSUME NEW sent \in Nat, NEW inq \in Seq(Nat), inq # <<>>, InOK(sent, inq),
           NEW n \in 0..Len(inq), NEW q, q = SubSeq(inq, n + 1, Len(inq))
    PROVE  /\ InOK(sent, q) /\ Head(inq) \in Nat
           /\ Head(inq) = sent - Len(inq) + 1 /\ Head(inq) + n - 1 = sent - Len(q)
<1>1. PICK l \in Nat \ {0} : l = Len(inq)
  BY TailFacts
<1>2. Head(inq) = inq[1] /\ Head(inq) \in Nat
  BY TailFacts
<1>3. Len(q) = l - n /\ \A i \in 1..(l - n) : q[i] = inq[n + i]
  BY <1>1
<1>4. \A i \in 1..l : inq[i] = sent - l + i
  BY <1>1 DEF InOK
<1>5. \A i \in 1..(l - n) : q[i] = sent - (l - n) + i
  <2>1. \A i \in 1..(l - n) : n + i \in 1..l
    BY <1>1
  <2>. QED  BY <1>1, <1>3, <1>4, <2>1
<1>6. InOK(sent, q)
  BY <1>3, <1>5 DEF InOK
<1>7. inq[1] = sent - l + 1
  BY <1>4
<1>8. Head(inq) + n - 1 = sent - Len(q)
  BY <1>1, <1>2, <1>3, <1>7
<1>. QED  BY <1>1, <1>2, <1>6, <1>7, <1>8

\* A message is numbered one more than those before it.
LEMMA InSent ==
    ASSUME NEW sent \in Nat, NEW inq \in Seq(Nat), InOK(sent, inq)
    PROVE  /\ InOK(sent + 1, Append(inq, sent + 1))
           /\ sent + 1 - Len(Append(inq, sent + 1)) = sent - Len(inq)
<1>1. PICK n \in Nat : n = Len(inq)
  OBVIOUS
<1>2. PICK m \in Nat : m = sent + 1
  <2>1. sent + 1 \in Nat
    OBVIOUS
  <2>. QED  BY <2>1, Zenon
<1>3. PICK a : a = Append(inq, m)
  OBVIOUS
<1>4. Len(a) = n + 1 /\ a[n + 1] = m /\ \A i \in 1..n : a[i] = inq[i]
  BY <1>1, <1>2, <1>3, AppendFacts
<1>5. \A i \in 1..n : inq[i] = sent - n + i
  BY <1>1 DEF InOK
<1>6. \A i \in 1..(n + 1) : a[i] = m - (n + 1) + i
  BY <1>2, <1>4, <1>5
<1>7. InOK(m, a)
  BY <1>4, <1>6 DEF InOK
<1>8. m - Len(a) = sent - n
  BY <1>2, <1>4
<1>. QED  BY <1>1, <1>2, <1>3, <1>7, <1>8

-----------------------------------------------------------------------------
(* The WebSocket server.                                                   *)

\* The invariant in terms of the parts of the state it looks at.
Talking(f) ==
    TalkOK(mem.status[f], k.watch[f].ev, mem.buf[f], k.out[k.desc[f]],
           k.ended[k.desc[f]], k.sent[k.desc[f]], k.inq[k.desc[f]])

Conversation ==
    /\ Sound(k, Answers) /\ ready \subseteq Watched
    /\ mem.status \in [Fds -> {"shake", "data"}] /\ mem.buf \in [Fds -> Answers \cup {Nobody}]
    /\ mem.begun \in SUBSET Fds
    /\ mem = [status |-> mem.status, buf |-> mem.buf, begun |-> mem.begun]
    /\ Listener \in ready => k.backlog # <<>>
    /\ \A f \in ready \cap Fds : Open(k, f)
    /\ \A c \in Clients : InOK(k.sent[c], k.inq[c])
    /\ \A c \in Clients \ k.came : k.out[c] = <<>>
    /\ \A i \in 1..Len(k.backlog) : k.out[k.backlog[i]] = <<>>
    /\ \A c \in Clients : OutOK(k.out[c])
    /\ \A f \in Fds : Open(k, f) => Talking(f)

\* ItemOK says the same.
LEMMA ItemTalks == ASSUME NEW f \in Fds PROVE ItemOK(f) <=> Talking(f)
BY DEF ItemOK, Talking, TalkOK, LastTaken

\* So does the whole invariant.
LEMMA ConversationIs ==
    ASSUME prog = "websocket" PROVE WebSocketInv <=> Conversation
<1>1. FramesInOrder <=> \A c \in Clients : OutOK(k.out[c])
  BY Zenon DEF FramesInOrder, OutOK
<1>2. InputInOrder <=> \A c \in Clients : InOK(k.sent[c], k.inq[c])
  BY Zenon DEF InputInOrder, InOK
<1>3. mem \in [status : [Fds -> {"shake", "data"}], buf : [Fds -> Answers \cup {Nobody}],
               begun : SUBSET Fds]
      <=> /\ mem.status \in [Fds -> {"shake", "data"}] /\ mem.buf \in [Fds -> Answers \cup {Nobody}]
          /\ mem.begun \in SUBSET Fds
          /\ mem = [status |-> mem.status, buf |-> mem.buf, begun |-> mem.begun]
  OBVIOUS
<1>4. (\A f \in Fds : Open(k, f) => ItemOK(f)) <=> (\A f \in Fds : Open(k, f) => Talking(f))
  BY ItemTalks, Zenon
<1>. QED  BY <1>1, <1>2, <1>3, <1>4, Zenon
          DEF WebSocketInv, WebSocketTypeOK, ItemsReady, NoneBefore, Conversation, Sound

\* And after a step.
LEMMA ConversationNext ==
    ASSUME prog' = "websocket", Conversation' PROVE WebSocketInv'
<1>1. FramesInOrder' <=> \A c \in Clients : OutOK(k'.out[c])
  BY Zenon DEF FramesInOrder, OutOK
<1>2. InputInOrder' <=> \A c \in Clients : InOK(k'.sent[c], k'.inq[c])
  BY Zenon DEF InputInOrder, InOK
<1>3. mem' \in [status : [Fds -> {"shake", "data"}], buf : [Fds -> Answers \cup {Nobody}],
                begun : SUBSET Fds]
      <=> /\ mem'.status \in [Fds -> {"shake", "data"}]
          /\ mem'.buf \in [Fds -> Answers \cup {Nobody}]
          /\ mem'.begun \in SUBSET Fds
          /\ mem' = [status |-> mem'.status, buf |-> mem'.buf, begun |-> mem'.begun]
  OBVIOUS
<1>4. ASSUME NEW f \in Fds PROVE ItemOK(f)' <=> Talking(f)'
  BY DEF ItemOK, Talking, TalkOK, LastTaken
<1>. QED  BY <1>1, <1>2, <1>3, <1>4, Zenon
          DEF WebSocketInv, WebSocketTypeOK, ItemsReady, NoneBefore, Conversation, Sound

\* What is to be shown of a step: the connections other than f have not changed,
\* and f is in order if it is open.
InStep(st, bf, f) ==
    /\ Sound(k', Answers) /\ ready' \subseteq Watched
    /\ mem'.begun \in SUBSET Fds /\ mem' = [status |-> st, buf |-> bf, begun |-> mem'.begun]
    /\ Listener \in ready' => k'.backlog # <<>>
    /\ \A g \in ready' \cap Fds : Open(k', g)
    /\ \A c \in Clients : InOK(k'.sent[c], k'.inq[c])
    /\ \A c \in Clients \ k'.came : k'.out[c] = <<>>
    /\ \A i \in 1..Len(k'.backlog) : k'.out[k'.backlog[i]] = <<>>
    /\ \A c \in Clients : OutOK(k'.out[c])
    /\ \A g \in Fds \ {f} : Open(k', g) =>
           /\ Open(k, g) /\ k'.desc[g] = k.desc[g] /\ k'.watch[g].ev = k.watch[g].ev
           /\ st[g] = mem.status[g] /\ bf[g] = mem.buf[g]
           /\ k'.out[k.desc[g]] = k.out[k.desc[g]] /\ k'.ended[k.desc[g]] = k.ended[k.desc[g]]
           /\ k'.sent[k.desc[g]] = k.sent[k.desc[g]] /\ k'.inq[k.desc[g]] = k.inq[k.desc[g]]
    /\ Open(k', f) => TalkOK(st[f], k'.watch[f].ev, bf[f], k'.out[k'.desc[f]],
                             k'.ended[k'.desc[f]], k'.sent[k'.desc[f]], k'.inq[k'.desc[f]])

\* That is enough for the invariant.
LEMMA TalkStep ==
    ASSUME Conversation, NEW st \in [Fds -> {"shake", "data"}],
           NEW bf \in [Fds -> Answers \cup {Nobody}], NEW f \in Fds, InStep(st, bf, f)
    PROVE  Conversation'
<1>1. mem'.status = st /\ mem'.buf = bf
  BY DEF InStep
<1>2. ASSUME NEW g \in Fds, Open(k', g) PROVE Talking(g)'
  <2>1. CASE g = f
    BY <1>1, <1>2, <2>1 DEF Talking, InStep
  <2>2. CASE g # f
    <3>1. /\ Open(k, g) /\ k'.desc[g] = k.desc[g] /\ k'.watch[g].ev = k.watch[g].ev
          /\ st[g] = mem.status[g] /\ bf[g] = mem.buf[g]
          /\ k'.out[k.desc[g]] = k.out[k.desc[g]] /\ k'.ended[k.desc[g]] = k.ended[k.desc[g]]
          /\ k'.sent[k.desc[g]] = k.sent[k.desc[g]] /\ k'.inq[k.desc[g]] = k.inq[k.desc[g]]
      BY <1>2, <2>2 DEF InStep
    <3>2. Talking(g)
      BY <3>1, Zenon DEF Conversation
    <3>. QED  BY <1>1, <3>1, <3>2 DEF Talking
  <2>. QED  BY <2>1, <2>2
<1>. QED  BY <1>1, <1>2, Zenon DEF Conversation, InStep

\* Two connections are not of one client.
LEMMA OthersClients ==
    ASSUME NEW R, NEW s, Sound(s, R), NEW f \in Fds, NEW g \in Fds \ {f}, Open(s, f), Open(s, g)
    PROVE  /\ s.desc[f] \in Clients /\ s.desc[g] \in Clients /\ s.desc[f] # s.desc[g]
BY KernelFields DEF Sound, ConnectionsOK, Open

\* The server starts without connections.
LEMMA WebSocketInitInv == WebSocketInit => WebSocketInv
<1> SUFFICES ASSUME WebSocketInit, prog = "websocket" PROVE WebSocketInv
  BY DEF WebSocketInv
<1>1. /\ k \in Kernels /\ ready = {}
      /\ mem = [status |-> [f \in Fds |-> "shake"], buf |-> [f \in Fds |-> Nobody], begun |-> {}]
  BY DEF WebSocketInit, WebSocketStart, WebSocketppStart, Started, NoItems
<1>2. /\ Sound(k, Answers) /\ k.came = {} /\ k.backlog = <<>> /\ \A f \in Fds : ~Open(k, f)
      /\ \A c \in Clients : k.out[c] = <<>> /\ k.inq[c] = <<>>
  BY <1>1, StartOK
<1>3. PICK st \in [Fds -> {"shake", "data"}] : st = [f \in Fds |-> "shake"]
  OBVIOUS
<1>4. PICK bf \in [Fds -> Answers \cup {Nobody}] : bf = [f \in Fds |-> Nobody]
  OBVIOUS
<1>5. mem = [status |-> st, buf |-> bf, begun |-> {}]
  BY <1>1, <1>3, <1>4, Zenon
<1>6. /\ mem.status = st /\ mem.buf = bf /\ mem.begun \in SUBSET Fds
      /\ mem = [status |-> mem.status, buf |-> mem.buf, begun |-> mem.begun]
  BY <1>5
<1>7. \A c \in Clients : InOK(k.sent[c], k.inq[c]) /\ OutOK(k.out[c])
  <2>1. \A c \in Clients : 1..Len(k.inq[c]) = {} /\ 1..Len(k.out[c]) = {}
    BY <1>2
  <2>. QED  BY <2>1, Zenon DEF InOK, OutOK
<1>8. 1..Len(k.backlog) = {}
  BY <1>2
<1>9. Conversation
  BY <1>1, <1>2, <1>5, <1>6, <1>7, <1>8, Zenon DEF Conversation
<1>. QED  BY <1>9, ConversationIs

\* A client moves: its messages are numbered, and nothing else changes.
LEMMA TalkClient ==
    ASSUME Conversation, NEW c \in Clients, ClientMove(c)
    PROVE  Conversation' /\ prog' = prog
<1>1. Sound(k, Answers)
  BY DEF Conversation
<1>2. /\ Sound(k', Answers) /\ k'.desc = k.desc /\ k'.out = k.out
      /\ \A f \in Watched : k'.watch[f].ev = k.watch[f].ev
      /\ UNCHANGED <<prog, ready, pc, cur, mem>>
      /\ ClientConnected(c) \/ ClientSent(c) \/ ClientEnded(c)
  BY <1>1, ClientOK
<1>3. /\ k.backlog \in Seq(Clients) /\ k.sent \in [Clients -> Nat] /\ k.inq \in [Clients -> Seq(Nat)]
  BY <1>1, KernelFields DEF Sound
<1>4. \A f : Open(k', f) <=> Open(k, f)
  BY <1>2 DEF Open
<1>5. \A d \in Clients : InOK(k.sent[d], k.inq[d]) /\ OutOK(k.out[d])
  BY DEF Conversation
<1>6. \A d \in Clients : OutOK(k'.out[d])
  BY <1>2, <1>5, Zenon
<1>7. /\ k.backlog # <<>> => k'.backlog # <<>>
      /\ \A d \in Clients \ k'.came : k'.out[d] = <<>>
      /\ \A i \in 1..Len(k'.backlog) : k'.out[k'.backlog[i]] = <<>>
  <2>1. /\ \A d \in Clients \ k.came : k.out[d] = <<>>
        /\ \A i \in 1..Len(k.backlog) : k.out[k.backlog[i]] = <<>>
    BY DEF Conversation
  <2>2. CASE k'.came = k.came /\ k'.backlog = k.backlog
    BY <1>2, <2>1, <2>2, Zenon
  <2>3. CASE ClientConnected(c)
    <3>1. c \notin k.came /\ k'.came = k.came \cup {c} /\ k'.backlog = Append(k.backlog, c)
      BY <2>3 DEF ClientConnected
    <3>2. /\ Len(k.backlog) \in Nat /\ Len(k'.backlog) = Len(k.backlog) + 1 /\ k'.backlog # <<>>
          /\ k'.backlog[Len(k.backlog) + 1] = c
          /\ \A i \in 1..Len(k.backlog) : k'.backlog[i] = k.backlog[i]
      <4>1. PICK b : b = Append(k.backlog, c)
        OBVIOUS
      <4>2. /\ Len(k.backlog) \in Nat /\ Len(b) = Len(k.backlog) + 1 /\ b # <<>>
            /\ b[Len(k.backlog) + 1] = c /\ \A i \in 1..Len(k.backlog) : b[i] = k.backlog[i]
        BY <1>3, <4>1, AppendFacts
      <4>. QED  BY <3>1, <4>1, <4>2, Zenon
    <3>3. k.out[c] = <<>>
      BY <2>1, <3>1
    <3>4. ASSUME NEW i \in 1..Len(k'.backlog) PROVE k.out[k'.backlog[i]] = <<>>
      <4>1. i = Len(k.backlog) + 1 \/ i \in 1..Len(k.backlog)
        BY <3>2
      <4>. QED  BY <2>1, <3>2, <3>3, <4>1
    <3>. QED  BY <1>2, <2>1, <3>1, <3>2, <3>4
  <2>. QED  BY <1>2, <2>2, <2>3 DEF ClientSent, ClientEnded
<1>8. ASSUME NEW d \in Clients
      PROVE  /\ InOK(k'.sent[d], k'.inq[d])
             /\ \/ k'.ended[d] = k.ended[d] /\ k'.sent[d] = k.sent[d] /\ k'.inq[d] = k.inq[d]
                \/ /\ k'.sent[d] - Len(k'.inq[d]) = k.sent[d] - Len(k.inq[d])
                   /\ k.ended[d] = "open"
                \/ k'.ended[d] # "open" /\ k'.inq[d] = <<>>
                \/ k'.ended[d] # "open" /\ k'.sent[d] = k.sent[d] /\ k'.inq[d] = k.inq[d]
  <2>1. CASE ClientConnected(c)
    BY <1>5, <2>1 DEF ClientConnected
  <2>2. CASE ClientSent(c) /\ d = c
    <3>1. k'.sent[c] = k.sent[c] + 1 /\ k'.inq[c] = Append(k.inq[c], k.sent[c] + 1) /\ k.ended[c] = "open"
      BY <2>2 DEF ClientSent
    <3>2. /\ InOK(k.sent[c] + 1, Append(k.inq[c], k.sent[c] + 1))
          /\ k.sent[c] + 1 - Len(Append(k.inq[c], k.sent[c] + 1)) = k.sent[c] - Len(k.inq[c])
      BY <1>3, <1>5, InSent
    <3>3. InOK(k'.sent[c], k'.inq[c])
      BY <3>1, <3>2, Zenon
    <3>4. k'.sent[c] - Len(k'.inq[c]) = k.sent[c] - Len(k.inq[c])
      <4>1. PICK a : a = Append(k.inq[c], k.sent[c] + 1)
        OBVIOUS
      <4>2. k'.inq[c] = a
        BY <3>1, <4>1, Zenon
      <4>3. k'.sent[c] = k.sent[c] + 1
        BY <3>1
      <4>4. k.sent[c] \in Nat /\ k.inq[c] \in Seq(Nat)
        BY <1>3
      <4>5. Len(k.inq[c]) \in Nat /\ Len(a) = Len(k.inq[c]) + 1
        BY <4>1, <4>4, AppendFacts
      <4>6. Len(k'.inq[c]) = Len(a)
        BY <4>2
      <4>7. Len(k'.inq[c]) = Len(k.inq[c]) + 1
        BY <4>5, <4>6, Zenon
      <4>8. PICK v \in Nat : v = k.sent[c]
        BY <4>4, Zenon
      <4>9. PICK l \in Nat : l = Len(k.inq[c])
        BY <4>5, Zenon
      <4>10. PICK x : x = k'.sent[c]
        BY Zenon
      <4>11. PICK y : y = Len(k'.inq[c])
        BY Zenon
      <4>12. x = v + 1 /\ y = l + 1
        BY <4>3, <4>7, <4>8, <4>9, <4>10, <4>11, Zenon
      <4>13. v \in Nat /\ l \in Nat
        BY <4>8, <4>9, Zenon
      <4>14. x - y = v - l
        BY ONLY <4>12, <4>13
      <4>. QED  BY <4>8, <4>9, <4>10, <4>11, <4>14, Zenon
    <3>. QED  BY <2>2, <3>1, <3>3, <3>4, Zenon
  <2>3. CASE ClientEnded(c) /\ d = c
    <3>1. CASE k'.inq[c] = k.inq[c]
      BY <1>5, <2>3, <3>1 DEF ClientEnded
    <3>2. CASE k'.inq[c] = <<>>
      <4>1. 1..Len(k'.inq[c]) = {}
        BY <3>2
      <4>2. InOK(k'.sent[c], k'.inq[c])
        BY <4>1, Zenon DEF InOK
      <4>. QED  BY <2>3, <3>2, <4>2 DEF ClientEnded
    <3>. QED  BY <2>3, <3>1, <3>2 DEF ClientEnded
  <2>4. CASE (ClientSent(c) \/ ClientEnded(c)) /\ d # c
    BY <1>5, <2>4 DEF ClientSent, ClientEnded
  <2>. QED  BY <1>2, <2>1, <2>2, <2>3, <2>4
<1>9. ASSUME NEW f \in Fds, Open(k', f) PROVE Talking(f)'
  <2>1. Open(k, f) /\ k.desc[f] \in Clients /\ k'.desc[f] = k.desc[f]
    BY <1>1, <1>2, <1>4, <1>9, KernelFields DEF Sound
  <2>2. PICK d \in Clients : d = k.desc[f]
    BY <2>1
  <2>3. TalkOK(mem.status[f], k.watch[f].ev, mem.buf[f], k.out[d], k.ended[d], k.sent[d], k.inq[d])
    BY <2>1, <2>2 DEF Conversation, Talking
  <2>4. k'.watch[f].ev = k.watch[f].ev
    BY <1>2, FdFacts
  <2>5. TalkOK(mem.status[f], k.watch[f].ev, mem.buf[f], k.out[d], k'.ended[d], k'.sent[d], k'.inq[d])
    BY <1>8, <2>3 DEF TalkOK
  <2>. QED  BY <1>2, <2>1, <2>2, <2>4, <2>5 DEF Talking
<1>10. Conversation'
  BY <1>2, <1>4, <1>6, <1>7, <1>8, <1>9 DEF Conversation
<1>. QED  BY <1>2, <1>10

\* epoll_wait
LEMMA TalkWait == ASSUME Conversation, EpollWait PROVE Conversation'
<1>1. Sound(k, Answers)
  BY DEF Conversation
<1>2. ready' = Reportable(k) /\ k' = Reported(k) /\ mem' = mem
  BY DEF EpollWait, Wait
<1>3. /\ Sound(k', Answers) /\ SameConnections(k, k') /\ SameStreams(k, k')
      /\ \A f \in Watched : k'.watch[f].ev = k.watch[f].ev
  BY <1>1, <1>2, ReportedOK
<1>4. /\ k'.desc = k.desc /\ k'.backlog = k.backlog /\ k'.came = k.came
      /\ k'.out = k.out /\ k'.sent = k.sent /\ k'.inq = k.inq /\ k'.ended = k.ended
  BY <1>3 DEF SameConnections, SameStreams
<1>5. \A f : Open(k', f) <=> Open(k, f)
  BY <1>4 DEF Open
<1>6. /\ ready' \subseteq Watched /\ (Listener \in ready' => k.backlog # <<>>)
      /\ \A f \in ready' \cap Fds : Open(k, f)
  BY <1>1, <1>2, ReportableFacts
<1>7. ASSUME NEW f \in Fds, Open(k', f) PROVE Talking(f)'
  <2>1. Talking(f) /\ k'.watch[f].ev = k.watch[f].ev
    BY <1>3, <1>5, <1>7, FdFacts DEF Conversation
  <2>. QED  BY <1>2, <1>4, <2>1 DEF Talking
<1>. QED  BY <1>2, <1>3, <1>4, <1>5, <1>6, <1>7, Zenon DEF Conversation

\* A new connection begins with the upgrade request, and nothing was sent to it.
LEMMA TalkAccept == ASSUME Conversation, ItemAccept PROVE Conversation'
<1>1. /\ Sound(k, Answers) /\ ready \subseteq Watched
      /\ mem.status \in [Fds -> {"shake", "data"}] /\ mem.buf \in [Fds -> Answers \cup {Nobody}]
      /\ mem.begun \in SUBSET Fds
      /\ mem = [status |-> mem.status, buf |-> mem.buf, begun |-> mem.begun]
      /\ Listener \in ready => k.backlog # <<>>
      /\ \A g \in ready \cap Fds : Open(k, g)
      /\ \A d \in Clients : InOK(k.sent[d], k.inq[d]) /\ OutOK(k.out[d])
      /\ \A d \in Clients \ k.came : k.out[d] = <<>>
      /\ \A i \in 1..Len(k.backlog) : k.out[k.backlog[i]] = <<>>
  BY DEF Conversation
<1>2. Listener \in ready /\ ready' = ready \ {Listener}
  BY DEF ItemAccept, Take
<1>3. CASE FreeFds(k) = {}
  <2>1. k' = k /\ mem' = mem
    BY <1>3 DEF ItemAccept
  <2>2. \A f \in Fds : Open(k, f) => Talking(f)
    BY DEF Conversation
  <2>3. \A f \in Fds : Open(k, f) => Talking(f)'
    BY <2>1, <2>2 DEF Talking
  <2>. QED  BY <1>1, <1>2, <2>1, <2>3 DEF Conversation
<1>4. CASE FreeFds(k) # {}
  <2>1. k' = AcceptAndWatch(TRUE) /\ mem' = [mem EXCEPT !.status[FreeFd(k)] = "shake",
                                                     !.begun = @ \ {FreeFd(k)}]
    BY <1>4 DEF ItemAccept
  <2>2. PICK f0 \in Fds : f0 = FreeFd(k)
    BY <1>4, FreeFdFacts
  <2>3. PICK c0 \in Clients : c0 = k.backlog[1]
    BY <1>1, <1>2, KernelFields, TailFacts DEF Sound
  <2>4. /\ Sound(k', Answers) /\ SameStreams(k, k')
        /\ k'.desc[f0] = c0 /\ k'.watch[f0].ev = "in" /\ Open(k', f0)
        /\ k'.backlog = Tail(k.backlog) /\ k'.came = k.came
        /\ \A g \in Fds \ {f0} :
              k'.desc[g] = k.desc[g] /\ k'.watch[g] = k.watch[g] /\ (Open(k', g) <=> Open(k, g))
    <3>1. Sound(k, Answers) /\ k.backlog # <<>>
      BY <1>1, <1>2
    <3>2. PICK et \in BOOLEAN : k' = AcceptAndWatch(et)
      BY <2>1, Zenon
    <3>. QED  BY <1>4, <2>2, <2>3, <3>1, <3>2, AcceptAndWatchOK
  <2>5. k'.out = k.out /\ k'.sent = k.sent /\ k'.inq = k.inq /\ k'.ended = k.ended
    BY <2>4 DEF SameStreams
  <2>6. PICK st \in [Fds -> {"shake", "data"}] : st = [mem.status EXCEPT ![f0] = "shake"]
    BY <1>1
  <2>7. st[f0] = "shake" /\ \A g \in Fds \ {f0} : st[g] = mem.status[g]
    BY <1>1, <2>6
  <2>8. /\ mem'.begun \in SUBSET Fds
        /\ mem' = [status |-> st, buf |-> mem.buf, begun |-> mem'.begun]
    <3>1. mem' = [mem EXCEPT !.status = st, !.begun = mem.begun \ {f0}]
      BY <1>1, <2>1, <2>2, <2>6
    <3>. QED  BY <1>1, <3>1
  <2>9. /\ Len(k.backlog) \in Nat \ {0} /\ Len(k'.backlog) = Len(k.backlog) - 1
        /\ \A i \in 1..(Len(k.backlog) - 1) : k'.backlog[i] = k.backlog[i + 1]
    <3>1. k.backlog \in Seq(Clients) /\ k.backlog # <<>>
      BY <1>1, <1>2, KernelFields DEF Sound
    <3>2. PICK b : b = Tail(k.backlog)
      OBVIOUS
    <3>3. /\ Len(k.backlog) \in Nat \ {0} /\ Len(b) = Len(k.backlog) - 1
          /\ \A i \in 1..(Len(k.backlog) - 1) : b[i] = k.backlog[i + 1]
      BY <3>1, <3>2, TailFacts
    <3>. QED  BY <2>4, <3>2, <3>3
  <2>10. k.out[c0] = <<>>
    <3>1. 1 \in 1..Len(k.backlog)
      BY <2>9
    <3>. QED  BY <1>1, <2>3, <3>1
  <2>11. \A i \in 1..Len(k'.backlog) : k'.out[k'.backlog[i]] = <<>>
    <3>1. \A i \in 1..(Len(k.backlog) - 1) : i + 1 \in 1..Len(k.backlog)
      BY <2>9
    <3>. QED  BY <1>1, <2>5, <2>9, <3>1
  <2>12. TalkOK(st[f0], k'.watch[f0].ev, mem.buf[f0], k'.out[k'.desc[f0]],
                k'.ended[k'.desc[f0]], k'.sent[k'.desc[f0]], k'.inq[k'.desc[f0]])
    BY <2>4, <2>5, <2>7, <2>10 DEF TalkOK
  <2>13. \A g \in ready' \cap Fds : Open(k', g)
    BY <1>1, <1>2, <2>4
  <2>14. \A d \in Clients : InOK(k'.sent[d], k'.inq[d]) /\ OutOK(k'.out[d])
    BY <1>1, <2>5
  <2>15. Listener \notin ready' /\ ready' \subseteq Watched
    BY <1>1, <1>2
  <2>16. InStep(st, mem.buf, f0)
    BY <1>1, <2>4, <2>5, <2>7, <2>8, <2>11, <2>12, <2>13, <2>14, <2>15 DEF InStep
  <2>. QED  BY <1>1, <2>2, <2>7, <2>16, TalkStep
<1>. QED  BY <1>3, <1>4

\* What is known where an event of connection f is handled.
LEMMA TalkFacts ==
    ASSUME Conversation, NEW f \in Fds, f \in ready
    PROVE  /\ Sound(k, Answers) /\ Open(k, f) /\ k.desc[f] \in Clients /\ k.desc[f] \in k.came
           /\ \A i \in 1..Len(k.backlog) : k.backlog[i] # k.desc[f]
           /\ k.sent \in [Clients -> Nat] /\ k.inq \in [Clients -> Seq(Nat)]
           /\ k.out \in [Clients -> Seq(Answers)] /\ k.backlog \in Seq(Clients)
           /\ Talking(f)
           /\ ready \ {f} \subseteq Watched
           /\ mem.status \in [Fds -> {"shake", "data"}] /\ mem.buf \in [Fds -> Answers \cup {Nobody}]
           /\ mem.begun \in SUBSET Fds
           /\ mem = [status |-> mem.status, buf |-> mem.buf, begun |-> mem.begun]
           /\ Listener \in ready => k.backlog # <<>>
           /\ \A g \in ready \cap Fds : Open(k, g)
           /\ \A d \in Clients : InOK(k.sent[d], k.inq[d]) /\ OutOK(k.out[d])
           /\ \A d \in Clients \ k.came : k.out[d] = <<>>
           /\ \A i \in 1..Len(k.backlog) : k.out[k.backlog[i]] = <<>>
<1>1. Sound(k, Answers) /\ Open(k, f)
  BY DEF Conversation
<1>2. k.desc[f] \in Clients /\ k.desc[f] \in k.came
  BY <1>1, KernelFields DEF Sound, ConnectionsOK
<1>3. /\ k.sent \in [Clients -> Nat] /\ k.inq \in [Clients -> Seq(Nat)]
      /\ k.out \in [Clients -> Seq(Answers)] /\ k.backlog \in Seq(Clients)
  BY <1>1, KernelFields DEF Sound
<1>4. DOMAIN k.backlog = 1..Len(k.backlog)
  BY <1>3
<1>5. \A i \in 1..Len(k.backlog) : k.backlog[i] # k.desc[f]
  BY <1>1, <1>4 DEF Sound, ConnectionsOK
<1>. QED  BY <1>1, <1>2, <1>3, <1>5 DEF Conversation

\* A connection is closed at its end.
LEMMA TalkClose ==
    ASSUME Conversation, NEW f \in Fds, f \in ready, ready' = ready \ {f},
           k' = Close(k, f), mem' = mem
    PROVE  Conversation'
<1>1. /\ Sound(k, Answers) /\ Open(k, f)
      /\ ready \ {f} \subseteq Watched
      /\ mem.status \in [Fds -> {"shake", "data"}] /\ mem.buf \in [Fds -> Answers \cup {Nobody}]
      /\ mem.begun \in SUBSET Fds
      /\ mem = [status |-> mem.status, buf |-> mem.buf, begun |-> mem.begun]
      /\ Listener \in ready => k.backlog # <<>>
      /\ \A g \in ready \cap Fds : Open(k, g)
      /\ \A d \in Clients : InOK(k.sent[d], k.inq[d]) /\ OutOK(k.out[d])
      /\ \A d \in Clients \ k.came : k.out[d] = <<>>
      /\ \A i \in 1..Len(k.backlog) : k.out[k.backlog[i]] = <<>>
  BY TalkFacts
<1>2. /\ Sound(k', Answers) /\ SameStreams(k, k') /\ ~Open(k', f)
      /\ \A g \in Fds \ {f} : /\ k'.desc[g] = k.desc[g]
                              /\ k'.watch[g] = k.watch[g]
                              /\ Open(k', g) <=> Open(k, g)
      /\ k'.backlog = k.backlog /\ k'.came = k.came
  BY <1>1, CloseOK
<1>3. k'.out = k.out /\ k'.sent = k.sent /\ k'.inq = k.inq /\ k'.ended = k.ended
  BY <1>2 DEF SameStreams
<1>4. \A g \in ready' \cap Fds : Open(k', g)
  BY <1>1, <1>2
<1>5. \A d \in Clients : InOK(k'.sent[d], k'.inq[d]) /\ OutOK(k'.out[d])
  BY <1>1, <1>3
<1>6. \A i \in 1..Len(k'.backlog) : k'.out[k'.backlog[i]] = <<>>
  BY <1>1, <1>2, <1>3
<1>7. InStep(mem.status, mem.buf, f)
  BY <1>1, <1>2, <1>3, <1>4, <1>5, <1>6 DEF InStep
<1>. QED  BY <1>1, <1>7, TalkStep

\* recv of n messages on f takes them off its stream.
LEMMA TakenOK ==
    ASSUME NEW R, NEW s, Sound(s, R), NEW f \in Fds, Open(s, f),
           NEW n \in 0..Len(s.inq[s.desc[f]]), NEW t, t = Taken(s, f, n)
    PROVE  /\ Sound(t, R) /\ SameConnections(s, t)
           /\ t.watch = s.watch /\ t.out = s.out /\ t.sent = s.sent /\ t.ended = s.ended
           /\ \A d \in Clients \ {s.desc[f]} : t.inq[d] = s.inq[d]
           /\ t.inq[s.desc[f]] = SubSeq(s.inq[s.desc[f]], n + 1, Len(s.inq[s.desc[f]]))
<1>0. s \in KernelOf(R)
  BY DEF Sound
<1>1. PICK c \in Clients : c = s.desc[f]
  BY <1>0, KernelFields
<1>2. s.inq \in [Clients -> Seq(Nat)]
  BY <1>0, KernelFields
<1>3. PICK rest \in Seq(Nat) : rest = SubSeq(s.inq[c], n + 1, Len(s.inq[c]))
  <2>1. s.inq[c] \in Seq(Nat) /\ n \in 0..Len(s.inq[c])
    BY <1>1, <1>2
  <2>2. SubSeq(s.inq[c], n + 1, Len(s.inq[c])) \in Seq(Nat)
    BY <2>1
  <2>. QED  BY <2>2, Zenon
<1>4. PICK q \in [Clients -> Seq(Nat)] : q = [s.inq EXCEPT ![c] = rest]
  BY <1>2, <1>3
<1>5. q[c] = rest /\ \A d \in Clients \ {c} : q[d] = s.inq[d]
  BY <1>2, <1>4
<1>6. t = [s EXCEPT !.inq = q]
  BY <1>0, <1>1, <1>3, <1>4 DEF Taken, KernelOf
<1>7. t \in KernelOf(R) /\ t.inq = q /\ t.watch = s.watch
  BY <1>0, <1>6 DEF KernelOf
<1>8. SameConnections(s, t) /\ t.out = s.out /\ t.sent = s.sent /\ t.ended = s.ended
  BY <1>0, <1>6 DEF KernelOf, SameConnections
<1>9. WatchOK(t)
  BY <1>7, <1>8 DEF Sound, WatchOK, SameConnections, Open
<1>10. Sound(t, R)
  BY <1>7, <1>8, <1>9, SoundKept
<1>. QED  BY <1>1, <1>3, <1>5, <1>7, <1>8, <1>10

\* After it the connection waits for output, or an edge may be raised.
TakenTo(s, f, n, t) ==
    \/ \E late : t = Stir(Taken(s, f, n), late)
    \/ t = Watch(Taken(s, f, n), f, "out", TRUE)

\* Only the stream of the connection is another then.
LEMMA TakenWatched ==
    ASSUME NEW R, NEW s, Sound(s, R), NEW f \in Fds, Open(s, f),
           NEW n \in 0..Len(s.inq[s.desc[f]]), NEW t, TakenTo(s, f, n, t)
    PROVE  /\ Sound(t, R) /\ t.desc = s.desc /\ t.backlog = s.backlog /\ t.came = s.came
           /\ t.out = s.out /\ t.sent = s.sent /\ t.ended = s.ended
           /\ \A d \in Clients \ {s.desc[f]} : t.inq[d] = s.inq[d]
           /\ t.inq[s.desc[f]] = SubSeq(s.inq[s.desc[f]], n + 1, Len(s.inq[s.desc[f]]))
           /\ \A g \in Fds \ {f} : t.watch[g].ev = s.watch[g].ev
<1>1. PICK u : u = Taken(s, f, n)
  OBVIOUS
<1>2. /\ Sound(u, R) /\ SameConnections(s, u)
      /\ u.watch = s.watch /\ u.out = s.out /\ u.sent = s.sent /\ u.ended = s.ended
      /\ \A d \in Clients \ {s.desc[f]} : u.inq[d] = s.inq[d]
      /\ u.inq[s.desc[f]] = SubSeq(s.inq[s.desc[f]], n + 1, Len(s.inq[s.desc[f]]))
  <2>1. /\ Sound(s, R) /\ f \in Fds /\ Open(s, f) /\ n \in 0..Len(s.inq[s.desc[f]])
        /\ u = Taken(s, f, n)
    BY <1>1, Zenon
  <2>. QED  BY ONLY <2>1, TakenOK
<1>3. Open(u, f)
  BY <1>2 DEF SameConnections, Open
<1>4. /\ Sound(t, R) /\ SameConnections(u, t) /\ SameStreams(u, t)
      /\ \A g \in Watched \ {f} : t.watch[g].ev = u.watch[g].ev
  <2>1. ASSUME NEW late, t = Stir(u, late)
        PROVE  /\ Sound(t, R) /\ SameConnections(u, t) /\ SameStreams(u, t)
               /\ \A g \in Watched \ {f} : t.watch[g].ev = u.watch[g].ev
    <3>1. Sound(u, R) /\ t = Stir(u, late)
      BY <1>2, <2>1
    <3>. QED  BY ONLY <3>1, StirOK
  <2>2. ASSUME NEW et \in BOOLEAN, t = Watch(u, f, "out", et)
        PROVE  /\ Sound(t, R) /\ SameConnections(u, t) /\ SameStreams(u, t)
               /\ \A g \in Watched \ {f} : t.watch[g].ev = u.watch[g].ev
    BY <1>2, <1>3, <2>2, WaitsFor
  <2>. QED  BY <1>1, <2>1, <2>2, Zenon DEF TakenTo
<1>5. /\ t.desc = s.desc /\ t.backlog = s.backlog /\ t.came = s.came
      /\ t.out = s.out /\ t.sent = s.sent /\ t.ended = s.ended /\ t.inq = u.inq
  BY <1>2, <1>4, Zenon DEF SameConnections, SameStreams
<1>6. \A g \in Fds \ {f} : t.watch[g].ev = s.watch[g].ev
  <2>1. \A g \in Fds \ {f} : g \in Watched \ {f}
    BY FdFacts, Zenon
  <2>. QED  BY <1>2, <1>4, <2>1, Zenon
<1>. QED  BY <1>2, <1>4, <1>5, <1>6, Zenon

\* n messages are read on f, where no answer is in sendbuffer; r is there afterwards
\* if the connection then waits for output.
LEMMA TalkTaken ==
    ASSUME Conversation, NEW f \in Fds, f \in ready, ready' = ready \ {f}, Result(k, f) = "data",
           NEW n \in 0..Len(k.inq[k.desc[f]]),
           NEW q, q = SubSeq(k.inq[k.desc[f]], n + 1, Len(k.inq[k.desc[f]])),
           NEW ev \in {"in", "out"}, TakenTo(k, f, n, k'), k'.watch[f].ev = ev,
           NEW sf \in {"shake", "data"}, NEW r \in Answers \cup {Nobody},
           NEW st, st = [mem.status EXCEPT ![f] = sf], NEW bf, bf = [mem.buf EXCEPT ![f] = r],
           NEW bg \in SUBSET Fds, mem' = [status |-> st, buf |-> bf, begun |-> bg],
           TalkOK(sf, ev, r, k.out[k.desc[f]], k.ended[k.desc[f]], k.sent[k.desc[f]], q)
    PROVE  Conversation'
<1>1. /\ Sound(k, Answers) /\ Open(k, f) /\ k.desc[f] \in Clients
      /\ k.sent \in [Clients -> Nat] /\ k.inq \in [Clients -> Seq(Nat)]
      /\ ready \ {f} \subseteq Watched
      /\ mem.status \in [Fds -> {"shake", "data"}] /\ mem.buf \in [Fds -> Answers \cup {Nobody}]
      /\ Listener \in ready => k.backlog # <<>>
      /\ \A g \in ready \cap Fds : Open(k, g)
      /\ \A d \in Clients : InOK(k.sent[d], k.inq[d]) /\ OutOK(k.out[d])
      /\ \A d \in Clients \ k.came : k.out[d] = <<>>
      /\ \A i \in 1..Len(k.backlog) : k.out[k.backlog[i]] = <<>>
  BY TalkFacts
<1>2. PICK c \in Clients : c = k.desc[f]
  BY <1>1
<1>3. PICK s : s = k'
  OBVIOUS
<1>4. /\ Sound(k, Answers) /\ Open(k, f) /\ f \in Fds
      /\ n \in 0..Len(k.inq[k.desc[f]]) /\ TakenTo(k, f, n, s)
  BY <1>1, <1>3, Zenon
<1>5. /\ Sound(s, Answers) /\ s.desc = k.desc /\ s.backlog = k.backlog /\ s.came = k.came
      /\ s.out = k.out /\ s.sent = k.sent /\ s.ended = k.ended
      /\ \A d \in Clients \ {k.desc[f]} : s.inq[d] = k.inq[d]
      /\ s.inq[k.desc[f]] = SubSeq(k.inq[k.desc[f]], n + 1, Len(k.inq[k.desc[f]]))
      /\ \A g \in Fds \ {f} : s.watch[g].ev = k.watch[g].ev
  BY ONLY <1>4, TakenWatched
<1>6. /\ Sound(k', Answers) /\ k'.desc = k.desc /\ k'.backlog = k.backlog /\ k'.came = k.came
      /\ k'.out = k.out /\ k'.sent = k.sent /\ k'.ended = k.ended
      /\ k'.inq[c] = q /\ \A d \in Clients \ {c} : k'.inq[d] = k.inq[d]
      /\ \A g \in Fds \ {f} : k'.watch[g].ev = k.watch[g].ev
  BY <1>2, <1>3, <1>5, Zenon
<1>7. \A g : Open(k', g) <=> Open(k, g)
  BY <1>6 DEF Open
<1>8. st \in [Fds -> {"shake", "data"}] /\ st[f] = sf /\ \A g \in Fds \ {f} : st[g] = mem.status[g]
  BY <1>1
<1>9. bf \in [Fds -> Answers \cup {Nobody}] /\ bf[f] = r /\ \A g \in Fds \ {f} : bf[g] = mem.buf[g]
  BY <1>1
<1>10. InOK(k.sent[c], q)
  <2>1. k.inq[c] # <<>> /\ k.inq[c] \in Seq(Nat) /\ k.sent[c] \in Nat /\ InOK(k.sent[c], k.inq[c])
    BY <1>1, <1>2, ResultFacts
  <2>2. n \in 0..Len(k.inq[c]) /\ q = SubSeq(k.inq[c], n + 1, Len(k.inq[c]))
    BY <1>2
  <2>. QED  BY <2>1, <2>2, InTaken
<1>11. \A d \in Clients : InOK(k'.sent[d], k'.inq[d])
  <2>1. \A d \in Clients : d = c \/ d \in Clients \ {c}
    OBVIOUS
  <2>. QED  BY <1>1, <1>6, <1>10, <2>1, Zenon
<1>12. ASSUME NEW g \in Fds \ {f}, Open(k', g)
       PROVE  /\ Open(k, g) /\ k'.desc[g] = k.desc[g] /\ k'.watch[g].ev = k.watch[g].ev
              /\ st[g] = mem.status[g] /\ bf[g] = mem.buf[g]
              /\ k'.out[k.desc[g]] = k.out[k.desc[g]] /\ k'.ended[k.desc[g]] = k.ended[k.desc[g]]
              /\ k'.sent[k.desc[g]] = k.sent[k.desc[g]] /\ k'.inq[k.desc[g]] = k.inq[k.desc[g]]
  <2>1. Open(k, g)
    BY <1>7, <1>12
  <2>2. k.desc[g] \in Clients /\ k.desc[g] # c
    BY <1>1, <1>2, <2>1, OthersClients
  <2>. QED  BY <1>6, <1>8, <1>9, <2>1, <2>2
<1>13. TalkOK(st[f], k'.watch[f].ev, bf[f], k'.out[k'.desc[f]],
              k'.ended[k'.desc[f]], k'.sent[k'.desc[f]], k'.inq[k'.desc[f]])
  <2>1. TalkOK(sf, ev, r, k.out[c], k.ended[c], k.sent[c], q)
    BY <1>2
  <2>. QED  BY <1>2, <1>6, <1>8, <1>9, <2>1
<1>14. /\ Listener \in ready' => k'.backlog # <<>>
       /\ \A g \in ready' \cap Fds : Open(k', g)
       /\ ready' \subseteq Watched
  BY <1>1, <1>6, <1>7
<1>15. /\ \A d \in Clients \ k'.came : k'.out[d] = <<>>
       /\ \A i \in 1..Len(k'.backlog) : k'.out[k'.backlog[i]] = <<>>
       /\ \A d \in Clients : OutOK(k'.out[d])
  BY <1>1, <1>6
<1>16. mem'.begun \in SUBSET Fds /\ mem' = [status |-> st, buf |-> bf, begun |-> mem'.begun]
  OBVIOUS
<1>17. InStep(st, bf, f)
  BY <1>6, <1>8, <1>9, <1>11, <1>12, <1>13, <1>14, <1>15, <1>16 DEF InStep
<1>. QED  BY <1>8, <1>9, <1>17, TalkStep

\* Where data is unread on f: the number of the first message, and that of the last
\* of the n that are taken.
LEMMA TalkUnread ==
    ASSUME Conversation, NEW f \in Fds, f \in ready, Result(k, f) = "data",
           NEW n \in 0..Len(Unread(f))
    PROVE  /\ FirstOf(f) \in Nat /\ LastOf(f, n) \in Int
           /\ FirstOf(f) = k.sent[k.desc[f]] - Len(k.inq[k.desc[f]]) + 1
           /\ LastOf(f, n) = k.sent[k.desc[f]]
                            - Len(SubSeq(k.inq[k.desc[f]], n + 1, Len(k.inq[k.desc[f]])))
<1>1. /\ k.desc[f] \in Clients /\ k.sent \in [Clients -> Nat] /\ k.inq \in [Clients -> Seq(Nat)]
      /\ \A d \in Clients : InOK(k.sent[d], k.inq[d])
  BY TalkFacts
<1>2. PICK c \in Clients : c = k.desc[f]
  BY <1>1
<1>3. PICK sent \in Nat, inq \in Seq(Nat) : sent = k.sent[c] /\ inq = k.inq[c]
  BY <1>1, <1>2
<1>4. inq # <<>> /\ InOK(sent, inq) /\ n \in 0..Len(inq)
  BY <1>1, <1>2, <1>3, ResultFacts DEF Unread
<1>5. PICK q : q = SubSeq(inq, n + 1, Len(inq))
  OBVIOUS
<1>6. /\ Head(inq) \in Nat
      /\ Head(inq) = sent - Len(inq) + 1 /\ Head(inq) + n - 1 = sent - Len(q)
  <2>1. sent \in Nat /\ inq \in Seq(Nat)
    BY <1>3
  <2>. QED  BY ONLY <1>4, <1>5, <2>1, InTaken
<1>7. FirstOf(f) = Head(inq) /\ LastOf(f, n) = Head(inq) + n - 1
  BY <1>2, <1>3, Zenon DEF FirstOf, LastOf, Unread
<1>8. FirstOf(f) \in Nat /\ LastOf(f, n) \in Int
  BY <1>4, <1>6, <1>7
<1>. QED  BY <1>2, <1>3, <1>5, <1>6, <1>7, <1>8, Zenon

\* An answer is put into sendbuffer: it is the next one of the client's.
LEMMA TalkToSend ==
    ASSUME Conversation, NEW f \in Fds, f \in ready, ready' = ready \ {f}, Result(k, f) = "data",
           NEW n \in 0..Len(Unread(f)), NEW begun \in SUBSET Fds,
           NEW r \in Answers, r.last = LastOf(f, n), GoesNext(r, k.out[k.desc[f]]),
           ToSend(f, n, begun, r)
    PROVE  Conversation'
<1>1. /\ Sound(k, Answers) /\ Open(k, f) /\ k.desc[f] \in Clients
      /\ mem.status \in [Fds -> {"shake", "data"}] /\ mem.buf \in [Fds -> Answers \cup {Nobody}]
      /\ mem = [status |-> mem.status, buf |-> mem.buf, begun |-> mem.begun]
  BY TalkFacts
<1>2. PICK s : s = Taken(k, f, n)
  OBVIOUS
<1>3. PICK et \in BOOLEAN : k' = Watch(s, f, "out", et)
  BY <1>2, Zenon DEF ToSend
<1>4. n \in 0..Len(k.inq[k.desc[f]])
  BY DEF Unread
<1>5. Sound(s, Answers) /\ Open(s, f)
  BY <1>1, <1>2, <1>4, TakenOK DEF SameConnections, Open
<1>6. k'.watch[f].ev = "out"
  BY <1>3, <1>5, WaitsFor
<1>7. PICK st : st = [mem.status EXCEPT ![f] = "data"]
  OBVIOUS
<1>8. PICK bf : bf = [mem.buf EXCEPT ![f] = r]
  OBVIOUS
<1>9. mem' = [status |-> st, buf |-> bf, begun |-> begun]
  <2>1. mem' = [mem EXCEPT !.status[f] = "data", !.buf[f] = r, !.begun = begun]
    BY Zenon DEF ToSend
  <2>2. mem' = [mem EXCEPT !.status = st, !.buf = bf, !.begun = begun]
    BY <1>1, <1>7, <1>8, <2>1
  <2>. QED  BY <1>1, <2>2
<1>10. PICK q : q = SubSeq(k.inq[k.desc[f]], n + 1, Len(k.inq[k.desc[f]]))
  OBVIOUS
<1>11. r.last = k.sent[k.desc[f]] - Len(q)
  BY <1>10, TalkUnread
<1>12. TalkOK("data", "out", r, k.out[k.desc[f]], k.ended[k.desc[f]], k.sent[k.desc[f]], q)
  BY <1>11, Zenon DEF TalkOK
<1>13. TakenTo(k, f, n, k')
  BY Zenon DEF ToSend, TakenTo
<1>. QED  BY <1>4, <1>6, <1>7, <1>8, <1>9, <1>10, <1>12, <1>13, TalkTaken

\* handshark greets a client once, with nothing sent before.
LEMMA TalkShake ==
    ASSUME Conversation, NEW f \in Fds, f \in ready, ready' = ready \ {f}, Result(k, f) = "data",
           NEW n \in 0..Len(Unread(f)), NEW begun \in SUBSET Fds,
           k.watch[f].ev = "in", mem.status[f] = "shake", Handshark(f, n, begun)
    PROVE  Conversation'
<1>1. /\ Sound(k, Answers) /\ Open(k, f) /\ k.desc[f] \in Clients
      /\ mem.status \in [Fds -> {"shake", "data"}] /\ mem.buf \in [Fds -> Answers \cup {Nobody}]
      /\ mem = [status |-> mem.status, buf |-> mem.buf, begun |-> mem.begun]
      /\ Talking(f)
  BY TalkFacts
<1>2. k.out[k.desc[f]] = <<>>
  BY <1>1 DEF Talking, TalkOK
<1>3. CASE Discard(f, n, begun)
  <2>1. PICK s : s = Taken(k, f, n)
    OBVIOUS
  <2>2. PICK late : k' = Stir(s, late)
    BY <1>3, <2>1 DEF Discard
  <2>3. n \in 0..Len(k.inq[k.desc[f]])
    BY DEF Unread
  <2>4. Sound(s, Answers) /\ s.watch = k.watch
    BY <1>1, <2>1, <2>3, TakenOK
  <2>5. k'.watch[f].ev = "in"
    BY <2>2, <2>4, StirOK, FdFacts
  <2>6. PICK r \in Answers \cup {Nobody} : r = mem.buf[f]
    BY <1>1
  <2>7. PICK st : st = [mem.status EXCEPT ![f] = "shake"]
    OBVIOUS
  <2>8. PICK bf : bf = [mem.buf EXCEPT ![f] = r]
    OBVIOUS
  <2>9. st = mem.status /\ bf = mem.buf
    BY <1>1, <2>6, <2>7, <2>8
  <2>10. mem' = [status |-> st, buf |-> bf, begun |-> begun]
    <3>1. mem' = [mem EXCEPT !.begun = begun]
      BY <1>3 DEF Discard
    <3>. QED  BY <1>1, <2>9, <3>1
  <2>11. PICK q : q = SubSeq(k.inq[k.desc[f]], n + 1, Len(k.inq[k.desc[f]]))
    OBVIOUS
  <2>12. TalkOK("shake", "in", r, k.out[k.desc[f]], k.ended[k.desc[f]], k.sent[k.desc[f]], q)
    BY <1>2 DEF TalkOK
  <2>13. TakenTo(k, f, n, k')
    BY <2>1, <2>2, Zenon DEF TakenTo
  <2>. QED  BY <2>3, <2>5, <2>7, <2>8, <2>10, <2>11, <2>12, <2>13, TalkTaken
<1>4. CASE ToSend(f, n, begun, [kind |-> "101", msg |-> FirstOf(f), last |-> LastOf(f, n)])
  <2>1. PICK m \in Nat, l \in Int : m = FirstOf(f) /\ l = LastOf(f, n)
    BY TalkUnread
  <2>2. PICK r : r = [kind |-> "101", msg |-> m, last |-> l]
    OBVIOUS
  <2>3. r \in Answers /\ r.last = l /\ r.kind = "101"
    BY <2>2 DEF Answers
  <2>4. ToSend(f, n, begun, r)
    BY <1>4, <2>1, <2>2, Zenon
  <2>5. GoesNext(r, k.out[k.desc[f]])
    BY <1>2, <2>3 DEF GoesNext
  <2>. QED  BY <2>1, <2>3, <2>4, <2>5, TalkToSend
<1>. QED  BY <1>3, <1>4 DEF Handshark

\* The answer to a frame: one of Answers, which the client can read.
LEMMA FrameAnswer ==
    ASSUME NEW p \in Payloads, NEW mask \in Masks, NEW m \in Nat, NEW l \in Int,
           NEW fr, fr = FrameBack[p][mask]
    PROVE  \E r \in Answers :
              /\ r = [kind |-> "frame", msg |-> m, last |-> l, payload |-> p, frame |-> fr]
              /\ r.msg = m /\ r.last = l /\ r.kind = "frame" /\ ReadBack(r)
<1>1. PICK r : r = [kind |-> "frame", msg |-> m, last |-> l, payload |-> p, frame |-> fr]
  BY Zenon
<1>2. r.kind = "frame" /\ r.msg = m /\ r.last = l /\ r.payload = p /\ r.frame = fr
  BY <1>1
<1>3. r \in Answers
  <2>1. fr \in {FrameBack[q][x] : q \in Payloads, x \in Masks}
    OBVIOUS
  <2>. QED  BY <1>1, <2>1 DEF Answers
<1>4. Len(p) < 126 => ClientReads(fr) = p
  BY FrameReadBack
<1>5. ReadBack(r)
  BY <1>2, <1>4 DEF ReadBack
<1>. QED  BY <1>1, <1>2, <1>3, <1>5, Zenon

\* The answer to what is not a whole frame.
LEMMA GarbledAnswer ==
    ASSUME NEW m \in Nat, NEW l \in Int
    PROVE  \E r \in Answers :
              /\ r = [kind |-> "garbled", msg |-> m, last |-> l]
              /\ r.msg = m /\ r.last = l /\ r.kind = "garbled"
<1>1. PICK r : r = [kind |-> "garbled", msg |-> m, last |-> l]
  BY Zenon
<1>2. r.kind = "garbled" /\ r.msg = m /\ r.last = l
  BY <1>1
<1>3. r \in Answers
  BY <1>1 DEF Answers
<1>. QED  BY <1>1, <1>2, <1>3, Zenon

\* transform answers the recv behind the last one that was answered.
LEMMA TalkTransform ==
    ASSUME Conversation, NEW f \in Fds, f \in ready, ready' = ready \ {f}, Result(k, f) = "data",
           NEW n \in 0..Len(Unread(f)), NEW begun \in SUBSET Fds,
           k.watch[f].ev = "in", mem.status[f] = "data", Transform(f, n, begun)
    PROVE  Conversation'
<1>1. k.desc[f] \in Clients /\ Talking(f)
  BY TalkFacts
<1>2. k.inq[k.desc[f]] # <<>>
  BY ResultFacts
<1>3. PICK out : out = k.out[k.desc[f]]
  OBVIOUS
<1>4. out # <<>> /\ out[Len(out)].last = k.sent[k.desc[f]] - Len(k.inq[k.desc[f]])
  BY <1>1, <1>2, <1>3 DEF Talking, TalkOK
<1>5. PICK m \in Nat, l \in Int : m = FirstOf(f) /\ l = LastOf(f, n)
  BY TalkUnread
<1>6. m = out[Len(out)].last + 1
  BY <1>4, <1>5, TalkUnread
<1>7. CASE n > 0 /\ f \notin mem.begun
  <2>1. PICK p \in Payloads, mask \in Masks :
           ToSend(f, n, begun, [kind |-> "frame", msg |-> FirstOf(f), last |-> LastOf(f, n),
                                payload |-> p, frame |-> FrameBack[p][mask]])
    BY <1>7, Zenon DEF Transform
  <2>2. PICK fr : fr = FrameBack[p][mask]
    BY Zenon
  <2>3. PICK r \in Answers :
           /\ r = [kind |-> "frame", msg |-> m, last |-> l, payload |-> p, frame |-> fr]
           /\ r.msg = m /\ r.last = l /\ r.kind = "frame" /\ ReadBack(r)
    <3>1. p \in Payloads /\ mask \in Masks /\ m \in Nat /\ l \in Int
      BY <1>5, <2>1, Zenon
    <3>. QED  BY <2>2, <3>1, FrameAnswer
  <2>4. ToSend(f, n, begun, r)
    BY <1>5, <2>1, <2>2, <2>3, Zenon
  <2>5. GoesNext(r, out)
    BY <1>4, <1>6, <2>3 DEF GoesNext
  <2>. QED  BY <1>3, <1>5, <2>3, <2>4, <2>5, TalkToSend
<1>8. CASE ~(n > 0 /\ f \notin mem.begun)
  <2>1. ToSend(f, n, begun, [kind |-> "garbled", msg |-> FirstOf(f), last |-> LastOf(f, n)])
    BY <1>8, Zenon DEF Transform
  <2>2. PICK r \in Answers : /\ r = [kind |-> "garbled", msg |-> m, last |-> l]
                             /\ r.msg = m /\ r.last = l /\ r.kind = "garbled"
    BY <1>5, GarbledAnswer
  <2>3. ToSend(f, n, begun, r)
    BY <1>5, <2>1, <2>2, Zenon
  <2>4. GoesNext(r, out)
    BY <1>4, <1>6, <2>2 DEF GoesNext
  <2>. QED  BY <1>3, <1>5, <2>2, <2>3, <2>4, TalkToSend
<1>. QED  BY <1>7, <1>8

\* send_cb: the answer goes out, and the connection waits for input again.
LEMMA TalkSend ==
    ASSUME Conversation, NEW f \in Fds, ItemSend(f)
    PROVE  Conversation'
<1>1. /\ f \in ready /\ ready' = ready \ {f} /\ k.watch[f].ev = "out"
      /\ mem' = [mem EXCEPT !.buf[f] = Nobody]
  BY DEF ItemSend, Take
<1>2. /\ Sound(k, Answers) /\ Open(k, f) /\ k.desc[f] \in Clients /\ k.desc[f] \in k.came
      /\ \A i \in 1..Len(k.backlog) : k.backlog[i] # k.desc[f]
      /\ k.out \in [Clients -> Seq(Answers)] /\ k.backlog \in Seq(Clients)
      /\ Talking(f)
      /\ ready \ {f} \subseteq Watched
      /\ mem.status \in [Fds -> {"shake", "data"}] /\ mem.buf \in [Fds -> Answers \cup {Nobody}]
      /\ mem.begun \in SUBSET Fds
      /\ mem = [status |-> mem.status, buf |-> mem.buf, begun |-> mem.begun]
      /\ Listener \in ready => k.backlog # <<>>
      /\ \A g \in ready \cap Fds : Open(k, g)
      /\ \A d \in Clients : InOK(k.sent[d], k.inq[d]) /\ OutOK(k.out[d])
      /\ \A d \in Clients \ k.came : k.out[d] = <<>>
      /\ \A i \in 1..Len(k.backlog) : k.out[k.backlog[i]] = <<>>
  BY <1>1, TalkFacts
<1>3. PICK c \in Clients : c = k.desc[f]
  BY <1>2
<1>4. PICK r : r = mem.buf[f]
  OBVIOUS
<1>5. TalkOK(mem.status[f], "out", r, k.out[c], k.ended[c], k.sent[c], k.inq[c])
  BY <1>1, <1>2, <1>3, <1>4 DEF Talking
<1>6. r \in Answers /\ GoesNext(r, k.out[c]) /\ mem.status[f] = "data"
  BY <1>2, <1>5 DEF TalkOK
<1>7. PICK s : s = Write(k, f, r)
  OBVIOUS
<1>8. /\ Sound(s, Answers) /\ SameConnections(k, s)
      /\ s.watch = k.watch /\ s.sent = k.sent /\ s.inq = k.inq /\ s.ended = k.ended
      /\ s.out[c] = Append(k.out[c], r)
      /\ \A d \in Clients \ {c} : s.out[d] = k.out[d]
  <2>1. Sound(k, Answers) /\ Open(k, f) /\ r \in Answers
    BY <1>2, <1>6
  <2>. QED  BY <1>3, <1>7, <2>1, WriteOK
<1>9. Open(s, f)
  BY <1>2, <1>8 DEF SameConnections, Open
<1>10. PICK et \in BOOLEAN : k' = Watch(s, f, "in", et)
  BY <1>4, <1>7, Zenon DEF ItemSend
<1>11. /\ Sound(k', Answers) /\ SameConnections(s, k') /\ SameStreams(s, k')
       /\ k'.watch[f].ev = "in" /\ \A g \in Watched \ {f} : k'.watch[g] = s.watch[g]
  BY <1>8, <1>9, <1>10, WaitsFor
<1>12. /\ k'.desc = k.desc /\ k'.backlog = k.backlog /\ k'.came = k.came
       /\ k'.sent = k.sent /\ k'.inq = k.inq /\ k'.ended = k.ended
       /\ k'.out[c] = Append(k.out[c], r) /\ \A d \in Clients \ {c} : k'.out[d] = k.out[d]
       /\ \A g \in Fds \ {f} : k'.watch[g] = k.watch[g]
  BY <1>8, <1>11, FdFacts DEF SameConnections, SameStreams
<1>13. \A g : Open(k', g) <=> Open(k, g)
  BY <1>12 DEF Open
<1>14. PICK nb \in Answers \cup {Nobody} : nb = Nobody
  OBVIOUS
<1>15. PICK bf \in [Fds -> Answers \cup {Nobody}] : bf = [mem.buf EXCEPT ![f] = nb]
  BY <1>2
<1>16. \A g \in Fds \ {f} : bf[g] = mem.buf[g]
  BY <1>2, <1>15
<1>17. mem' = [status |-> mem.status, buf |-> bf, begun |-> mem.begun]
  <2>1. mem' = [mem EXCEPT !.buf = bf]
    BY <1>1, <1>2, <1>14, <1>15
  <2>. QED  BY <1>2, <2>1
<1>18. PICK a : a = Append(k.out[c], r)
  OBVIOUS
<1>19. OutOK(a) /\ a # <<>> /\ a[Len(a)] = r
  <2>1. k.out[c] \in Seq(Answers)
    BY <1>2
  <2>2. Len(a) = Len(k.out[c]) + 1 /\ a # <<>> /\ a[Len(k.out[c]) + 1] = r
    BY <1>6, <1>18, <2>1, AppendFacts
  <2>. QED  BY <1>2, <1>6, <1>18, <2>1, <2>2, OutNext
<1>20. \A d \in Clients : InOK(k'.sent[d], k'.inq[d]) /\ OutOK(k'.out[d])
  BY <1>2, <1>12, <1>18, <1>19
<1>21. TalkOK("data", "in", nb, a, k.ended[c], k.sent[c], k.inq[c])
  BY <1>5, <1>6, <1>19 DEF TalkOK
<1>22. TalkOK(mem.status[f], k'.watch[f].ev, bf[f], k'.out[k'.desc[f]],
              k'.ended[k'.desc[f]], k'.sent[k'.desc[f]], k'.inq[k'.desc[f]])
  <2>1. bf[f] = nb
    BY <1>2, <1>15
  <2>. QED  BY <1>3, <1>6, <1>11, <1>12, <1>18, <1>21, <2>1
<1>23. ASSUME NEW g \in Fds \ {f}, Open(k', g)
       PROVE  /\ Open(k, g) /\ k'.desc[g] = k.desc[g] /\ k'.watch[g].ev = k.watch[g].ev
              /\ bf[g] = mem.buf[g]
              /\ k'.out[k.desc[g]] = k.out[k.desc[g]] /\ k'.ended[k.desc[g]] = k.ended[k.desc[g]]
              /\ k'.sent[k.desc[g]] = k.sent[k.desc[g]] /\ k'.inq[k.desc[g]] = k.inq[k.desc[g]]
  <2>1. Open(k, g)
    BY <1>13, <1>23
  <2>2. k.desc[g] \in Clients /\ k.desc[g] # c
    BY <1>2, <1>3, <2>1, OthersClients
  <2>. QED  BY <1>12, <1>16, <2>1, <2>2
<1>24. /\ \A d \in Clients \ k'.came : k'.out[d] = <<>>
       /\ \A i \in 1..Len(k'.backlog) : k'.out[k'.backlog[i]] = <<>>
  <2>1. ASSUME NEW d \in Clients \ k.came PROVE k'.out[d] = <<>>
    BY <1>2, <1>3, <1>12, <2>1
  <2>2. ASSUME NEW i \in 1..Len(k.backlog) PROVE k'.out[k.backlog[i]] = <<>>
    <3>1. k.backlog[i] \in Clients \ {c} /\ k.out[k.backlog[i]] = <<>>
      BY <1>2, <1>3, <2>2
    <3>. QED  BY <1>12, <3>1
  <2>. QED  BY <1>12, <2>1, <2>2
<1>25. /\ Listener \in ready' => k'.backlog # <<>>
       /\ \A g \in ready' \cap Fds : Open(k', g)
       /\ ready' \subseteq Watched
  BY <1>1, <1>2, <1>12, <1>13
<1>26. PICK st \in [Fds -> {"shake", "data"}] : st = mem.status
  BY <1>2
<1>27. mem'.begun \in SUBSET Fds /\ mem' = [status |-> st, buf |-> bf, begun |-> mem'.begun]
  BY <1>2, <1>17, <1>26
<1>28. TalkOK(st[f], k'.watch[f].ev, bf[f], k'.out[k'.desc[f]],
              k'.ended[k'.desc[f]], k'.sent[k'.desc[f]], k'.inq[k'.desc[f]])
  BY <1>22, <1>26, Zenon
<1>29. \A g \in Fds : st[g] = mem.status[g]
  BY <1>26, Zenon
<1>30. InStep(st, bf, f)
  BY <1>11, <1>20, <1>23, <1>24, <1>25, <1>27, <1>28, <1>29 DEF InStep
<1>. QED  BY <1>15, <1>26, <1>30, TalkStep

\* recv_cb
LEMMA TalkRecv ==
    ASSUME Conversation, NEW f \in Fds, WebSocketRecv(f)
    PROVE  Conversation'
<1>1. f \in ready /\ ready' = ready \ {f} /\ k.watch[f].ev = "in"
  BY DEF WebSocketRecv, Take
<1>2. CASE k' = k /\ mem' = mem
  <2>1. \A g \in Fds : Open(k, g) => Talking(g)'
    BY <1>2 DEF Conversation, Talking
  <2>. QED  BY <1>1, <1>2, <2>1 DEF Conversation
<1>3. CASE k' = Close(k, f) /\ mem' = mem
  BY <1>1, <1>3, TalkClose
<1>4. ASSUME Result(k, f) = "data", NEW n \in 0..Len(Unread(f)), NEW begun \in SUBSET Fds,
             \/ mem.status[f] = "shake" /\ Handshark(f, n, begun)
             \/ mem.status[f] = "data" /\ Transform(f, n, begun)
      PROVE  Conversation'
  BY <1>1, <1>4, TalkShake, TalkTransform
<1>. QED  BY <1>2, <1>3, <1>4 DEF WebSocketRecv

\* Every step of clients and servers keeps the invariant.
LEMMA WebSocketStepsInv == WebSocketInv /\ [ClientStep \/ WebSocketStep]_vars => WebSocketInv'
<1> SUFFICES ASSUME WebSocketInv, [ClientStep \/ WebSocketStep]_vars, prog' = "websocket"
             PROVE  WebSocketInv'
  BY DEF WebSocketInv
<1>1. prog = "websocket"
  <2>1. ASSUME NEW c \in Clients, ClientMove(c) PROVE prog' = prog
    BY <2>1 DEF ClientMove, ClientConnect, ClientSend, ClientClose, ClientReset
  <2>2. CASE ClientStep
    BY <2>1, <2>2 DEF ClientStep
  <2>3. CASE WebSocketStep
    BY <2>3 DEF WebSocketStep, WebSocketWait, WebSocketAccept, WebSocketppWait,
                WebSocketppAccept, WebSocketRecv, WebSocketSend, WebSocketppRecv,
                WebSocketppSend, EpollWait, Wait, ItemAccept, ItemSend
  <2>4. CASE UNCHANGED vars
    BY <2>4 DEF vars
  <2>. QED  BY <2>2, <2>3, <2>4
<1>2. Conversation
  BY <1>1, ConversationIs
<1>3. Conversation'
  <2>1. CASE ClientStep
    BY <1>2, <2>1, TalkClient DEF ClientStep
  <2>2. CASE WebSocketWait
    BY <1>2, <2>2, TalkWait DEF WebSocketWait
  <2>3. CASE WebSocketAccept
    BY <1>2, <2>3, TalkAccept DEF WebSocketAccept
  <2>4. ASSUME NEW f \in Fds, WebSocketRecv(f) PROVE Conversation'
    BY <1>2, <2>4, TalkRecv
  <2>5. ASSUME NEW f \in Fds, WebSocketSend(f) PROVE Conversation'
    BY <1>2, <2>5, TalkSend DEF WebSocketSend
  <2>6. CASE UNCHANGED vars
    BY <1>2, <2>6 DEF vars, Conversation, Talking
  <2>. QED  BY <1>1, <2>1, <2>2, <2>3, <2>4, <2>5, <2>6
            DEF WebSocketStep, WebSocketppWait, WebSocketppAccept, WebSocketppRecv, WebSocketppSend
<1>. QED  BY <1>3, ConversationNext

\* The answer in sendbuffer is the next one of its client's, nothing is read while
\* one is there, and what is unread begins behind what the last answer accounts for,
\* however much of the stream a recv takes.
THEOREM WebSocketInvariant == WebSocketSpec => []WebSocketInv
<1>. QED  BY WebSocketInitInv, WebSocketStepsInv, PTL DEF WebSocketSpec

\* Clients are greeted once and then get one answer for each recv, in order; the one
\* to a whole frame is its payload.  The frames a recv takes behind the first are
\* lost, and a frame that is cut is garbled.
THEOREM FramesInOrderHolds == WebSocketSpec => []FramesInOrder
<1>1. WebSocketInv => FramesInOrder
  BY DEF WebSocketInv, FramesInOrder
<1>. QED  BY <1>1, WebSocketInvariant, PTL
=============================================================================
