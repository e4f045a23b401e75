--------------------------- MODULE PeerAnswersProofs ---------------------------
(***************************************************************************)
(* A theorem about PeerNetwork, for any number of hosts, processes and     *)
(* requests: a request between two processes that stay, and stay in touch, *)
(* is answered.                                                            *)
(*                                                                         *)
(* As long as a request is not answered there is a place where it is, or   *)
(* its answer is, and from where it goes on: a queue of the two processes, *)
(* or a connection between them.  For that, connections of two that stay   *)
(* in touch must be watched at both ends (Linked) and stand in the slots   *)
(* of the two (RightSlots), and what a process has to answer must lead     *)
(* back to the asker (TasksReach).                                         *)
(***************************************************************************)
EXTENDS PeerNetworkProofs

-----------------------------------------------------------------------------
(* Two processes that run, and were never cut off from each other.         *)
Together(a, d, st, c) ==
  a \in DOMAIN st /\ d \in DOMAIN st /\ st[a] = "up" /\ st[d] = "up" /\ {a, d} \notin c

(* Who is together was before. *)
Calm(st, c, su, cu) ==
  c \subseteq cu /\ \A a \in DOMAIN st : su[a] = "up" => st[a] = "up"

LEMMA WasTogether ==
  ASSUME NEW st, NEW c, NEW su, NEW cu, Calm(st, c, su, cu), NEW a \in DOMAIN st, NEW d \in DOMAIN st,
         Together(a, d, su, cu)
  PROVE  Together(a, d, st, c)
BY DEF Together, Calm

(* Socket s is in table t or backlog q. *)
Hung(t, q, s) == (\E k \in Used(t) : t.slots[k].sock = s) \/ \E n \in 1 .. Len(q) : q[n] = s

Linked(P, A, S, st, c) ==
  \A s \in 1 .. Len(S) :
    Together(S[s].of, S[Mate(s)].of, st, c) => Hung(P[S[s].of].peers, A[S[s].of], s)
RightSlots(P, S, st, c) ==
  \A i \in Processes : \A k \in Used(P[i].peers) :
    LET e == P[i].peers.slots[k] IN
    e.sock # -1 /\ Together(i, e.id, st, c) => S[Mate(e.sock)].of = e.id

(* Table t has a connection to process o in the slot of peer p. *)
Reaches(t, p, o, S) ==
  \E k \in Used(t) : t.slots[k].id = p /\ t.slots[k].sock # -1 /\ S[Mate(t.slots[k].sock)].of = o
Tasks == {"todo", "answers"}
TasksReach(P, S, st, c) ==
  \A d \in Processes : \A k \in Tasks : \A n \in 1 .. Len(Queue(P[d], k)) :
    LET m == Queue(P[d], k)[n] IN
    Together(d, m.origin, st, c) => Reaches(P[d].peers, m.peer, m.origin, S)

(* Tables and backlogs, with the sockets they hold. *)
World(P, A, S, h) ==
  /\ Full(P) /\ SocksOK(S, h) /\ DOMAIN h \subseteq Processes
  /\ \A j \in Processes : A[j] \in Seq(Nat) /\ Plugged(P[j].peers, A[j], j, S, h)

(* A step of process i that gives up the sockets of X: it loses no others  *)
(* from its table, nobody one from a backlog, and what is new is in its    *)
(* place.                                                                  *)
Lost(X, S, c) == \A s \in X : s \in 1 .. Len(S) /\ {S[s].of, S[Mate(s)].of} \in c
SameEntry(t, k, u, l) == t.slots[k].id = u.slots[l].id /\ t.slots[k].sock = u.slots[l].sock
Wires(i, X, P, A, S, Q, B, R, su, cu) ==
  /\ SocksGrow(S, R) /\ Lost(X, S, cu)
  /\ \A j \in Processes : j # i => Q[j] = P[j]
  /\ \A k \in Used(P[i].peers) :
       \/ P[i].peers.slots[k].sock \in X \cup {-1}
       \/ \E l \in Used(Q[i].peers) : SameEntry(P[i].peers, k, Q[i].peers, l)
  /\ \A l \in Used(Q[i].peers) : LET e == Q[i].peers.slots[l] IN
       \/ e.sock = -1
       \/ \E k \in Used(P[i].peers) : SameEntry(P[i].peers, k, Q[i].peers, l)
       \/ Together(i, e.id, su, cu) => R[Mate(e.sock)].of = e.id
  /\ \A j \in Processes : \A n \in 1 .. Len(A[j]) :
       A[j][n] \in X \/ Hung(Q[j].peers, B[j], A[j][n])
  /\ \A s \in 1 .. Len(R) : s > Len(S) => Hung(Q[R[s].of].peers, B[R[s].of], s)

LEMMA SocketsStay ==
  ASSUME NEW S, NEW h, SocksOK(S, h), NEW R, SocksGrow(S, R), NEW s \in 1 .. Len(S)
  PROVE  /\ Mate(s) \in 1 .. Len(S) /\ Mate(Mate(s)) = s /\ s \in 1 .. Len(R)
         /\ S[s].of \in DOMAIN h /\ S[Mate(s)].of \in DOMAIN h
         /\ R[s].of = S[s].of /\ R[Mate(s)].of = S[Mate(s)].of
<1>1. S \in Seq(SocketSet) /\ R \in Seq(SocketSet) /\ Len(S) % 2 = 0 /\ Len(S) <= Len(R)
  BY DEF SocksOK, SocksGrow
<1>2. Len(S) \in Nat /\ Len(R) \in Nat
  BY <1>1, SocketIs
<1>3. Mate(s) \in 1 .. Len(S) /\ Mate(Mate(s)) = s
  BY <1>1, MateIs
<1> QED
  BY <1>1, <1>2, <1>3 DEF SocksOK, SocksGrow

LEMMA LinkedStep ==
  ASSUME NEW i \in Processes, NEW X, NEW P, NEW A, NEW S, NEW h, NEW st, NEW c, NEW Q, NEW B, NEW R, NEW su, NEW cu,
         World(P, A, S, h), DOMAIN st = DOMAIN h, Calm(st, c, su, cu),
         Wires(i, X, P, A, S, Q, B, R, su, cu), Linked(P, A, S, st, c)
  PROVE  Linked(Q, B, R, su, cu)
<1> SUFFICES ASSUME NEW s \in 1 .. Len(R), Together(R[s].of, R[Mate(s)].of, su, cu)
             PROVE  Hung(Q[R[s].of].peers, B[R[s].of], s)
  BY DEF Linked
<1>1. CASE s > Len(S)
  BY <1>1 DEF Wires
<1>2. CASE s \in 1 .. Len(S)
  <2> DEFINE a == S[s].of
             d == S[Mate(s)].of
  <2>1. R[s].of = a /\ R[Mate(s)].of = d /\ a \in DOMAIN st /\ d \in DOMAIN st /\ a \in Processes
    BY <1>2, SocketsStay DEF World, Wires
  <2> HIDE DEF a, d
  <2>2. Together(a, d, su, cu)
    BY <2>1
  <2>3. Together(a, d, st, c)
    BY <2>1, <2>2, WasTogether
  <2>4. Hung(P[a].peers, A[a], s)
    BY <1>2, <2>3 DEF Linked, a, d
  <2>5. s \notin X
    BY <2>2 DEF Wires, Lost, Together, a, d
  <2>6. ASSUME NEW k \in Used(P[a].peers), P[a].peers.slots[k].sock = s
        PROVE  Hung(Q[a].peers, B[a], s)
    <3>1. CASE a # i
      BY <2>1, <2>6, <3>1 DEF Wires, Hung
    <3>2. CASE a = i
      <4>1. s # -1
        BY <1>2
      <4>2. PICK l \in Used(Q[i].peers) : SameEntry(P[i].peers, k, Q[i].peers, l)
        BY <2>5, <2>6, <3>2, <4>1 DEF Wires
      <4> QED
        BY <2>6, <3>2, <4>2 DEF SameEntry, Hung
    <3> QED
      BY <3>1, <3>2
  <2>7. ASSUME NEW n \in 1 .. Len(A[a]), A[a][n] = s
        PROVE  Hung(Q[a].peers, B[a], s)
    BY <2>1, <2>5, <2>7 DEF Wires
  <2> QED
    BY <2>1, <2>4, <2>6, <2>7 DEF Hung
<1>3. Len(S) \in Nat /\ Len(R) \in Nat
  BY SocketIs DEF World, SocksOK, Wires, SocksGrow
<1> QED
  BY <1>1, <1>2, <1>3

(* A connection in a table leads where it led. *)
LEMMA EntrySocket ==
  ASSUME NEW P, NEW A, NEW S, NEW h, World(P, A, S, h), NEW i \in Processes, NEW k \in Used(P[i].peers),
         P[i].peers.slots[k].sock # -1, NEW R, SocksGrow(S, R)
  PROVE  LET s == P[i].peers.slots[k].sock IN
         /\ s \in 1 .. Len(S) /\ S[s].of = i /\ S[Mate(s)].of \in DOMAIN h
         /\ R[Mate(s)].of = S[Mate(s)].of
<1> DEFINE s == P[i].peers.slots[k].sock
<1>1. s \in 1 .. Len(S) /\ S[s].of = i
  BY DEF World, Plugged, Own
<1> HIDE DEF s
<1>2. S[Mate(s)].of \in DOMAIN h /\ R[Mate(s)].of = S[Mate(s)].of
  BY <1>1, SocketsStay DEF World
<1> QED
  BY <1>1, <1>2 DEF s

LEMMA RightStep ==
  ASSUME NEW i \in Processes, NEW X, NEW P, NEW A, NEW S, NEW h, NEW st, NEW c, NEW Q, NEW B, NEW R, NEW su, NEW cu,
         World(P, A, S, h), DOMAIN st = DOMAIN h, Calm(st, c, su, cu),
         Wires(i, X, P, A, S, Q, B, R, su, cu), RightSlots(P, S, st, c),
         \A j \in Processes \ DOMAIN h : Used(P[j].peers) = {},
         \A j \in Processes : Named(P[j].peers, h)
  PROVE  RightSlots(Q, R, su, cu)
<1> SUFFICES ASSUME NEW j \in Processes, NEW l \in Used(Q[j].peers), Q[j].peers.slots[l].sock # -1,
                    Together(j, Q[j].peers.slots[l].id, su, cu)
             PROVE  R[Mate(Q[j].peers.slots[l].sock)].of = Q[j].peers.slots[l].id
  BY DEF RightSlots
<1>1. ASSUME NEW k \in Used(P[j].peers), SameEntry(P[j].peers, k, Q[j].peers, l)
      PROVE  R[Mate(Q[j].peers.slots[l].sock)].of = Q[j].peers.slots[l].id
  <2> DEFINE e == P[j].peers.slots[k]
  <2>1. e.sock # -1 /\ Together(j, e.id, su, cu) /\ e.id \in DOMAIN st /\ j \in DOMAIN st
    BY <1>1 DEF SameEntry, Named
  <2>2. Together(j, e.id, st, c)
    <3> HIDE DEF e
    <3> QED
      BY <2>1, WasTogether
  <2>3. S[Mate(e.sock)].of = e.id
    BY <2>1, <2>2 DEF RightSlots
  <2>4. R[Mate(e.sock)].of = S[Mate(e.sock)].of
    <3>1. World(P, A, S, h) /\ SocksGrow(S, R) /\ P[j].peers.slots[k].sock # -1 /\ k \in Used(P[j].peers)
      BY <2>1 DEF Wires
    <3> HIDE DEF e
    <3> QED
      BY ONLY <3>1, EntrySocket, j \in Processes DEF e
  <2> QED
    BY <1>1, <2>3, <2>4 DEF SameEntry
<1>2. CASE j # i
  <2>1. Q[j] = P[j]
    BY <1>2 DEF Wires
  <2>2. l \in Used(P[j].peers) /\ SameEntry(P[j].peers, l, Q[j].peers, l)
    BY <2>1 DEF SameEntry
  <2> QED
    BY <1>1, <2>2
<1>3. CASE j = i
  <2>1. \/ \E k \in Used(P[i].peers) : SameEntry(P[i].peers, k, Q[i].peers, l)
        \/ Together(i, Q[i].peers.slots[l].id, su, cu) => R[Mate(Q[i].peers.slots[l].sock)].of = Q[i].peers.slots[l].id
    BY <1>3 DEF Wires
  <2> QED
    BY <1>1, <1>3, <2>1
<1> QED
  BY <1>2, <1>3

LEMMA ReachesStill ==
  ASSUME NEW i \in Processes, NEW X, NEW P, NEW A, NEW S, NEW h, NEW Q, NEW B, NEW R, NEW su, NEW cu,
         World(P, A, S, h), Wires(i, X, P, A, S, Q, B, R, su, cu),
         NEW d \in Processes, NEW p, NEW o, Reaches(P[d].peers, p, o, S), Together(d, o, su, cu)
  PROVE  Reaches(Q[d].peers, p, o, R)
<1>1. PICK k \in Used(P[d].peers) :
         LET e == P[d].peers.slots[k] IN e.id = p /\ e.sock # -1 /\ S[Mate(e.sock)].of = o
  BY DEF Reaches
<1> DEFINE s == P[d].peers.slots[k].sock
<1>2. s \in 1 .. Len(S) /\ S[s].of = d /\ R[Mate(s)].of = o
  BY <1>1, EntrySocket DEF Wires
<1>3. s \notin X
  BY <1>1, <1>2 DEF Wires, Lost, Together
<1>4. PICK l \in Used(Q[d].peers) : SameEntry(P[d].peers, k, Q[d].peers, l)
  <2>1. CASE d = i
    BY <1>1, <1>3, <2>1 DEF Wires
  <2>2. CASE d # i
    <3>1. Q[d] = P[d]
      BY <2>2 DEF Wires
    <3> QED
      BY <3>1 DEF SameEntry
  <2> QED
    BY <2>1, <2>2
<1> QED
  BY <1>1, <1>2, <1>4 DEF Reaches, SameEntry

-----------------------------------------------------------------------------
(***************************************************************************)
(* Messages on their way                                                   *)
(***************************************************************************)
(* A request of process a to d, or its answer, m, is at place p, and goes  *)
(* on from there.                                                          *)
AtHome(p, m, a, d, S) ==
  /\ m.origin = a
  /\ p[1] = "asks" => p[2] = a /\ m.peer = d
  /\ p[1] \in Tasks => p[2] = d
  /\ p[1] = "got" => p[2] = a
  /\ p[1] = "in" /\ m.type = "ask" => S[p[2]].of = d /\ S[Mate(p[2])].of = a
  /\ p[1] = "in" /\ m.type = "answer" => S[p[2]].of = a /\ S[Mate(p[2])].of = d
Held(P, S, a, d, j) ==
  LET F == LinesOf(P, S) IN
  \E p \in Places : \E n \in 1 .. Len(F[p]) :
    F[p][n] \in Messages /\ F[p][n].job = j /\ AtHome(p, F[p][n], a, d, S)
Kept(P, S, st, c) ==
  \A a \in Processes : \A j \in 1 .. Len(P[a].asked) :
    Together(a, P[a].asked[j], st, c) => Held(P, S, a, P[a].asked[j], j)

(* Requests come from the other end of the connection. *)
Signs(m, s, S) == m.type = "ask" => m.origin = S[Mate(s)].of
Signed(S) == \A s \in 1 .. Len(S) : \A n \in 1 .. Len(S[s].in) : Signs(S[s].in[n], s, S)

(* Every message of line q is in r. *)
Within(q, r) == \A n \in 1 .. Len(q) : \E l \in 1 .. Len(r) : r[l] = q[n]

LEMMA WithinIs ==
  ASSUME NEW q \in Lines
  PROVE  Within(q, q) /\ \A x : Within(q, Append(q, x))
<1>1. Len(q) \in Nat
  BY DEF Lines
<1>2. ASSUME NEW x PROVE Within(q, Append(q, x))
  <2>1. Len(Append(q, x)) = Len(q) + 1 /\ \A n \in 1 .. Len(q) : Append(q, x)[n] = q[n]
    BY DEF Lines
  <2> QED
    BY <1>1, <2>1 DEF Within
<1> QED
  BY <1>2 DEF Within

LEMMA TailHas ==
  ASSUME NEW q \in Lines, q # <<>>, NEW n \in 1 .. Len(q)
  PROVE  \/ n = 1 /\ q[n] = Head(q)
         \/ \E l \in 1 .. Len(Tail(q)) : Tail(q)[l] = q[n]
<1>1. Len(q) \in Nat \ {0} /\ Head(q) = q[1] /\ Len(Tail(q)) = Len(q) - 1
      /\ \A l \in 1 .. Len(Tail(q)) : Tail(q)[l] = q[l + 1]
  BY EmptySeq, HeadTailProperties DEF Lines
<1>2. CASE n # 1
  <2>1. n - 1 \in 1 .. Len(Tail(q)) /\ Tail(q)[n - 1] = q[n]
    BY <1>1, <1>2
  <2> QED
    BY <2>1
<1> QED
  BY <1>1, <1>2

(* Where the requests and answers of a state are in the next: in the same  *)
(* place, on a lost socket, or on from where they were.                    *)
Carries(X, P, S, Q, R, su, cu) ==
  LET F == LinesOf(P, S)
      G == LinesOf(Q, R)
  IN  \A p \in Places : \A n \in 1 .. Len(F[p]) : F[p][n] \in Messages =>
        \/ \E l \in 1 .. Len(G[p]) : G[p][l] = F[p][n]
        \/ p[1] = "in" /\ p[2] \in X
        \/ \A a, d \in Processes :
             AtHome(p, F[p][n], a, d, S) /\ Together(a, d, su, cu) => Held(Q, R, a, d, F[p][n].job)

LEMMA KeptStep ==
  ASSUME NEW P, NEW S, NEW h, NEW st, NEW c, NEW Q, NEW R, NEW su, NEW cu, NEW X,
         Full(P), Full(Q), SocksOK(S, h), SocksGrow(S, R), DOMAIN st = DOMAIN h, DOMAIN h \subseteq Processes,
         Calm(st, c, su, cu), Lost(X, S, cu), Carries(X, P, S, Q, R, su, cu), Kept(P, S, st, c),
         \A a \in Processes : \A j \in 1 .. Len(P[a].asked) : a \in DOMAIN h /\ P[a].asked[j] \in DOMAIN h,
         \A a \in Processes : \A j \in 1 .. Len(Q[a].asked) :
           \/ j \in 1 .. Len(P[a].asked) /\ Q[a].asked[j] = P[a].asked[j]
           \/ Held(Q, R, a, Q[a].asked[j], j)
  PROVE  Kept(Q, R, su, cu)
<1> SUFFICES ASSUME NEW a \in Processes, NEW j \in 1 .. Len(P[a].asked), Together(a, P[a].asked[j], su, cu)
             PROVE  Held(Q, R, a, P[a].asked[j], j)
  BY DEF Kept
<1> DEFINE F == LinesOf(P, S)
           G == LinesOf(Q, R)
           d == P[a].asked[j]
<1>1. a \in DOMAIN st /\ d \in DOMAIN st /\ d \in Processes
  OBVIOUS
<1> HIDE DEF d
<1>2. Together(a, d, su, cu)
  BY DEF d
<1>3. Together(a, d, st, c)
  BY <1>1, <1>2, WasTogether
<1>4. Held(P, S, a, d, j)
  BY <1>3 DEF Kept, d
<1>5. PICK p \in Places : \E n \in 1 .. Len(F[p]) :
           F[p][n] \in Messages /\ F[p][n].job = j /\ AtHome(p, F[p][n], a, d, S)
  BY <1>4 DEF Held
<1>6. PICK n \in 1 .. Len(F[p]) : F[p][n] \in Messages /\ F[p][n].job = j /\ AtHome(p, F[p][n], a, d, S)
  BY <1>5
<1> DEFINE m == F[p][n]
<1>7. SocksGrow(S, R) /\ S \in Seq(SocketSet) /\ R \in Seq(SocketSet)
  BY DEF SocksOK, SocksGrow
<1>8. CASE p[1] = "in" /\ p[2] \in X
  <2>1. p[2] \in 1 .. Len(S) /\ {S[p[2]].of, S[Mate(p[2])].of} \in cu
    BY <1>8 DEF Lost
  <2>2. m.type \in {"ask", "answer"}
    BY <1>6, TokenIs
  <2>3. {S[p[2]].of, S[Mate(p[2])].of} = {a, d}
    BY <1>6, <1>8, <2>2 DEF AtHome
  <2> QED
    BY <1>2, <2>1, <2>3 DEF Together
<1>9. CASE \E l \in 1 .. Len(G[p]) : G[p][l] = F[p][n]
  <2>1. AtHome(p, m, a, d, R)
    <3>1. CASE p[1] = "in"
      <4>1. p[2] \in 1 .. Len(S)
        <5>1. p[2] \in Sockets /\ p = <<"in", p[2]>>
          BY <1>5, <3>1 DEF Places, Kinds
        <5>2. F[p] = In(S, p[2])
          BY <1>7, <5>1, LinesAre
        <5> QED
          BY <5>2 DEF In
      <4>2. R[p[2]].of = S[p[2]].of /\ R[Mate(p[2])].of = S[Mate(p[2])].of
        BY <4>1, SocketsStay
      <4> QED
        BY <1>6, <3>1, <4>2 DEF AtHome, Tasks
    <3>2. CASE p[1] # "in"
      BY <1>6, <3>2 DEF AtHome
    <3> QED
      BY <3>1, <3>2
  <2> QED
    BY <1>6, <1>9, <2>1 DEF Held, d
<1>10. CASE \A b, e \in Processes :
             AtHome(p, F[p][n], b, e, S) /\ Together(b, e, su, cu) => Held(Q, R, b, e, F[p][n].job)
  BY <1>1, <1>2, <1>6, <1>10 DEF d
<1> QED
  BY <1>6, <1>8, <1>9, <1>10 DEF Carries

(* What is appended at its place is held. *)
LEMMA HeldAt ==
  ASSUME NEW P, Full(P), NEW S \in Seq(SocketSet), NEW b \in Places, NEW q \in Lines, NEW x \in Messages,
         LinesOf(P, S)[b] = Append(q, x), NEW a, NEW d, AtHome(b, x, a, d, S)
  PROVE  Held(P, S, a, d, x.job)
<1> DEFINE F == LinesOf(P, S)
<1>1. Len(q) \in Nat /\ Len(F[b]) = Len(q) + 1 /\ F[b][Len(q) + 1] = x
  BY DEF Lines
<1>2. Len(q) + 1 \in 1 .. Len(F[b])
  BY <1>1
<1> QED
  BY <1>1, <1>2 DEF Held

(* The lines after a step of process i, in which the queues of K and the   *)
(* sockets of Y may lose something, and the sockets of X everything.       *)
LEMMA PlacesWithin ==
  ASSUME NEW P, Full(P), NEW S \in Seq(SocketSet), NEW Q, Full(Q), NEW R \in Seq(SocketSet),
         NEW i \in Processes, NEW K, NEW X,
         \A j \in Processes : j # i => Q[j] = P[j],
         \A k \in Kinds \ K : Within(Queue(P[i], k), Queue(Q[i], k)),
         \A s \in Sockets \ X : Within(In(S, s), In(R, s)),
         NEW p \in Places, \A k \in K : p # <<k, i>>, \A s \in X : p # <<"in", s>>
  PROVE  Within(LinesOf(P, S)[p], LinesOf(Q, R)[p])
<1>1. CASE p \in Kinds \X Processes
  <2>1. PICK k \in Kinds, j \in Processes : p = <<k, j>>
    BY <1>1
  <2>2. LinesOf(P, S)[p] = Queue(P[j], k) /\ LinesOf(Q, R)[p] = Queue(Q[j], k) /\ LinesOf(P, S)[p] \in Lines
    BY <2>1, LinesAre
  <2>3. CASE j = i
    BY <2>1, <2>2, <2>3
  <2>4. CASE j # i
    BY <2>2, <2>4, WithinIs
  <2> QED
    BY <2>3, <2>4
<1>2. CASE p \in {"in"} \X Sockets
  <2>1. PICK s \in Sockets : p = <<"in", s>>
    BY <1>2
  <2>2. LinesOf(P, S)[p] = In(S, s) /\ LinesOf(Q, R)[p] = In(R, s)
    BY <2>1, LinesAre
  <2> QED
    BY <2>1, <2>2
<1> QED
  BY <1>1, <1>2 DEF Places

(* The line at a place of Z loses its first message, which goes on; those  *)
(* elsewhere lose nothing, but for the sockets of X.                       *)
GoesOn(p, P, S, Q, R, su, cu) ==
  LET q == LinesOf(P, S)[p] IN
  /\ q # <<>> /\ LinesOf(Q, R)[p] = Tail(q)
  /\ Head(q) \in Messages =>
       \A a, d \in Processes :
         AtHome(p, Head(q), a, d, S) /\ Together(a, d, su, cu) => Held(Q, R, a, d, Head(q).job)

LEMMA CarriesMost ==
  ASSUME NEW P, Full(P), NEW S \in Seq(SocketSet), NEW Q, NEW R, NEW su, NEW cu, NEW X, NEW Z,
         \A p \in Places \ Z : \/ Within(LinesOf(P, S)[p], LinesOf(Q, R)[p])
                               \/ p[1] = "in" /\ p[2] \in X,
         \A p \in Z : GoesOn(p, P, S, Q, R, su, cu)
  PROVE  Carries(X, P, S, Q, R, su, cu)
<1> DEFINE F == LinesOf(P, S)
           G == LinesOf(Q, R)
<1> SUFFICES ASSUME NEW p \in Places, NEW n \in 1 .. Len(F[p]), F[p][n] \in Messages
             PROVE  \/ \E l \in 1 .. Len(G[p]) : G[p][l] = F[p][n]
                    \/ p[1] = "in" /\ p[2] \in X
                    \/ \A a, d \in Processes :
                         AtHome(p, F[p][n], a, d, S) /\ Together(a, d, su, cu) => Held(Q, R, a, d, F[p][n].job)
  BY DEF Carries
<1>1. CASE p \notin Z
  BY <1>1 DEF Within
<1>2. CASE p \in Z
  <2>1. F[p] # <<>> /\ G[p] = Tail(F[p]) /\ GoesOn(p, P, S, Q, R, su, cu)
    BY <1>2 DEF GoesOn
  <2>2. F[p] \in Lines
    BY LinesAre
  <2> HIDE DEF F, G
  <2>3. \/ n = 1 /\ F[p][n] = Head(F[p])
        \/ \E l \in 1 .. Len(Tail(F[p])) : Tail(F[p])[l] = F[p][n]
    BY <2>1, <2>2, TailHas
  <2>4. CASE n = 1 /\ F[p][n] = Head(F[p])
    BY <2>1, <2>4 DEF GoesOn, F
  <2> QED
    BY <2>1, <2>3, <2>4
<1> QED
  BY <1>1, <1>2

(* What stands on a socket was there, or is signed. *)
SignsNew(S, R) ==
  \A s \in 1 .. Len(R) : \A n \in 1 .. Len(R[s].in) :
    \/ R[s].in[n] = EOF
    \/ \E l \in 1 .. Len(In(S, s)) : In(S, s)[l] = R[s].in[n]
    \/ Signs(R[s].in[n], s, R)

LEMMA SignedStep ==
  ASSUME NEW S, NEW h, SocksOK(S, h), NEW R, SocksGrow(S, R), Signed(S), SignsNew(S, R)
  PROVE  Signed(R)
<1> SUFFICES ASSUME NEW s \in 1 .. Len(R), NEW n \in 1 .. Len(R[s].in) PROVE Signs(R[s].in[n], s, R)
  BY DEF Signed
<1>1. CASE R[s].in[n] = EOF
  BY <1>1, TokenIs DEF Signs
<1>2. ASSUME NEW l \in 1 .. Len(In(S, s)), In(S, s)[l] = R[s].in[n]
      PROVE  Signs(R[s].in[n], s, R)
  <2>1. s \in 1 .. Len(S)
    <3>1. Len(<<>>) = 0
      OBVIOUS
    <3> QED
      BY <3>1 DEF In
  <2>2. In(S, s) = S[s].in
    BY <2>1 DEF In
  <2>3. Signs(R[s].in[n], s, S)
    BY <1>2, <2>1, <2>2 DEF Signed
  <2>4. R[Mate(s)].of = S[Mate(s)].of
    BY <2>1, SocketsStay
  <2> QED
    BY <2>3, <2>4 DEF Signs
<1> QED
  BY <1>1, <1>2 DEF SignsNew

(* What process i has to do, it had, or comes from where it can answer.    *)
TasksNew(i, P, Q, R, su, cu) ==
  \A k \in Tasks : \A n \in 1 .. Len(Queue(Q[i], k)) :
    LET m == Queue(Q[i], k)[n] IN
    \/ \E l \in Tasks : \E r \in 1 .. Len(Queue(P[i], l)) :
         Queue(P[i], l)[r].origin = m.origin /\ Queue(P[i], l)[r].peer = m.peer
    \/ Together(i, m.origin, su, cu) => Reaches(Q[i].peers, m.peer, m.origin, R)

LEMMA TasksStep ==
  ASSUME NEW i \in Processes, NEW X, NEW P, NEW A, NEW S, NEW h, NEW st, NEW c, NEW Q, NEW B, NEW R, NEW su, NEW cu,
         World(P, A, S, h), DOMAIN st = DOMAIN h, Calm(st, c, su, cu),
         Wires(i, X, P, A, S, Q, B, R, su, cu), TasksReach(P, S, st, c), TasksNew(i, P, Q, R, su, cu),
         \A d \in Processes : \A k \in Tasks : \A n \in 1 .. Len(Queue(P[d], k)) :
           d \in DOMAIN h /\ Queue(P[d], k)[n].origin \in DOMAIN h
  PROVE  TasksReach(Q, R, su, cu)
<1>1. ASSUME NEW d \in Processes, NEW k \in Tasks, NEW n \in 1 .. Len(Queue(P[d], k)),
             NEW o, o = Queue(P[d], k)[n].origin, NEW p, p = Queue(P[d], k)[n].peer, Together(d, o, su, cu)
      PROVE  Reaches(Q[d].peers, p, o, R)
  <2>1. Together(d, o, st, c)
    BY <1>1, WasTogether
  <2>2. Reaches(P[d].peers, p, o, S)
    BY <1>1, <2>1 DEF TasksReach
  <2> QED
    BY <1>1, <2>2, ReachesStill
<1> SUFFICES ASSUME NEW d \in Processes, NEW k \in Tasks, NEW n \in 1 .. Len(Queue(Q[d], k)),
                    Together(d, Queue(Q[d], k)[n].origin, su, cu)
             PROVE  Reaches(Q[d].peers, Queue(Q[d], k)[n].peer, Queue(Q[d], k)[n].origin, R)
  BY DEF TasksReach
<1>2. CASE d # i
  <2>1. Q[d] = P[d]
    BY <1>2 DEF Wires
  <2> QED
    BY <1>1, <2>1
<1>3. CASE d = i
  <2> DEFINE m == Queue(Q[i], k)[n]
  <2>1. ASSUME NEW l \in Tasks, NEW r \in 1 .. Len(Queue(P[i], l)),
               Queue(P[i], l)[r].origin = m.origin, Queue(P[i], l)[r].peer = m.peer
        PROVE  Reaches(Q[i].peers, m.peer, m.origin, R)
    <3>1. Together(i, m.origin, su, cu)
      BY <1>3
    <3> HIDE DEF m
    <3> QED
      BY <1>1, <2>1, <3>1
  <2>2. \/ \E l \in Tasks : \E r \in 1 .. Len(Queue(P[i], l)) :
             Queue(P[i], l)[r].origin = m.origin /\ Queue(P[i], l)[r].peer = m.peer
        \/ Together(i, m.origin, su, cu) => Reaches(Q[i].peers, m.peer, m.origin, R)
    BY <1>3 DEF TasksNew
  <2> QED
    BY <1>3, <2>1, <2>2
<1> QED
  BY <1>2, <1>3

-----------------------------------------------------------------------------
(***************************************************************************)
(* The invariants that the state adds to those of PeerNetworkProofs.       *)
(***************************************************************************)
(* One open process on a host; nothing is known of one before it starts.   *)
OneOpen == \A i, j \in Started : Open(i) /\ Open(j) /\ host[i] = host[j] => i = j
Unborn ==
  \A i \in Processes \ Started :
    Used(proc[i].peers) = {} /\ proc[i].asked = <<>> /\ \A k \in Kinds : Queue(proc[i], k) = <<>>
AskedKnown ==
  \A i \in Processes : /\ \A n \in 1 .. Len(proc[i].asked) : proc[i].asked[n] \in Started
                       /\ \A n \in 1 .. Len(proc[i].asks) : proc[i].asks[n].peer \in Started

(* A peer, once in table K or in one of the buffers b on their way, is in  *)
(* all that follow.                                                        *)
Chained(d, K, b) ==
  /\ \A n \in 1 .. Len(b) : d \in K => d \in BufferIds(b[n])
  /\ \A n, l \in 1 .. Len(b) : n < l /\ d \in BufferIds(b[n]) => d \in BufferIds(b[l])
(* So are the processes that are open; who is asked is in the table.       *)
Keeps(d, p, b, up) ==
  /\ Chained(d, Ids(p.peers), b)
  /\ up => \A n \in 1 .. Len(p.asks) : p.asks[n].peer = d => d \in Ids(p.peers)
OpenKept ==
  \A d \in Started : Open(d) => d \in Ids(roster) /\ \A i \in Processes : Keeps(d, proc[i], posted[i], Up(i))
Company == OneOpen /\ Unborn /\ AskedKnown /\ OpenKept

LEMMA ChainedIs ==
  ASSUME NEW d, NEW K, NEW b \in Seq(Seq(Items)), Chained(d, K, b)
  PROVE  /\ \A x : d \in BufferIds(x) => Chained(d, K, Append(b, x))
         /\ b # <<>> => Chained(d, BufferIds(Head(b)), Tail(b)) /\ (d \in K => d \in BufferIds(Head(b)))
<1>1. Len(b) \in Nat
  BY LenProperties
<1>2. ASSUME NEW x, d \in BufferIds(x) PROVE Chained(d, K, Append(b, x))
  <2> DEFINE c == Append(b, x)
  <2>1. Len(c) = Len(b) + 1 /\ c[Len(b) + 1] = x /\ \A n \in 1 .. Len(b) : c[n] = b[n]
    OBVIOUS
  <2> HIDE DEF c
  <2>2. \A n \in 1 .. Len(c) : n \in 1 .. Len(b) \/ n = Len(b) + 1
    BY <1>1, <2>1
  <2>3. \A n \in 1 .. Len(c) : d \in K => d \in BufferIds(c[n])
    BY <1>2, <2>1, <2>2 DEF Chained
  <2>4. ASSUME NEW n \in 1 .. Len(c), NEW l \in 1 .. Len(c), n < l, d \in BufferIds(c[n])
        PROVE  d \in BufferIds(c[l])
    <3>1. CASE l = Len(b) + 1
      BY <1>2, <2>1, <3>1
    <3>2. CASE l \in 1 .. Len(b)
      <4>1. n \in 1 .. Len(b)
        BY <1>1, <2>4, <3>2
      <4> QED
        BY <2>1, <2>4, <3>2, <4>1 DEF Chained
    <3> QED
      BY <2>2, <3>1, <3>2
  <2> QED
    BY <2>3, <2>4 DEF Chained, c
<1>3. ASSUME b # <<>> PROVE Chained(d, BufferIds(Head(b)), Tail(b)) /\ (d \in K => d \in BufferIds(Head(b)))
  <2> DEFINE c == Tail(b)
  <2>1. /\ Len(b) \in Nat \ {0} /\ Head(b) = b[1] /\ Len(c) = Len(b) - 1
        /\ \A n \in 1 .. Len(c) : c[n] = b[n + 1]
    BY <1>3, EmptySeq, HeadTailProperties
  <2> HIDE DEF c
  <2>2. \A n \in 1 .. Len(c) : n + 1 \in 1 .. Len(b) /\ 1 < n + 1 /\ 1 \in 1 .. Len(b)
    BY <2>1
  <2>3. ASSUME NEW n \in 1 .. Len(c), NEW l \in 1 .. Len(c), n < l, d \in BufferIds(c[n])
        PROVE  d \in BufferIds(c[l])
    <3>1. n + 1 < l + 1 /\ n + 1 \in 1 .. Len(b) /\ l + 1 \in 1 .. Len(b)
      BY <2>2, <2>3, <2>1
    <3> QED
      BY <2>1, <2>3, <3>1 DEF Chained
  <2>4. \A n \in 1 .. Len(c) : d \in BufferIds(Head(b)) => d \in BufferIds(c[n])
    BY <2>1, <2>2 DEF Chained
  <2>5. d \in K => d \in BufferIds(Head(b))
    <3>1. 1 \in 1 .. Len(b)
      BY <2>1
    <3> QED
      BY <2>1, <3>1 DEF Chained
  <2> QED
    BY <2>3, <2>4, <2>5 DEF Chained, c
<1> QED
  BY <1>2, <1>3

LEMMA CompanyFacts ==
  ASSUME PeerInv
  PROVE  /\ posted \in [Processes -> Seq(Seq(Items))] /\ Started \subseteq Processes
         /\ \A i \in Processes : /\ proc[i] \in Procs /\ proc[i].asks \in Seq(Messages)
                                 /\ proc[i].asked \in Seq(Processes)
                                 /\ Ids(proc[i].peers) \subseteq Started
         /\ \A i \in Processes : \A n \in 1 .. Len(posted[i]) : BufferIds(posted[i][n]) \subseteq Started
<1>1. posted \in [Processes -> Seq(Seq(Items))] /\ Started \subseteq Processes
  BY PeerFacts DEF PeerInv, TypeInv
<1>2. ASSUME NEW i \in Processes
      PROVE  /\ proc[i] \in Procs /\ proc[i].asks \in Seq(Messages) /\ proc[i].asked \in Seq(Processes)
             /\ Ids(proc[i].peers) \subseteq Started
  <2>1. proc[i] \in Procs /\ TableOK(proc[i].peers, host) /\ proc[i].peers \in Tables
    BY ProcFacts
  <2>2. Ids(proc[i].peers) = {proc[i].peers.slots[k].id : k \in Used(proc[i].peers)}
    BY <2>1, EntryIs
  <2>3. proc[i].asks \in Seq(Messages) /\ proc[i].asked \in Seq(Processes)
    BY <2>1, ProcParts
  <2> QED
    BY <2>1, <2>2, <2>3 DEF TableOK, Named, Started
<1>3. ASSUME NEW i \in Processes, NEW n \in 1 .. Len(posted[i]) PROVE BufferIds(posted[i][n]) \subseteq Started
  BY DEF PeerInv, PostedInv, BufferOK, BufferIds, Started
<1> QED
  BY <1>1, <1>2, <1>3

(* A step of process i that leaves all tables their peers. *)
LEMMA CompanyStays ==
  ASSUME PeerInv, Company, UNCHANGED <<roster, posted, host>>, NEW i \in Started,
         \A a \in Started : (Open(a)' => Open(a)) /\ (Up(a)' => Up(a)),
         \A j \in Processes : j # i => proc'[j] = proc[j],
         Ids(proc'[i].peers) = Ids(proc[i].peers),
         \A n \in 1 .. Len(proc'[i].asked) : proc'[i].asked[n] \in Started,
         \A n \in 1 .. Len(proc'[i].asks) :
           \/ \E l \in 1 .. Len(proc[i].asks) : proc[i].asks[l] = proc'[i].asks[n]
           \/ proc'[i].asks[n].peer \in Ids(proc[i].peers)
  PROVE  Company'
<1>1. Started' = Started
  BY DEF Started
<1>2. OneOpen'
  BY <1>1 DEF Company, OneOpen
<1>3. Unborn'
  BY <1>1 DEF Company, Unborn
<1>4. AskedKnown'
  <2>1. i \in Processes /\ Ids(proc[i].peers) \subseteq Started
    BY CompanyFacts
  <2>2. ASSUME NEW j \in Processes, NEW n \in 1 .. Len(proc'[j].asks) PROVE proc'[j].asks[n].peer \in Started
    <3>1. CASE j # i
      BY <3>1 DEF Company, AskedKnown
    <3>2. CASE j = i
      BY <2>1, <3>2 DEF Company, AskedKnown
    <3> QED
      BY <3>1, <3>2
  <2>3. ASSUME NEW j \in Processes, NEW n \in 1 .. Len(proc'[j].asked) PROVE proc'[j].asked[n] \in Started
    BY DEF Company, AskedKnown
  <2> QED
    BY <1>1, <2>2, <2>3 DEF AskedKnown
<1>5. ASSUME NEW d \in Started, Open(d)', NEW j \in Processes PROVE Keeps(d, proc'[j], posted'[j], Up(j)')
  <2>1. Keeps(d, proc[j], posted[j], Up(j)) /\ Up(j)' => Up(j)
    BY <1>1, <1>5 DEF Company, OpenKept, Up
  <2>2. CASE j # i
    BY <2>1, <2>2, <1>1, <1>5 DEF Keeps, Up, Company, OpenKept
  <2>3. CASE j = i
    <3>1. Keeps(d, proc[i], posted[i], Up(i)) /\ (Up(i)' => Up(i))
      BY <1>5, <2>3 DEF Company, OpenKept
    <3> QED
      BY <2>3, <3>1 DEF Keeps
  <2> QED
    BY <2>2, <2>3
<1>6. OpenKept'
  BY <1>1, <1>5 DEF Company, OpenKept
<1> QED
  BY <1>2, <1>3, <1>4, <1>6 DEF Company

-----------------------------------------------------------------------------
(* Who runs, and what is posted, after the steps that change it. *)
LEMMA StartsCompany ==
  ASSUME PeerInv, Company, NEW h \in Hosts, Starts(h)
  PROVE  Company'
<1> DEFINE i == Len(host) + 1
           b == Serialized(roster')
<1>1. /\ posted' = [posted EXCEPT ![i] = Append(@, b)] /\ UNCHANGED proc
      /\ \A j \in Started : host[j] = h => ~Open(j)
  BY StartsIs DEF Starts, ProcessesAt
<1>2. /\ i \in Processes /\ i \notin Started /\ Started' = Started \cup {i} /\ Started = 1 .. Len(host)
      /\ host'[i] = h /\ \A j \in Started : host'[j] = host[j] /\ state'[j] = state[j]
      /\ Ids(roster') = Ids(roster) \cup {i} /\ RosterOK(roster', most', host')
      /\ DOMAIN host' = 1 .. Len(host')
  <2>1. /\ i \in Processes /\ i \in Nat /\ Len(host') = i /\ Started = 1 .. Len(host) /\ DOMAIN host = Started
        /\ DOMAIN host' = 1 .. i /\ host'[i] = h /\ HostsGrow(host, host')
        /\ \A j \in 1 .. Len(host) : state'[j] = state[j]
        /\ RosterOK(roster', most', host') /\ Ids(roster') = Ids(roster) \cup {i} /\ Len(host) \in Nat
    BY StartsIs
  <2>2. Started' = Started \cup {i} /\ i \notin Started
    BY <2>1 DEF Started
  <2> QED
    BY <2>1, <2>2 DEF HostsGrow
<1>3. BufferIds(b) = Ids(roster')
  <2>1. roster' \in Tables /\ Unique(roster') /\ Named(roster', host')
    BY <1>2 DEF RosterOK
  <2>2. Used(roster') # {}
    BY <1>2, <2>1, EntryIs
  <2> QED
    BY <2>1, <2>2, SerializedOK
<1> HIDE DEF i, b
<1>4. \A j \in Started : Open(j)' <=> Open(j)
  BY <1>2 DEF Open
<1>5. OneOpen'
  <2>1. SUFFICES ASSUME NEW j \in Started', NEW l \in Started', Open(j)', Open(l)', host'[j] = host'[l]
                 PROVE  j = l
    BY DEF OneOpen
  <2> QED
    BY <1>1, <1>2, <1>4, <2>1 DEF Company, OneOpen
<1>6. Unborn'
  BY <1>1, <1>2 DEF Company, Unborn
<1>7. AskedKnown'
  BY <1>1, <1>2 DEF Company, AskedKnown
<1>8. /\ posted \in [Processes -> Seq(Seq(Items))]
      /\ \A j \in Processes : Ids(proc[j].peers) \subseteq Started
      /\ \A j \in Processes : \A n \in 1 .. Len(posted[j]) : BufferIds(posted[j][n]) \subseteq Started
  BY CompanyFacts
<1>9. ASSUME NEW j \in Processes PROVE posted'[j] = IF j = i THEN Append(posted[j], b) ELSE posted[j]
  BY <1>1, <1>8
<1>10. ASSUME NEW d \in Started', Open(d)', NEW j \in Processes PROVE Chained(d, Ids(proc[j].peers), posted'[j])
  <2>1. Chained(d, Ids(proc[j].peers), posted[j])
    <3>1. CASE d \in Started
      BY <1>4, <1>10, <3>1 DEF Company, OpenKept, Keeps
    <3>2. CASE d = i
      BY <1>2, <1>8, <3>2 DEF Chained
    <3> QED
      BY <1>2, <3>1, <3>2
  <2>2. d \in BufferIds(b)
    <3>1. CASE d \in Started
      BY <1>2, <1>3, <1>4, <1>10, <3>1 DEF Company, OpenKept
    <3> QED
      BY <1>2, <1>3, <3>1
  <2>3. posted[j] \in Seq(Seq(Items))
    BY <1>8
  <2>4. Chained(d, Ids(proc[j].peers), Append(posted[j], b))
    BY <2>1, <2>2, <2>3, ChainedIs
  <2> QED
    BY <1>9, <2>1, <2>4
<1>11. ASSUME NEW d \in Started', Open(d)', NEW j \in Processes, Up(j)', NEW n \in 1 .. Len(proc[j].asks),
              proc[j].asks[n].peer = d
       PROVE  d \in Ids(proc[j].peers)
  <2>1. j \in Started /\ Up(j)
    <3>1. j \notin Started => proc[j].asks = <<>>
      <4>1. "asks" \in Kinds
        BY DEF Kinds
      <4> QED
        BY <4>1 DEF Company, Unborn, Queue
    <3>2. j \in Started
      BY <1>11, <3>1
    <3> QED
      BY <1>2, <1>11, <3>2 DEF Up
  <2>2. d \in Started
    <3>1. SUFFICES ASSUME d = i PROVE FALSE
      BY <1>2
    <3> QED
      BY <1>2, <1>11, <2>1, <3>1 DEF Company, AskedKnown
  <2> QED
    BY <1>4, <1>11, <2>1, <2>2 DEF Company, OpenKept, Keeps
<1>12. OpenKept'
  <2>1. \A d \in Started' : Open(d)' => d \in Ids(roster')
    BY <1>2, <1>4 DEF Company, OpenKept
  <2>2. \A d \in Started' : Open(d)' => \A j \in Processes : Keeps(d, proc'[j], posted'[j], Up(j)')
    BY <1>1, <1>10, <1>11 DEF Keeps
  <2> QED
    BY <2>1, <2>2 DEF OpenKept
<1> QED
  BY <1>5, <1>6, <1>7, <1>12 DEF Company

LEMMA TellsCompany ==
  ASSUME PeerInv, Company, NEW i \in Processes, TrackerTells(i)
  PROVE  Company'
<1> DEFINE b == Serialized(roster)
<1>1. /\ UNCHANGED <<roster, host, state, proc>>
      /\ \/ UNCHANGED posted
         \/ KnownId(roster, i) /\ posted' = [posted EXCEPT ![i] = Append(@, b)]
  BY DEF TrackerTells
<1>2. OneOpen' /\ Unborn' /\ AskedKnown'
  BY <1>1 DEF Company, OneOpen, Unborn, AskedKnown, Started, Open
<1>3. posted \in [Processes -> Seq(Seq(Items))]
  BY CompanyFacts
<1>4. KnownId(roster, i) => BufferIds(b) = Ids(roster)
  <2>1. roster \in Tables /\ Unique(roster) /\ Named(roster, host)
    BY DEF PeerInv, RosterOK
  <2>2. KnownId(roster, i) => Used(roster) # {}
    BY <2>1, LookupIs
  <2> QED
    BY <2>1, <2>2, SerializedOK
<1> HIDE DEF b
<1>5. ASSUME NEW d \in Started, Open(d), NEW j \in Processes PROVE Chained(d, Ids(proc[j].peers), posted'[j])
  <2>1. Chained(d, Ids(proc[j].peers), posted[j]) /\ d \in Ids(roster)
    BY <1>5 DEF Company, OpenKept, Keeps
  <2>2. KnownId(roster, i) => Chained(d, Ids(proc[j].peers), Append(posted[j], b))
    BY <1>3, <1>4, <2>1, ChainedIs
  <2>3. posted'[j] = posted[j] \/ (posted'[j] = Append(posted[j], b) /\ KnownId(roster, i))
    BY <1>1, <1>3
  <2> QED
    BY <2>1, <2>2, <2>3
<1>6. OpenKept'
  <2>1. Started' = Started /\ \A d \in Started : Open(d)' <=> Open(d)
    BY <1>1 DEF Started, Open
  <2>2. \A j \in Processes : Up(j)' <=> Up(j)
    BY <1>1 DEF Started, Up
  <2>3. \A d \in Started : Open(d)' => d \in Ids(roster')
    BY <1>1, <2>1 DEF Company, OpenKept
  <2>4. ASSUME NEW d \in Started, Open(d)', NEW j \in Processes PROVE Keeps(d, proc'[j], posted'[j], Up(j)')
    <3>1. Open(d) /\ Keeps(d, proc[j], posted[j], Up(j))
      BY <2>1, <2>4 DEF Company, OpenKept
    <3>2. Chained(d, Ids(proc[j].peers), posted'[j])
      BY <1>5, <3>1
    <3> QED
      BY <1>1, <2>2, <3>1, <3>2 DEF Keeps
  <2> QED
    BY <2>1, <2>3, <2>4 DEF OpenKept
<1> QED
  BY <1>2, <1>6 DEF Company

LEMMA LosesCompany ==
  ASSUME PeerInv, Company, NEW i \in Processes, TrackerLoses(i)
  PROVE  Company'
<1>1. /\ UNCHANGED <<host, state, proc, posted>> /\ roster' = DeletePeer(roster, i)
      /\ KnownId(roster, i) /\ ~HasJunk(roster) /\ ~Open(i)
  BY DEF TrackerLoses, TrackerWell
<1>2. OneOpen' /\ Unborn' /\ AskedKnown'
  BY <1>1 DEF Company, OneOpen, Unborn, AskedKnown, Started, Open
<1>3. Ids(roster') = Ids(roster) \ {i}
  BY <1>1, RosterLoses DEF PeerInv
<1>4. OpenKept'
  <2>1. Started' = Started /\ \A d \in Started : Open(d)' <=> Open(d)
    BY <1>1 DEF Started, Open
  <2>2. \A j \in Processes : Up(j)' <=> Up(j)
    BY <1>1 DEF Started, Up
  <2>3. \A d \in Started : Open(d)' => d \in Ids(roster')
    BY <1>1, <1>3, <2>1 DEF Company, OpenKept
  <2>4. \A d \in Started, j \in Processes : Open(d)' => Keeps(d, proc'[j], posted'[j], Up(j)')
    BY <1>1, <2>1, <2>2 DEF Company, OpenKept, Keeps
  <2> QED
    BY <2>1, <2>3, <2>4 DEF OpenKept
<1> QED
  BY <1>2, <1>4 DEF Company

(* A table comes. *)
LEMMA NetTableIs ==
  ASSUME PeerInv, NEW i \in Processes, NetTable(i)
  PROVE  /\ Up(i) /\ posted[i] # <<>> /\ posted' = [posted EXCEPT ![i] = Tail(@)]
         /\ UNCHANGED <<roster, host, accepts>>
         /\ Ids(proc'[i].peers) = BufferIds(Head(posted[i]))
         /\ \A k \in Used(proc'[i].peers) : proc'[i].peers.slots[k].sock = -1
         /\ proc'[i].asked = proc[i].asked /\ proc'[i].asks = proc[i].asks
         /\ \A k \in Kinds : Queue(proc'[i], k) = Queue(proc[i], k)
         /\ \A j \in Processes : j # i => proc'[j] = proc[j]
         /\ Drops(socks, socks', InTable(i)) /\ cut' = cut \cup Cuts(InTable(i))
         /\ state' = state \/ state' = [state EXCEPT ![i] = "astray"]
<1> DEFINE b == Head(posted[i])
<1>1. /\ Up(i) /\ posted[i] # <<>> /\ posted' = [posted EXCEPT ![i] = Tail(@)]
      /\ UNCHANGED <<roster, host, accepts>>
      /\ socks' = Drained(socks, InTable(i)) /\ cut' = cut \cup Cuts(InTable(i))
      /\ state' = state \/ state' = [state EXCEPT ![i] = "astray"]
      /\ \E new \in Deserialized(b) : \E H : proc' = [proc EXCEPT ![i].peers = new, ![i].heard = H]
  BY DEF NetTable, trackerSide
<1>2. PICK new \in Deserialized(b) : \E H : proc' = [proc EXCEPT ![i].peers = new, ![i].heard = H]
  BY <1>1
<1>3. PICK H : proc' = [proc EXCEPT ![i].peers = new, ![i].heard = H]
  BY <1>2
<1> DEFINE v == [proc[i] EXCEPT !.peers = new]
           p == [v EXCEPT !.heard = H]
<1>4. BufferOK(b, host)
  <2>1. posted \in [Processes -> Seq(Seq(Items))]
        /\ \A j \in Processes : \A n \in 1 .. Len(posted[j]) : BufferOK(posted[j][n], host)
    BY DEF PeerInv, TypeInv, PostedInv
  <2> QED
    BY <1>1, <2>1, PostedLess
<1>5. Ids(new) = BufferIds(b) /\ \A k \in Used(new) : new.slots[k].sock = -1
  BY <1>4, DeserializedOK
<1> HIDE DEF b
<1>6. proc' = [proc EXCEPT ![i] = p] /\ DOMAIN proc = Processes /\ proc = [j \in Processes |-> proc[j]]
  <2>1. proc' = [[proc EXCEPT ![i].peers = new] EXCEPT ![i].heard = H]
    BY <1>3
  <2>2. DOMAIN proc = Processes /\ proc = [j \in Processes |-> proc[j]]
    BY DEF PeerInv, TypeInv
  <2> QED
    BY <2>1, <2>2
<1>7. p.peers = new /\ p.asked = proc[i].asked /\ p.asks = proc[i].asks /\ p.todo = proc[i].todo
      /\ p.answers = proc[i].answers /\ p.got = proc[i].got
  <2>1. proc[i] \in Procs
    BY ProcFacts
  <2> QED
    BY <2>1 DEF Procs
<1> HIDE DEF p, v
<1>8. proc'[i] = p /\ \A j \in Processes : j # i => proc'[j] = proc[j]
  BY <1>6, PutAt
<1>9. \A k \in Kinds : Queue(proc'[i], k) = Queue(proc[i], k)
  BY <1>7, <1>8, SameQueues
<1>10. Drops(socks, socks', InTable(i))
  <2> DEFINE X == InTable(i)
  <2>1. socks \in Seq(SocketSet) /\ socks' = Drained(socks, X)
    BY <1>1, PeerFacts
  <2> HIDE DEF X
  <2>2. Drops(socks, socks', X)
    BY <2>1, DrainedIs
  <2> QED
    BY <2>2 DEF X
<1> QED
  BY <1>1, <1>5, <1>7, <1>8, <1>9, <1>10 DEF b

LEMMA TableCompany ==
  ASSUME PeerInv, Company, NEW i \in Processes, NetTable(i)
  PROVE  Company'
<1>1. /\ Up(i) /\ posted[i] # <<>> /\ posted' = [posted EXCEPT ![i] = Tail(@)]
      /\ UNCHANGED <<roster, host>>
      /\ Ids(proc'[i].peers) = BufferIds(Head(posted[i]))
      /\ proc'[i].asked = proc[i].asked /\ proc'[i].asks = proc[i].asks
      /\ \A j \in Processes : j # i => proc'[j] = proc[j]
      /\ state' = state \/ state' = [state EXCEPT ![i] = "astray"]
  BY NetTableIs
<1>2. i \in Started /\ Started' = Started /\ DOMAIN state = Started /\ state[i] = "up"
  BY <1>1, PeerFacts DEF Up, Started
<1>3. \A d \in Started : Open(d)' <=> Open(d)
  BY <1>1, <1>2 DEF Open
<1>4. \A j \in Processes : Up(j)' => Up(j)
  BY <1>1, <1>2 DEF Up
<1>5. OneOpen' /\ Unborn'
  BY <1>1, <1>2, <1>3 DEF Company, OneOpen, Unborn
<1>6. AskedKnown'
  <2>1. \A j \in Processes : proc'[j].asked = proc[j].asked /\ proc'[j].asks = proc[j].asks
    BY <1>1
  <2> QED
    BY <1>2, <2>1 DEF Company, AskedKnown
<1>7. posted \in [Processes -> Seq(Seq(Items))]
  BY CompanyFacts
<1>8. posted'[i] = Tail(posted[i]) /\ \A j \in Processes : j # i => posted'[j] = posted[j]
  BY <1>1, <1>7
<1>9. ASSUME NEW d \in Started, Open(d)', NEW j \in Processes PROVE Keeps(d, proc'[j], posted'[j], Up(j)')
  <2>1. Open(d) /\ Keeps(d, proc[j], posted[j], Up(j))
    BY <1>3, <1>9 DEF Company, OpenKept
  <2>2. CASE j # i
    BY <1>1, <1>4, <1>8, <2>1, <2>2 DEF Keeps
  <2>3. CASE j = i
    <3>1. /\ Chained(d, BufferIds(Head(posted[i])), Tail(posted[i]))
          /\ d \in Ids(proc[i].peers) => d \in BufferIds(Head(posted[i]))
      BY <1>1, <1>7, <2>1, <2>3, ChainedIs DEF Keeps
    <3> QED
      BY <1>1, <1>4, <1>8, <2>1, <2>3, <3>1 DEF Keeps
  <2> QED
    BY <2>2, <2>3
<1>10. OpenKept'
  BY <1>1, <1>2, <1>3, <1>9 DEF Company, OpenKept
<1> QED
  BY <1>5, <1>6, <1>10 DEF Company

(* A process ends. *)
LEMMA EndsIs ==
  ASSUME PeerInv, NEW i \in Processes, Ends(i)
  PROVE  /\ i \in Started /\ state' = [state EXCEPT ![i] = "gone"] /\ UNCHANGED <<roster, host>>
         /\ proc'[i].asked = proc[i].asked /\ Used(proc'[i].peers) = {} /\ Ids(proc'[i].peers) = {}
         /\ proc'[i].asks = <<>> /\ \A k \in Kinds : Queue(proc'[i], k) = <<>>
         /\ \A j \in Processes : j # i => proc'[j] = proc[j]
         /\ posted' = [posted EXCEPT ![i] = <<>>]
         /\ accepts'[i] = <<>> /\ \A j \in Processes : j # i => accepts'[j] = accepts[j]
         /\ \E H : ClosesAll(socks, socks', i, H)
         /\ cut' = cut \cup {{i, j} : j \in Processes}
<1> DEFINE H == {s \in DOMAIN socks : Mate(s) \in SocketsOf(i) /\ WatchedSocket(s)}
           p == [Process EXCEPT !.asked = proc[i].asked]
<1>1. /\ i \in Started /\ state' = [state EXCEPT ![i] = "gone"] /\ UNCHANGED <<roster, host>>
      /\ proc' = [proc EXCEPT ![i] = p]
      /\ posted' = [posted EXCEPT ![i] = <<>>] /\ accepts' = [accepts EXCEPT ![i] = <<>>]
      /\ socks' = [s \in DOMAIN socks |-> EndSocket(socks, i, H, s)]
      /\ cut' = cut \cup {{i, j} : j \in Processes}
  BY DEF Ends, Open, EndSocket, trackerSide
<1> HIDE DEF H
<1>2. TypeInv /\ socks \in Seq(SocketSet)
  BY DEF PeerInv, SocksOK
<1>3. ClosesAll(socks, socks', i, H)
  BY <1>1, <1>2, ClosesAllIs
<1>4. p.peers = NewTable(InitialSize) /\ p.asked = proc[i].asked /\ p.asks = <<>>
      /\ p.todo = <<>> /\ p.answers = <<>> /\ p.got = <<>>
  BY EndedIs
<1>5. Used(NewTable(InitialSize)) = {} /\ Ids(NewTable(InitialSize)) = {}
  BY PeerNetworkAssumption, NewTableIs
<1> HIDE DEF p
<1>6. proc'[i] = p /\ \A j \in Processes : j # i => proc'[j] = proc[j]
  BY <1>1, <1>2, PutAt DEF TypeInv
<1>7. \A k \in Kinds : Queue(p, k) = <<>>
  BY <1>4 DEF Queue
<1>8. accepts'[i] = <<>> /\ \A j \in Processes : j # i => accepts'[j] = accepts[j]
  BY <1>1, <1>2 DEF TypeInv
<1> QED
  BY <1>1, <1>3, <1>4, <1>5, <1>6, <1>7, <1>8

LEMMA EndsCompany ==
  ASSUME PeerInv, Company, NEW i \in Processes, Ends(i)
  PROVE  Company'
<1>1. /\ i \in Started /\ state' = [state EXCEPT ![i] = "gone"] /\ UNCHANGED <<roster, host>>
      /\ proc'[i].asked = proc[i].asked /\ Ids(proc'[i].peers) = {} /\ proc'[i].asks = <<>>
      /\ \A j \in Processes : j # i => proc'[j] = proc[j]
      /\ posted' = [posted EXCEPT ![i] = <<>>]
  BY EndsIs
<1>2. Started' = Started /\ DOMAIN state = Started
  BY <1>1, PeerFacts DEF Started
<1>3. \A d \in Started : Open(d)' => Open(d)
  BY <1>1, <1>2 DEF Open
<1>4. \A j \in Processes : Up(j)' => Up(j)
  BY <1>1, <1>2 DEF Up
<1>5. OneOpen' /\ Unborn'
  BY <1>1, <1>2, <1>3 DEF Company, OneOpen, Unborn
<1>6. AskedKnown'
  <2>1. \A j \in Processes : proc'[j].asked = proc[j].asked
    BY <1>1
  <2>2. \A j \in Processes : proc'[j].asks = proc[j].asks \/ proc'[j].asks = <<>>
    BY <1>1
  <2>3. ASSUME NEW j \in Processes, NEW n \in 1 .. Len(proc'[j].asks) PROVE proc'[j].asks[n].peer \in Started
    <3>1. proc'[j].asks # <<>>
      OBVIOUS
    <3>2. proc'[j].asks = proc[j].asks
      BY <2>2, <3>1
    <3> QED
      BY <3>2 DEF Company, AskedKnown
  <2> QED
    BY <1>2, <2>1, <2>3 DEF Company, AskedKnown
<1>7. posted \in [Processes -> Seq(Seq(Items))]
  BY CompanyFacts
<1>8. posted'[i] = <<>> /\ \A j \in Processes : j # i => posted'[j] = posted[j]
  BY <1>1, <1>7
<1>9. ASSUME NEW d \in Started, Open(d)', NEW j \in Processes PROVE Keeps(d, proc'[j], posted'[j], Up(j)')
  <2>1. Open(d) /\ Keeps(d, proc[j], posted[j], Up(j))
    BY <1>3, <1>9 DEF Company, OpenKept
  <2>2. CASE j # i
    BY <1>1, <1>4, <1>8, <2>1, <2>2 DEF Keeps
  <2>3. CASE j = i
    BY <1>1, <1>8, <2>3 DEF Keeps, Chained
  <2> QED
    BY <2>2, <2>3
<1>10. OpenKept'
  BY <1>1, <1>2, <1>3, <1>9 DEF Company, OpenKept
<1> QED
  BY <1>5, <1>6, <1>10 DEF Company

-----------------------------------------------------------------------------
(***************************************************************************)
(* The invariant of the requests, and what a step must do to keep it.      *)
(***************************************************************************)
AnswersInv ==
  /\ Linked(proc, accepts, socks, state, cut) /\ RightSlots(proc, socks, state, cut)
  /\ Signed(socks) /\ TasksReach(proc, socks, state, cut) /\ Kept(proc, socks, state, cut)

LEMMA WorldIs ==
  ASSUME PeerInv
  PROVE  World(proc, accepts, socks, host) /\ DOMAIN state = DOMAIN host /\ Full(proc)
         /\ socks \in Seq(SocketSet) /\ SocksOK(socks, host)
<1>1. Full(proc) /\ SocksOK(socks, host) /\ DOMAIN host \subseteq Processes /\ DOMAIN state = DOMAIN host
  BY PeerFacts, ProcFacts DEF Full, PeerInv, Started
<1>2. \A j \in Processes : accepts[j] \in Seq(Nat) /\ Plugged(proc[j].peers, accepts[j], j, socks, host)
  BY ProcFacts
<1> QED
  BY <1>1, <1>2, PeerFacts DEF World

(* Who has something to do runs, and so did who asked. *)
LEMMA TasksKnown ==
  ASSUME PeerInv, LinesInv, Company, NEW d \in Processes, NEW k \in Tasks, NEW n \in 1 .. Len(Queue(proc[d], k))
  PROVE  d \in DOMAIN host /\ Queue(proc[d], k)[n].origin \in DOMAIN host
<1> DEFINE m == Queue(proc[d], k)[n]
           p == <<k, d>>
           F == LinesOf(proc, socks)
<1>1. k \in Kinds
  BY DEF Tasks, Kinds
<1>2. d \in DOMAIN host
  <2>1. Queue(proc[d], k) # <<>>
    OBVIOUS
  <2> QED
    BY <1>1, <2>1 DEF Company, Unborn, Started
<1>3. p \in Places /\ F[p] = Queue(proc[d], k)
  BY <1>1, WorldIs, LinesAre
<1>4. Fits(p[1], p[2], F[p][n], proc, socks, host)
  BY <1>3 DEF LinesInv, LinesOK, AllFit
<1>5. Fits(k, d, m, proc, socks, host)
  BY <1>3, <1>4
<1> HIDE DEF m, p, F
<1>6. m.origin \in DOMAIN host
  BY <1>5 DEF Fits, OfHost, Tasks
<1> QED
  BY <1>2, <1>6 DEF m

LEMMA AnsweringStep ==
  ASSUME PeerInv, PeerInv', LinesInv, Company, AnswersInv, NEW i \in Processes, NEW X,
         Calm(state, cut, state', cut'),
         Wires(i, X, proc, accepts, socks, proc', accepts', socks', state', cut'),
         Carries(X, proc, socks, proc', socks', state', cut'), SignsNew(socks, socks'),
         TasksNew(i, proc, proc', socks', state', cut'),
         \A a \in Processes : \A j \in 1 .. Len(proc'[a].asked) :
           \/ j \in 1 .. Len(proc[a].asked) /\ proc'[a].asked[j] = proc[a].asked[j]
           \/ Held(proc', socks', a, proc'[a].asked[j], j)
  PROVE  AnswersInv'
<1> DEFINE P == proc
           A == accepts
           S == socks
           Q == proc'
           B == accepts'
           R == socks'
           su == state'
           cu == cut'
           st == state
           c == cut
           h == host
<1>1. World(P, A, S, h) /\ DOMAIN st = DOMAIN h /\ Full(P) /\ SocksOK(S, h) /\ DOMAIN h \subseteq Processes
  BY WorldIs DEF World
<1>2. Full(Q) /\ R \in Seq(SocketSet)
  BY LinesThen
<1>3. /\ Calm(st, c, su, cu) /\ Wires(i, X, P, A, S, Q, B, R, su, cu) /\ Carries(X, P, S, Q, R, su, cu)
      /\ SignsNew(S, R) /\ TasksNew(i, P, Q, R, su, cu) /\ SocksGrow(S, R) /\ Lost(X, S, cu)
  BY DEF Wires
<1>4. Linked(P, A, S, st, c) /\ RightSlots(P, S, st, c) /\ Signed(S) /\ TasksReach(P, S, st, c) /\ Kept(P, S, st, c)
  BY DEF AnswersInv
<1>5. \A j \in Processes \ DOMAIN h : Used(P[j].peers) = {}
  BY DEF Company, Unborn, Started
<1>6. \A j \in Processes : Named(P[j].peers, h)
  BY ProcFacts DEF TableOK
<1>7. \A d \in Processes : \A k \in Tasks : \A n \in 1 .. Len(Queue(P[d], k)) :
        d \in DOMAIN h /\ Queue(P[d], k)[n].origin \in DOMAIN h
  BY TasksKnown
<1>8. \A a \in Processes : \A j \in 1 .. Len(P[a].asked) : a \in DOMAIN h /\ P[a].asked[j] \in DOMAIN h
  <2>1. SUFFICES ASSUME NEW a \in Processes, NEW j \in 1 .. Len(P[a].asked)
                 PROVE  a \in DOMAIN h /\ P[a].asked[j] \in DOMAIN h
    OBVIOUS
  <2>2. P[a].asked # <<>>
    BY <2>1
  <2> QED
    BY <2>2 DEF Company, Unborn, AskedKnown, Started
<1>9. \A a \in Processes : \A j \in 1 .. Len(Q[a].asked) :
        \/ j \in 1 .. Len(P[a].asked) /\ Q[a].asked[j] = P[a].asked[j]
        \/ Held(Q, R, a, Q[a].asked[j], j)
  OBVIOUS
<1> HIDE DEF P, A, S, Q, B, R, su, cu, st, c, h
<1>10. Linked(Q, B, R, su, cu)
  BY <1>1, <1>3, <1>4, LinkedStep
<1>11. RightSlots(Q, R, su, cu)
  BY <1>1, <1>3, <1>4, <1>5, <1>6, RightStep
<1>12. Signed(R)
  BY <1>1, <1>3, <1>4, SignedStep
<1>13. TasksReach(Q, R, su, cu)
  BY <1>1, <1>3, <1>4, <1>7, TasksStep
<1>14. Kept(Q, R, su, cu)
  BY <1>1, <1>2, <1>3, <1>4, <1>8, <1>9, KeptStep
<1> QED
  BY <1>10, <1>11, <1>12, <1>13, <1>14 DEF AnswersInv, Q, B, R, su, cu

-----------------------------------------------------------------------------
(* Steps that leave tables and backlogs. *)
LEMMA WiresStay ==
  ASSUME PeerInv, NEW i \in Processes, SocksGrow(socks, socks'), Len(socks') = Len(socks),
         \A j \in Processes : j # i => proc'[j] = proc[j], proc'[i].peers = proc[i].peers, UNCHANGED accepts
  PROVE  Wires(i, {}, proc, accepts, socks, proc', accepts', socks', state', cut')
<1>1. Len(socks) \in Nat
  BY PeerFacts
<1>2. Lost({}, socks, cut')
  BY DEF Lost
<1>3. \A k \in Used(proc[i].peers) : k \in Used(proc'[i].peers) /\ SameEntry(proc[i].peers, k, proc'[i].peers, k)
  BY DEF SameEntry
<1>4. \A j \in Processes : \A n \in 1 .. Len(accepts[j]) : Hung(proc'[j].peers, accepts'[j], accepts[j][n])
  BY DEF Hung
<1>5. \A s \in 1 .. Len(socks') : ~(s > Len(socks))
  BY <1>1
<1> QED
  BY <1>2, <1>3, <1>4, <1>5 DEF Wires

(* Tasks are what they were, or fewer. *)
LEMMA TasksLess ==
  ASSUME NEW i \in Processes, NEW P, Full(P), NEW Q, NEW R, NEW su, NEW cu,
         \A k \in Tasks : \/ Queue(Q[i], k) \in {Queue(P[i], k), <<>>}
                          \/ Queue(P[i], k) # <<>> /\ Queue(Q[i], k) = Tail(Queue(P[i], k))
  PROVE  TasksNew(i, P, Q, R, su, cu)
<1> SUFFICES ASSUME NEW k \in Tasks, NEW n \in 1 .. Len(Queue(Q[i], k))
             PROVE  \E r \in 1 .. Len(Queue(P[i], k)) : Queue(P[i], k)[r] = Queue(Q[i], k)[n]
  BY DEF TasksNew
<1> DEFINE q == Queue(P[i], k)
<1>1. q \in Seq(Messages)
  BY ProcParts DEF Full, Queue, Tasks
<1>2. CASE Queue(Q[i], k) = q
  BY <1>2
<1>3. CASE Queue(Q[i], k) = <<>>
  BY <1>3
<1>4. CASE q # <<>> /\ Queue(Q[i], k) = Tail(q)
  <2> HIDE DEF q
  <2>1. /\ Len(q) \in Nat \ {0} /\ Len(Tail(q)) = Len(q) - 1
        /\ \A l \in 1 .. Len(Tail(q)) : Tail(q)[l] = q[l + 1]
    BY <1>1, <1>4, EmptySeq, HeadTailProperties
  <2>2. n + 1 \in 1 .. Len(q) /\ q[n + 1] = Queue(Q[i], k)[n]
    BY <1>4, <2>1
  <2> QED
    BY <2>2 DEF q
<1> QED
  BY <1>2, <1>3, <1>4

(* Nothing is sent. *)
LEMMA SignsLess ==
  ASSUME NEW S \in Seq(SocketSet), NEW R \in Seq(SocketSet), \A s : Less(In(S, s), In(R, s)) \/ In(R, s) = Tail(In(S, s))
  PROVE  SignsNew(S, R)
<1> SUFFICES ASSUME NEW s \in 1 .. Len(R), NEW n \in 1 .. Len(R[s].in)
             PROVE  R[s].in[n] = EOF \/ \E l \in 1 .. Len(In(S, s)) : In(S, s)[l] = R[s].in[n]
  BY DEF SignsNew
<1> DEFINE q == In(S, s)
           r == In(R, s)
<1>1. r = R[s].in /\ q \in Lines /\ r \in Lines
  BY SocketIs DEF In, Lines
<1> HIDE DEF q, r
<1>2. r = q \/ r = <<>> \/ r = Append(q, EOF) \/ r = Tail(q)
  BY DEF Less, q, r
<1>3. n \in 1 .. Len(r)
  BY <1>1
<1>4. CASE r = q
  BY <1>1, <1>3, <1>4 DEF q
<1>5. CASE r = <<>>
  BY <1>3, <1>5
<1>6. CASE r = Append(q, EOF)
  <2>1. Len(q) \in Nat /\ Len(r) = Len(q) + 1 /\ r[Len(q) + 1] = EOF /\ \A l \in 1 .. Len(q) : r[l] = q[l]
    BY <1>1, <1>6 DEF Lines
  <2>2. n = Len(q) + 1 \/ n \in 1 .. Len(q)
    BY <1>3, <2>1
  <2> QED
    BY <1>1, <2>1, <2>2 DEF q
<1>7. CASE r = Tail(q) /\ q # <<>>
  <2>1. /\ Len(q) \in Nat \ {0} /\ Len(r) = Len(q) - 1 /\ \A l \in 1 .. Len(r) : r[l] = q[l + 1]
    BY <1>1, <1>7, EmptySeq, HeadTailProperties DEF Lines
  <2>2. n + 1 \in 1 .. Len(q) /\ q[n + 1] = r[n]
    BY <1>3, <2>1
  <2> QED
    BY <1>1, <2>2 DEF q
<1>8. CASE r = Tail(q) /\ q = <<>>
  <2>1. r = <<>>
    BY <1>8
  <2> QED
    BY <1>3, <2>1
<1> QED
  BY <1>2, <1>4, <1>5, <1>6, <1>7, <1>8

(* Process i takes what is at the head of the queues K and the sockets Y,  *)
(* and gives up the sockets of X.                                          *)
LEMMA CarriesStep ==
  ASSUME PeerInv, PeerInv', NEW i \in Processes, \A j \in Processes : j # i => proc'[j] = proc[j],
         NEW K, NEW Y, NEW X,
         \A k \in Kinds \ K : Within(Queue(proc[i], k), Queue(proc'[i], k)),
         \A s \in Sockets \ (X \cup Y) : Within(In(socks, s), In(socks', s)),
         \A k \in K : GoesOn(<<k, i>>, proc, socks, proc', socks', state', cut'),
         \A s \in Y : GoesOn(<<"in", s>>, proc, socks, proc', socks', state', cut')
  PROVE  Carries(X, proc, socks, proc', socks', state', cut')
<1> DEFINE P == proc
           S == socks
           Q == proc'
           R == socks'
           su == state'
           cu == cut'
           Z == {<<k, i>> : k \in K} \cup {<<"in", s>> : s \in Y}
           V == X \cup Y
<1>1. Full(P) /\ S \in Seq(SocketSet) /\ Full(Q) /\ R \in Seq(SocketSet)
  BY LinesThen
<1>2. /\ \A j \in Processes : j # i => Q[j] = P[j]
      /\ \A k \in Kinds \ K : Within(Queue(P[i], k), Queue(Q[i], k))
      /\ \A s \in Sockets \ V : Within(In(S, s), In(R, s))
  OBVIOUS
<1>3. \A p \in Z : GoesOn(p, P, S, Q, R, su, cu)
  OBVIOUS
<1>4. ASSUME NEW p \in Places \ Z
      PROVE  Within(LinesOf(P, S)[p], LinesOf(Q, R)[p]) \/ (p[1] = "in" /\ p[2] \in X)
  <2>1. CASE \E s \in X : p = <<"in", s>>
    BY <2>1
  <2>2. CASE \A s \in X : p # <<"in", s>>
    <3>1. (\A s \in V : p # <<"in", s>>) /\ (\A k \in K : p # <<k, i>>)
      BY <1>4, <2>2
    <3> HIDE DEF P, S, Q, R, V, Z
    <3>2. Within(LinesOf(P, S)[p], LinesOf(Q, R)[p])
      BY <1>1, <1>2, <3>1, PlacesWithin
    <3> QED
      BY <3>2
  <2> QED
    BY <2>1, <2>2
<1> HIDE DEF P, S, Q, R, V, Z, su, cu
<1>5. Carries(X, P, S, Q, R, su, cu)
  BY <1>1, <1>3, <1>4, CarriesMost
<1> QED
  BY <1>5 DEF P, S, Q, R, su, cu

(* Nothing is taken. *)
LEMMA CarriesAll ==
  ASSUME PeerInv, PeerInv', NEW i \in Processes, \A j \in Processes : j # i => proc'[j] = proc[j], NEW X,
         \A k \in Kinds : Queue(proc'[i], k) = Queue(proc[i], k),
         \A s \in Sockets \ X : In(socks', s) \in {In(socks, s), Append(In(socks, s), EOF)}
  PROVE  Carries(X, proc, socks, proc', socks', state', cut')
<1> DEFINE K == {}
           Y == {}
<1>1. \A k \in Kinds \ K : Within(Queue(proc[i], k), Queue(proc'[i], k))
  BY DEF Within
<1>2. \A s \in Sockets : In(socks, s) \in Lines
  BY PeerFacts, SocketIs DEF In, Lines
<1>3. \A s \in Sockets \ (X \cup Y) : Within(In(socks, s), In(socks', s))
  BY <1>2, WithinIs
<1>4. /\ \A k \in K : GoesOn(<<k, i>>, proc, socks, proc', socks', state', cut')
      /\ \A s \in Y : GoesOn(<<"in", s>>, proc, socks, proc', socks', state', cut')
  OBVIOUS
<1>5. \A j \in Processes : j # i => proc'[j] = proc[j]
  OBVIOUS
<1> HIDE DEF K, Y
<1> QED
  BY <1>1, <1>3, <1>4, <1>5, CarriesStep

LEMMA AskedStays ==
  ASSUME NEW i \in Processes, \A j \in Processes : j # i => proc'[j] = proc[j], proc'[i].asked = proc[i].asked
  PROVE  \A a \in Processes : \A j \in 1 .. Len(proc'[a].asked) :
           \/ j \in 1 .. Len(proc[a].asked) /\ proc'[a].asked[j] = proc[a].asked[j]
           \/ Held(proc', socks', a, proc'[a].asked[j], j)
<1> SUFFICES ASSUME NEW a \in Processes PROVE proc'[a].asked = proc[a].asked
  OBVIOUS
<1> QED
  BY DEF Processes

-----------------------------------------------------------------------------
(***************************************************************************)
(* The steps.                                                              *)
(***************************************************************************)
(* The tracker's. *)
LEMMA TrackerAnswers ==
  ASSUME PeerInv, PeerInv', LinesInv, Company, AnswersInv, UNCHANGED <<proc, accepts, socks, cut>>,
         \A a \in Started : state'[a] = state[a]
  PROVE  AnswersInv'
<1>1. CASE Processes = {}
  <2>1. Started = {} /\ Len(socks) \in Nat /\ DOMAIN host = {}
    BY <1>1, PeerFacts DEF Started
  <2>2. Len(socks) = 0
    <3>1. SUFFICES ASSUME Len(socks) # 0 PROVE FALSE
      OBVIOUS
    <3>2. 1 \in 1 .. Len(socks)
      BY <2>1, <3>1
    <3> QED
      BY <2>1, <3>2 DEF PeerInv, SocksOK
  <2> QED
    BY <1>1, <2>2 DEF AnswersInv, Linked, RightSlots, Signed, TasksReach, Kept
<1>2. CASE Processes # {}
  <2>1. PICK i \in Processes : TRUE
    BY <1>2
  <2>2. Calm(state, cut, state', cut')
    BY PeerFacts DEF Calm
  <2>3. /\ SocksGrow(socks, socks') /\ Len(socks') = Len(socks) /\ proc'[i].peers = proc[i].peers
        /\ \A j \in Processes : j # i => proc'[j] = proc[j]
        /\ proc'[i].asked = proc[i].asked /\ UNCHANGED accepts
    BY PeerFacts
  <2>4. Wires(i, {}, proc, accepts, socks, proc', accepts', socks', state', cut')
    BY <2>3, WiresStay
  <2>5. Carries({}, proc, socks, proc', socks', state', cut')
    BY <2>3, CarriesAll
  <2>6. SignsNew(socks, socks')
    <3>1. \A s : Less(In(socks, s), In(socks', s))
      BY DEF Less
    <3>2. socks \in Seq(SocketSet) /\ socks' \in Seq(SocketSet)
      BY LinesThen
    <3> QED
      BY <3>1, <3>2, SignsLess
  <2>7. TasksNew(i, proc, proc', socks', state', cut')
    <3>1. \A k \in Tasks : Queue(proc'[i], k) \in {Queue(proc[i], k), <<>>}
      OBVIOUS
    <3> QED
      BY <3>1, WorldIs, TasksLess
  <2>8. \A a \in Processes : \A j \in 1 .. Len(proc'[a].asked) :
          \/ j \in 1 .. Len(proc[a].asked) /\ proc'[a].asked[j] = proc[a].asked[j]
          \/ Held(proc', socks', a, proc'[a].asked[j], j)
    BY <2>3, AskedStays
  <2> QED
    BY <2>2, <2>4, <2>5, <2>6, <2>7, <2>8, AnsweringStep
<1> QED
  BY <1>1, <1>2

LEMMA AppendHas ==
  ASSUME NEW q \in Seq(Messages), NEW x
  PROVE  /\ Len(q) \in Nat /\ Len(Append(q, x)) = Len(q) + 1 /\ Append(q, x)[Len(q) + 1] = x
         /\ \A n \in 1 .. Len(q) : Append(q, x)[n] = q[n]
         /\ \A n \in 1 .. Len(Append(q, x)) : n = Len(q) + 1 \/ n \in 1 .. Len(q)
OBVIOUS

(* A step that leaves the sockets. *)
LEMMA NoneSent ==
  ASSUME PeerInv, PeerInv', UNCHANGED socks
  PROVE  /\ SignsNew(socks, socks') /\ SocksGrow(socks, socks') /\ Len(socks') = Len(socks)
         /\ \A s \in Sockets : Within(In(socks, s), In(socks', s))
<1>1. socks \in Seq(SocketSet) /\ socks' \in Seq(SocketSet)
  BY LinesThen
<1>2. \A s : Less(In(socks, s), In(socks', s))
  BY DEF Less
<1>3. SignsNew(socks, socks')
  BY <1>1, <1>2, SignsLess
<1>4. \A s \in Sockets : In(socks, s) \in Lines
  BY <1>1, SocketIs DEF In, Lines
<1>5. \A s \in Sockets : Within(In(socks, s), In(socks', s))
  BY <1>4, WithinIs
<1> QED
  BY <1>3, <1>5, PeerFacts

LEMMA QueueIs ==
  ASSUME PeerInv, NEW i \in Processes, NEW k \in Kinds
  PROVE  Queue(proc[i], k) \in Lines /\ Queue(proc[i], k) \in Seq(Messages)
<1>1. Queue(proc[i], k) \in Seq(Messages)
  BY ProcFacts, ProcParts DEF Queue
<1>2. Messages \subseteq Tokens
  BY TokenIs
<1> QED
  BY <1>1, <1>2 DEF Lines

(* A request enters the queue of its asker. *)
LEMMA LogicAsksAnswers ==
  ASSUME PeerInv, PeerInv', LinesInv, Company, AnswersInv, NEW i \in Processes, NEW d \in Processes, LogicAsks(i, d)
  PROVE  AnswersInv' /\ Company'
<1> DEFINE c == Len(proc[i].asked) + 1
           m == [type |-> "ask", job |-> c, origin |-> i, peer |-> d]
           b == <<"asks", i>>
<1>1. /\ Up(i) /\ KnownId(proc[i].peers, d) /\ UNCHANGED <<roster, posted, host, state, accepts, socks, cut>>
      /\ Len(proc[i].asked) \in Nat
      /\ m \in Messages /\ m.job = c /\ m.origin = i /\ m.peer = d
      /\ proc'[i].asked = Append(proc[i].asked, d) /\ Len(proc'[i].asked) = c
      /\ proc'[i].asks = Append(proc[i].asks, m) /\ proc'[i].peers = proc[i].peers
      /\ proc'[i].todo = proc[i].todo /\ proc'[i].answers = proc[i].answers /\ proc'[i].got = proc[i].got
      /\ \A j \in Processes : j # i => proc'[j] = proc[j]
  BY LogicAsksIs
<1> HIDE DEF m, c
<1>2. Calm(state, cut, state', cut')
  BY <1>1 DEF Calm
<1>3. SignsNew(socks, socks') /\ SocksGrow(socks, socks') /\ Len(socks') = Len(socks)
      /\ \A s \in Sockets : Within(In(socks, s), In(socks', s))
  BY <1>1, NoneSent
<1>4. Wires(i, {}, proc, accepts, socks, proc', accepts', socks', state', cut')
  BY <1>1, <1>3, WiresStay
<1>5. /\ proc[i].asks \in Lines /\ proc[i].asks \in Seq(Messages) /\ proc[i].asked \in Seq(Processes)
      /\ proc'[i].asks = Queue(proc'[i], "asks") /\ b \in Places
      /\ LinesOf(proc', socks')[b] = Append(proc[i].asks, m) /\ Full(proc') /\ socks' \in Seq(SocketSet)
  <2>1. "asks" \in Kinds
    BY DEF Kinds
  <2>2. proc[i].asks \in Lines /\ proc[i].asks \in Seq(Messages) /\ proc[i].asked \in Seq(Processes)
    BY <2>1, QueueIs, ProcFacts, ProcParts DEF Queue
  <2>3. LinesOf(proc', socks')[b] = Queue(proc'[i], "asks") /\ b \in Places /\ Full(proc') /\ socks' \in Seq(SocketSet)
    BY <2>1, LinesThen
  <2>4. Queue(proc'[i], "asks") = proc'[i].asks
    BY DEF Queue
  <2> QED
    BY <1>1, <2>2, <2>3, <2>4
<1>6. \A k \in Kinds : Within(Queue(proc[i], k), Queue(proc'[i], k))
  <2>1. Within(Queue(proc[i], "asks"), Queue(proc'[i], "asks"))
    BY <1>1, <1>5, WithinIs DEF Queue
  <2>2. ASSUME NEW k \in Kinds, k # "asks" PROVE Within(Queue(proc[i], k), Queue(proc'[i], k))
    <3>1. Queue(proc'[i], k) = Queue(proc[i], k)
      BY <1>1, <2>2 DEF Queue
    <3> QED
      BY <3>1, QueueIs, WithinIs
  <2> QED
    BY <2>1, <2>2
<1>7. Carries({}, proc, socks, proc', socks', state', cut')
  <2> DEFINE K == {}
             Y == {}
             X == {}
  <2>1. /\ \A j \in Processes : j # i => proc'[j] = proc[j]
        /\ \A k \in Kinds \ K : Within(Queue(proc[i], k), Queue(proc'[i], k))
        /\ \A s \in Sockets \ (X \cup Y) : Within(In(socks, s), In(socks', s))
        /\ \A k \in K : GoesOn(<<k, i>>, proc, socks, proc', socks', state', cut')
        /\ \A s \in Y : GoesOn(<<"in", s>>, proc, socks, proc', socks', state', cut')
    BY <1>1, <1>3, <1>6
  <2> HIDE DEF K, Y, X
  <2>2. Carries(X, proc, socks, proc', socks', state', cut')
    BY <2>1, CarriesStep
  <2> QED
    BY <2>2 DEF X
<1>8. TasksNew(i, proc, proc', socks', state', cut')
  <2>1. \A k \in Tasks : Queue(proc'[i], k) \in {Queue(proc[i], k), <<>>}
    BY <1>1 DEF Queue, Tasks
  <2> QED
    BY <2>1, WorldIs, TasksLess
<1>9. ASSUME NEW a \in Processes, NEW j \in 1 .. Len(proc'[a].asked)
      PROVE  \/ j \in 1 .. Len(proc[a].asked) /\ proc'[a].asked[j] = proc[a].asked[j]
             \/ Held(proc', socks', a, proc'[a].asked[j], j)
  <2>1. CASE a # i
    BY <1>1, <2>1
  <2>2. CASE a = i /\ j # c
    BY <1>1, <1>5, <2>2 DEF c
  <2>3. CASE a = i /\ j = c
    <3>1. AtHome(b, m, i, d, socks')
      BY <1>1 DEF AtHome, Tasks
    <3>2. Held(proc', socks', i, d, c)
      <4> HIDE DEF b
      <4> QED
        BY <1>1, <1>5, <3>1, HeldAt
    <3>3. proc'[i].asked[c] = d
      BY <1>1, <1>5 DEF c
    <3> QED
      BY <2>3, <3>2, <3>3
  <2> QED
    BY <2>1, <2>2, <2>3
<1>10. AnswersInv'
  BY <1>2, <1>3, <1>4, <1>7, <1>8, <1>9, AnsweringStep
<1>11. Company'
  <2>1. /\ i \in Started /\ \A a \in Started : (Open(a)' => Open(a)) /\ (Up(a)' => Up(a))
        /\ Ids(proc'[i].peers) = Ids(proc[i].peers)
    BY <1>1 DEF Up, Open, Started
  <2>2. ASSUME NEW n \in 1 .. Len(proc'[i].asked) PROVE proc'[i].asked[n] \in Started
    <3>1. d \in Started
      BY <1>1, CompanyFacts DEF KnownId
    <3>2. n = c \/ n \in 1 .. Len(proc[i].asked)
      BY <1>1, <1>5 DEF c
    <3>3. proc'[i].asked[n] = IF n = c THEN d ELSE proc[i].asked[n]
      BY <1>1, <1>5, <3>2 DEF c
    <3> QED
      BY <3>1, <3>2, <3>3 DEF Company, AskedKnown
  <2>3. ASSUME NEW n \in 1 .. Len(proc'[i].asks)
        PROVE  \/ \E l \in 1 .. Len(proc[i].asks) : proc[i].asks[l] = proc'[i].asks[n]
               \/ proc'[i].asks[n].peer \in Ids(proc[i].peers)
    <3> DEFINE q == proc[i].asks
               r == proc'[i].asks
    <3>1. q \in Seq(Messages) /\ r = Append(q, m)
      BY <1>1, <1>5
    <3> HIDE DEF q, r
    <3>2. \/ n = Len(q) + 1 /\ r[n] = m
          \/ n \in 1 .. Len(q) /\ r[n] = q[n]
      <4>1. n \in 1 .. Len(r)
        BY DEF r
      <4> QED
        BY <3>1, <4>1, AppendHas
    <3> QED
      BY <1>1, <3>2 DEF KnownId, q, r
  <2> QED
    BY <1>1, <2>1, <2>2, <2>3, CompanyStays
<1> QED
  BY <1>10, <1>11

(* Who reaches peer p knows it, and which socket leads there. *)
LEMMA ReachesKnown ==
  ASSUME PeerInv, NEW i \in Processes, NEW p, NEW o, Reaches(proc[i].peers, p, o, socks)
  PROVE  /\ KnownId(proc[i].peers, p)
         /\ LET s == ById(proc[i].peers, p).sock IN
            s # -1 /\ s \in 1 .. Len(socks) /\ s > 0 /\ socks[s].of = i /\ socks[Mate(s)].of = o
<1> DEFINE t == proc[i].peers
<1>1. t \in Tables /\ Unique(t) /\ Plugged(t, accepts[i], i, socks, host)
  BY ProcFacts DEF TableOK
<1>2. PICK k \in Used(t) : t.slots[k].id = p /\ t.slots[k].sock # -1 /\ socks[Mate(t.slots[k].sock)].of = o
  BY DEF Reaches
<1>3. KnownId(t, p)
  BY <1>1, <1>2, EntryIs DEF KnownId
<1>4. ById(t, p) = t.slots[k]
  <2> HIDE DEF t
  <2> QED
    BY <1>1, <1>2, <1>3, LookupIs
<1>5. t.slots[k].sock \in 1 .. Len(socks) /\ socks[t.slots[k].sock].of = i
  BY <1>1, <1>2 DEF Plugged, Own
<1> QED
  BY <1>2, <1>3, <1>4, <1>5

(* The first task of process i leads back to who asked. *)
LEMMA TaskReaches ==
  ASSUME PeerInv, AnswersInv, NEW i \in Processes, NEW k \in Tasks, Queue(proc[i], k) # <<>>,
         NEW m, m = Head(Queue(proc[i], k)), Together(i, m.origin, state, cut)
  PROVE  Reaches(proc[i].peers, m.peer, m.origin, socks)
<1> DEFINE q == Queue(proc[i], k)
<1>1. q \in Seq(Messages)
  BY QueueIs DEF Tasks, Kinds
<1>2. 1 \in 1 .. Len(q) /\ m = q[1]
  <2> HIDE DEF q
  <2> QED
    BY <1>1, EmptySeq, HeadTailProperties DEF q
<1>3. Together(i, q[1].origin, state, cut) => Reaches(proc[i].peers, q[1].peer, q[1].origin, socks)
  BY <1>2 DEF AnswersInv, TasksReach
<1> QED
  BY <1>2, <1>3

(* A request becomes an answer, in the queue of the one asked. *)
LEMMA LogicAnswersAnswers ==
  ASSUME PeerInv, PeerInv', LinesInv, Company, AnswersInv, NEW i \in Processes, LogicAnswers(i)
  PROVE  AnswersInv' /\ Company'
<1> DEFINE m == Head(proc[i].todo)
           x == [m EXCEPT !.type = "answer"]
           b == <<"answers", i>>
<1>1. /\ Up(i) /\ proc[i].todo # <<>> /\ UNCHANGED <<roster, posted, host, state, accepts, socks, cut>>
      /\ m \in Messages /\ x \in Messages /\ x.type = "answer"
      /\ x.job = m.job /\ x.origin = m.origin /\ x.peer = m.peer
      /\ proc'[i].peers = proc[i].peers /\ proc'[i].asked = proc[i].asked /\ proc'[i].asks = proc[i].asks
      /\ proc'[i].todo = Tail(proc[i].todo) /\ proc'[i].got = proc[i].got
      /\ proc'[i].answers = IF KnownId(proc[i].peers, m.peer) THEN Append(proc[i].answers, x) ELSE proc[i].answers
      /\ \A j \in Processes : j # i => proc'[j] = proc[j]
  BY LogicAnswersIs
<1> HIDE DEF x
<1>2. Calm(state, cut, state', cut')
  BY <1>1 DEF Calm
<1>3. SignsNew(socks, socks') /\ SocksGrow(socks, socks') /\ Len(socks') = Len(socks)
      /\ \A s \in Sockets : Within(In(socks, s), In(socks', s))
  BY <1>1, NoneSent
<1>4. Wires(i, {}, proc, accepts, socks, proc', accepts', socks', state', cut')
  BY <1>1, <1>3, WiresStay
<1>5. /\ proc[i].answers \in Lines /\ proc[i].answers \in Seq(Messages) /\ proc[i].todo \in Seq(Messages)
      /\ b \in Places /\ LinesOf(proc', socks')[b] = proc'[i].answers
      /\ LinesOf(proc, socks)[<<"todo", i>>] = proc[i].todo
      /\ LinesOf(proc', socks')[<<"todo", i>>] = proc'[i].todo
      /\ Full(proc') /\ socks' \in Seq(SocketSet)
  <2>1. "answers" \in Kinds /\ "todo" \in Kinds
    BY DEF Kinds
  <2>2. proc[i].answers \in Lines /\ proc[i].answers \in Seq(Messages) /\ proc[i].todo \in Seq(Messages)
    BY <2>1, QueueIs DEF Queue
  <2>3. /\ LinesOf(proc', socks')[b] = Queue(proc'[i], "answers") /\ b \in Places
        /\ LinesOf(proc, socks)[<<"todo", i>>] = Queue(proc[i], "todo")
        /\ LinesOf(proc', socks')[<<"todo", i>>] = Queue(proc'[i], "todo")
        /\ Full(proc') /\ socks' \in Seq(SocketSet)
    BY <2>1, LinesThen
  <2>4. Queue(proc'[i], "answers") = proc'[i].answers /\ \A p : Queue(p, "todo") = p.todo
    BY DEF Queue
  <2> QED
    BY <2>2, <2>3, <2>4
<1>6. \A k \in Kinds \ {"todo"} : Within(Queue(proc[i], k), Queue(proc'[i], k))
  <2>1. Within(Queue(proc[i], "answers"), Queue(proc'[i], "answers"))
    <3>1. Within(proc[i].answers, proc'[i].answers)
      BY <1>1, <1>5, WithinIs
    <3> QED
      BY <3>1 DEF Queue
  <2>2. ASSUME NEW k \in Kinds, k # "todo", k # "answers" PROVE Within(Queue(proc[i], k), Queue(proc'[i], k))
    <3>1. Queue(proc'[i], k) = Queue(proc[i], k)
      BY <1>1, <2>2 DEF Queue, Kinds
    <3> QED
      BY <3>1, QueueIs, WithinIs
  <2> QED
    BY <2>1, <2>2
<1>7. GoesOn(<<"todo", i>>, proc, socks, proc', socks', state', cut')
  <2>1. SUFFICES ASSUME NEW a \in Processes, NEW d \in Processes,
                        AtHome(<<"todo", i>>, m, a, d, socks), Together(a, d, state', cut')
                 PROVE  Held(proc', socks', a, d, m.job)
    BY <1>1, <1>5 DEF GoesOn
  <2>2. m.origin = a /\ d = i
    BY <2>1 DEF AtHome, Tasks
  <2>3. Together(i, m.origin, state, cut)
    BY <1>1, <2>1, <2>2 DEF Together
  <2>4. KnownId(proc[i].peers, m.peer)
    <3>1. "todo" \in Tasks /\ Queue(proc[i], "todo") = proc[i].todo
      BY DEF Tasks, Queue
    <3>2. Reaches(proc[i].peers, m.peer, m.origin, socks)
      BY <1>1, <2>3, <3>1, TaskReaches
    <3> QED
      BY <3>2, ReachesKnown
  <2>5. LinesOf(proc', socks')[b] = Append(proc[i].answers, x)
    BY <1>1, <1>5, <2>4
  <2>6. AtHome(b, x, a, d, socks')
    BY <1>1, <2>2 DEF AtHome, Tasks
  <2> HIDE DEF b, m
  <2>7. Held(proc', socks', a, d, x.job)
    BY <1>1, <1>5, <2>5, <2>6, HeldAt
  <2> QED
    BY <1>1, <2>7
<1>8. Carries({}, proc, socks, proc', socks', state', cut')
  <2> DEFINE K == {"todo"}
             Y == {}
             X == {}
  <2>1. /\ \A j \in Processes : j # i => proc'[j] = proc[j]
        /\ \A k \in Kinds \ K : Within(Queue(proc[i], k), Queue(proc'[i], k))
        /\ \A s \in Sockets \ (X \cup Y) : Within(In(socks, s), In(socks', s))
        /\ \A k \in K : GoesOn(<<k, i>>, proc, socks, proc', socks', state', cut')
        /\ \A s \in Y : GoesOn(<<"in", s>>, proc, socks, proc', socks', state', cut')
    BY <1>1, <1>3, <1>6, <1>7
  <2> HIDE DEF K, Y, X
  <2>2. Carries(X, proc, socks, proc', socks', state', cut')
    BY <2>1, CarriesStep
  <2> QED
    BY <2>2 DEF X
<1>9. TasksNew(i, proc, proc', socks', state', cut')
  <2>1. Len(proc[i].todo) \in Nat \ {0} /\ m = proc[i].todo[1] /\ 1 \in 1 .. Len(proc[i].todo)
        /\ \A n \in 1 .. Len(proc'[i].todo) : n + 1 \in 1 .. Len(proc[i].todo) /\ proc'[i].todo[n] = proc[i].todo[n + 1]
    BY <1>1, <1>5, EmptySeq, HeadTailProperties
  <2>2. "todo" \in Tasks /\ "answers" \in Tasks /\ \A p : Queue(p, "todo") = p.todo /\ Queue(p, "answers") = p.answers
    BY DEF Tasks, Queue
  <2>3. ASSUME NEW n \in 1 .. Len(proc'[i].todo)
        PROVE  \E r \in 1 .. Len(proc[i].todo) : proc[i].todo[r] = proc'[i].todo[n]
    BY <2>1
  <2>4. ASSUME NEW n \in 1 .. Len(proc'[i].answers)
        PROVE  \/ proc'[i].answers[n] = x
               \/ \E r \in 1 .. Len(proc[i].answers) : proc[i].answers[r] = proc'[i].answers[n]
    <3> DEFINE q == proc[i].answers
               r == proc'[i].answers
    <3>1. q \in Seq(Messages) /\ (r = q \/ r = Append(q, x)) /\ n \in 1 .. Len(r)
      BY <1>1, <1>5
    <3> HIDE DEF q, r
    <3>2. r[n] = x \/ \E l \in 1 .. Len(q) : q[l] = r[n]
      BY <3>1, AppendHas
    <3> QED
      BY <3>2 DEF q, r
  <2> HIDE DEF m
  <2>5. ASSUME NEW n \in 1 .. Len(Queue(proc'[i], "todo"))
        PROVE  \E r \in 1 .. Len(Queue(proc[i], "todo")) : Queue(proc[i], "todo")[r] = Queue(proc'[i], "todo")[n]
    BY <2>2, <2>3
  <2>6. ASSUME NEW n \in 1 .. Len(Queue(proc'[i], "answers"))
        PROVE  \E l \in Tasks : \E r \in 1 .. Len(Queue(proc[i], l)) :
                 /\ Queue(proc[i], l)[r].origin = Queue(proc'[i], "answers")[n].origin
                 /\ Queue(proc[i], l)[r].peer = Queue(proc'[i], "answers")[n].peer
    <3>1. CASE proc'[i].answers[n] = x
      <4>1. Queue(proc[i], "todo")[1] = m /\ Queue(proc'[i], "answers")[n] = x /\ 1 \in 1 .. Len(Queue(proc[i], "todo"))
        BY <2>1, <2>2, <3>1
      <4>2. x.origin = m.origin /\ x.peer = m.peer
        BY <1>1
      <4> QED
        BY <2>2, <4>1, <4>2
    <3>2. CASE \E r \in 1 .. Len(proc[i].answers) : proc[i].answers[r] = proc'[i].answers[n]
      BY <2>2, <3>2
    <3> QED
      BY <2>2, <2>4, <2>6, <3>1, <3>2
  <2>7. ASSUME NEW k \in Tasks, NEW n \in 1 .. Len(Queue(proc'[i], k))
        PROVE  \E l \in Tasks : \E r \in 1 .. Len(Queue(proc[i], l)) :
                 /\ Queue(proc[i], l)[r].origin = Queue(proc'[i], k)[n].origin
                 /\ Queue(proc[i], l)[r].peer = Queue(proc'[i], k)[n].peer
    <3>1. CASE k = "todo"
      BY <2>2, <2>5, <3>1
    <3>2. CASE k = "answers"
      BY <2>6, <3>2
    <3> QED
      BY <3>1, <3>2 DEF Tasks
  <2> QED
    BY <2>7 DEF TasksNew
<1>10. \A a \in Processes : \A j \in 1 .. Len(proc'[a].asked) :
         \/ j \in 1 .. Len(proc[a].asked) /\ proc'[a].asked[j] = proc[a].asked[j]
         \/ Held(proc', socks', a, proc'[a].asked[j], j)
  BY <1>1, AskedStays
<1>11. AnswersInv'
  BY <1>2, <1>3, <1>4, <1>8, <1>9, <1>10, AnsweringStep
<1>12. Company'
  <2>1. /\ i \in Started /\ \A a \in Started : (Open(a)' => Open(a)) /\ (Up(a)' => Up(a))
        /\ Ids(proc'[i].peers) = Ids(proc[i].peers)
    BY <1>1 DEF Up, Open, Started
  <2>2. \A n \in 1 .. Len(proc'[i].asked) : proc'[i].asked[n] \in Started
    BY <1>1 DEF Company, AskedKnown
  <2>3. \A n \in 1 .. Len(proc'[i].asks) : \E l \in 1 .. Len(proc[i].asks) : proc[i].asks[l] = proc'[i].asks[n]
    BY <1>1
  <2> QED
    BY <1>1, <2>1, <2>2, <2>3, CompanyStays
<1> QED
  BY <1>11, <1>12

(* A connection of two that are together is watched at both ends. *)
LEMMA LinkedWatched ==
  ASSUME PeerInv, AnswersInv, NEW s \in 1 .. Len(socks),
         Together(socks[s].of, socks[Mate(s)].of, state, cut)
  PROVE  WatchedSocket(s)
<1> DEFINE a == socks[s].of
           t == proc[a].peers
           q == accepts[a]
<1>1. Hung(t, q, s)
  BY DEF AnswersInv, Linked
<1>2. a \in Processes /\ s # -1 /\ DOMAIN socks = 1 .. Len(socks) /\ s \in Nat
  BY PeerFacts, SocketIs
<1>3. Plugged(t, q, a, socks, host) /\ t \in Tables /\ q \in Seq(Nat)
  BY <1>2, ProcFacts
<1>4. ~socks[s].shut
  BY <1>1, <1>2, <1>3 DEF Hung, Plugged, Own
<1>5. s \in InTable(a) \/ s \in ToSet(q)
  <2>1. CASE \E k \in Used(t) : t.slots[k].sock = s
    BY <1>2, <1>3, <2>1, EntryIs DEF InTable
  <2>2. CASE \E n \in 1 .. Len(q) : q[n] = s
    BY <1>3, <2>2 DEF ToSet
  <2> QED
    BY <1>1, <2>1, <2>2 DEF Hung
<1> QED
  BY <1>4, <1>5 DEF WatchedSocket, Watched

(* Process i takes the first of one of its queues, which goes on.          *)
LEMMA TakenAnswers ==
  ASSUME PeerInv, PeerInv', LinesInv, Company, AnswersInv, NEW i \in Processes, Up(i),
         UNCHANGED <<roster, posted, host, cut>>, state' \in {state, [state EXCEPT ![i] = "killed"]},
         Wires(i, {}, proc, accepts, socks, proc', accepts', socks', state', cut'),
         NEW c \in {"asks", "answers"}, Queue(proc[i], c) # <<>>,
         Queue(proc'[i], c) = Tail(Queue(proc[i], c)),
         \A k \in Kinds : k # c => Queue(proc'[i], k) = Queue(proc[i], k),
         Ids(proc'[i].peers) = Ids(proc[i].peers), proc'[i].asked = proc[i].asked,
         \A j \in Processes : j # i => proc'[j] = proc[j],
         \A s \in Sockets : Within(In(socks, s), In(socks', s)), SignsNew(socks, socks'),
         GoesOn(<<c, i>>, proc, socks, proc', socks', state', cut')
  PROVE  AnswersInv' /\ Company'
<1>1. /\ i \in Started /\ DOMAIN state = Started /\ state[i] = "up"
      /\ \A a \in Started : a # i => state'[a] = state[a]
      /\ state'[i] \in {"up", "killed"}
  BY PeerFacts DEF Up
<1>2. Calm(state, cut, state', cut')
  BY <1>1 DEF Calm
<1>3. Carries({}, proc, socks, proc', socks', state', cut')
  <2> DEFINE K == {c}
             Y == {}
             X == {}
  <2>1. \A k \in Kinds \ K : Within(Queue(proc[i], k), Queue(proc'[i], k))
    BY QueueIs, WithinIs
  <2>2. /\ \A j \in Processes : j # i => proc'[j] = proc[j]
        /\ \A k \in Kinds \ K : Within(Queue(proc[i], k), Queue(proc'[i], k))
        /\ \A s \in Sockets \ (X \cup Y) : Within(In(socks, s), In(socks', s))
        /\ \A k \in K : GoesOn(<<k, i>>, proc, socks, proc', socks', state', cut')
        /\ \A s \in Y : GoesOn(<<"in", s>>, proc, socks, proc', socks', state', cut')
    BY <2>1
  <2> HIDE DEF K, Y, X
  <2>3. Carries(X, proc, socks, proc', socks', state', cut')
    BY <2>2, CarriesStep
  <2> QED
    BY <2>3 DEF X
<1>4. TasksNew(i, proc, proc', socks', state', cut')
  <2>1. \A k \in Tasks : \/ Queue(proc'[i], k) \in {Queue(proc[i], k), <<>>}
                         \/ Queue(proc[i], k) # <<>> /\ Queue(proc'[i], k) = Tail(Queue(proc[i], k))
    BY DEF Tasks, Kinds
  <2> QED
    BY <2>1, WorldIs, TasksLess
<1>5. \A a \in Processes : \A j \in 1 .. Len(proc'[a].asked) :
        \/ j \in 1 .. Len(proc[a].asked) /\ proc'[a].asked[j] = proc[a].asked[j]
        \/ Held(proc', socks', a, proc'[a].asked[j], j)
  BY AskedStays
<1>6. AnswersInv'
  BY <1>2, <1>3, <1>4, <1>5, AnsweringStep
<1>7. Company'
  <2>1. \A a \in Started : (Open(a)' => Open(a)) /\ (Up(a)' => Up(a))
    BY <1>1 DEF Up, Open, Started
  <2>2. \A n \in 1 .. Len(proc'[i].asked) : proc'[i].asked[n] \in Started
    BY DEF Company, AskedKnown
  <2>3. ASSUME NEW n \in 1 .. Len(proc'[i].asks)
        PROVE  \E l \in 1 .. Len(proc[i].asks) : proc[i].asks[l] = proc'[i].asks[n]
    <3> DEFINE q == proc[i].asks
               r == proc'[i].asks
    <3>1. q \in Seq(Messages) /\ (r = q \/ (r = Tail(q) /\ q # <<>>)) /\ n \in 1 .. Len(r)
      <4>1. Queue(proc[i], "asks") = q /\ Queue(proc'[i], "asks") = r /\ "asks" \in Kinds
        BY DEF Queue, Kinds
      <4>2. q \in Seq(Messages)
        BY <4>1, QueueIs
      <4> QED
        BY <4>1, <4>2
    <3> HIDE DEF q, r
    <3>2. CASE r = q
      BY <3>1, <3>2 DEF q, r
    <3>3. CASE r = Tail(q) /\ q # <<>>
      <4>1. n + 1 \in 1 .. Len(q) /\ q[n + 1] = r[n]
        BY <3>1, <3>3, EmptySeq, HeadTailProperties
      <4> QED
        BY <4>1 DEF q, r
    <3> QED
      BY <3>1, <3>2, <3>3
  <2>4. UNCHANGED <<roster, posted, host>> /\ i \in Started
        /\ (\A j \in Processes : j # i => proc'[j] = proc[j]) /\ Ids(proc'[i].peers) = Ids(proc[i].peers)
    BY <1>1
  <2> QED
    BY <2>1, <2>2, <2>3, <2>4, CompanyStays
<1> QED
  BY <1>6, <1>7

(* Nobody is there that would wait for it. *)
LEMMA DroppedAnswers ==
  ASSUME PeerInv, PeerInv', LinesInv, Company, AnswersInv, NEW i \in Processes, Up(i),
         UNCHANGED <<roster, posted, host, state, accepts, socks, cut>>,
         NEW c \in {"asks", "answers"}, Queue(proc[i], c) # <<>>,
         Queue(proc'[i], c) = Tail(Queue(proc[i], c)),
         \A k \in Kinds : k # c => Queue(proc'[i], k) = Queue(proc[i], k),
         proc'[i].peers = proc[i].peers, proc'[i].asked = proc[i].asked,
         \A j \in Processes : j # i => proc'[j] = proc[j],
         \A a, d \in Processes :
           ~(AtHome(<<c, i>>, Head(Queue(proc[i], c)), a, d, socks) /\ Together(a, d, state, cut))
  PROVE  AnswersInv' /\ Company'
<1>1. SignsNew(socks, socks') /\ SocksGrow(socks, socks') /\ Len(socks') = Len(socks)
      /\ \A s \in Sockets : Within(In(socks, s), In(socks', s))
  BY NoneSent
<1>2. Wires(i, {}, proc, accepts, socks, proc', accepts', socks', state', cut')
  BY <1>1, WiresStay
<1>3. c \in Kinds /\ LinesOf(proc, socks)[<<c, i>>] = Queue(proc[i], c)
      /\ LinesOf(proc', socks')[<<c, i>>] = Queue(proc'[i], c)
  BY LinesThen DEF Kinds
<1>4. GoesOn(<<c, i>>, proc, socks, proc', socks', state', cut')
  BY <1>3 DEF GoesOn
<1>5. UNCHANGED <<roster, posted, host, cut>> /\ state' \in {state, [state EXCEPT ![i] = "killed"]}
      /\ Ids(proc'[i].peers) = Ids(proc[i].peers)
  OBVIOUS
<1> QED
  BY <1>1, <1>2, <1>4, <1>5, TakenAnswers

(* It is sent on socket s, which leads to where it must go. *)
LEMMA SentAnswers ==
  ASSUME PeerInv, PeerInv', LinesInv, Company, AnswersInv, NEW i \in Processes, Up(i),
         UNCHANGED <<roster, posted, host, accepts, cut>>,
         NEW c \in {"asks", "answers"}, Queue(proc[i], c) # <<>>,
         Queue(proc'[i], c) = Tail(Queue(proc[i], c)),
         \A k \in Kinds : k # c => Queue(proc'[i], k) = Queue(proc[i], k),
         proc'[i].peers = proc[i].peers, proc'[i].asked = proc[i].asked,
         \A j \in Processes : j # i => proc'[j] = proc[j],
         NEW s \in 1 .. Len(socks), socks[s].of = i, NEW m \in Messages, m = Head(Queue(proc[i], c)),
         Send(i, s, m), m.type = "ask" => m.origin = i,
         \A a, d \in Processes :
           AtHome(<<c, i>>, m, a, d, socks) /\ Together(a, d, state, cut) => AtHome(<<"in", Mate(s)>>, m, a, d, socks)
  PROVE  AnswersInv' /\ Company'
<1> DEFINE z == Mate(s)
           w == WatchedSocket(z)
<1>1. m \in Tokens /\ m.type \in {"ask", "answer"}
  BY TokenIs
<1>2. /\ z \in 1 .. Len(socks) /\ Gets(socks, socks', z, m, w)
      /\ SocksGrow(socks, socks') /\ Len(socks') = Len(socks)
      /\ state' \in {state, [state EXCEPT ![i] = "killed"]}
  BY <1>1, SendIs
<1>3. Mate(z) = s /\ socks[Mate(z)].of = i /\ z \in Sockets /\ socks \in Seq(SocketSet) /\ SocksOK(socks, host)
      /\ Len(socks) \in Nat
  BY SocketsStay, PeerFacts DEF PeerInv, Sockets
<1> HIDE DEF z, w
<1>4. Wires(i, {}, proc, accepts, socks, proc', accepts', socks', state', cut')
  BY <1>2, WiresStay
<1>5. /\ \A u : u # z => In(socks', u) = In(socks, u)
      /\ In(socks', z) = IF w THEN Append(In(socks, z), m) ELSE In(socks, z)
  <2>1. \A u : /\ In(socks, u) = IF u \in 1 .. Len(socks) THEN socks[u].in ELSE <<>>
               /\ In(socks', u) = IF u \in 1 .. Len(socks) THEN socks'[u].in ELSE <<>>
    BY <1>2, <1>3, InIs
  <2> QED
    BY <1>2, <2>1 DEF Gets
<1>6. \A u \in Sockets : In(socks, u) \in Lines
  BY <1>3, SocketIs DEF In, Lines
<1>7. \A u \in Sockets : Within(In(socks, u), In(socks', u))
  BY <1>5, <1>6, WithinIs
<1>8. SignsNew(socks, socks')
  <2>1. SUFFICES ASSUME NEW u \in 1 .. Len(socks'), NEW n \in 1 .. Len(socks'[u].in)
                 PROVE  \/ \E l \in 1 .. Len(In(socks, u)) : In(socks, u)[l] = socks'[u].in[n]
                        \/ Signs(socks'[u].in[n], u, socks')
    BY DEF SignsNew
  <2>2. In(socks', u) = socks'[u].in
    BY <2>1 DEF In
  <2>3. CASE In(socks', u) = In(socks, u)
    BY <2>2, <2>3
  <2>4. CASE u = z /\ In(socks', z) = Append(In(socks, z), m)
    <3> DEFINE q == In(socks, z)
               r == In(socks', z)
    <3>1. q \in Lines /\ r = Append(q, m) /\ n \in 1 .. Len(r) /\ r[n] = socks'[u].in[n]
      BY <1>3, <1>6, <2>2, <2>4
    <3> HIDE DEF q, r
    <3>2. r[n] = m \/ \E l \in 1 .. Len(q) : q[l] = r[n]
      BY <3>1 DEF Lines
    <3>3. Signs(m, z, socks')
      <4>1. socks'[Mate(z)].of = socks[Mate(z)].of
        BY <1>2, <1>3, SocketsStay
      <4> QED
        BY <1>3, <4>1 DEF Signs
    <3> QED
      BY <2>4, <3>1, <3>2, <3>3 DEF q
  <2> QED
    BY <1>5, <2>3, <2>4
<1>9. c \in Kinds /\ LinesOf(proc, socks)[<<c, i>>] = Queue(proc[i], c)
      /\ LinesOf(proc', socks')[<<c, i>>] = Queue(proc'[i], c)
      /\ <<"in", z>> \in Places /\ LinesOf(proc', socks')[<<"in", z>>] = In(socks', z)
      /\ Full(proc') /\ socks' \in Seq(SocketSet)
  BY <1>3, LinesThen DEF Kinds
<1>10. ASSUME NEW a \in Processes, NEW d \in Processes,
              AtHome(<<c, i>>, m, a, d, socks), Together(a, d, state', cut')
       PROVE  Held(proc', socks', a, d, m.job)
  <2>1. Together(a, d, state, cut) /\ a \in DOMAIN state /\ d \in DOMAIN state
    <3>1. DOMAIN state = Started /\ i \in Started /\ state[i] = "up" /\ DOMAIN state' = DOMAIN state
      BY <1>2, PeerFacts DEF Up
    <3>2. \A b \in DOMAIN state : state'[b] = "up" => state[b] = "up"
      BY <1>2, <3>1
    <3> QED
      BY <1>10, <3>1, <3>2 DEF Together
  <2>2. AtHome(<<"in", z>>, m, a, d, socks)
    BY <1>10, <2>1 DEF z
  <2>3. {socks[z].of, socks[Mate(z)].of} = {a, d}
    BY <1>1, <2>2 DEF AtHome
  <2>4. Together(socks[z].of, socks[Mate(z)].of, state, cut)
    BY <2>1, <2>3 DEF Together
  <2>5. w
    BY <1>2, <2>4, LinkedWatched DEF w
  <2>6. In(socks', z) = Append(In(socks, z), m) /\ In(socks, z) \in Lines
    BY <1>3, <1>5, <1>6, <2>5
  <2>7. AtHome(<<"in", z>>, m, a, d, socks')
    <3>1. socks'[z].of = socks[z].of /\ socks'[Mate(z)].of = socks[Mate(z)].of
      BY <1>2, <1>3, SocketsStay
    <3> QED
      BY <2>2, <3>1 DEF AtHome
  <2> DEFINE b == <<"in", z>>
  <2>8. LinesOf(proc', socks')[b] = Append(In(socks, z), m) /\ b \in Places /\ AtHome(b, m, a, d, socks')
    BY <1>9, <2>6, <2>7
  <2> HIDE DEF b
  <2> QED
    BY <1>9, <2>6, <2>8, HeldAt
<1>11. GoesOn(<<c, i>>, proc, socks, proc', socks', state', cut')
  BY <1>9, <1>10 DEF GoesOn
<1>12. UNCHANGED <<roster, posted, host, cut>> /\ Ids(proc'[i].peers) = Ids(proc[i].peers)
  OBVIOUS
<1> QED
  BY <1>2, <1>4, <1>7, <1>8, <1>11, <1>12, TakenAnswers

(* What stands in a queue that the network thread sends from. *)
LEMMA SentFits ==
  ASSUME PeerInv, PeerInv', LinesInv, NEW i \in Processes, NEW c \in {"asks", "answers"}, Queue(proc[i], c) # <<>>,
         NEW m, m = Head(Queue(proc[i], c))
  PROVE  m \in Messages /\ (c = "asks" => m.type = "ask" /\ m.origin = i) /\ (c = "answers" => m.type = "answer")
<1> DEFINE a == <<c, i>>
<1>1. c \in Kinds /\ Queue(proc[i], c) \in Seq(Messages)
  BY QueueIs DEF Kinds
<1>2. m \in Messages
  BY <1>1, HeadTailProperties
<1>3. a \in Places /\ LinesOf(proc, socks)[a] = Queue(proc[i], c) /\ a[1] = c /\ a[2] = i
  BY <1>1, LinesThen
<1>4. Fits(a[1], a[2], Head(LinesOf(proc, socks)[a]), proc, socks, host)
  BY <1>3, HeadFits
<1> HIDE DEF a
<1>5. Fits(c, i, m, proc, socks, host)
  BY <1>3, <1>4
<1> QED
  BY <1>2, <1>5 DEF Fits

(* An answer goes back the way that its request came. *)
LEMMA NetAnswersAnswers ==
  ASSUME PeerInv, PeerInv', LinesInv, Company, AnswersInv, NEW i \in Processes, NetAnswers(i)
  PROVE  AnswersInv' /\ Company'
<1> DEFINE t == proc[i].peers
           m == Head(proc[i].answers)
           p == [proc[i] EXCEPT !.answers = Tail(@)]
           e == ById(t, m.peer)
           c == "answers"
<1>1. /\ Up(i) /\ proc[i].answers # <<>> /\ UNCHANGED <<roster, posted, host, accepts, cut>>
      /\ proc' = [proc EXCEPT ![i].answers = Tail(@)]
      /\ \/ UNCHANGED <<state, socks>> /\ ~(KnownId(t, m.peer) /\ e.sock > 0)
         \/ KnownId(t, m.peer) /\ e.sock > 0 /\ Send(i, e.sock, m)
  BY DEF NetAnswers, trackerSide
<1>2. proc[i] \in Procs /\ proc[i].answers \in Seq(Messages)
  BY ProcFacts, ProcParts
<1>3. Tail(proc[i].answers) \in Seq(Messages) /\ m \in Messages
  BY <1>1, <1>2, HeadTailProperties
<1>4. proc' = [proc EXCEPT ![i] = p]
  BY <1>1 DEF PeerInv, TypeInv
<1>5. /\ p.peers = t /\ p.asked = proc[i].asked /\ p.asks = proc[i].asks /\ p.todo = proc[i].todo
      /\ p.answers = Tail(proc[i].answers) /\ p.got = proc[i].got
  BY <1>2, <1>3, WithQueue
<1>6. proc'[i] = p /\ \A j \in Processes : j # i => proc'[j] = proc[j]
  <2> HIDE DEF p
  <2> QED
    BY <1>4, PutAt DEF PeerInv, TypeInv
<1>7. c \in Kinds /\ c \in Tasks /\ Queue(proc[i], c) = proc[i].answers /\ Queue(proc'[i], c) = Tail(Queue(proc[i], c))
      /\ \A k \in Kinds : k # c => Queue(proc'[i], k) = Queue(proc[i], k)
  <2> HIDE DEF p, m, e
  <2> QED
    BY <1>5, <1>6 DEF Kinds, Queue, Tasks
<1> HIDE DEF p
<1>8. /\ \A j \in Processes : j # i => proc'[j] = proc[j]
      /\ proc'[i].asked = proc[i].asked /\ proc'[i].peers = t
      /\ c \in {"asks", "answers"} /\ m = Head(Queue(proc[i], c))
      /\ Queue(proc'[i], c) = Tail(Queue(proc[i], c)) /\ Queue(proc[i], c) # <<>>
      /\ \A k \in Kinds : k # c => Queue(proc'[i], k) = Queue(proc[i], k)
  BY <1>1, <1>5, <1>6, <1>7
<1>9. m.type = "answer"
  BY <1>8, SentFits
<1>10. ASSUME NEW a \in Processes, NEW d \in Processes, AtHome(<<c, i>>, m, a, d, socks), Together(a, d, state, cut)
       PROVE  d = i /\ m.origin = a /\ KnownId(t, m.peer) /\ e.sock > 0 /\ socks[Mate(e.sock)].of = a
  <2>1. d = i /\ m.origin = a
    BY <1>10 DEF AtHome, Tasks
  <2>2. Together(i, m.origin, state, cut)
    BY <1>10, <2>1 DEF Together
  <2> HIDE DEF m, c
  <2>3. Reaches(t, m.peer, m.origin, socks)
    BY <1>7, <1>8, <2>2, TaskReaches
  <2> QED
    BY <2>1, <2>3, ReachesKnown
<1>11. CASE UNCHANGED <<state, socks>> /\ ~(KnownId(t, m.peer) /\ e.sock > 0)
  <2>1. \A a, d \in Processes :
          ~(AtHome(<<c, i>>, Head(Queue(proc[i], c)), a, d, socks) /\ Together(a, d, state, cut))
    BY <1>8, <1>10, <1>11
  <2>2. UNCHANGED <<roster, posted, host, state, accepts, socks, cut>> /\ Up(i)
    BY <1>1, <1>11
  <2> HIDE DEF c, m
  <2> QED
    BY <1>8, <2>1, <2>2, DroppedAnswers
<1>12. CASE KnownId(t, m.peer) /\ e.sock > 0 /\ Send(i, e.sock, m)
  <2> DEFINE s == e.sock
  <2>1. s \in 1 .. Len(socks) /\ socks[s].of = i /\ Send(i, s, m)
    BY <1>12, ByIdIs DEF Own
  <2>2. Mate(Mate(s)) = s
    <3>1. socks \in Seq(SocketSet) /\ Len(socks) % 2 = 0
      BY DEF PeerInv, SocksOK
    <3> HIDE DEF s
    <3> QED
      BY <2>1, <3>1, MateIs
  <2>3. ASSUME NEW a \in Processes, NEW d \in Processes, AtHome(<<c, i>>, m, a, d, socks), Together(a, d, state, cut)
        PROVE  AtHome(<<"in", Mate(s)>>, m, a, d, socks)
    BY <1>9, <1>10, <2>1, <2>2, <2>3 DEF AtHome, Tasks
  <2> HIDE DEF s, c, m
  <2>4. UNCHANGED <<roster, posted, host, accepts, cut>> /\ Up(i) /\ (m.type = "ask" => m.origin = i) /\ m \in Messages
    BY <1>1, <1>3, <1>9
  <2> QED
    BY <1>8, <2>1, <2>3, <2>4, SentAnswers
<1> QED
  BY <1>1, <1>11, <1>12

(* It is sent on a new connection, to the process where its peer runs.     *)
LEMMA ConnectAnswers ==
  ASSUME PeerInv, PeerInv', LinesInv, Company, AnswersInv, NEW i \in Processes, Up(i),
         UNCHANGED <<roster, posted, host, state, cut>>,
         NEW c, c = "asks", Queue(proc[i], c) # <<>>, Queue(proc'[i], c) = Tail(Queue(proc[i], c)),
         \A k \in Kinds : k # c => Queue(proc'[i], k) = Queue(proc[i], k),
         proc'[i].asked = proc[i].asked, \A l \in Processes : l # i => proc'[l] = proc[l],
         NEW m \in Messages, m = Head(Queue(proc[i], c)), m.type = "ask", m.origin = i,
         NEW k \in Used(proc[i].peers), proc[i].peers.slots[k].id = m.peer, proc[i].peers.slots[k].sock = -1,
         NEW j \in ProcessesAt(host[m.peer]), Rewired(proc[i].peers, proc'[i].peers, k, Len(socks) + 1),
         Connects(socks, socks', i, j, m), accepts'[j] = Append(accepts[j], Len(socks) + 2),
         \A l \in Processes : l # j => accepts'[l] = accepts[l]
  PROVE  AnswersInv' /\ Company'
<1> DEFINE n == Len(socks)
           t == proc[i].peers
           u == proc'[i].peers
           d == m.peer
<1>1. /\ socks \in Seq(SocketSet) /\ n \in Nat /\ SocksGrow(socks, socks') /\ Len(socks') = n + 2
      /\ socks'[n + 1].of = i /\ socks'[n + 2].of = j /\ Mate(n + 1) = n + 2 /\ Mate(n + 2) = n + 1
      /\ socks'[n + 1].in = <<>>
      /\ t \in Tables /\ Named(t, host) /\ d \in DOMAIN host /\ j \in Processes /\ j \in Started
      /\ Open(j) /\ host[j] = host[d] /\ DOMAIN host = Started
  <2>1. t \in Tables /\ Named(t, host)
    BY ProcFacts DEF TableOK
  <2>2. d \in DOMAIN host
    BY <2>1 DEF Named
  <2> QED
    BY <2>1, <2>2, PeerFacts DEF Connects, ProcessesAt
<1>2. /\ Used(u) = Used(t) /\ u.slots[k].sock = n + 1
      /\ \A l \in Used(t) : u.slots[l].id = t.slots[l].id
      /\ \A l \in Used(t) : l # k => u.slots[l].sock = t.slots[l].sock
      /\ u \in Tables
  BY DEF Rewired
<1>3. Together(i, d, state', cut') => j = d
  <2>1. Together(i, d, state', cut') => Open(d)
    BY <1>1 DEF Together, Open
  <2> QED
    BY <1>1, <2>1 DEF Company, OneOpen
<1>4. Wires(i, {}, proc, accepts, socks, proc', accepts', socks', state', cut')
  <2> HIDE DEF n
  <2>1. Lost({}, socks, cut')
    BY DEF Lost
  <2>2. \A l \in Used(t) : \/ t.slots[l].sock \in {} \cup {-1}
                           \/ \E x \in Used(u) : SameEntry(t, l, u, x)
    BY <1>2 DEF SameEntry
  <2>3. ASSUME NEW l \in Used(u)
        PROVE  \/ \E x \in Used(t) : SameEntry(t, x, u, l)
               \/ Together(i, u.slots[l].id, state', cut') => socks'[Mate(u.slots[l].sock)].of = u.slots[l].id
    <3>1. CASE l = k
      BY <1>1, <1>2, <1>3, <3>1
    <3>2. CASE l # k
      BY <1>2, <3>2 DEF SameEntry
    <3> QED
      BY <3>1, <3>2
  <2>4. accepts[j] \in Seq(Nat)
    BY <1>1, ProcFacts
  <2>5. ASSUME NEW l \in Processes, NEW x \in 1 .. Len(accepts[l])
        PROVE  Hung(proc'[l].peers, accepts'[l], accepts[l][x])
    <3>1. CASE l # j
      BY <3>1 DEF Hung
    <3>2. CASE l = j
      <4> DEFINE q == accepts[j]
                 r == accepts'[j]
      <4>1. q \in Seq(Nat) /\ r = Append(q, n + 2) /\ x \in 1 .. Len(q)
        BY <2>4, <3>2 DEF n
      <4> HIDE DEF q, r
      <4>2. x \in 1 .. Len(r) /\ r[x] = q[x]
        BY <4>1
      <4> QED
        BY <3>2, <4>2 DEF Hung, q, r
    <3> QED
      BY <3>1, <3>2
  <2>6. Hung(proc'[j].peers, accepts'[j], n + 2)
    <3> DEFINE q == accepts[j]
               r == accepts'[j]
    <3>1. q \in Seq(Nat) /\ r = Append(q, n + 2)
      BY <2>4 DEF n
    <3> HIDE DEF q, r
    <3>2. Len(q) + 1 \in 1 .. Len(r) /\ r[Len(q) + 1] = n + 2
      BY <3>1
    <3> QED
      BY <3>2 DEF Hung, r
  <2>7. Hung(u, accepts'[i], n + 1)
    BY <1>2 DEF Hung
  <2>8. ASSUME NEW s \in 1 .. Len(socks'), s > n PROVE Hung(proc'[socks'[s].of].peers, accepts'[socks'[s].of], s)
    <3>1. s = n + 1 \/ s = n + 2
      BY <1>1, <2>8
    <3> QED
      BY <1>1, <2>6, <2>7, <3>1
  <2> QED
    BY <1>1, <2>1, <2>2, <2>3, <2>5, <2>8 DEF Wires, n
<1>5. /\ \A s : s # n + 2 => In(socks', s) = In(socks, s)
      /\ In(socks, n + 2) = <<>> /\ In(socks', n + 2) = Append(<<>>, m)
  BY <1>1, ConnectsIn
<1>6. n + 2 \in Sockets /\ <<>> \in Lines
  BY <1>1 DEF Sockets, Lines
<1> HIDE DEF n
<1>7. \A s \in Sockets : Within(In(socks, s), In(socks', s))
  <2>1. \A s \in Sockets : In(socks, s) \in Lines
    BY <1>1, SocketIs DEF In, Lines
  <2>2. Within(In(socks, n + 2), In(socks', n + 2))
    BY <1>5, <1>6, WithinIs
  <2> QED
    BY <1>5, <2>1, <2>2, WithinIs
<1>8. SignsNew(socks, socks')
  <2>1. SUFFICES ASSUME NEW s \in 1 .. Len(socks'), NEW x \in 1 .. Len(socks'[s].in)
                 PROVE  \/ \E l \in 1 .. Len(In(socks, s)) : In(socks, s)[l] = socks'[s].in[x]
                        \/ Signs(socks'[s].in[x], s, socks')
    BY DEF SignsNew
  <2>2. In(socks', s) = socks'[s].in
    BY DEF In
  <2>3. CASE s # n + 2
    BY <1>5, <2>2, <2>3
  <2>4. CASE s = n + 2
    <3>1. socks'[s].in = <<m>>
      BY <1>5, <2>2, <2>4
    <3>2. socks'[s].in[x] = m
      BY <3>1
    <3> QED
      BY <1>1, <2>4, <3>2 DEF Signs
  <2> QED
    BY <2>3, <2>4
<1> DEFINE b == <<"in", n + 2>>
<1>9. c \in {"asks", "answers"} /\ c \in Kinds /\ LinesOf(proc, socks)[<<c, i>>] = Queue(proc[i], c)
      /\ LinesOf(proc', socks')[<<c, i>>] = Queue(proc'[i], c)
      /\ b \in Places /\ LinesOf(proc', socks')[b] = Append(<<>>, m)
      /\ Full(proc') /\ socks' \in Seq(SocketSet)
  <2>1. c \in {"asks", "answers"} /\ c \in Kinds
    BY DEF Kinds
  <2> QED
    BY <1>5, <1>6, <2>1, LinesThen
<1>10. ASSUME NEW a \in Processes, NEW e \in Processes,
              AtHome(<<c, i>>, m, a, e, socks), Together(a, e, state', cut')
       PROVE  Held(proc', socks', a, e, m.job)
  <2>1. a = i /\ e = d
    BY <1>10 DEF AtHome
  <2>2. j = e
    BY <1>3, <1>10, <2>1
  <2>3. AtHome(b, m, a, e, socks')
    BY <1>1, <2>1, <2>2 DEF AtHome, Tasks
  <2> HIDE DEF b
  <2> QED
    BY <1>6, <1>9, <2>3, HeldAt
<1>11. GoesOn(<<c, i>>, proc, socks, proc', socks', state', cut')
  BY <1>9, <1>10 DEF GoesOn
<1>12. Ids(u) = Ids(t)
  <2>1. Ids(t) = {t.slots[l].id : l \in Used(t)} /\ Ids(u) = {u.slots[l].id : l \in Used(u)}
    BY <1>1, <1>2, EntryIs
  <2> QED
    BY <1>2, <2>1
<1>13. UNCHANGED <<roster, posted, host, cut>> /\ state' \in {state, [state EXCEPT ![i] = "killed"]}
  OBVIOUS
<1> QED
  BY <1>4, <1>7, <1>8, <1>9, <1>11, <1>12, <1>13, TakenAnswers

(* A request goes to the process asked, which the asker's table has as     *)
(* long as the two are together.                                           *)
LEMMA NetAsksAnswers ==
  ASSUME PeerInv, PeerInv', LinesInv, Company, AnswersInv, NEW i \in Processes, NetAsks(i)
  PROVE  AnswersInv' /\ Company'
<1> DEFINE t == proc[i].peers
           m == Head(proc[i].asks)
           p == [proc[i] EXCEPT !.asks = Tail(@)]
           e == ById(t, m.peer)
           n == Len(socks)
           k == SlotOf(t, m.peer)
           u == WithSocket(t, k, n + 1)
           v == [p EXCEPT !.peers = u]
           c == "asks"
<1>1. Up(i) /\ proc[i].asks # <<>> /\ UNCHANGED <<roster, posted, host, cut>>
  BY DEF NetAsks, trackerSide
<1>2. /\ p \in Procs /\ p.peers = t /\ p.asked = proc[i].asked /\ p.todo = proc[i].todo
      /\ p.answers = proc[i].answers /\ p.got = proc[i].got
      /\ p.asks = Tail(proc[i].asks) /\ m \in Messages /\ m \in Tokens
  BY <1>1, AsksIs, TokenIs
<1>3. \/ /\ UNCHANGED <<state, accepts, socks>> /\ proc' = [proc EXCEPT ![i].asks = Tail(@)]
         /\ ~KnownId(t, m.peer) \/ (~Connected(e) /\ ProcessesAt(e.host) = {})
      \/ /\ KnownId(t, m.peer) /\ Connected(e) /\ Send(i, e.sock, m) /\ UNCHANGED accepts
         /\ proc' = [proc EXCEPT ![i].asks = Tail(@)]
      \/ /\ KnownId(t, m.peer) /\ ~Connected(e) /\ UNCHANGED state
         /\ \E j \in ProcessesAt(e.host) :
           /\ socks' = socks \o <<Socket(i, <<>>), Socket(j, <<m>>)>>
           /\ accepts' = [accepts EXCEPT ![j] = Append(@, n + 2)]
           /\ proc' = [[proc EXCEPT ![i].asks = Tail(@)] EXCEPT ![i].peers = WithSocket(@, k, n + 1)]
  BY DEF NetAsks
<1>4. [proc EXCEPT ![i].asks = Tail(@)] = [proc EXCEPT ![i] = p]
  BY DEF PeerInv, TypeInv
<1>5. c \in Kinds /\ c \in {"asks", "answers"} /\ Queue(proc[i], c) = proc[i].asks /\ m = Head(Queue(proc[i], c))
  BY DEF Kinds, Queue
<1>6. m.type = "ask" /\ m.origin = i
  <2> HIDE DEF m, c
  <2> QED
    BY <1>1, <1>5, SentFits DEF c
<1>7. ASSUME NEW q, q.asked = p.asked, q.asks = p.asks, q.todo = p.todo, q.answers = p.answers, q.got = p.got,
             proc' = [proc EXCEPT ![i] = q]
      PROVE  /\ \A j \in Processes : j # i => proc'[j] = proc[j]
             /\ proc'[i].asked = proc[i].asked /\ proc'[i] = q
             /\ Queue(proc'[i], c) = Tail(Queue(proc[i], c)) /\ Queue(proc[i], c) # <<>>
             /\ \A l \in Kinds : l # c => Queue(proc'[i], l) = Queue(proc[i], l)
  <2> HIDE DEF p, m, e, u, v, t
  <2>1. proc'[i] = q /\ \A j \in Processes : j # i => proc'[j] = proc[j]
    BY <1>7, PutAt DEF PeerInv, TypeInv
  <2>2. /\ q.asked = proc[i].asked /\ q.asks = Tail(proc[i].asks) /\ q.todo = proc[i].todo
        /\ q.answers = proc[i].answers /\ q.got = proc[i].got
    BY <1>2, <1>7
  <2>3. Queue(proc'[i], c) = Tail(Queue(proc[i], c)) /\ \A l \in Kinds : l # c => Queue(proc'[i], l) = Queue(proc[i], l)
    BY <2>1, <2>2 DEF Kinds, Queue
  <2> QED
    BY <1>1, <1>5, <2>1, <2>2, <2>3
<1> HIDE DEF p
<1>8. ASSUME NEW a \in Processes, NEW d \in Processes, AtHome(<<c, i>>, m, a, d, socks), Together(a, d, state, cut)
      PROVE  /\ a = i /\ m.peer = d /\ KnownId(t, m.peer) /\ d \in ProcessesAt(e.host)
             /\ Connected(e) => socks[Mate(e.sock)].of = d
  <2>1. a = i /\ m.peer = d
    BY <1>8 DEF AtHome
  <2>2. d \in Started /\ Open(d)
    BY <1>8, PeerFacts DEF Together, Open
  <2>3. KnownId(t, d)
    <3>1. proc[i].asks \in Seq(Messages)
      BY <1>5, QueueIs
    <3>2. 1 \in 1 .. Len(proc[i].asks) /\ m = proc[i].asks[1]
      BY <1>1, <3>1, EmptySeq, HeadTailProperties
    <3>3. Keeps(d, proc[i], posted[i], Up(i))
      BY <2>2 DEF Company, OpenKept
    <3> HIDE DEF m
    <3> QED
      BY <1>1, <2>1, <3>2, <3>3 DEF Keeps, KnownId
  <2>4. k \in Used(t) /\ e = t.slots[k] /\ e.id = d /\ e.host = host[d]
    BY <2>1, <2>3, ByIdIs
  <2>5. d \in ProcessesAt(e.host)
    BY <2>2, <2>4 DEF ProcessesAt
  <2>6. Connected(e) => socks[Mate(e.sock)].of = d
    <3>1. SUFFICES ASSUME Connected(e) PROVE socks[Mate(e.sock)].of = d
      OBVIOUS
    <3>2. e.sock # -1
      BY <3>1 DEF Connected
    <3>3. Together(i, e.id, state, cut)
      BY <1>8, <2>1, <2>4
    <3>4. \A l \in Used(t) : t.slots[l].sock # -1 /\ Together(i, t.slots[l].id, state, cut)
            => socks[Mate(t.slots[l].sock)].of = t.slots[l].id
      BY DEF AnswersInv, RightSlots
    <3> HIDE DEF e, k, m
    <3> QED
      BY <2>4, <3>2, <3>3, <3>4
  <2> QED
    BY <2>1, <2>3, <2>5, <2>6
<1>9. CASE /\ UNCHANGED <<state, accepts, socks>> /\ proc' = [proc EXCEPT ![i].asks = Tail(@)]
           /\ ~KnownId(t, m.peer) \/ (~Connected(e) /\ ProcessesAt(e.host) = {})
  <2>1. proc' = [proc EXCEPT ![i] = p]
    BY <1>4, <1>9
  <2>2. \A a, d \in Processes : ~(AtHome(<<c, i>>, Head(Queue(proc[i], c)), a, d, socks) /\ Together(a, d, state, cut))
    BY <1>5, <1>8, <1>9
  <2> HIDE DEF c, m, e, t
  <2>3. /\ \A j \in Processes : j # i => proc'[j] = proc[j]
        /\ proc'[i].asked = proc[i].asked /\ proc'[i] = p
        /\ Queue(proc'[i], c) = Tail(Queue(proc[i], c)) /\ Queue(proc[i], c) # <<>>
        /\ \A l \in Kinds : l # c => Queue(proc'[i], l) = Queue(proc[i], l)
    BY <1>7, <2>1
  <2>4. proc'[i].peers = proc[i].peers /\ Up(i) /\ UNCHANGED <<roster, posted, host, state, accepts, socks, cut>>
    BY <1>1, <1>2, <1>9, <2>3 DEF t
  <2> QED
    BY <1>5, <2>2, <2>3, <2>4, DroppedAnswers
<1>10. CASE /\ KnownId(t, m.peer) /\ Connected(e) /\ Send(i, e.sock, m) /\ UNCHANGED accepts
            /\ proc' = [proc EXCEPT ![i].asks = Tail(@)]
  <2> DEFINE s == e.sock
  <2>1. s \in 1 .. Len(socks) /\ socks[s].of = i /\ Send(i, s, m)
    BY <1>10, ByIdIs DEF Connected, Own
  <2>2. proc' = [proc EXCEPT ![i] = p]
    BY <1>4, <1>10
  <2>3. Mate(Mate(s)) = s
    <3>1. socks \in Seq(SocketSet) /\ Len(socks) % 2 = 0
      BY DEF PeerInv, SocksOK
    <3> HIDE DEF s
    <3> QED
      BY <2>1, <3>1, MateIs
  <2>4. ASSUME NEW a \in Processes, NEW d \in Processes, AtHome(<<c, i>>, m, a, d, socks), Together(a, d, state, cut)
        PROVE  AtHome(<<"in", Mate(s)>>, m, a, d, socks)
    BY <1>6, <1>8, <1>10, <2>1, <2>3, <2>4 DEF AtHome, Tasks
  <2> HIDE DEF c, m, e, t, s
  <2>5. /\ \A j \in Processes : j # i => proc'[j] = proc[j]
        /\ proc'[i].asked = proc[i].asked /\ proc'[i] = p
        /\ Queue(proc'[i], c) = Tail(Queue(proc[i], c)) /\ Queue(proc[i], c) # <<>>
        /\ \A l \in Kinds : l # c => Queue(proc'[i], l) = Queue(proc[i], l)
    BY <1>7, <2>2
  <2>6. /\ proc'[i].peers = proc[i].peers /\ Up(i) /\ UNCHANGED <<roster, posted, host, accepts, cut>>
        /\ m \in Messages /\ (m.type = "ask" => m.origin = i)
    BY <1>1, <1>2, <1>6, <1>10, <2>5 DEF t
  <2> QED
    BY <1>5, <2>1, <2>4, <2>5, <2>6, SentAnswers
<1>11. ASSUME KnownId(t, m.peer), ~Connected(e), UNCHANGED state, NEW j \in ProcessesAt(e.host),
              socks' = socks \o <<Socket(i, <<>>), Socket(j, <<m>>)>>,
              accepts' = [accepts EXCEPT ![j] = Append(@, n + 2)],
              proc' = [[proc EXCEPT ![i].asks = Tail(@)] EXCEPT ![i].peers = WithSocket(@, k, n + 1)]
       PROVE  AnswersInv' /\ Company'
  <2>1. j \in Processes
    BY PeerFacts DEF ProcessesAt
  <2>2. proc' = [proc EXCEPT ![i] = v]
    <3>1. DOMAIN proc = Processes /\ proc = [l \in Processes |-> proc[l]]
      BY DEF PeerInv, TypeInv
    <3> HIDE DEF k, n
    <3>2. proc' = [[proc EXCEPT ![i] = p] EXCEPT ![i].peers = WithSocket(@, k, n + 1)]
      BY <1>4, <1>11
    <3>3. [proc EXCEPT ![i] = p][i] = p
      BY <3>1
    <3> HIDE DEF t
    <3> QED
      BY <1>2, <3>1, <3>2, <3>3
  <2> HIDE DEF c
  <2>3. socks \in Seq(SocketSet) /\ n % 2 = 0 /\ n \in Nat
    BY PeerFacts DEF PeerInv, SocksOK
  <2>4. t \in Tables /\ k \in Used(t) /\ e = t.slots[k] /\ t.slots[k].id = m.peer /\ e.host = host[m.peer]
    BY <1>11, ByIdIs, ProcFacts
  <2>5. Rewired(t, u, k, n + 1) /\ u \in Tables
    <3> HIDE DEF t, k, n
    <3>1. n + 1 \in Int
      BY <2>3
    <3>2. Rewired(t, u, k, n + 1)
      BY <2>4, <3>1, WithSocketIs
    <3> QED
      BY <3>2 DEF Rewired
  <2> HIDE DEF u
  <2>6. /\ v.asked = p.asked /\ v.asks = p.asks /\ v.todo = p.todo /\ v.answers = p.answers /\ v.got = p.got
        /\ v.peers = u
    BY <1>2, <2>5, WithPeers
  <2> HIDE DEF v
  <2>7. /\ \A l \in Processes : l # i => proc'[l] = proc[l]
        /\ proc'[i].asked = proc[i].asked /\ proc'[i] = v
        /\ Queue(proc'[i], c) = Tail(Queue(proc[i], c)) /\ Queue(proc[i], c) # <<>>
        /\ \A l \in Kinds : l # c => Queue(proc'[i], l) = Queue(proc[i], l)
    BY <1>7, <2>2, <2>6
  <2>8. Connects(socks, socks', i, j, m)
    BY <1>2, <1>11, <2>1, <2>3, ConnectsIs
  <2>9. accepts'[j] = Append(accepts[j], n + 2) /\ \A l \in Processes : l # j => accepts'[l] = accepts[l]
    BY <1>11, <2>1, PeerFacts
  <2>10. t.slots[k].sock = -1
    <3>1. Plugged(t, accepts[i], i, socks, host)
      BY ProcFacts
    <3>2. ~(t.slots[k].sock > 0)
      BY <1>11, <2>4 DEF Connected
    <3> HIDE DEF t, k
    <3> QED
      BY <2>4, <3>1, <3>2 DEF Plugged, Own
  <2>11. j \in ProcessesAt(host[m.peer]) /\ Rewired(t, proc'[i].peers, k, n + 1)
    BY <2>4, <2>5, <2>6, <2>7
  <2>12. UNCHANGED <<roster, posted, host, state, cut>> /\ c = "asks"
    BY <1>1, <1>11 DEF c
  <2>13. m \in Messages /\ m = Head(Queue(proc[i], c)) /\ m.type = "ask" /\ m.origin = i /\ Up(i)
    BY <1>1, <1>2, <1>5, <1>6
  <2> HIDE DEF m, k, e
  <2>14. k \in Used(proc[i].peers) /\ proc[i].peers.slots[k].id = m.peer /\ proc[i].peers.slots[k].sock = -1
    BY <2>4, <2>10
  <2> QED
    BY <2>7, <2>8, <2>9, <2>11, <2>12, <2>13, <2>14, ConnectAnswers
<1>12. CASE /\ KnownId(t, m.peer) /\ ~Connected(e) /\ UNCHANGED state
            /\ \E j \in ProcessesAt(e.host) :
              /\ socks' = socks \o <<Socket(i, <<>>), Socket(j, <<m>>)>>
              /\ accepts' = [accepts EXCEPT ![j] = Append(@, n + 2)]
              /\ proc' = [[proc EXCEPT ![i].asks = Tail(@)] EXCEPT ![i].peers = WithSocket(@, k, n + 1)]
  BY <1>11, <1>12
<1> QED
  BY <1>3, <1>9, <1>10, <1>12

(* A step that leaves tables and asks, as far as peers and requests go.    *)
LEMMA CompanySame ==
  ASSUME PeerInv, Company, UNCHANGED <<roster, posted, host, state>>, NEW i \in Processes, Up(i),
         \A j \in Processes : j # i => proc'[j] = proc[j],
         Ids(proc'[i].peers) = Ids(proc[i].peers), proc'[i].asked = proc[i].asked, proc'[i].asks = proc[i].asks
  PROVE  Company'
<1>1. i \in Started /\ \A a \in Started : (Open(a)' => Open(a)) /\ (Up(a)' => Up(a))
  BY DEF Up, Open, Started
<1>2. \A n \in 1 .. Len(proc'[i].asked) : proc'[i].asked[n] \in Started
  BY DEF Company, AskedKnown
<1>3. \A n \in 1 .. Len(proc'[i].asks) :
        \/ \E l \in 1 .. Len(proc[i].asks) : proc[i].asks[l] = proc'[i].asks[n]
        \/ proc'[i].asks[n].peer \in Ids(proc[i].peers)
  OBVIOUS
<1>4. UNCHANGED <<roster, posted, host>> /\ (\A j \in Processes : j # i => proc'[j] = proc[j])
      /\ Ids(proc'[i].peers) = Ids(proc[i].peers)
  OBVIOUS
<1> QED
  BY <1>1, <1>2, <1>3, <1>4, CompanyStays

(* Process i takes message m from socket s, and puts x in queue c.         *)
LEMMA ReadAnswers ==
  ASSUME PeerInv, PeerInv', LinesInv, Company, AnswersInv, NEW i \in Processes, Up(i),
         UNCHANGED <<roster, posted, host, state, accepts, cut>>,
         NEW s \in 1 .. Len(socks), socks[s].in # <<>>, Reads(socks, socks', s),
         NEW m, m = Head(socks[s].in), NEW x \in Messages, x.job = m.job, NEW c \in {"todo", "got"},
         Queue(proc'[i], c) = Append(Queue(proc[i], c), x),
         \A k \in Kinds : k # c => Queue(proc'[i], k) = Queue(proc[i], k),
         proc'[i].peers = proc[i].peers, proc'[i].asked = proc[i].asked, proc'[i].asks = proc[i].asks,
         \A j \in Processes : j # i => proc'[j] = proc[j],
         \A a, d \in Processes : AtHome(<<"in", s>>, m, a, d, socks) => AtHome(<<c, i>>, x, a, d, socks'),
         TasksNew(i, proc, proc', socks', state', cut')
  PROVE  AnswersInv' /\ Company'
<1>1. /\ socks \in Seq(SocketSet) /\ socks' \in Seq(SocketSet) /\ SocksGrow(socks, socks') /\ Len(socks') = Len(socks)
      /\ s \in Sockets
  BY PeerFacts DEF Reads, SocksGrow, Sockets
<1>2. Calm(state, cut, state', cut')
  BY DEF Calm
<1>3. Wires(i, {}, proc, accepts, socks, proc', accepts', socks', state', cut')
  BY <1>1, WiresStay
<1>4. In(socks, s) = socks[s].in /\ In(socks', s) = Tail(In(socks, s)) /\ \A u : u # s => In(socks', u) = In(socks, u)
  <2>1. In(socks, s) = socks[s].in /\ In(socks', s) = Tail(In(socks, s))
    BY <1>1, ReadsIn
  <2>2. \A u : /\ In(socks, u) = IF u \in 1 .. Len(socks) THEN socks[u].in ELSE <<>>
               /\ In(socks', u) = IF u \in 1 .. Len(socks) THEN socks'[u].in ELSE <<>>
    BY <1>1, InIs
  <2> QED
    BY <2>1, <2>2 DEF Reads
<1>5. SignsNew(socks, socks')
  <2>1. \A u : Less(In(socks, u), In(socks', u)) \/ In(socks', u) = Tail(In(socks, u))
    BY <1>4 DEF Less
  <2> QED
    BY <1>1, <2>1, SignsLess
<1>6. /\ c \in Kinds /\ <<c, i>> \in Places /\ LinesOf(proc', socks')[<<c, i>>] = Append(Queue(proc[i], c), x)
      /\ LinesOf(proc, socks)[<<"in", s>>] = In(socks, s) /\ LinesOf(proc', socks')[<<"in", s>>] = In(socks', s)
      /\ Full(proc') /\ Queue(proc[i], c) \in Lines
  <2>1. c \in Kinds
    BY DEF Kinds
  <2> QED
    BY <1>1, <2>1, LinesThen, QueueIs
<1>7. GoesOn(<<"in", s>>, proc, socks, proc', socks', state', cut')
  <2>1. ASSUME NEW a \in Processes, NEW d \in Processes, AtHome(<<"in", s>>, m, a, d, socks)
        PROVE  Held(proc', socks', a, d, m.job)
    <3> DEFINE b == <<c, i>>
    <3>1. AtHome(b, x, a, d, socks') /\ b \in Places /\ LinesOf(proc', socks')[b] = Append(Queue(proc[i], c), x)
      BY <1>6, <2>1
    <3> HIDE DEF b
    <3>2. Held(proc', socks', a, d, x.job)
      BY <1>1, <1>6, <3>1, HeldAt
    <3> QED
      BY <3>2
  <2> QED
    BY <1>4, <1>6, <2>1 DEF GoesOn
<1>8. Carries({}, proc, socks, proc', socks', state', cut')
  <2> DEFINE K == {}
             Y == {s}
             X == {}
  <2>1. \A k \in Kinds : Within(Queue(proc[i], k), Queue(proc'[i], k))
    BY <1>6, QueueIs, WithinIs
  <2>2. \A u \in Sockets : In(socks, u) \in Lines
    BY <1>1, SocketIs DEF In, Lines
  <2>3. /\ \A j \in Processes : j # i => proc'[j] = proc[j]
        /\ \A k \in Kinds \ K : Within(Queue(proc[i], k), Queue(proc'[i], k))
        /\ \A u \in Sockets \ (X \cup Y) : Within(In(socks, u), In(socks', u))
        /\ \A k \in K : GoesOn(<<k, i>>, proc, socks, proc', socks', state', cut')
        /\ \A u \in Y : GoesOn(<<"in", u>>, proc, socks, proc', socks', state', cut')
    BY <1>4, <1>7, <2>1, <2>2, WithinIs
  <2> HIDE DEF K, Y, X
  <2>4. Carries(X, proc, socks, proc', socks', state', cut')
    BY <2>3, CarriesStep
  <2> QED
    BY <2>4 DEF X
<1>9. \A a \in Processes : \A j \in 1 .. Len(proc'[a].asked) :
        \/ j \in 1 .. Len(proc[a].asked) /\ proc'[a].asked[j] = proc[a].asked[j]
        \/ Held(proc', socks', a, proc'[a].asked[j], j)
  BY AskedStays
<1>10. AnswersInv'
  BY <1>2, <1>3, <1>5, <1>8, <1>9, AnsweringStep
<1>11. Company'
  BY CompanySame
<1> QED
  BY <1>10, <1>11

(* Process i gives up the sockets of X, and moves no message.              *)
LEMMA GivenUpAnswers ==
  ASSUME PeerInv, PeerInv', LinesInv, Company, AnswersInv, NEW i \in Processes, NEW X,
         Calm(state, cut, state', cut'),
         Wires(i, X, proc, accepts, socks, proc', accepts', socks', state', cut'),
         \A k \in Kinds : Queue(proc'[i], k) = Queue(proc[i], k), proc'[i].asked = proc[i].asked,
         \A j \in Processes : j # i => proc'[j] = proc[j],
         \A s \in Sockets \ X : In(socks', s) \in {In(socks, s), Append(In(socks, s), EOF)},
         \A s : Less(In(socks, s), In(socks', s))
  PROVE  AnswersInv'
<1>1. Carries(X, proc, socks, proc', socks', state', cut')
  BY CarriesAll
<1>2. SignsNew(socks, socks')
  <2>1. socks \in Seq(SocketSet) /\ socks' \in Seq(SocketSet)
    BY LinesThen
  <2> QED
    BY <2>1, SignsLess
<1>3. TasksNew(i, proc, proc', socks', state', cut')
  <2>1. \A k \in Tasks : Queue(proc'[i], k) \in {Queue(proc[i], k), <<>>}
    BY DEF Tasks, Kinds
  <2> QED
    BY <2>1, WorldIs, TasksLess
<1>4. \A a \in Processes : \A j \in 1 .. Len(proc'[a].asked) :
        \/ j \in 1 .. Len(proc[a].asked) /\ proc'[a].asked[j] = proc[a].asked[j]
        \/ Held(proc', socks', a, proc'[a].asked[j], j)
  BY AskedStays
<1> QED
  BY <1>1, <1>2, <1>3, <1>4, AnsweringStep

-----------------------------------------------------------------------------
(* Process i reads the end of the stream from the socket s in slot k, or a *)
(* message, which becomes x in queue c.                                    *)
ReadsEnd(i, k, s) ==
  /\ Rewired(proc[i].peers, proc'[i].peers, k, -1) /\ Closes(socks, socks', s, WatchedSocket(Mate(s)))
  /\ cut' = cut \cup Cuts({s}) /\ \A c \in Kinds : Queue(proc'[i], c) = Queue(proc[i], c)
ReadsMessage(i, s, c, x) ==
  /\ Reads(socks, socks', s) /\ UNCHANGED cut /\ proc'[i].peers = proc[i].peers
  /\ Queue(proc'[i], c) = Append(Queue(proc[i], c), x)
  /\ \A l \in Kinds : l # c => Queue(proc'[i], l) = Queue(proc[i], l)

LEMMA NetReadsIs ==
  ASSUME PeerInv, LinesInv, NEW i \in Processes, NetReads(i)
  PROVE  /\ Up(i) /\ UNCHANGED <<roster, posted, host, state, accepts>>
         /\ proc'[i].asked = proc[i].asked /\ proc'[i].asks = proc[i].asks
         /\ \A j \in Processes : j # i => proc'[j] = proc[j]
         /\ \E k \in Used(proc[i].peers) :
              LET e == proc[i].peers.slots[k]
                  s == e.sock
                  m == Head(socks[s].in)
                  r == [m EXCEPT !.peer = e.id]
              IN  /\ s \in 1 .. Len(socks) /\ s # -1 /\ socks[s].of = i /\ socks[s].in # <<>>
                  /\ \/ ReadsEnd(i, k, s)
                     \/ /\ m \in Messages /\ m.type = "ask" /\ r \in Messages /\ r.type = "ask"
                        /\ r.job = m.job /\ r.origin = m.origin /\ r.peer = e.id /\ ReadsMessage(i, s, "todo", r)
                     \/ m \in Messages /\ m.type = "answer" /\ ReadsMessage(i, s, "got", m)
<1> DEFINE t == proc[i].peers
<1>1. socks \in Seq(SocketSet) /\ Len(socks) % 2 = 0 /\ proc[i] \in Procs /\ t \in Tables
  BY ProcFacts DEF PeerInv, SocksOK
<1>0. Up(i) /\ UNCHANGED <<roster, posted, host, state, accepts>>
  BY DEF NetReads, trackerSide
<1>2. PICK k \in Used(t) :
       LET e == t.slots[k] IN
       /\ e.sock > 0 /\ socks[e.sock].in # <<>>
       /\ LET m == Head(socks[e.sock].in)
              p == CASE m.type = "eof" -> [proc[i] EXCEPT !.peers = WithSocket(@, k, -1)]
                     [] m.type = "ask" -> [proc[i] EXCEPT !.todo = Append(@, [m EXCEPT !.peer = e.id])]
                     [] m.type = "answer" -> [proc[i] EXCEPT !.got = Append(@, m)]
          IN  /\ proc' = [proc EXCEPT ![i] = p]
              /\ IF m.type = "eof"
                   THEN socks' = Shut(e.sock) /\ cut' = cut \cup Cuts({e.sock})
                   ELSE socks' = [socks EXCEPT ![e.sock].in = Tail(@)] /\ UNCHANGED cut
  BY DEF NetReads
<1> DEFINE e == t.slots[k]
           s == e.sock
           m == Head(socks[s].in)
           r == [m EXCEPT !.peer = e.id]
<1>3. s \in 1 .. Len(socks) /\ s # -1 /\ socks[s].of = i
  BY <1>2, SlotSocket DEF Own
<1>4. socks[s].in # <<>> /\ m \in Tokens /\ Reads(socks, [socks EXCEPT ![s].in = Tail(@)], s)
  BY <1>1, <1>2, <1>3, ReadsIs
<1>5. /\ e.id \in Processes
      /\ \/ m = EOF
         \/ m \in Messages /\ m.type = "ask"
         \/ m \in Messages /\ m.type = "answer"
  BY <1>2, ReadFits
<1>6. proc[i].todo \in Seq(Messages) /\ proc[i].got \in Seq(Messages)
  BY <1>1, ProcParts
<1> DEFINE G == /\ proc'[i].asked = proc[i].asked /\ proc'[i].asks = proc[i].asks
                /\ \A j \in Processes : j # i => proc'[j] = proc[j]
                /\ \/ ReadsEnd(i, k, s)
                   \/ /\ m \in Messages /\ m.type = "ask" /\ r \in Messages /\ r.type = "ask"
                      /\ r.job = m.job /\ r.origin = m.origin /\ r.peer = e.id /\ ReadsMessage(i, s, "todo", r)
                   \/ m \in Messages /\ m.type = "answer" /\ ReadsMessage(i, s, "got", m)
<1>7. ASSUME m = EOF PROVE G
  <2> DEFINE u == WithSocket(t, k, -1)
             p == [proc[i] EXCEPT !.peers = u]
  <2>1. m.type = "eof"
    BY <1>7, TokenIs
  <2>2. proc' = [proc EXCEPT ![i] = p] /\ socks' = Shut(s) /\ cut' = cut \cup Cuts({s})
    BY <1>2, <2>1
  <2>3. Rewired(t, u, k, -1) /\ u \in Tables
    <3>1. -1 \in Int
      OBVIOUS
    <3> HIDE DEF t
    <3>2. Rewired(t, u, k, -1)
      BY <1>1, <3>1, WithSocketIs
    <3> QED
      BY <3>2 DEF Rewired
  <2> HIDE DEF u
  <2>4. /\ p.peers = u /\ p.asked = proc[i].asked /\ p.asks = proc[i].asks /\ p.todo = proc[i].todo
        /\ p.answers = proc[i].answers /\ p.got = proc[i].got
    BY <1>1, <2>3, WithPeers
  <2> HIDE DEF p, s
  <2>5. proc'[i] = p /\ \A j \in Processes : j # i => proc'[j] = proc[j]
    BY <2>2, PutAt DEF PeerInv, TypeInv
  <2>6. Closes(socks, socks', s, WatchedSocket(Mate(s)))
    BY <1>1, <1>3, <2>2, ShutIs
  <2>7. ReadsEnd(i, k, s)
    BY <2>2, <2>3, <2>4, <2>5, <2>6 DEF ReadsEnd, Queue
  <2> QED
    BY <2>4, <2>5, <2>7
<1>8. ASSUME m \in Messages /\ m.type = "ask" PROVE G
  <2> DEFINE q == Append(proc[i].todo, r)
             p == [proc[i] EXCEPT !.todo = q]
             c == "todo"
  <2>1. proc' = [proc EXCEPT ![i] = p] /\ socks' = [socks EXCEPT ![s].in = Tail(@)] /\ UNCHANGED cut
    BY <1>2, <1>8
  <2>2. Reads(socks, socks', s)
    BY <1>4, <2>1
  <2> HIDE DEF s, m, e
  <2>3. r \in Messages /\ r.type = "ask" /\ r.job = m.job /\ r.origin = m.origin /\ r.peer = e.id
    BY <1>5, <1>8, RenamedIs
  <2> HIDE DEF r
  <2>5. q \in Seq(Messages)
    BY <1>6, <2>3, AppendProperties
  <2>6. /\ p.asked = proc[i].asked /\ p.asks = proc[i].asks /\ p.todo = Append(proc[i].todo, r)
        /\ p.answers = proc[i].answers /\ p.got = proc[i].got /\ p.peers = proc[i].peers
    BY <1>1, <2>5, WithQueue
  <2> HIDE DEF p
  <2>7. proc'[i] = p /\ \A j \in Processes : j # i => proc'[j] = proc[j]
    BY <2>1, PutAt DEF PeerInv, TypeInv
  <2>8. ReadsMessage(i, s, c, r)
    BY <2>1, <2>2, <2>6, <2>7 DEF ReadsMessage, Queue, Kinds
  <2> QED
    BY <1>8, <2>3, <2>6, <2>7, <2>8
<1>9. ASSUME m \in Messages /\ m.type = "answer" PROVE G
  <2> DEFINE q == Append(proc[i].got, m)
             p == [proc[i] EXCEPT !.got = q]
             c == "got"
  <2>1. proc' = [proc EXCEPT ![i] = p] /\ socks' = [socks EXCEPT ![s].in = Tail(@)] /\ UNCHANGED cut
    BY <1>2, <1>9
  <2>2. Reads(socks, socks', s)
    BY <1>4, <2>1
  <2> HIDE DEF s, m, e
  <2>5. q \in Seq(Messages)
    BY <1>6, <1>9, AppendProperties
  <2>6. /\ p.asked = proc[i].asked /\ p.asks = proc[i].asks /\ p.todo = proc[i].todo
        /\ p.answers = proc[i].answers /\ p.got = Append(proc[i].got, m) /\ p.peers = proc[i].peers
    BY <1>1, <2>5, WithQueue
  <2> HIDE DEF p
  <2>7. proc'[i] = p /\ \A j \in Processes : j # i => proc'[j] = proc[j]
    BY <2>1, PutAt DEF PeerInv, TypeInv
  <2>8. ReadsMessage(i, s, c, m)
    BY <2>1, <2>2, <2>6, <2>7 DEF ReadsMessage, Queue, Kinds
  <2> QED
    BY <1>9, <2>6, <2>7, <2>8
<1>10. G
  BY <1>5, <1>7, <1>8, <1>9
<1> QED
  BY <1>0, <1>3, <1>4, <1>10

(* One task more, from where it can be answered. *)
LEMMA TasksMore ==
  ASSUME NEW i \in Processes, NEW P, Full(P), NEW Q, NEW R, NEW su, NEW cu, NEW x,
         Queue(Q[i], "todo") = Append(Queue(P[i], "todo"), x), Queue(Q[i], "answers") = Queue(P[i], "answers"),
         Reaches(Q[i].peers, x.peer, x.origin, R)
  PROVE  TasksNew(i, P, Q, R, su, cu)
<1> SUFFICES ASSUME NEW k \in Tasks, NEW n \in 1 .. Len(Queue(Q[i], k))
             PROVE  LET m == Queue(Q[i], k)[n] IN
                    \/ \E l \in Tasks : \E r \in 1 .. Len(Queue(P[i], l)) :
                         Queue(P[i], l)[r].origin = m.origin /\ Queue(P[i], l)[r].peer = m.peer
                    \/ Together(i, m.origin, su, cu) => Reaches(Q[i].peers, m.peer, m.origin, R)
  BY DEF TasksNew
<1>1. CASE k = "answers"
  BY <1>1
<1>2. CASE k = "todo"
  <2> DEFINE q == Queue(P[i], "todo")
             r == Queue(Q[i], "todo")
  <2>1. q \in Seq(Messages)
    BY ProcParts DEF Full, Queue
  <2>2. r = Append(q, x) /\ n \in 1 .. Len(r)
    BY <1>2
  <2> HIDE DEF q, r
  <2>3. \/ n = Len(q) + 1 /\ r[n] = x
        \/ n \in 1 .. Len(q) /\ r[n] = q[n]
    BY <2>1, <2>2, AppendHas
  <2>4. CASE n = Len(q) + 1 /\ r[n] = x
    BY <1>2, <2>4 DEF r
  <2>5. CASE n \in 1 .. Len(q) /\ r[n] = q[n]
    BY <1>2, <2>5 DEF q, r
  <2> QED
    BY <2>3, <2>4, <2>5
<1> QED
  BY <1>1, <1>2 DEF Tasks

LEMMA ReadsAskAnswers ==
  ASSUME PeerInv, PeerInv', LinesInv, Company, AnswersInv, NEW i \in Processes, Up(i),
         UNCHANGED <<roster, posted, host, state, accepts>>,
         proc'[i].asked = proc[i].asked, proc'[i].asks = proc[i].asks,
         \A j \in Processes : j # i => proc'[j] = proc[j],
         NEW k \in Used(proc[i].peers), NEW s \in 1 .. Len(socks), s = proc[i].peers.slots[k].sock, s # -1,
         socks[s].of = i, socks[s].in # <<>>, NEW m \in Messages, m = Head(socks[s].in), m.type = "ask",
         NEW x \in Messages, x.type = "ask", x.job = m.job, x.origin = m.origin,
         x.peer = proc[i].peers.slots[k].id, ReadsMessage(i, s, "todo", x)
  PROVE  AnswersInv' /\ Company'
<1>1. Reads(socks, socks', s) /\ UNCHANGED cut /\ proc'[i].peers = proc[i].peers
      /\ Queue(proc'[i], "todo") = Append(Queue(proc[i], "todo"), x)
      /\ \A l \in Kinds : l # "todo" => Queue(proc'[i], l) = Queue(proc[i], l)
  BY DEF ReadsMessage
<1>2. socks[Mate(s)].of = m.origin
  <2> DEFINE q == socks[s].in
  <2>1. q \in Seq(Tokens) /\ q # <<>> /\ m = Head(q)
    BY WorldIs, SocketIs DEF Lines
  <2>2. 1 \in 1 .. Len(q) => Signs(q[1], s, socks)
    BY DEF AnswersInv, Signed
  <2> HIDE DEF q
  <2>3. 1 \in 1 .. Len(q) /\ q[1] = m
    <3>1. Len(q) \in Nat \ {0}
      BY ONLY <2>1, EmptySeq
    <3> QED
      BY ONLY <2>1, <3>1
  <2> QED
    BY <2>2, <2>3 DEF Signs
<1>3. Reaches(proc'[i].peers, x.peer, x.origin, socks')
  <2>1. socks'[Mate(s)].of = socks[Mate(s)].of
    <3> DEFINE R == socks'
    <3>1. SocksGrow(socks, R) /\ SocksOK(socks, host) /\ s \in 1 .. Len(socks)
      BY <1>1, WorldIs DEF Reads
    <3> HIDE DEF R
    <3>2. R[Mate(s)].of = socks[Mate(s)].of
      BY ONLY <3>1, SocketsStay
    <3> QED
      BY <3>2 DEF R
  <2> QED
    BY <1>1, <1>2, <2>1 DEF Reaches
<1>4. TasksNew(i, proc, proc', socks', state', cut')
  <2>1. Queue(proc'[i], "answers") = Queue(proc[i], "answers")
    BY <1>1 DEF Kinds
  <2>2. Full(proc)
    BY WorldIs
  <2> QED
    BY <1>1, <1>3, <2>1, <2>2, TasksMore
<1>5. \A a, d \in Processes : AtHome(<<"in", s>>, m, a, d, socks) => AtHome(<<"todo", i>>, x, a, d, socks')
  BY DEF AtHome
<1> DEFINE c == "todo"
<1>6. /\ c \in {"todo", "got"} /\ UNCHANGED <<roster, posted, host, state, accepts, cut>>
      /\ Reads(socks, socks', s) /\ proc'[i].peers = proc[i].peers
      /\ Queue(proc'[i], c) = Append(Queue(proc[i], c), x)
      /\ \A l \in Kinds : l # c => Queue(proc'[i], l) = Queue(proc[i], l)
      /\ \A a, d \in Processes : AtHome(<<"in", s>>, m, a, d, socks) => AtHome(<<c, i>>, x, a, d, socks')
  BY <1>1, <1>5
<1> HIDE DEF c
<1> QED
  BY <1>4, <1>6, ReadAnswers

LEMMA ReadsAnswerAnswers ==
  ASSUME PeerInv, PeerInv', LinesInv, Company, AnswersInv, NEW i \in Processes, Up(i),
         UNCHANGED <<roster, posted, host, state, accepts>>,
         proc'[i].asked = proc[i].asked, proc'[i].asks = proc[i].asks,
         \A j \in Processes : j # i => proc'[j] = proc[j],
         NEW s \in 1 .. Len(socks), socks[s].of = i, socks[s].in # <<>>,
         NEW m \in Messages, m = Head(socks[s].in), m.type = "answer", ReadsMessage(i, s, "got", m)
  PROVE  AnswersInv' /\ Company'
<1>1. Reads(socks, socks', s) /\ UNCHANGED cut /\ proc'[i].peers = proc[i].peers
      /\ Queue(proc'[i], "got") = Append(Queue(proc[i], "got"), m)
      /\ \A l \in Kinds : l # "got" => Queue(proc'[i], l) = Queue(proc[i], l)
  BY DEF ReadsMessage
<1>2. TasksNew(i, proc, proc', socks', state', cut')
  <2>1. Full(proc) /\ \A k \in Tasks : Queue(proc'[i], k) \in {Queue(proc[i], k), <<>>}
    BY <1>1, WorldIs DEF Tasks, Kinds
  <2> QED
    BY <2>1, TasksLess
<1>3. \A a, d \in Processes : AtHome(<<"in", s>>, m, a, d, socks) => AtHome(<<"got", i>>, m, a, d, socks')
  BY DEF AtHome, Tasks
<1> DEFINE c == "got"
<1>4. /\ c \in {"todo", "got"} /\ UNCHANGED <<roster, posted, host, state, accepts, cut>>
      /\ Reads(socks, socks', s) /\ proc'[i].peers = proc[i].peers /\ m.job = m.job
      /\ Queue(proc'[i], c) = Append(Queue(proc[i], c), m)
      /\ \A l \in Kinds : l # c => Queue(proc'[i], l) = Queue(proc[i], l)
      /\ \A a, d \in Processes : AtHome(<<"in", s>>, m, a, d, socks) => AtHome(<<c, i>>, m, a, d, socks')
  BY <1>1, <1>3
<1> HIDE DEF c
<1> QED
  BY <1>2, <1>4, ReadAnswers

-----------------------------------------------------------------------------
(* Sockets given up. *)
LEMMA GivenUpIn ==
  ASSUME NEW S \in Seq(SocketSet), NEW R
  PROVE  /\ \A s, w : Closes(S, R, s, w) =>
              \A u \in Sockets \ {s} : In(R, u) \in {In(S, u), Append(In(S, u), EOF)}
         /\ \A X : Drops(S, R, X) => \A u \in Sockets \ X : In(R, u) \in {In(S, u), Append(In(S, u), EOF)}
<1>1. ASSUME NEW s, NEW w, Closes(S, R, s, w), NEW u \in Sockets \ {s}
      PROVE  In(R, u) \in {In(S, u), Append(In(S, u), EOF)}
  <2>1. Len(R) = Len(S) /\ \A x \in 1 .. Len(S) :
          R[x].in = IF x = s THEN <<>> ELSE IF w /\ x = Mate(s) THEN Append(S[x].in, EOF) ELSE S[x].in
    BY <1>1 DEF Closes
  <2>2. u # s
    BY <1>1
  <2> QED
    BY <2>1, <2>2 DEF In
<1>2. ASSUME NEW X, Drops(S, R, X), NEW u \in Sockets \ X
      PROVE  In(R, u) \in {In(S, u), Append(In(S, u), EOF)}
  BY <1>2 DEF Drops, In
<1> QED
  BY <1>1, <1>2

LEMMA LostIs ==
  ASSUME NEW X, X \subseteq 1 .. Len(socks), cut' = cut \cup Cuts(X)
  PROVE  Lost(X, socks, cut')
BY DEF Lost, Cuts

(* Socket z in slot k of process i, in the place of one given up.          *)
LEMMA RewiredWires ==
  ASSUME PeerInv, NEW i \in Processes, NEW k \in Used(proc[i].peers), NEW z,
         Rewired(proc[i].peers, proc'[i].peers, k, z), \A j \in Processes : j # i => proc'[j] = proc[j],
         SocksGrow(socks, socks'), Len(socks') = Len(socks), NEW X, Lost(X, socks, cut'),
         proc[i].peers.slots[k].sock \in X \cup {-1},
         z = -1 \/ (Together(i, proc[i].peers.slots[k].id, state', cut') =>
                      socks'[Mate(z)].of = proc[i].peers.slots[k].id),
         \A j \in Processes : \A n \in 1 .. Len(accepts[j]) :
           accepts[j][n] \in X \/ Hung(proc'[j].peers, accepts'[j], accepts[j][n])
  PROVE  Wires(i, X, proc, accepts, socks, proc', accepts', socks', state', cut')
<1> DEFINE t == proc[i].peers
           u == proc'[i].peers
<1>1. /\ Used(u) = Used(t)
      /\ \A l \in Used(t) : u.slots[l].id = t.slots[l].id
                            /\ u.slots[l].sock = IF l = k THEN z ELSE t.slots[l].sock
  BY DEF Rewired
<1> HIDE DEF t, u
<1>2. ASSUME NEW l \in Used(t)
      PROVE  \/ t.slots[l].sock \in X \cup {-1}
             \/ \E r \in Used(u) : SameEntry(t, l, u, r)
  BY <1>1, <1>2 DEF SameEntry, t
<1>3. ASSUME NEW l \in Used(u)
      PROVE  \/ u.slots[l].sock = -1
             \/ \E r \in Used(t) : SameEntry(t, r, u, l)
             \/ Together(i, u.slots[l].id, state', cut') => socks'[Mate(u.slots[l].sock)].of = u.slots[l].id
  <2>1. CASE l # k
    BY <1>1, <2>1 DEF SameEntry
  <2>2. CASE l = k
    <3>1. u.slots[l].sock = z /\ u.slots[l].id = t.slots[k].id
      BY <1>1, <2>2 DEF t
    <3>2. z = -1 \/ (Together(i, t.slots[k].id, state', cut') => socks'[Mate(z)].of = t.slots[k].id)
      BY DEF t
    <3> QED
      BY <3>1, <3>2
  <2> QED
    BY <2>1, <2>2
<1>4. Len(socks) \in Nat
  BY PeerFacts
<1> QED
  BY <1>2, <1>3, <1>4 DEF Wires, t, u

(* The tables stay. *)
LEMMA SameWires ==
  ASSUME PeerInv, NEW i \in Processes, UNCHANGED proc,
         SocksGrow(socks, socks'), Len(socks') = Len(socks), NEW X, Lost(X, socks, cut'),
         \A j \in Processes : \A n \in 1 .. Len(accepts[j]) :
           accepts[j][n] \in X \/ Hung(proc'[j].peers, accepts'[j], accepts[j][n])
  PROVE  Wires(i, X, proc, accepts, socks, proc', accepts', socks', state', cut')
<1> DEFINE t == proc[i].peers
<1>1. \A l \in Used(t) : SameEntry(t, l, t, l)
  BY DEF SameEntry
<1>2. Len(socks) \in Nat
  BY PeerFacts
<1> QED
  BY <1>1, <1>2 DEF Wires

LEMMA ReadsEndAnswers ==
  ASSUME PeerInv, PeerInv', LinesInv, Company, AnswersInv, NEW i \in Processes, Up(i),
         UNCHANGED <<roster, posted, host, state, accepts>>,
         proc'[i].asked = proc[i].asked, proc'[i].asks = proc[i].asks,
         \A j \in Processes : j # i => proc'[j] = proc[j],
         NEW k \in Used(proc[i].peers), NEW s \in 1 .. Len(socks), s = proc[i].peers.slots[k].sock,
         ReadsEnd(i, k, s)
  PROVE  AnswersInv' /\ Company'
<1>1. /\ Rewired(proc[i].peers, proc'[i].peers, k, -1) /\ Closes(socks, socks', s, WatchedSocket(Mate(s)))
      /\ cut' = cut \cup Cuts({s}) /\ \A c \in Kinds : Queue(proc'[i], c) = Queue(proc[i], c)
  BY DEF ReadsEnd
<1> DEFINE X == {s}
           z == -1
<1>2. SocksGrow(socks, socks') /\ Len(socks') = Len(socks)
  BY <1>1 DEF Closes
<1>3. Lost(X, socks, cut')
  BY <1>1, LostIs
<1>4. Wires(i, X, proc, accepts, socks, proc', accepts', socks', state', cut')
  <2>1. proc[i].peers.slots[k].sock \in X \cup {-1}
    OBVIOUS
  <2>2. z = -1 /\ Rewired(proc[i].peers, proc'[i].peers, k, z)
    BY <1>1
  <2>3. \A j \in Processes : \A n \in 1 .. Len(accepts[j]) :
          accepts[j][n] \in X \/ Hung(proc'[j].peers, accepts'[j], accepts[j][n])
    BY DEF Hung
  <2> HIDE DEF X, z
  <2> QED
    BY <1>2, <1>3, <2>1, <2>2, <2>3, RewiredWires
<1>5. Calm(state, cut, state', cut')
  BY <1>1 DEF Calm
<1>6. socks \in Seq(SocketSet)
  BY PeerFacts
<1>7. \A u \in Sockets \ X : In(socks', u) \in {In(socks, u), Append(In(socks, u), EOF)}
  BY <1>1, <1>6, GivenUpIn
<1>8. \A u : Less(In(socks, u), In(socks', u))
  BY <1>1, <1>6, ClosesIn
<1> HIDE DEF X
<1>9. AnswersInv'
  BY <1>1, <1>4, <1>5, <1>7, <1>8, GivenUpAnswers
<1>10. Ids(proc'[i].peers) = Ids(proc[i].peers)
  BY <1>1, ProcFacts, RewiredOK
<1> QED
  BY <1>9, <1>10, CompanySame

(* A request that is read can be answered on the connection it came on,    *)
(* for the slot leads to its sender; an answer is there.                   *)
LEMMA NetReadsAnswers ==
  ASSUME PeerInv, PeerInv', LinesInv, Company, AnswersInv, NEW i \in Processes, NetReads(i)
  PROVE  AnswersInv' /\ Company'
<1>1. /\ Up(i) /\ UNCHANGED <<roster, posted, host, state, accepts>>
      /\ proc'[i].asked = proc[i].asked /\ proc'[i].asks = proc[i].asks
      /\ \A j \in Processes : j # i => proc'[j] = proc[j]
  BY NetReadsIs
<1>2. PICK k \in Used(proc[i].peers) :
        LET e == proc[i].peers.slots[k]
            s == e.sock
            m == Head(socks[s].in)
            r == [m EXCEPT !.peer = e.id]
        IN  /\ s \in 1 .. Len(socks) /\ s # -1 /\ socks[s].of = i /\ socks[s].in # <<>>
            /\ \/ ReadsEnd(i, k, s)
               \/ /\ m \in Messages /\ m.type = "ask" /\ r \in Messages /\ r.type = "ask"
                  /\ r.job = m.job /\ r.origin = m.origin /\ r.peer = e.id /\ ReadsMessage(i, s, "todo", r)
               \/ m \in Messages /\ m.type = "answer" /\ ReadsMessage(i, s, "got", m)
  BY NetReadsIs
<1> DEFINE s == proc[i].peers.slots[k].sock
           m == Head(socks[s].in)
           x == [m EXCEPT !.peer = proc[i].peers.slots[k].id]
<1>3. /\ s \in 1 .. Len(socks) /\ s # -1 /\ socks[s].of = i /\ socks[s].in # <<>> /\ m = Head(socks[s].in)
      /\ s = proc[i].peers.slots[k].sock
  BY <1>2
<1>4. \/ ReadsEnd(i, k, s)
      \/ /\ m \in Messages /\ m.type = "ask" /\ x \in Messages /\ x.type = "ask"
         /\ x.job = m.job /\ x.origin = m.origin /\ x.peer = proc[i].peers.slots[k].id
         /\ ReadsMessage(i, s, "todo", x)
      \/ m \in Messages /\ m.type = "answer" /\ ReadsMessage(i, s, "got", m)
  BY <1>2
<1> HIDE DEF s, m, x
<1>5. CASE ReadsEnd(i, k, s)
  BY <1>1, <1>3, <1>5, ReadsEndAnswers
<1>6. CASE /\ m \in Messages /\ m.type = "ask" /\ x \in Messages /\ x.type = "ask"
           /\ x.job = m.job /\ x.origin = m.origin /\ x.peer = proc[i].peers.slots[k].id
           /\ ReadsMessage(i, s, "todo", x)
  BY <1>1, <1>3, <1>6, ReadsAskAnswers
<1>7. CASE m \in Messages /\ m.type = "answer" /\ ReadsMessage(i, s, "got", m)
  BY <1>1, <1>3, <1>7, ReadsAnswerAnswers
<1> QED
  BY <1>4, <1>5, <1>6, <1>7

-----------------------------------------------------------------------------
(* Process i takes socket s off its backlog: it is closed, or put into     *)
(* slot k.                                                                 *)
AcceptsNot(i, s) ==
  UNCHANGED proc /\ Closes(socks, socks', s, WatchedSocket(Mate(s))) /\ cut' = cut \cup Cuts({s})
AcceptsIn(i, s, k) ==
  LET e == proc[i].peers.slots[k]
      X == {e.sock} \ {-1}
  IN  /\ Rewired(proc[i].peers, proc'[i].peers, k, s) /\ Drops(socks, socks', X)
      /\ cut' = cut \cup Cuts(X) \cup ({{i, e.id}} \ Cuts({s}))
      /\ \A c \in Kinds : Queue(proc'[i], c) = Queue(proc[i], c)
      /\ proc'[i].asked = proc[i].asked /\ proc'[i].asks = proc[i].asks
      /\ \A j \in Processes : j # i => proc'[j] = proc[j]

LEMMA NetAcceptsIs ==
  ASSUME PeerInv, NEW i \in Processes, NetAccepts(i)
  PROVE  /\ Up(i) /\ UNCHANGED <<roster, posted, host, state>>
         /\ accepts[i] # <<>> /\ accepts'[i] = Tail(accepts[i])
         /\ \A j \in Processes : j # i => accepts'[j] = accepts[j]
         /\ LET s == Head(accepts[i]) IN
              /\ s \in 1 .. Len(socks) /\ s # -1 /\ socks[s].of = i
              /\ AcceptsNot(i, s) \/ \E k \in Used(proc[i].peers) : AcceptsIn(i, s, k)
<1> DEFINE q == accepts[i]
           s == Head(q)
           t == proc[i].peers
           K == CallersSlots(t, host[socks[Mate(s)].of])
           k == First(K)
           u == WithSocket(t, k, s)
           p == [proc[i] EXCEPT !.peers = u]
           e == t.slots[k]
           X == {e.sock} \ {-1}
<1>1. /\ q # <<>> /\ accepts' = [accepts EXCEPT ![i] = Tail(q)]
      /\ \/ K = {} /\ socks' = Shut(s) /\ UNCHANGED proc /\ cut' = cut \cup Cuts({s})
         \/ /\ K # {} /\ proc' = [proc EXCEPT ![i].peers = WithSocket(@, k, s)]
            /\ socks' = Drained(socks, X) /\ cut' = cut \cup Cuts(X) \cup ({{i, e.id}} \ Cuts({s}))
      /\ UNCHANGED <<roster, posted, host, state>> /\ Up(i)
  BY DEF NetAccepts, trackerSide
<1>2. TypeInv /\ SocksOK(socks, host)
  BY DEF PeerInv
<1>3. proc[i] \in Procs /\ q \in Seq(Nat) /\ t \in Tables /\ Plugged(t, q, i, socks, host)
  BY ProcFacts
<1>4. Own(socks, i, s)
  BY <1>1, <1>3, BacklogIs
<1>5. s \in 1 .. Len(socks) /\ socks[s].of = i /\ s # -1
  BY <1>4 DEF Own
<1>6. accepts'[i] = Tail(q) /\ \A j \in Processes : j # i => accepts'[j] = accepts[j]
  BY <1>1, <1>2 DEF TypeInv
<1> HIDE DEF q, s, t
<1>8. ASSUME K = {}, socks' = Shut(s), UNCHANGED proc, cut' = cut \cup Cuts({s})
      PROVE  AcceptsNot(i, s)
  <2>1. Closes(socks, socks', s, WatchedSocket(Mate(s)))
    BY <1>2, <1>5, <1>8, ShutIs DEF SocksOK
  <2> QED
    BY <1>8, <2>1 DEF AcceptsNot
<1>9. ASSUME K # {}, proc' = [proc EXCEPT ![i].peers = WithSocket(@, k, s)],
             socks' = Drained(socks, X), cut' = cut \cup Cuts(X) \cup ({{i, e.id}} \ Cuts({s}))
      PROVE  \E l \in Used(t) : AcceptsIn(i, s, l)
  <2>1. k \in Used(t)
    <3>1. K = {l \in Used(t) : t.slots[l].host = host[socks[Mate(s)].of]}
      BY DEF CallersSlots, SlotsAt
    <3>2. K \subseteq Nat
      BY <1>3, <3>1, TableIs
    <3>3. k \in K
      BY <1>9, <3>2, FirstIs
    <3> QED
      BY <3>1, <3>3
  <2>2. cut' = cut \cup Cuts(X) \cup ({{i, e.id}} \ Cuts({s})) /\ Drops(socks, socks', X)
    BY <1>2, <1>9, DrainedIs DEF SocksOK
  <2>3. proc' = [proc EXCEPT ![i] = p]
    BY <1>9 DEF t
  <2> HIDE DEF K, k
  <2>4. Rewired(t, u, k, s)
    BY <1>3, <1>5, <2>1, WithSocketIs
  <2>5. u \in Tables
    BY <2>4 DEF Rewired
  <2> HIDE DEF u
  <2>6. /\ p.peers = u /\ p.asked = proc[i].asked /\ p.asks = proc[i].asks /\ p.todo = proc[i].todo
        /\ p.answers = proc[i].answers /\ p.got = proc[i].got
    BY <1>3, <2>5, WithPeers
  <2> HIDE DEF p
  <2>7. proc'[i] = p /\ \A j \in Processes : j # i => proc'[j] = proc[j]
    BY <1>2, <2>3, PutAt DEF TypeInv
  <2>8. \A c \in Kinds : Queue(proc'[i], c) = Queue(proc[i], c)
    BY <2>6, <2>7 DEF Queue
  <2>9. AcceptsIn(i, s, k)
    BY <2>2, <2>4, <2>6, <2>7, <2>8 DEF AcceptsIn, t
  <2> QED
    BY <2>1, <2>9
<1>10. AcceptsNot(i, s) \/ \E l \in Used(t) : AcceptsIn(i, s, l)
  BY <1>1, <1>8, <1>9
<1> QED
  BY <1>1, <1>5, <1>6, <1>10 DEF q, s, t

(* What was in a backlog is, or is the head taken off it. *)
LEMMA BacklogsHung ==
  ASSUME PeerInv, NEW i \in Processes, accepts[i] # <<>>, accepts'[i] = Tail(accepts[i]),
         \A j \in Processes : j # i => accepts'[j] = accepts[j],
         NEW j \in Processes, NEW n \in 1 .. Len(accepts[j])
  PROVE  \/ j = i /\ accepts[j][n] = Head(accepts[i])
         \/ Hung(proc'[j].peers, accepts'[j], accepts[j][n])
<1> DEFINE q == accepts[i]
           r == Tail(q)
<1>1. CASE j # i
  BY <1>1 DEF Hung
<1>2. CASE j = i
  <2>1. q \in Seq(Nat) /\ q # <<>> /\ n \in 1 .. Len(q)
    BY <1>2, ProcFacts
  <2>2. accepts'[i] = r
    OBVIOUS
  <2> HIDE DEF q
  <2>3. Len(q) \in Nat \ {0} /\ Head(q) = q[1] /\ Len(r) = Len(q) - 1 /\ \A l \in 1 .. Len(r) : r[l] = q[l + 1]
    BY <2>1, EmptySeq, HeadTailProperties
  <2>4. \/ n = 1 /\ q[n] = Head(q)
        \/ n - 1 \in 1 .. Len(r) /\ r[n - 1] = q[n]
    <3> HIDE DEF r
    <3>1. CASE n = 1
      BY <2>3, <3>1
    <3>2. CASE n # 1
      <4>1. n - 1 \in 1 .. Len(r) /\ (n - 1) + 1 = n
        BY <2>1, <2>3, <3>2
      <4> QED
        BY <2>3, <4>1
    <3> QED
      BY <3>1, <3>2
  <2> HIDE DEF r
  <2> QED
    BY <1>2, <2>2, <2>4 DEF Hung, q
<1> QED
  BY <1>1, <1>2

LEMMA AcceptsNotAnswers ==
  ASSUME PeerInv, PeerInv', LinesInv, Company, AnswersInv, NEW i \in Processes, Up(i),
         UNCHANGED <<roster, posted, host, state>>, accepts[i] # <<>>, accepts'[i] = Tail(accepts[i]),
         \A j \in Processes : j # i => accepts'[j] = accepts[j],
         NEW s \in 1 .. Len(socks), s = Head(accepts[i]), AcceptsNot(i, s)
  PROVE  AnswersInv' /\ Company'
<1> DEFINE X == {s}
<1>1. UNCHANGED proc /\ Closes(socks, socks', s, WatchedSocket(Mate(s))) /\ cut' = cut \cup Cuts(X)
  BY DEF AcceptsNot
<1>2. SocksGrow(socks, socks') /\ Len(socks') = Len(socks)
  BY <1>1 DEF Closes
<1>3. Lost(X, socks, cut')
  BY <1>1, LostIs
<1>4. Wires(i, X, proc, accepts, socks, proc', accepts', socks', state', cut')
  <2>1. \A j \in Processes : \A n \in 1 .. Len(accepts[j]) :
          accepts[j][n] \in X \/ Hung(proc'[j].peers, accepts'[j], accepts[j][n])
    BY BacklogsHung
  <2> HIDE DEF X
  <2> QED
    BY <1>1, <1>2, <1>3, <2>1, SameWires
<1>5. Calm(state, cut, state', cut')
  BY <1>1 DEF Calm
<1>6. socks \in Seq(SocketSet)
  BY PeerFacts
<1>7. \A u \in Sockets \ X : In(socks', u) \in {In(socks, u), Append(In(socks, u), EOF)}
  BY <1>1, <1>6, GivenUpIn
<1>8. \A u : Less(In(socks, u), In(socks', u))
  BY <1>1, <1>6, ClosesIn
<1> HIDE DEF X
<1>9. /\ \A k \in Kinds : Queue(proc'[i], k) = Queue(proc[i], k)
      /\ proc'[i].asked = proc[i].asked /\ proc'[i].asks = proc[i].asks
      /\ \A j \in Processes : j # i => proc'[j] = proc[j]
      /\ Ids(proc'[i].peers) = Ids(proc[i].peers)
  BY <1>1
<1>10. AnswersInv'
  BY <1>4, <1>5, <1>7, <1>8, <1>9, GivenUpAnswers
<1> QED
  BY <1>9, <1>10, CompanySame

LEMMA AcceptsInAnswers ==
  ASSUME PeerInv, PeerInv', LinesInv, Company, AnswersInv, NEW i \in Processes, Up(i),
         UNCHANGED <<roster, posted, host, state>>, accepts[i] # <<>>, accepts'[i] = Tail(accepts[i]),
         \A j \in Processes : j # i => accepts'[j] = accepts[j],
         NEW s \in 1 .. Len(socks), s = Head(accepts[i]), s # -1, socks[s].of = i,
         NEW k \in Used(proc[i].peers), AcceptsIn(i, s, k)
  PROVE  AnswersInv' /\ Company'
<1> DEFINE e == proc[i].peers.slots[k]
           X == {e.sock} \ {-1}
<1>1. /\ Rewired(proc[i].peers, proc'[i].peers, k, s) /\ Drops(socks, socks', X)
      /\ cut' = cut \cup Cuts(X) \cup ({{i, e.id}} \ Cuts({s}))
      /\ \A c \in Kinds : Queue(proc'[i], c) = Queue(proc[i], c)
      /\ proc'[i].asked = proc[i].asked /\ proc'[i].asks = proc[i].asks
      /\ \A j \in Processes : j # i => proc'[j] = proc[j]
  BY DEF AcceptsIn
<1>2. SocksGrow(socks, socks') /\ Len(socks') = Len(socks)
  BY <1>1 DEF Drops
<1>3. Lost(X, socks, cut')
  <2>1. X \subseteq 1 .. Len(socks)
    <3>1. Plugged(proc[i].peers, accepts[i], i, socks, host)
      BY ProcFacts
    <3> QED
      BY <3>1 DEF Plugged, Own
  <2>2. Cuts(X) \subseteq cut'
    BY <1>1
  <2> QED
    BY <2>1, <2>2 DEF Lost, Cuts
<1>4. Together(i, e.id, state', cut') => socks'[Mate(s)].of = e.id
  <2> SUFFICES ASSUME Together(i, e.id, state', cut') PROVE socks'[Mate(s)].of = e.id
    OBVIOUS
  <2>1. {i, e.id} \in Cuts({s})
    BY <1>1 DEF Together
  <2>2. {i, e.id} = {i, socks[Mate(s)].of}
    BY <2>1 DEF Cuts
  <2>3. socks[Mate(s)].of = e.id
    BY <2>2
  <2>4. socks'[Mate(s)].of = socks[Mate(s)].of
    <3> DEFINE R == socks'
    <3>1. SocksGrow(socks, R) /\ SocksOK(socks, host) /\ s \in 1 .. Len(socks)
      BY <1>2, WorldIs
    <3> HIDE DEF R
    <3>2. R[Mate(s)].of = socks[Mate(s)].of
      BY ONLY <3>1, SocketsStay
    <3> QED
      BY <3>2 DEF R
  <2> QED
    BY <2>3, <2>4
<1>5. Wires(i, X, proc, accepts, socks, proc', accepts', socks', state', cut')
  <2>1. ASSUME NEW j \in Processes, NEW n \in 1 .. Len(accepts[j])
        PROVE  Hung(proc'[j].peers, accepts'[j], accepts[j][n])
    <3>1. CASE j = i /\ accepts[j][n] = s
      BY <1>1, <3>1 DEF Hung, Rewired
    <3>2. CASE Hung(proc'[j].peers, accepts'[j], accepts[j][n])
      BY <3>2
    <3> QED
      BY <3>1, <3>2, BacklogsHung
  <2>2. e.sock \in X \cup {-1}
    OBVIOUS
  <2> HIDE DEF X
  <2> QED
    BY <1>1, <1>2, <1>3, <1>4, <2>1, <2>2, RewiredWires
<1>6. Calm(state, cut, state', cut')
  BY <1>1 DEF Calm
<1>7. socks \in Seq(SocketSet) /\ Drops(socks, socks', X)
  BY <1>1, PeerFacts
<1> HIDE DEF X
<1>8. \A u \in Sockets \ X : In(socks', u) \in {In(socks, u), Append(In(socks, u), EOF)}
  BY <1>7, GivenUpIn
<1>9. \A u : Less(In(socks, u), In(socks', u))
  BY <1>7, DropsIn
<1>10. AnswersInv'
  BY <1>1, <1>5, <1>6, <1>8, <1>9, GivenUpAnswers
<1>11. Ids(proc'[i].peers) = Ids(proc[i].peers)
  BY <1>1, ProcFacts, RewiredOK
<1> QED
  BY <1>1, <1>10, <1>11, CompanySame

(* A connection that is accepted stands in the slot of who opened it, or   *)
(* process and slot have lost touch.                                       *)
LEMMA NetAcceptsAnswers ==
  ASSUME PeerInv, PeerInv', LinesInv, Company, AnswersInv, NEW i \in Processes, NetAccepts(i)
  PROVE  AnswersInv' /\ Company'
<1> DEFINE s == Head(accepts[i])
<1>1. /\ Up(i) /\ UNCHANGED <<roster, posted, host, state>>
      /\ accepts[i] # <<>> /\ accepts'[i] = Tail(accepts[i])
      /\ \A j \in Processes : j # i => accepts'[j] = accepts[j]
      /\ s \in 1 .. Len(socks) /\ s # -1 /\ socks[s].of = i /\ s = Head(accepts[i])
      /\ AcceptsNot(i, s) \/ \E k \in Used(proc[i].peers) : AcceptsIn(i, s, k)
  BY NetAcceptsIs
<1> HIDE DEF s
<1>2. CASE AcceptsNot(i, s)
  BY <1>1, <1>2, AcceptsNotAnswers
<1>3. ASSUME NEW k \in Used(proc[i].peers), AcceptsIn(i, s, k)
      PROVE  AnswersInv' /\ Company'
  BY <1>1, <1>3, AcceptsInAnswers
<1> QED
  BY <1>1, <1>2, <1>3

-----------------------------------------------------------------------------
(* With a new table, process i gives up all its connections. *)
LEMMA NetTableAnswers ==
  ASSUME PeerInv, PeerInv', LinesInv, Company, AnswersInv, NEW i \in Processes, NetTable(i)
  PROVE  AnswersInv' /\ Company'
<1> DEFINE X == InTable(i)
           t == proc[i].peers
           u == proc'[i].peers
<1>1. /\ UNCHANGED accepts /\ \A k \in Used(u) : u.slots[k].sock = -1
      /\ proc'[i].asked = proc[i].asked
      /\ \A k \in Kinds : Queue(proc'[i], k) = Queue(proc[i], k)
      /\ \A j \in Processes : j # i => proc'[j] = proc[j]
      /\ Drops(socks, socks', X) /\ cut' = cut \cup Cuts(X)
      /\ state' = state \/ state' = [state EXCEPT ![i] = "astray"]
  BY NetTableIs
<1>2. socks \in Seq(SocketSet) /\ DOMAIN socks = 1 .. Len(socks) /\ Len(socks) \in Nat
  BY PeerFacts
<1>3. SocksGrow(socks, socks') /\ Len(socks') = Len(socks)
  BY <1>1 DEF Drops
<1>4. Lost(X, socks, cut')
  <2>1. X \subseteq 1 .. Len(socks)
    BY <1>2 DEF InTable
  <2> HIDE DEF X
  <2> QED
    BY <1>1, <2>1, LostIs
<1>5. ASSUME NEW k \in Used(t)
      PROVE  t.slots[k].sock \in X \cup {-1}
  <2>1. t \in Tables /\ Plugged(t, accepts[i], i, socks, host)
    BY ProcFacts
  <2>2. t.slots[k] \in Entries(t)
    BY <2>1, EntryIs
  <2>3. t.slots[k].sock # -1 => t.slots[k].sock \in 1 .. Len(socks)
    BY <2>1 DEF Plugged, Own
  <2> QED
    BY <1>2, <2>2, <2>3 DEF InTable
<1> HIDE DEF X
<1>6. Wires(i, X, proc, accepts, socks, proc', accepts', socks', state', cut')
  <2>1. \A j \in Processes : \A n \in 1 .. Len(accepts[j]) : Hung(proc'[j].peers, accepts'[j], accepts[j][n])
    BY <1>1 DEF Hung
  <2> HIDE DEF t, u
  <2> QED
    BY <1>1, <1>2, <1>3, <1>4, <1>5, <2>1 DEF Wires, t, u
<1>7. Calm(state, cut, state', cut')
  BY <1>1 DEF Calm
<1>8. \A s \in Sockets \ X : In(socks', s) \in {In(socks, s), Append(In(socks, s), EOF)}
  BY <1>1, <1>2, GivenUpIn
<1>9. \A s : Less(In(socks, s), In(socks', s))
  BY <1>1, <1>2, DropsIn
<1>10. AnswersInv'
  BY <1>1, <1>6, <1>7, <1>8, <1>9, GivenUpAnswers
<1> QED
  BY <1>10, TableCompany

(* The tracker's steps. *)
LEMMA TellsAnswers ==
  ASSUME PeerInv, PeerInv', LinesInv, Company, AnswersInv, NEW i \in Processes, TrackerTells(i)
  PROVE  AnswersInv' /\ Company'
<1>1. UNCHANGED <<proc, accepts, socks, cut>> /\ \A a \in Started : state'[a] = state[a]
  BY DEF TrackerTells
<1> QED
  BY <1>1, TrackerAnswers, TellsCompany

LEMMA LosesAnswers ==
  ASSUME PeerInv, PeerInv', LinesInv, Company, AnswersInv, NEW i \in Processes, TrackerLoses(i)
  PROVE  AnswersInv' /\ Company'
<1>1. UNCHANGED <<proc, accepts, socks, cut>> /\ \A a \in Started : state'[a] = state[a]
  BY DEF TrackerLoses
<1> QED
  BY <1>1, TrackerAnswers, LosesCompany

LEMMA StartsAnswers ==
  ASSUME PeerInv, PeerInv', LinesInv, Company, AnswersInv, NEW h \in Hosts, Starts(h)
  PROVE  AnswersInv' /\ Company'
<1>1. UNCHANGED <<proc, accepts, socks, cut>>
  BY DEF Starts
<1>2. \A a \in Started : state'[a] = state[a]
  BY StartsIs
<1> QED
  BY <1>1, <1>2, TrackerAnswers, StartsCompany

(* A process that ends loses touch with all. *)
LEMMA EndsWires ==
  ASSUME PeerInv, PeerInv', NEW i \in Processes, Ends(i), NEW X, X = {s \in 1 .. Len(socks) : socks[s].of = i}
  PROVE  /\ Wires(i, X, proc, accepts, socks, proc', accepts', socks', state', cut')
         /\ \A s \in Sockets \ X : In(socks', s) \in {In(socks, s), Append(In(socks, s), EOF)}
         /\ \A s : Less(In(socks, s), In(socks', s))
<1>1. /\ Used(proc'[i].peers) = {} /\ \A j \in Processes : j # i => proc'[j] = proc[j]
      /\ accepts'[i] = <<>> /\ \A j \in Processes : j # i => accepts'[j] = accepts[j]
      /\ \E H : ClosesAll(socks, socks', i, H)
      /\ cut' = cut \cup {{i, j} : j \in Processes}
  BY EndsIs
<1>2. PICK H : ClosesAll(socks, socks', i, H)
  BY <1>1
<1>3. socks \in Seq(SocketSet) /\ Len(socks) \in Nat /\ SocksOK(socks, host)
  BY PeerFacts, WorldIs
<1>4. SocksGrow(socks, socks') /\ Len(socks') = Len(socks)
  BY <1>2 DEF ClosesAll
<1>5. Lost(X, socks, cut')
  <2> SUFFICES ASSUME NEW s \in X
               PROVE  s \in 1 .. Len(socks) /\ {socks[s].of, socks[Mate(s)].of} \in cut'
    BY DEF Lost
  <2>1. s \in 1 .. Len(socks) /\ socks[s].of = i
    OBVIOUS
  <2>2. Mate(s) \in 1 .. Len(socks)
    BY <1>3, <2>1, MateIs DEF SocksOK
  <2>3. socks[Mate(s)].of \in Processes
    BY <1>3, <2>2, SocketIs
  <2> QED
    BY <1>1, <2>1, <2>3
<1>6. Plugged(proc[i].peers, accepts[i], i, socks, host)
  BY ProcFacts
<1>7. \A k \in Used(proc[i].peers) : proc[i].peers.slots[k].sock \in X \cup {-1}
  BY <1>6 DEF Plugged, Own
<1>8. \A j \in Processes : \A n \in 1 .. Len(accepts[j]) :
        accepts[j][n] \in X \/ Hung(proc'[j].peers, accepts'[j], accepts[j][n])
  <2> SUFFICES ASSUME NEW j \in Processes, NEW n \in 1 .. Len(accepts[j])
               PROVE  accepts[j][n] \in X \/ Hung(proc'[j].peers, accepts'[j], accepts[j][n])
    OBVIOUS
  <2>1. CASE j = i
    BY <1>6, <2>1 DEF Plugged, Own
  <2>2. CASE j # i
    BY <1>1, <2>2 DEF Hung
  <2> QED
    BY <2>1, <2>2
<1>9. \A s : s \in 1 .. Len(socks) /\ s \notin X => socks[s].of # i
  OBVIOUS
<1>10. Wires(i, X, proc, accepts, socks, proc', accepts', socks', state', cut')
  BY <1>1, <1>3, <1>4, <1>5, <1>7, <1>8 DEF Wires
<1>11. \A s \in Sockets \ X : In(socks', s) \in {In(socks, s), Append(In(socks, s), EOF)}
  BY <1>2, <1>9 DEF ClosesAll, In
<1>12. \A s : Less(In(socks, s), In(socks', s))
  BY <1>2, <1>3, ClosesAllIn
<1> QED
  BY <1>10, <1>11, <1>12

LEMMA EndsCarries ==
  ASSUME PeerInv, PeerInv', NEW i \in Processes, i \in Started, state' = [state EXCEPT ![i] = "gone"],
         \A j \in Processes : j # i => proc'[j] = proc[j], NEW X,
         \A s \in Sockets \ X : In(socks', s) \in {In(socks, s), Append(In(socks, s), EOF)}
  PROVE  Carries(X, proc, socks, proc', socks', state', cut')
<1> DEFINE P == proc
           S == socks
           Q == proc'
           R == socks'
           su == state'
           cu == cut'
           F == LinesOf(P, S)
           G == LinesOf(Q, R)
<1>1. Full(P) /\ Full(Q) /\ S \in Seq(SocketSet) /\ R \in Seq(SocketSet)
  BY LinesThen
<1>2. su[i] = "gone"
  BY PeerFacts
<1>3. \A s \in Sockets \ X : Within(In(S, s), In(R, s))
  <2>1. \A s \in Sockets : In(socks, s) \in Lines
    BY PeerFacts, SocketIs DEF In, Lines
  <2> QED
    BY <2>1, WithinIs
<1>4. \A j \in Processes : j # i => Q[j] = P[j]
  OBVIOUS
<1> HIDE DEF P, S, Q, R, su, cu
<1> SUFFICES ASSUME NEW p \in Places, NEW n \in 1 .. Len(F[p]), F[p][n] \in Messages
             PROVE  \/ \E l \in 1 .. Len(G[p]) : G[p][l] = F[p][n]
                    \/ p[1] = "in" /\ p[2] \in X
                    \/ \A a, d \in Processes :
                         AtHome(p, F[p][n], a, d, S) /\ Together(a, d, su, cu) => Held(Q, R, a, d, F[p][n].job)
  BY DEF Carries, P, S, Q, R, su, cu
<1>5. CASE \E k \in Kinds : p = <<k, i>>
  <2>1. p[1] \in Kinds /\ p[2] = i
    BY <1>5
  <2>2. ASSUME NEW a \in Processes, NEW d \in Processes, AtHome(p, F[p][n], a, d, S), Together(a, d, su, cu)
        PROVE  FALSE
    <3>1. i \in {a, d}
      <4> HIDE DEF F
      <4> QED
        BY <2>1, <2>2 DEF AtHome, Kinds, Tasks
    <3> QED
      BY <1>2, <2>2, <3>1 DEF Together
  <2> QED
    BY <2>2
<1>6. CASE \E s \in X : p = <<"in", s>>
  BY <1>6
<1>7. CASE ~(\E k \in Kinds : p = <<k, i>>) /\ ~(\E s \in X : p = <<"in", s>>)
  <2> DEFINE K == Kinds
  <2>1. /\ \A k \in Kinds \ K : Within(Queue(P[i], k), Queue(Q[i], k))
        /\ \A k \in K : p # <<k, i>>
        /\ \A s \in X : p # <<"in", s>>
    BY <1>7
  <2> HIDE DEF K, F, G
  <2>2. Within(LinesOf(P, S)[p], LinesOf(Q, R)[p])
    BY <1>1, <1>3, <1>4, <2>1, PlacesWithin
  <2> QED
    BY <2>2 DEF Within, F, G
<1> QED
  BY <1>5, <1>6, <1>7

LEMMA EndsAnswers ==
  ASSUME PeerInv, PeerInv', LinesInv, Company, AnswersInv, NEW i \in Processes, Ends(i)
  PROVE  AnswersInv' /\ Company'
<1> DEFINE X == {s \in 1 .. Len(socks) : socks[s].of = i}
<1>1. /\ i \in Started /\ state' = [state EXCEPT ![i] = "gone"]
      /\ proc'[i].asked = proc[i].asked /\ \A k \in Kinds : Queue(proc'[i], k) = <<>>
      /\ \A j \in Processes : j # i => proc'[j] = proc[j]
      /\ cut' = cut \cup {{i, j} : j \in Processes}
  BY EndsIs
<1>2. X = {s \in 1 .. Len(socks) : socks[s].of = i}
  OBVIOUS
<1> HIDE DEF X
<1>3. /\ Wires(i, X, proc, accepts, socks, proc', accepts', socks', state', cut')
      /\ \A s \in Sockets \ X : In(socks', s) \in {In(socks, s), Append(In(socks, s), EOF)}
      /\ \A s : Less(In(socks, s), In(socks', s))
  BY <1>2, EndsWires
<1>4. Calm(state, cut, state', cut')
  BY <1>1 DEF Calm
<1>5. Carries(X, proc, socks, proc', socks', state', cut')
  BY <1>1, <1>3, EndsCarries
<1>6. SignsNew(socks, socks')
  <2>1. socks \in Seq(SocketSet) /\ socks' \in Seq(SocketSet)
    BY LinesThen
  <2> QED
    BY <1>3, <2>1, SignsLess
<1>7. TasksNew(i, proc, proc', socks', state', cut')
  <2>1. Full(proc) /\ \A k \in Tasks : Queue(proc'[i], k) \in {Queue(proc[i], k), <<>>}
    BY <1>1, WorldIs DEF Tasks, Kinds
  <2> QED
    BY <2>1, TasksLess
<1>8. \A a \in Processes : \A j \in 1 .. Len(proc'[a].asked) :
        \/ j \in 1 .. Len(proc[a].asked) /\ proc'[a].asked[j] = proc[a].asked[j]
        \/ Held(proc', socks', a, proc'[a].asked[j], j)
  BY <1>1, AskedStays
<1>9. AnswersInv'
  BY <1>3, <1>4, <1>5, <1>6, <1>7, <1>8, AnsweringStep
<1> QED
  BY <1>9, EndsCompany

-----------------------------------------------------------------------------
(***************************************************************************)
(* The theorem                                                             *)
(***************************************************************************)
LEMMA AnswersInit ==
  ASSUME PeerInit
  PROVE  AnswersInv /\ Company
<1>1. /\ socks = <<>> /\ host = <<>> /\ \A i \in Processes : proc[i] = Process
      /\ Started = {}
  BY DEF PeerInit, Started
<1>2. ASSUME NEW i \in Processes
      PROVE  /\ Used(proc[i].peers) = {} /\ proc[i].asked = <<>> /\ proc[i].asks = <<>>
             /\ \A k \in Kinds : Queue(proc[i], k) = <<>>
  <2>1. InitialSize \in Nat
    BY PeerNetworkAssumption
  <2>2. Used(NewTable(InitialSize)) = {}
    BY <2>1, NewTableIs
  <2> QED
    BY <1>1, <2>2 DEF Process, Queue
<1>3. Linked(proc, accepts, socks, state, cut) /\ Signed(socks)
  BY <1>1 DEF Linked, Signed
<1>4. RightSlots(proc, socks, state, cut)
  BY <1>2 DEF RightSlots
<1>5. TasksReach(proc, socks, state, cut)
  <2>1. \A i \in Processes : \A k \in Tasks : Queue(proc[i], k) = <<>>
    BY <1>2 DEF Tasks, Kinds
  <2> QED
    BY <2>1 DEF TasksReach
<1>6. Kept(proc, socks, state, cut)
  BY <1>2 DEF Kept
<1>7. OneOpen /\ OpenKept
  BY <1>1 DEF OneOpen, OpenKept
<1>8. Unborn /\ AskedKnown
  BY <1>2 DEF Unborn, AskedKnown
<1> QED
  BY <1>3, <1>4, <1>5, <1>6, <1>7, <1>8 DEF AnswersInv, Company

LEMMA PeerNextAnswers ==
  ASSUME PeerInv, LinesInv, Company, AnswersInv, [PeerNext]_peerVars
  PROVE  AnswersInv' /\ Company'
<1>1. PeerInv'
  BY PeerNextKeeps
<1>2. CASE UNCHANGED peerVars
  <2>1. UNCHANGED <<roster, most, told, posted, host, state, proc, accepts, socks, cut>>
    BY <1>2 DEF peerVars, trackerSide
  <2>2. AnswersInv'
    BY <2>1 DEF AnswersInv
  <2>3. OneOpen' /\ Unborn' /\ AskedKnown'
    BY <2>1 DEF Company, OneOpen, Unborn, AskedKnown, Started, Open
  <2>4. OpenKept'
    BY <2>1 DEF Company, OpenKept, Started, Open, Up
  <2> QED
    BY <2>2, <2>3, <2>4 DEF Company
<1>3. CASE \E h \in Hosts : Starts(h)
  BY <1>1, <1>3, StartsAnswers
<1>4. ASSUME NEW i \in Processes,
             \/ TrackerTells(i) \/ TrackerLoses(i)
             \/ NetAccepts(i) \/ NetTable(i) \/ NetReads(i) \/ NetAsks(i) \/ NetAnswers(i)
             \/ \E d \in Processes : LogicAsks(i, d)
             \/ LogicAnswers(i) \/ Ends(i)
      PROVE  AnswersInv' /\ Company'
  BY <1>1, <1>4, TellsAnswers, LosesAnswers, NetAcceptsAnswers, NetTableAnswers, NetReadsAnswers,
     NetAsksAnswers, NetAnswersAnswers, LogicAsksAnswers, LogicAnswersAnswers, EndsAnswers
<1> QED
  BY <1>2, <1>3, <1>4 DEF PeerNext

(* Nothing waits at a socket that is watched by a process at rest. *)
LEMMA RestIsEmpty ==
  ASSUME PeerInv, AnswersInv, \A i \in Started : Up(i) => AtRest(i),
         NEW s \in 1 .. Len(socks), Together(socks[s].of, socks[Mate(s)].of, state, cut)
  PROVE  socks[s].in = <<>>
<1> DEFINE d == socks[s].of
<1>1. Watched(d, s)
  BY LinkedWatched DEF WatchedSocket
<1>2. AtRest(d)
  BY PeerFacts DEF Together, Up
<1>3. accepts[d] = <<>> /\ \A x \in InTable(d) : socks[x].in = <<>>
  BY <1>2 DEF AtRest
<1>4. s \notin ToSet(accepts[d])
  BY <1>3 DEF ToSet
<1> QED
  BY <1>1, <1>3, <1>4 DEF Watched

LEMMA RestIsAnswered ==
  ASSUME PeerInv, LinesInv, AnswersInv
  PROVE  AnsweredAtRest
<1> SUFFICES ASSUME \A i \in Started : Up(i) => AtRest(i),
                    NEW i \in Started, NEW n \in DOMAIN proc[i].asked,
                    {i, proc[i].asked[n]} \notin cut, Up(i), Up(proc[i].asked[n])
             PROVE  \E l \in DOMAIN proc[i].got : proc[i].got[l].origin = i /\ proc[i].got[l].job = n
  BY DEF AnsweredAtRest, Settled
<1> DEFINE d == proc[i].asked[n]
           F == LinesOf(proc, socks)
<1>1. i \in Processes /\ proc[i] \in Procs /\ Full(proc) /\ socks \in Seq(SocketSet)
  BY PeerFacts, ProcFacts, WorldIs
<1>2. n \in 1 .. Len(proc[i].asked) /\ d \in Started /\ d \in Processes
  <2>1. proc[i].asked \in Seq(Processes)
    BY <1>1, ProcParts
  <2> QED
    BY <2>1, PeerFacts DEF Up
<1>3. Together(i, d, state, cut) /\ Together(d, i, state, cut)
  BY PeerFacts DEF Together, Up
<1>4. Held(proc, socks, i, d, n)
  BY <1>1, <1>2, <1>3 DEF AnswersInv, Kept
<1>5. AtRest(i) /\ AtRest(d)
  BY <1>2
<1> HIDE DEF d
<1>6. PICK p \in Places : \E l \in 1 .. Len(F[p]) :
        F[p][l] \in Messages /\ F[p][l].job = n /\ AtHome(p, F[p][l], i, d, socks)
  BY <1>4 DEF Held
<1>7. PICK l \in 1 .. Len(F[p]) :
        F[p][l] \in Messages /\ F[p][l].job = n /\ AtHome(p, F[p][l], i, d, socks)
  BY <1>6
<1> DEFINE m == F[p][l]
<1>8. CASE p \in Kinds \X Processes
  <2>1. PICK k \in Kinds, j \in Processes : p = <<k, j>>
    BY <1>8
  <2>2. F[p] = Queue(proc[j], k)
    BY <1>1, <2>1, LinesAre
  <2>3. m.origin = i /\ m.job = n /\ (k = "asks" => j = i) /\ (k \in Tasks => j = d) /\ (k = "got" => j = i)
    <3> HIDE DEF F
    <3> QED
      BY <1>7, <2>1 DEF AtHome
  <2>4. l \in 1 .. Len(Queue(proc[j], k)) /\ m = Queue(proc[j], k)[l]
    BY <1>7, <2>2
  <2> HIDE DEF m, F
  <2>5. CASE k = "asks"
    BY <1>5, <2>3, <2>4, <2>5 DEF Queue, AtRest
  <2>6. CASE k \in Tasks
    BY <1>5, <2>3, <2>4, <2>6 DEF Queue, AtRest, Tasks
  <2>7. CASE k = "got"
    <3>1. l \in 1 .. Len(proc[i].got) /\ m = proc[i].got[l]
      BY <2>3, <2>4, <2>7 DEF Queue
    <3>2. proc[i].got \in Seq(Messages)
      BY <1>1, ProcParts
    <3> QED
      BY <2>3, <3>1, <3>2
  <2> QED
    BY <2>5, <2>6, <2>7 DEF Kinds, Tasks
<1>9. CASE p \in {"in"} \X Sockets
  <2>1. PICK s \in Sockets : p = <<"in", s>>
    BY <1>9
  <2>2. F[p] = In(socks, s)
    BY <1>1, <2>1, LinesAre
  <2>3. l \in 1 .. Len(In(socks, s))
    BY <1>7, <2>2
  <2>4. s \in 1 .. Len(socks) /\ In(socks, s) = socks[s].in
    BY <2>3 DEF In
  <2>5. \/ socks[s].of = d /\ socks[Mate(s)].of = i
        \/ socks[s].of = i /\ socks[Mate(s)].of = d
    <3>1. m.type \in {"ask", "answer"}
      <4> HIDE DEF F
      <4> QED
        BY <1>7, TokenIs
    <3> HIDE DEF F
    <3> QED
      BY <1>7, <2>1, <3>1 DEF AtHome
  <2>6. socks[s].in = <<>>
    BY <1>3, <2>4, <2>5, RestIsEmpty
  <2> QED
    BY <2>3, <2>4, <2>6
<1> QED
  BY <1>8, <1>9 DEF Places

(* When all queues and connections are empty, every request (REQ_CHUNK)    *)
(* was answered, if asker and asked still run and no connection between    *)
(* them was closed, replaced or forgotten: the tables they get, the        *)
(* connections they open and accept, and the ends and starts of all others *)
(* lose neither a request nor its answer (check_req_chunk_q,               *)
(* handle_peer_msg, check_send_chunk_q and                                 *)
(* clt_network_process_new_connections of network_client.c).               *)
THEOREM RequestsAnswered == PeerSpec => []AnsweredAtRest
<1>1. PeerInit => PeerInv /\ LinesInv /\ AnswersInv /\ Company
  BY PeerInitInv, LinesInit, AnswersInit
<1>2. PeerInv /\ LinesInv /\ AnswersInv /\ Company /\ [PeerNext]_peerVars
        => (PeerInv /\ LinesInv /\ AnswersInv /\ Company)'
  BY PeerNextKeeps, PeerNextLines, PeerNextAnswers
<1>3. PeerInv /\ LinesInv /\ AnswersInv => AnsweredAtRest
  BY RestIsAnswered
<1> QED
  BY <1>1, <1>2, <1>3, PTL DEF PeerSpec
=============================================================================
