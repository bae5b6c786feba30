--------------------------- MODULE ReactorProofs ---------------------------
(***************************************************************************)
(* What the reactor guarantees for any number of clients and descriptors,  *)
(* any send buffer, any requests and any way of sending them ahead: the    *)
(* edge-triggered loop leaves nothing unread without a reason to come      *)
(* back, and a descriptor has the object made for its connection.          *)
(*                                                                         *)
(* Replies are in order because what has arrived, what is buffered and     *)
(* what has been taken always make up the stream of requests (OrderInv),   *)
(* where a reply fits what the kernel takes at once; and a client that     *)
(* waits for each reply has at most one of them under way (CalmInv), so    *)
(* nothing is written to a connection that has been reset.                 *)
(***************************************************************************)
EXTENDS Reactor, TLAPS, SequenceTheorems, FiniteSetTheorems

AnyUnit == Nat \X {"part", "end", "head", "tail"}

(* The types the argument needs.                                           *)
Typed == /\ setting \in Settings
         /\ fdtab \in [Fds -> Clients \cup {Free}]
         /\ ready \subseteq Fds
         /\ batch \subseteq Fds \cup {Listen}
         /\ rpc \in {"wait", "next", "recv", "send"}
         /\ backlog \in Seq(Clients)
         /\ up \in [Clients -> Seq(AnyUnit)]
         /\ asked \in [Clients -> Seq(Kinds)]

(* The clients send what there is to send.                                 *)
LEMMA KindsAreKinds == Typed => setting.kinds \subseteq Kinds
  BY ReactorAssumption DEF Typed

(* Where the loop is, and what it has then. The process closes no          *)
(* descriptor, so each has the object its accept made.                     *)
LoopInv == /\ conns = fdtab
           /\ rpc = "wait" => batch = {}
           /\ rpc \in {"recv", "send"} => cur \in Fds /\ fdtab[cur] # Free
           /\ Listen \in batch => backlog # <<>>

ReactorInv == Typed /\ LoopInv /\ NoLostEdge
-----------------------------------------------------------------------------
(* Every step leaves the state well typed.                                 *)
LEMMA TypedNext == Typed /\ LoopInv /\ [Next]_vars => Typed'
<1> SUFFICES ASSUME Typed, LoopInv, [Next]_vars PROVE Typed'
  OBVIOUS
<1> USE ReactorAssumption DEF Typed, loopVars, netVars, clientVars, objVars
<1>1. CASE EpollWait
  BY <1>1 DEF EpollWait, ListenReady
<1>2. CASE BatchDone \/ AcceptFails \/ RecvEnds \/ SendBlocked \/ SendReset
  BY <1>2 DEF BatchDone, AcceptFails, RecvEnds, SendBlocked, SendReset
<1>3. CASE Recv
  <2>1. Conn \in Clients
    BY <1>3 DEF Recv, Conn, LoopInv
  <2>2. up' \in [Clients -> Seq(AnyUnit)]
    BY <1>3, <2>1 DEF Recv, Drop
  <2>3. rpc' \in {"wait", "next", "recv", "send"}
    BY <1>3 DEF Recv, Task
  <2> QED
    BY <1>3, <2>2, <2>3 DEF Recv
<1>4. CASE Send \/ SendClosed
  BY <1>4 DEF Send, SendClosed, Sent, LoopInv
<1>5. ASSUME NEW f \in Fds, Dispatch(f) PROVE Typed'
  BY <1>5 DEF Dispatch
<1>6. ASSUME NEW f \in Fds, Accept(f) PROVE Typed'
  BY <1>6 DEF Accept, LoopInv
<1>7. ASSUME NEW c \in Clients, Connect(c) \/ GetReply(c) \/ Leave(c) PROVE Typed'
  <2>1. CASE Connect(c)
    BY <2>1 DEF Connect
  <2>2. CASE GetReply(c)
    BY <2>2 DEF GetReply
  <2>3. CASE Leave(c)
    BY <2>3 DEF Leave, Edge
  <2> QED
    BY <1>7, <2>1, <2>2, <2>3
<1>8. ASSUME NEW c \in Clients, NEW q \in Kinds, Ask(c, q) PROVE Typed'
  <2>1. RequestUnits(Len(asked[c]) + 1) \in Seq(AnyUnit)
    BY DEF RequestUnits, AnyUnit
  <2> QED
    BY <1>8, <2>1 DEF Ask, Edge
<1>9. CASE UNCHANGED vars
  BY <1>9 DEF vars
<1> QED
  BY <1>1, <1>2, <1>3, <1>4, <1>5, <1>6, <1>7, <1>8, <1>9, KindsAreKinds
     DEF Next, ServerStep, HandlerStep, ClientStep

(* Every step keeps the loop in order.                                     *)
LEMMA LoopNext == Typed /\ LoopInv /\ [Next]_vars => LoopInv'
<1> SUFFICES ASSUME Typed, LoopInv, [Next]_vars PROVE LoopInv'
  OBVIOUS
<1> USE ReactorAssumption DEF Typed, LoopInv, loopVars, netVars, clientVars, objVars
<1>1. CASE EpollWait
  BY <1>1 DEF EpollWait, ListenReady
<1>2. CASE BatchDone \/ AcceptFails \/ RecvEnds \/ SendBlocked \/ SendReset
  BY <1>2 DEF BatchDone, AcceptFails, RecvEnds, SendBlocked, SendReset
<1>3. CASE Recv
  BY <1>3 DEF Recv, Task
<1>4. CASE Send \/ SendClosed
  BY <1>4 DEF Send, SendClosed, Sent
<1>5. ASSUME NEW f \in Fds, Dispatch(f) PROVE LoopInv'
  BY <1>5 DEF Dispatch
<1>6. ASSUME NEW f \in Fds, Accept(f) PROVE LoopInv'
  BY <1>6 DEF Accept
<1>7. ASSUME NEW c \in Clients, ClientStep(c) PROVE LoopInv'
  BY <1>7 DEF ClientStep, Connect, GetReply, Leave, Ask
<1>8. CASE UNCHANGED vars
  BY <1>8 DEF vars
<1> QED
  BY <1>1, <1>2, <1>3, <1>4, <1>5, <1>6, <1>7, <1>8
     DEF Next, ServerStep, HandlerStep

(* No step loses an edge. epoll_wait moves the edges with something to     *)
(* read into the batch, which was empty; the handler that takes an entry   *)
(* out leaves only when nothing is unread; accept asks the kernel what     *)
(* came before; an arrival is a new edge.                                  *)
LEMMA EdgeNext == Typed /\ LoopInv /\ NoLostEdge /\ [Next]_vars => NoLostEdge'
<1> SUFFICES ASSUME Typed, LoopInv, NoLostEdge, [Next]_vars,
                    NEW f \in Fds, fdtab'[f] # Free, up'[fdtab'[f]] # <<>>
             PROVE  f \in ready' \cup batch' \/ InHandler(f)'
  BY DEF NoLostEdge
<1> DEFINE Goal == f \in ready' \cup batch' \/ InHandler(f)'
<1> SUFFICES Goal
  OBVIOUS
<1>a. fdtab[f] # Free /\ up[fdtab[f]] # <<>> => f \in ready \cup batch \/ InHandler(f)
  BY DEF NoLostEdge
<1> USE DEF Typed, LoopInv, loopVars, netVars, clientVars, objVars, InHandler
<1>1. CASE EpollWait
  BY <1>1, <1>a DEF EpollWait, Readable
<1>2. CASE BatchDone \/ AcceptFails \/ SendBlocked \/ SendReset
  BY <1>2, <1>a DEF BatchDone, AcceptFails, SendBlocked, SendReset
<1>3. CASE RecvEnds
  BY <1>3, <1>a DEF RecvEnds, Conn
<1>4. CASE Recv
  <2>1. CASE f = cur
    BY <1>4, <2>1 DEF Recv, Task
  <2>2. CASE f # cur
    <3>1. fdtab[f] # Free /\ fdtab[f] \in Clients /\ Conn \in Clients
      BY <1>4 DEF Recv, Conn
    <3>2. up[fdtab[f]] # <<>>
      BY <1>4, <3>1 DEF Recv
    <3> QED
      BY <1>4, <1>a, <2>2, <3>1, <3>2 DEF Recv
  <2> QED
    BY <2>1, <2>2
<1>5. CASE Send \/ SendClosed
  BY <1>5, <1>a DEF Send, SendClosed, Sent
<1>6. ASSUME NEW g \in Fds, Dispatch(g) PROVE Goal
  BY <1>6, <1>a DEF Dispatch
<1>7. ASSUME NEW g \in Fds, Accept(g) PROVE Goal
  BY <1>7, <1>a, ReactorAssumption DEF Accept, Readable
<1>8. ASSUME NEW c \in Clients, Connect(c) \/ GetReply(c) \/ Leave(c) PROVE Goal
  BY <1>8, <1>a DEF Connect, GetReply, Leave
<1>9. ASSUME NEW c \in Clients, NEW q \in Kinds, Ask(c, q) PROVE Goal
  BY <1>9, <1>a DEF Ask, Edge
<1>10. CASE UNCHANGED vars
  BY <1>10, <1>a DEF vars
<1> QED
  BY <1>1, <1>2, <1>3, <1>4, <1>5, <1>6, <1>7, <1>8, <1>9, <1>10, KindsAreKinds
     DEF Next, ServerStep, HandlerStep, ClientStep

(* The inductive invariant of the reactor.                                 *)
LEMMA ReactorInvariant == Spec => []ReactorInv
<1>1. Init => ReactorInv
  BY ReactorAssumption DEF Init, ReactorInv, Typed, LoopInv, NoLostEdge
<1>2. ReactorInv /\ [Next]_vars => ReactorInv'
  BY TypedNext, LoopNext, EdgeNext DEF ReactorInv
<1> QED
  BY <1>1, <1>2, PTL DEF Spec
-----------------------------------------------------------------------------
(* What is unread on a registered connection has an edge to come, an entry *)
(* in the batch, or the running handler.                                   *)
THEOREM EdgeNeverLost == Spec => []NoLostEdge
<1>1. ReactorInv => NoLostEdge
  BY DEF ReactorInv
<1> QED
  BY <1>1, ReactorInvariant, PTL

(* The object found under a descriptor was made for its connection.        *)
THEOREM ObjectIsOwn == Spec => []OwnObject
<1>1. ReactorInv => OwnObject
  BY DEF ReactorInv, LoopInv, OwnObject
<1> QED
  BY <1>1, ReactorInvariant, PTL
-----------------------------------------------------------------------------
(* One reply per line, in order. The stream of a client's requests and the *)
(* one of its replies are numbered; what there is of either at any moment  *)
(* is the stretch between two numbers.                                     *)

(* Unit i of a stream of pairs <<k, x>>, <<k, y>>, and units a + 1 to b.   *)
Unit(x, y, i)       == <<(i + 1) \div 2, IF i % 2 = 1 THEN x ELSE y>>
Stretch(x, y, a, b) == [i \in 1 .. (b - a) |-> Unit(x, y, a + i)]

Lines(a, b)   == Stretch("part", "end", a, b)
Answers(a, b) == Stretch("head", "tail", a, b)

(* A connection waits for accept or has one descriptor, and keeps it.      *)
OneHome ==
  /\ \A c \in Clients : cst[c] = "new" =>
       /\ \A f \in Fds : fdtab[f] # c
       /\ \A i \in DOMAIN backlog : backlog[i] # c
  /\ \A i \in DOMAIN backlog, f \in Fds : fdtab[f] # backlog[i]
  /\ \A i, j \in DOMAIN backlog : backlog[i] = backlog[j] => i = j
  /\ \A f, g \in Fds : fdtab[f] = fdtab[g] /\ fdtab[f] # Free => f = g

Homeless(c) == \A f \in Fds : fdtab[f] # c

(* More types, and when a client's end is closed.                          *)
Names  == {"part", "end", "head", "tail"}
Stream == Seq(AnyUnit)

(* d and what follows it, r, are s.                                        *)
Joins(d, r, s) == d \o r = s

TypedToo == /\ inbuf \in [Fds -> Stream]
            /\ outbuf \in [Fds -> Stream]
            /\ down \in [Clients -> Stream]
            /\ rcvd \in [Clients -> Nat]
            /\ cst \in [Clients -> {"new", "on", "ended"}]
            /\ peer \in [Clients -> {"open", "fin", "rst"}]
            /\ \A c \in Clients : peer[c] = "open" <=> cst[c] # "ended"

Sending(f) == rpc = "send" /\ cur = f

(* The object of descriptor f has taken t lines from the input of client   *)
(* c: the rest of the requests are in its buffer and in the kernel, and    *)
(* the replies to the t lines are received, in the kernel, or, only while  *)
(* it sends, in its output buffer.                                         *)
Served(f, c, t) ==
  /\ t <= Len(asked[c])
  /\ Joins(inbuf[f], up[c], Lines(2 * t, 2 * Len(asked[c])))
  /\ cst[c] = "on" /\ c \notin cut =>
       /\ rcvd[c] <= 2 * t
       /\ Joins(down[c], outbuf[f], Answers(rcvd[c], 2 * t))
       /\ ~Sending(f) => outbuf[f] = <<>>

(* A connection that was not accepted yet.                                 *)
Unserved(c) == /\ up[c] = Lines(0, 2 * Len(asked[c]))
               /\ down[c] = <<>>
               /\ rcvd[c] = 0

StreamsInv == /\ \A f \in Fds, c \in Clients : fdtab[f] = c => \E t \in Nat : Served(f, c, t)
              /\ \A c \in Clients : Homeless(c) => Unserved(c)
              /\ \A f \in Fds : fdtab[f] = Free => inbuf[f] = <<>> /\ outbuf[f] = <<>>

(* What holds of the streams as long as the process lives.                 *)
OrderInv == /\ Typed /\ LoopInv
            /\ OneHome
            /\ TypedToo
            /\ alive => StreamsInv

(* Clients that wait for each reply: at most one line is not taken, and no *)
(* reply is on its way while it is, nor while a reply is being sent. So a  *)
(* client that leaves a reply unread leaves no line behind.                *)
Pending(f, c) == Len(inbuf[f]) + Len(up[c])

InStep(f, c) ==
  /\ Pending(f, c) <= 2
  /\ cst[c] = "on" => /\ 2 * Len(asked[c]) <= rcvd[c] + 2
                      /\ Sending(f) => Len(outbuf[f]) = 2
  /\ peer[c] = "fin" /\ Sending(f) => Pending(f, c) = 0
  /\ peer[c] = "rst" => Pending(f, c) = 0 /\ ~Sending(f)

CalmInv == /\ alive
           /\ cut = {}
           /\ \A c \in Clients : \A k \in DOMAIN asked[c] : asked[c][k] # "bad"
           /\ \A f \in Fds, c \in Clients : fdtab[f] = c => InStep(f, c)
           /\ \A c \in Clients : Homeless(c) => Len(asked[c]) <= 1 /\ peer[c] # "rst"
-----------------------------------------------------------------------------
(* Facts about stretches.                                                  *)

(* Units in pairs.                                                         *)
LEMMA UnitPairs == ASSUME NEW x \in Names, NEW y \in Names, NEW k \in Nat
                   PROVE  /\ Unit(x, y, 2 * k + 1) = <<k + 1, x>>
                          /\ Unit(x, y, 2 * k + 2) = <<k + 1, y>>
<1>1. ((2 * k + 1) + 1) \div 2 = k + 1 /\ (2 * k + 1) % 2 = 1
  OBVIOUS
<1>2. ((2 * k + 2) + 1) \div 2 = k + 1 /\ (2 * k + 2) % 2 = 0
  OBVIOUS
<1> QED
  BY <1>1, <1>2 DEF Unit

(* Every number is odd or even.                                            *)
LEMMA Halves == ASSUME NEW i \in Nat, i >= 1
                PROVE  \E k \in Nat : i = 2 * k + 1 \/ i = 2 * k + 2
<1> DEFINE k == (i - 1) \div 2
<1>1. k \in Nat /\ (i = 2 * k + 1 \/ i = 2 * k + 2)
  OBVIOUS
<1> QED
  BY <1>1

LEMMA UnitTyped == ASSUME NEW x \in Names, NEW y \in Names, NEW i \in Nat, i >= 1
                   PROVE  Unit(x, y, i) \in AnyUnit
<1>1. PICK k \in Nat : i = 2 * k + 1 \/ i = 2 * k + 2
  BY Halves
<1>2. Unit(x, y, i) = <<k + 1, x>> \/ Unit(x, y, i) = <<k + 1, y>>
  BY <1>1, UnitPairs
<1> QED
  BY <1>2 DEF AnyUnit, Names

LEMMA StretchTyped == ASSUME NEW x \in Names, NEW y \in Names,
                             NEW a \in Nat, NEW b \in Nat, a <= b
                      PROVE  /\ Stretch(x, y, a, b) \in Stream
                             /\ Len(Stretch(x, y, a, b)) = b - a
                             /\ \A i \in 1 .. (b - a) : Stretch(x, y, a, b)[i] = Unit(x, y, a + i)
<1>1. \A i \in 1 .. (b - a) : Unit(x, y, a + i) \in AnyUnit
  <2> TAKE i \in 1 .. (b - a)
  <2>1. a + i \in Nat /\ a + i >= 1
    OBVIOUS
  <2> QED
    BY <2>1, UnitTyped
<1>2. b - a \in Nat
  OBVIOUS
<1> QED
  BY <1>1, <1>2 DEF Stretch, Stream

LEMMA LinesTyped == ASSUME NEW a \in Nat, NEW b \in Nat, a <= b
                    PROVE  /\ Lines(a, b) \in Stream /\ Len(Lines(a, b)) = b - a
                           /\ \A i \in 1 .. (b - a) : Lines(a, b)[i] = Unit("part", "end", a + i)
<1>1. "part" \in Names /\ "end" \in Names
  BY DEF Names
<1> QED
  BY <1>1, StretchTyped DEF Lines

LEMMA AnswersTyped == ASSUME NEW a \in Nat, NEW b \in Nat, a <= b
                      PROVE  /\ Answers(a, b) \in Stream /\ Len(Answers(a, b)) = b - a
                             /\ \A i \in 1 .. (b - a) : Answers(a, b)[i] = Unit("head", "tail", a + i)
<1>1. "head" \in Names /\ "tail" \in Names
  BY DEF Names
<1> QED
  BY <1>1, StretchTyped DEF Answers

(* A stretch and the next one.                                             *)
LEMMA StretchJoin == ASSUME NEW x \in Names, NEW y \in Names,
                            NEW a \in Nat, NEW b \in Nat, NEW e \in Nat, a <= b, b <= e
                     PROVE  Joins(Stretch(x, y, a, b), Stretch(x, y, b, e), Stretch(x, y, a, e))
<1> DEFINE s == Stretch(x, y, a, b)
           t == Stretch(x, y, b, e)
           r == Stretch(x, y, a, e)
           z == s \o t
<1> HIDE DEF s, t, r, z
<1>1. s \in Stream /\ Len(s) = b - a /\ \A i \in 1 .. (b - a) : s[i] = Unit(x, y, a + i)
  BY StretchTyped DEF s
<1>2. t \in Stream /\ Len(t) = e - b /\ \A i \in 1 .. (e - b) : t[i] = Unit(x, y, b + i)
  BY StretchTyped DEF t
<1>3. r \in Stream /\ Len(r) = e - a /\ \A i \in 1 .. (e - a) : r[i] = Unit(x, y, a + i)
  <2>1. a <= e
    OBVIOUS
  <2> QED
    BY <2>1, StretchTyped DEF r
<1>4. /\ z \in Stream /\ Len(z) = Len(s) + Len(t)
      /\ \A i \in 1 .. (Len(s) + Len(t)) : z[i] = IF i <= Len(s) THEN s[i] ELSE t[i - Len(s)]
  BY <1>1, <1>2, ConcatProperties DEF z, Stream
<1>5. Len(s) + Len(t) = e - a
  BY <1>1, <1>2
<1>6. ASSUME NEW i \in 1 .. (e - a) PROVE z[i] = r[i]
  <2>1. r[i] = Unit(x, y, a + i)
    BY <1>3
  <2>2. CASE i <= b - a
    <3>1. i \in 1 .. (b - a)
      BY <2>2
    <3>2. z[i] = s[i]
      BY <1>1, <1>4, <1>5, <2>2
    <3> QED
      BY <1>1, <2>1, <3>1, <3>2
  <2>3. CASE ~(i <= b - a)
    <3>1. i - (b - a) \in 1 .. (e - b) /\ b + (i - (b - a)) = a + i
      BY <2>3
    <3>2. z[i] = t[i - (b - a)]
      BY <1>1, <1>4, <1>5, <2>3
    <3> QED
      BY <1>2, <2>1, <3>1, <3>2
  <2> QED
    BY <2>2, <2>3
<1>7. z = r
  BY <1>3, <1>4, <1>5, <1>6, SeqEqual DEF Stream
<1> QED
  BY <1>7, Zenon DEF s, t, r, z, Joins

(* What a stretch begins with, and what is left of it.                     *)
LEMMA StretchCut == ASSUME NEW x \in Names, NEW y \in Names,
                           NEW a \in Nat, NEW b \in Nat, a <= b,
                           NEW d \in Stream, NEW r \in Stream,
                           Joins(d, r, Stretch(x, y, a, b))
                    PROVE  /\ Len(d) + Len(r) = b - a
                           /\ \A i \in 1 .. Len(d) : d[i] = Unit(x, y, a + i)
                           /\ \A k \in 0 .. Len(d) :
                                /\ a + k \in 0 .. b
                                /\ Drop(d, k) \in Stream
                                /\ Joins(Drop(d, k), r, Stretch(x, y, a + k, b))
<1> DEFINE s == d \o r
<1> HIDE DEF s
<1>a. s = Stretch(x, y, a, b)
  BY Zenon DEF s, Joins
<1>1. s \in Stream /\ Len(s) = b - a /\ \A i \in 1 .. (b - a) : s[i] = Unit(x, y, a + i)
  BY <1>a, StretchTyped
<1>2. /\ Len(d) \in Nat /\ Len(r) \in Nat
      /\ Len(s) = Len(d) + Len(r)
      /\ \A i \in 1 .. (Len(d) + Len(r)) : s[i] = IF i <= Len(d) THEN d[i] ELSE r[i - Len(d)]
  BY ConcatProperties DEF s, Stream
<1>3. Len(d) + Len(r) = b - a
  BY <1>1, <1>2
<1>4. ASSUME NEW i \in 1 .. Len(d) PROVE d[i] = Unit(x, y, a + i)
  <2>1. i \in 1 .. (b - a) /\ i \in 1 .. (Len(d) + Len(r)) /\ i <= Len(d)
    BY <1>2, <1>3
  <2>2. s[i] = d[i]
    BY <1>2, <2>1
  <2> QED
    BY <1>1, <2>1, <2>2
<1>5. ASSUME NEW k \in 0 .. Len(d)
      PROVE  /\ a + k \in 0 .. b
             /\ Drop(d, k) \in Stream
             /\ Joins(Drop(d, k), r, Stretch(x, y, a + k, b))
  <2> DEFINE e == Drop(d, k)
             t == Stretch(x, y, a + k, b)
             z == e \o r
  <2> HIDE DEF e, t, z
  <2>1. a + k \in 0 .. b /\ a + k \in Nat /\ a + k <= b
    BY <1>2, <1>3
  <2>2. e \in Stream /\ Len(e) = Len(d) - k /\ \A i \in 1 .. (Len(d) - k) : e[i] = d[i + k]
    BY DEF e, Drop, Stream
  <2>3. t \in Stream /\ Len(t) = b - (a + k) /\ \A i \in 1 .. (b - (a + k)) : t[i] = Unit(x, y, (a + k) + i)
    BY <2>1, StretchTyped DEF t
  <2>4. /\ z \in Stream /\ Len(z) = Len(e) + Len(r)
        /\ \A i \in 1 .. (Len(e) + Len(r)) : z[i] = IF i <= Len(e) THEN e[i] ELSE r[i - Len(e)]
    BY <2>2, ConcatProperties DEF z, Stream
  <2>5. Len(e) + Len(r) = b - (a + k)
    BY <1>2, <1>3, <2>2
  <2>6. ASSUME NEW i \in 1 .. (b - (a + k)) PROVE z[i] = t[i]
    <3>1. i + k \in 1 .. (b - a) /\ a + (i + k) = (a + k) + i
      BY <2>1
    <3>2. t[i] = s[i + k]
      BY <1>1, <2>3, <3>1
    <3>3. z[i] = IF i <= Len(d) - k THEN e[i] ELSE r[i - (Len(d) - k)]
      BY <2>2, <2>4, <2>5
    <3>4. s[i + k] = IF i + k <= Len(d) THEN d[i + k] ELSE r[(i + k) - Len(d)]
      BY <1>2, <1>3, <3>1
    <3>5. CASE i + k <= Len(d)
      <4>1. i \in 1 .. (Len(d) - k) /\ i <= Len(d) - k
        BY <1>2, <3>5
      <4> QED
        BY <2>2, <3>2, <3>3, <3>4, <3>5, <4>1
    <3>6. CASE ~(i + k <= Len(d))
      <4>1. ~(i <= Len(d) - k) /\ (i + k) - Len(d) = i - (Len(d) - k)
        BY <1>2, <3>6
      <4> QED
        BY <3>2, <3>3, <3>4, <3>6, <4>1
    <3> QED
      BY <3>5, <3>6
  <2>7. z = t
    BY <2>3, <2>4, <2>5, <2>6, SeqEqual DEF Stream
  <2> QED
    BY <2>1, <2>2, <2>7, Zenon DEF e, t, z, Joins
<1> QED
  BY <1>3, <1>4, <1>5

(* The same for lines and answers.                                         *)
LEMMA LinesJoin == ASSUME NEW a \in Nat, NEW b \in Nat, NEW e \in Nat, a <= b, b <= e
                   PROVE  Joins(Lines(a, b), Lines(b, e), Lines(a, e))
<1>1. "part" \in Names /\ "end" \in Names
  BY DEF Names
<1> QED
  BY <1>1, StretchJoin DEF Lines

LEMMA AnswersJoin == ASSUME NEW a \in Nat, NEW b \in Nat, NEW e \in Nat, a <= b, b <= e
                     PROVE  Joins(Answers(a, b), Answers(b, e), Answers(a, e))
<1>1. "head" \in Names /\ "tail" \in Names
  BY DEF Names
<1> QED
  BY <1>1, StretchJoin DEF Answers

LEMMA LinesCut == ASSUME NEW a \in Nat, NEW b \in Nat, a <= b,
                         NEW d \in Stream, NEW r \in Stream, Joins(d, r, Lines(a, b))
                  PROVE  /\ Len(d) + Len(r) = b - a
                         /\ \A i \in 1 .. Len(d) : d[i] = Unit("part", "end", a + i)
                         /\ \A k \in 0 .. Len(d) :
                              /\ a + k \in 0 .. b
                              /\ Drop(d, k) \in Stream
                              /\ Joins(Drop(d, k), r, Lines(a + k, b))
<1>1. "part" \in Names /\ "end" \in Names
  BY DEF Names
<1> QED
  BY <1>1, StretchCut DEF Lines

LEMMA AnswersCut == ASSUME NEW a \in Nat, NEW b \in Nat, a <= b,
                           NEW d \in Stream, NEW r \in Stream, Joins(d, r, Answers(a, b))
                    PROVE  /\ Len(d) + Len(r) = b - a
                           /\ \A k \in 0 .. Len(d) :
                                /\ a + k \in 0 .. b
                                /\ Drop(d, k) \in Stream
                                /\ Joins(Drop(d, k), r, Answers(a + k, b))
<1>1. "head" \in Names /\ "tail" \in Names
  BY DEF Names
<1> QED
  BY <1>1, StretchCut DEF Answers

(* A stretch of one pair, and an empty one.                                *)
LEMMA StretchPair == ASSUME NEW x \in Names, NEW y \in Names, NEW k \in Nat
                     PROVE  << <<k + 1, x>>, <<k + 1, y>> >> = Stretch(x, y, 2 * k, 2 * k + 2)
<1> DEFINE a == 2 * k
           b == 2 * k + 2
           s == Stretch(x, y, a, b)
           t == << <<k + 1, x>>, <<k + 1, y>> >>
<1>1. a \in Nat /\ b \in Nat /\ a <= b /\ b - a = 2
  OBVIOUS
<1>2. Unit(x, y, a + 1) = <<k + 1, x>> /\ Unit(x, y, a + 2) = <<k + 1, y>>
  BY UnitPairs
<1>3. t \in Stream /\ Len(t) = 2 /\ t[1] = <<k + 1, x>> /\ t[2] = <<k + 1, y>>
  BY DEF Stream, AnyUnit, Names
<1> HIDE DEF a, b, s, t
<1>4. s \in Stream /\ Len(s) = b - a /\ \A i \in 1 .. (b - a) : s[i] = Unit(x, y, a + i)
  BY <1>1, StretchTyped DEF s
<1>5. 1 \in 1 .. (b - a) /\ 2 \in 1 .. (b - a)
  BY <1>1
<1>6. s[1] = <<k + 1, x>> /\ s[2] = <<k + 1, y>>
  BY <1>2, <1>4, <1>5
<1>7. \A i \in 1 .. Len(t) : t[i] = s[i]
  <2> TAKE i \in 1 .. Len(t)
  <2>1. i = 1 \/ i = 2
    BY <1>3
  <2> QED
    BY <1>3, <1>6, <2>1
<1>8. t = s
  BY <1>1, <1>3, <1>4, <1>7, SeqEqual DEF Stream
<1> QED
  BY <1>8 DEF a, b, s, t

LEMMA StretchEmpty == ASSUME NEW x \in Names, NEW y \in Names, NEW a \in Nat
                      PROVE  Stretch(x, y, a, a) = <<>>
<1>1. a - a = 0
  OBVIOUS
<1> QED
  BY <1>1 DEF Stretch

(* A request, and a reply whose _outbuffer was empty.                      *)
LEMMA RequestIsLine == ASSUME NEW k \in Nat
                       PROVE  RequestUnits(k + 1) = Lines(2 * k, 2 * k + 2)
BY StretchPair DEF RequestUnits, Lines, Names

LEMMA ReplyIsAnswer == ASSUME NEW k \in Nat
                       PROVE  << <<k + 1, "head">> >> \o <<>> \o << <<k + 1, "tail">> >>
                                = Answers(2 * k, 2 * k + 2)
<1> DEFINE h == << <<k + 1, "head">> >>
           e == << <<k + 1, "tail">> >>
           w == << <<k + 1, "head">>, <<k + 1, "tail">> >>
           z == h \o e
<1>1. h \in Stream /\ Len(h) = 1 /\ h[1] = <<k + 1, "head">>
  BY DEF Stream, AnyUnit
<1>2. e \in Stream /\ Len(e) = 1 /\ e[1] = <<k + 1, "tail">>
  BY DEF Stream, AnyUnit
<1>3. w \in Stream /\ Len(w) = 2 /\ w[1] = <<k + 1, "head">> /\ w[2] = <<k + 1, "tail">>
  BY DEF Stream, AnyUnit
<1>4. w = Answers(2 * k, 2 * k + 2)
  BY StretchPair DEF Answers, Names
<1> HIDE DEF h, e, w, z
<1>5. /\ z \in Stream /\ Len(z) = Len(h) + Len(e)
      /\ \A i \in 1 .. (Len(h) + Len(e)) : z[i] = IF i <= Len(h) THEN h[i] ELSE e[i - Len(h)]
  BY <1>1, <1>2, ConcatProperties DEF z, Stream
<1>6. \A i \in 1 .. Len(w) : w[i] = z[i]
  <2> TAKE i \in 1 .. Len(w)
  <2>1. i \in 1 .. (Len(h) + Len(e)) /\ (i = 1 \/ i = 2)
    BY <1>1, <1>2, <1>3
  <2> QED
    BY <1>1, <1>2, <1>3, <1>5, <2>1
<1>7. z = w
  BY <1>1, <1>2, <1>3, <1>5, <1>6, SeqEqual DEF Stream
<1>8. h \o <<>> = h
  BY <1>1, ConcatEmptySeq DEF Stream
<1>9. h \o <<>> \o e = z
  BY <1>8, Zenon DEF z
<1> QED
  BY <1>4, <1>7, <1>9 DEF h, e

(* Cutting a stream in two loses nothing.                                  *)
LEMMA CutInTwo == ASSUME NEW s \in Stream, NEW k \in 0 .. Len(s)
                  PROVE  /\ Take(s, k) \in Stream /\ Len(Take(s, k)) = k
                         /\ Drop(s, k) \in Stream /\ Len(Drop(s, k)) = Len(s) - k
                         /\ Joins(Take(s, k), Drop(s, k), s)
<1> DEFINE p == Take(s, k)
           r == Drop(s, k)
           z == p \o r
<1> HIDE DEF p, r, z
<1>1. p \in Stream /\ Len(p) = k /\ \A i \in 1 .. k : p[i] = s[i]
  BY DEF p, Take, Stream
<1>2. r \in Stream /\ Len(r) = Len(s) - k /\ \A i \in 1 .. (Len(s) - k) : r[i] = s[i + k]
  BY DEF r, Drop, Stream
<1>3. /\ z \in Stream /\ Len(z) = Len(p) + Len(r)
      /\ \A i \in 1 .. (Len(p) + Len(r)) : z[i] = IF i <= Len(p) THEN p[i] ELSE r[i - Len(p)]
  BY <1>1, <1>2, ConcatProperties DEF z, Stream
<1>4. Len(s) \in Nat /\ Len(p) + Len(r) = Len(s)
  BY <1>1, <1>2 DEF Stream
<1>5. ASSUME NEW i \in 1 .. Len(s) PROVE z[i] = s[i]
  <2>1. CASE i <= k
    BY <1>1, <1>3, <1>4, <2>1
  <2>2. CASE ~(i <= k)
    <3>1. i - k \in 1 .. (Len(s) - k) /\ (i - k) + k = i
      BY <1>4, <2>2
    <3>2. z[i] = r[i - k]
      BY <1>1, <1>3, <1>4, <2>2
    <3> QED
      BY <1>2, <3>1, <3>2
  <2> QED
    BY <2>1, <2>2
<1>6. z = s
  BY <1>3, <1>4, <1>5, SeqEqual DEF Stream
<1> QED
  BY <1>1, <1>2, <1>6, Zenon DEF p, r, z, Joins

(* Joining streams.                                                        *)
LEMMA JoinTyped == ASSUME NEW d \in Stream, NEW r \in Stream
                   PROVE  /\ d \o r \in Stream /\ Joins(d, r, d \o r)
                          /\ Len(d) \in Nat
BY ConcatProperties DEF Stream, Joins

LEMMA Regroup == ASSUME NEW d \in Stream, NEW h \in Stream, NEW u \in Stream,
                        NEW x, NEW y, NEW z, Joins(d, h, x), Joins(h, u, y)
                 PROVE  Joins(x, u, z) <=> Joins(d, y, z)
<1>1. (d \o h) \o u = d \o (h \o u)
  BY ConcatProperties, ConcatAssociative DEF Stream
<1> QED
  BY <1>1, Zenon DEF Joins

LEMMA EmptyStream == <<>> \in Stream /\ \A d \in Stream : Len(d) = 0 => d = <<>>
  BY DEF Stream

LEMMA JoinEmpty == ASSUME NEW d \in Stream, NEW s
                   PROVE  /\ Joins(d, <<>>, s) <=> d = s
                          /\ Joins(<<>>, d, s) <=> d = s
<1>1. d \o <<>> = d /\ <<>> \o d = d
  BY ConcatEmptySeq DEF Stream
<1> QED
  BY <1>1, Zenon DEF Joins

(* In the beginning of a stretch of lines the first line, if it is whole,  *)
(* ends with the second unit.                                              *)
LEMMA FirstLine == ASSUME NEW t \in Nat, NEW s \in Stream,
                          \A i \in 1 .. Len(s) : s[i] = Unit("part", "end", 2 * t + i)
                   PROVE  /\ HasLine(s) <=> Len(s) >= 2
                          /\ HasLine(s) => FirstEnd(s) = 2 /\ s[2] = <<t + 1, "end">>
<1>1. DOMAIN s = 1 .. Len(s) /\ Len(s) \in Nat
  BY DEF Stream
<1>2. Unit("part", "end", 2 * t + 1) = <<t + 1, "part">> /\ Unit("part", "end", 2 * t + 2) = <<t + 1, "end">>
  BY UnitPairs DEF Names
<1>3. 1 \in DOMAIN s => s[1][2] = "part"
  BY <1>1, <1>2
<1>4. 2 \in DOMAIN s => s[2] = <<t + 1, "end">>
  BY <1>1, <1>2
<1>5. 1 \notin LineEnds(s)
  BY <1>3 DEF LineEnds
<1>6. \A i \in LineEnds(s) : i \in Nat /\ i >= 2 /\ i <= Len(s)
  BY <1>1, <1>5 DEF LineEnds
<1>7. Len(s) >= 2 => 2 \in LineEnds(s)
  BY <1>1, <1>4 DEF LineEnds
<1>8. HasLine(s) => Len(s) >= 2
  BY <1>1, <1>6 DEF HasLine
<1>9. Len(s) >= 2 => FirstEnd(s) = 2
  BY <1>6, <1>7 DEF FirstEnd
<1> QED
  BY <1>1, <1>4, <1>7, <1>8, <1>9 DEF HasLine

(* A stretch of m lines has m line ends.                                   *)
LEMMA CountLines == ASSUME NEW t \in Nat, NEW m \in Nat
                    PROVE  Cardinality(LineEnds(Lines(2 * t, 2 * (t + m)))) = m
<1> DEFINE s == Lines(2 * t, 2 * (t + m))
           E == LineEnds(s)
           g == [j \in 1 .. m |-> 2 * j]
<1>1. /\ s \in Stream /\ Len(s) = 2 * m
      /\ \A i \in 1 .. (2 * m) : s[i] = Unit("part", "end", 2 * t + i)
  <2> DEFINE a == 2 * t
             b == 2 * (t + m)
  <2>1. a \in Nat /\ b \in Nat /\ a <= b /\ b - a = 2 * m
    <3>1. 2 * (t + m) - 2 * t = 2 * m /\ 2 * t <= 2 * (t + m) /\ 2 * t \in Nat /\ 2 * (t + m) \in Nat
      OBVIOUS
    <3> QED
      BY <3>1, Zenon
  <2> HIDE DEF a, b
  <2>2. /\ Lines(a, b) \in Stream /\ Len(Lines(a, b)) = b - a
        /\ \A i \in 1 .. (b - a) : Lines(a, b)[i] = Unit("part", "end", a + i)
    BY <2>1, LinesTyped
  <2> QED
    BY <2>1, <2>2, Zenon DEF a, b
<1> HIDE DEF s
<1>2. DOMAIN s = 1 .. (2 * m)
  BY <1>1 DEF Stream
<1>3. ASSUME NEW i \in 1 .. (2 * m) PROVE s[i][2] = "end" <=> \E j \in 1 .. m : i = 2 * j
  <2>1. PICK k \in Nat : i = 2 * k + 1 \/ i = 2 * k + 2
    <3>1. i \in Nat /\ i >= 1
      OBVIOUS
    <3> QED
      BY <3>1, Halves
  <2>2. CASE i = 2 * k + 1
    <3>1. s[i] = <<t + k + 1, "part">>
      <4>1. 2 * t + i = 2 * (t + k) + 1 /\ t + k \in Nat
        BY <2>2
      <4>2. s[i] = Unit("part", "end", 2 * t + i)
        BY <1>1
      <4>3. Unit("part", "end", 2 * (t + k) + 1) = <<(t + k) + 1, "part">>
        BY <4>1, UnitPairs DEF Names
      <4> QED
        BY <4>1, <4>2, <4>3
    <3>2. \A j \in 1 .. m : i # 2 * j
      BY <2>2
    <3> QED
      BY <3>1, <3>2
  <2>3. CASE i = 2 * k + 2
    <3>1. s[i] = <<t + k + 1, "end">>
      <4>1. 2 * t + i = 2 * (t + k) + 2 /\ t + k \in Nat
        BY <2>3
      <4>2. s[i] = Unit("part", "end", 2 * t + i)
        BY <1>1
      <4>3. Unit("part", "end", 2 * (t + k) + 2) = <<(t + k) + 1, "end">>
        BY <4>1, UnitPairs DEF Names
      <4> QED
        BY <4>1, <4>2, <4>3
    <3>2. k + 1 \in 1 .. m /\ i = 2 * (k + 1)
      BY <2>3
    <3> QED
      BY <3>1, <3>2
  <2> QED
    BY <2>1, <2>2, <2>3
<1>4. g \in [1 .. m -> E]
  <2>1. ASSUME NEW j \in 1 .. m PROVE 2 * j \in E
    <3>1. 2 * j \in 1 .. (2 * m)
      OBVIOUS
    <3> QED
      BY <1>2, <1>3, <3>1 DEF LineEnds
  <2> QED
    BY <2>1
<1>5. \A i, j \in 1 .. m : g[i] = g[j] => i = j
  OBVIOUS
<1>6. \A i \in E : \E j \in 1 .. m : g[j] = i
  BY <1>2, <1>3 DEF LineEnds
<1> HIDE DEF g, E
<1>7. g \in Bijection(1 .. m, E)
  BY <1>4, <1>5, <1>6 DEF Bijection, Injection, Surjection, IsInjective
<1>8. ExistsBijection(1 .. m, E)
  BY <1>7 DEF ExistsBijection
<1>9. IsFiniteSet(1 .. m) /\ Cardinality(1 .. m) = m
  BY FS_Interval
<1>10. Cardinality(E) = m
  BY <1>8, <1>9, FS_Bijection
<1> QED
  BY <1>10 DEF E, s
-----------------------------------------------------------------------------
(* Every step leaves each connection in one place.                         *)

LEMMA HomeSame == ASSUME OneHome, fdtab' = fdtab, backlog' = backlog,
                         \A c \in Clients : cst'[c] = "new" => cst[c] = "new"
                  PROVE  OneHome'
BY DEF OneHome

(* accept moves the head of the listen queue to a free descriptor.         *)
LEMMA HomeAccept == ASSUME Typed, LoopInv, OneHome, NEW f \in Fds, Accept(f) PROVE OneHome'
<1> DEFINE c0 == Head(backlog)
<1>1. /\ Len(backlog) \in Nat \ {0}
      /\ DOMAIN backlog = 1 .. Len(backlog)
      /\ DOMAIN backlog' = 1 .. (Len(backlog) - 1)
      /\ \A i \in DOMAIN backlog' : i + 1 \in DOMAIN backlog /\ backlog'[i] = backlog[i + 1]
      /\ c0 = backlog[1] /\ 1 \in DOMAIN backlog
      /\ c0 \in Clients
  BY DEF Typed, LoopInv, Accept
<1>2. /\ fdtab' = [fdtab EXCEPT ![f] = c0]
      /\ fdtab \in [Fds -> Clients \cup {Free}]
      /\ cst' = cst
  BY DEF Typed, Accept, clientVars
<1>3. \A i \in DOMAIN backlog' : backlog'[i] # c0
  <2> TAKE i \in DOMAIN backlog'
  <2>1. i + 1 \in DOMAIN backlog /\ i + 1 # 1
    BY <1>1
  <2> QED
    BY <1>1, <2>1 DEF OneHome
<1>4. \A g \in Fds : fdtab[g] # c0
  BY <1>1 DEF OneHome
<1>5. \A c \in Clients : cst'[c] = "new" =>
        /\ \A g \in Fds : fdtab'[g] # c
        /\ \A i \in DOMAIN backlog' : backlog'[i] # c
  <2> SUFFICES ASSUME NEW c \in Clients, cst[c] = "new"
               PROVE  /\ \A g \in Fds : fdtab'[g] # c
                      /\ \A i \in DOMAIN backlog' : backlog'[i] # c
    BY <1>2
  <2>1. c # c0
    BY <1>1 DEF OneHome
  <2> QED
    BY <1>1, <1>2, <2>1 DEF OneHome
<1>6. \A i \in DOMAIN backlog', g \in Fds : fdtab'[g] # backlog'[i]
  BY <1>1, <1>2, <1>3 DEF OneHome
<1>7. \A i, j \in DOMAIN backlog' : backlog'[i] = backlog'[j] => i = j
  <2> TAKE i, j \in DOMAIN backlog'
  <2>1. /\ i + 1 \in DOMAIN backlog /\ backlog'[i] = backlog[i + 1]
        /\ j + 1 \in DOMAIN backlog /\ backlog'[j] = backlog[j + 1]
    BY <1>1
  <2>2. i \in Nat /\ j \in Nat
    BY <1>1
  <2>3. backlog'[i] = backlog'[j] => i + 1 = j + 1
    BY <2>1 DEF OneHome
  <2> QED
    BY <2>2, <2>3
<1>8. \A g, h \in Fds : fdtab'[g] = fdtab'[h] /\ fdtab'[g] # Free => g = h
  BY <1>2, <1>4 DEF OneHome
<1> QED
  BY <1>5, <1>6, <1>7, <1>8 DEF OneHome

(* connect puts a connection that was nowhere into the listen queue.       *)
LEMMA HomeConnect == ASSUME Typed, TypedToo, OneHome, NEW c \in Clients, Connect(c)
                     PROVE  OneHome'
<1>1. /\ Len(backlog) \in Nat
      /\ DOMAIN backlog = 1 .. Len(backlog)
      /\ DOMAIN backlog' = 1 .. (Len(backlog) + 1)
      /\ \A i \in DOMAIN backlog : backlog'[i] = backlog[i]
      /\ backlog'[Len(backlog) + 1] = c
  BY DEF Typed, Connect
<1>2. /\ cst[c] = "new" /\ cst' = [cst EXCEPT ![c] = "on"]
      /\ fdtab' = fdtab
  BY DEF Connect
<1>3. \A i \in DOMAIN backlog' : i \in DOMAIN backlog \/ backlog'[i] = c
  BY <1>1
<1>4. \A f \in Fds : fdtab[f] # c
  BY <1>2 DEF OneHome
<1>5. \A i \in DOMAIN backlog : backlog[i] # c
  BY <1>2 DEF OneHome
<1>6. \A d \in Clients : cst'[d] = "new" => cst[d] = "new" /\ d # c
  BY <1>2 DEF TypedToo
<1>7. \A d \in Clients : cst'[d] = "new" =>
        /\ \A f \in Fds : fdtab'[f] # d
        /\ \A i \in DOMAIN backlog' : backlog'[i] # d
  BY <1>1, <1>2, <1>3, <1>6 DEF OneHome
<1>8. \A i \in DOMAIN backlog', f \in Fds : fdtab'[f] # backlog'[i]
  BY <1>1, <1>2, <1>3, <1>4 DEF OneHome
<1>9. \A i, j \in DOMAIN backlog' : backlog'[i] = backlog'[j] => i = j
  <2> TAKE i, j \in DOMAIN backlog'
  <2>1. CASE i \in DOMAIN backlog /\ j \in DOMAIN backlog
    BY <1>1, <2>1 DEF OneHome
  <2>2. CASE i \notin DOMAIN backlog \/ j \notin DOMAIN backlog
    BY <1>1, <1>3, <1>5, <2>2
  <2> QED
    BY <2>1, <2>2
<1>10. \A f, g \in Fds : fdtab'[f] = fdtab'[g] /\ fdtab'[f] # Free => f = g
  BY <1>2 DEF OneHome
<1> QED
  BY <1>7, <1>8, <1>9, <1>10 DEF OneHome

LEMMA HomeNext == Typed /\ LoopInv /\ TypedToo /\ OneHome /\ [Next]_vars => OneHome'
<1> SUFFICES ASSUME Typed, LoopInv, TypedToo, OneHome, [Next]_vars PROVE OneHome'
  OBVIOUS
<1> USE DEF loopVars, netVars, clientVars, objVars
<1>1. CASE EpollWait \/ BatchDone \/ AcceptFails
  BY <1>1, HomeSame DEF EpollWait, BatchDone, AcceptFails
<1>2. CASE HandlerStep
  BY <1>2, HomeSame DEF HandlerStep, Recv, RecvEnds, Send, SendBlocked, SendClosed, SendReset
<1>3. ASSUME NEW f \in Fds, Dispatch(f) PROVE OneHome'
  BY <1>3, HomeSame DEF Dispatch
<1>4. ASSUME NEW c \in Clients, NEW q \in Kinds, Ask(c, q) PROVE OneHome'
  BY <1>4, HomeSame DEF Ask
<1>5. ASSUME NEW c \in Clients, GetReply(c) \/ Leave(c) PROVE OneHome'
  BY <1>5, HomeSame DEF GetReply, Leave, TypedToo
<1>6. CASE UNCHANGED vars
  BY <1>6, HomeSame DEF vars
<1> QED
  BY <1>1, <1>2, <1>3, <1>4, <1>5, <1>6, HomeAccept, HomeConnect, KindsAreKinds
     DEF Next, ServerStep, ClientStep
-----------------------------------------------------------------------------
(* What the handler does to the streams of its connection.                 *)

(* The connection of the handler that runs.                                *)
LEMMA ConnIsOne == ASSUME Typed, LoopInv, rpc \in {"recv", "send"}
                   PROVE  cur \in Fds /\ Conn \in Clients /\ Conn = fdtab[cur]
BY DEF Typed, LoopInv, Conn

(* A reply is a stream, and, with nothing left in _outbuffer, the next two *)
(* units of the answers.                                                   *)
LEMMA ReplyTyped == ASSUME NEW k \in Nat, outbuf[cur] \in Stream
                    PROVE  /\ Reply(k + 1) \in Stream
                           /\ outbuf[cur] = <<>> => Reply(k + 1) = Answers(2 * k, 2 * k + 2)
<1> DEFINE h == << <<k + 1, "head">> >>
           e == << <<k + 1, "tail">> >>
           m == IF asked[Conn][k + 1] = "op" THEN <<>> ELSE outbuf[cur]
<1>1. h \in Stream /\ e \in Stream
  BY DEF Stream, AnyUnit
<1>2. m \in Stream
  BY EmptyStream
<1>3. Reply(k + 1) = h \o m \o e
  BY Zenon DEF Reply
<1>4. outbuf[cur] = <<>> => m = <<>>
  OBVIOUS
<1>5. h \o <<>> \o e = Answers(2 * k, 2 * k + 2)
  BY ReplyIsAnswer
<1> HIDE DEF h, e, m
<1>6. h \o m \in Stream
  BY <1>1, <1>2, JoinTyped
<1>7. (h \o m) \o e \in Stream
  BY <1>1, <1>6, JoinTyped
<1> QED
  BY <1>3, <1>4, <1>5, <1>7, Zenon

(* The ways a call of the task handler ends, t lines being taken before.   *)
TookNone(t) ==
  /\ Joins(inbuf'[cur], up'[Conn], Lines(2 * t, 2 * Len(asked[Conn])))
  /\ Len(inbuf'[cur]) <= 1
  /\ UNCHANGED <<outbuf, rpc, alive>>

TookLine(t) ==
  /\ t + 1 <= Len(asked[Conn])
  /\ Joins(inbuf'[cur], up'[Conn], Lines(2 * (t + 1), 2 * Len(asked[Conn])))
  /\ \/ /\ asked[Conn][t + 1] = "bad"
        /\ alive' = FALSE
        /\ UNCHANGED <<outbuf, rpc>>
     \/ /\ outbuf' = [outbuf EXCEPT ![cur] = Reply(t + 1)]
        /\ rpc' = "send"
        /\ UNCHANGED alive

(* recv and the task handler: what was read continues what was there, so   *)
(* the first line is the one after the lines taken before.                 *)
LEMMA RecvTakes ==
  ASSUME Typed, LoopInv, TypedToo, Recv, NEW t \in Nat, Served(cur, Conn, t)
  PROVE  /\ \E v \in Stream : inbuf' = [inbuf EXCEPT ![cur] = v]
         /\ \E v \in Stream : up' = [up EXCEPT ![Conn] = v]
         /\ up[Conn] # <<>>
         /\ TookNone(t) \/ TookLine(t)
<1> DEFINE c == Conn
           N == Len(asked[c])
<1>1. cur \in Fds /\ c \in Clients
  BY ConnIsOne DEF Recv
<1>2. N \in Nat /\ up[c] \in Stream /\ inbuf[cur] \in Stream
  BY <1>1 DEF Typed, TypedToo, Stream
<1>3. t <= N /\ Joins(inbuf[cur], up[c], Lines(2 * t, 2 * N))
  BY DEF Served
<1>4. PICK n \in 1 .. Len(up[c]) : /\ up' = [up EXCEPT ![c] = Drop(up[c], n)]
                                  /\ Task(inbuf[cur] \o Take(up[c], n))
  BY <1>1 DEF Recv, Typed
<1> DEFINE p == Take(up[c], n)
           r == Drop(up[c], n)
           s == inbuf[cur] \o p
           a == 2 * t
           b == 2 * N
<1> HIDE DEF p, r, s, c, N, a, b
<1>5. n \in 0 .. Len(up[c])
  BY <1>4
<1>6. p \in Stream /\ r \in Stream /\ Joins(p, r, up[c])
  BY <1>2, <1>5, CutInTwo DEF p, r
<1>7. s \in Stream /\ Joins(s, r, Lines(a, b))
  <2>1. s \in Stream /\ Joins(inbuf[cur], p, s)
    BY <1>2, <1>6, JoinTyped DEF s
  <2>2. Joins(inbuf[cur], up[c], Lines(a, b))
    BY <1>3, Zenon DEF a, b
  <2> QED
    BY <1>2, <1>6, <2>1, <2>2, Regroup
<1>8. a \in Nat /\ b \in Nat /\ a <= b
  BY <1>2, <1>3 DEF a, b
<1>9. /\ \A i \in 1 .. Len(s) : s[i] = Unit("part", "end", a + i)
      /\ \A k \in 0 .. Len(s) : /\ a + k \in 0 .. b
                               /\ Drop(s, k) \in Stream
                               /\ Joins(Drop(s, k), r, Lines(a + k, b))
  BY <1>6, <1>7, <1>8, LinesCut
<1>10. /\ HasLine(s) <=> Len(s) >= 2
       /\ HasLine(s) => FirstEnd(s) = 2 /\ s[2] = <<t + 1, "end">>
  <2>1. \A i \in 1 .. Len(s) : s[i] = Unit("part", "end", 2 * t + i)
    BY <1>9, Zenon DEF a
  <2> QED
    BY <1>7, <2>1, FirstLine
<1>11. up' = [up EXCEPT ![c] = r] /\ up'[c] = r /\ Task(s) /\ up[c] # <<>>
  BY <1>1, <1>4 DEF p, r, s, Typed
<1>12. CASE ~HasLine(s)
  <2>1. inbuf' = [inbuf EXCEPT ![cur] = s] /\ UNCHANGED <<outbuf, rpc, alive>>
    BY <1>11, <1>12 DEF Task
  <2>2. inbuf'[cur] = s
    BY <1>1, <2>1 DEF TypedToo
  <2>3. Joins(inbuf'[cur], up'[c], Lines(2 * t, 2 * N))
    BY <1>7, <1>11, <2>2, Zenon DEF a, b
  <2>4. Len(inbuf'[cur]) <= 1
    <3>1. Len(s) \in Nat /\ ~(Len(s) >= 2)
      BY <1>7, <1>10, <1>12, JoinTyped
    <3> QED
      BY <2>2, <3>1
  <2>5. TookNone(t)
    BY <2>1, <2>3, <2>4 DEF TookNone, c, N
  <2> QED
    BY <1>6, <1>7, <1>11, <2>1, <2>5 DEF c
<1>13. CASE HasLine(s)
  <2>1. s[FirstEnd(s)][1] = t + 1 /\ FirstEnd(s) = 2
    BY <1>10, <1>13
  <2> DEFINE v == Drop(s, 2)
  <2>2. 2 \in 0 .. Len(s)
    BY <1>7, <1>10, <1>13, JoinTyped
  <2>3. a + 2 \in 0 .. b /\ v \in Stream /\ Joins(v, r, Lines(a + 2, b))
    BY <1>9, <2>2
  <2>4. /\ inbuf' = [inbuf EXCEPT ![cur] = v]
        /\ \/ asked[c][t + 1] = "bad" /\ alive' = FALSE /\ UNCHANGED <<outbuf, rpc>>
           \/ outbuf' = [outbuf EXCEPT ![cur] = Reply(t + 1)] /\ rpc' = "send" /\ UNCHANGED alive
    BY <1>11, <1>13, <2>1 DEF Task, c
  <2> HIDE DEF v
  <2>5. inbuf'[cur] = v
    BY <1>1, <2>4 DEF TypedToo
  <2>6. a + 2 = 2 * (t + 1) /\ t + 1 <= N
    BY <1>2, <2>3 DEF a, b
  <2>7. Joins(inbuf'[cur], up'[c], Lines(2 * (t + 1), 2 * N))
    BY <1>11, <2>3, <2>5, <2>6, Zenon DEF b
  <2>8. TookLine(t)
    BY <2>4, <2>6, <2>7 DEF TookLine, c, N
  <2> QED
    BY <1>6, <1>11, <2>3, <2>4, <2>8 DEF c
<1> QED
  BY <1>12, <1>13

(* What send moves and what it leaves are the reply.                       *)
SendsSome(n) ==
  /\ n \in 0 .. Len(outbuf[cur])
  /\ Len(down[Conn]) < setting.cap
  /\ down' = [down EXCEPT ![Conn] = down[Conn] \o Take(outbuf[cur], n)]
  /\ outbuf' = [outbuf EXCEPT ![cur] = Drop(outbuf[cur], n)]
  /\ n = Len(outbuf[cur]) \/ n = setting.cap - Len(down[Conn])
  /\ IF n = Len(outbuf[cur]) THEN rpc' = "recv" ELSE UNCHANGED rpc

LEMMA SendMoves == ASSUME Typed, LoopInv, TypedToo, Send
                   PROVE  \E n \in Nat : SendsSome(n)
<1> DEFINE n == Least(Len(outbuf[cur]), setting.cap - Len(down[Conn]))
<1>1. cur \in Fds /\ Conn \in Clients
  BY ConnIsOne DEF Send
<1>2. outbuf[cur] \in Stream /\ down[Conn] \in Stream
  BY <1>1 DEF TypedToo
<1>3. Len(outbuf[cur]) \in Nat /\ Len(down[Conn]) \in Nat
  BY <1>2, JoinTyped
<1>4. setting.cap \in Nat /\ Len(down[Conn]) < setting.cap
  BY ReactorAssumption DEF Typed, Send
<1>5. /\ n \in 0 .. Len(outbuf[cur])
      /\ n = Len(outbuf[cur]) \/ n = setting.cap - Len(down[Conn])
  BY <1>3, <1>4 DEF Least
<1> HIDE DEF n
<1>6. down' = [down EXCEPT ![Conn] = down[Conn] \o Take(outbuf[cur], n)]
  BY <1>1 DEF Send, n, TypedToo
<1>7. ASSUME n = Len(outbuf[cur]) PROVE SendsSome(n)
  <2>1. Drop(outbuf[cur], n) = <<>>
    <3>1. n \in 0 .. Len(outbuf[cur]) /\ Len(outbuf[cur]) - n = 0
      BY <1>3, <1>5, <1>7
    <3>2. Drop(outbuf[cur], n) \in Stream /\ Len(Drop(outbuf[cur], n)) = 0
      BY <1>2, <3>1, CutInTwo
    <3> QED
      BY <3>2, EmptyStream
  <2>2. outbuf' = [outbuf EXCEPT ![cur] = <<>>] /\ rpc' = "recv"
    BY <1>7 DEF Send, Sent, n
  <2>3. outbuf' = [outbuf EXCEPT ![cur] = Drop(outbuf[cur], n)]
    BY <2>1, <2>2
  <2>4. IF n = Len(outbuf[cur]) THEN rpc' = "recv" ELSE UNCHANGED rpc
    BY <1>7, <2>2
  <2> QED
    BY <1>4, <1>5, <1>6, <2>3, <2>4, Zenon DEF SendsSome
<1>8. ASSUME n # Len(outbuf[cur]) PROVE SendsSome(n)
  <2>1. outbuf' = [outbuf EXCEPT ![cur] = Drop(outbuf[cur], n)] /\ UNCHANGED rpc
    BY <1>1, <1>8 DEF Send, n, TypedToo
  <2>2. IF n = Len(outbuf[cur]) THEN rpc' = "recv" ELSE UNCHANGED rpc
    BY <1>8, <2>1
  <2> QED
    BY <1>4, <1>5, <1>6, <2>1, <2>2, Zenon DEF SendsSome
<1>9. n \in Nat /\ SendsSome(n)
  BY <1>3, <1>5, <1>7, <1>8
<1> QED
  BY <1>9

(* Every step leaves the rest of the state well typed.                     *)
LEMMA TypedTooNext ==
  ASSUME Typed, LoopInv, TypedToo, alive => StreamsInv, [Next]_vars
  PROVE  TypedToo'
<1> USE DEF loopVars, netVars, clientVars, objVars
<1>1. CASE EpollWait \/ BatchDone \/ AcceptFails \/ RecvEnds \/ SendBlocked \/ SendReset
  BY <1>1 DEF TypedToo, EpollWait, BatchDone, AcceptFails, RecvEnds, SendBlocked, SendReset
<1>2. ASSUME alive, Recv PROVE TypedToo'
  <2>1. cur \in Fds /\ Conn \in Clients /\ Conn = fdtab[cur]
    BY <1>2, ConnIsOne DEF Recv
  <2>2. PICK t \in Nat : Served(cur, Conn, t)
    BY <1>2, <2>1 DEF StreamsInv
  <2>3. inbuf' \in [Fds -> Stream]
    BY <1>2, <2>2, RecvTakes DEF TypedToo
  <2>4. outbuf' \in [Fds -> Stream]
    <3>1. outbuf' = outbuf \/ outbuf' = [outbuf EXCEPT ![cur] = Reply(t + 1)]
      BY <1>2, <2>2, RecvTakes DEF TookNone, TookLine
    <3>2. outbuf[cur] \in Stream
      BY <2>1 DEF TypedToo
    <3>3. Reply(t + 1) \in Stream
      BY <3>2, ReplyTyped
    <3> QED
      BY <3>1, <3>3 DEF TypedToo
  <2>5. UNCHANGED <<down, rcvd, cst, peer>>
    BY <1>2 DEF Recv
  <2> QED
    BY <2>3, <2>4, <2>5 DEF TypedToo
<1>3. CASE Send
  <2>1. cur \in Fds /\ Conn \in Clients
    BY <1>3, ConnIsOne DEF Send
  <2>2. outbuf[cur] \in Stream /\ down[Conn] \in Stream
    BY <2>1 DEF TypedToo
  <2>3. PICK n \in Nat : SendsSome(n)
    BY <1>3, SendMoves
  <2>4. n \in 0 .. Len(outbuf[cur])
    BY <2>3 DEF SendsSome
  <2>5. Take(outbuf[cur], n) \in Stream /\ Drop(outbuf[cur], n) \in Stream
    BY <2>2, <2>4, CutInTwo
  <2>6. down[Conn] \o Take(outbuf[cur], n) \in Stream
    BY <2>2, <2>5, JoinTyped
  <2>7. outbuf' \in [Fds -> Stream]
    BY <2>3, <2>5 DEF SendsSome, TypedToo
  <2> DEFINE v == down[Conn] \o Take(outbuf[cur], n)
  <2>8. down' = [down EXCEPT ![Conn] = v]
    BY <2>3 DEF SendsSome
  <2> HIDE DEF v
  <2>9. down' \in [Clients -> Stream]
    BY <2>6, <2>8 DEF TypedToo, v
  <2>10. UNCHANGED <<inbuf, rcvd, cst, peer>>
    BY <1>3 DEF Send
  <2> QED
    BY <2>7, <2>9, <2>10 DEF TypedToo
<1>4. CASE SendClosed
  <2>1. Conn \in Clients /\ peer[Conn] = "fin"
    BY <1>4, ConnIsOne DEF SendClosed
  <2>2. outbuf' \in [Fds -> Stream]
    BY <1>4, EmptyStream DEF SendClosed, Sent, TypedToo
  <2>3. /\ peer' \in [Clients -> {"open", "fin", "rst"}]
        /\ \A c \in Clients : peer'[c] = "open" <=> peer[c] = "open"
    BY <1>4, <2>1 DEF SendClosed, TypedToo
  <2>4. UNCHANGED <<inbuf, down, rcvd, cst>>
    BY <1>4 DEF SendClosed
  <2> QED
    BY <2>2, <2>3, <2>4 DEF TypedToo
<1>5. ASSUME NEW f \in Fds, Dispatch(f) \/ Accept(f) PROVE TypedToo'
  BY <1>5 DEF TypedToo, Dispatch, Accept
<1>6. ASSUME NEW c \in Clients, Connect(c) PROVE TypedToo'
  BY <1>6 DEF TypedToo, Connect
<1>7. ASSUME NEW c \in Clients, GetReply(c) PROVE TypedToo'
  <2>1. PICK n \in 1 .. Len(down[c]) : /\ down' = [down EXCEPT ![c] = Drop(down[c], n)]
                                      /\ rcvd' = [rcvd EXCEPT ![c] = rcvd[c] + n]
    BY <1>7 DEF GetReply, TypedToo
  <2>2. down[c] \in Stream /\ n \in 0 .. Len(down[c])
    BY <2>1 DEF TypedToo
  <2>3. Drop(down[c], n) \in Stream
    BY <2>2, CutInTwo
  <2> DEFINE v == Drop(down[c], n)
  <2> HIDE DEF v
  <2>4. down' \in [Clients -> Stream]
    BY <2>1, <2>3 DEF TypedToo, v
  <2>5. rcvd' \in [Clients -> Nat]
    BY <2>1 DEF TypedToo
  <2>6. UNCHANGED <<inbuf, outbuf, cst, peer>>
    BY <1>7 DEF GetReply
  <2> QED
    BY <2>4, <2>5, <2>6 DEF TypedToo
<1>8. ASSUME NEW c \in Clients, Leave(c) PROVE TypedToo'
  BY <1>8, EmptyStream DEF TypedToo, Leave
<1>9. ASSUME NEW c \in Clients, NEW q \in Kinds, Ask(c, q) PROVE TypedToo'
  BY <1>9 DEF TypedToo, Ask
<1>10. CASE UNCHANGED vars
  BY <1>10 DEF TypedToo, vars
<1> QED
  BY <1>1, <1>2, <1>3, <1>4, <1>5, <1>6, <1>7, <1>8, <1>9, <1>10, KindsAreKinds
     DEF Next, ServerStep, HandlerStep, ClientStep
-----------------------------------------------------------------------------
(* Every step keeps the streams in order.                                  *)

StreamState == Typed /\ LoopInv /\ OneHome /\ TypedToo /\ StreamsInv /\ alive

(* A step that leaves a connection and its object as they are.             *)
Same(f, c) ==
  /\ inbuf'[f] = inbuf[f] /\ outbuf'[f] = outbuf[f]
  /\ asked'[c] = asked[c] /\ up'[c] = up[c] /\ down'[c] = down[c]
  /\ rcvd'[c] = rcvd[c] /\ cst'[c] = cst[c]
  /\ c \in cut => c \in cut'
  /\ Sending(f) => Sending(f)'

LEMMA ServedKept == ASSUME NEW f \in Fds, NEW c \in Clients, NEW t \in Nat,
                           Served(f, c, t), Same(f, c)
                    PROVE  Served(f, c, t)'
BY DEF Served, Same

(* A step that changes one connection and its object only.                 *)
LEMMA OneChanges ==
  ASSUME StreamState, NEW d \in Clients, fdtab' = fdtab,
         \A f \in Fds, c \in Clients : fdtab[f] = c /\ c # d => Same(f, c),
         \A f \in Fds : fdtab[f] = d => \E t \in Nat : Served(f, d, t)',
         \A c \in Clients : Homeless(c) => Unserved(c)',
         \A f \in Fds : fdtab[f] = Free => inbuf'[f] = inbuf[f] /\ outbuf'[f] = outbuf[f]
  PROVE  StreamsInv'
<1>1. ASSUME NEW f \in Fds, NEW c \in Clients, fdtab'[f] = c
      PROVE  \E t \in Nat : Served(f, c, t)'
  <2>1. CASE c = d
    BY <1>1, <2>1
  <2>2. CASE c # d
    <3>1. PICK t \in Nat : Served(f, c, t)
      BY <1>1 DEF StreamState, StreamsInv
    <3>2. Same(f, c)
      BY <1>1, <2>2
    <3>3. Served(f, c, t)'
      BY <3>1, <3>2, ServedKept
    <3> QED
      BY <3>3
  <2> QED
    BY <2>1, <2>2
<1>2. \A c \in Clients : Homeless(c)' => Unserved(c)'
  BY DEF Homeless
<1>3. \A f \in Fds : fdtab'[f] = Free => inbuf'[f] = <<>> /\ outbuf'[f] = <<>>
  BY DEF StreamState, StreamsInv
<1> QED
  BY <1>1, <1>2, <1>3 DEF StreamsInv

(* A step that changes none.                                               *)
LEMMA NoneChanges ==
  ASSUME StreamState, fdtab' = fdtab, inbuf' = inbuf, outbuf' = outbuf,
         UNCHANGED <<asked, up, down, rcvd, cst>>, cut \subseteq cut',
         \A f \in Fds : Sending(f) =>
           Sending(f)' \/ cst[fdtab[f]] # "on" \/ fdtab[f] \in cut'
  PROVE  StreamsInv'
<1>1. ASSUME NEW f \in Fds, NEW c \in Clients, fdtab'[f] = c
      PROVE  \E t \in Nat : Served(f, c, t)'
  <2>1. PICK t \in Nat : Served(f, c, t)
    BY <1>1 DEF StreamState, StreamsInv
  <2>2. Served(f, c, t)'
    BY <1>1, <2>1 DEF Served
  <2> QED
    BY <2>2
<1>2. \A c \in Clients : Homeless(c)' => Unserved(c)'
  BY DEF Homeless, Unserved, StreamState, StreamsInv
<1>3. \A f \in Fds : fdtab'[f] = Free => inbuf'[f] = <<>> /\ outbuf'[f] = <<>>
  BY DEF StreamState, StreamsInv
<1> QED
  BY <1>1, <1>2, <1>3 DEF StreamsInv

(* The running handler and the other connections.                          *)
LEMMA OtherConns ==
  ASSUME StreamState, rpc \in {"recv", "send"}
  PROVE  /\ cur \in Fds /\ Conn \in Clients /\ Conn = fdtab[cur]
         /\ \A f \in Fds : fdtab[f] = Conn => f = cur
         /\ \A f \in Fds : fdtab[f] # Conn => f # cur /\ ~Sending(f)
         /\ ~Homeless(Conn)
<1>1. cur \in Fds /\ Conn \in Clients /\ Conn = fdtab[cur]
  BY ConnIsOne DEF StreamState
<1>2. Conn # Free
  BY <1>1, ReactorAssumption
<1>3. \A f \in Fds : fdtab[f] = Conn => f = cur
  BY <1>1, <1>2 DEF StreamState, OneHome
<1> QED
  BY <1>1, <1>3 DEF Sending, Homeless

LEMMA StreamsRecv ==
  ASSUME StreamState, Recv, alive', NEW e \in Fds, NEW d \in Clients, cur = e, Conn = d
  PROVE  StreamsInv'
<1>1. /\ cur \in Fds /\ Conn \in Clients /\ Conn = fdtab[cur]
      /\ \A f \in Fds : fdtab[f] = Conn => f = cur
      /\ \A f \in Fds : fdtab[f] # Conn => f # cur /\ ~Sending(f)
      /\ ~Homeless(Conn)
  BY OtherConns DEF Recv
<1>2. PICK t \in Nat : Served(cur, Conn, t)
  BY <1>1 DEF StreamState, StreamsInv
<1>3. /\ \E v \in Stream : inbuf' = [inbuf EXCEPT ![cur] = v]
      /\ \E v \in Stream : up' = [up EXCEPT ![Conn] = v]
      /\ TookNone(t) \/ TookLine(t)
  BY <1>2, RecvTakes DEF StreamState
<1>4. UNCHANGED <<fdtab, cur, down, asked, rcvd, cst, cut>>
  BY DEF Recv, clientVars
<1>5. outbuf' = outbuf \/ outbuf' = [outbuf EXCEPT ![cur] = Reply(t + 1)]
  BY <1>3 DEF TookNone, TookLine
<1>6. \A f \in Fds : f # cur => inbuf'[f] = inbuf[f] /\ outbuf'[f] = outbuf[f]
  BY <1>3, <1>5 DEF StreamState, TypedToo
<1>7. \A c \in Clients : c # Conn => up'[c] = up[c]
  BY <1>3 DEF StreamState, Typed
<1>8. \A f \in Fds, c \in Clients : fdtab[f] = c /\ c # Conn => Same(f, c)
  BY <1>1, <1>4, <1>6, <1>7 DEF Same
<1>9. \A c \in Clients : Homeless(c) => Unserved(c)'
  BY <1>1, <1>4, <1>7 DEF StreamState, StreamsInv, Unserved
<1>10. \A f \in Fds : fdtab[f] = Free => inbuf'[f] = inbuf[f] /\ outbuf'[f] = outbuf[f]
  BY <1>1, <1>6, ReactorAssumption
<1>11. ~Sending(cur)
  BY DEF Recv, Sending
<1>12. CASE TookNone(t)
  <2>1. Served(e, d, t)'
    BY <1>2, <1>4, <1>11, <1>12 DEF Served, TookNone, Sending
  <2> QED
    BY <1>1, <1>4, <1>8, <1>9, <1>10, <2>1, OneChanges
<1>13. CASE TookLine(t)
  <2>1. outbuf[cur] \in Stream /\ outbuf' = [outbuf EXCEPT ![cur] = Reply(t + 1)] /\ rpc' = "send"
    BY <1>1, <1>13 DEF TookLine, StreamState, TypedToo
  <2>2. outbuf'[cur] = Reply(t + 1)
    BY <1>1, <2>1 DEF StreamState, TypedToo
  <2>3. /\ t + 1 <= Len(asked'[Conn])
        /\ Joins(inbuf'[cur], up'[Conn], Lines(2 * (t + 1), 2 * Len(asked'[Conn])))
    BY <1>4, <1>13 DEF TookLine
  <2>4. ASSUME cst[Conn] = "on", Conn \notin cut
        PROVE  /\ rcvd[Conn] <= 2 * (t + 1)
               /\ Joins(down[Conn], outbuf'[cur], Answers(rcvd[Conn], 2 * (t + 1)))
    <3>1. /\ rcvd[Conn] <= 2 * t /\ outbuf[cur] = <<>>
          /\ Joins(down[Conn], outbuf[cur], Answers(rcvd[Conn], 2 * t))
      BY <1>2, <1>11, <2>4 DEF Served
    <3>2. outbuf'[cur] = Answers(2 * t, 2 * t + 2)
      BY <2>1, <2>2, <3>1, ReplyTyped
    <3>3. down[Conn] \in Stream /\ rcvd[Conn] \in Nat
      BY <1>1 DEF StreamState, TypedToo
    <3>4. down[Conn] = Answers(rcvd[Conn], 2 * t)
      BY <3>1, <3>3, JoinEmpty
    <3>5. /\ 2 * t \in Nat /\ 2 * t + 2 \in Nat /\ 2 * t <= 2 * t + 2
          /\ rcvd[Conn] <= 2 * t + 2 /\ 2 * t + 2 = 2 * (t + 1)
      BY <3>1, <3>3
    <3>6. Joins(down[Conn], outbuf'[cur], Answers(rcvd[Conn], 2 * t + 2))
      BY <3>1, <3>2, <3>3, <3>4, <3>5, AnswersJoin
    <3> QED
      BY <3>5, <3>6
  <2>5. Sending(e)'
    BY <1>4, <2>1 DEF Sending
  <2>6. Served(e, d, t + 1)'
    BY <1>4, <2>3, <2>4, <2>5 DEF Served
  <2> QED
    BY <1>1, <1>4, <1>8, <1>9, <1>10, <2>6, OneChanges
<1> QED
  BY <1>3, <1>12, <1>13

LEMMA StreamsSend ==
  ASSUME StreamState, Send, NEW e \in Fds, NEW d \in Clients, cur = e, Conn = d
  PROVE  StreamsInv'
<1>1. /\ fdtab[e] = d
      /\ \A f \in Fds : fdtab[f] = d => f = e
      /\ \A f \in Fds : fdtab[f] # d => f # e /\ ~Sending(f)
      /\ ~Homeless(d)
  BY OtherConns DEF Send
<1>2. PICK t \in Nat : Served(e, d, t)
  BY <1>1 DEF StreamState, StreamsInv
<1>3. UNCHANGED <<fdtab, cur, inbuf, up, asked, rcvd, cst, cut>>
  BY DEF Send, clientVars
<1>4. PICK n \in Nat : SendsSome(n)
  BY SendMoves DEF StreamState
<1> DEFINE p == Take(outbuf[e], n)
           r == Drop(outbuf[e], n)
           w == down[d] \o p
<1>5. /\ n \in 0 .. Len(outbuf[e])
      /\ down' = [down EXCEPT ![d] = w]
      /\ outbuf' = [outbuf EXCEPT ![e] = r]
      /\ IF n = Len(outbuf[e]) THEN rpc' = "recv" ELSE UNCHANGED rpc
  BY <1>4, Zenon DEF SendsSome
<1>6. outbuf[e] \in Stream /\ down[d] \in Stream
  BY DEF StreamState, TypedToo
<1>7. p \in Stream /\ r \in Stream /\ Joins(p, r, outbuf[e]) /\ Len(r) = Len(outbuf[e]) - n
  BY <1>5, <1>6, CutInTwo
<1> HIDE DEF p, r
<1>8. Joins(down[d], p, w)
  BY <1>6, <1>7, JoinTyped
<1> HIDE DEF w
<1>9. down'[d] = w /\ outbuf'[e] = r
  BY <1>5 DEF StreamState, TypedToo
<1>10. \A f \in Fds, c \in Clients : fdtab[f] = c /\ c # d => Same(f, c)
  BY <1>1, <1>3, <1>5 DEF Same, StreamState, TypedToo
<1>11. \A c \in Clients : Homeless(c) => Unserved(c)'
  BY <1>1, <1>3, <1>5 DEF StreamState, StreamsInv, Unserved, TypedToo
<1>12. \A f \in Fds : fdtab[f] = Free => inbuf'[f] = inbuf[f] /\ outbuf'[f] = outbuf[f]
  BY <1>1, <1>3, <1>5, ReactorAssumption DEF StreamState, TypedToo
<1>13. Served(e, d, t)'
  <2>1. t <= Len(asked'[d]) /\ Joins(inbuf'[e], up'[d], Lines(2 * t, 2 * Len(asked'[d])))
    BY <1>2, <1>3 DEF Served
  <2>2. ASSUME cst[d] = "on", d \notin cut
        PROVE  rcvd[d] <= 2 * t /\ Joins(down'[d], outbuf'[e], Answers(rcvd[d], 2 * t))
    <3>1. rcvd[d] <= 2 * t /\ Joins(down[d], outbuf[e], Answers(rcvd[d], 2 * t))
      BY <1>2, <2>2 DEF Served
    <3>2. Joins(w, r, Answers(rcvd[d], 2 * t))
      BY <1>6, <1>7, <1>8, <3>1, Regroup
    <3> QED
      BY <1>9, <3>1, <3>2
  <2>3. ~Sending(e)' => outbuf'[e] = <<>>
    <3>1. CASE n = Len(outbuf[e])
      <4>1. Len(r) = 0
        BY <1>5, <1>7, <3>1
      <4> QED
        BY <1>7, <1>9, <4>1, EmptyStream
    <3>2. CASE n # Len(outbuf[e])
      BY <1>3, <1>5, <3>2 DEF Send, Sending
    <3> QED
      BY <3>1, <3>2
  <2> QED
    BY <1>3, <2>1, <2>2, <2>3 DEF Served
<1> QED
  BY <1>1, <1>3, <1>10, <1>11, <1>12, <1>13, OneChanges

(* A reply to a client that has gone, a reply that does not fit, and what  *)
(* does not touch a stream.                                                *)
LEMMA StreamsSendClosed ==
  ASSUME StreamState, SendClosed, NEW e \in Fds, NEW d \in Clients, cur = e, Conn = d
  PROVE  StreamsInv'
<1>1. /\ fdtab[e] = d
      /\ \A f \in Fds : fdtab[f] = d => f = e
      /\ \A f \in Fds : fdtab[f] # d => f # e /\ ~Sending(f)
      /\ ~Homeless(d)
  BY OtherConns DEF SendClosed
<1>2. PICK t \in Nat : Served(e, d, t)
  BY <1>1 DEF StreamState, StreamsInv
<1>3. /\ UNCHANGED <<fdtab, cur, inbuf, up, down, asked, rcvd, cst, cut>>
      /\ outbuf' = [outbuf EXCEPT ![e] = <<>>]
  BY DEF SendClosed, Sent, clientVars
<1>4. cst[d] # "on"
  BY DEF SendClosed, StreamState, TypedToo
<1>5. Served(e, d, t)'
  BY <1>2, <1>3, <1>4 DEF Served
<1>6. \A f \in Fds, c \in Clients : fdtab[f] = c /\ c # d => Same(f, c)
  BY <1>1, <1>3 DEF Same, StreamState, TypedToo
<1>7. \A c \in Clients : Homeless(c) => Unserved(c)'
  BY <1>3 DEF StreamState, StreamsInv, Unserved
<1>8. \A f \in Fds : fdtab[f] = Free => inbuf'[f] = inbuf[f] /\ outbuf'[f] = outbuf[f]
  BY <1>1, <1>3, ReactorAssumption DEF StreamState, TypedToo
<1> QED
  BY <1>1, <1>3, <1>5, <1>6, <1>7, <1>8, OneChanges

LEMMA StreamsStay ==
  ASSUME StreamState, \/ EpollWait \/ BatchDone \/ RecvEnds \/ SendBlocked
                      \/ SendReset
                      \/ \E f \in Fds : Dispatch(f)
                      \/ UNCHANGED vars
  PROVE  StreamsInv'
<1>1. CASE EpollWait \/ BatchDone \/ RecvEnds \/ \E f \in Fds : Dispatch(f)
  <2>1. /\ fdtab' = fdtab /\ inbuf' = inbuf /\ outbuf' = outbuf
        /\ UNCHANGED <<asked, up, down, rcvd, cst, cut>>
    BY <1>1 DEF EpollWait, BatchDone, RecvEnds, Dispatch, objVars, netVars, clientVars
  <2>2. rpc # "send"
    BY <1>1 DEF EpollWait, BatchDone, RecvEnds, Dispatch
  <2> QED
    BY <2>1, <2>2, NoneChanges DEF Sending
<1>2. CASE SendBlocked
  <2>1. /\ fdtab' = fdtab /\ inbuf' = inbuf /\ outbuf' = outbuf
        /\ UNCHANGED <<asked, up, down, rcvd, cst>> /\ cut' = cut \cup {Conn}
    BY <1>2 DEF SendBlocked, objVars, netVars
  <2>2. \A f \in Fds : Sending(f) => fdtab[f] \in cut'
    BY <2>1 DEF Sending, Conn
  <2> QED
    BY <2>1, <2>2, NoneChanges
<1>3. CASE SendReset
  <2>1. /\ fdtab' = fdtab /\ inbuf' = inbuf /\ outbuf' = outbuf
        /\ UNCHANGED <<asked, up, down, rcvd, cst, cut>>
    BY <1>3 DEF SendReset, objVars, netVars, clientVars
  <2>2. \A f \in Fds : Sending(f) => cst[fdtab[f]] # "on"
    BY <1>3, ConnIsOne DEF SendReset, Sending, StreamState, TypedToo
  <2> QED
    BY <2>1, <2>2, NoneChanges
<1>4. CASE UNCHANGED vars
  BY <1>4, NoneChanges DEF vars, objVars, netVars, clientVars, loopVars, Sending
<1> QED
  BY <1>1, <1>2, <1>3, <1>4

(* accept: the connection brings all its lines, and finds an empty object. *)
LEMMA StreamsAccept ==
  ASSUME StreamState, NEW f \in Fds, Accept(f), NEW d \in Clients, Head(backlog) = d
  PROVE  StreamsInv'
<1>1. /\ fdtab[f] = Free
      /\ fdtab' = [fdtab EXCEPT ![f] = d]
      /\ UNCHANGED <<inbuf, outbuf, rpc, cur, up, down, asked, rcvd, cst, cut>>
  BY DEF Accept, netVars, clientVars
<1>2. rpc # "send" /\ d # Free
  BY ReactorAssumption DEF Accept
<1>3. Unserved(d)
  <2>1. 1 \in DOMAIN backlog /\ backlog[1] = d
    BY DEF Accept, StreamState, Typed, LoopInv
  <2>2. Homeless(d)
    BY <2>1 DEF StreamState, OneHome, Homeless
  <2> QED
    BY <2>2 DEF StreamState, StreamsInv
<1>4. inbuf[f] = <<>> /\ outbuf[f] = <<>>
  BY <1>1 DEF StreamState, StreamsInv
<1>5. Served(f, d, 0)'
  <2>1. up[d] \in Stream /\ <<>> \in Stream /\ Len(asked[d]) \in Nat
    BY EmptyStream DEF StreamState, Typed, Stream
  <2>2. 2 * 0 = 0 /\ 0 \in Nat /\ 0 <= Len(asked[d])
    BY <2>1
  <2>3. Joins(inbuf[f], up[d], Lines(0, 2 * Len(asked[d])))
    BY <1>3, <1>4, <2>1, JoinEmpty DEF Unserved
  <2>4. Answers(0, 0) = <<>>
    BY <2>2, StretchEmpty DEF Answers, Names
  <2>5. Joins(down[d], outbuf[f], Answers(0, 0))
    BY <1>3, <1>4, <2>1, <2>4, JoinEmpty DEF Unserved
  <2> QED
    BY <1>1, <1>3, <1>4, <2>2, <2>3, <2>5 DEF Served, Unserved
<1>6. ASSUME NEW g \in Fds, NEW c \in Clients, fdtab'[g] = c
      PROVE  \E t \in Nat : Served(g, c, t)'
  <2>1. CASE g = f
    <3>1. c = d
      BY <1>1, <1>6, <2>1 DEF StreamState, Typed
    <3> QED
      BY <1>5, <2>1, <3>1
  <2>2. CASE g # f
    <3>1. fdtab[g] = c
      BY <1>1, <1>6, <2>2 DEF StreamState, Typed
    <3>2. PICK t \in Nat : Served(g, c, t)
      BY <3>1 DEF StreamState, StreamsInv
    <3>3. Same(g, c)
      BY <1>1, <1>2 DEF Same, Sending
    <3>4. Served(g, c, t)'
      BY <3>2, <3>3, ServedKept
    <3> QED
      BY <3>4
  <2> QED
    BY <2>1, <2>2
<1>7. \A c \in Clients : Homeless(c)' => Unserved(c)'
  <2> SUFFICES ASSUME NEW c \in Clients, Homeless(c)' PROVE Unserved(c)'
    OBVIOUS
  <2>1. Homeless(c)
    BY <1>1, ReactorAssumption DEF Homeless, StreamState, Typed
  <2>2. Unserved(c)
    BY <2>1 DEF StreamState, StreamsInv
  <2> QED
    BY <1>1, <2>2 DEF Unserved
<1>8. \A g \in Fds : fdtab'[g] = Free => inbuf'[g] = <<>> /\ outbuf'[g] = <<>>
  BY <1>1, <1>2 DEF StreamState, StreamsInv, Typed
<1> QED
  BY <1>6, <1>7, <1>8 DEF StreamsInv

(* A request joins what was asked before.                                  *)
LEMMA StreamsAsk == ASSUME StreamState, NEW d \in Clients, NEW q \in Kinds, Ask(d, q)
                    PROVE  StreamsInv'
<1> DEFINE N == Len(asked[d])
           x == RequestUnits(N + 1)
           w == up[d] \o x
<1>1. /\ asked' = [asked EXCEPT ![d] = Append(@, q)]
      /\ up' = [up EXCEPT ![d] = w]
      /\ UNCHANGED <<fdtab, inbuf, outbuf, rpc, cur, down, cst, rcvd, cut>>
  BY DEF Ask, objVars, loopVars
<1>2. N \in Nat /\ Len(asked'[d]) = N + 1
  BY <1>1 DEF StreamState, Typed
<1>3. up[d] \in Stream
  BY DEF StreamState, Typed, Stream
<1>4. x \in Stream /\ x = Lines(2 * N, 2 * N + 2)
  <2>1. /\ 2 * N \in Nat /\ 2 * N + 2 \in Nat /\ 2 * N <= 2 * N + 2
    BY <1>2
  <2>2. x = Lines(2 * N, 2 * N + 2)
    BY <1>2, RequestIsLine
  <2> HIDE DEF N, x
  <2> QED
    BY <2>1, <2>2, LinesTyped
<1> HIDE DEF N, x
<1>5. Joins(up[d], x, w)
  BY <1>3, <1>4, JoinTyped
<1> HIDE DEF w
<1>6. up'[d] = w
  BY <1>1 DEF StreamState, Typed
<1>7. ASSUME NEW t \in Nat, t <= N, NEW v \in Stream, Joins(v, up[d], Lines(2 * t, 2 * N))
      PROVE  Joins(v, w, Lines(2 * t, 2 * (N + 1)))
  <2>1. /\ 2 * t \in Nat /\ 2 * N \in Nat /\ 2 * N + 2 \in Nat
        /\ 2 * t <= 2 * N /\ 2 * N <= 2 * N + 2
        /\ 2 * (N + 1) = 2 * N + 2
    BY <1>2, <1>7
  <2>2. Joins(Lines(2 * t, 2 * N), x, Lines(2 * t, 2 * N + 2))
    BY <1>4, <2>1, LinesJoin
  <2>3. Joins(v, w, Lines(2 * t, 2 * N + 2))
    BY <1>3, <1>4, <1>5, <1>7, <2>2, Regroup
  <2> QED
    BY <2>1, <2>3
<1>8. \A f \in Fds, c \in Clients : fdtab[f] = c /\ c # d => Same(f, c)
  BY <1>1 DEF Same, Sending, StreamState, Typed
<1>9. ASSUME NEW f \in Fds, fdtab[f] = d PROVE \E t \in Nat : Served(f, d, t)'
  <2>1. PICK t \in Nat : Served(f, d, t)
    BY <1>9 DEF StreamState, StreamsInv
  <2>2. inbuf[f] \in Stream /\ t <= N /\ Joins(inbuf[f], up[d], Lines(2 * t, 2 * N))
    BY <2>1 DEF Served, StreamState, TypedToo, N
  <2>3. Joins(inbuf[f], w, Lines(2 * t, 2 * (N + 1)))
    BY <1>7, <2>2
  <2>4. Served(f, d, t)'
    BY <1>1, <1>2, <1>6, <2>1, <2>2, <2>3 DEF Served, Sending
  <2> QED
    BY <2>4
<1>10. ASSUME NEW c \in Clients, Homeless(c) PROVE Unserved(c)'
  <2>1. Unserved(c)
    BY <1>10 DEF StreamState, StreamsInv
  <2>2. CASE c # d
    BY <1>1, <2>1, <2>2 DEF Unserved, StreamState, Typed
  <2>3. CASE c = d
    <3>1. 2 * 0 = 0 /\ 0 \in Nat /\ 0 <= N /\ <<>> \in Stream
      BY <1>2, EmptyStream
    <3>2. Joins(<<>>, up[d], Lines(2 * 0, 2 * N))
      BY <1>3, <2>1, <2>3, <3>1, JoinEmpty DEF Unserved, N
    <3>3. Joins(<<>>, w, Lines(2 * 0, 2 * (N + 1)))
      BY <1>7, <3>1, <3>2
    <3>4. w \in Stream
      BY <1>3, <1>4, JoinTyped DEF w
    <3>5. w = Lines(0, 2 * (N + 1))
      BY <3>1, <3>3, <3>4, JoinEmpty
    <3> QED
      BY <1>1, <1>2, <1>6, <2>1, <2>3, <3>5 DEF Unserved
  <2> QED
    BY <2>2, <2>3
<1> QED
  BY <1>1, <1>8, <1>9, <1>10, OneChanges

(* A client takes the beginning of what is there.                          *)
LEMMA StreamsGetReply == ASSUME StreamState, NEW d \in Clients, GetReply(d) PROVE StreamsInv'
<1>1. PICK n \in 1 .. Len(down[d]) : /\ down' = [down EXCEPT ![d] = Drop(down[d], n)]
                                    /\ rcvd' = [rcvd EXCEPT ![d] = rcvd[d] + n]
  BY DEF GetReply, StreamState, TypedToo
<1> DEFINE v == Drop(down[d], n)
<1> HIDE DEF v
<1>2. UNCHANGED <<fdtab, inbuf, outbuf, rpc, cur, up, asked, cst, cut>>
  BY DEF GetReply, objVars, loopVars
<1>3. down'[d] = v /\ rcvd'[d] = rcvd[d] + n /\ down[d] \in Stream /\ rcvd[d] \in Nat
  BY <1>1 DEF v, StreamState, TypedToo
<1>4. \A c \in Clients : c # d => down'[c] = down[c] /\ rcvd'[c] = rcvd[c]
  BY <1>1 DEF StreamState, TypedToo
<1>5. \A f \in Fds, c \in Clients : fdtab[f] = c /\ c # d => Same(f, c)
  BY <1>2, <1>4 DEF Same, Sending
<1>6. ASSUME NEW f \in Fds, fdtab[f] = d PROVE \E t \in Nat : Served(f, d, t)'
  <2>1. PICK t \in Nat : Served(f, d, t)
    BY <1>6 DEF StreamState, StreamsInv
  <2>2. ASSUME cst[d] = "on", d \notin cut
        PROVE  /\ rcvd[d] + n <= 2 * t
               /\ Joins(v, outbuf[f], Answers(rcvd[d] + n, 2 * t))
    <3>1. rcvd[d] <= 2 * t /\ Joins(down[d], outbuf[f], Answers(rcvd[d], 2 * t))
      BY <2>1, <2>2 DEF Served
    <3>2. 2 * t \in Nat /\ outbuf[f] \in Stream /\ n \in 0 .. Len(down[d])
      BY DEF StreamState, TypedToo
    <3>3. rcvd[d] + n \in 0 .. (2 * t) /\ Joins(v, outbuf[f], Answers(rcvd[d] + n, 2 * t))
      BY <1>3, <3>1, <3>2, AnswersCut DEF v
    <3> QED
      BY <3>3
  <2>3. Served(f, d, t)'
    BY <1>2, <1>3, <2>1, <2>2 DEF Served, Sending
  <2> QED
    BY <2>3
<1>7. ASSUME NEW c \in Clients, Homeless(c) PROVE Unserved(c)'
  <2>1. Unserved(c)
    BY <1>7 DEF StreamState, StreamsInv
  <2>2. c # d
    BY <2>1 DEF Unserved
  <2> QED
    BY <1>2, <1>4, <2>1, <2>2 DEF Unserved
<1> QED
  BY <1>2, <1>5, <1>6, <1>7, OneChanges

(* A client that leaves drops what it has not read.                        *)
LEMMA StreamsLeave == ASSUME StreamState, NEW d \in Clients, Leave(d) PROVE StreamsInv'
<1>1. /\ cst' = [cst EXCEPT ![d] = "ended"]
      /\ down' = [down EXCEPT ![d] = <<>>]
      /\ UNCHANGED <<fdtab, inbuf, outbuf, rpc, cur, up, asked, rcvd, cut>>
  BY DEF Leave, objVars, loopVars
<1>2. \A f \in Fds, c \in Clients : fdtab[f] = c /\ c # d => Same(f, c)
  BY <1>1 DEF Same, Sending, StreamState, TypedToo
<1>3. ASSUME NEW f \in Fds, fdtab[f] = d PROVE \E t \in Nat : Served(f, d, t)'
  <2>1. PICK t \in Nat : Served(f, d, t)
    BY <1>3 DEF StreamState, StreamsInv
  <2>2. cst'[d] # "on"
    BY <1>1 DEF StreamState, TypedToo
  <2>3. Served(f, d, t)'
    BY <1>1, <2>1, <2>2 DEF Served
  <2> QED
    BY <2>3
<1>4. \A c \in Clients : Homeless(c) => Unserved(c)'
  BY <1>1 DEF StreamState, StreamsInv, Unserved, TypedToo
<1> QED
  BY <1>1, <1>2, <1>3, <1>4, OneChanges

LEMMA StreamsConnect == ASSUME StreamState, NEW d \in Clients, Connect(d) PROVE StreamsInv'
<1>1. /\ cst[d] = "new"
      /\ cst' = [cst EXCEPT ![d] = "on"]
      /\ UNCHANGED <<fdtab, inbuf, outbuf, rpc, cur, up, down, asked, rcvd, cut>>
  BY DEF Connect, objVars, loopVars, netVars
<1>2. \A f \in Fds : fdtab[f] # d
  BY <1>1 DEF StreamState, OneHome
<1>3. \A f \in Fds, c \in Clients : fdtab[f] = c /\ c # d => Same(f, c)
  BY <1>1 DEF Same, Sending, StreamState, TypedToo
<1>4. \A c \in Clients : Homeless(c) => Unserved(c)'
  BY <1>1 DEF StreamState, StreamsInv, Unserved
<1> QED
  BY <1>1, <1>2, <1>3, <1>4, OneChanges

LEMMA StreamsNext == ASSUME StreamState, [Next]_vars, alive' PROVE StreamsInv'
<1>1. CASE ServerStep
  <2>1. CASE AcceptFails
    BY <2>1 DEF AcceptFails
  <2>2. CASE Recv
    <3>1. cur \in Fds /\ Conn \in Clients
      BY <2>2, ConnIsOne DEF Recv, StreamState
    <3> QED
      BY <2>2, <3>1, StreamsRecv
  <2>3. CASE Send
    <3>1. cur \in Fds /\ Conn \in Clients
      BY <2>3, ConnIsOne DEF Send, StreamState
    <3> QED
      BY <2>3, <3>1, StreamsSend
  <2>4. CASE SendClosed
    <3>1. cur \in Fds /\ Conn \in Clients
      BY <2>4, ConnIsOne DEF SendClosed, StreamState
    <3> QED
      BY <2>4, <3>1, StreamsSendClosed
  <2>5. ASSUME NEW f \in Fds, Accept(f) PROVE StreamsInv'
    <3>1. Head(backlog) \in Clients
      BY <2>5 DEF Accept, StreamState, Typed, LoopInv
    <3> QED
      BY <2>5, <3>1, StreamsAccept
  <2> QED
    BY <1>1, <2>1, <2>2, <2>3, <2>4, <2>5, StreamsStay DEF ServerStep, HandlerStep
<1>2. ASSUME NEW c \in Clients, ClientStep(c) PROVE StreamsInv'
  BY <1>2, StreamsConnect, StreamsGetReply, StreamsLeave, StreamsAsk, KindsAreKinds
     DEF ClientStep, StreamState
<1> QED
  BY <1>1, <1>2, StreamsStay DEF Next

LEMMA AliveBefore == [Next]_vars /\ alive' => alive
  BY DEF Next, ServerStep, ClientStep, Connect, Ask, GetReply, Leave, vars

LEMMA OrderNext == OrderInv /\ [Next]_vars => OrderInv'
<1> SUFFICES ASSUME OrderInv, [Next]_vars PROVE OrderInv'
  OBVIOUS
<1>1. Typed' /\ LoopInv'
  BY TypedNext, LoopNext DEF OrderInv
<1>2. OneHome'
  BY HomeNext DEF OrderInv
<1>3. TypedToo'
  BY TypedTooNext DEF OrderInv
<1>4. alive' => StreamsInv'
  BY AliveBefore, StreamsNext DEF OrderInv, StreamState
<1> QED
  BY <1>1, <1>2, <1>3, <1>4 DEF OrderInv

LEMMA OrderInit == Init => OrderInv
<1> SUFFICES ASSUME Init PROVE OrderInv
  OBVIOUS
<1>1. Typed /\ LoopInv
  BY ReactorAssumption DEF Init, Typed, LoopInv
<1>2. OneHome
  BY ReactorAssumption DEF Init, OneHome
<1>3. TypedToo
  BY EmptyStream DEF Init, TypedToo
<1>4. \A c \in Clients : Unserved(c)
  <2>1. Lines(0, 0) = <<>> /\ 2 * 0 = 0
    BY StretchEmpty DEF Lines, Names
  <2>2. \A c \in Clients : Len(asked[c]) = 0
    BY DEF Init
  <2> QED
    BY <2>1, <2>2 DEF Init, Unserved
<1>5. StreamsInv
  BY <1>4, ReactorAssumption DEF Init, StreamsInv
<1> QED
  BY <1>1, <1>2, <1>3, <1>5 DEF OrderInv

LEMMA OrderInvariant == Spec => []OrderInv
  BY OrderInit, OrderNext, PTL DEF Spec

(* The requests, and the replies, from the first on.                       *)
LEMMA RequestsLeft == ASSUME NEW n \in Nat, NEW t \in Nat, t <= n
                      PROVE  Drop(Requests(n), 2 * t) = Lines(2 * t, 2 * n)
<1>1. /\ 0 \in Nat /\ 2 * n \in Nat /\ 0 <= 2 * n /\ 2 * n - 0 = 2 * n
      /\ 2 * t \in 0 .. (2 * n) /\ 0 + 2 * t = 2 * t
  OBVIOUS
<1>2. Requests(n) = Lines(0, 2 * n)
  BY <1>1 DEF Requests, Lines, Stretch, Unit
<1>3. Lines(0, 2 * n) \in Stream /\ Len(Lines(0, 2 * n)) = 2 * n
  BY <1>1, LinesTyped
<1>4. <<>> \in Stream /\ Joins(Lines(0, 2 * n), <<>>, Lines(0, 2 * n))
  BY <1>3, JoinEmpty, EmptyStream
<1>5. /\ Drop(Lines(0, 2 * n), 2 * t) \in Stream
      /\ Joins(Drop(Lines(0, 2 * n), 2 * t), <<>>, Lines(0 + 2 * t, 2 * n))
  BY <1>1, <1>3, <1>4, LinesCut
<1>6. Drop(Lines(0, 2 * n), 2 * t) = Lines(0 + 2 * t, 2 * n)
  BY <1>5, JoinEmpty
<1> QED
  BY <1>1, <1>2, <1>6

LEMMA RepliesLeft == ASSUME NEW t \in Nat, NEW k \in Nat, k <= 2 * t
                     PROVE  Drop(Replies(t), k) = Answers(k, 2 * t)
<1>1. /\ 0 \in Nat /\ 2 * t \in Nat /\ 0 <= 2 * t /\ 2 * t - 0 = 2 * t
      /\ k \in 0 .. (2 * t) /\ 0 + k = k
  OBVIOUS
<1>2. Replies(t) = Answers(0, 2 * t)
  BY <1>1 DEF Replies, Answers, Stretch, Unit
<1>3. Answers(0, 2 * t) \in Stream /\ Len(Answers(0, 2 * t)) = 2 * t
  BY <1>1, AnswersTyped
<1>4. <<>> \in Stream /\ Joins(Answers(0, 2 * t), <<>>, Answers(0, 2 * t))
  BY <1>3, JoinEmpty, EmptyStream
<1>5. /\ Drop(Answers(0, 2 * t), k) \in Stream
      /\ Joins(Drop(Answers(0, 2 * t), k), <<>>, Answers(0 + k, 2 * t))
  BY <1>1, <1>3, <1>4, AnswersCut
<1>6. Drop(Answers(0, 2 * t), k) = Answers(0 + k, 2 * t)
  BY <1>5, JoinEmpty
<1> QED
  BY <1>1, <1>2, <1>6

(* Each line a client sends is answered once, with one whole reply, in the *)
(* order of the requests, whatever recv and send cut the streams into and  *)
(* however far the client is ahead; the lines that are not answered yet    *)
(* are all there, in the object's buffer and in the kernel.                *)
THEOREM OneReplyPerLine == Spec => []RepliesInOrder
<1>1. OrderInv => RepliesInOrder
  <2> SUFFICES ASSUME OrderInv, alive, NEW f \in Fds, NEW c, c = fdtab[f],
                      c # Free, c \notin cut, cst[c] = "on"
               PROVE  LET rest  == inbuf[f] \o up[c]
                          taken == Len(asked[c]) - Cardinality(LineEnds(rest))
                      IN /\ rest = Drop(Requests(Len(asked[c])), 2 * Len(asked[c]) - Len(rest))
                         /\ down[c] \o outbuf[f] = Drop(Replies(taken), rcvd[c])
    BY DEF RepliesInOrder
  <2> DEFINE N == Len(asked[c])
             rest == inbuf[f] \o up[c]
             taken == N - Cardinality(LineEnds(rest))
  <2>1. c \in Clients
    BY DEF OrderInv, Typed
  <2>2. PICK t \in Nat : Served(f, c, t)
    BY <2>1 DEF OrderInv, StreamsInv
  <2>3. N \in Nat /\ rcvd[c] \in Nat
    BY <2>1 DEF OrderInv, Typed, TypedToo
  <2>4. t <= N /\ rest = Lines(2 * t, 2 * N)
    BY <2>2, Zenon DEF Served, Joins
  <2>5. rcvd[c] <= 2 * t /\ Joins(down[c], outbuf[f], Answers(rcvd[c], 2 * t))
    BY <2>2 DEF Served
  <2> HIDE DEF N, rest
  <2>6. N - t \in Nat /\ 2 * (t + (N - t)) = 2 * N
    BY <2>3, <2>4
  <2>7. Cardinality(LineEnds(rest)) = N - t
    BY <2>4, <2>6, CountLines
  <2>8. taken = t
    BY <2>3, <2>7
  <2>9. 2 * N - Len(rest) = 2 * t
    <3>1. 2 * t \in Nat /\ 2 * N \in Nat /\ 2 * t <= 2 * N
      BY <2>3, <2>4
    <3>2. Len(rest) = 2 * N - 2 * t
      BY <2>4, <3>1, LinesTyped
    <3> QED
      BY <3>1, <3>2
  <2> HIDE DEF taken
  <2>10. rest = Drop(Requests(N), 2 * N - Len(rest))
    BY <2>3, <2>4, <2>9, RequestsLeft
  <2>11. Answers(rcvd[c], 2 * t) = Drop(Replies(taken), rcvd[c])
    BY <2>3, <2>5, <2>8, RepliesLeft
  <2>12. down[c] \o outbuf[f] = Drop(Replies(taken), rcvd[c])
    BY <2>5, <2>11, Zenon DEF Joins
  <2> QED
    BY <2>10, <2>12, Zenon DEF N, rest, taken
<1> QED
  BY <1>1, OrderInvariant, PTL
-----------------------------------------------------------------------------
(* Clients that wait for each reply. The process outlives them: no step    *)
(* takes it to accept without a free descriptor, to a request that cannot  *)
(* be parsed, or to a send on a reset connection.                          *)

CalmState == OrderInv /\ Calm /\ CalmInv

(* The lengths of the streams of a connection.                             *)
LEMMA Lengths ==
  ASSUME CalmState, NEW f \in Fds, NEW c \in Clients, fdtab[f] = c
  PROVE  /\ Len(inbuf[f]) \in Nat /\ Len(up[c]) \in Nat /\ Len(asked[c]) \in Nat
         /\ Len(down[c]) \in Nat /\ Len(outbuf[f]) \in Nat /\ rcvd[c] \in Nat
         /\ \E t \in Nat :
              /\ Served(f, c, t)
              /\ t <= Len(asked[c])
              /\ Len(inbuf[f]) + Len(up[c]) = 2 * Len(asked[c]) - 2 * t
              /\ cst[c] = "on" => /\ rcvd[c] + (Len(down[c]) + Len(outbuf[f])) = 2 * t
                                  /\ ~Sending(f) => outbuf[f] = <<>>
<1>1. /\ inbuf[f] \in Stream /\ outbuf[f] \in Stream
      /\ down[c] \in Stream /\ rcvd[c] \in Nat
  BY DEF CalmState, OrderInv, TypedToo
<1>2. up[c] \in Stream /\ Len(asked[c]) \in Nat
  BY DEF CalmState, OrderInv, Typed, Stream
<1>3. PICK t \in Nat : Served(f, c, t)
  BY DEF CalmState, CalmInv, OrderInv, StreamsInv
<1>4. t <= Len(asked[c])
  BY <1>3 DEF Served
<1>5. Len(inbuf[f]) + Len(up[c]) = 2 * Len(asked[c]) - 2 * t
  <2> DEFINE a == 2 * t
             b == 2 * Len(asked[c])
  <2>1. a \in Nat /\ b \in Nat /\ a <= b
    BY <1>2, <1>4
  <2>2. Joins(inbuf[f], up[c], Lines(a, b))
    BY <1>3 DEF Served
  <2> HIDE DEF a, b
  <2>3. inbuf[f] \in Stream /\ up[c] \in Stream
    BY <1>1, <1>2
  <2>4. Len(inbuf[f]) + Len(up[c]) = b - a
    BY <2>1, <2>2, <2>3, LinesCut
  <2> QED
    BY <2>4 DEF a, b
<1>6. ASSUME cst[c] = "on" PROVE /\ rcvd[c] + (Len(down[c]) + Len(outbuf[f])) = 2 * t
                                 /\ ~Sending(f) => outbuf[f] = <<>>
  <2>1. /\ rcvd[c] <= 2 * t /\ Joins(down[c], outbuf[f], Answers(rcvd[c], 2 * t))
        /\ ~Sending(f) => outbuf[f] = <<>>
    BY <1>3, <1>6 DEF Served, CalmState, CalmInv
  <2>2. 2 * t \in Nat
    OBVIOUS
  <2>3. Len(down[c]) + Len(outbuf[f]) = 2 * t - rcvd[c]
    BY <1>1, <2>1, <2>2, AnswersCut
  <2>4. Len(down[c]) \in Nat /\ Len(outbuf[f]) \in Nat
    BY <1>1, JoinTyped
  <2> DEFINE q == rcvd[c]
             m == Len(down[c])
             n == Len(outbuf[f])
             b == 2 * t
  <2>5. q \in Nat /\ m \in Nat /\ n \in Nat /\ b \in Nat /\ m + n = b - q
    BY <1>1, <2>2, <2>3, <2>4
  <2>6. q + (m + n) = b
    <3> HIDE DEF q, m, n, b
    <3> QED
      BY <2>5
  <2> QED
    BY <2>1, <2>6
<1> QED
  BY <1>1, <1>2, <1>3, <1>4, <1>5, <1>6, JoinTyped

(* A step that leaves what InStep speaks of.                               *)
Kept(f, c) ==
  /\ inbuf'[f] = inbuf[f] /\ up'[c] = up[c] /\ asked'[c] = asked[c]
  /\ rcvd'[c] = rcvd[c] /\ cst'[c] = cst[c] /\ peer'[c] = peer[c]
  /\ Sending(f)' => Sending(f) /\ outbuf'[f] = outbuf[f]

LEMMA InStepKept == ASSUME NEW f \in Fds, NEW c \in Clients, InStep(f, c), Kept(f, c)
                    PROVE  InStep(f, c)'
BY DEF InStep, Pending, Kept

NoneBad == \A c \in Clients : \A k \in DOMAIN asked[c] : asked[c][k] # "bad"

LEMMA CalmOneChanges ==
  ASSUME CalmState, NEW d \in Clients, fdtab' = fdtab, alive', cut' = {}, NoneBad',
         \A f \in Fds, c \in Clients : fdtab[f] = c /\ c # d => Kept(f, c),
         \A f \in Fds : fdtab[f] = d => InStep(f, d)',
         \A c \in Clients : Homeless(c) => Len(asked'[c]) <= 1 /\ peer'[c] # "rst"
  PROVE  CalmInv'
<1>1. ASSUME NEW f \in Fds, NEW c \in Clients, fdtab'[f] = c PROVE InStep(f, c)'
  <2>1. InStep(f, c)
    BY <1>1 DEF CalmState, CalmInv
  <2> QED
    BY <1>1, <2>1, InStepKept
<1>2. \A c \in Clients : Homeless(c)' => Len(asked'[c]) <= 1 /\ peer'[c] # "rst"
  BY DEF Homeless
<1> QED
  BY <1>1, <1>2 DEF CalmInv, NoneBad

LEMMA CalmNoneChanges ==
  ASSUME CalmState, fdtab' = fdtab, inbuf' = inbuf, outbuf' = outbuf,
         UNCHANGED <<asked, up, rcvd, cst, peer, cut, alive>>,
         \A f \in Fds : Sending(f)' => Sending(f)
  PROVE  CalmInv'
<1>1. ASSUME NEW f \in Fds, NEW c \in Clients, fdtab'[f] = c PROVE InStep(f, c)'
  <2>1. InStep(f, c)
    BY <1>1 DEF CalmState, CalmInv
  <2>2. Kept(f, c)
    BY DEF Kept
  <2> QED
    BY <2>1, <2>2, InStepKept
<1> QED
  BY <1>1 DEF CalmState, CalmInv, Homeless

(* The handler, seen from the other connections.                           *)
LEMMA HandlerElsewhere ==
  ASSUME CalmState, rpc \in {"recv", "send"}, NEW e \in Fds, NEW d \in Clients,
         cur = e, Conn = d, cur' = cur,
         UNCHANGED <<asked, rcvd, cst>>,
         \A f \in Fds : f # e => inbuf'[f] = inbuf[f] /\ outbuf'[f] = outbuf[f],
         \A c \in Clients : c # d => up'[c] = up[c] /\ peer'[c] = peer[c]
  PROVE  /\ fdtab[e] = d
         /\ \A f \in Fds, c \in Clients : fdtab[f] = c /\ c # d => Kept(f, c)
         /\ \A c \in Clients : Homeless(c) => Len(asked'[c]) <= 1 /\ peer'[c] # "rst"
         /\ \A f \in Fds : fdtab[f] = d => f = e
         /\ InStep(e, d)
         /\ NoneBad'
<1>1. StreamState
  BY DEF CalmState, CalmInv, OrderInv, StreamState
<1>2. /\ fdtab[e] = d
      /\ \A f \in Fds : fdtab[f] = d => f = e
      /\ \A f \in Fds : fdtab[f] # d => f # e
      /\ ~Homeless(d)
  BY <1>1, OtherConns
<1>3. InStep(e, d)
  BY <1>2 DEF CalmState, CalmInv
<1>4. \A f \in Fds, c \in Clients : fdtab[f] = c /\ c # d => Kept(f, c)
  BY <1>2 DEF Kept, Sending
<1>5. \A c \in Clients : Homeless(c) => Len(asked'[c]) <= 1 /\ peer'[c] # "rst"
  BY <1>2 DEF CalmState, CalmInv
<1>6. NoneBad'
  BY DEF CalmState, CalmInv, NoneBad
<1> QED
  BY <1>2, <1>3, <1>4, <1>5, <1>6

LEMMA CalmRecv ==
  ASSUME CalmState, Recv, NEW e \in Fds, NEW d \in Clients, cur = e, Conn = d
  PROVE  CalmInv'
<1> DEFINE N == Len(asked[d])
<1>1. fdtab[e] = d
  BY DEF Conn
<1>2. /\ N \in Nat /\ rcvd[d] \in Nat
      /\ Len(inbuf[e]) \in Nat /\ Len(up[d]) \in Nat
  BY <1>1, Lengths
<1>3. PICK t \in Nat : /\ Served(e, d, t) /\ t <= N
                       /\ Len(inbuf[e]) + Len(up[d]) = 2 * N - 2 * t
                       /\ cst[d] = "on" /\ ~Sending(e) => outbuf[e] = <<>>
  BY <1>1, Lengths
<1>4. /\ \E v \in Stream : inbuf' = [inbuf EXCEPT ![e] = v]
      /\ \E v \in Stream : up' = [up EXCEPT ![d] = v]
      /\ TookNone(t) \/ TookLine(t)
  BY <1>3, RecvTakes DEF CalmState, OrderInv
<1>5. UNCHANGED <<fdtab, cur, peer, asked, rcvd, cst, cut>>
  BY DEF Recv, clientVars
<1>6. outbuf' = outbuf \/ outbuf' = [outbuf EXCEPT ![e] = Reply(t + 1)]
  BY <1>4 DEF TookNone, TookLine
<1>7. /\ \A f \in Fds : f # e => inbuf'[f] = inbuf[f] /\ outbuf'[f] = outbuf[f]
      /\ \A c \in Clients : c # d => up'[c] = up[c] /\ peer'[c] = peer[c]
  BY <1>4, <1>5, <1>6 DEF CalmState, OrderInv, Typed, TypedToo
<1>8. /\ \A f \in Fds, c \in Clients : fdtab[f] = c /\ c # d => Kept(f, c)
      /\ \A c \in Clients : Homeless(c) => Len(asked'[c]) <= 1 /\ peer'[c] # "rst"
      /\ \A f \in Fds : fdtab[f] = d => f = e
      /\ InStep(e, d)
      /\ NoneBad'
  BY <1>5, <1>7, HandlerElsewhere DEF Recv
<1>9. inbuf'[e] \in Stream /\ up'[d] \in Stream
  BY <1>4 DEF CalmState, OrderInv, Typed, TypedToo
<1>10. alive /\ cut' = {}
  BY <1>5 DEF CalmState, CalmInv
<1>11. /\ Len(inbuf[e]) + Len(up[d]) <= 2
       /\ cst[d] = "on" => 2 * N <= rcvd[d] + 2
       /\ peer[d] = "rst" => Len(inbuf[e]) + Len(up[d]) = 0
  BY <1>8 DEF InStep, Pending
<1>12. ~Sending(e)
  BY DEF Recv, Sending
<1>13. CASE TookNone(t)
  <2>1. alive' /\ ~Sending(e)'
    BY <1>5, <1>10, <1>12, <1>13 DEF TookNone, Sending
  <2>2. Len(inbuf'[e]) + Len(up'[d]) = 2 * N - 2 * t
    <3>1. 2 * t \in Nat /\ 2 * N \in Nat /\ 2 * t <= 2 * N
      BY <1>2, <1>3
    <3>2. Joins(inbuf'[e], up'[d], Lines(2 * t, 2 * N))
      BY <1>13 DEF TookNone
    <3> QED
      BY <1>9, <3>1, <3>2, LinesCut
  <2>3. Len(inbuf'[e]) + Len(up'[d]) = Len(inbuf[e]) + Len(up[d])
    BY <1>3, <2>2
  <2>4. InStep(e, d)'
    BY <1>5, <1>11, <2>1, <2>3 DEF InStep, Pending
  <2> QED
    BY <1>5, <1>8, <1>10, <2>1, <2>4, CalmOneChanges
<1>14. CASE TookLine(t)
  <2>1. t + 1 <= N /\ t + 1 \in DOMAIN asked[d]
    BY <1>2, <1>14 DEF TookLine, CalmState, OrderInv, Typed
  <2>2. asked[d][t + 1] # "bad"
    BY <2>1 DEF CalmState, CalmInv
  <2>3. outbuf' = [outbuf EXCEPT ![e] = Reply(t + 1)] /\ rpc' = "send" /\ alive'
    BY <1>10, <1>14, <2>2 DEF TookLine
  <2>4. Len(inbuf'[e]) + Len(up'[d]) = 2 * N - 2 * (t + 1)
    <3>1. 2 * (t + 1) \in Nat /\ 2 * N \in Nat /\ 2 * (t + 1) <= 2 * N
      BY <1>2, <2>1
    <3>2. Joins(inbuf'[e], up'[d], Lines(2 * (t + 1), 2 * N))
      BY <1>14 DEF TookLine
    <3> QED
      BY <1>9, <3>1, <3>2, LinesCut
  <2>5. N = t + 1 /\ peer[d] # "rst"
    <3>1. 2 * N - 2 * t <= 2 /\ (peer[d] = "rst" => 2 * N - 2 * t = 0)
      BY <1>3, <1>11
    <3> HIDE DEF N
    <3> QED
      BY <1>2, <2>1, <3>1
  <2>6. Len(inbuf'[e]) + Len(up'[d]) = 0
    <3>1. 2 * N - 2 * (t + 1) = 0
      BY <1>2, <2>5
    <3> QED
      BY <2>4, <3>1
  <2>7. ASSUME cst[d] = "on" PROVE Len(outbuf'[e]) = 2
    <3>1. outbuf[e] = <<>> /\ <<>> \in Stream
      BY <1>3, <1>12, <2>7, EmptyStream
    <3>2. outbuf'[e] = Reply(t + 1)
      BY <2>3 DEF CalmState, OrderInv, TypedToo
    <3>3. outbuf'[e] = Answers(2 * t, 2 * t + 2)
      BY <3>1, <3>2, ReplyTyped
    <3>4. 2 * t \in Nat /\ 2 * t + 2 \in Nat /\ 2 * t <= 2 * t + 2 /\ (2 * t + 2) - 2 * t = 2
      OBVIOUS
    <3>5. Len(Answers(2 * t, 2 * t + 2)) = (2 * t + 2) - 2 * t
      BY <3>4, AnswersTyped
    <3> QED
      BY <3>3, <3>4, <3>5
  <2>8. InStep(e, d)'
    <3>1. Pending(e, d)' = 0
      BY <2>6 DEF Pending
    <3>2. peer'[d] = peer[d] /\ cst'[d] = cst[d] /\ asked'[d] = asked[d] /\ rcvd'[d] = rcvd[d]
      BY <1>5
    <3>3. cst'[d] = "on" => 2 * Len(asked'[d]) <= rcvd'[d] + 2 /\ Len(outbuf'[e]) = 2
      BY <1>11, <2>7, <3>2
    <3> QED
      BY <2>5, <3>1, <3>2, <3>3 DEF InStep
  <2> QED
    BY <1>5, <1>8, <1>10, <2>3, <2>8, CalmOneChanges
<1> QED
  BY <1>4, <1>13, <1>14

(* A reply that is being sent to a client that is there is the only thing  *)
(* on its way to it, and it is the reply to its last request.              *)
LEMMA SendingAlone ==
  ASSUME CalmState, NEW f \in Fds, NEW c \in Clients, fdtab[f] = c,
         cst[c] = "on", Sending(f)
  PROVE  Len(outbuf[f]) = 2 /\ Len(down[c]) = 0 /\ Pending(f, c) = 0
<1> DEFINE N == Len(asked[c])
           q == rcvd[c]
           m == Len(down[c])
           n == Len(outbuf[f])
           i == Len(inbuf[f])
           u == Len(up[c])
<1>1. N \in Nat /\ q \in Nat /\ m \in Nat /\ i \in Nat /\ u \in Nat
  BY Lengths
<1>2. n = 2 /\ 2 * N <= q + 2
  BY DEF CalmState, CalmInv, InStep
<1>3. PICK t \in Nat : t <= N /\ i + u = 2 * N - 2 * t /\ q + (m + n) = 2 * t
  BY Lengths
<1>4. m = 0 /\ i + u = 0
  <2> HIDE DEF N, q, m, n, i, u
  <2> QED
    BY <1>1, <1>2, <1>3
<1> QED
  BY <1>2, <1>4 DEF Pending

LEMMA CapFits == CalmState => setting.cap \in Nat /\ setting.cap >= 2
  BY ReactorAssumption DEF CalmState, OrderInv, Typed, Calm

(* So one send takes it all.                                               *)
LEMMA CalmSend ==
  ASSUME CalmState, Send, NEW e \in Fds, NEW d \in Clients, cur = e, Conn = d
  PROVE  CalmInv'
<1>1. /\ fdtab[e] = d /\ Sending(e)
      /\ UNCHANGED <<fdtab, cur, inbuf, up, peer, asked, rcvd, cst, cut, alive>>
  BY DEF Send, Sending, Conn, clientVars
<1>2. PICK n \in Nat : SendsSome(n)
  BY SendMoves DEF CalmState, OrderInv
<1>3. peer[d] = "open" /\ cst[d] = "on"
  <2>1. peer[d] = "open" /\ cst[d] # "ended"
    BY DEF Send, CalmState, OrderInv, TypedToo
  <2>2. cst[d] # "new"
    BY <1>1 DEF CalmState, OrderInv, OneHome
  <2> QED
    BY <2>1, <2>2 DEF CalmState, OrderInv, TypedToo
<1>4. Len(outbuf[e]) = 2 /\ Len(down[d]) = 0
  BY <1>1, <1>3, SendingAlone
<1>5. n \in 0 .. 2 /\ (n = 2 \/ n = setting.cap - 0)
  BY <1>2, <1>4, Zenon DEF SendsSome
<1>6. n = 2
  BY <1>5, CapFits
<1>7. rpc' = "recv" /\ \E v : outbuf' = [outbuf EXCEPT ![e] = v]
  BY <1>2, <1>4, <1>6, Zenon DEF SendsSome
<1>8. \A f \in Fds : f # e => inbuf'[f] = inbuf[f] /\ outbuf'[f] = outbuf[f]
  BY <1>1, <1>7 DEF CalmState, OrderInv, TypedToo
<1>9. /\ \A f \in Fds, c \in Clients : fdtab[f] = c /\ c # d => Kept(f, c)
      /\ \A c \in Clients : Homeless(c) => Len(asked'[c]) <= 1 /\ peer'[c] # "rst"
      /\ \A f \in Fds : fdtab[f] = d => f = e
      /\ InStep(e, d)
      /\ NoneBad'
  BY <1>1, <1>8, HandlerElsewhere DEF Send
<1>10. Kept(e, d)
  BY <1>1, <1>7 DEF Kept, Sending
<1>11. InStep(e, d)'
  BY <1>9, <1>10, InStepKept
<1>12. alive' /\ cut' = {}
  BY <1>1 DEF CalmState, CalmInv
<1> QED
  BY <1>1, <1>9, <1>11, <1>12, CalmOneChanges

LEMMA CalmNotBlocked == ASSUME CalmState PROVE ~SendBlocked
<1> SUFFICES ASSUME SendBlocked PROVE FALSE
  OBVIOUS
<1> DEFINE d == Conn
<1>1. cur \in Fds /\ d \in Clients /\ fdtab[cur] = d /\ Sending(cur)
  BY ConnIsOne DEF SendBlocked, CalmState, OrderInv, Sending
<1>2. cst[d] = "on"
  <2>1. cst[d] # "ended"
    BY <1>1 DEF SendBlocked, CalmState, OrderInv, TypedToo
  <2>2. cst[d] # "new"
    BY <1>1 DEF CalmState, OrderInv, OneHome
  <2> QED
    BY <1>1, <2>1, <2>2 DEF CalmState, OrderInv, TypedToo
<1>3. Len(down[d]) = 0
  BY <1>1, <1>2, SendingAlone
<1>4. Len(down[d]) = setting.cap
  BY DEF SendBlocked
<1> QED
  BY <1>3, <1>4, CapFits

(* The client that has gone had no line behind the one answered now.       *)
LEMMA CalmSendClosed ==
  ASSUME CalmState, SendClosed, NEW e \in Fds, NEW d \in Clients, cur = e, Conn = d
  PROVE  CalmInv'
<1>1. /\ fdtab[e] = d /\ Sending(e)
      /\ peer[d] = "fin"
      /\ rpc' = "recv"
      /\ outbuf' = [outbuf EXCEPT ![e] = <<>>]
      /\ peer' = [peer EXCEPT ![d] = "rst"] \/ peer' = peer
      /\ UNCHANGED <<fdtab, cur, inbuf, up, asked, rcvd, cst, cut, alive>>
  BY DEF SendClosed, Sent, Sending, Conn, clientVars
<1>2. /\ \A f \in Fds : f # e => inbuf'[f] = inbuf[f] /\ outbuf'[f] = outbuf[f]
      /\ \A c \in Clients : c # d => up'[c] = up[c] /\ peer'[c] = peer[c]
  BY <1>1 DEF CalmState, OrderInv, TypedToo
<1>3. /\ \A f \in Fds, c \in Clients : fdtab[f] = c /\ c # d => Kept(f, c)
      /\ \A c \in Clients : Homeless(c) => Len(asked'[c]) <= 1 /\ peer'[c] # "rst"
      /\ \A f \in Fds : fdtab[f] = d => f = e
      /\ InStep(e, d)
      /\ NoneBad'
  BY <1>1, <1>2, HandlerElsewhere DEF SendClosed
<1>4. cst'[d] # "on" /\ Pending(e, d) = 0 /\ ~Sending(e)'
  BY <1>1, <1>3 DEF InStep, CalmState, OrderInv, TypedToo, Sending
<1>5. InStep(e, d)'
  <2>1. Pending(e, d)' = 0
    BY <1>1, <1>4 DEF Pending
  <2> QED
    BY <1>4, <2>1 DEF InStep
<1>6. alive' /\ cut' = {}
  BY <1>1 DEF CalmState, CalmInv
<1> QED
  BY <1>1, <1>3, <1>5, <1>6, CalmOneChanges

LEMMA CalmNoReset == ASSUME CalmState PROVE ~SendReset
<1> SUFFICES ASSUME SendReset PROVE FALSE
  OBVIOUS
<1>1. cur \in Fds /\ Conn \in Clients /\ fdtab[cur] = Conn
  BY ConnIsOne DEF SendReset, CalmState, OrderInv
<1>2. Sending(cur) /\ peer[Conn] = "rst"
  BY DEF SendReset, Sending
<1> QED
  BY <1>1, <1>2 DEF CalmState, CalmInv, InStep

(* accept finds a descriptor: those in use belong to other clients than    *)
(* the one that waits.                                                     *)
LEMMA CalmAccepts == ASSUME IsFiniteSet(Clients), CalmState PROVE ~AcceptFails
<1> SUFFICES ASSUME AcceptFails PROVE FALSE
  OBVIOUS
<1> DEFINE d == Head(backlog)
           S == setting.fds
           g == [f \in S |-> fdtab[f]]
<1>1. 1 \in DOMAIN backlog /\ backlog[1] = d /\ d \in Clients
  BY DEF AcceptFails, CalmState, OrderInv, Typed, LoopInv
<1>2. S \subseteq Fds
  BY ReactorAssumption DEF CalmState, OrderInv, Typed
<1>3. \A f \in S : fdtab[f] \in Clients \ {d}
  <2> TAKE f \in S
  <2>1. fdtab[f] # Free /\ fdtab[f] \in Clients
    BY <1>2 DEF AcceptFails, CalmState, OrderInv, Typed
  <2>2. fdtab[f] # d
    BY <1>1, <1>2 DEF CalmState, OrderInv, OneHome
  <2> QED
    BY <2>1, <2>2
<1>4. \A f, h \in S : fdtab[f] = fdtab[h] => f = h
  BY <1>2 DEF AcceptFails, CalmState, OrderInv, OneHome
<1> HIDE DEF S, d
<1>5. g \in Injection(S, Clients \ {d})
  BY <1>3, <1>4 DEF Injection, IsInjective
<1>6. /\ IsFiniteSet(Clients \ {d})
      /\ Cardinality(Clients \ {d}) = Cardinality(Clients) - 1
      /\ Cardinality(Clients) \in Nat
  BY <1>1, FS_RemoveElement, FS_CardinalityType
<1>7. Cardinality(S) <= Cardinality(Clients \ {d}) /\ Cardinality(S) \in Nat
  BY <1>5, <1>6, FS_Injection, FS_CardinalityType
<1>8. Cardinality(Clients) <= Cardinality(S)
  BY DEF CalmState, Calm, S
<1> QED
  BY <1>6, <1>7, <1>8

LEMMA CalmAccept ==
  ASSUME CalmState, NEW f \in Fds, Accept(f), NEW d \in Clients, Head(backlog) = d
  PROVE  CalmInv'
<1>1. /\ fdtab[f] = Free
      /\ fdtab' = [fdtab EXCEPT ![f] = d]
      /\ UNCHANGED <<inbuf, outbuf, rpc, up, peer, asked, rcvd, cst, cut, alive>>
  BY DEF Accept, netVars, clientVars
<1>2. ~Sending(f)' /\ \A g \in Fds : ~Sending(g)'
  BY <1>1 DEF Accept, Sending
<1>3. Homeless(d)
  <2>1. 1 \in DOMAIN backlog /\ backlog[1] = d
    BY DEF Accept, CalmState, OrderInv, Typed, LoopInv
  <2> QED
    BY <2>1 DEF CalmState, OrderInv, OneHome, Homeless
<1>4. Unserved(d) /\ Len(asked[d]) <= 1 /\ peer[d] # "rst" /\ inbuf[f] = <<>>
  BY <1>1, <1>3 DEF CalmState, CalmInv, OrderInv, StreamsInv
<1>5. InStep(f, d)'
  <2> DEFINE N == Len(asked[d])
  <2>1. N \in Nat /\ N <= 1
    BY <1>4 DEF CalmState, OrderInv, Typed
  <2>2. Len(up[d]) = 2 * N
    <3>1. 0 \in Nat /\ 2 * N \in Nat /\ 0 <= 2 * N /\ 2 * N - 0 = 2 * N
      BY <2>1
    <3>2. Len(Lines(0, 2 * N)) = 2 * N - 0
      BY <3>1, LinesTyped
    <3> QED
      BY <1>4, <3>1, <3>2 DEF Unserved
  <2>3. rcvd[d] = 0 /\ Len(inbuf[f]) = 0
    BY <1>4 DEF Unserved
  <2> HIDE DEF N
  <2>4. Len(inbuf[f]) + Len(up[d]) <= 2 /\ 2 * N <= rcvd[d] + 2
    BY <2>1, <2>2, <2>3
  <2>5. Pending(f, d)' <= 2 /\ 2 * Len(asked'[d]) <= rcvd'[d] + 2 /\ peer'[d] # "rst"
    BY <1>1, <1>4, <2>4 DEF Pending, N
  <2> QED
    BY <1>2, <2>5 DEF InStep
<1>6. ASSUME NEW g \in Fds, NEW c \in Clients, fdtab'[g] = c PROVE InStep(g, c)'
  <2>1. CASE g = f
    <3>1. c = d
      BY <1>1, <1>6, <2>1 DEF CalmState, OrderInv, Typed
    <3> QED
      BY <1>5, <2>1, <3>1
  <2>2. CASE g # f
    <3>1. fdtab[g] = c
      BY <1>1, <1>6, <2>2 DEF CalmState, OrderInv, Typed
    <3>2. InStep(g, c)
      BY <3>1 DEF CalmState, CalmInv
    <3>3. Kept(g, c)
      BY <1>1, <1>2 DEF Kept
    <3> QED
      BY <3>2, <3>3, InStepKept
  <2> QED
    BY <2>1, <2>2
<1>7. \A c \in Clients : Homeless(c)' => Homeless(c)
  BY <1>1, ReactorAssumption DEF Homeless, CalmState, OrderInv, Typed
<1> QED
  BY <1>1, <1>6, <1>7 DEF CalmState, CalmInv

(* A client that asks has all its replies, so nothing of it is pending.    *)
LEMMA CalmAsk == ASSUME CalmState, NEW d \in Clients, NEW q \in setting.kinds, Ask(d, q)
                 PROVE  CalmInv'
<1> DEFINE N == Len(asked[d])
           r == rcvd[d]
<1>1. /\ cst[d] = "on"
      /\ N < Answered(d) + 1
      /\ asked' = [asked EXCEPT ![d] = Append(@, q)]
      /\ up' = [up EXCEPT ![d] = up[d] \o RequestUnits(N + 1)]
      /\ UNCHANGED <<fdtab, inbuf, outbuf, rpc, cur, peer, rcvd, cst, cut, alive>>
  BY DEF Ask, CalmState, Calm, objVars, loopVars
<1>2. N \in Nat /\ r \in Nat /\ up[d] \in Stream /\ Len(up[d]) \in Nat
  BY JoinTyped DEF CalmState, OrderInv, Typed, TypedToo, Stream
<1>3. 2 * N <= r
  <2>1. N < r \div 2 + 1
    BY <1>1 DEF Answered
  <2> HIDE DEF N, r
  <2> QED
    BY <1>2, <2>1
<1>4. asked'[d] = Append(asked[d], q) /\ Len(asked'[d]) = N + 1
  BY <1>1, <1>2 DEF CalmState, OrderInv, Typed
<1>5. Len(up'[d]) = Len(up[d]) + 2
  <2> DEFINE x == RequestUnits(N + 1)
             w == up[d] \o x
  <2>1. x \in Stream /\ Len(x) = 2
    BY <1>2 DEF RequestUnits, Stream, AnyUnit
  <2> HIDE DEF x
  <2>2. Len(w) = Len(up[d]) + Len(x)
    BY <1>2, <2>1, ConcatProperties DEF Stream
  <2> HIDE DEF w
  <2>3. up'[d] = w
    BY <1>1 DEF w, x, CalmState, OrderInv, Typed
  <2> QED
    BY <2>1, <2>2, <2>3
<1>6. peer[d] = "open"
  BY <1>1 DEF CalmState, OrderInv, TypedToo
<1>7. ASSUME NEW f \in Fds, fdtab[f] = d PROVE InStep(f, d)'
  <2>1. InStep(f, d)
    BY <1>7 DEF CalmState, CalmInv
  <2>2. Pending(f, d) = 0
    <3> DEFINE m == Len(down[d]) + Len(outbuf[f])
               i == Len(inbuf[f]) + Len(up[d])
    <3>1. m \in Nat /\ i \in Nat
      <4>1. /\ Len(down[d]) \in Nat /\ Len(outbuf[f]) \in Nat
            /\ Len(inbuf[f]) \in Nat /\ Len(up[d]) \in Nat
        BY <1>7, Lengths
      <4>2. \A j, k \in Nat : j + k \in Nat
        OBVIOUS
      <4> QED
        BY <4>1, <4>2
    <3>2. PICK t \in Nat : t <= N /\ i = 2 * N - 2 * t /\ r + m = 2 * t
      BY <1>1, <1>7, Lengths
    <3>3. i = 0
      <4> HIDE DEF N, r, m, i
      <4> QED
        BY <1>2, <1>3, <3>1, <3>2
    <3> QED
      BY <3>3 DEF Pending
  <2>3. Pending(f, d)' = 2
    <3> DEFINE i == Len(inbuf[f])
               u == Len(up[d])
    <3>1. i \in Nat /\ u \in Nat /\ i + u = 0
      BY <1>2, <1>7, <2>2, Lengths DEF Pending
    <3>2. i + (u + 2) = 2
      <4> HIDE DEF i, u
      <4> QED
        BY <3>1
    <3> QED
      BY <1>1, <1>5, <3>2 DEF Pending
  <2>4. 2 * Len(asked'[d]) <= rcvd'[d] + 2
    <3>1. 2 * (N + 1) <= r + 2
      BY <1>2, <1>3
    <3> QED
      BY <1>1, <1>4, <3>1
  <2> QED
    BY <1>1, <1>6, <2>1, <2>3, <2>4 DEF InStep, Sending
<1>8. ASSUME NEW c \in Clients, Homeless(c) PROVE Len(asked'[c]) <= 1 /\ peer'[c] # "rst"
  <2>1. Len(asked[c]) <= 1 /\ peer[c] # "rst" /\ rcvd[c] = 0
    BY <1>8 DEF CalmState, CalmInv, OrderInv, StreamsInv, Unserved
  <2>2. CASE c = d
    BY <1>1, <1>2, <1>3, <1>4, <2>1, <2>2
  <2>3. CASE c # d
    BY <1>1, <2>1, <2>3 DEF CalmState, OrderInv, Typed
  <2> QED
    BY <2>2, <2>3
<1>9. \A f \in Fds, c \in Clients : fdtab[f] = c /\ c # d => Kept(f, c)
  BY <1>1 DEF Kept, Sending, CalmState, OrderInv, Typed
<1>10. NoneBad'
  <2>1. q # "bad"
    BY DEF CalmState, Calm
  <2> SUFFICES ASSUME NEW c \in Clients, NEW k \in DOMAIN asked'[c] PROVE asked'[c][k] # "bad"
    BY DEF NoneBad
  <2>2. CASE c # d
    BY <1>1, <2>2 DEF CalmState, CalmInv, OrderInv, Typed
  <2>3. CASE c = d
    <3>1. k \in 1 .. (N + 1)
      BY <1>4, <2>3 DEF CalmState, OrderInv, Typed
    <3>2. CASE k = N + 1
      BY <1>4, <2>1, <2>3, <3>2 DEF CalmState, OrderInv, Typed
    <3>3. CASE k # N + 1
      <4>1. k \in DOMAIN asked[d]
        BY <1>2, <3>1, <3>3 DEF CalmState, OrderInv, Typed
      <4>2. asked'[d][k] = asked[d][k]
        BY <1>2, <1>4, <3>1, <3>3 DEF CalmState, OrderInv, Typed
      <4> QED
        BY <2>3, <4>1, <4>2 DEF CalmState, CalmInv
    <3> QED
      BY <3>2, <3>3
  <2> QED
    BY <2>2, <2>3
<1>11. alive' /\ cut' = {}
  BY <1>1 DEF CalmState, CalmInv
<1> QED
  BY <1>1, <1>7, <1>8, <1>9, <1>10, <1>11, CalmOneChanges

LEMMA CalmGetReply == ASSUME CalmState, NEW d \in Clients, GetReply(d) PROVE CalmInv'
<1>1. PICK n \in Nat : rcvd' = [rcvd EXCEPT ![d] = rcvd[d] + n]
  <2>1. PICK n \in 1 .. Len(down[d]) : rcvd' = [rcvd EXCEPT ![d] = rcvd[d] + n]
    BY DEF GetReply, CalmState, OrderInv, TypedToo
  <2>2. n \in Nat
    BY <2>1
  <2> QED
    BY <2>1, <2>2
<1>2. UNCHANGED <<fdtab, inbuf, outbuf, rpc, cur, up, peer, cst, asked, cut, alive>>
  BY DEF GetReply, objVars, loopVars
<1>3. ASSUME NEW f \in Fds, fdtab[f] = d PROVE InStep(f, d)'
  <2>1. InStep(f, d)
    BY <1>3 DEF CalmState, CalmInv
  <2>2. rcvd[d] \in Nat /\ rcvd'[d] = rcvd[d] + n /\ Len(asked[d]) \in Nat
    BY <1>1 DEF CalmState, OrderInv, Typed, TypedToo
  <2>3. 2 * Len(asked[d]) <= rcvd[d] + 2 => 2 * Len(asked'[d]) <= rcvd'[d] + 2
    BY <1>2, <2>2
  <2> QED
    BY <1>2, <2>1, <2>3 DEF InStep, Pending, Sending
<1>4. \A f \in Fds, c \in Clients : fdtab[f] = c /\ c # d => Kept(f, c)
  BY <1>1, <1>2 DEF Kept, Sending, CalmState, OrderInv, TypedToo
<1>5. \A c \in Clients : Homeless(c) => Len(asked'[c]) <= 1 /\ peer'[c] # "rst"
  BY <1>2 DEF CalmState, CalmInv
<1>6. alive' /\ cut' = {} /\ NoneBad'
  BY <1>2 DEF CalmState, CalmInv, NoneBad
<1> QED
  BY <1>2, <1>3, <1>4, <1>5, <1>6, CalmOneChanges

(* A client that leaves a reply unread has no line behind it, so no reply  *)
(* will be sent to the connection it resets.                               *)
LEMMA CalmLeave == ASSUME CalmState, NEW d \in Clients, Leave(d) PROVE CalmInv'
<1>1. /\ cst[d] = "on"
      /\ cst' = [cst EXCEPT ![d] = "ended"]
      /\ peer' = [peer EXCEPT ![d] = IF down[d] = <<>> THEN "fin" ELSE "rst"]
      /\ UNCHANGED <<fdtab, inbuf, outbuf, rpc, cur, up, asked, rcvd, cut, alive>>
  BY DEF Leave, objVars, loopVars
<1>2. /\ cst'[d] = "ended"
      /\ peer'[d] = IF down[d] = <<>> THEN "fin" ELSE "rst"
  BY <1>1 DEF CalmState, OrderInv, TypedToo
<1>3. ASSUME NEW f \in Fds, fdtab[f] = d PROVE InStep(f, d)'
  <2>1. InStep(f, d)
    BY <1>3 DEF CalmState, CalmInv
  <2>2. Pending(f, d)' = Pending(f, d) /\ Sending(f)' = Sending(f)
    BY <1>1 DEF Pending, Sending
  <2>3. Sending(f) => Pending(f, d) = 0 /\ down[d] = <<>>
    <3>1. down[d] \in Stream
      BY DEF CalmState, OrderInv, TypedToo
    <3> QED
      BY <1>1, <1>3, <3>1, SendingAlone, EmptyStream
  <2>4. ~Sending(f) /\ down[d] # <<>> => Pending(f, d) = 0
    <3> SUFFICES ASSUME ~Sending(f), down[d] # <<>> PROVE Pending(f, d) = 0
      OBVIOUS
    <3> DEFINE N == Len(asked[d])
               r == rcvd[d]
               m == Len(down[d])
               i == Len(inbuf[f]) + Len(up[d])
    <3>1. N \in Nat /\ r \in Nat /\ m \in Nat /\ i \in Nat
      <4>1. N \in Nat /\ r \in Nat /\ m \in Nat /\ Len(inbuf[f]) \in Nat /\ Len(up[d]) \in Nat
        BY <1>3, Lengths
      <4>2. \A j, k \in Nat : j + k \in Nat
        OBVIOUS
      <4> QED
        BY <4>1, <4>2
    <3>2. PICK t \in Nat : /\ t <= N /\ i = 2 * N - 2 * t
                           /\ r + (m + Len(outbuf[f])) = 2 * t /\ outbuf[f] = <<>>
      BY <1>1, <1>3, Lengths
    <3>3. m # 0
      BY EmptyStream DEF CalmState, OrderInv, TypedToo
    <3>4. 2 * N <= r + 2 /\ r + m = 2 * t
      BY <1>1, <2>1, <3>1, <3>2 DEF InStep
    <3>5. i = 0
      <4> HIDE DEF N, r, m, i
      <4> QED
        BY <3>1, <3>2, <3>3, <3>4
    <3> QED
      BY <3>5 DEF Pending
  <2> QED
    BY <1>2, <2>1, <2>2, <2>3, <2>4 DEF InStep
<1>4. ASSUME NEW c \in Clients, Homeless(c) PROVE Len(asked'[c]) <= 1 /\ peer'[c] # "rst"
  <2>1. Len(asked[c]) <= 1 /\ peer[c] # "rst" /\ down[c] = <<>>
    BY <1>4 DEF CalmState, CalmInv, OrderInv, StreamsInv, Unserved
  <2> QED
    BY <1>1, <1>2, <2>1 DEF CalmState, OrderInv, TypedToo
<1>5. \A f \in Fds, c \in Clients : fdtab[f] = c /\ c # d => Kept(f, c)
  BY <1>1 DEF Kept, Sending, CalmState, OrderInv, TypedToo
<1>6. alive' /\ cut' = {} /\ NoneBad'
  BY <1>1 DEF CalmState, CalmInv, NoneBad
<1> QED
  BY <1>1, <1>3, <1>4, <1>5, <1>6, CalmOneChanges

LEMMA CalmConnect == ASSUME CalmState, NEW d \in Clients, Connect(d) PROVE CalmInv'
<1>1. /\ cst[d] = "new"
      /\ cst' = [cst EXCEPT ![d] = "on"]
      /\ UNCHANGED <<fdtab, inbuf, outbuf, rpc, cur, up, peer, asked, rcvd, cut, alive>>
  BY DEF Connect, objVars, loopVars, netVars
<1>2. \A f \in Fds : fdtab[f] # d
  BY <1>1 DEF CalmState, OrderInv, OneHome
<1>3. \A f \in Fds, c \in Clients : fdtab[f] = c /\ c # d => Kept(f, c)
  BY <1>1 DEF Kept, Sending, CalmState, OrderInv, TypedToo
<1>4. \A c \in Clients : Homeless(c) => Len(asked'[c]) <= 1 /\ peer'[c] # "rst"
  BY <1>1 DEF CalmState, CalmInv
<1>5. alive' /\ cut' = {} /\ NoneBad'
  BY <1>1 DEF CalmState, CalmInv, NoneBad
<1> QED
  BY <1>1, <1>2, <1>3, <1>4, <1>5, CalmOneChanges

LEMMA CalmStays ==
  ASSUME CalmState, \/ EpollWait \/ BatchDone \/ RecvEnds
                    \/ \E f \in Fds : Dispatch(f)
                    \/ UNCHANGED vars
  PROVE  CalmInv'
<1>1. /\ fdtab' = fdtab /\ inbuf' = inbuf /\ outbuf' = outbuf
      /\ UNCHANGED <<asked, up, rcvd, cst, peer, cut, alive>>
  BY DEF EpollWait, BatchDone, RecvEnds, Dispatch, vars, objVars, netVars, clientVars
<1>2. \A f \in Fds : Sending(f)' => Sending(f)
  BY DEF EpollWait, BatchDone, RecvEnds, Dispatch, vars, loopVars, Sending
<1> QED
  BY <1>1, <1>2, CalmNoneChanges

LEMMA CalmNext == ASSUME IsFiniteSet(Clients), CalmState, [Next]_vars PROVE CalmInv'
<1>1. CASE ServerStep
  <2>1. ~AcceptFails /\ ~SendBlocked /\ ~SendReset
    BY CalmAccepts, CalmNotBlocked, CalmNoReset
  <2>2. ASSUME Recv \/ Send \/ SendClosed PROVE CalmInv'
    <3>1. cur \in Fds /\ Conn \in Clients
      BY <2>2, ConnIsOne DEF Recv, Send, SendClosed, CalmState, OrderInv
    <3> QED
      BY <2>2, <3>1, CalmRecv, CalmSend, CalmSendClosed
  <2>3. ASSUME NEW f \in Fds, Accept(f) PROVE CalmInv'
    <3>1. Head(backlog) \in Clients
      BY <2>3 DEF Accept, CalmState, OrderInv, Typed, LoopInv
    <3> QED
      BY <2>3, <3>1, CalmAccept
  <2> QED
    BY <1>1, <2>1, <2>2, <2>3, CalmStays DEF ServerStep, HandlerStep
<1>2. ASSUME NEW c \in Clients, ClientStep(c) PROVE CalmInv'
  BY <1>2, CalmConnect, CalmGetReply, CalmLeave, CalmAsk DEF ClientStep
<1> QED
  BY <1>1, <1>2, CalmStays DEF Next

LEMMA SettingStays == [Next]_vars => setting' = setting
  BY DEF Next, ServerStep, HandlerStep, EpollWait, BatchDone, AcceptFails, Recv, RecvEnds,
         Send, SendBlocked, SendClosed, SendReset, Dispatch, Accept, ClientStep, Connect,
         GetReply, Leave, Ask, vars, clientVars

LEMMA CalmInit == Init => CalmInv
<1> SUFFICES ASSUME Init PROVE CalmInv
  OBVIOUS
<1>1. alive /\ cut = {} /\ \A c \in Clients : Len(asked[c]) = 0 /\ DOMAIN asked[c] = {} /\ peer[c] = "open"
  BY DEF Init
<1>2. \A f \in Fds, c \in Clients : fdtab[f] # c
  BY ReactorAssumption DEF Init
<1> QED
  BY <1>1, <1>2 DEF CalmInv

(* In step with their replies, with requests that can be parsed, room for  *)
(* a reply in the kernel, and a descriptor for each, clients may come,     *)
(* ask, and leave at any moment, and the process outlives them all.        *)
THEOREM CalmClientsAreSurvived ==
  ASSUME IsFiniteSet(Clients)
  PROVE  Spec => []ServerSurvives
<1> DEFINE I == OrderInv /\ (Calm => CalmInv)
<1>1. Init => I
  BY OrderInit, CalmInit
<1>2. I /\ [Next]_vars => I'
  <2>1. [Next]_vars => (Calm <=> Calm')
    BY SettingStays DEF Calm
  <2> QED
    BY <2>1, OrderNext, CalmNext DEF CalmState
<1>3. I => ServerSurvives
  BY DEF CalmInv, ServerSurvives
<1> QED
  BY <1>1, <1>2, <1>3, PTL DEF Spec
-----------------------------------------------------------------------------
(* What the loop leaves behind when it sleeps. Each recv is followed by    *)
(* the task handler, so no whole line stays in an object of a client that  *)
(* waits for each reply; the rest are lost edges and the sends.            *)

NoLineWaits == \A f \in Fds : Len(inbuf[f]) <= 1

(* A client that has connected is in the listen queue or has a descriptor. *)
Attached == \A c \in Clients : cst[c] = "on" => \/ ~Homeless(c)
                                                \/ \E i \in DOMAIN backlog : backlog[i] = c

LEMMA LineTaken == ASSUME CalmState, NoLineWaits, Recv PROVE NoLineWaits'
<1> DEFINE N == Len(asked[Conn])
<1>1. cur \in Fds /\ Conn \in Clients /\ fdtab[cur] = Conn
  BY ConnIsOne DEF Recv, CalmState, OrderInv
<1>2. N \in Nat /\ InStep(cur, Conn)
  BY <1>1, Lengths DEF CalmState, CalmInv
<1>3. PICK t \in Nat : /\ Served(cur, Conn, t) /\ t <= N
                       /\ Len(inbuf[cur]) + Len(up[Conn]) = 2 * N - 2 * t
  BY <1>1, Lengths
<1>4. /\ \E v \in Stream : inbuf' = [inbuf EXCEPT ![cur] = v]
      /\ \E v \in Stream : up' = [up EXCEPT ![Conn] = v]
      /\ TookNone(t) \/ TookLine(t)
  BY <1>3, RecvTakes DEF CalmState, OrderInv
<1>5. inbuf'[cur] \in Stream /\ up'[Conn] \in Stream
  BY <1>1, <1>4 DEF CalmState, OrderInv, Typed, TypedToo
<1>6. \A f \in Fds : f # cur => inbuf'[f] = inbuf[f]
  BY <1>4 DEF CalmState, OrderInv, TypedToo
<1>7. Len(inbuf'[cur]) <= 1
  <2>1. CASE TookNone(t)
    BY <2>1 DEF TookNone
  <2>2. CASE TookLine(t)
    <3>1. t + 1 <= N /\ Joins(inbuf'[cur], up'[Conn], Lines(2 * (t + 1), 2 * N))
      BY <2>2 DEF TookLine
    <3>2. 2 * (t + 1) \in Nat /\ 2 * N \in Nat /\ 2 * (t + 1) <= 2 * N
      BY <1>2, <3>1
    <3>3. Len(inbuf'[cur]) + Len(up'[Conn]) = 2 * N - 2 * (t + 1)
      BY <1>5, <3>1, <3>2, LinesCut
    <3>4. 2 * N - 2 * t <= 2
      BY <1>2, <1>3 DEF InStep, Pending
    <3>5. Len(inbuf'[cur]) \in Nat /\ Len(up'[Conn]) \in Nat
      BY <1>5, JoinTyped
    <3> DEFINE m == Len(inbuf'[cur])
               n == Len(up'[Conn])
    <3> HIDE DEF m, n, N
    <3>6. m \in Nat /\ n \in Nat /\ m + n = 2 * N - 2 * (t + 1)
      BY <3>3, <3>5 DEF m, n, N
    <3>7. m <= 1
      BY <1>2, <3>1, <3>4, <3>6 DEF N
    <3> QED
      BY <3>7 DEF m
  <2> QED
    BY <1>4, <2>1, <2>2
<1> QED
  BY <1>6, <1>7 DEF NoLineWaits

LEMMA NoLineNext == ASSUME CalmState, NoLineWaits, [Next]_vars PROVE NoLineWaits'
<1>1. CASE Recv
  BY <1>1, LineTaken
<1>2. CASE inbuf' = inbuf
  BY <1>2 DEF NoLineWaits
<1> QED
  BY <1>1, <1>2
     DEF Next, ServerStep, HandlerStep, EpollWait, BatchDone, AcceptFails, RecvEnds,
         Send, SendBlocked, SendClosed, SendReset, Dispatch, Accept, ClientStep, Connect,
         GetReply, Leave, Ask, vars, objVars

LEMMA AttachedNext == ASSUME Typed, LoopInv, TypedToo, Attached, [Next]_vars PROVE Attached'
<1>1. CASE UNCHANGED <<fdtab, backlog>> /\ \A c \in Clients : cst'[c] = "on" => cst[c] = "on"
  BY <1>1 DEF Attached, Homeless
<1>2. ASSUME NEW f \in Fds, Accept(f) PROVE Attached'
  <2>1. /\ fdtab' = [fdtab EXCEPT ![f] = Head(backlog)] /\ backlog' = Tail(backlog)
        /\ fdtab[f] = Free /\ cst' = cst /\ backlog # <<>> /\ backlog \in Seq(Clients)
    BY <1>2 DEF Accept, clientVars, LoopInv, Typed
  <2> SUFFICES ASSUME NEW c \in Clients, cst[c] = "on", ~(\E i \in DOMAIN backlog' : backlog'[i] = c)
               PROVE  \E g \in Fds : fdtab'[g] = c
    BY <2>1 DEF Attached, Homeless
  <2>2. CASE Head(backlog) = c
    BY <2>1, <2>2 DEF Typed
  <2>3. CASE Head(backlog) # c
    <3>1. ASSUME NEW i \in DOMAIN backlog, backlog[i] = c PROVE FALSE
      <4>1. i \in 1 .. Len(backlog) /\ i # 1
        BY <2>1, <2>3, <3>1
      <4>2. i - 1 \in 1 .. Len(Tail(backlog)) /\ Tail(backlog)[i - 1] = backlog[i]
        BY <2>1, <4>1
      <4>3. i - 1 \in DOMAIN backlog' /\ backlog'[i - 1] = c
        BY <2>1, <3>1, <4>2
      <4> QED
        BY <4>3
    <3>2. PICK g \in Fds : fdtab[g] = c
      BY <3>1 DEF Attached, Homeless
    <3>3. g # f
      BY <2>1, <3>2, ReactorAssumption
    <3> QED
      BY <2>1, <3>2, <3>3 DEF Typed
  <2> QED
    BY <2>2, <2>3
<1>3. ASSUME NEW d \in Clients, Connect(d) PROVE Attached'
  <2>1. /\ cst' = [cst EXCEPT ![d] = "on"] /\ backlog' = Append(backlog, d) /\ fdtab' = fdtab
        /\ backlog \in Seq(Clients)
    BY <1>3 DEF Connect, Typed
  <2>2. /\ DOMAIN backlog' = 1 .. (Len(backlog) + 1) /\ DOMAIN backlog = 1 .. Len(backlog)
        /\ Len(backlog) \in Nat /\ backlog'[Len(backlog) + 1] = d
        /\ \A i \in 1 .. Len(backlog) : backlog'[i] = backlog[i]
    BY <2>1
  <2>3. ASSUME NEW c \in Clients, cst'[c] = "on", c # d
        PROVE  ~Homeless(c)' \/ \E i \in DOMAIN backlog' : backlog'[i] = c
    BY <2>1, <2>2, <2>3 DEF Attached, Homeless, TypedToo
  <2>4. Len(backlog) + 1 \in DOMAIN backlog'
    BY <2>2
  <2> QED
    BY <2>2, <2>3, <2>4 DEF Attached
<1>4. ASSUME NEW d \in Clients, Leave(d) PROVE Attached'
  BY <1>1, <1>4 DEF Leave, TypedToo
<1> QED
  BY <1>1, <1>2, <1>3, <1>4
     DEF Next, ServerStep, HandlerStep, EpollWait, BatchDone, AcceptFails, Recv, RecvEnds,
         Send, SendBlocked, SendClosed, SendReset, Dispatch, ClientStep,
         GetReply, Ask, vars, clientVars

(* No whole request and no reply is left when the loop sleeps.             *)
LEMMA SleepIsDone ==
  ASSUME CalmState, NoLostEdge, NoLineWaits, Attached, Sleeps, NEW c \in Clients, cst[c] = "on"
  PROVE  rcvd[c] + Len(down[c]) = 2 * Len(asked[c])
<1>1. backlog = <<>> /\ rpc = "wait" /\ batch = {}
  BY DEF Sleeps, ListenReady, CalmState, OrderInv, LoopInv
<1>2. PICK f \in Fds : fdtab[f] = c
  BY <1>1 DEF Attached, Homeless
<1>3. up[c] = <<>>
  BY <1>1, <1>2, ReactorAssumption DEF NoLostEdge, InHandler, Sleeps, Readable
<1>4. ~Sending(f)
  BY <1>1 DEF Sending
<1>5. /\ Len(inbuf[f]) \in Nat /\ Len(asked[c]) \in Nat /\ Len(down[c]) \in Nat /\ rcvd[c] \in Nat
      /\ \E t \in Nat : /\ t <= Len(asked[c])
                        /\ Len(inbuf[f]) + Len(up[c]) = 2 * Len(asked[c]) - 2 * t
                        /\ rcvd[c] + (Len(down[c]) + Len(outbuf[f])) = 2 * t
                        /\ outbuf[f] = <<>>
  BY <1>2, <1>4, Lengths
<1>6. PICK t \in Nat : /\ t <= Len(asked[c])
                       /\ Len(inbuf[f]) + Len(up[c]) = 2 * Len(asked[c]) - 2 * t
                       /\ rcvd[c] + (Len(down[c]) + Len(outbuf[f])) = 2 * t
                       /\ outbuf[f] = <<>>
  BY <1>5
<1>7. Len(up[c]) = 0 /\ Len(outbuf[f]) = 0 /\ Len(inbuf[f]) <= 1
  BY <1>3, <1>6 DEF NoLineWaits
<1>8. ASSUME NEW i \in Nat, NEW o \in Nat, NEW r \in Nat, NEW n \in Nat, NEW k \in Nat,
             i <= 1, i + 0 = 2 * n - 2 * k, r + (o + 0) = 2 * k
      PROVE  r + o = 2 * n
  BY <1>8
<1> DEFINE I == Len(inbuf[f])  O == Len(down[c])  R == rcvd[c]  N == Len(asked[c])
<1>9. /\ I \in Nat /\ O \in Nat /\ R \in Nat /\ N \in Nat
      /\ I <= 1 /\ I + 0 = 2 * N - 2 * t /\ R + (O + 0) = 2 * t
  BY <1>5, <1>6, <1>7
<1> HIDE DEF I, O, R, N
<1>10. R + O = 2 * N
  BY <1>8, <1>9
<1> QED
  BY <1>10 DEF R, O, N

(* Edge-triggered as it is, the loop never sleeps over a request: when it  *)
(* waits in epoll_wait with nothing to report, every client in step that   *)
(* stays has all its replies, or has them to receive.                      *)
THEOREM NothingIsSleptOver ==
  ASSUME IsFiniteSet(Clients)
  PROVE  Spec => []SleepsWhenDone
<1> DEFINE I == OrderInv /\ Attached /\ (Calm => CalmInv /\ NoLineWaits)
<1>1. Init => I
  <2> SUFFICES ASSUME Init PROVE I
    OBVIOUS
  <2>1. NoLineWaits
    BY DEF Init, NoLineWaits
  <2>2. Attached
    BY DEF Init, Attached
  <2> QED
    BY <2>1, <2>2, OrderInit, CalmInit
<1>2. I /\ [Next]_vars => I'
  <2>1. [Next]_vars => (Calm <=> Calm')
    BY SettingStays DEF Calm
  <2>2. OrderInv /\ Attached /\ [Next]_vars => Attached'
    BY AttachedNext DEF OrderInv
  <2> QED
    BY <2>1, <2>2, OrderNext, CalmNext, NoLineNext DEF CalmState
<1>3. I /\ NoLostEdge => SleepsWhenDone
  BY SleepIsDone DEF CalmState, SleepsWhenDone
<1> QED
  BY <1>1, <1>2, <1>3, EdgeNeverLost, PTL DEF Spec
-----------------------------------------------------------------------------
(* The echo service. A read counts what it answers as sent, so the send    *)
(* that follows is no step of the service; and since no whole line waits   *)
(* in _inbuffer, a read is answered just if the line ends within it.       *)

EchoState == CalmState /\ NoLineWaits

EchoMove == [Echo!Next]_(Echo!evars)

(* What is in hand for a client is in the object under its descriptor.     *)
LEMMA HandIs == ASSUME OneHome, NEW f \in Fds, NEW c \in Clients, fdtab[f] = c
                PROVE  Accepted(c) /\ InHand(c) = outbuf[f]
<1>1. c # Free
  BY ReactorAssumption
<1>2. \A g \in Fds : fdtab[g] = c => g = f
  BY <1>1 DEF OneHome
<1>3. (CHOOSE g \in Fds : fdtab[g] = c) = f
  BY <1>2
<1> QED
  BY <1>3 DEF InHand, Accepted

(* What returns to a client stays the same if its parts do.                *)
LEMMA ReturningKept ==
  ASSUME OneHome, NEW c \in Clients, fdtab' = fdtab,
         cst'[c] = "ended" <=> cst[c] = "ended",
         cst[c] # "ended" =>
           /\ down'[c] = down[c]
           /\ \A f \in Fds : fdtab[f] = c => outbuf'[f] = outbuf[f]
  PROVE  Returning'[c] = Returning[c]
<1>1. c \in Ended' <=> c \in Ended
  BY DEF Ended
<1>2. CASE c \in Ended
  BY <1>1, <1>2 DEF Returning
<1>3. CASE c \notin Ended
  <2>1. InHand(c)' = InHand(c)
    <3>1. (CHOOSE f \in Fds : fdtab[f] = c)' = (CHOOSE f \in Fds : fdtab[f] = c)
      OBVIOUS
    <3>2. ASSUME Accepted(c)
          PROVE  outbuf'[CHOOSE f \in Fds : fdtab[f] = c] = outbuf[CHOOSE f \in Fds : fdtab[f] = c]
      <4>1. PICK f \in Fds : fdtab[f] = c
        BY <3>2 DEF Accepted
      <4>2. \A g \in Fds : fdtab[g] = c => g = f
        BY <4>1, ReactorAssumption DEF OneHome
      <4>3. (CHOOSE g \in Fds : fdtab[g] = c) = f
        BY <4>1, <4>2
      <4>4. outbuf'[f] = outbuf[f]
        BY <1>3, <4>1 DEF Ended
      <4> QED
        BY <4>3, <4>4
    <3>3. Accepted(c)' <=> Accepted(c)
      BY DEF Accepted
    <3> QED
      BY <3>2, <3>3 DEF InHand
  <2>2. down'[c] = down[c]
    BY <1>3 DEF Ended
  <2> QED
    BY <1>1, <2>1, <2>2, Zenon DEF Returning
<1> QED
  BY <1>2, <1>3

(* A step that no client sees.                                             *)
LEMMA Unseen ==
  ASSUME OneHome, UNCHANGED <<fdtab, up, cst, rcvd, alive>>,
         \A c \in Clients : cst[c] # "ended" =>
           /\ down'[c] = down[c]
           /\ \A f \in Fds : fdtab[f] = c => outbuf'[f] = outbuf[f]
  PROVE  EchoMove
<1>1. \A c \in Clients : Returning'[c] = Returning[c]
  BY ReturningKept
<1>2. Returning' = Returning
  BY <1>1 DEF Returning
<1>3. ConnStates' = ConnStates /\ Ended' = Ended /\ Received' = Received
  BY DEF ConnStates, ConnState, Accepted, Ended, Received
<1> QED
  BY <1>2, <1>3 DEF EchoMove, Echo!evars

LEMMA StateParts == EchoState => /\ Typed /\ LoopInv /\ OneHome /\ TypedToo /\ StreamsInv
                                 /\ alive /\ cut = {} /\ StreamState
  BY DEF EchoState, CalmState, CalmInv, OrderInv, StreamState

LEMMA AcceptMoves == ASSUME EchoState, NEW f \in Fds, Accept(f) PROVE EchoMove
<1>0. Typed /\ LoopInv /\ OneHome /\ TypedToo /\ StreamsInv /\ alive
  BY StateParts
<1>1. /\ fdtab[f] = Free
      /\ fdtab' = [fdtab EXCEPT ![f] = Head(backlog)]
      /\ UNCHANGED <<outbuf, up, down, cst, rcvd, alive>>
  BY DEF Accept, netVars, clientVars
<1>2. backlog # <<>>
  BY <1>0 DEF Accept, LoopInv
<1>3. PICK c \in Clients : 1 \in DOMAIN backlog /\ c = backlog[1] /\ c = Head(backlog)
  BY <1>0, <1>2 DEF Typed
<1>4. cst[c] # "new" /\ Homeless(c) /\ c # Free
  BY <1>0, <1>3, ReactorAssumption DEF OneHome, Homeless
<1>5. fdtab'[f] = c /\ \A g \in Fds \ {f} : fdtab'[g] = fdtab[g]
  BY <1>0, <1>1, <1>3 DEF Typed
<1>6. \A b \in Clients \ {c} : \A g \in Fds : fdtab'[g] = b <=> fdtab[g] = b
  <2> TAKE b \in Clients \ {c}
  <2> TAKE g \in Fds
  <2>1. b # Free
    BY ReactorAssumption
  <2> QED
    BY <1>1, <1>5, <2>1
<1>7. ConnStates[c] = "waiting" /\ ConnStates'[c] = "open"
  BY <1>1, <1>3, <1>4, <1>5 DEF ConnStates, ConnState, Accepted, Homeless
<1>8. \A b \in Clients \ {c} : ConnStates'[b] = ConnStates[b]
  BY <1>1, <1>6 DEF ConnStates, ConnState, Accepted
<1>9. ConnStates' = [ConnStates EXCEPT ![c] = "open"]
  BY <1>7, <1>8 DEF ConnStates
<1>10. outbuf[f] = <<>>
  BY <1>0, <1>1 DEF StreamsInv
<1>11. \A b \in Clients : InHand(b)' = InHand(b)
  <2>1. InHand(c) = <<>>
    BY <1>4 DEF InHand, Accepted, Homeless
  <2>2. InHand(c)' = <<>>
    <3>1. \A g \in Fds : fdtab'[g] = c => g = f
      BY <1>4, <1>5 DEF Homeless
    <3>2. (CHOOSE g \in Fds : fdtab'[g] = c) = f
      BY <1>5, <3>1
    <3> QED
      BY <1>1, <1>10, <3>2 DEF InHand, Accepted
  <2>3. ASSUME NEW b \in Clients \ {c} PROVE InHand(b)' = InHand(b)
    <3>1. Accepted(b)' <=> Accepted(b)
      BY <1>6 DEF Accepted
    <3>2. CASE Accepted(b)
      <4>1. PICK g \in Fds : fdtab[g] = b
        BY <3>2 DEF Accepted
      <4>2. InHand(b) = outbuf[g]
        BY <1>0, <4>1, HandIs
      <4>3. fdtab'[g] = b /\ \A h \in Fds : fdtab'[h] = b => h = g
        BY <1>0, <1>6, <4>1, ReactorAssumption DEF OneHome
      <4>4. (CHOOSE h \in Fds : fdtab'[h] = b) = g
        BY <4>3
      <4>5. InHand(b)' = outbuf'[g]
        BY <3>1, <3>2, <4>4 DEF InHand
      <4> QED
        BY <1>1, <4>2, <4>5
    <3>3. CASE ~Accepted(b)
      BY <3>1, <3>3 DEF InHand
    <3> QED
      BY <3>2, <3>3
  <2> QED
    BY <2>1, <2>2, <2>3
<1>12. Returning' = Returning
  <2>1. \A b \in Clients : Returning'[b] = Returning[b]
    BY <1>1, <1>11 DEF Returning, Ended
  <2> QED
    BY <2>1 DEF Returning
<1>13. Ended' = Ended /\ Received' = Received
  BY <1>1 DEF Ended, Received
<1>14. Echo!Accept(c)
  BY <1>1, <1>7, <1>9, <1>12, <1>13 DEF Echo!Accept
<1> QED
  BY <1>0, <1>3, <1>14 DEF EchoMove, Echo!Next

LEMMA ConnectMoves == ASSUME EchoState, NEW c \in Clients, Connect(c) PROVE EchoMove
<1>0. Typed /\ LoopInv /\ OneHome /\ TypedToo /\ alive
  BY StateParts
<1>1. /\ cst[c] = "new" /\ cst' = [cst EXCEPT ![c] = "on"]
      /\ UNCHANGED <<fdtab, outbuf, up, down, rcvd, alive>>
  BY DEF Connect, objVars, netVars
<1>2. /\ cst'[c] = "on"
      /\ \A b \in Clients \ {c} : cst'[b] = cst[b]
  BY <1>0, <1>1 DEF TypedToo
<1>3. ConnStates[c] = "none" /\ ConnStates'[c] = "waiting"
  BY <1>0, <1>1, <1>2 DEF ConnStates, ConnState, Accepted, OneHome
<1>4. \A b \in Clients \ {c} : ConnStates'[b] = ConnStates[b]
  BY <1>1, <1>2 DEF ConnStates, ConnState, Accepted
<1>5. ConnStates' = [ConnStates EXCEPT ![c] = "waiting"]
  BY <1>3, <1>4 DEF ConnStates
<1>6. Ended' = Ended /\ Received' = Received
  BY <1>1, <1>2 DEF Ended, Received
<1>7. Returning' = Returning
  <2>1. \A b \in Clients : Returning'[b] = Returning[b]
    BY <1>0, <1>1, <1>2, ReturningKept
  <2> QED
    BY <2>1 DEF Returning
<1>8. Echo!Connect(c)
  BY <1>1, <1>3, <1>5, <1>6, <1>7 DEF Echo!Connect
<1> QED
  BY <1>8 DEF EchoMove, Echo!Next

LEMMA LeaveMoves == ASSUME EchoState, NEW c \in Clients, Leave(c) PROVE EchoMove
<1>0. OneHome /\ TypedToo
  BY StateParts
<1>1. /\ cst[c] = "on" /\ cst' = [cst EXCEPT ![c] = "ended"]
      /\ down' = [down EXCEPT ![c] = <<>>]
      /\ UNCHANGED <<fdtab, outbuf, up, rcvd, alive>>
  BY DEF Leave, objVars
<1>2. /\ cst'[c] = "ended"
      /\ \A b \in Clients \ {c} : cst'[b] = cst[b] /\ down'[b] = down[b]
  BY <1>0, <1>1 DEF TypedToo
<1>3. ConnStates' = ConnStates /\ ConnStates[c] # "none"
  BY <1>1, <1>2 DEF ConnStates, ConnState, Accepted
<1>4. Ended' = Ended \cup {c} /\ c \notin Ended
  BY <1>1, <1>2 DEF Ended
<1>5. Returning' = [Returning EXCEPT ![c] = <<>>]
  <2>1. Returning'[c] = <<>>
    BY <1>4 DEF Returning
  <2>2. \A b \in Clients \ {c} : Returning'[b] = Returning[b]
    BY <1>0, <1>1, <1>2, ReturningKept
  <2> QED
    BY <2>1, <2>2 DEF Returning
<1>6. Received' = Received
  BY <1>1 DEF Received
<1>7. Echo!Leave(c)
  BY <1>1, <1>3, <1>4, <1>5, <1>6 DEF Echo!Leave
<1> QED
  BY <1>7 DEF EchoMove, Echo!Next

LEMMA AskMoves == ASSUME EchoState, NEW c \in Clients, NEW q \in Kinds, Ask(c, q) PROVE EchoMove
<1> DEFINE k == Len(asked[c]) + 1
<1>0. Typed /\ OneHome /\ TypedToo
  BY StateParts
<1>1. /\ cst[c] = "on" /\ Len(asked[c]) < MaxReqs
      /\ up' = [up EXCEPT ![c] = @ \o RequestUnits(k)]
      /\ UNCHANGED <<fdtab, outbuf, down, cst, rcvd, alive>>
  BY DEF Ask, objVars
<1>2. k \in 1 .. MaxReqs
  BY <1>0, <1>1, ReactorAssumption DEF Typed
<1> HIDE DEF k
<1>3. RequestUnits(k) \in LineMessages(c)
  BY <1>2 DEF LineMessages
<1>4. UNCHANGED <<ConnStates, Ended, Received, Returning>>
  <2>1. \A b \in Clients : Returning'[b] = Returning[b]
    BY <1>0, <1>1, ReturningKept
  <2> QED
    BY <1>1, <2>1 DEF Returning, ConnStates, ConnState, Accepted, Ended, Received
<1>5. ConnStates[c] \in {"waiting", "open"} /\ c \notin Ended
  BY <1>1 DEF ConnStates, ConnState, Ended
<1>6. Echo!Say(c)
  <2>1. \E m \in LineMessages(c) : up' = [up EXCEPT ![c] = @ \o m]
    BY <1>1, <1>3, Zenon
  <2> QED
    BY <1>1, <1>4, <1>5, <2>1, Zenon DEF Echo!Say
<1> QED
  BY <1>6 DEF EchoMove, Echo!Next

(* A send moves units from the object to the kernel, which is no step; a   *)
(* client that has gone hears nothing of it.                               *)
LEMMA SendIdles == ASSUME EchoState, Send, NEW d \in Clients, d = Conn PROVE EchoMove
<1>0. Typed /\ LoopInv /\ OneHome /\ TypedToo /\ StreamState
  BY StateParts
<1>1. /\ cur \in Fds /\ d \in Clients /\ d = fdtab[cur]
      /\ \A f \in Fds : fdtab[f] = d => f = cur
      /\ \A f \in Fds : fdtab[f] # d => f # cur
  BY <1>0, OtherConns DEF Send
<1>2. UNCHANGED <<fdtab, up, cst, rcvd, alive>>
  BY DEF Send, clientVars
<1>3. PICK n \in Nat : SendsSome(n)
  BY <1>0, SendMoves
<1> DEFINE p == Take(outbuf[cur], n)
           r == Drop(outbuf[cur], n)
           w == down[d] \o p
<1>4. /\ n \in 0 .. Len(outbuf[cur])
      /\ down' = [down EXCEPT ![d] = w]
      /\ outbuf' = [outbuf EXCEPT ![cur] = r]
  BY <1>3, Zenon DEF SendsSome
<1>5. outbuf[cur] \in Stream /\ down[d] \in Stream
  BY <1>0, <1>1 DEF TypedToo
<1>6. p \in Stream /\ r \in Stream /\ Joins(p, r, outbuf[cur])
  BY <1>4, <1>5, CutInTwo
<1> HIDE DEF p, r
<1>7. Joins(down[d], p, w)
  BY <1>5, <1>6, JoinTyped
<1> DEFINE x == w \o r
<1>8. Joins(w, r, x)
  BY Zenon DEF Joins
<1> HIDE DEF w, x
<1>9. Joins(down[d], outbuf[cur], x)
  BY <1>5, <1>6, <1>7, <1>8, Regroup
<1>10. down'[d] = w /\ outbuf'[cur] = r
  BY <1>0, <1>1, <1>4 DEF TypedToo
<1>11. /\ \A b \in Clients \ {d} : down'[b] = down[b]
       /\ \A f \in Fds \ {cur} : outbuf'[f] = outbuf[f]
  BY <1>0, <1>1, <1>4 DEF TypedToo
<1>12. Returning'[d] = Returning[d]
  <2>2. InHand(d) = outbuf[cur]
    BY <1>0, <1>1, HandIs
  <2>3. InHand(d)' = outbuf'[cur]
    <3>1. (CHOOSE f \in Fds : fdtab'[f] = d) = cur /\ Accepted(d)'
      BY <1>1, <1>2 DEF Accepted
    <3> QED
      BY <3>1 DEF InHand
  <2>4. d \in Ended' <=> d \in Ended
    BY <1>2 DEF Ended
  <2>5. down[d] \o InHand(d) = x
    BY <1>9, <2>2, Zenon DEF Joins
  <2>6. down'[d] \o InHand(d)' = x
    BY <1>8, <1>10, <2>3, Zenon DEF Joins
  <2> DEFINE y == down[d] \o InHand(d)
             z == down'[d] \o InHand(d)'
  <2>7. /\ Returning[d] = IF d \in Ended THEN <<>> ELSE y
        /\ Returning'[d] = IF d \in Ended' THEN <<>> ELSE z
    BY <1>1, Zenon DEF Returning
  <2>8. y = z
    BY <2>5, <2>6, Zenon
  <2> HIDE DEF y, z
  <2> QED
    BY <2>4, <2>7, <2>8
<1>13. \A b \in Clients \ {d} : Returning'[b] = Returning[b]
  <2> TAKE b \in Clients \ {d}
  <2>1. \A f \in Fds : fdtab[f] = b => outbuf'[f] = outbuf[f]
    BY <1>1, <1>11
  <2> QED
    BY <1>0, <1>2, <1>11, <2>1, ReturningKept
<1>14. Returning' = Returning
  BY <1>12, <1>13 DEF Returning
<1>15. ConnStates' = ConnStates /\ Ended' = Ended /\ Received' = Received
  BY <1>2 DEF ConnStates, ConnState, Accepted, Ended, Received
<1> QED
  BY <1>2, <1>14, <1>15 DEF EchoMove, Echo!evars

LEMMA SendClosedIdles == ASSUME EchoState, SendClosed PROVE EchoMove
<1>0. OneHome /\ TypedToo /\ StreamState
  BY StateParts
<1>1. /\ cur \in Fds /\ Conn \in Clients /\ Conn = fdtab[cur]
      /\ \A f \in Fds : fdtab[f] # Conn => f # cur
  BY <1>0, OtherConns DEF SendClosed
<1>2. cst[Conn] = "ended"
  BY <1>0, <1>1 DEF SendClosed, TypedToo
<1>3. /\ UNCHANGED <<fdtab, up, down, cst, rcvd, alive>>
      /\ outbuf' = [outbuf EXCEPT ![cur] = <<>>]
  BY DEF SendClosed, Sent, clientVars
<1>4. \A f \in Fds \ {cur} : outbuf'[f] = outbuf[f]
  BY <1>0, <1>3 DEF TypedToo
<1>5. \A c \in Clients : cst[c] # "ended" =>
        \A f \in Fds : fdtab[f] = c => outbuf'[f] = outbuf[f]
  BY <1>1, <1>2, <1>4
<1> QED
  BY <1>0, <1>3, <1>5, Unseen

(* The front of a stretch of answers.                                      *)
LEMMA AnswersFront == ASSUME NEW a \in Nat, NEW b \in Nat, a <= b, NEW k \in Nat, a + k <= b
                      PROVE  Take(Answers(a, b), k) = Answers(a, a + k)
<1> DEFINE s == Answers(a, b)
           w == Take(s, k)
           z == Answers(a, a + k)
<1>1. /\ s \in Stream /\ Len(s) = b - a
      /\ \A i \in 1 .. (b - a) : s[i] = Unit("head", "tail", a + i)
  BY AnswersTyped
<1>2. /\ z \in Stream /\ Len(z) = k
      /\ \A i \in 1 .. k : z[i] = Unit("head", "tail", a + i)
  <2>1. a + k \in Nat /\ a <= a + k /\ (a + k) - a = k
    OBVIOUS
  <2> QED
    BY <2>1, AnswersTyped
<1> HIDE DEF s, z
<1>3. k \in 0 .. Len(s) /\ b - a \in Nat
  BY <1>1
<1>4. w \in Stream /\ Len(w) = k
  BY <1>1, <1>3, CutInTwo
<1>5. \A i \in 1 .. k : w[i] = s[i]
  BY <1>1, <1>3 DEF Take, Stream
<1> HIDE DEF w
<1>6. \A i \in 1 .. k : w[i] = z[i]
  BY <1>1, <1>2, <1>3, <1>5
<1>7. w = z
  BY <1>2, <1>4, <1>6, SeqEqual DEF Stream
<1> QED
  BY <1>7 DEF s, w, z

(* What a client has received are the first answers.                       *)
LEMMA ReceivedIs == ASSUME NEW r \in Nat PROVE Take(Replies(r), r) = Answers(0, r)
<1>1. Replies(r) = Answers(0, 2 * r)
  <2>1. 2 * r - 0 = 2 * r
    OBVIOUS
  <2> QED
    BY <2>1 DEF Replies, Answers, Stretch, Unit
<1>2. 0 \in Nat /\ 2 * r \in Nat /\ 0 <= 2 * r /\ 0 + r <= 2 * r /\ 0 + r = r
  OBVIOUS
<1>3. Take(Answers(0, 2 * r), r) = Answers(0, 0 + r)
  BY <1>2, AnswersFront
<1> QED
  BY <1>1, <1>2, <1>3

LEMMA HearMoves == ASSUME EchoState, NEW d \in Clients, GetReply(d) PROVE EchoMove
<1>0. OneHome /\ TypedToo /\ StreamsInv /\ cut = {}
  BY StateParts
<1>1. PICK n \in 1 .. Len(down[d]) : /\ down' = [down EXCEPT ![d] = Drop(down[d], n)]
                                    /\ rcvd' = [rcvd EXCEPT ![d] = rcvd[d] + n]
  BY <1>0 DEF GetReply, TypedToo
<1>2. cst[d] = "on" /\ UNCHANGED <<fdtab, outbuf, up, cst, alive>>
  BY DEF GetReply, objVars
<1>3. down[d] \in Stream /\ rcvd[d] \in Nat /\ Len(down[d]) \in Nat
  BY <1>0, JoinTyped DEF TypedToo
<1>4. PICK f \in Fds : fdtab[f] = d
  <2>1. down[d] # <<>>
    BY <1>1, <1>3
  <2> QED
    BY <1>0, <2>1 DEF StreamsInv, Homeless, Unserved
<1>5. PICK t \in Nat : Served(f, d, t)
  BY <1>0, <1>4 DEF StreamsInv
<1> DEFINE a == rcvd[d]
           b == 2 * t
           o == outbuf[f]
           x == Answers(a, b)
<1>6. a <= b /\ Joins(down[d], o, x)
  BY <1>0, <1>2, <1>5 DEF Served
<1>7. a \in Nat /\ b \in Nat /\ o \in Stream /\ n \in 0 .. Len(down[d]) /\ n \in Nat /\ n >= 1
  BY <1>0, <1>1, <1>3 DEF TypedToo
<1> HIDE DEF a, b, o, x
<1>8. /\ Len(down[d]) + Len(o) = b - a
      /\ a + n \in 0 .. b
      /\ Joins(Drop(down[d], n), o, Answers(a + n, b))
  BY <1>3, <1>6, <1>7, AnswersCut DEF x
<1>9. x \in Stream /\ Len(x) = b - a
  BY <1>6, <1>7, AnswersTyped DEF x
<1>10. a + n \in Nat /\ a + n <= b /\ n \in 1 .. Len(x) /\ n \in 0 .. Len(x)
  BY <1>7, <1>8, <1>9
<1>11. Drop(x, n) = Answers(a + n, b)
  <2>1. <<>> \in Stream /\ Joins(x, <<>>, x)
    BY <1>9, JoinEmpty, EmptyStream
  <2>2. Drop(x, n) \in Stream /\ Joins(Drop(x, n), <<>>, Answers(a + n, b))
    BY <1>6, <1>7, <1>9, <1>10, <2>1, AnswersCut DEF x
  <2> QED
    BY <2>2, JoinEmpty
<1>12. Take(x, n) = Answers(a, a + n)
  BY <1>6, <1>7, <1>10, AnswersFront DEF x
<1>13. InHand(d) = o
  BY <1>0, <1>4, HandIs DEF o
<1>14. InHand(d)' = o
  <2>1. (CHOOSE g \in Fds : fdtab'[g] = d) = (CHOOSE g \in Fds : fdtab[g] = d)
    BY <1>2
  <2>2. \A g \in Fds : fdtab'[g] = d => g = f
    BY <1>0, <1>2, <1>4, ReactorAssumption DEF OneHome
  <2>3. (CHOOSE g \in Fds : fdtab'[g] = d) = f
    BY <1>2, <1>4, <2>2
  <2>4. Accepted(d)'
    BY <1>2, <1>4 DEF Accepted
  <2>5. InHand(d)' = outbuf'[f]
    BY <2>3, <2>4 DEF InHand
  <2> QED
    BY <1>2, <2>5 DEF o
<1>15. d \notin Ended /\ d \notin Ended' /\ Ended' = Ended
  BY <1>2 DEF Ended
<1>16. down'[d] = Drop(down[d], n) /\ rcvd'[d] = a + n
  BY <1>0, <1>1 DEF TypedToo, a
<1>17. \A c \in Clients \ {d} : down'[c] = down[c] /\ rcvd'[c] = rcvd[c]
  BY <1>0, <1>1 DEF TypedToo
<1>18. Returning[d] = x
  BY <1>6, <1>13, <1>15, Zenon DEF Returning, Joins
<1>19. Returning'[d] = Drop(x, n)
  <2>1. Returning'[d] = Drop(down[d], n) \o o
    BY <1>14, <1>15, <1>16, Zenon DEF Returning
  <2> QED
    BY <1>8, <1>11, <2>1, Zenon DEF Joins
<1>20. Returning' = [Returning EXCEPT ![d] = SubSeq(@, n + 1, Len(@))]
  <2>1. \A c \in Clients \ {d} : Returning'[c] = Returning[c]
    BY <1>0, <1>2, <1>17, ReturningKept
  <2>2. Returning'[d] = SubSeq(Returning[d], n + 1, Len(Returning[d]))
    BY <1>18, <1>19, Zenon DEF Drop
  <2> QED
    BY <2>1, <2>2 DEF Returning
<1>21. Received[d] = Answers(0, a) /\ Received'[d] = Answers(0, a + n)
  <2>1. Received[d] = Take(Replies(a), a) /\ Received'[d] = Take(Replies(a + n), a + n)
    BY <1>16, Zenon DEF Received, a
  <2> QED
    BY <1>7, <1>10, <2>1, ReceivedIs, Zenon
<1>22. Received'[d] = Received[d] \o SubSeq(Returning[d], 1, n)
  <2>1. Joins(Answers(0, a), Answers(a, a + n), Answers(0, a + n))
    BY <1>7, <1>10, AnswersJoin
  <2> QED
    BY <1>12, <1>18, <1>21, <2>1, Zenon DEF Joins, Take
<1> DEFINE g == Received[d] \o SubSeq(Returning[d], 1, n)
<1>23. Received'[d] = g
  BY <1>22
<1> HIDE DEF g
<1>24. Received' = [Received EXCEPT ![d] = g]
  BY <1>17, <1>23 DEF Received
<1>25. ConnStates' = ConnStates
  BY <1>2 DEF ConnStates, ConnState, Accepted
<1>26. n \in 1 .. Len(Returning[d])
  BY <1>10, <1>18, Zenon
<1>27. Received' = [Received EXCEPT ![d] = @ \o SubSeq(Returning[d], 1, n)]
  BY <1>24, Zenon DEF g
<1>28. Echo!Hear(d)
  BY <1>2, <1>15, <1>20, <1>25, <1>26, <1>27, Zenon DEF Echo!Hear
<1> QED
  BY <1>28 DEF EchoMove, Echo!Next

(* What one read returned has the end of a line just if the input has it   *)
(* now, and then the reply to the read is the reply to the line.           *)
LEMMA ReadIsAnswered ==
  ASSUME NEW t \in Nat, NEW h \in Stream, NEW p \in Stream, NEW s \in Stream,
         Joins(h, p, s), Len(h) <= 1, p # <<>>,
         \A i \in 1 .. Len(s) : s[i] = Unit("part", "end", 2 * t + i)
  PROVE  LineReply(p) = IF HasLine(s) THEN Answers(2 * t, 2 * t + 2) ELSE <<>>
<1> DEFINE m == Len(h)
<1>1. m \in {0, 1} /\ Len(p) \in Nat /\ Len(p) >= 1
  <2>1. Len(h) \in Nat /\ Len(p) \in Nat
    BY JoinTyped
  <2>2. Len(p) # 0
    BY EmptyStream
  <2>3. Len(p) >= 1
    BY <2>1, <2>2
  <2>4. Len(h) = 0 \/ Len(h) = 1
    <3>1. \A i \in Nat : i <= 1 => i = 0 \/ i = 1
      OBVIOUS
    <3>2. Len(h) \in Nat /\ Len(h) <= 1
      BY <2>1
    <3> QED
      BY ONLY <3>1, <3>2
  <2> QED
    BY <2>1, <2>3, <2>4
<1>2. /\ Len(s) = m + Len(p)
      /\ \A i \in 1 .. Len(p) : p[i] = s[m + i]
  <2> DEFINE z == h \o p
  <2>1. /\ z \in Seq(AnyUnit) /\ Len(z) = Len(h) + Len(p)
        /\ \A i \in 1 .. (Len(h) + Len(p)) : z[i] = IF i <= Len(h) THEN h[i] ELSE p[i - Len(h)]
    BY ConcatProperties DEF Stream
  <2>2. z = s
    BY DEF Joins
  <2> HIDE DEF z
  <2>3. ASSUME NEW i \in 1 .. Len(p) PROVE p[i] = s[m + i]
    <3>1. /\ m + i \in 1 .. (Len(h) + Len(p))
          /\ ~(m + i <= Len(h)) /\ (m + i) - Len(h) = i
      BY <1>1
    <3>2. s[m + i] = p[(m + i) - Len(h)]
      BY <2>1, <2>2, <3>1
    <3> QED
      BY <3>1, <3>2
  <2> QED
    BY <2>1, <2>2, <2>3
<1> HIDE DEF m
<1>3. /\ HasLine(s) <=> Len(s) >= 2
      /\ HasLine(s) => FirstEnd(s) = 2 /\ s[2] = <<t + 1, "end">>
  BY FirstLine
<1>4. DOMAIN p = 1 .. Len(p)
  BY DEF Stream
<1>5. /\ HasLine(p) <=> HasLine(s)
      /\ HasLine(p) => p[FirstEnd(p)][1] = t + 1
  <2>1. CASE m = 0
    <3>1. \A i \in 1 .. Len(p) : p[i] = Unit("part", "end", 2 * t + i)
      BY <1>1, <1>2, <2>1
    <3>2. /\ HasLine(p) <=> Len(p) >= 2
          /\ HasLine(p) => FirstEnd(p) = 2 /\ p[2] = <<t + 1, "end">>
      BY <3>1, FirstLine
    <3> QED
      BY <1>1, <1>2, <1>3, <2>1, <3>2
  <2>2. CASE m = 1
    <3>1. Len(s) >= 2 /\ m + 1 = 2 /\ 1 \in 1 .. Len(p)
      BY <1>1, <1>2, <2>2
    <3>2. p[1] = <<t + 1, "end">>
      BY <1>2, <1>3, <3>1
    <3>3. 1 \in LineEnds(p)
      BY <1>4, <3>1, <3>2 DEF LineEnds
    <3>4. \A i \in LineEnds(p) : i \in Nat /\ 1 <= i
      BY <1>1, <1>4 DEF LineEnds
    <3>5. FirstEnd(p) = 1
      BY <3>3, <3>4 DEF FirstEnd
    <3> QED
      BY <1>3, <3>1, <3>2, <3>3, <3>5 DEF HasLine
  <2> QED
    BY <1>1, <2>1, <2>2
<1>6. << <<t + 1, "head">>, <<t + 1, "tail">> >> = Answers(2 * t, 2 * t + 2)
  BY StretchPair DEF Answers, Names
<1>7. CASE HasLine(s)
  <2>1. LineReply(p) = << <<t + 1, "head">>, <<t + 1, "tail">> >>
    BY <1>5, <1>7 DEF LineReply
  <2> QED
    BY <1>6, <1>7, <2>1
<1>8. CASE ~HasLine(s)
  BY <1>5, <1>8 DEF LineReply
<1> QED
  BY <1>7, <1>8

(* recv and the task handler, for a client that is there.                  *)
LEMMA RecvReplies ==
  ASSUME EchoState, alive', rpc = "recv", NEW e \in Fds, e = cur,
         NEW d \in Clients, fdtab[e] = d, Conn = d, cst[d] = "on",
         NEW n \in 1 .. Len(up[d]), Task(inbuf[e] \o Take(up[d], n))
  PROVE  /\ outbuf[e] = <<>>
         /\ outbuf' = [outbuf EXCEPT ![e] = LineReply(Take(up[d], n))]
<1>0. Typed /\ TypedToo /\ StreamsInv /\ cut = {} /\ NoLineWaits
  BY StateParts DEF EchoState
<1>1. PICK t \in Nat : Served(e, d, t)
  BY <1>0 DEF StreamsInv
<1>2. /\ t <= Len(asked[d]) /\ outbuf[e] = <<>>
      /\ Joins(inbuf[e], up[d], Lines(2 * t, 2 * Len(asked[d])))
  BY <1>0, <1>1 DEF Served, Sending
<1> DEFINE N == Len(asked[d])
           h == inbuf[e]
           p == Take(up[d], n)
           r == Drop(up[d], n)
           s == h \o p
           a == 2 * t
           b == 2 * N
<1>3. up[d] \in Stream /\ h \in Stream /\ N \in Nat /\ Len(h) <= 1
  BY <1>0 DEF Typed, TypedToo, Stream, NoLineWaits
<1>4. n \in 0 .. Len(up[d]) /\ n >= 1
  BY <1>3, JoinTyped
<1>5. p \in Stream /\ Len(p) = n /\ r \in Stream /\ Joins(p, r, up[d])
  BY <1>3, <1>4, CutInTwo
<1>6. a \in Nat /\ b \in Nat /\ a <= b /\ Joins(h, up[d], Lines(a, b))
  BY <1>2, <1>3
<1>7. Task(s)
  OBVIOUS
<1> HIDE DEF N, h, p, r, s, b
<1>8. s \in Stream /\ Joins(h, p, s)
  BY <1>3, <1>5, JoinTyped DEF s
<1>9. Joins(s, r, Lines(a, b))
  BY <1>3, <1>5, <1>6, <1>8, Regroup
<1>10. \A i \in 1 .. Len(s) : s[i] = Unit("part", "end", a + i)
  BY <1>5, <1>6, <1>8, <1>9, LinesCut
<1>11. p # <<>>
  BY <1>4, <1>5
<1>12. LineReply(p) = IF HasLine(s) THEN Answers(a, a + 2) ELSE <<>>
  BY <1>3, <1>5, <1>8, <1>10, <1>11, ReadIsAnswered
<1>13. CASE HasLine(s)
  <2>1. FirstEnd(s) = 2 /\ s[2] = <<t + 1, "end">>
    BY <1>8, <1>10, <1>13, FirstLine
  <2>2. outbuf' = [outbuf EXCEPT ![e] = Reply(t + 1)]
    <3>1. s[FirstEnd(s)][1] = t + 1
      BY <2>1
    <3>2. asked[Conn][t + 1] = "bad" \/ outbuf' = [outbuf EXCEPT ![e] = Reply(t + 1)]
      BY <1>7, <1>13, <3>1, Zenon DEF Task
    <3>3. ASSUME asked[Conn][t + 1] = "bad" PROVE FALSE
      BY <1>7, <1>13, <3>1, <3>3 DEF Task
    <3> QED
      BY <3>2, <3>3
  <2>3. Reply(t + 1) = Answers(a, a + 2)
    <3>1. outbuf[cur] \in Stream /\ outbuf[cur] = <<>>
      BY <1>2, EmptyStream
    <3> QED
      BY <3>1, ReplyTyped
  <2>4. LineReply(p) = Answers(a, a + 2)
    BY <1>12, <1>13
  <2>5. outbuf' = [outbuf EXCEPT ![e] = LineReply(p)]
    BY <2>2, <2>3, <2>4, Zenon
  <2> QED
    BY <1>2, <2>5, Zenon DEF p
<1>14. CASE ~HasLine(s)
  <2>1. outbuf' = outbuf /\ LineReply(p) = <<>>
    BY <1>7, <1>12, <1>14 DEF Task
  <2>2. outbuf' = [outbuf EXCEPT ![e] = <<>>]
    BY <1>0, <1>2, <2>1 DEF TypedToo
  <2>3. outbuf' = [outbuf EXCEPT ![e] = LineReply(p)]
    BY <2>1, <2>2, Zenon
  <2> QED
    BY <1>2, <2>3, Zenon DEF p
<1> QED
  BY <1>13, <1>14

LEMMA RecvMoves == ASSUME EchoState, alive', Recv, NEW d \in Clients, d = Conn PROVE EchoMove
<1>0. Typed /\ LoopInv /\ OneHome /\ TypedToo /\ StreamState /\ alive
  BY StateParts
<1>1. PICK e \in Fds : /\ e = cur /\ fdtab[e] = d
                       /\ \A f \in Fds : fdtab[f] = d => f = e
                       /\ \A f \in Fds : fdtab[f] # d => f # e
  BY <1>0, OtherConns DEF Recv
<1>2. UNCHANGED <<fdtab, down, cst, rcvd, alive>> /\ rpc = "recv"
  BY <1>0 DEF Recv, clientVars
<1>3. PICK n \in 1 .. Len(up[d]) : /\ up' = [up EXCEPT ![d] = Drop(up[d], n)]
                                  /\ Task(inbuf[e] \o Take(up[d], n))
  BY <1>0, <1>1 DEF Recv, Typed
<1> DEFINE v == LineReply(Take(up[d], n))
<1>4. ASSUME cst[d] = "on" PROVE outbuf[e] = <<>> /\ outbuf' = [outbuf EXCEPT ![e] = v]
  BY <1>1, <1>2, <1>3, <1>4, RecvReplies
<1>5. \A f \in Fds \ {e} : outbuf'[f] = outbuf[f]
  BY <1>0, <1>1, <1>3 DEF Task, TypedToo
<1>6. cst[d] = "on" \/ cst[d] = "ended"
  BY <1>0, <1>1 DEF OneHome, TypedToo
<1>7. /\ ConnStates[d] = "open" /\ (d \in Ended <=> cst[d] = "ended")
      /\ UNCHANGED <<ConnStates, Ended, Received>>
  BY <1>1, <1>2, <1>6 DEF ConnStates, ConnState, Accepted, Ended, Received
<1>8. \A b \in Clients \ {d} : Returning'[b] = Returning[b]
  <2> TAKE b \in Clients \ {d}
  <2>1. \A f \in Fds : fdtab[f] = b => outbuf'[f] = outbuf[f]
    BY <1>1, <1>5
  <2> QED
    BY <1>0, <1>2, <2>1, ReturningKept
<1>9. up' = [up EXCEPT ![d] = SubSeq(@, n + 1, Len(@))]
  BY <1>3 DEF Drop
<1>10. CASE cst[d] = "ended"
  <2>1. Returning'[d] = Returning[d]
    BY <1>7, <1>10 DEF Returning
  <2>2. UNCHANGED Returning
    BY <1>8, <2>1 DEF Returning
  <2>3. d \in Ended
    BY <1>7, <1>10
  <2>4. Echo!Serve(d)
    BY <1>2, <1>7, <1>9, <2>2, <2>3 DEF Echo!Serve
  <2> QED
    BY <1>0, <2>4 DEF EchoMove, Echo!Next
<1>11. CASE cst[d] = "on"
  <2> HIDE DEF v
  <2>1. outbuf[e] = <<>> /\ outbuf'[e] = v
    BY <1>0, <1>4, <1>11 DEF TypedToo
  <2>2. InHand(d) = <<>>
    BY <1>0, <1>1, <2>1, HandIs
  <2>3. InHand(d)' = v
    <3>1. fdtab'[e] = d /\ \A f \in Fds : fdtab'[f] = d => f = e
      BY <1>1, <1>2
    <3>2. (CHOOSE f \in Fds : fdtab'[f] = d) = e
      BY <3>1
    <3>3. Accepted(d)'
      BY <3>1 DEF Accepted
    <3>4. InHand(d)' = outbuf'[e]
      BY <3>2, <3>3 DEF InHand
    <3> QED
      BY <2>1, <3>4
  <2>4. d \notin Ended /\ d \notin Ended'
    BY <1>7, <1>11
  <2>5. Returning[d] = down[d]
    <3>1. down[d] \in Seq(AnyUnit)
      BY <1>0 DEF TypedToo, Stream
    <3>2. down[d] \o <<>> = down[d]
      BY <3>1, ConcatEmptySeq
    <3>3. Returning[d] = down[d] \o InHand(d)
      BY <2>4, Zenon DEF Returning
    <3> QED
      BY <2>2, <3>2, <3>3, Zenon
  <2>6. Returning'[d] = down[d] \o v
    <3>1. Returning'[d] = down'[d] \o InHand(d)'
      BY <2>4, Zenon DEF Returning
    <3>2. down'[d] = down[d]
      BY <1>2
    <3> QED
      BY <2>3, <3>1, <3>2, Zenon
  <2> DEFINE g == Returning[d] \o v
  <2>7. Returning'[d] = g
    BY <2>5, <2>6, Zenon
  <2> HIDE DEF g
  <2>8. Returning' = [Returning EXCEPT ![d] = g]
    BY <1>8, <2>7 DEF Returning
  <2>9. Returning' = [Returning EXCEPT ![d] = @ \o LineReply(SubSeq(up[d], 1, n))]
    BY <2>8, Zenon DEF g, v, Take
  <2>10. Echo!Serve(d)
    BY <1>2, <1>7, <1>9, <2>4, <2>9, Zenon DEF Echo!Serve
  <2> QED
    BY <1>0, <2>10 DEF EchoMove, Echo!Next
<1> QED
  BY <1>6, <1>10, <1>11

LEMMA EchoStart == Init => Echo!Init
<1> SUFFICES ASSUME Init PROVE Echo!Init
  OBVIOUS
<1>1. ConnStates = [c \in Clients |-> "none"] /\ Ended = {}
  BY DEF Init, ConnStates, ConnState, Ended
<1>2. Returning = [c \in Clients |-> <<>>]
  <2>1. \A c \in Clients : InHand(c) = <<>>
    BY ReactorAssumption DEF Init, InHand, Accepted
  <2>2. <<>> \o <<>> = <<>>
    OBVIOUS
  <2>3. \A c \in Clients : down[c] = <<>> /\ c \notin Ended
    BY <1>1 DEF Init
  <2>4. \A c \in Clients : Returning[c] = <<>>
    <3> TAKE c \in Clients
    <3>1. Returning[c] = down[c] \o InHand(c)
      BY <2>3, Zenon DEF Returning
    <3> QED
      BY <2>1, <2>2, <2>3, <3>1, Zenon
  <2> QED
    BY <2>4 DEF Returning
<1>3. Received = [c \in Clients |-> <<>>]
  <2>1. \A c \in Clients : Received[c] = Take(Replies(0), 0)
    BY DEF Init, Received
  <2>2. Take(Replies(0), 0) = <<>>
    BY DEF Take
  <2> QED
    BY <2>1, <2>2 DEF Received
<1> QED
  BY <1>1, <1>2, <1>3 DEF Init, Echo!Init

(* Each step of the reactor is one of an echo service, or none.            *)
LEMMA EchoStep == ASSUME IsFiniteSet(Clients), EchoState, alive', [Next]_vars PROVE EchoMove
<1>0. Typed /\ LoopInv /\ OneHome /\ TypedToo
  BY StateParts
<1>1. CASE UNCHANGED <<fdtab, outbuf, up, down, cst, rcvd, alive>>
  BY <1>0, <1>1, Unseen
<1>2. CASE Recv
  BY <1>0, <1>2, ConnIsOne, RecvMoves DEF Recv
<1>3. CASE Send
  BY <1>0, <1>3, ConnIsOne, SendIdles DEF Send
<1>4. CASE SendClosed
  BY <1>4, SendClosedIdles
<1>5. CASE SendBlocked \/ SendReset \/ AcceptFails
  BY <1>5, CalmNotBlocked, CalmNoReset, CalmAccepts DEF EchoState
<1>6. ASSUME NEW f \in Fds, Accept(f) PROVE EchoMove
  BY <1>6, AcceptMoves
<1>7. ASSUME NEW c \in Clients, Connect(c) \/ GetReply(c) \/ Leave(c) PROVE EchoMove
  BY <1>7, ConnectMoves, HearMoves, LeaveMoves
<1>8. ASSUME NEW c \in Clients, NEW q \in setting.kinds, Ask(c, q) PROVE EchoMove
  BY <1>0, <1>8, KindsAreKinds, AskMoves
<1> QED
  BY <1>1, <1>2, <1>3, <1>4, <1>5, <1>6, <1>7, <1>8
     DEF Next, ServerStep, HandlerStep, ClientStep, EpollWait, BatchDone, Dispatch, RecvEnds,
         vars, objVars, netVars, clientVars

(* With finitely many clients that wait for each reply, and a descriptor   *)
(* and room in the kernel for each, the reactor is an echo service that    *)
(* answers each line when it reads its end, however the edges come and     *)
(* whatever the reads cut the lines into.                                  *)
THEOREM CalmReactorIsEcho ==
  ASSUME IsFiniteSet(Clients)
  PROVE  Spec => CalmImplementsEcho
<1> DEFINE I == OrderInv /\ (Calm => CalmInv /\ NoLineWaits)
<1>1. Init => I
  <2> SUFFICES ASSUME Init PROVE I
    OBVIOUS
  <2>1. NoLineWaits
    BY DEF Init, NoLineWaits
  <2> QED
    BY <2>1, OrderInit, CalmInit
<1>2. I /\ [Next]_vars => I'
  <2>1. [Next]_vars => (Calm <=> Calm')
    BY SettingStays DEF Calm
  <2> QED
    BY <2>1, OrderNext, CalmNext, NoLineNext DEF CalmState
<1>3. I /\ I' /\ [Next]_vars => [Calm => Echo!Next]_(Echo!evars)
  <2> SUFFICES ASSUME I, I', [Next]_vars, Calm PROVE EchoMove
    BY DEF EchoMove
  <2>1. alive'
    BY SettingStays DEF Calm, CalmInv
  <2> QED
    BY <2>1, EchoStep DEF EchoState, CalmState
<1> QED
  BY <1>1, <1>2, <1>3, EchoStart, PTL DEF Spec, CalmImplementsEcho
=============================================================================
