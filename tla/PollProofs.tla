----------------------------- MODULE PollProofs -----------------------------
(***************************************************************************)
(* What the poll server guarantees for any clients, descriptors and size   *)
(* of its array, also when the array is full: no call on a descriptor that *)
(* poll reported blocks, and the server is an echo service.                *)
(*                                                                         *)
(* The argument is that of the other two loops (EchoLoopProofs): what the  *)
(* kernel reported stays so until the pass has come to it, because nobody  *)
(* but the one thread reads, accepts or closes. The lemmas about the       *)
(* kernel and the clients are taken from there.                            *)
(***************************************************************************)
EXTENDS PollServer, TLAPS

Net == INSTANCE EchoLoopProofs WITH fd_array <- slots, rfds <- revents, events <- revents

(* The assumptions on the constants are those of this server.              *)
LEMMA Assumptions == Net!NetAssumption /\ Net!SelectAssumption
BY NetAssumption, PollAssumption DEF Net!NetAssumption, Net!SelectAssumption

(* The shared steps, by either name.                                       *)
LEMMA SameSteps ==
  /\ NetInit <=> Net!NetInit
  /\ \A c \in Clients : ClientStep(c) <=> Net!ClientStep(c)
  /\ SendStep <=> Net!SendStep
  /\ \A x : IsReady(x) <=> Net!IsReady(x)
  /\ \A x : IsReady(x)' <=> Net!IsReady(x)'
  /\ \A f \in Fds : Accepts(f) <=> Net!Accepts(f)
<1>1. NetInit <=> Net!NetInit
  BY DEF Net!NetInit, NetInit
<1>2. \A c \in Clients : ClientStep(c) <=> Net!ClientStep(c)
  <2> SUFFICES ASSUME NEW c \in Clients PROVE ClientStep(c) <=> Net!ClientStep(c)
    OBVIOUS
  <2>1. Net!Connect(c) <=> Connect(c)
    BY DEF Net!Connect, Connect, Net!netVars, netVars, Net!sendVars, sendVars
  <2>2. Net!Say(c) <=> Say(c)
    BY DEF Net!Say, Say, Net!Message, Message, Net!sendVars, sendVars
  <2>3. Net!Hear(c) <=> Hear(c)
    BY DEF Net!Hear, Hear, Net!sendVars, sendVars
  <2>4. Net!Leave(c) <=> Leave(c)
    BY DEF Net!Leave, Leave, Net!sendVars, sendVars
  <2> QED
    BY <2>1, <2>2, <2>3, <2>4 DEF Net!ClientStep, ClientStep
<1>3. SendStep <=> Net!SendStep
  <2>1. Net!SendOpen <=> SendOpen
    BY DEF Net!SendOpen, SendOpen, Net!Conn, Conn, Net!Least, Least, Net!Take, Take,
           Net!Drop, Drop, Net!SendDone, SendDone, Net!clientVars, clientVars
  <2>2. Net!SendClosed <=> SendClosed
    BY DEF Net!SendClosed, SendClosed, Net!Conn, Conn, Net!SendDone, SendDone,
           Net!clientVars, clientVars
  <2>3. Net!SendReset <=> SendReset
    BY DEF Net!SendReset, SendReset, Net!Conn, Conn, Net!SendDone, SendDone,
           Net!clientVars, clientVars, Net!netVars, netVars, Net!sendVars, sendVars
  <2> QED
    BY <2>1, <2>2, <2>3 DEF Net!SendStep, SendStep
<1>4. /\ \A x : IsReady(x) <=> Net!IsReady(x)
      /\ \A x : IsReady(x)' <=> Net!IsReady(x)'
  BY DEF Net!IsReady, IsReady, Net!Readable, Readable
<1>5. \A f \in Fds : Accepts(f) <=> Net!Accepts(f)
  BY DEF Net!Accepts, Accepts
<1> QED
  BY <1>1, <1>2, <1>3, <1>4, <1>5

(* What the abstract service sees of a state, by either name.              *)
LEMMA SameEcho ==
  /\ Net!ConnStates = ConnStates /\ Net!ConnStates' = ConnStates'
  /\ Net!Ended = Ended /\ Net!Ended' = Ended'
  /\ Net!Sending = Sending /\ Net!Sending' = Sending'
  /\ \A c \in Clients : Net!Messages(c) = Messages(c)
<1>1. Net!ConnStates = ConnStates /\ Net!ConnStates' = ConnStates'
  BY DEF Net!ConnStates, ConnStates, Net!ConnState, ConnState, Net!Queues, Queues
<1>2. Net!Ended = Ended /\ Net!Ended' = Ended'
  BY DEF Net!Ended, Ended
<1>3. Net!Sending = Sending /\ Net!Sending' = Sending'
  BY DEF Net!Sending, Sending, Net!InHand, InHand, Net!Conn, Conn
<1>4. \A c \in Clients : Net!Messages(c) = Messages(c)
  BY DEF Net!Messages, Messages, Net!Message, Message
<1> QED
  BY <1>1, <1>2, <1>3, <1>4
-----------------------------------------------------------------------------
(* The inductive invariant.                                                *)

PollTyped == /\ slots \in [Slots -> Fds \cup {Listen, Empty}]
             /\ revents \subseteq Slots
             /\ pos \in Nat /\ pos > 1

(* Every descriptor of the array is open and in one entry of it. Not every *)
(* open one is there: with no empty entry nobody keeps it.                 *)
EntriesOpen == /\ slots[1] = Listen
               /\ \A i \in Slots : slots[i] \in Fds => fdtab[slots[i]] # Free
               /\ \A i, j \in Slots : slots[i] = slots[j] /\ i # j => slots[i] = Empty

(* What is marked and not visited is ready, also while a send blocks; a    *)
(* pass that reads has found no connection waiting.                        *)
MarksReady == /\ pc = "send" => 1 \notin revents
              /\ pc = "scan" /\ 1 \in revents => backlog # <<>>
              /\ pc \in {"scan", "send"} /\ 1 \notin revents => \A i \in Hits : IsReady(slots[i])

PollInv == Net!NetOK /\ PollTyped /\ EntriesOpen /\ MarksReady

LEMMA PollInit == Init => PollInv
<1> SUFFICES ASSUME Init PROVE PollInv
  OBVIOUS
<1>1. 1 \in Slots /\ Empty \notin Fds \cup {Listen} /\ Listen \notin Fds
  BY PollAssumption, NetAssumption DEF Slots
<1>2. Net!NetOK
  BY Net!InitNet, Assumptions, SameSteps DEF Init
<1>3. PollTyped /\ EntriesOpen /\ MarksReady
  BY <1>1 DEF Init, NetInit, PollTyped, EntriesOpen, MarksReady
<1> QED
  BY <1>2, <1>3 DEF PollInv

(* Where the array and the marks stay, what is ready has only to stay so.  *)
LEMMA MarksStay ==
  ASSUME PollInv, Net!NetOK', UNCHANGED <<fdtab, pollVars>>,
         UNCHANGED pc \/ (pc = "send" /\ pc' = "scan"),
         \A x : IsReady(x) => IsReady(x)'
  PROVE  PollInv'
<1>1. PollTyped' /\ EntriesOpen'
  BY DEF PollInv, PollTyped, EntriesOpen, pollVars
<1>2. ASSUME pc' = "scan", 1 \in revents' PROVE backlog' # <<>>
  <2>1. IsReady(Listen)
    BY <1>2 DEF PollInv, MarksReady, pollVars, IsReady
  <2> QED
    BY <2>1, NetAssumption DEF IsReady
<1>3. MarksReady'
  BY <1>2 DEF PollInv, MarksReady, Hits, pollVars
<1> QED
  BY <1>1, <1>3 DEF PollInv

(* poll marks what is ready.                                               *)
LEMMA PollKeeps == ASSUME PollInv, Poll PROVE PollInv'
<1>1. /\ revents' = {i \in Slots : IsReady(slots[i])} /\ pos' = 2 /\ pc' = "scan"
      /\ UNCHANGED <<fdtab, backlog, up, peer, cst, said, slots>>
  BY DEF Poll, netVars, clientVars
<1>2. Net!NetOK' /\ \A x : IsReady(x)' <=> IsReady(x)
  BY <1>1, Assumptions, Net!SameNet, SameSteps DEF PollInv
<1>3. PollTyped' /\ EntriesOpen'
  BY <1>1 DEF PollInv, PollTyped, EntriesOpen
<1>4. 1 \in revents' => backlog' # <<>>
  BY <1>1, NetAssumption DEF PollInv, EntriesOpen, IsReady
<1>5. \A i \in Hits' : IsReady(slots[i])
  BY <1>1 DEF Hits
<1>6. MarksReady'
  BY <1>1, <1>4, <1>5 DEF MarksReady, IsReady, Readable
<1> QED
  BY <1>2, <1>3, <1>6 DEF PollInv

(* The new descriptor is in an entry that was empty, or in none.           *)
LEMMA Entered ==
  ASSUME NEW f, Enter(f)
  PROVE  \/ UNCHANGED slots
         \/ \E j \in Slots : slots[j] = Empty /\ slots' = [slots EXCEPT ![j] = f]
<1> DEFINE empty == {j \in Slots : slots[j] = Empty}
<1>1. CASE empty = {}
  BY <1>1 DEF Enter
<1>2. CASE empty # {}
  <2>1. \E j \in empty : \A k \in empty : j <= k
    <3>1. empty \subseteq Nat
      BY DEF Slots
    <3> HIDE DEF empty
    <3> QED
      BY <1>2, <3>1, Assumptions, Net!LeastExists
  <2> DEFINE first == CHOOSE j \in empty : \A k \in empty : j <= k
  <2>2. first \in empty
    BY <2>1
  <2>3. slots' = [slots EXCEPT ![first] = f]
    BY <1>2 DEF Enter
  <2> HIDE DEF first
  <2> QED
    BY <2>2, <2>3
<1> QED
  BY <1>1, <1>2

(* Nothing is read in a pass that accepts.                                 *)
LEMMA ListenKeeps == ASSUME PollInv, NEW f \in Fds, ListenEvent(f) PROVE PollInv'
<1>1. /\ Accepts(f) /\ Enter(f) /\ revents' = {} /\ pc' = "wait"
      /\ UNCHANGED <<up, peer, cst, said, pos>>
  BY DEF ListenEvent, netVars, clientVars
<1>2. /\ Net!NetOK' /\ fdtab[f] = Free
      /\ \E c \in Clients : fdtab' = [fdtab EXCEPT ![f] = c]
  BY <1>1, Assumptions, Net!AcceptNet, SameSteps DEF PollInv
<1>3. PICK c \in Clients : fdtab' = [fdtab EXCEPT ![f] = c]
  BY <1>2
<1>4. \A g \in Fds : fdtab'[g] = IF g = f THEN c ELSE fdtab[g]
  BY <1>3 DEF PollInv, Net!NetOK, Net!NetTyped
<1>5. /\ c # Free /\ f # Empty /\ Listen # Empty /\ 1 \in Slots
      /\ \A k \in Slots : slots[k] # f
  BY <1>2, PollAssumption, NetAssumption DEF PollInv, EntriesOpen, Slots
<1>6. PollTyped' /\ EntriesOpen'
  <2>1. CASE UNCHANGED slots
    BY <1>1, <1>4, <1>5, <2>1 DEF PollInv, PollTyped, EntriesOpen
  <2>2. ASSUME NEW j \in Slots, slots[j] = Empty, slots' = [slots EXCEPT ![j] = f]
        PROVE  PollTyped' /\ EntriesOpen'
    <3>1. \A k \in Slots : slots'[k] = IF k = j THEN f ELSE slots[k]
      BY <2>2 DEF PollInv, PollTyped
    <3>2. PollTyped'
      BY <1>1, <2>2 DEF PollInv, PollTyped
    <3>3. EntriesOpen'
      BY <1>4, <1>5, <2>2, <3>1 DEF PollInv, EntriesOpen
    <3> QED
      BY <3>2, <3>3
  <2> QED
    BY <1>1, <2>1, <2>2, Entered
<1>7. MarksReady'
  BY <1>1 DEF MarksReady
<1> QED
  BY <1>2, <1>6, <1>7 DEF PollInv

LEMMA IdleKeeps == ASSUME PollInv, ListenFails \/ ScanEnds PROVE PollInv'
<1>1. /\ pc' = "wait" /\ revents' \in {{}, revents}
      /\ UNCHANGED <<fdtab, backlog, up, peer, cst, said, slots, pos>>
  BY DEF ListenFails, ScanEnds, pollVars, netVars, clientVars
<1>2. Net!NetOK'
  BY <1>1, Assumptions, Net!SameNet DEF PollInv
<1>3. PollTyped' /\ EntriesOpen' /\ MarksReady'
  BY <1>1 DEF PollInv, PollTyped, EntriesOpen, MarksReady
<1> QED
  BY <1>2, <1>3 DEF PollInv

(* The entry that is visited holds an open descriptor, ready to be read.   *)
LEMMA AtFacts ==
  ASSUME PollInv, NEW i \in Slots, AtHit(i)
  PROVE  /\ pc = "scan" /\ 1 \notin revents /\ i \in Nat /\ i \in Hits
         /\ pos \in Nat /\ 1 < pos /\ pos <= i /\ i <= Size
         /\ \E f \in Fds, c \in Clients : slots[i] = f /\ fdtab[f] = c /\ c # Free
<1>1. /\ pc = "scan" /\ 1 \notin revents /\ i \in Hits /\ pos \in Nat /\ 1 < pos
      /\ Size \in Nat /\ 1 \in Slots
  BY PollAssumption DEF AtHit, PollInv, PollTyped, Slots
<1>2. i \in Nat /\ pos <= i /\ i <= Size /\ i # 1 /\ slots[i] # Empty
  BY <1>1 DEF Hits
<1>3. slots[i] # Listen
  BY <1>1, <1>2 DEF PollInv, EntriesOpen
<1>4. slots[i] \in Fds /\ fdtab[slots[i]] \in Clients
  BY <1>1, <1>2, <1>3 DEF PollInv, PollTyped, EntriesOpen, Net!NetOK, Net!NetTyped
<1> QED
  BY <1>1, <1>2, <1>4, NetAssumption

(* Behind the visited entry the array and the marks are as they were.      *)
LEMMA PassGoesOn ==
  ASSUME PollInv, Net!NetOK', PollTyped', EntriesOpen', NEW i \in Slots, AtHit(i), NEW f,
         slots[i] = f, pos' = i + 1, UNCHANGED revents, pc' \in {"scan", "send"},
         \A k \in Slots : k # i => slots'[k] = slots[k],
         \A x : IsReady(x) /\ x # f => IsReady(x)'
  PROVE  PollInv'
<1>1. /\ pc = "scan" /\ 1 \notin revents /\ i \in Nat /\ pos \in Nat /\ 1 < pos /\ pos <= i
      /\ slots[i] # Empty /\ Size \in Nat
  BY AtFacts, PollAssumption DEF Hits
<1>2. ASSUME NEW k \in Hits' PROVE IsReady(slots[k])'
  <2>1. k \in Slots /\ k # i /\ slots'[k] = slots[k] /\ k \in Hits
    BY <1>1, <1>2 DEF Hits, Slots
  <2>2. PICK y : y = slots[k]
    OBVIOUS
  <2>3. IsReady(y) /\ y # f
    BY <1>1, <2>1, <2>2 DEF PollInv, MarksReady, EntriesOpen
  <2>4. IsReady(y)'
    BY <2>3
  <2> QED
    BY <2>1, <2>2, <2>4 DEF IsReady
<1>3. MarksReady'
  BY <1>1, <1>2 DEF MarksReady
<1> QED
  BY <1>3 DEF PollInv

(* A read takes units of one connection; the other entries have others.    *)
LEMMA ReadKeeps == ASSUME PollInv, RecvText PROVE PollInv'
<1>1. PICK i \in Slots :
        /\ AtHit(i) /\ pos' = i + 1 /\ pc' = "send"
        /\ \E n \in 1 .. Len(up[fdtab[slots[i]]]) : Reads(slots[i], n)
  BY DEF RecvText, StartSend
<1>2. UNCHANGED <<fdtab, backlog, peer, cst, said, slots, revents>>
  BY DEF RecvText, clientVars
<1>3. PICK f \in Fds, c \in Clients : slots[i] = f /\ fdtab[f] = c
  BY <1>1, AtFacts
<1>4. PICK n \in 1 .. Len(up[c]) : up' = [up EXCEPT ![c] = Net!Drop(@, n)]
  BY <1>1, <1>3 DEF Reads, Drop, Net!Drop
<1>5. Net!NetOK' /\ \A x : IsReady(x) /\ x # f => IsReady(x)'
  BY <1>2, <1>3, <1>4, Assumptions, Net!ReadNet, SameSteps DEF PollInv
<1>6. PollTyped' /\ EntriesOpen'
  <2>1. pos' \in Nat /\ pos' > 1
    BY <1>1, AtFacts
  <2> QED
    BY <1>2, <2>1 DEF PollInv, PollTyped, EntriesOpen
<1> QED
  BY <1>1, <1>2, <1>3, <1>5, <1>6, PassGoesOn

(* An entry is given back with its descriptor.                             *)
LEMMA EndKeeps == ASSUME PollInv, RecvEnds PROVE PollInv'
<1>1. PICK i \in Slots : /\ AtHit(i) /\ pos' = i + 1
                         /\ fdtab' = [fdtab EXCEPT ![slots[i]] = Free]
                         /\ slots' = [slots EXCEPT ![i] = Empty]
  BY DEF RecvEnds
<1>2. UNCHANGED <<backlog, up, peer, cst, said, pc, revents>>
  BY DEF RecvEnds, netVars, clientVars
<1>3. PICK f \in Fds, c \in Clients : slots[i] = f /\ fdtab[f] = c
  BY <1>1, AtFacts
<1>4. pc = "scan" /\ i \in Nat /\ i > 1 /\ f # Empty /\ Empty \notin Fds
  BY <1>1, AtFacts, PollAssumption
<1>5. /\ \A g \in Fds : fdtab'[g] = IF g = f THEN Free ELSE fdtab[g]
      /\ \A k \in Slots : slots'[k] = IF k = i THEN Empty ELSE slots[k]
  BY <1>1, <1>3 DEF PollInv, PollTyped, Net!NetOK, Net!NetTyped
<1>6. Net!NetOK' /\ \A x : IsReady(x) /\ x # f => IsReady(x)'
  BY <1>1, <1>2, <1>3, Assumptions, Net!CloseNet, SameSteps DEF PollInv
<1>7. PollTyped'
  <2>1. pos' \in Nat /\ pos' > 1
    BY <1>1, <1>4
  <2> QED
    BY <1>1, <1>2, <2>1 DEF PollInv, PollTyped
<1>8. EntriesOpen'
  <2>1. slots'[1] = Listen
    BY <1>4, <1>5, PollAssumption DEF PollInv, EntriesOpen, Slots
  <2>2. \A k \in Slots : slots'[k] \in Fds => fdtab'[slots'[k]] # Free
    BY <1>3, <1>4, <1>5 DEF PollInv, EntriesOpen
  <2>3. \A k, l \in Slots : slots'[k] = slots'[l] /\ k # l => slots'[k] = Empty
    BY <1>5 DEF PollInv, EntriesOpen
  <2> QED
    BY <2>1, <2>2, <2>3 DEF EntriesOpen
<1> QED
  BY <1>1, <1>2, <1>3, <1>4, <1>5, <1>6, <1>7, <1>8, PassGoesOn

(* A recv that fails leaves its descriptor ready: the next returns 0.      *)
LEMMA FailKeeps == ASSUME PollInv, RecvFails PROVE PollInv'
<1>1. PICK i \in Slots : /\ AtHit(i) /\ pos' = i + 1
                         /\ peer' = [peer EXCEPT ![fdtab[slots[i]]] = "gone"]
                         /\ up' = [up EXCEPT ![fdtab[slots[i]]] = <<>>]
                         /\ ReadsError(slots[i])
  BY DEF RecvFails
<1>2. UNCHANGED <<fdtab, backlog, cst, said, pc, slots, revents>>
  BY DEF RecvFails, clientVars
<1>3. PICK f \in Fds, c \in Clients : slots[i] = f /\ fdtab[f] = c
  BY <1>1, AtFacts
<1>4. Net!NetTyped /\ Net!OneHome
  BY DEF PollInv, Net!NetOK
<1>5. Net!NetTyped'
  <2>1. peer' \in [Clients -> {"open", "fin", "rst", "gone"}] /\ up' \in [Clients -> Seq(Net!Unit)]
    BY <1>1, <1>3, <1>4 DEF Net!NetTyped
  <2> QED
    BY <1>2, <1>4, <2>1 DEF Net!NetTyped
<1>6. Net!OneHome'
  BY <1>2, <1>4, Assumptions, Net!HomeOther
<1>7. \A d \in Clients : Readable(d) => Readable(d)'
  BY <1>1, <1>3, <1>4 DEF Readable, ReadsError, Net!NetTyped
<1>8. \A x : IsReady(x) => IsReady(x)'
  BY <1>2, <1>4, <1>7, NetAssumption DEF IsReady, Net!NetTyped
<1>9. PollTyped' /\ EntriesOpen'
  <2>1. pos' \in Nat /\ pos' > 1
    BY <1>1, AtFacts
  <2> QED
    BY <1>2, <2>1 DEF PollInv, PollTyped, EntriesOpen
<1>10. Net!NetOK' /\ pc' \in {"scan", "send"}
  BY <1>1, <1>2, <1>5, <1>6, AtFacts DEF Net!NetOK
<1> QED
  BY <1>1, <1>2, <1>3, <1>8, <1>9, <1>10, PassGoesOn

LEMMA PollStep == ASSUME PollInv, [Next]_vars PROVE PollInv'
<1>1. CASE Poll
  BY <1>1, PollKeeps
<1>2. CASE HandlerEvent
  BY <1>2, ListenKeeps, IdleKeeps, ReadKeeps, EndKeeps, FailKeeps DEF HandlerEvent
<1>3. CASE SendStep /\ UNCHANGED pollVars
  <2>1. /\ Net!NetOK' /\ \A x : IsReady(x) => IsReady(x)'
        /\ UNCHANGED fdtab /\ pc = "send" /\ pc' \in {"send", "scan"}
    BY <1>3, Assumptions, Net!SendNet, SameSteps DEF PollInv
  <2> QED
    BY <1>3, <2>1, MarksStay
<1>4. ASSUME NEW c \in Clients, ClientStep(c), UNCHANGED pollVars PROVE PollInv'
  <2>1. Net!NetOK' /\ (\A x : IsReady(x) => IsReady(x)') /\ UNCHANGED <<fdtab, pc>>
    BY <1>4, Assumptions, Net!ClientNet, SameSteps DEF PollInv
  <2> QED
    BY <1>4, <2>1, MarksStay
<1>5. CASE UNCHANGED vars
  <2>1. UNCHANGED <<fdtab, backlog, up, peer, cst, said, pc, pollVars>>
    BY <1>5 DEF vars, evVars, netVars, clientVars
  <2>2. Net!NetOK' /\ \A x : IsReady(x)' <=> IsReady(x)
    BY <2>1, Assumptions, Net!SameNet, SameSteps DEF PollInv
  <2> QED
    BY <2>1, <2>2, MarksStay
<1> QED
  BY <1>1, <1>2, <1>3, <1>4, <1>5 DEF Next, ServerStep

LEMMA PollInvariant == Spec => []PollInv
<1>1. PollInv /\ [Next]_vars => PollInv'
  BY PollStep
<1> QED
  BY <1>1, PollInit, PTL DEF Spec

(* No call on an entry that poll marked blocks, accept included.           *)
THEOREM MarkedNeverBlocks == Spec => []NeverBlocks
<1>1. PollInv => NeverBlocks
  BY DEF PollInv, MarksReady, NeverBlocks
<1> QED
  BY <1>1, PollInvariant, PTL
-----------------------------------------------------------------------------
(* What each step is to the abstract service.                              *)

EchoMove == Net!NetInv' /\ [Echo!Next]_(Echo!evars)

LEMMA ReplyTyped == ASSUME NEW s \in Seq(Net!Unit) PROVE Reply(s) \in Seq(Net!OutUnit)
<1>1. Net!Unit \subseteq Net!OutUnit
  BY DEF Net!Unit, Net!OutUnit
<1> QED
  BY <1>1, Net!SeqMonotonic DEF Reply

LEMMA ClientMoves ==
  ASSUME Net!NetOK, Net!NetInv, NEW c \in Clients, ClientStep(c)
  PROVE  EchoMove
<1>0. /\ Net!Connect(c) <=> Connect(c)
      /\ Net!Say(c) <=> Say(c)
      /\ Net!Hear(c) <=> Hear(c)
      /\ Net!Leave(c) <=> Leave(c)
  BY DEF Net!Connect, Connect, Net!Say, Say, Net!Hear, Hear, Net!Leave, Leave,
         Net!Message, Message, Net!netVars, netVars, Net!sendVars, sendVars
<1>1. CASE Connect(c)
  <2>1. Net!NetInv' /\ Echo!Connect(c)
    BY <1>0, <1>1, Assumptions, Net!ConnectMoves, SameEcho DEF Echo!Connect
  <2> QED
    BY <2>1 DEF EchoMove, Echo!Next
<1>2. CASE Say(c)
  <2>1. Net!NetInv' /\ Echo!Say(c)
    BY <1>0, <1>2, Assumptions, Net!SayMoves, SameEcho DEF Echo!Say
  <2> QED
    BY <2>1 DEF EchoMove, Echo!Next
<1>3. CASE Hear(c)
  <2>1. Net!NetInv' /\ Echo!Hear(c)
    BY <1>0, <1>3, Assumptions, Net!HearMoves, SameEcho DEF Echo!Hear
  <2> QED
    BY <2>1 DEF EchoMove, Echo!Next
<1>4. CASE Leave(c)
  <2>1. Net!NetInv' /\ Echo!Leave(c)
    BY <1>0, <1>4, Assumptions, Net!LeaveMoves, SameEcho DEF Echo!Leave
  <2> QED
    BY <2>1 DEF EchoMove, Echo!Next
<1> QED
  BY <1>1, <1>2, <1>3, <1>4 DEF ClientStep

(* The send ends the service only by writing to a client that has gone.    *)
LEMMA SendMoves == ASSUME Net!NetOK, Net!NetInv, SendStep, alive PROVE EchoMove
<1>1. /\ Net!NetInv'
      /\ UNCHANGED <<ConnStates, Ended, Sending, up, said, got>>
      /\ UNCHANGED alive \/ (alive' = FALSE /\ \E c \in Ended : ConnStates[c] = "open")
  BY Assumptions, Net!SendMoves, SameSteps, SameEcho
<1>2. CASE UNCHANGED alive
  BY <1>1, <1>2 DEF EchoMove, Echo!evars
<1>3. CASE alive' = FALSE /\ \E c \in Ended : ConnStates[c] = "open"
  <2>1. Echo!Crash
    BY <1>1, <1>3 DEF Echo!Crash
  <2> QED
    BY <1>1, <2>1 DEF EchoMove, Echo!Next
<1> QED
  BY <1>1, <1>2, <1>3

(* To the service, a recv that fails is a read of all that is lost: no     *)
(* reply is sent to a client that has gone.                                *)
LEMMA FailMoves == ASSUME PollInv, Net!NetInv, alive, RecvFails PROVE EchoMove
<1>1. PICK i \in Slots : /\ AtHit(i) /\ ReadsError(slots[i])
                         /\ peer' = [peer EXCEPT ![fdtab[slots[i]]] = "gone"]
                         /\ up' = [up EXCEPT ![fdtab[slots[i]]] = <<>>]
  BY DEF RecvFails
<1>2. UNCHANGED <<fdtab, backlog, down, cst, said, got, pc, cur, obuf, alive>>
  BY DEF RecvFails, clientVars, sendVars
<1>3. PICK f \in Fds, c \in Clients : slots[i] = f /\ fdtab[f] = c /\ c # Free
  BY <1>1, AtFacts
<1>4. pc = "scan" /\ peer[c] = "rst" /\ Net!NetTyped /\ Net!OneHome
  BY <1>1, <1>3, AtFacts DEF ReadsError, PollInv, Net!NetOK
<1>5. \A d \in Clients : peer'[d] = "open" <=> peer[d] = "open"
  BY <1>1, <1>3, <1>4 DEF Net!NetTyped
<1>6. Net!NetInv'
  BY <1>2, <1>4, <1>5 DEF Net!NetInv, Net!Queues
<1>7. UNCHANGED <<ConnStates, Ended, Sending>>
  <2>1. UNCHANGED <<Net!ConnStates, Net!Ended>>
    BY <1>2, Assumptions, Net!ConnKept DEF Net!Ended
  <2>2. Net!Sending' = Net!Sending
    BY <1>2, <1>4, <1>6, Assumptions, Net!SendingIdle, Net!SendingIdleNext
  <2> QED
    BY <2>1, <2>2, SameEcho
<1>8. c \in Ended /\ ConnStates[c] = "open"
  <2>1. cst[c] = "ended" /\ ~ Queues(c)
    BY <1>3, <1>4 DEF Net!NetInv, Net!OneHome, Net!Queues, Queues
  <2> QED
    BY <1>3, <2>1 DEF Ended, ConnStates, ConnState
<1>9. CASE up[c] = <<>>
  <2>1. up' = up
    BY <1>1, <1>3, <1>4, <1>9 DEF Net!NetTyped
  <2> QED
    BY <1>2, <1>6, <1>7, <2>1 DEF EchoMove, Echo!evars
<1>10. CASE up[c] # <<>>
  <2> DEFINE n == Len(up[c])
  <2>1. up[c] \in Seq(Net!Unit)
    BY <1>4 DEF Net!NetTyped
  <2>2. n \in 1 .. Len(up[c]) /\ SubSeq(up[c], n + 1, Len(up[c])) = <<>>
    BY <1>10, <2>1
  <2>3. up' = [up EXCEPT ![c] = SubSeq(@, n + 1, Len(@))]
    BY <1>1, <1>3, <2>2
  <2> HIDE DEF n
  <2>4. Echo!Serve(c)
    BY <1>2, <1>7, <1>8, <2>2, <2>3 DEF Echo!Serve
  <2> QED
    BY <1>6, <2>4 DEF EchoMove, Echo!Next
<1> QED
  BY <1>9, <1>10

LEMMA HandlerMoves ==
  ASSUME PollInv, PollInv', Net!NetInv, alive, HandlerEvent \/ Poll
  PROVE  EchoMove
<1>0. Net!NetOK /\ Net!NetOK'
  BY DEF PollInv
<1>1. CASE Poll \/ ScanEnds \/ ListenFails
  <2>1. /\ pc # "send" /\ pc' # "send"
        /\ UNCHANGED <<fdtab, backlog, up, down, peer, cst, said, got, obuf, alive>>
    BY <1>1 DEF Poll, ScanEnds, ListenFails, netVars, clientVars, sendVars
  <2> QED
    BY <2>1, Assumptions, Net!IdleMoves, SameEcho DEF EchoMove, Echo!evars
<1>2. ASSUME NEW f \in Fds, ListenEvent(f) PROVE EchoMove
  <2>1. /\ pc # "send" /\ pc' # "send" /\ Accepts(f)
        /\ UNCHANGED <<up, down, peer, cst, said, got, obuf, alive>>
    BY <1>2 DEF ListenEvent, netVars, clientVars, sendVars
  <2>2. PICK c \in Clients : Head(backlog) = c
    BY <1>0, <2>1 DEF Accepts, Net!NetOK, Net!NetTyped
  <2>3. Net!NetInv' /\ Echo!Accept(c)
    BY <1>0, <2>1, <2>2, Assumptions, Net!AcceptMoves, SameSteps, SameEcho DEF Echo!Accept
  <2> QED
    BY <2>3 DEF EchoMove, Echo!Next
<1>3. CASE RecvEnds
  <2>1. PICK i \in Slots : /\ AtHit(i) /\ ReadsZero(slots[i])
                           /\ fdtab' = [fdtab EXCEPT ![slots[i]] = Free]
    BY <1>3 DEF RecvEnds
  <2>2. UNCHANGED <<backlog, up, down, peer, cst, said, got, pc, obuf, alive>>
    BY <1>3 DEF RecvEnds, netVars, clientVars, sendVars
  <2>3. PICK f \in Fds, c \in Clients : slots[i] = f /\ fdtab[f] = c /\ pc = "scan"
    BY <2>1, AtFacts
  <2>4. peer[c] # "open"
    BY <2>1, <2>3 DEF ReadsZero
  <2>5. Net!NetInv' /\ Echo!Hangup(c)
    BY <1>0, <2>1, <2>2, <2>3, <2>4, Assumptions, Net!CloseMoves, SameEcho DEF Echo!Hangup
  <2> QED
    BY <2>5 DEF EchoMove, Echo!Next
<1>4. CASE RecvText
  <2>1. PICK i \in Slots :
          /\ AtHit(i)
          /\ \E n \in 1 .. Len(up[fdtab[slots[i]]]) :
               /\ Reads(slots[i], n)
               /\ StartSend(slots[i], Reply(Take(up[fdtab[slots[i]]], n)))
    BY <1>4 DEF RecvText
  <2>2. UNCHANGED <<fdtab, backlog, down, peer, cst, said, got, alive>>
    BY <1>4 DEF RecvText, clientVars
  <2>3. PICK f \in Fds, c \in Clients : slots[i] = f /\ fdtab[f] = c /\ pc = "scan"
    BY <2>1, AtFacts
  <2>4. PICK n \in 1 .. Len(up[c]) :
          /\ up' = [up EXCEPT ![c] = SubSeq(@, n + 1, Len(@))]
          /\ Net!StartSend(f, Reply(SubSeq(up[c], 1, n)))
    BY <2>1, <2>3 DEF Reads, Drop, Take, StartSend, Net!StartSend
  <2>5. PICK r : r = Reply(SubSeq(up[c], 1, n))
    OBVIOUS
  <2>6. r \in Seq(Net!OutUnit)
    <3>1. SubSeq(up[c], 1, n) \in Seq(Net!Unit)
      BY <1>0 DEF Net!NetOK, Net!NetTyped
    <3> QED
      BY <2>5, <3>1, ReplyTyped
  <2>7. /\ Net!NetInv'
        /\ ConnStates[c] = "open"
        /\ IF c \in Ended THEN Sending' = Sending
           ELSE Sending' = [Sending EXCEPT ![c] = @ \o r]
        /\ UNCHANGED <<ConnStates, Ended>>
    <3>1. Net!StartSend(f, r)
      BY <2>4, <2>5
    <3>2. fdtab[f] = c /\ pc = "scan" /\ UNCHANGED <<fdtab, backlog, down, peer, cst>>
      BY <2>2, <2>3
    <3>3. /\ Net!NetInv'
          /\ Net!ConnStates[c] = "open"
          /\ UNCHANGED <<Net!ConnStates, Net!Ended>>
      BY <1>0, <2>6, <3>1, <3>2, Assumptions, Net!ReplyMoves
    <3>4. IF c \in Net!Ended THEN Net!Sending' = Net!Sending
          ELSE Net!Sending' = [Net!Sending EXCEPT ![c] = @ \o r]
      BY <1>0, <2>6, <3>1, <3>2, Assumptions, Net!ReplyMoves
    <3> QED
      BY <3>3, <3>4, SameEcho
  <2>8. Echo!Serve(c)
    BY <2>2, <2>4, <2>5, <2>7 DEF Echo!Serve
  <2> QED
    BY <2>7, <2>8 DEF EchoMove, Echo!Next
<1>5. CASE RecvFails
  BY <1>5, FailMoves
<1> QED
  BY <1>1, <1>2, <1>3, <1>4, <1>5 DEF HandlerEvent

LEMMA EchoInit == Init => Net!NetInv /\ Echo!Init
<1> SUFFICES ASSUME Init PROVE Net!NetInv /\ Echo!Init
  OBVIOUS
<1> USE DEF Init, NetInit
<1>1. Net!NetInv
  BY Assumptions, Net!InitNet, SameSteps
<1>2. ConnStates = [c \in Clients |-> "none"] /\ Ended = {}
  BY DEF ConnStates, ConnState, Ended
<1>3. Sending = [c \in Clients |-> <<>>]
  BY <1>1, Assumptions, Net!SendingIdle, SameEcho
<1> QED
  BY <1>1, <1>2, <1>3 DEF Echo!Init

(* The poll server is an echo service with its own reply, also when the    *)
(* array or the descriptors have run out.                                  *)
THEOREM PollImplementsEcho == Spec => ImplementsEcho
<1>1. ASSUME PollInv, PollInv', Net!NetInv, [Next]_vars PROVE EchoMove
  <2>0. Net!NetOK
    BY <1>1 DEF PollInv
  <2>1. CASE ServerStep
    BY <1>1, <2>0, <2>1, HandlerMoves, SendMoves DEF ServerStep
  <2>2. ASSUME NEW c \in Clients, ClientStep(c) PROVE EchoMove
    BY <1>1, <2>0, <2>2, ClientMoves
  <2>3. CASE UNCHANGED vars
    <3>1. UNCHANGED <<fdtab, backlog, up, down, peer, cst, said, got, pc, cur, obuf, alive>>
      BY <2>3 DEF vars, evVars, netVars, clientVars, sendVars
    <3>2. Net!NetInv'
      BY <1>1, <3>1 DEF Net!NetInv, Net!Queues
    <3>3. UNCHANGED <<ConnStates, Ended, Sending>>
      BY <3>1 DEF ConnStates, ConnState, Queues, Ended, Sending, InHand, Conn
    <3> QED
      BY <3>1, <3>2, <3>3 DEF EchoMove, Echo!evars
  <2> QED
    BY <1>1, <2>1, <2>2, <2>3 DEF Next
<1>2. PollInv /\ PollInv' /\ Net!NetInv /\ [Next]_vars => Net!NetInv' /\ [Echo!Next]_(Echo!evars)
  BY <1>1 DEF EchoMove
<1> QED
  BY <1>2, EchoInit, PollInvariant, PTL DEF Spec, ImplementsEcho, Echo!Spec
=============================================================================
