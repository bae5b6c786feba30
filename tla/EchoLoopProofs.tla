--------------------------- MODULE EchoLoopProofs ---------------------------
(***************************************************************************)
(* The select, epoll and poll servers, each one thread: none makes a call  *)
(* that blocks where the kernel said it would not, and each is an echo     *)
(* service with its own reply, for any clients, descriptors and bounds.    *)
(* First what the steps they share do to descriptors, connections and to   *)
(* the abstract service; then each server with its own table.              *)
(***************************************************************************)
EXTENDS SelectServer, EpollServer, TLAPS, FiniteSetTheorems, SequenceTheorems,
        WellFoundedInduction

Unit == Clients \X Nat \X {"text", "nl"}

NetTyped == /\ fdtab \in [Fds -> Clients \cup {Free}]
            /\ backlog \in Seq(Clients)
            /\ up \in [Clients -> Seq(Unit)]
            /\ peer \in [Clients -> {"open", "fin", "rst", "gone"}]
            /\ cst \in [Clients -> {"new", "on", "ended"}]
            /\ said \in [Clients -> Nat]

(* A connection is in one place: to come, in one place of the queue, or    *)
(* under one descriptor.                                                   *)
OneHome == /\ \A c \in Clients : cst[c] = "new" => ~ Queues(c) /\ \A f \in Fds : fdtab[f] # c
           /\ \A f \in Fds : fdtab[f] # Free => ~ Queues(fdtab[f])
           /\ \A f, g \in Fds : f # g /\ fdtab[f] = fdtab[g] => fdtab[f] = Free
           /\ \A i, j \in DOMAIN backlog : backlog[i] = backlog[j] => i = j

NetOK == NetTyped /\ OneHome

(* What the server sends: bytes of a client, and its own prefix and line   *)
(* end.                                                                    *)
OutUnit == (Clients \cup {Listen}) \X Nat \X {"text", "nl", "head"}

(* The server learns of the end of every client and of no other; a client  *)
(* that stays has its connection, in the queue or under a descriptor; and  *)
(* the reply that is being sent goes to a connection that is open.         *)
NetInv == /\ down \in [Clients -> Seq(OutUnit)]
          /\ obuf \in Seq(OutUnit)
          /\ \A c \in Clients : cst[c] = "ended" <=> peer[c] # "open"
          /\ \A c \in Clients : cst[c] = "on" => Queues(c) \/ \E f \in Fds : fdtab[f] = c
          /\ pc = "send" => cur \in Fds /\ fdtab[cur] \in Clients
-----------------------------------------------------------------------------
(* Numbers and sequences.                                                  *)

(* A nonempty set of numbers has a least one.                              *)
LEMMA LeastExists ==
  ASSUME NEW S, S \subseteq Nat, S # {}
  PROVE  \E j \in S : \A k \in S : j <= k
<1> DEFINE R == {ss \in Nat \X Nat : ss[1] < ss[2]}
<1>1. IsWellFoundedOn(R, Nat)
  BY NatLessThanWellFounded DEF OpToRel
<1>2. PICK j \in S : \A k \in S : ~ (<<k, j>> \in R)
  <2> HIDE DEF R
  <2> QED
    BY <1>1, WFMin
<1>3. ASSUME NEW k \in S PROVE j <= k
  <2>1. j \in Nat /\ k \in Nat /\ <<k, j>> \in Nat \X Nat
    OBVIOUS
  <2>2. ~ (k < j)
    BY <1>2, <2>1
  <2> QED
    BY <2>1, <2>2
<1> QED
  BY <1>3

(* The first and the second part of a sequence.                            *)
LEMMA FrontAndRest ==
  ASSUME NEW S, NEW d \in Seq(S), NEW h \in Seq(S)
  PROVE  /\ d # <<>> => Len(d) \in 1 .. Len(d \o h)
         /\ SubSeq(d \o h, 1, Len(d)) = d
         /\ SubSeq(d \o h, Len(d) + 1, Len(d \o h)) = <<>> \o h
<1> DEFINE z == d \o h
<1> HIDE DEF z
<1>1. /\ z \in Seq(S) /\ Len(z) = Len(d) + Len(h)
      /\ \A i \in 1 .. Len(d) + Len(h) : z[i] = IF i <= Len(d) THEN d[i] ELSE h[i - Len(d)]
  BY ConcatProperties DEF z
<1>2. Len(d) \in Nat /\ Len(h) \in Nat
  OBVIOUS
<1>3. d # <<>> => Len(d) \in 1 .. Len(z)
  BY <1>1, <1>2
<1>4. SubSeq(z, 1, Len(d)) = d
  BY <1>1, <1>2
<1>5. SubSeq(z, Len(d) + 1, Len(z)) = h
  BY <1>1, <1>2
<1>6. <<>> \o h = h
  BY ConcatEmptySeq
<1> QED
  BY <1>3, <1>4, <1>5, <1>6 DEF z

(* A sequence cut in two is joined again behind another.                   *)
LEMMA CutsJoin ==
  ASSUME NEW S, NEW s \in Seq(S), NEW n \in 0 .. Len(s)
  PROVE  /\ Take(s, n) \in Seq(S) /\ Drop(s, n) \in Seq(S)
         /\ \A d \in Seq(S) : (d \o Take(s, n)) \o Drop(s, n) = d \o s
         /\ n = Len(s) => Drop(s, n) = <<>>
<1> DEFINE p == Take(s, n)
           r == Drop(s, n)
<1>1. p \in Seq(S) /\ Len(p) = n /\ \A i \in 1 .. n : p[i] = s[i]
  BY DEF Take
<1>2. r \in Seq(S) /\ Len(r) = Len(s) - n /\ \A i \in 1 .. Len(r) : r[i] = s[i + n]
  BY DEF Drop
<1>3. Len(s) \in Nat /\ n \in Nat /\ n <= Len(s)
  OBVIOUS
<1> HIDE DEF p, r
<1> DEFINE z == p \o r
<1> HIDE DEF z
<1>4. /\ z \in Seq(S) /\ Len(z) = Len(p) + Len(r)
      /\ \A i \in 1 .. Len(p) + Len(r) : z[i] = IF i <= Len(p) THEN p[i] ELSE r[i - Len(p)]
  <2>1. p \in Seq(S) /\ r \in Seq(S)
    BY <1>1, <1>2
  <2> QED
    BY <2>1, ConcatProperties DEF z
<1>5. Len(z) = Len(s) /\ \A i \in 1 .. Len(s) : z[i] = s[i]
  BY <1>1, <1>2, <1>3, <1>4
<1>6. z = s
  BY <1>4, <1>5, SeqEqual
<1>7. ASSUME NEW d \in Seq(S) PROVE (d \o p) \o r = d \o s
  <2>1. (d \o p) \o r = d \o (p \o r)
    BY <1>1, <1>2, ConcatAssociative
  <2> QED
    BY <1>6, <2>1, Zenon DEF z
<1>8. n = Len(s) => r = <<>>
  BY <1>2
<1> QED
  BY <1>1, <1>2, <1>7, <1>8 DEF p, r
-----------------------------------------------------------------------------
(* What the steps do to descriptors and connections, and what stays ready  *)
(* to be read or accepted.                                                 *)

(* accept moves a connection from the head of the queue to a descriptor.   *)
LEMMA HomeAccept ==
  ASSUME NetTyped, OneHome, NEW f \in Fds, Accepts(f), UNCHANGED cst
  PROVE  OneHome'
<1> DEFINE c0 == Head(backlog)
<1>1. /\ backlog # <<>> /\ backlog' = Tail(backlog)
      /\ fdtab[f] = Free /\ fdtab' = [fdtab EXCEPT ![f] = c0]
  BY DEF Accepts
<1>2. /\ c0 \in Clients /\ c0 # Free /\ c0 = backlog[1] /\ 1 \in DOMAIN backlog
      /\ \A i \in DOMAIN backlog' : /\ backlog'[i] = backlog[i + 1]
                                    /\ i + 1 \in DOMAIN backlog /\ i + 1 # 1 /\ i \in Nat
  <2>1. backlog \in Seq(Clients) /\ Len(backlog) \in Nat /\ Len(backlog) # 0
    BY <1>1 DEF NetTyped
  <2>2. c0 = backlog[1] /\ DOMAIN backlog = 1 .. Len(backlog)
    BY <1>1, <2>1
  <2>3. c0 \in Clients /\ 1 \in DOMAIN backlog
    BY <2>1, <2>2
  <2>4. /\ DOMAIN backlog' = 1 .. Len(backlog) - 1
        /\ \A i \in 1 .. Len(backlog) - 1 : backlog'[i] = backlog[i + 1]
    BY <1>1, <2>1
  <2> HIDE DEF c0
  <2> QED
    BY <2>1, <2>2, <2>3, <2>4, NetAssumption
<1> HIDE DEF c0
<1>3. \A c \in Clients : Queues(c)' => Queues(c)
  BY <1>2 DEF Queues
<1>4. Queues(c0) /\ \A i \in DOMAIN backlog' : backlog'[i] # c0
  <2>1. Queues(c0)
    BY <1>2 DEF Queues
  <2>2. ASSUME NEW i \in DOMAIN backlog', backlog'[i] = c0 PROVE FALSE
    <3>1. backlog[i + 1] = backlog[1] /\ i + 1 \in DOMAIN backlog /\ i + 1 # 1
      BY <1>2, <2>2
    <3> QED
      BY <1>2, <3>1 DEF OneHome
  <2> QED
    BY <2>1, <2>2
<1>5. \A g \in Fds : fdtab'[g] = IF g = f THEN c0 ELSE fdtab[g]
  BY <1>1 DEF NetTyped
<1>6. \A g \in Fds : fdtab[g] # c0
  BY <1>2, <1>4 DEF OneHome
<1>7. \A c \in Clients : cst'[c] = "new" => ~ Queues(c)' /\ \A g \in Fds : fdtab'[g] # c
  BY <1>2, <1>3, <1>4, <1>5 DEF OneHome
<1>8. \A g \in Fds : fdtab'[g] # Free => \A i \in DOMAIN backlog' : backlog'[i] # fdtab'[g]
  <2>1. ASSUME NEW g \in Fds, g # f, fdtab[g] # Free
        PROVE  \A i \in DOMAIN backlog' : backlog'[i] # fdtab[g]
    <3>1. ~ Queues(fdtab[g])
      BY <2>1 DEF OneHome
    <3> QED
      BY <1>2, <3>1 DEF Queues
  <2> QED
    BY <1>4, <1>5, <2>1
<1>9. \A g, h \in Fds : g # h /\ fdtab'[g] = fdtab'[h] => fdtab'[g] = Free
  BY <1>5, <1>6 DEF OneHome
<1>10. \A i, j \in DOMAIN backlog' : backlog'[i] = backlog'[j] => i = j
  <2> SUFFICES ASSUME NEW i \in DOMAIN backlog', NEW j \in DOMAIN backlog',
                      backlog'[i] = backlog'[j]
               PROVE  i = j
    OBVIOUS
  <2>1. backlog[i + 1] = backlog[j + 1] /\ i + 1 \in DOMAIN backlog /\ j + 1 \in DOMAIN backlog
    BY <1>2
  <2>2. i + 1 = j + 1
    BY <2>1 DEF OneHome
  <2> QED
    BY <1>2, <2>2
<1> QED
  BY <1>7, <1>8, <1>9, <1>10 DEF OneHome, Queues

(* A client that connects joins the queue.                                 *)
LEMMA HomeConnect ==
  ASSUME NetTyped, OneHome, NEW c \in Clients, Connect(c)
  PROVE  OneHome'
<1>1. /\ backlog' = Append(backlog, c) /\ UNCHANGED fdtab
      /\ cst[c] = "new" /\ cst' = [cst EXCEPT ![c] = "on"]
  BY DEF Connect
<1>2. /\ DOMAIN backlog' = DOMAIN backlog \cup {Len(backlog) + 1}
      /\ Len(backlog) + 1 \notin DOMAIN backlog
      /\ backlog'[Len(backlog) + 1] = c
      /\ \A i \in DOMAIN backlog : backlog'[i] = backlog[i]
  BY <1>1 DEF NetTyped
<1>3. ~ Queues(c) /\ \A g \in Fds : fdtab[g] # c
  BY <1>1 DEF OneHome
<1>4. \A d \in Clients : Queues(d)' <=> Queues(d) \/ d = c
  BY <1>2 DEF Queues
<1>5. \A i, j \in DOMAIN backlog' : backlog'[i] = backlog'[j] => i = j
  BY <1>2, <1>3 DEF OneHome, Queues
<1>6. \A d \in Clients : cst'[d] = "new" => cst[d] = "new" /\ d # c
  BY <1>1 DEF NetTyped
<1>7. \A g \in Fds : fdtab[g] # Free => fdtab[g] \in Clients
  BY DEF NetTyped
<1>8. \A g \in Fds : fdtab'[g] # Free => \A i \in DOMAIN backlog' : backlog'[i] # fdtab'[g]
  <2>1. ASSUME NEW g \in Fds, fdtab[g] # Free
        PROVE  \A i \in DOMAIN backlog' : backlog'[i] # fdtab[g]
    <3>1. ~ Queues(fdtab[g]) /\ fdtab[g] # c
      BY <1>3, <2>1 DEF OneHome
    <3> QED
      BY <1>2, <3>1 DEF Queues
  <2> QED
    BY <1>1, <2>1
<1>9. \A d \in Clients : cst'[d] = "new" => ~ Queues(d)' /\ \A g \in Fds : fdtab'[g] # d
  BY <1>1, <1>4, <1>6 DEF OneHome
<1> QED
  BY <1>1, <1>5, <1>8, <1>9 DEF OneHome, Queues

(* Other steps of the clients, and the send, touch nothing of it.          *)
LEMMA HomeOther ==
  ASSUME NetTyped, OneHome, UNCHANGED <<fdtab, backlog>>,
         \A c \in Clients : cst'[c] = "new" => cst[c] = "new"
  PROVE  OneHome'
BY DEF OneHome, Queues

(* Nothing that the kernel looks at is changed.                            *)
LEMMA SameNet ==
  ASSUME NetOK, UNCHANGED <<fdtab, backlog, up, peer, cst, said>>
  PROVE  NetOK' /\ \A x : IsReady(x)' <=> IsReady(x)
<1>1. NetTyped'
  BY DEF NetOK, NetTyped
<1>2. OneHome'
  BY HomeOther DEF NetOK
<1> QED
  BY <1>1, <1>2 DEF NetOK, IsReady, Readable

(* What is ready stays so while connections, units and ends are added.     *)
LEMMA ReadyStays ==
  ASSUME NetTyped, UNCHANGED fdtab, backlog # <<>> => backlog' # <<>>,
         \A c \in Clients : Readable(c) => Readable(c)'
  PROVE  \A x : IsReady(x) => IsReady(x)'
<1>1. \A g \in Fds : fdtab[g] # Free => fdtab[g] \in Clients
  BY DEF NetTyped
<1> QED
  BY <1>1 DEF IsReady, Readable

LEMMA ClientNet ==
  ASSUME NetOK, NEW c \in Clients, ClientStep(c)
  PROVE  /\ NetOK'
         /\ \A x : IsReady(x) => IsReady(x)'
         /\ UNCHANGED <<fdtab, pc>>
<1>0. NetTyped /\ OneHome
  BY DEF NetOK
<1>1. CASE Connect(c)
  <2>1. OneHome'
    BY <1>0, <1>1, HomeConnect
  <2>2. NetTyped' /\ backlog' # <<>>
    BY <1>0, <1>1 DEF NetTyped, Connect, netVars
  <2>3. \A x : IsReady(x) => IsReady(x)'
    BY <1>0, <1>1, <2>2, ReadyStays DEF Connect, netVars, Readable
  <2> QED
    BY <1>1, <2>1, <2>2, <2>3 DEF Connect, NetOK
<1>2. CASE Say(c)
  <2>1. OneHome'
    BY <1>0, <1>2, HomeOther DEF Say
  <2>2. /\ Message(c, said[c] + 1) \in Seq(Unit) /\ Message(c, said[c] + 1) # <<>>
        /\ said[c] + 1 \in Nat
    BY <1>0 DEF NetTyped, Message, Unit
  <2>3. up[c] \o Message(c, said[c] + 1) \in Seq(Unit) /\ up[c] \o Message(c, said[c] + 1) # <<>>
    BY <1>0, <2>2 DEF NetTyped
  <2>4. up' = [up EXCEPT ![c] = up[c] \o Message(c, said[c] + 1)]
    BY <1>2 DEF Say
  <2>5. NetTyped'
    BY <1>0, <1>2, <2>2, <2>3, <2>4 DEF NetTyped, Say
  <2>6. \A d \in Clients : Readable(d) => Readable(d)'
    BY <1>0, <1>2, <2>3, <2>4 DEF NetTyped, Readable, Say
  <2>7. \A x : IsReady(x) => IsReady(x)'
    BY <1>0, <1>2, <2>6, ReadyStays DEF Say
  <2> QED
    BY <1>2, <2>1, <2>5, <2>7 DEF Say, NetOK
<1>3. CASE Hear(c)
  <2>1. UNCHANGED <<fdtab, backlog, up, peer, cst, said, pc>>
    BY <1>3 DEF Hear
  <2> QED
    BY <2>1, SameNet
<1>4. CASE Leave(c)
  <2>1. cst' = [cst EXCEPT ![c] = "ended"] /\ UNCHANGED <<fdtab, backlog, up, said, pc>>
    BY <1>4 DEF Leave
  <2>2. OneHome'
    BY <1>0, <2>1, HomeOther DEF NetTyped
  <2>3. /\ peer' \in [Clients -> {"open", "fin", "rst", "gone"}]
        /\ \A d \in Clients : peer[d] # "open" => peer'[d] # "open"
    BY <1>0, <1>4 DEF Leave, NetTyped
  <2>4. NetTyped'
    BY <1>0, <2>1, <2>3 DEF NetTyped
  <2>5. \A x : IsReady(x) => IsReady(x)'
    BY <1>0, <2>1, <2>3, ReadyStays DEF Readable
  <2> QED
    BY <2>1, <2>2, <2>4, <2>5 DEF NetOK
<1> QED
  BY <1>1, <1>2, <1>3, <1>4 DEF ClientStep

LEMMA SendNet ==
  ASSUME NetOK, SendStep
  PROVE  /\ NetOK'
         /\ \A x : IsReady(x) => IsReady(x)'
         /\ UNCHANGED fdtab
         /\ pc = "send" /\ pc' \in {"send", "scan"}
<1>0. NetTyped /\ OneHome
  BY DEF NetOK
<1>1. /\ pc = "send" /\ pc' \in {"send", "scan"}
      /\ UNCHANGED <<fdtab, backlog, up, cst, said>>
  BY DEF SendStep, SendOpen, SendClosed, SendReset, SendDone, clientVars, netVars
<1>2. /\ peer' \in [Clients -> {"open", "fin", "rst", "gone"}]
      /\ \A d \in Clients : peer[d] # "open" => peer'[d] # "open"
  BY <1>0 DEF SendStep, SendOpen, SendClosed, SendReset, clientVars, netVars, NetTyped
<1>3. NetTyped'
  BY <1>0, <1>1, <1>2 DEF NetTyped
<1>4. OneHome'
  BY <1>0, <1>1, HomeOther
<1>5. \A x : IsReady(x) => IsReady(x)'
  BY <1>0, <1>1, <1>2, ReadyStays DEF Readable
<1> QED
  BY <1>1, <1>3, <1>4, <1>5 DEF NetOK

LEMMA AcceptNet ==
  ASSUME NetOK, NEW f \in Fds, Accepts(f), UNCHANGED <<up, peer, cst, said>>
  PROVE  /\ NetOK'
         /\ \A x : IsReady(x) /\ x # Listen => IsReady(x)'
         /\ \E c \in Clients : Head(backlog) = c /\ fdtab' = [fdtab EXCEPT ![f] = c]
         /\ fdtab[f] = Free
<1>0. NetTyped /\ OneHome /\ Free \notin Clients
  BY NetAssumption DEF NetOK
<1>1. /\ backlog # <<>> /\ backlog' = Tail(backlog)
      /\ fdtab[f] = Free /\ fdtab' = [fdtab EXCEPT ![f] = Head(backlog)]
  BY DEF Accepts
<1>2. PICK c \in Clients : Head(backlog) = c
  BY <1>0, <1>1 DEF NetTyped
<1>3. NetTyped'
  <2>1. backlog' \in Seq(Clients) /\ fdtab' \in [Fds -> Clients \cup {Free}]
    BY <1>0, <1>1, <1>2 DEF NetTyped
  <2> QED
    BY <1>0, <2>1 DEF NetTyped
<1>4. OneHome'
  BY <1>0, HomeAccept
<1>5. \A g \in Fds : fdtab[g] # Free => fdtab'[g] = fdtab[g]
  BY <1>0, <1>1 DEF NetTyped
<1>6. \A x : IsReady(x) /\ x # Listen => IsReady(x)'
  BY <1>5 DEF IsReady, Readable
<1> QED
  BY <1>1, <1>2, <1>3, <1>4, <1>6 DEF NetOK

(* A read takes units of one connection, and under other descriptors are   *)
(* others.                                                                 *)
LEMMA ReadNet ==
  ASSUME NetOK, NEW f \in Fds, NEW c \in Clients, fdtab[f] = c,
         NEW n \in 1 .. Len(up[c]), up' = [up EXCEPT ![c] = Drop(@, n)],
         UNCHANGED <<fdtab, backlog, peer, cst, said>>
  PROVE  NetOK' /\ \A x : IsReady(x) /\ x # f => IsReady(x)'
<1>0. NetTyped /\ OneHome /\ Free \notin Clients
  BY NetAssumption DEF NetOK
<1>1. up[c] \in Seq(Unit)
  BY <1>0 DEF NetTyped
<1>2. Drop(up[c], n) \in Seq(Unit)
  BY <1>1 DEF Drop
<1>3. NetTyped'
  <2>1. up' \in [Clients -> Seq(Unit)]
    BY <1>0, <1>2 DEF NetTyped
  <2> QED
    BY <1>0, <2>1 DEF NetTyped
<1>4. OneHome'
  BY <1>0, HomeOther
<1>5. \A d \in Clients : d # c => up'[d] = up[d]
  BY <1>0 DEF NetTyped
<1>6. \A x \in Fds : x # f /\ fdtab[x] # Free => fdtab[x] # c /\ fdtab[x] \in Clients
  BY <1>0 DEF OneHome, NetTyped
<1>7. \A x : IsReady(x) /\ x # f => IsReady(x)'
  BY <1>5, <1>6 DEF IsReady, Readable
<1> QED
  BY <1>3, <1>4, <1>7 DEF NetOK

LEMMA CloseNet ==
  ASSUME NetOK, NEW f \in Fds, fdtab' = [fdtab EXCEPT ![f] = Free],
         UNCHANGED <<backlog, up, peer, cst, said>>
  PROVE  NetOK' /\ \A x : IsReady(x) /\ x # f => IsReady(x)'
<1>0. NetTyped /\ OneHome
  BY DEF NetOK
<1>1. \A g \in Fds : fdtab'[g] = IF g = f THEN Free ELSE fdtab[g]
  BY <1>0 DEF NetTyped
<1>2. NetTyped'
  BY <1>0 DEF NetTyped
<1>3. OneHome'
  BY <1>0, <1>1, NetAssumption DEF NetTyped, OneHome, Queues
<1>4. \A x : IsReady(x) /\ x # f => IsReady(x)'
  BY <1>1 DEF IsReady, Readable
<1> QED
  BY <1>2, <1>3, <1>4 DEF NetOK

LEMMA InitNet == NetInit => NetOK /\ NetInv
<1> SUFFICES ASSUME NetInit PROVE NetOK /\ NetInv
  OBVIOUS
<1> USE DEF NetInit
<1>1. backlog \in Seq(Clients) /\ up \in [Clients -> Seq(Unit)]
  OBVIOUS
<1>2. fdtab \in [Fds -> Clients \cup {Free}] /\ peer \in [Clients -> {"open", "fin", "rst", "gone"}]
  OBVIOUS
<1>3. cst \in [Clients -> {"new", "on", "ended"}] /\ said \in [Clients -> Nat]
  OBVIOUS
<1>4. OneHome
  BY NetAssumption DEF OneHome, Queues
<1>5. NetInv
  BY DEF NetInv
<1> QED
  BY <1>1, <1>2, <1>3, <1>4, <1>5 DEF NetOK, NetTyped
-----------------------------------------------------------------------------
(* What the steps are to the abstract service.                             *)

(* No connection changes its state where no queue and no descriptor does.  *)
LEMMA ConnKept ==
  ASSUME UNCHANGED <<fdtab, backlog>>,
         \A c \in Clients : cst'[c] = "new" <=> cst[c] = "new"
  PROVE  ConnStates' = ConnStates
<1>1. ASSUME NEW c \in Clients PROVE ConnState(c)' = ConnState(c)
  BY DEF ConnState, Queues
<1> QED
  BY <1>1 DEF ConnStates

(* One connection changes its state.                                       *)
LEMMA ConnMoves ==
  ASSUME NEW c \in Clients, NEW s, ConnState(c)' = s,
         \A d \in Clients \ {c} : ConnState(d)' = ConnState(d)
  PROVE  ConnStates' = [ConnStates EXCEPT ![c] = s]
BY DEF ConnStates

(* Nothing is in hand for any client outside a send.                       *)
LEMMA NoHand == ASSUME pc # "send", NEW c PROVE InHand(c) = <<>>
BY DEF InHand

(* What is sent to a client whose buffer, socket and reply stay is kept.   *)
LEMMA HandKept ==
  ASSUME UNCHANGED <<fdtab, pc, cur, obuf>>, NEW c, peer'[c] = peer[c]
  PROVE  InHand(c)' = InHand(c)
BY DEF InHand, Conn

LEMMA SendingKept ==
  ASSUME NetInv, UNCHANGED <<fdtab, down, peer, pc, cur, obuf>>
  PROVE  Sending' = Sending
<1>1. ASSUME NEW c \in Clients PROVE InHand(c)' = InHand(c)
  BY HandKept
<1> QED
  BY <1>1 DEF Sending

(* A reply and what is in the kernel are sequences.                        *)
LEMMA HandTyped ==
  ASSUME NetInv, NEW c \in Clients
  PROVE  /\ down[c] \in Seq(OutUnit) /\ InHand(c) \in Seq(OutUnit)
         /\ peer[c] # "open" => InHand(c) = <<>>
BY DEF NetInv, InHand

(* Between sends, what is sent is what the kernel has.                     *)
LEMMA SendingIdle ==
  ASSUME NetInv, pc # "send"
  PROVE  Sending = down
<1>1. ASSUME NEW c \in Clients PROVE down[c] \o InHand(c) = down[c]
  BY NoHand, HandTyped, ConcatEmptySeq
<1> QED
  BY <1>1 DEF Sending, NetInv

LEMMA SendingIdleNext ==
  ASSUME NetInv', pc' # "send"
  PROVE  Sending' = down'
<1>1. ASSUME NEW c \in Clients PROVE down'[c] \o InHand(c)' = down'[c]
  <2>1. InHand(c)' = <<>> /\ down'[c] \in Seq(OutUnit)
    BY DEF InHand, NetInv
  <2> QED
    BY <2>1, ConcatEmptySeq
<1> QED
  BY <1>1 DEF Sending, NetInv

(* Steps between sends that touch no connection.                           *)
LEMMA IdleMoves ==
  ASSUME NetInv, pc # "send", pc' # "send", UNCHANGED <<fdtab, backlog, down, peer, cst, obuf>>
  PROVE  NetInv' /\ UNCHANGED <<ConnStates, Ended, Sending>>
<1>1. NetInv'
  BY DEF NetInv, Queues
<1>2. UNCHANGED <<ConnStates, Ended>>
  BY ConnKept DEF Ended
<1>3. Sending' = Sending
  BY <1>1, SendingIdle, SendingIdleNext
<1> QED
  BY <1>1, <1>2, <1>3

LEMMA ConnectMoves ==
  ASSUME NetOK, NetInv, NEW c \in Clients, Connect(c)
  PROVE  /\ NetInv'
         /\ ConnStates[c] = "none"
         /\ ConnStates' = [ConnStates EXCEPT ![c] = "waiting"]
         /\ UNCHANGED <<Ended, Sending, up, said, got, alive>>
<1>1. /\ cst[c] = "new" /\ cst' = [cst EXCEPT ![c] = "on"] /\ backlog' = Append(backlog, c)
      /\ UNCHANGED <<fdtab, up, down, peer, said, got, pc, cur, obuf, alive>>
  BY DEF Connect, netVars, sendVars
<1>2. \A d \in Clients : cst'[d] = IF d = c THEN "on" ELSE cst[d]
  BY <1>1 DEF NetOK, NetTyped
<1>3. \A d \in Clients : Queues(d)' <=> Queues(d) \/ d = c
  <2>1. /\ DOMAIN backlog' = DOMAIN backlog \cup {Len(backlog) + 1}
        /\ Len(backlog) + 1 \notin DOMAIN backlog
        /\ backlog'[Len(backlog) + 1] = c
        /\ \A i \in DOMAIN backlog : backlog'[i] = backlog[i]
    BY <1>1 DEF NetOK, NetTyped
  <2> QED
    BY <2>1 DEF Queues
<1>4. NetInv'
  <2>1. \A d \in Clients : cst'[d] = "ended" <=> peer'[d] # "open"
    BY <1>1, <1>2 DEF NetInv
  <2>2. \A d \in Clients : cst'[d] = "on" => Queues(d)' \/ \E f \in Fds : fdtab'[f] = d
    BY <1>1, <1>2, <1>3 DEF NetInv
  <2> QED
    BY <1>1, <2>1, <2>2 DEF NetInv, Queues
<1>5. ConnStates[c] = "none"
  BY <1>1 DEF ConnStates, ConnState
<1>6. ConnStates' = [ConnStates EXCEPT ![c] = "waiting"]
  <2>1. ConnState(c)' = "waiting"
    BY <1>2, <1>3 DEF ConnState
  <2>2. ASSUME NEW d \in Clients \ {c} PROVE ConnState(d)' = ConnState(d)
    BY <1>1, <1>2, <1>3 DEF ConnState
  <2> QED
    BY <2>1, <2>2, ConnMoves
<1>7. Ended' = Ended
  BY <1>1, <1>2 DEF Ended
<1>8. Sending' = Sending
  BY <1>1, SendingKept
<1> QED
  BY <1>1, <1>4, <1>5, <1>6, <1>7, <1>8

LEMMA SayMoves ==
  ASSUME NetOK, NetInv, NEW c \in Clients, Say(c)
  PROVE  /\ NetInv'
         /\ ConnStates[c] \in {"waiting", "open"} /\ c \notin Ended
         /\ \E m \in Messages(c) : up' = [up EXCEPT ![c] = @ \o m]
         /\ UNCHANGED <<ConnStates, Ended, Sending, got, alive>>
<1>1. /\ cst[c] = "on" /\ said[c] < MaxMsgs[c]
      /\ up' = [up EXCEPT ![c] = @ \o Message(c, said[c] + 1)]
      /\ UNCHANGED <<fdtab, backlog, down, peer, cst, got, pc, cur, obuf, alive>>
  BY DEF Say, sendVars
<1>2. Message(c, said[c] + 1) \in Messages(c)
  <2>1. said[c] \in Nat /\ MaxMsgs[c] \in Nat
    BY NetAssumption DEF NetOK, NetTyped
  <2>2. said[c] + 1 \in 1 .. MaxMsgs[c]
    BY <1>1, <2>1
  <2> QED
    BY <2>2 DEF Messages
<1>3. NetInv'
  BY <1>1 DEF NetInv, Queues
<1>4. ConnStates[c] \in {"waiting", "open"} /\ c \notin Ended
  BY <1>1 DEF ConnStates, ConnState, NetInv, Ended
<1>5. UNCHANGED <<ConnStates, Ended, Sending>>
  BY <1>1, ConnKept, SendingKept DEF Ended
<1> QED
  BY <1>1, <1>2, <1>3, <1>4, <1>5

LEMMA HearMoves ==
  ASSUME NetOK, NetInv, NEW c \in Clients, Hear(c)
  PROVE  /\ NetInv'
         /\ \E n \in 1 .. Len(Sending[c]) :
              /\ got' = [got EXCEPT ![c] = @ \o SubSeq(Sending[c], 1, n)]
              /\ Sending' = [Sending EXCEPT ![c] = SubSeq(@, n + 1, Len(@))]
         /\ UNCHANGED <<ConnStates, Ended, up, said, alive>>
<1>1. /\ down[c] # <<>> /\ got' = [got EXCEPT ![c] = @ \o down[c]]
      /\ down' = [down EXCEPT ![c] = <<>>]
      /\ UNCHANGED <<fdtab, backlog, up, peer, cst, said, pc, cur, obuf, alive>>
  BY DEF Hear, sendVars
<1>2. NetInv'
  <2>1. down' \in [Clients -> Seq(OutUnit)]
    BY <1>1 DEF NetInv
  <2> QED
    BY <1>1, <2>1 DEF NetInv, Queues
<1>3. UNCHANGED <<ConnStates, Ended>>
  BY <1>1, ConnKept DEF Ended
<1> DEFINE n == Len(down[c])
           d == down[c]
           h == InHand(c)
<1>4. d \in Seq(OutUnit) /\ h \in Seq(OutUnit) /\ d # <<>>
  BY <1>1, HandTyped
<1>5. Sending[c] = d \o h /\ Sending'[c] = <<>> \o h
  <2>1. InHand(c)' = h
    BY <1>1, HandKept
  <2>2. down'[c] = <<>>
    BY <1>1 DEF NetInv
  <2> QED
    BY <2>1, <2>2 DEF Sending
<1>6. \A x \in Clients \ {c} : Sending'[x] = Sending[x]
  <2>1. ASSUME NEW x \in Clients \ {c} PROVE Sending'[x] = Sending[x]
    <3>1. InHand(x)' = InHand(x) /\ down'[x] = down[x]
      BY <1>1, HandKept DEF NetInv
    <3> QED
      BY <3>1 DEF Sending
  <2> QED
    BY <2>1
<1> HIDE DEF d, h
<1>7. /\ Len(d) \in 1 .. Len(d \o h)
      /\ SubSeq(d \o h, 1, Len(d)) = d
      /\ SubSeq(d \o h, Len(d) + 1, Len(d \o h)) = <<>> \o h
  BY <1>4, FrontAndRest
<1>8. n = Len(d)
  BY DEF d
<1>9. got' = [got EXCEPT ![c] = @ \o SubSeq(Sending[c], 1, n)]
  <2>1. SubSeq(Sending[c], 1, n) = down[c]
    BY <1>5, <1>7, <1>8, Zenon DEF d
  <2> QED
    BY <1>1, <2>1, Zenon
<1>10. Sending' = [Sending EXCEPT ![c] = SubSeq(@, n + 1, Len(@))]
  <2>1. Sending'[c] = SubSeq(Sending[c], n + 1, Len(Sending[c]))
    BY <1>5, <1>7, <1>8, Zenon
  <2> HIDE DEF n
  <2> QED
    BY <1>6, <2>1 DEF Sending
<1>11. n \in 1 .. Len(Sending[c])
  BY <1>5, <1>7, <1>8, Zenon
<1> HIDE DEF n
<1> QED
  BY <1>1, <1>2, <1>3, <1>9, <1>10, <1>11

LEMMA LeaveMoves ==
  ASSUME NetOK, NetInv, NEW c \in Clients, Leave(c)
  PROVE  /\ NetInv'
         /\ ConnStates[c] # "none" /\ c \notin Ended
         /\ Ended' = Ended \cup {c}
         /\ Sending' = [Sending EXCEPT ![c] = <<>>]
         /\ UNCHANGED <<ConnStates, up, said, got, alive>>
<1>1. /\ cst[c] = "on" /\ cst' = [cst EXCEPT ![c] = "ended"]
      /\ down' = [down EXCEPT ![c] = <<>>]
      /\ UNCHANGED <<fdtab, backlog, up, said, got, pc, cur, obuf, alive>>
  BY DEF Leave, sendVars
<1>2. /\ peer'[c] # "open" /\ \A d \in Clients \ {c} : peer'[d] = peer[d]
      /\ \A d \in Clients : cst'[d] = IF d = c THEN "ended" ELSE cst[d]
  BY <1>1 DEF NetOK, Leave, NetTyped
<1>3. NetInv'
  <2>1. \A d \in Clients : cst'[d] = "ended" <=> peer'[d] # "open"
    BY <1>2 DEF NetInv
  <2>2. \A d \in Clients : cst'[d] = "on" => Queues(d)' \/ \E f \in Fds : fdtab'[f] = d
    BY <1>1, <1>2 DEF NetInv, Queues
  <2>3. down' \in [Clients -> Seq(OutUnit)]
    BY <1>1 DEF NetInv
  <2> QED
    BY <1>1, <2>1, <2>2, <2>3 DEF NetInv
<1>4. ConnStates[c] # "none" /\ c \notin Ended
  BY <1>1 DEF ConnStates, ConnState, Ended
<1>5. Ended' = Ended \cup {c}
  BY <1>2 DEF Ended
<1>6. Sending' = [Sending EXCEPT ![c] = <<>>]
  <2>1. Sending'[c] = <<>>
    <3>1. down'[c] = <<>> /\ InHand(c)' = <<>>
      BY <1>1, <1>2 DEF NetInv, InHand
    <3> QED
      BY <3>1 DEF Sending
  <2>2. ASSUME NEW d \in Clients \ {c} PROVE Sending'[d] = Sending[d]
    <3>1. InHand(d)' = InHand(d) /\ down'[d] = down[d]
      BY <1>1, <1>2, HandKept DEF NetInv
    <3> QED
      BY <3>1 DEF Sending
  <2> QED
    BY <2>1, <2>2 DEF Sending
<1>7. ConnStates' = ConnStates
  BY <1>1, <1>2, ConnKept
<1> QED
  BY <1>1, <1>3, <1>4, <1>5, <1>6, <1>7

(* accept opens the connection at the head of the queue.                   *)
LEMMA AcceptMoves ==
  ASSUME NetOK, NetOK', NetInv, NEW f \in Fds, Accepts(f),
         NEW c \in Clients, Head(backlog) = c, pc # "send", pc' # "send",
         UNCHANGED <<down, peer, cst, obuf>>
  PROVE  /\ NetInv'
         /\ ConnStates[c] = "waiting"
         /\ ConnStates' = [ConnStates EXCEPT ![c] = "open"]
         /\ UNCHANGED <<Ended, Sending>>
<1>1. /\ backlog # <<>> /\ backlog' = Tail(backlog)
      /\ fdtab[f] = Free /\ fdtab' = [fdtab EXCEPT ![f] = c]
  BY DEF Accepts
<1>2. /\ backlog \in Seq(Clients) /\ c = backlog[1] /\ 1 \in DOMAIN backlog
      /\ DOMAIN backlog' = 1 .. Len(backlog) - 1 /\ DOMAIN backlog = 1 .. Len(backlog)
      /\ \A i \in 1 .. Len(backlog) - 1 : backlog'[i] = backlog[i + 1]
      /\ Len(backlog) \in Nat
  <2>1. backlog \in Seq(Clients) /\ Len(backlog) \in Nat /\ Len(backlog) # 0
    BY <1>1 DEF NetOK, NetTyped
  <2>2. c = backlog[1] /\ 1 \in DOMAIN backlog /\ DOMAIN backlog = 1 .. Len(backlog)
    BY <1>1, <2>1
  <2>3. /\ DOMAIN backlog' = 1 .. Len(backlog) - 1
        /\ \A i \in 1 .. Len(backlog) - 1 : backlog'[i] = backlog[i + 1]
    BY <1>1, <2>1
  <2> QED
    BY <2>1, <2>2, <2>3
<1>3. Queues(c)
  BY <1>2 DEF Queues
<1>4. \A g \in Fds : fdtab'[g] = IF g = f THEN c ELSE fdtab[g]
  BY <1>1 DEF NetOK, NetTyped
<1>5. ~ Queues(c)'
  BY <1>2, <1>4, NetAssumption DEF NetOK, OneHome, Queues
<1>6. \A d \in Clients \ {c} : Queues(d)' <=> Queues(d)
  <2>1. ASSUME NEW d \in Clients \ {c}, NEW i \in DOMAIN backlog, backlog[i] = d
        PROVE  \E j \in DOMAIN backlog' : backlog'[j] = d
    <3>1. i # 1 /\ i - 1 \in 1 .. Len(backlog) - 1
      BY <1>2, <2>1
    <3>2. backlog'[i - 1] = d
      BY <1>2, <2>1, <3>1
    <3> QED
      BY <1>2, <3>1, <3>2
  <2>2. ASSUME NEW d \in Clients \ {c}, NEW i \in DOMAIN backlog', backlog'[i] = d
        PROVE  \E j \in DOMAIN backlog : backlog[j] = d
    BY <1>2, <2>2
  <2> QED
    BY <2>1, <2>2 DEF Queues
<1>7. \A d \in Clients \ {c} : (\E g \in Fds : fdtab'[g] = d) <=> (\E g \in Fds : fdtab[g] = d)
  BY <1>1, <1>4, NetAssumption
<1>8. \E g \in Fds : fdtab'[g] = c
  BY <1>4
<1>9. NetInv'
  <2>1. \A d \in Clients : cst'[d] = "on" => Queues(d)' \/ \E g \in Fds : fdtab'[g] = d
    BY <1>6, <1>7, <1>8 DEF NetInv
  <2> QED
    BY <2>1 DEF NetInv
<1>10. cst[c] # "new"
  BY <1>2, <1>3 DEF NetOK, OneHome
<1>11. ConnStates[c] = "waiting"
  BY <1>2, <1>3, <1>10 DEF ConnStates, ConnState
<1>12. ConnStates' = [ConnStates EXCEPT ![c] = "open"]
  <2>1. ConnState(c)' = "open"
    BY <1>5, <1>8, <1>10 DEF ConnState
  <2>2. ASSUME NEW d \in Clients \ {c} PROVE ConnState(d)' = ConnState(d)
    <3>1. /\ Queues(d)' <=> Queues(d)
          /\ (\E g \in Fds : fdtab'[g] = d) <=> (\E g \in Fds : fdtab[g] = d)
      BY <1>6, <1>7
    <3> QED
      BY <3>1 DEF ConnState
  <2> QED
    BY <1>2, <2>1, <2>2, ConnMoves
<1>13. Ended' = Ended /\ Sending' = Sending
  BY <1>9, SendingIdle, SendingIdleNext DEF Ended
<1> QED
  BY <1>9, <1>11, <1>12, <1>13

(* close ends the connection of a client that has gone.                    *)
LEMMA CloseMoves ==
  ASSUME NetOK, NetInv, NEW f \in Fds, NEW c \in Clients, fdtab[f] = c,
         peer[c] # "open", fdtab' = [fdtab EXCEPT ![f] = Free], pc # "send", pc' # "send",
         UNCHANGED <<backlog, down, peer, cst, obuf>>
  PROVE  /\ NetInv'
         /\ ConnStates[c] = "open" /\ c \in Ended
         /\ ConnStates' = [ConnStates EXCEPT ![c] = "closed"]
         /\ UNCHANGED <<Ended, Sending>>
<1>1. c # Free /\ cst[c] = "ended" /\ ~ Queues(c)
  BY NetAssumption DEF NetOK, NetInv, OneHome
<1>2. \A g \in Fds : fdtab'[g] = IF g = f THEN Free ELSE fdtab[g]
  BY DEF NetOK, NetTyped
<1>3. \A d \in Clients : Queues(d)' <=> Queues(d)
  BY DEF Queues
<1>4. \A d \in Clients \ {c} : (\E g \in Fds : fdtab'[g] = d) <=> (\E g \in Fds : fdtab[g] = d)
  BY <1>2, NetAssumption
<1>5. \A g \in Fds : fdtab'[g] # c
  BY <1>1, <1>2 DEF NetOK, OneHome
<1>6. NetInv'
  <2>1. \A d \in Clients : cst'[d] = "on" => Queues(d)' \/ \E g \in Fds : fdtab'[g] = d
    BY <1>1, <1>3, <1>4 DEF NetInv
  <2> QED
    BY <2>1 DEF NetInv
<1>7. ConnStates[c] = "open" /\ c \in Ended
  BY <1>1 DEF ConnStates, ConnState, Ended
<1>8. ConnStates' = [ConnStates EXCEPT ![c] = "closed"]
  <2>1. ConnState(c)' = "closed"
    BY <1>1, <1>3, <1>5 DEF ConnState
  <2>2. ASSUME NEW d \in Clients \ {c} PROVE ConnState(d)' = ConnState(d)
    <3>1. /\ Queues(d)' <=> Queues(d)
          /\ (\E g \in Fds : fdtab'[g] = d) <=> (\E g \in Fds : fdtab[g] = d)
      BY <1>3, <1>4
    <3> QED
      BY <3>1 DEF ConnState
  <2> QED
    BY <1>1, <2>1, <2>2, ConnMoves
<1>9. Ended' = Ended /\ Sending' = Sending
  BY <1>6, SendingIdle, SendingIdleNext DEF Ended
<1> QED
  BY <1>6, <1>7, <1>8, <1>9

(* A read takes units of an open connection, and its reply is sent.        *)
LEMMA ReplyMoves ==
  ASSUME NetOK, NetInv, NEW f \in Fds, NEW c \in Clients, fdtab[f] = c,
         NEW s \in Seq(OutUnit), pc = "scan", StartSend(f, s),
         UNCHANGED <<fdtab, backlog, down, peer, cst>>
  PROVE  /\ NetInv'
         /\ ConnStates[c] = "open"
         /\ IF c \in Ended THEN Sending' = Sending
            ELSE Sending' = [Sending EXCEPT ![c] = @ \o s]
         /\ UNCHANGED <<ConnStates, Ended>>
<1>1. pc' = "send" /\ cur' = f /\ obuf' = s
  BY DEF StartSend
<1>2. c # Free /\ ~ Queues(c) /\ cst[c] # "new"
  BY NetAssumption DEF NetOK, OneHome
<1>3. NetInv'
  BY <1>1 DEF NetInv, Queues
<1>4. ConnStates[c] = "open"
  BY <1>2 DEF ConnStates, ConnState
<1>5. UNCHANGED <<ConnStates, Ended>>
  BY ConnKept DEF Ended
<1>6. ASSUME NEW d \in Clients \ {c} PROVE Sending'[d] = Sending[d]
  <2>1. InHand(d) = <<>> /\ InHand(d)' = <<>>
    BY <1>1 DEF InHand, Conn
  <2> QED
    BY <2>1 DEF Sending
<1>7. Sending[c] = down[c]
  BY SendingIdle
<1>8. CASE c \in Ended
  <2>1. InHand(c) = <<>> /\ InHand(c)' = <<>>
    BY <1>8 DEF InHand, NetInv, Ended
  <2>2. Sending'[c] = Sending[c]
    BY <2>1 DEF Sending
  <2> QED
    BY <1>3, <1>4, <1>5, <1>6, <1>8, <2>2 DEF Sending
<1>9. CASE c \notin Ended
  <2>1. InHand(c)' = s
    BY <1>1, <1>9 DEF InHand, NetInv, Ended, Conn
  <2>2. Sending'[c] = down[c] \o s
    BY <2>1 DEF Sending
  <2>3. Sending'[c] = Sending[c] \o s
    BY <1>7, <2>2, Zenon
  <2>4. Sending' = [Sending EXCEPT ![c] = @ \o s]
    BY <1>6, <2>3 DEF Sending
  <2> QED
    BY <1>3, <1>4, <1>5, <1>9, <2>4
<1> QED
  BY <1>8, <1>9

(* The bytes of a reply are sent whatever the kernel takes of them at a    *)
(* time; the service ends by writing to a client that has gone.            *)
LEMMA SendMoves ==
  ASSUME NetOK, NetInv, SendStep
  PROVE  /\ NetInv'
         /\ UNCHANGED <<ConnStates, Ended, Sending, up, said, got>>
         /\ \/ UNCHANGED alive
            \/ alive' = FALSE /\ \E c \in Ended : ConnStates[c] = "open"
<1>0. PICK c \in Clients : Conn = c
  BY DEF SendStep, SendOpen, SendClosed, SendReset, NetInv, Conn
<1>1. /\ pc = "send" /\ UNCHANGED <<fdtab, backlog, cst, up, said, got>>
  BY DEF SendStep, SendOpen, SendClosed, SendReset, clientVars, netVars
<1>2. cur \in Fds /\ fdtab[cur] = c /\ c # Free
  BY <1>0, <1>1, NetAssumption DEF NetInv, Conn
<1>3. UNCHANGED <<ConnStates, Ended>>
  BY <1>1, ConnKept DEF Ended
<1>4. CASE SendOpen
  <2> DEFINE n == Least(Len(obuf), Cap - Len(down[c]))
  <2>1. /\ down' = [down EXCEPT ![c] = @ \o Take(obuf, n)]
        /\ UNCHANGED <<peer, alive>> /\ peer[c] = "open" /\ Len(down[c]) < Cap
        /\ IF n = Len(obuf) THEN SendDone ELSE obuf' = Drop(obuf, n) /\ UNCHANGED <<pc, cur>>
    BY <1>0, <1>4 DEF SendOpen
  <2>2. n \in 0 .. Len(obuf)
    BY <1>2, <2>1, NetAssumption DEF Least, NetInv
  <2> HIDE DEF n
  <2>3. /\ Take(obuf, n) \in Seq(OutUnit) /\ Drop(obuf, n) \in Seq(OutUnit)
        /\ \A d \in Seq(OutUnit) : (d \o Take(obuf, n)) \o Drop(obuf, n) = d \o obuf
        /\ n = Len(obuf) => Drop(obuf, n) = <<>>
    BY <2>2, CutsJoin DEF NetInv
  <2>4. down'[c] = down[c] \o Take(obuf, n) /\ down'[c] \in Seq(OutUnit)
    BY <1>2, <2>1, <2>3, ConcatProperties DEF NetInv
  <2>5. \A d \in Clients \ {c} : down'[d] = down[d]
    BY <2>1 DEF NetInv
  <2>6. InHand(c) = obuf /\ InHand(c)' = Drop(obuf, n)
    BY <1>1, <1>2, <2>1, <2>3 DEF InHand, Conn, SendDone
  <2>7. ASSUME NEW d \in Clients \ {c} PROVE InHand(d) = <<>> /\ InHand(d)' = <<>>
    BY <1>1, <1>2, <2>1 DEF InHand, Conn, SendDone
  <2>8. NetInv'
    <3>1. down' \in [Clients -> Seq(OutUnit)]
      BY <2>1, <2>4 DEF NetInv
    <3>2. obuf' \in Seq(OutUnit) /\ (pc' = "send" => cur' = cur)
      BY <2>1, <2>3 DEF SendDone
    <3> QED
      BY <1>1, <2>1, <3>1, <3>2 DEF NetInv, Queues
  <2>9. Sending'[c] = Sending[c]
    <3>1. Sending[c] = down[c] \o obuf
      BY <1>2, <2>6 DEF Sending
    <3>2. Sending'[c] = (down[c] \o Take(obuf, n)) \o Drop(obuf, n)
      BY <1>2, <2>4, <2>6, Zenon DEF Sending
    <3>3. down[c] \in Seq(OutUnit)
      BY <1>2 DEF NetInv
    <3> QED
      BY <2>3, <3>1, <3>2, <3>3, Zenon
  <2>10. \A d \in Clients \ {c} : Sending'[d] = Sending[d]
    BY <2>5, <2>7 DEF Sending
  <2>11. Sending' = Sending
    BY <2>9, <2>10 DEF Sending
  <2> QED
    BY <1>1, <1>3, <2>1, <2>8, <2>11
<1>5. CASE SendClosed \/ SendReset
  <2>1. /\ peer[c] \in {"fin", "rst"} /\ UNCHANGED down
        /\ peer' \in {peer, [peer EXCEPT ![c] = "rst"]}
        /\ SendDone \/ UNCHANGED <<pc, cur, obuf>>
        /\ UNCHANGED alive \/ alive' = FALSE
    BY <1>0, <1>5 DEF SendClosed, SendReset, sendVars, netVars
  <2>2. /\ peer'[c] # "open" /\ \A d \in Clients \ {c} : peer'[d] = peer[d]
    BY <1>2, <2>1 DEF NetOK, NetTyped
  <2>3. ASSUME NEW d \in Clients PROVE InHand(d) = <<>> /\ InHand(d)' = <<>>
    BY <1>1, <1>2, <2>1, <2>2 DEF InHand, Conn, SendDone
  <2>4. Sending' = Sending
    BY <2>1, <2>3 DEF Sending
  <2>5. NetInv'
    <3>1. \A d \in Clients : cst'[d] = "ended" <=> peer'[d] # "open"
      BY <1>1, <1>2, <2>1, <2>2 DEF NetInv
    <3>2. obuf' \in {obuf, <<>>} /\ (pc' = "send" => cur' = cur)
      BY <2>1 DEF SendDone
    <3>3. obuf' \in Seq(OutUnit)
      <4>1. obuf \in Seq(OutUnit) /\ <<>> \in Seq(OutUnit)
        BY DEF NetInv
      <4> QED
        BY <3>2, <4>1, Zenon
    <3> QED
      BY <1>1, <2>1, <3>1, <3>2, <3>3 DEF NetInv, Queues
  <2>6. c \in Ended /\ ConnStates[c] = "open"
    BY <1>2, <2>1 DEF NetOK, Ended, NetInv, ConnStates, ConnState, OneHome, Conn
  <2> QED
    BY <1>1, <1>3, <2>1, <2>4, <2>5, <2>6
<1> QED
  BY <1>4, <1>5 DEF SendStep
-----------------------------------------------------------------------------
(* The select server.                                                      *)

(* The array has a slot for each descriptor and one for the listening one: *)
(* max_fdset is what select can take, and no process has more descriptors. *)
RoomForAll == IsFiniteSet(Fds) /\ Cardinality(Fds) < Size

SelTyped == /\ fd_array \in [Slots -> Fds \cup {Listen, Empty}]
            /\ rfds \subseteq Fds \cup {Listen}
            /\ pos \in Nat \ {0}

(* The listening descriptor is in the first slot: a pass accepts before it *)
(* closes anything, so what accept returns has no bit from select.         *)
ListenFirst == /\ fd_array[1] = Listen
               /\ pc = "send" => pos > 1
               /\ pc = "scan" /\ pos = 1 => \A f \in rfds \cap Fds : fdtab[f] # Free

(* What is still to be visited is ready, also while a send blocks.         *)
HitsReady == pc \in {"scan", "send"} => \A i \in Hits : IsReady(fd_array[i])

SelInv == NetOK /\ SelTyped /\ SlotsAreOpen /\ ListenFirst /\ HitsReady

(* With room for all, a descriptor that is accepted finds an empty slot.   *)
LEMMA SlotForNew ==
  ASSUME SelTyped, SlotsAreOpen, RoomForAll, NEW f \in Fds, fdtab[f] = Free
  PROVE  \E j \in Slots : fd_array[j] = Empty
<1>1. Size \in Nat /\ Empty \notin Fds \cup {Listen} /\ Listen \notin Fds
  BY SelectAssumption, NetAssumption
<1> SUFFICES ASSUME \A j \in Slots : fd_array[j] # Empty PROVE FALSE
  OBVIOUS
<1> DEFINE T == (Fds \ {f}) \cup {Listen}
<1>2. fd_array \in [Slots -> T]
  BY DEF SelTyped, SlotsAreOpen
<1>3. IsFiniteSet(Slots) /\ Cardinality(Slots) = Size
  BY <1>1, FS_Interval DEF Slots
<1>4. IsFiniteSet(Fds \ {f}) /\ Cardinality(Fds \ {f}) = Cardinality(Fds) - 1
  BY FS_RemoveElement DEF RoomForAll
<1>5. IsFiniteSet(T) /\ Cardinality(T) = Cardinality(Fds)
  <2>1. Cardinality(Fds) \in Nat
    BY FS_CardinalityType DEF RoomForAll
  <2>2. Listen \notin Fds \ {f}
    BY <1>1
  <2>3. IsFiniteSet(T) /\ Cardinality(T) = Cardinality(Fds \ {f}) + 1
    BY <1>4, <2>2, FS_AddElement
  <2> QED
    BY <1>4, <2>1, <2>3
<1>6. Cardinality(T) < Cardinality(Slots)
  BY <1>3, <1>5 DEF RoomForAll
<1> HIDE DEF T
<1>7. \E i, j \in Slots : i # j /\ fd_array[i] = fd_array[j]
  BY <1>2, <1>3, <1>5, <1>6, FS_PigeonHole
<1> QED
  BY <1>7 DEF SlotsAreOpen

(* So the new descriptor is in one slot, which was empty.                  *)
LEMMA Entered ==
  ASSUME SelTyped, SlotsAreOpen, RoomForAll, NEW f \in Fds, fdtab[f] = Free, Enter(f)
  PROVE  \E j \in Slots : fd_array[j] = Empty /\ fd_array' = [fd_array EXCEPT ![j] = f]
<1> DEFINE empty == {j \in Slots : fd_array[j] = Empty}
<1>1. empty \subseteq Nat /\ empty # {}
  BY SlotForNew DEF Slots
<1>2. \E j \in empty : \A k \in empty : j <= k
  BY <1>1, LeastExists
<1> DEFINE j == CHOOSE j \in empty : \A k \in empty : j <= k
<1>3. j \in empty
  BY <1>2
<1>4. fd_array' = [fd_array EXCEPT ![j] = f]
  BY <1>1 DEF Enter
<1> HIDE DEF j
<1> QED
  BY <1>3, <1>4

(* What is ready stays so while the thread sends and while clients act.    *)
LEMMA Undisturbed ==
  ASSUME SelInv, NetOK', UNCHANGED <<fdtab, selVars>>,
         UNCHANGED pc \/ (pc = "send" /\ pc' = "scan"),
         \A x : IsReady(x) => IsReady(x)'
  PROVE  SelInv'
<1>1. SelTyped'
  BY DEF SelInv, SelTyped, selVars
<1>2. SlotsAreOpen' /\ ListenFirst'
  BY DEF SelInv, SlotsAreOpen, ListenFirst, selVars
<1>3. HitsReady'
  BY DEF SelInv, HitsReady, Hits, selVars
<1> QED
  BY <1>1, <1>2, <1>3 DEF SelInv

(* select reports what is ready.                                           *)
LEMMA SelectKeeps == ASSUME SelInv, Select PROVE SelInv'
<1>1. /\ rfds' = {x \in {fd_array[i] : i \in Slots} : IsReady(x)}
      /\ pos' = 1 /\ pc' = "scan"
      /\ UNCHANGED <<fdtab, backlog, up, peer, cst, said, fd_array>>
  BY DEF Select, netVars, clientVars
<1>2. NetOK' /\ \A x : IsReady(x)' <=> IsReady(x)
  BY <1>1, SameNet DEF SelInv
<1>3. SelTyped'
  BY <1>1 DEF SelInv, SelTyped, IsReady
<1>4. SlotsAreOpen'
  BY <1>1 DEF SelInv, SlotsAreOpen
<1>5. ListenFirst'
  BY <1>1, NetAssumption DEF SelInv, ListenFirst, IsReady
<1>6. HitsReady'
  <2>1. \A i \in Hits' : fd_array'[i] \in rfds'
    BY DEF Hits
  <2>2. \A i \in Hits' : IsReady(fd_array[i])
    BY <1>1, <2>1
  <2> QED
    BY <1>1, <2>2 DEF HitsReady, IsReady, Readable
<1> QED
  BY <1>2, <1>3, <1>4, <1>5, <1>6 DEF SelInv

(* The pass ends.                                                          *)
LEMMA ScanEndKeeps == ASSUME SelInv, ScanEnds PROVE SelInv'
<1>1. pc' = "wait" /\ UNCHANGED <<fdtab, backlog, up, peer, cst, said, fd_array, rfds, pos>>
  BY DEF ScanEnds, netVars, clientVars, selVars
<1>2. NetOK' /\ SelTyped'
  BY <1>1, SameNet DEF SelInv, SelTyped
<1>3. SlotsAreOpen' /\ ListenFirst' /\ HitsReady'
  BY <1>1 DEF SelInv, SlotsAreOpen, ListenFirst, HitsReady
<1> QED
  BY <1>2, <1>3 DEF SelInv

(* A slot that is visited is behind pos afterwards.                        *)
LEMMA AtFacts ==
  ASSUME SelInv, NEW i \in Slots, AtHit(i)
  PROVE  /\ pc = "scan" /\ i \in Nat /\ pos <= i /\ pos > 0 /\ pos \in Nat /\ i <= Size
         /\ fd_array[i] \in rfds /\ IsReady(fd_array[i])
         /\ fd_array[i] # Listen => fd_array[i] \in Fds /\ fdtab[fd_array[i]] \in Clients
         /\ fd_array[i] = Listen => i = 1 /\ pos = 1
<1>1. Size \in Nat /\ 1 \in Slots /\ Listen # Empty /\ Free \notin Clients
  BY SelectAssumption, NetAssumption DEF Slots
<1>2. pc = "scan" /\ i \in Hits /\ pos \in Nat /\ pos > 0
  BY DEF AtHit, SelInv, SelTyped
<1>3. i \in Nat /\ pos <= i /\ i <= Size /\ fd_array[i] \in rfds
  BY <1>1, <1>2 DEF Hits
<1>4. IsReady(fd_array[i])
  BY <1>2 DEF SelInv, HitsReady
<1>5. fd_array[i] = Listen => i = 1
  BY <1>1 DEF SelInv, SlotsAreOpen, ListenFirst
<1>6. fd_array[i] # Listen => fd_array[i] \in Fds /\ fdtab[fd_array[i]] \in Clients
  BY <1>4 DEF IsReady, SelInv, NetOK, NetTyped
<1> QED
  BY <1>2, <1>3, <1>4, <1>5, <1>6

(* accept fails: the pass goes on.                                         *)
LEMMA ListenFailsKeeps == ASSUME SelInv, ListenFails PROVE SelInv'
<1>1. PICK i \in Slots : AtHit(i) /\ pos' = i + 1
  BY DEF ListenFails
<1>2. UNCHANGED <<fdtab, backlog, up, peer, cst, said, pc, fd_array, rfds>>
  BY DEF ListenFails, netVars, clientVars
<1>3. /\ pc = "scan" /\ i \in Nat /\ pos <= i /\ pos > 0 /\ pos \in Nat
  BY <1>1, AtFacts
<1>4. NetOK'
  BY <1>2, SameNet DEF SelInv
<1>5. SelTyped' /\ SlotsAreOpen' /\ ListenFirst'
  BY <1>1, <1>2, <1>3 DEF SelInv, SelTyped, SlotsAreOpen, ListenFirst
<1>6. \A k \in Hits' : k \in Hits
  BY <1>1, <1>2, <1>3, SelectAssumption DEF Hits
<1>7. HitsReady'
  BY <1>2, <1>3, <1>6 DEF SelInv, HitsReady, IsReady, Readable
<1> QED
  BY <1>4, <1>5, <1>7 DEF SelInv

(* accept returns f, which has no bit, and the others keep theirs.         *)
LEMMA ListenKeeps ==
  ASSUME SelInv, RoomForAll, NEW f \in Fds, ListenFunc(f)
  PROVE  SelInv'
<1>1. PICK i \in Slots : /\ AtHit(i) /\ fd_array[i] = Listen
                         /\ Accepts(f) /\ Enter(f) /\ pos' = i + 1
  BY DEF ListenFunc
<1>2. UNCHANGED <<up, peer, cst, said, pc, rfds>>
  BY DEF ListenFunc, netVars, clientVars
<1>3. pc = "scan" /\ i = 1 /\ pos = 1 /\ pos' = 2
  BY <1>1, AtFacts
<1>4. /\ NetOK' /\ fdtab[f] = Free
      /\ \A x : IsReady(x) /\ x # Listen => IsReady(x)'
  BY <1>1, <1>2, AcceptNet DEF SelInv
<1>5. PICK j \in Slots : fd_array[j] = Empty /\ fd_array' = [fd_array EXCEPT ![j] = f]
  BY <1>1, <1>4, Entered DEF SelInv
<1>6. PICK c \in Clients : fdtab' = [fdtab EXCEPT ![f] = c]
  BY <1>1, <1>2, AcceptNet DEF SelInv
<1>7. /\ f # Empty /\ f # Listen /\ Listen # Empty /\ Size \in Nat /\ Empty \notin Fds
      /\ c # Free
  BY SelectAssumption, NetAssumption
<1>8. /\ \A g \in Fds : fdtab'[g] = IF g = f THEN c ELSE fdtab[g]
      /\ \A k \in Slots : fd_array'[k] = IF k = j THEN f ELSE fd_array[k]
  BY <1>5, <1>6 DEF SelInv, SelTyped, NetOK, NetTyped
<1>9. SelTyped'
  BY <1>2, <1>3, <1>5 DEF SelInv, SelTyped
<1>11. \A k \in Slots : fd_array[k] # f
  BY <1>4 DEF SelInv, SlotsAreOpen
<1>12. SlotsAreOpen'
  <2>1. \A g \in Fds : fdtab'[g] # Free <=> \E k \in Slots : fd_array'[k] = g
    BY <1>5, <1>7, <1>8 DEF SelInv, SlotsAreOpen
  <2>2. \A k, l \in Slots : fd_array'[k] = fd_array'[l] /\ k # l => fd_array'[k] = Empty
    BY <1>8, <1>11 DEF SelInv, SlotsAreOpen
  <2> QED
    BY <2>1, <2>2 DEF SlotsAreOpen
<1>13. ListenFirst'
  <2>1. j # 1
    BY <1>5, <1>7 DEF SelInv, ListenFirst
  <2>2. fd_array'[1] = Listen
    BY <1>3, <1>8, <2>1 DEF SelInv, ListenFirst
  <2> QED
    BY <1>2, <1>3, <2>2 DEF ListenFirst
<1>14. f \notin rfds
  BY <1>3, <1>4 DEF SelInv, ListenFirst
<1>15. HitsReady'
  <2> SUFFICES ASSUME NEW k \in Hits' PROVE IsReady(fd_array[k])'
    BY DEF HitsReady
  <2>1. k \in Slots /\ k > 1 /\ fd_array'[k] \in rfds
    BY <1>2, <1>3, <1>7 DEF Hits, Slots
  <2>2. fd_array'[k] = fd_array[k] /\ fd_array[k] # f /\ k \in Hits
    BY <1>3, <1>7, <1>8, <1>11, <1>14, <2>1 DEF Hits, Slots
  <2>3. PICK y : y = fd_array[k]
    OBVIOUS
  <2>4. IsReady(y)
    BY <1>3, <2>2, <2>3 DEF SelInv, HitsReady
  <2>5. y # Listen
    <3>1. fd_array[1] = Listen /\ 1 \in Slots /\ k # 1
      BY <1>7, <2>1 DEF SelInv, ListenFirst, Slots
    <3> QED
      BY <1>7, <2>1, <2>3, <3>1 DEF SelInv, SlotsAreOpen
  <2>6. IsReady(y)'
    BY <1>4, <2>4, <2>5
  <2> QED
    BY <2>2, <2>3, <2>6 DEF IsReady
<1> QED
  BY <1>4, <1>9, <1>12, <1>13, <1>15 DEF SelInv

(* A read takes units of one connection; the other slots have others.      *)
LEMMA ReadKeeps == ASSUME SelInv, RecvText PROVE SelInv'
<1>1. PICK i \in Slots :
        /\ AtHit(i) /\ fd_array[i] # Listen /\ pos' = i + 1 /\ pc' = "send"
        /\ \E n \in 1 .. Len(up[fdtab[fd_array[i]]]) : Reads(fd_array[i], n)
  BY DEF RecvText, StartSend
<1>2. PICK f \in Fds, c \in Clients : fd_array[i] = f /\ fdtab[f] = c
  BY <1>1, AtFacts
<1>3. UNCHANGED <<fdtab, backlog, peer, cst, said, fd_array, rfds>>
  BY DEF RecvText, clientVars
<1>4. /\ pc = "scan" /\ i \in Nat /\ pos <= i /\ pos > 0 /\ pos \in Nat
      /\ Size \in Nat /\ f # Empty
  BY <1>1, <1>2, AtFacts, SelectAssumption
<1>5. PICK n \in 1 .. Len(up[c]) : up' = [up EXCEPT ![c] = Drop(@, n)]
  BY <1>1, <1>2 DEF Reads
<1>6. NetOK' /\ \A x : IsReady(x) /\ x # f => IsReady(x)'
  BY <1>2, <1>3, <1>5, ReadNet DEF SelInv
<1>7. SelTyped' /\ SlotsAreOpen' /\ ListenFirst'
  <2>1. pos' > 1 /\ pos' \in Nat \ {0}
    BY <1>1, <1>4
  <2>2. SelTyped' /\ SlotsAreOpen'
    BY <1>3, <2>1 DEF SelInv, SelTyped, SlotsAreOpen
  <2> QED
    BY <1>1, <1>3, <2>1, <2>2 DEF SelInv, ListenFirst
<1>8. HitsReady'
  <2> SUFFICES ASSUME NEW k \in Hits' PROVE IsReady(fd_array[k])'
    BY DEF HitsReady
  <2>1. k \in Hits /\ k \in Slots /\ k # i
    BY <1>1, <1>3, <1>4 DEF Hits, Slots
  <2>2. PICK y : y = fd_array[k]
    OBVIOUS
  <2>3. IsReady(y) /\ y # f
    BY <1>2, <1>4, <2>1, <2>2 DEF SelInv, HitsReady, SlotsAreOpen
  <2>4. IsReady(y)'
    BY <1>6, <2>3
  <2> QED
    BY <1>3, <2>2, <2>4 DEF IsReady
<1> QED
  BY <1>6, <1>7, <1>8 DEF SelInv

(* A slot is given back with its descriptor.                               *)
LEMMA EndKeeps == ASSUME SelInv, RecvEnds PROVE SelInv'
<1>1. PICK i \in Slots :
        /\ AtHit(i) /\ fd_array[i] # Listen /\ pos' = i + 1
        /\ fdtab' = [fdtab EXCEPT ![fd_array[i]] = Free]
        /\ fd_array' = [fd_array EXCEPT ![CHOOSE j \in Slots : /\ fd_array[j] = fd_array[i]
                            /\ \A k \in Slots : fd_array[k] = fd_array[i] => j <= k] = Empty]
  BY DEF RecvEnds
<1>2. UNCHANGED <<backlog, up, peer, cst, said, pc, rfds>>
  BY DEF RecvEnds, netVars, clientVars
<1>3. PICK f \in Fds : fd_array[i] = f
  BY <1>1, AtFacts
<1>4. /\ pc = "scan" /\ i \in Nat /\ pos <= i /\ pos > 0 /\ pos \in Nat
      /\ Size \in Nat /\ Empty \notin Fds \cup {Listen} /\ f # Empty
  BY <1>1, AtFacts, SelectAssumption
<1>5. \A k \in Slots : fd_array[k] = f <=> k = i
  BY <1>3, <1>4 DEF SelInv, SlotsAreOpen
<1>6. fd_array' = [fd_array EXCEPT ![i] = Empty]
  <2>1. (CHOOSE j \in Slots : fd_array[j] = f /\ \A k \in Slots : fd_array[k] = f => j <= k) = i
    <3>1. i <= i /\ i \in Slots
      BY <1>4
    <3>2. \A j \in Slots : (fd_array[j] = f /\ \A k \in Slots : fd_array[k] = f => j <= k) <=> j = i
      BY <1>5, <3>1
    <3> QED
      BY <3>1, <3>2
  <2> QED
    BY <1>1, <1>3, <2>1
<1>7. /\ \A g \in Fds : fdtab'[g] = IF g = f THEN Free ELSE fdtab[g]
      /\ \A k \in Slots : fd_array'[k] = IF k = i THEN Empty ELSE fd_array[k]
  BY <1>1, <1>3, <1>6 DEF SelInv, SelTyped, NetOK, NetTyped
<1>8. NetOK' /\ \A x : IsReady(x) /\ x # f => IsReady(x)'
  BY <1>1, <1>2, <1>3, CloseNet DEF SelInv
<1>9. SelTyped'
  <2>1. fd_array' \in [Slots -> Fds \cup {Listen, Empty}]
    BY <1>6 DEF SelInv, SelTyped
  <2>2. pos' \in Nat \ {0}
    BY <1>1, <1>4
  <2> QED
    BY <1>2, <2>1, <2>2 DEF SelInv, SelTyped
<1>10. SlotsAreOpen'
  <2>1. ASSUME NEW g \in Fds PROVE fdtab'[g] # Free <=> \E k \in Slots : fd_array'[k] = g
    <3>1. CASE g = f
      <4>1. \A k \in Slots : fd_array'[k] # f
        BY <1>4, <1>5, <1>7
      <4> QED
        BY <1>7, <3>1, <4>1
    <3>2. CASE g # f
      <4>1. \A k \in Slots : fd_array'[k] = g <=> fd_array[k] = g
        BY <1>4, <1>5, <1>7, <3>2
      <4>2. fdtab'[g] = fdtab[g]
        BY <1>7, <3>2
      <4> QED
        BY <4>1, <4>2 DEF SelInv, SlotsAreOpen
    <3> QED
      BY <3>1, <3>2
  <2>2. \A k, l \in Slots : fd_array'[k] = fd_array'[l] /\ k # l => fd_array'[k] = Empty
    BY <1>7 DEF SelInv, SlotsAreOpen
  <2> QED
    BY <2>1, <2>2 DEF SlotsAreOpen
<1>11. ListenFirst'
  <2>1. 1 \in Slots /\ i # 1
    BY <1>1, <1>4 DEF SelInv, ListenFirst, Slots
  <2> QED
    BY <1>1, <1>2, <1>4, <1>7, <2>1 DEF SelInv, ListenFirst
<1>12. HitsReady'
  <2> SUFFICES ASSUME NEW k \in Hits' PROVE IsReady(fd_array[k])'
    BY DEF HitsReady
  <2>1. k \in Slots /\ k # i /\ fd_array'[k] = fd_array[k] /\ k \in Hits
    BY <1>1, <1>2, <1>4, <1>7 DEF Hits, Slots
  <2>2. PICK y : y = fd_array[k]
    OBVIOUS
  <2>3. IsReady(y) /\ y # f
    BY <1>4, <1>5, <2>1, <2>2 DEF SelInv, HitsReady
  <2>4. IsReady(y)'
    BY <1>8, <2>3
  <2> QED
    BY <2>1, <2>2, <2>4 DEF IsReady
<1> QED
  BY <1>8, <1>9, <1>10, <1>11, <1>12 DEF SelInv

LEMMA SelInit == Init => SelInv
<1> SUFFICES ASSUME Init PROVE SelInv
  OBVIOUS
<1>1. 1 \in Slots /\ Empty \notin Fds \cup {Listen} /\ Listen \notin Fds
  BY SelectAssumption, NetAssumption DEF Slots
<1>2. NetOK
  BY InitNet DEF Init
<1>3. SelTyped
  BY DEF Init, SelTyped
<1>4. SlotsAreOpen /\ ListenFirst /\ HitsReady
  BY <1>1 DEF Init, NetInit, SlotsAreOpen, ListenFirst, HitsReady
<1> QED
  BY <1>2, <1>3, <1>4 DEF SelInv

LEMMA SelStep == ASSUME SelInv, RoomForAll, [Next]_vars PROVE SelInv'
<1>1. CASE Select
  BY <1>1, SelectKeeps
<1>2. CASE HandlerEvent
  BY <1>2, ListenKeeps, ListenFailsKeeps, ReadKeeps, EndKeeps, ScanEndKeeps DEF HandlerEvent
<1>3. CASE SendStep /\ UNCHANGED selVars
  <2>1. /\ NetOK' /\ \A x : IsReady(x) => IsReady(x)'
        /\ UNCHANGED fdtab /\ pc = "send" /\ pc' \in {"send", "scan"}
    BY <1>3, SendNet DEF SelInv
  <2> QED
    BY <1>3, <2>1, Undisturbed
<1>4. ASSUME NEW c \in Clients, ClientStep(c), UNCHANGED selVars PROVE SelInv'
  <2>1. NetOK' /\ (\A x : IsReady(x) => IsReady(x)') /\ UNCHANGED <<fdtab, pc>>
    BY <1>4, ClientNet DEF SelInv
  <2> QED
    BY <1>4, <2>1, Undisturbed
<1>5. CASE UNCHANGED vars
  <2>1. UNCHANGED <<fdtab, backlog, up, peer, cst, said, pc, selVars>>
    BY <1>5 DEF vars, evVars, netVars, clientVars
  <2>2. NetOK' /\ \A x : IsReady(x)' <=> IsReady(x)
    BY <2>1, SameNet DEF SelInv
  <2> QED
    BY <2>1, <2>2, Undisturbed
<1> QED
  BY <1>1, <1>2, <1>3, <1>4, <1>5 DEF Next, ServerStep

LEMMA SelInvariant == ASSUME RoomForAll PROVE Spec => []SelInv
<1>1. SelInv /\ [Next]_vars => SelInv'
  BY SelStep
<1> QED
  BY <1>1, SelInit, PTL DEF Spec

(* The slots are the open descriptors, each in one.                        *)
THEOREM TableMirrors == ASSUME RoomForAll PROVE Spec => []SlotsAreOpen
<1>1. SelInv => SlotsAreOpen
  BY DEF SelInv
<1> QED
  BY <1>1, SelInvariant, PTL

(* No call on a descriptor that select reported blocks.                    *)
THEOREM PassNeverBlocks == ASSUME RoomForAll PROVE Spec => []NeverBlocks
<1>1. SelInv => NeverBlocks
  BY DEF SelInv, HitsReady, NeverBlocks
<1> QED
  BY <1>1, SelInvariant, PTL

(* The reply of this server is made of bytes.                              *)
LEMMA ReplyTyped == ASSUME NEW s \in Seq(Unit), s # <<>> PROVE Reply(s) \in Seq(OutUnit)
<1>1. Unit \subseteq OutUnit
  BY DEF Unit, OutUnit
<1>2. Take(s, Len(s) - 1) \in Seq(OutUnit)
  <2>1. Take(s, Len(s) - 1) \in Seq(Unit)
    BY DEF Take
  <2> QED
    BY <1>1, <2>1, SeqMonotonic
<1>3. << <<Listen, 0, "head">> >> \in Seq(OutUnit) /\ << <<Listen, 0, "nl">> >> \in Seq(OutUnit)
  BY DEF OutUnit
<1> QED
  BY <1>2, <1>3, ConcatProperties DEF Reply

(* What each step of this server and of a client is to the abstract        *)
(* service.                                                                *)
EchoMove == NetInv' /\ [Echo!Next]_(Echo!evars)

LEMMA ClientMoves ==
  ASSUME NetOK, NetInv, NEW c \in Clients, ClientStep(c)
  PROVE  EchoMove
<1>1. CASE Connect(c)
  <2>1. NetInv' /\ Echo!Connect(c)
    BY <1>1, ConnectMoves DEF Echo!Connect
  <2> QED
    BY <2>1 DEF EchoMove, Echo!Next
<1>2. CASE Say(c)
  <2>1. NetInv' /\ Echo!Say(c)
    BY <1>2, SayMoves DEF Echo!Say
  <2> QED
    BY <2>1 DEF EchoMove, Echo!Next
<1>3. CASE Hear(c)
  <2>1. NetInv' /\ Echo!Hear(c)
    BY <1>3, HearMoves DEF Echo!Hear
  <2> QED
    BY <2>1 DEF EchoMove, Echo!Next
<1>4. CASE Leave(c)
  <2>1. NetInv' /\ Echo!Leave(c)
    BY <1>4, LeaveMoves DEF Echo!Leave
  <2> QED
    BY <2>1 DEF EchoMove, Echo!Next
<1> QED
  BY <1>1, <1>2, <1>3, <1>4 DEF ClientStep

(* The send ends the service only by writing to a client that has gone.    *)
LEMMA SendIsMove == ASSUME NetOK, NetInv, SendStep, alive PROVE EchoMove
<1>1. /\ NetInv'
      /\ UNCHANGED <<ConnStates, Ended, Sending, up, said, got>>
      /\ UNCHANGED alive \/ (alive' = FALSE /\ \E c \in Ended : ConnStates[c] = "open")
  BY SendMoves
<1>2. CASE UNCHANGED alive
  BY <1>1, <1>2 DEF EchoMove, Echo!evars
<1>3. CASE alive' = FALSE /\ \E c \in Ended : ConnStates[c] = "open"
  <2>1. Echo!Crash
    BY <1>1, <1>3 DEF Echo!Crash
  <2> QED
    BY <1>1, <2>1 DEF EchoMove, Echo!Next
<1> QED
  BY <1>1, <1>2, <1>3

LEMMA HandlerMoves ==
  ASSUME SelInv, SelInv', NetInv, alive, HandlerEvent \/ Select
  PROVE  EchoMove
<1> USE DEF SelInv
<1>1. CASE Select \/ ScanEnds \/ ListenFails
  <2>1. /\ pc # "send" /\ pc' # "send"
        /\ UNCHANGED <<fdtab, backlog, up, down, peer, cst, said, got, obuf, alive>>
    BY <1>1 DEF Select, ScanEnds, ListenFails, AtHit, netVars, clientVars, sendVars
  <2> QED
    BY <2>1, IdleMoves DEF EchoMove, Echo!evars
<1>2. ASSUME NEW f \in Fds, ListenFunc(f) PROVE EchoMove
  <2>1. /\ pc # "send" /\ pc' # "send" /\ Accepts(f)
        /\ UNCHANGED <<up, down, peer, cst, said, got, obuf, alive>>
    BY <1>2 DEF ListenFunc, AtHit, netVars, clientVars, sendVars
  <2>2. PICK c \in Clients : Head(backlog) = c
    BY <2>1 DEF Accepts, NetOK, NetTyped
  <2>3. NetInv' /\ Echo!Accept(c)
    BY <2>1, <2>2, AcceptMoves DEF Echo!Accept
  <2> QED
    BY <2>3 DEF EchoMove, Echo!Next
<1>3. CASE RecvEnds
  <2>1. PICK i \in Slots : /\ AtHit(i) /\ fd_array[i] # Listen
                           /\ ReadsZero(fd_array[i]) \/ ReadsError(fd_array[i])
                           /\ fdtab' = [fdtab EXCEPT ![fd_array[i]] = Free]
    BY <1>3 DEF RecvEnds
  <2>2. UNCHANGED <<backlog, up, down, peer, cst, said, got, pc, obuf, alive>>
    BY <1>3 DEF RecvEnds, netVars, clientVars, sendVars
  <2>3. fd_array[i] \in Fds /\ fdtab[fd_array[i]] \in Clients /\ pc = "scan"
    BY <2>1, AtFacts
  <2>4. PICK c \in Clients : fdtab[fd_array[i]] = c
    BY <2>3
  <2>5. peer[c] # "open"
    BY <2>1, <2>4 DEF ReadsZero, ReadsError
  <2>6. NetInv' /\ Echo!Hangup(c)
    BY <2>1, <2>2, <2>3, <2>4, <2>5, CloseMoves DEF Echo!Hangup
  <2> QED
    BY <2>6 DEF EchoMove, Echo!Next
<1>4. CASE RecvText
  <2>1. PICK i \in Slots :
          /\ AtHit(i) /\ fd_array[i] # Listen
          /\ \E n \in 1 .. Len(up[fdtab[fd_array[i]]]) :
               /\ Reads(fd_array[i], n)
               /\ StartSend(fd_array[i], Reply(Take(up[fdtab[fd_array[i]]], n)))
    BY <1>4 DEF RecvText
  <2>2. UNCHANGED <<fdtab, backlog, down, peer, cst, said, got, alive>>
    BY <1>4 DEF RecvText, clientVars
  <2>3. fd_array[i] \in Fds /\ fdtab[fd_array[i]] \in Clients /\ pc = "scan"
    BY <2>1, AtFacts
  <2>4. PICK c \in Clients : fdtab[fd_array[i]] = c
    BY <2>3
  <2>5. PICK n \in 1 .. Len(up[c]) :
          /\ up' = [up EXCEPT ![c] = Drop(@, n)]
          /\ StartSend(fd_array[i], Reply(Take(up[c], n)))
    BY <2>1, <2>4 DEF Reads
  <2>6. Take(up[c], n) \in Seq(Unit) /\ Take(up[c], n) # <<>>
    <3>1. up[c] \in Seq(Unit)
      BY DEF NetOK, NetTyped
    <3>2. Take(up[c], n) \in Seq(Unit) /\ Len(Take(up[c], n)) = n
      BY <3>1 DEF Take
    <3> QED
      BY <3>2
  <2>7. Reply(Take(up[c], n)) \in Seq(OutUnit)
    BY <2>6, ReplyTyped
  <2>8. /\ NetInv'
        /\ ConnStates[c] = "open"
        /\ IF c \in Ended THEN Sending' = Sending
           ELSE Sending' = [Sending EXCEPT ![c] = @ \o Reply(Take(up[c], n))]
        /\ UNCHANGED <<ConnStates, Ended>>
    <3> DEFINE r == Reply(Take(up[c], n))
    <3>1. StartSend(fd_array[i], r) /\ r \in Seq(OutUnit)
      BY <2>5, <2>7
    <3> HIDE DEF r
    <3>2. fdtab[fd_array[i]] = c /\ pc = "scan" /\ UNCHANGED <<fdtab, backlog, down, peer, cst>>
      BY <2>2, <2>3, <2>4
    <3>3. /\ NetInv'
          /\ ConnStates[c] = "open"
          /\ UNCHANGED <<ConnStates, Ended>>
      BY <2>3, <3>1, <3>2, ReplyMoves
    <3>4. IF c \in Ended THEN Sending' = Sending
          ELSE Sending' = [Sending EXCEPT ![c] = @ \o r]
      BY <2>3, <3>1, <3>2, ReplyMoves
    <3> QED
      BY <3>3, <3>4 DEF r
  <2>9. Echo!Serve(c)
    <3>1. /\ up' = [up EXCEPT ![c] = SubSeq(@, n + 1, Len(@))]
          /\ Take(up[c], n) = SubSeq(up[c], 1, n)
      BY <2>5 DEF Take, Drop
    <3> QED
      BY <2>2, <2>8, <3>1 DEF Echo!Serve
  <2> QED
    BY <2>8, <2>9 DEF EchoMove, Echo!Next
<1> QED
  BY <1>1, <1>2, <1>3, <1>4 DEF HandlerEvent

LEMMA EchoInit == Init => NetInv /\ Echo!Init
<1> SUFFICES ASSUME Init PROVE NetInv /\ Echo!Init
  OBVIOUS
<1> USE DEF Init, NetInit
<1>1. NetInv
  BY InitNet
<1>2. ConnStates = [c \in Clients |-> "none"]
  BY DEF ConnStates, ConnState
<1>3. Ended = {}
  BY DEF Ended
<1>4. Sending = [c \in Clients |-> <<>>]
  BY <1>1, SendingIdle
<1> QED
  BY <1>1, <1>2, <1>3, <1>4 DEF Echo!Init

(* With room for all descriptors the select server is an echo service with *)
(* its own reply: every step of it is one of the service or none.          *)
THEOREM SelectImplementsEcho == ASSUME RoomForAll PROVE Spec => ImplementsEcho
<1>1. ASSUME SelInv, SelInv', NetInv, [Next]_vars PROVE EchoMove
  <2>1. CASE ServerStep
    BY <1>1, <2>1, HandlerMoves, SendIsMove DEF ServerStep, SelInv
  <2>2. ASSUME NEW c \in Clients, ClientStep(c) PROVE EchoMove
    BY <1>1, <2>2, ClientMoves DEF SelInv
  <2>3. CASE UNCHANGED vars
    <3>1. UNCHANGED <<fdtab, backlog, up, down, peer, cst, said, got, pc, cur, obuf, alive>>
      BY <2>3 DEF vars, evVars, netVars, clientVars, sendVars
    <3>2. NetInv'
      BY <1>1, <3>1 DEF NetInv, Queues
    <3>3. UNCHANGED <<ConnStates, Ended, Sending>>
      BY <1>1, <3>1, ConnKept, SendingKept DEF Ended
    <3> QED
      BY <3>1, <3>2, <3>3 DEF EchoMove, Echo!evars
  <2> QED
    BY <1>1, <2>1, <2>2, <2>3 DEF Next
<1>2. SelInv /\ SelInv' /\ NetInv /\ [Next]_vars => NetInv' /\ [Echo!Next]_(Echo!evars)
  BY <1>1 DEF EchoMove
<1> QED
  BY <1>2, EchoInit, SelInvariant, PTL DEF Spec, ImplementsEcho, Echo!Spec
-----------------------------------------------------------------------------
(* The epoll server.                                                       *)

(* What is left of a batch is ready, also while a send blocks.             *)
BatchReady == /\ events \subseteq Fds \cup {Listen}
              /\ pc \in {"scan", "send"} => \A x \in events : IsReady(x)

EpollInv == NetOK /\ BatchReady

(* A batch only shrinks, and what is left of it stays ready.               *)
LEMMA BatchShrinks ==
  ASSUME EpollInv, NetOK', events' \subseteq events, pc \in {"scan", "send"},
         \A x \in events' : IsReady(x) => IsReady(x)'
  PROVE  EpollInv'
BY DEF EpollInv, BatchReady

LEMMA EpollHandles == ASSUME EpollInv, EpollHandler PROVE EpollInv'
<1>1. ASSUME NEW f \in Fds, Accept(f) PROVE EpollInv'
  <2>1. /\ Accepts(f) /\ events' = events \ {Listen} /\ pc = "scan"
        /\ UNCHANGED <<up, peer, cst, said>>
    BY <1>1 DEF Accept, Visit, netVars, clientVars
  <2>2. NetOK' /\ \A x : IsReady(x) /\ x # Listen => IsReady(x)'
    BY <2>1, AcceptNet DEF EpollInv
  <2> QED
    BY <2>1, <2>2, BatchShrinks
<1>2. ASSUME NEW f \in Fds, ReadText(f) PROVE EpollInv'
  <2>1. /\ events' = events \ {f} /\ pc = "scan" /\ f \in events
        /\ \E n \in 1 .. Len(up[fdtab[f]]) : up' = [up EXCEPT ![fdtab[f]] = Drop(@, n)]
        /\ UNCHANGED <<fdtab, backlog, peer, cst, said>>
    BY <1>2 DEF ReadText, Visit, clientVars, Reads, Drop, Drop
  <2>2. PICK c \in Clients : fdtab[f] = c
    BY <2>1, NetAssumption DEF EpollInv, BatchReady, IsReady, NetOK, NetTyped
  <2>3. PICK n \in 1 .. Len(up[c]) : up' = [up EXCEPT ![c] = Drop(@, n)]
    BY <2>1, <2>2
  <2>4. NetOK' /\ \A x : IsReady(x) /\ x # f => IsReady(x)'
    BY <2>1, <2>2, <2>3, ReadNet DEF EpollInv
  <2> QED
    BY <2>1, <2>4, BatchShrinks
<1>3. ASSUME NEW f \in Fds, ReadEnds(f) PROVE EpollInv'
  <2>1. /\ events' = events \ {f} /\ pc = "scan" /\ fdtab' = [fdtab EXCEPT ![f] = Free]
        /\ UNCHANGED <<backlog, up, peer, cst, said>>
    BY <1>3 DEF ReadEnds, Visit, netVars, clientVars
  <2>2. NetOK' /\ \A x : IsReady(x) /\ x # f => IsReady(x)'
    BY <2>1, CloseNet DEF EpollInv
  <2> QED
    BY <2>1, <2>2, BatchShrinks
<1>4. CASE AcceptFails \/ BatchEnds
  <2>1. /\ events' \subseteq events /\ pc = "scan"
        /\ UNCHANGED <<fdtab, backlog, up, peer, cst, said>>
    BY <1>4 DEF AcceptFails, BatchEnds, Visit, netVars, clientVars
  <2>2. NetOK' /\ \A x : IsReady(x)' <=> IsReady(x)
    BY <2>1, SameNet DEF EpollInv
  <2> QED
    BY <2>1, <2>2, BatchShrinks
<1> QED
  BY <1>1, <1>2, <1>3, <1>4 DEF EpollHandler

LEMMA EpollKeeps == ASSUME EpollInv, [EpollNext]_epollVars PROVE EpollInv'
<1>1. CASE EpollWait
  <2>1. /\ events' = {x \in Fds \cup {Listen} : IsReady(x)}
        /\ UNCHANGED <<fdtab, backlog, up, peer, cst, said>>
    BY <1>1 DEF EpollWait, netVars, clientVars
  <2>2. NetOK' /\ \A x : IsReady(x)' <=> IsReady(x)
    BY <2>1, SameNet DEF EpollInv
  <2> QED
    BY <2>1, <2>2 DEF EpollInv, BatchReady
<1>2. CASE EpollHandler
  BY <1>2, EpollHandles
<1>3. CASE SendStep /\ UNCHANGED events
  <2>1. NetOK' /\ (\A x : IsReady(x) => IsReady(x)') /\ pc = "send"
    BY <1>3, SendNet DEF EpollInv
  <2> QED
    BY <1>3, <2>1, BatchShrinks
<1>4. ASSUME NEW c \in Clients, ClientStep(c), UNCHANGED events PROVE EpollInv'
  <2>1. NetOK' /\ (\A x : IsReady(x) => IsReady(x)') /\ UNCHANGED <<fdtab, pc>>
    BY <1>4, ClientNet DEF EpollInv
  <2> QED
    BY <1>4, <2>1 DEF EpollInv, BatchReady
<1>5. CASE UNCHANGED epollVars
  <2>1. UNCHANGED <<fdtab, backlog, up, peer, cst, said, pc, events>>
    BY <1>5 DEF epollVars, evVars, netVars, clientVars
  <2>2. NetOK' /\ \A x : IsReady(x)' <=> IsReady(x)
    BY <2>1, SameNet DEF EpollInv
  <2> QED
    BY <2>1, <2>2 DEF EpollInv, BatchReady
<1> QED
  BY <1>1, <1>2, <1>3, <1>4, <1>5 DEF EpollNext, EpollStep

LEMMA EpollInvariant == EpollSpec => []EpollInv
<1>1. EpollInit => EpollInv
  BY InitNet DEF EpollInit, NetInit, EpollInv, BatchReady
<1>2. EpollInv /\ [EpollNext]_epollVars => EpollInv'
  BY EpollKeeps
<1> QED
  BY <1>1, <1>2, PTL DEF EpollSpec

(* No call on a descriptor that epoll_wait reported blocks, also when it   *)
(* was closed and accepted again within one batch.                         *)
THEOREM BatchStaysReady == EpollSpec => []BatchNeverBlocks
<1>1. EpollInv => BatchNeverBlocks
  BY DEF EpollInv, BatchReady, BatchNeverBlocks
<1> QED
  BY <1>1, EpollInvariant, PTL

(* The reply of this server is made of bytes.                              *)
LEMMA EpollReplyTyped == ASSUME NEW s \in Seq(Unit) PROVE EpollReply(s) \in Seq(OutUnit)
<1>1. Unit \subseteq OutUnit
  BY DEF Unit, OutUnit
<1>2. s \in Seq(OutUnit) /\ << <<Listen, 0, "head">> >> \in Seq(OutUnit)
  BY <1>1, SeqMonotonic DEF OutUnit
<1> QED
  BY <1>2, ConcatProperties DEF EpollReply

(* What each step is to the abstract service of this server.               *)
EpollMove == NetInv' /\ [EpollEcho!Next]_(EpollEcho!evars)

LEMMA EpollClientMoves ==
  ASSUME NetOK, NetInv, NEW c \in Clients, ClientStep(c)
  PROVE  EpollMove
<1>1. CASE Connect(c)
  <2>1. NetInv' /\ EpollEcho!Connect(c)
    BY <1>1, ConnectMoves DEF EpollEcho!Connect
  <2> QED
    BY <2>1 DEF EpollMove, EpollEcho!Next
<1>2. CASE Say(c)
  <2>1. NetInv' /\ EpollEcho!Say(c)
    BY <1>2, SayMoves DEF EpollEcho!Say
  <2> QED
    BY <2>1 DEF EpollMove, EpollEcho!Next
<1>3. CASE Hear(c)
  <2>1. NetInv' /\ EpollEcho!Hear(c)
    BY <1>3, HearMoves DEF EpollEcho!Hear
  <2> QED
    BY <2>1 DEF EpollMove, EpollEcho!Next
<1>4. CASE Leave(c)
  <2>1. NetInv' /\ EpollEcho!Leave(c)
    BY <1>4, LeaveMoves DEF EpollEcho!Leave
  <2> QED
    BY <2>1 DEF EpollMove, EpollEcho!Next
<1> QED
  BY <1>1, <1>2, <1>3, <1>4 DEF ClientStep

LEMMA EpollSendMoves == ASSUME NetOK, NetInv, SendStep, alive PROVE EpollMove
<1>1. /\ NetInv'
      /\ UNCHANGED <<ConnStates, Ended, Sending, up, said, got>>
      /\ UNCHANGED alive \/ (alive' = FALSE /\ \E c \in Ended : ConnStates[c] = "open")
  BY SendMoves
<1>2. CASE UNCHANGED alive
  BY <1>1, <1>2 DEF EpollMove, EpollEcho!evars
<1>3. CASE alive' = FALSE /\ \E c \in Ended : ConnStates[c] = "open"
  <2>1. EpollEcho!Crash
    BY <1>1, <1>3 DEF EpollEcho!Crash
  <2> QED
    BY <1>1, <2>1 DEF EpollMove, EpollEcho!Next
<1> QED
  BY <1>1, <1>2, <1>3

(* With no free descriptor, as many connections are open as there are      *)
(* descriptors, since no two descriptors have the same.                    *)
LEMMA AllTaken ==
  ASSUME NetOK, NoDescriptor, IsFiniteSet(Fds)
  PROVE  Cardinality({c \in Clients : ConnStates[c] = "open"}) = Cardinality(Fds)
<1> DEFINE Open == {c \in Clients : ConnStates[c] = "open"}
<1>1. \A f \in Fds : fdtab[f] \in Clients
  BY DEF NetOK, NetTyped, NoDescriptor
<1>2. ASSUME NEW f \in Fds PROVE fdtab[f] \in Open
  <2>1. cst[fdtab[f]] # "new" /\ ~ Queues(fdtab[f]) /\ fdtab[f] \in Clients
    BY <1>1, NetAssumption DEF NetOK, OneHome
  <2> QED
    BY <2>1 DEF ConnStates, ConnState
<1>3. ASSUME NEW c \in Open PROVE \E f \in Fds : fdtab[f] = c
  BY DEF ConnStates, ConnState
<1>4. fdtab \in Bijection(Fds, Open)
  <2>1. fdtab \in [Fds -> Open]
    BY <1>2 DEF NetOK, NetTyped
  <2>2. \A f, g \in Fds : fdtab[f] = fdtab[g] => f = g
    BY <1>1, NetAssumption DEF NetOK, OneHome
  <2> HIDE DEF Open
  <2> QED
    BY <1>3, <2>1, <2>2 DEF Bijection, Injection, Surjection, IsInjective
<1> HIDE DEF Open
<1>5. Cardinality(Open) = Cardinality(Fds)
  BY <1>4, FS_Bijection DEF ExistsBijection
<1> QED
  BY <1>5 DEF Open

LEMMA EpollHandlerMoves ==
  ASSUME EpollInv, EpollInv', NetInv, alive, IsFiniteSet(Fds),
         EpollHandler \/ EpollWait
  PROVE  EpollMove
<1> USE DEF EpollInv
<1>1. CASE EpollWait \/ BatchEnds
  <2>1. /\ pc # "send" /\ pc' # "send"
        /\ UNCHANGED <<fdtab, backlog, up, down, peer, cst, said, got, obuf, alive>>
    BY <1>1 DEF EpollWait, BatchEnds, netVars, clientVars, sendVars
  <2>2. NetInv' /\ UNCHANGED <<ConnStates, Ended, Sending>>
    BY <2>1, IdleMoves
  <2> QED
    BY <2>1, <2>2 DEF EpollMove, EpollEcho!evars
<1>2. ASSUME NEW f \in Fds, Accept(f) PROVE EpollMove
  <2>1. /\ pc # "send" /\ pc' # "send" /\ Accepts(f)
        /\ UNCHANGED <<up, down, peer, cst, said, got, obuf, alive>>
    BY <1>2
       DEF Accept, Visit, netVars, clientVars, sendVars
  <2>2. PICK c \in Clients : Head(backlog) = c
    BY <2>1 DEF Accepts, NetOK, NetTyped
  <2>3. NetInv' /\ EpollEcho!Accept(c)
    BY <2>1, <2>2, AcceptMoves DEF EpollEcho!Accept
  <2> QED
    BY <2>3 DEF EpollMove, EpollEcho!Next
<1>3. CASE AcceptFails
  <2>1. /\ pc # "send" /\ pc' # "send" /\ NoDescriptor /\ Listen \in events /\ alive' = FALSE
        /\ UNCHANGED <<fdtab, backlog, up, down, peer, cst, said, got, obuf>>
    BY <1>3 DEF AcceptFails, Visit, netVars, clientVars,
                sendVars, NoDescriptor, NoDescriptor
  <2>2. NetInv' /\ UNCHANGED <<ConnStates, Ended, Sending>>
    BY <2>1, IdleMoves
  <2>3. backlog # <<>>
    BY <1>3, <2>1, NetAssumption DEF BatchReady, IsReady, AcceptFails, Visit
  <2>4. PICK c \in Clients : c = backlog[1] /\ 1 \in DOMAIN backlog
    BY <2>3 DEF NetOK, NetTyped
  <2>5. ConnStates[c] = "waiting"
    <3>1. Queues(c) /\ cst[c] # "new"
      BY <2>4 DEF Queues, NetOK, OneHome
    <3> QED
      BY <3>1 DEF ConnStates, ConnState
  <2>6. Cardinality({d \in Clients : ConnStates[d] = "open"}) = Cardinality(Fds)
    BY <2>1, AllTaken
  <2>7. EpollEcho!Cardinality({d \in Clients : ConnStates[d] = "open"})
          = Cardinality(Fds)
    <3>1. \A S : EpollEcho!Cardinality(S) = Cardinality(S)
      BY Zenon DEF Cardinality, EpollEcho!Cardinality
    <3> QED
      BY <2>6, <3>1, Zenon
  <2>8. EpollEcho!Crash
    <3>1. \E d \in Clients : ConnStates[d] = "waiting"
      BY <2>5
    <3>2. UNCHANGED <<ConnStates, Ended, up, Sending, said, got>>
      BY <2>1, <2>2
    <3> QED
      BY <2>1, <2>7, <3>1, <3>2 DEF EpollEcho!Crash
  <2> QED
    BY <2>2, <2>8 DEF EpollMove, EpollEcho!Next
<1>4. ASSUME NEW f \in Fds, ReadEnds(f) PROVE EpollMove
  <2>1. /\ pc = "scan" /\ f \in events /\ fdtab' = [fdtab EXCEPT ![f] = Free]
        /\ peer[fdtab[f]] # "open"
        /\ UNCHANGED <<backlog, up, down, peer, cst, said, got, pc, obuf, alive>>
    BY <1>4 DEF ReadEnds, Visit, ReadsZero, ReadsError,
                netVars, clientVars, sendVars
  <2>2. PICK c \in Clients : fdtab[f] = c
    BY <2>1, NetAssumption DEF BatchReady, IsReady, NetOK, NetTyped
  <2>3. NetInv' /\ EpollEcho!Hangup(c)
    BY <2>1, <2>2, CloseMoves DEF EpollEcho!Hangup
  <2> QED
    BY <2>3 DEF EpollMove, EpollEcho!Next
<1>5. ASSUME NEW f \in Fds, ReadText(f) PROVE EpollMove
  <2>1. /\ pc = "scan" /\ f \in events
        /\ UNCHANGED <<fdtab, backlog, down, peer, cst, said, got, alive>>
    BY <1>5 DEF ReadText, Visit, clientVars
  <2>2. PICK c \in Clients : fdtab[f] = c
    BY <2>1, NetAssumption DEF BatchReady, IsReady, NetOK, NetTyped
  <2>3. PICK n \in 1 .. Len(up[c]) :
          /\ up' = [up EXCEPT ![c] = SubSeq(@, n + 1, Len(@))]
          /\ StartSend(f, EpollReply(SubSeq(up[c], 1, n)))
    BY <1>5, <2>2 DEF ReadText, Reads, Drop, Take,
                      StartSend, StartSend
  <2> DEFINE s == SubSeq(up[c], 1, n)
  <2>4. s \in Seq(Unit)
    BY DEF NetOK, NetTyped
  <2> HIDE DEF s
  <2>5. EpollReply(s) \in Seq(OutUnit)
    BY <2>4, EpollReplyTyped
  <2>6. /\ NetInv'
        /\ ConnStates[c] = "open"
        /\ IF c \in Ended THEN Sending' = Sending
           ELSE Sending' = [Sending EXCEPT ![c] = @ \o EpollReply(s)]
        /\ UNCHANGED <<ConnStates, Ended>>
    <3> DEFINE r == EpollReply(s)
    <3>1. StartSend(f, r) /\ r \in Seq(OutUnit)
      BY <2>3, <2>5 DEF s
    <3> HIDE DEF r
    <3>2. fdtab[f] = c /\ pc = "scan" /\ UNCHANGED <<fdtab, backlog, down, peer, cst>>
      BY <2>1, <2>2
    <3>3. /\ NetInv'
          /\ ConnStates[c] = "open"
          /\ UNCHANGED <<ConnStates, Ended>>
      BY <3>1, <3>2, ReplyMoves
    <3>4. IF c \in Ended THEN Sending' = Sending
          ELSE Sending' = [Sending EXCEPT ![c] = @ \o r]
      BY <3>1, <3>2, ReplyMoves
    <3> QED
      BY <3>3, <3>4 DEF r
  <2>7. EpollEcho!Serve(c)
    BY <2>1, <2>3, <2>6 DEF EpollEcho!Serve, s
  <2> QED
    BY <2>6, <2>7 DEF EpollMove, EpollEcho!Next
<1> QED
  BY <1>1, <1>2, <1>3, <1>4, <1>5 DEF EpollHandler

LEMMA EpollEchoInit == EpollInit => NetInv /\ EpollEcho!Init
<1> SUFFICES ASSUME EpollInit PROVE NetInv /\ EpollEcho!Init
  OBVIOUS
<1>1. NetInit /\ NetInv
  BY InitNet DEF EpollInit
<1>2. ConnStates = [c \in Clients |-> "none"] /\ Ended = {}
  BY <1>1 DEF NetInit, ConnStates, ConnState, Ended
<1>3. Sending = [c \in Clients |-> <<>>]
  BY <1>1, SendingIdle DEF NetInit
<1> QED
  BY <1>1, <1>2, <1>3 DEF EpollEcho!Init, NetInit

(* The epoll server is an echo service with its own reply, which ends at   *)
(* the latest when it has as many connections as there are descriptors.    *)
THEOREM EpollIsEcho == ASSUME IsFiniteSet(Fds) PROVE EpollSpec => EpollImplementsEcho
<1>1. ASSUME EpollInv, EpollInv', NetInv, [EpollNext]_epollVars PROVE EpollMove
  <2>1. CASE EpollStep
    BY <1>1, <2>1, EpollHandlerMoves, EpollSendMoves DEF EpollStep, EpollInv
  <2>2. ASSUME NEW c \in Clients, ClientStep(c) PROVE EpollMove
    BY <1>1, <2>2, EpollClientMoves DEF EpollInv
  <2>3. CASE UNCHANGED epollVars
    <3>1. UNCHANGED <<fdtab, backlog, up, down, peer, cst, said, got, pc, cur, obuf, alive>>
      BY <2>3 DEF epollVars, evVars, netVars, clientVars, sendVars
    <3>2. NetInv'
      BY <1>1, <3>1 DEF NetInv, Queues
    <3>3. UNCHANGED <<ConnStates, Ended, Sending>>
      BY <1>1, <3>1, ConnKept, SendingKept DEF Ended
    <3> QED
      BY <3>1, <3>2, <3>3 DEF EpollMove, EpollEcho!evars
  <2> QED
    BY <1>1, <2>1, <2>2, <2>3 DEF EpollNext
<1>2. EpollInv /\ EpollInv' /\ NetInv /\ [EpollNext]_epollVars
        => NetInv' /\ [EpollEcho!Next]_(EpollEcho!evars)
  BY <1>1 DEF EpollMove
<1> QED
  BY <1>2, EpollEchoInit, EpollInvariant, PTL DEF EpollSpec, EpollImplementsEcho, EpollEcho!Spec
=============================================================================
