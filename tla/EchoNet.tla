------------------------------ MODULE EchoNet ------------------------------
(***************************************************************************)
(* What the select, poll and epoll servers have in common: the kernel and  *)
(* the clients as one thread sees them, and the send of a reply, a         *)
(* blocking call made between the visits to two ready descriptors.         *)
(*                                                                         *)
(* A message of a client is two units, the second of which has its line    *)
(* end. The clients (nc, telnet) send and read when they like.             *)
(***************************************************************************)
EXTENDS Naturals, Sequences, FiniteSets

CONSTANTS Clients,   (* one client, hence one connection, each             *)
          Fds,       (* the descriptors accept may return                  *)
          Free,      (* the entry of a closed descriptor                   *)
          Listen,    (* the listening descriptor                           *)
          Cap,       (* units the kernel buffers towards a client          *)
          MaxMsgs    (* bound: messages each client sends in its life      *)

ASSUME NetAssumption ==
  /\ Free \notin Clients
  /\ Listen \notin Fds
  /\ Cap \in Nat \ {0}
  /\ MaxMsgs \in [Clients -> Nat]

VARIABLES fdtab,    (* the connection each descriptor refers to            *)
          backlog,  (* connections that accept has not returned            *)
          up,       (* units sent by each client and not received          *)
          down,     (* units in the kernel towards each client             *)
          peer,     (* "open", or how the server sees the client's end     *)
          cst,      (* "new", "on" or "ended"                              *)
          said,     (* number of messages each client has sent             *)
          got,      (* all units each client has received                  *)
          pc,       (* "wait", "scan" or "send"                            *)
          cur,      (* the descriptor a reply is being sent to             *)
          obuf,     (* what is still to be sent of it                      *)
          alive     (* the server process exists                           *)

clientVars == <<cst, said, got>>
netVars    == <<up, down, peer>>
sendVars   == <<cur, obuf>>
evVars     == <<fdtab, backlog, netVars, clientVars, pc, sendVars, alive>>

NetInit == /\ fdtab = [f \in Fds |-> Free]
           /\ backlog = <<>>
           /\ up = [c \in Clients |-> <<>>]
           /\ down = [c \in Clients |-> <<>>]
           /\ peer = [c \in Clients |-> "open"]
           /\ cst = [c \in Clients |-> "new"]
           /\ said = [c \in Clients |-> 0]
           /\ got = [c \in Clients |-> <<>>]
           /\ pc = "wait"
           /\ cur = Listen
           /\ obuf = <<>>
           /\ alive = TRUE
-----------------------------------------------------------------------------
Message(c, k) == << <<c, k, "text">>, <<c, k, "nl">> >>
Messages(c)   == {Message(c, k) : k \in 1 .. MaxMsgs[c]}

Take(s, n) == SubSeq(s, 1, n)
Drop(s, n) == SubSeq(s, n + 1, Len(s))
Least(a, b) == IF a < b THEN a ELSE b

Conn == fdtab[cur]

(* read returns at once: with units, with 0, or with an error.             *)
Readable(c) == up[c] # <<>> \/ peer[c] # "open"

(* What select, poll and epoll_wait call ready for reading.                *)
IsReady(f) == \/ f = Listen /\ backlog # <<>>
              \/ f \in Fds /\ fdtab[f] # Free /\ Readable(fdtab[f])

(* read on descriptor f returned the first n units of what has arrived.    *)
Reads(f, n) == /\ n \in 1 .. Len(up[fdtab[f]])
               /\ up' = [up EXCEPT ![fdtab[f]] = Drop(@, n)]

(* read on a connection whose client has ended returns 0 after the last    *)
(* unit, and fails on a reset connection, whose last units may be lost.    *)
ReadsZero(f)  == peer[fdtab[f]] \in {"fin", "gone"} /\ up[fdtab[f]] = <<>>
ReadsError(f) == peer[fdtab[f]] = "rst"

(* accept takes the oldest connection into a free descriptor.              *)
Accepts(f) == /\ backlog # <<>>
              /\ fdtab[f] = Free
              /\ fdtab' = [fdtab EXCEPT ![f] = Head(backlog)]
              /\ backlog' = Tail(backlog)

NoDescriptor == \A f \in Fds : fdtab[f] # Free

StartSend(f, s) == pc' = "send" /\ cur' = f /\ obuf' = s
SendDone        == pc' = "scan" /\ cur' = Listen /\ obuf' = <<>>

(* send copies what the kernel has room for, and blocks for the rest.      *)
SendOpen ==
  /\ pc = "send"
  /\ peer[Conn] = "open"
  /\ Len(down[Conn]) < Cap
  /\ LET n == Least(Len(obuf), Cap - Len(down[Conn])) IN
       /\ down' = [down EXCEPT ![Conn] = @ \o Take(obuf, n)]
       /\ IF n = Len(obuf)
          THEN SendDone
          ELSE obuf' = Drop(obuf, n) /\ UNCHANGED <<pc, cur>>
  /\ UNCHANGED <<fdtab, backlog, up, peer, clientVars, alive>>

(* send to a client that has closed succeeds and is answered with a reset, *)
(* which may be there before the next call or not.                         *)
SendClosed == /\ pc = "send"
              /\ peer[Conn] = "fin"
              /\ peer' = [peer EXCEPT ![Conn] = "rst"] \/ UNCHANGED peer
              /\ SendDone
              /\ UNCHANGED <<fdtab, backlog, up, down, clientVars, alive>>

(* send to a reset connection fails, which nobody looks at; or SIGPIPE,    *)
(* which nobody ignores, ends the process.                                 *)
SendReset == /\ pc = "send"
             /\ peer[Conn] = "rst"
             /\ \/ SendDone /\ UNCHANGED alive
                \/ alive' = FALSE /\ UNCHANGED <<pc, sendVars>>
             /\ UNCHANGED <<fdtab, backlog, netVars, clientVars>>

SendStep == SendOpen \/ SendClosed \/ SendReset
-----------------------------------------------------------------------------
(* The clients.                                                            *)

Connect(c) == /\ alive
              /\ cst[c] = "new"
              /\ cst' = [cst EXCEPT ![c] = "on"]
              /\ backlog' = Append(backlog, c)
              /\ UNCHANGED <<fdtab, netVars, said, got, pc, sendVars, alive>>

Say(c) == /\ alive
          /\ cst[c] = "on"
          /\ said[c] < MaxMsgs[c]
          /\ said' = [said EXCEPT ![c] = @ + 1]
          /\ up' = [up EXCEPT ![c] = @ \o Message(c, said[c] + 1)]
          /\ UNCHANGED <<fdtab, backlog, down, peer, cst, got, pc, sendVars, alive>>

(* A client that reads takes what has arrived.                             *)
Hear(c) == /\ down[c] # <<>>
           /\ got' = [got EXCEPT ![c] = @ \o down[c]]
           /\ down' = [down EXCEPT ![c] = <<>>]
           /\ UNCHANGED <<fdtab, backlog, up, peer, cst, said, pc, sendVars, alive>>

(* The kernel closes the socket, with a reset if units are left unread.    *)
Leave(c) == /\ cst[c] = "on"
            /\ cst' = [cst EXCEPT ![c] = "ended"]
            /\ peer' = [peer EXCEPT ![c] = IF down[c] = <<>> THEN "fin" ELSE "rst"]
            /\ down' = [down EXCEPT ![c] = <<>>]
            /\ UNCHANGED <<fdtab, backlog, up, said, got, pc, sendVars, alive>>

ClientStep(c) == Connect(c) \/ Say(c) \/ Hear(c) \/ Leave(c)
-----------------------------------------------------------------------------
(* Properties shared by the three servers.                                 *)

(* A reply that is still being sent counts as sent: to the client it makes *)
(* no difference.                                                          *)
InHand(c) == IF pc = "send" /\ Conn = c /\ peer[c] = "open" THEN obuf ELSE <<>>

Queues(c) == \E i \in DOMAIN backlog : backlog[i] = c

ConnState(c) == IF cst[c] = "new" THEN "none"
                ELSE IF Queues(c) THEN "waiting"
                ELSE IF \E f \in Fds : fdtab[f] = c THEN "open" ELSE "closed"

ConnStates == [c \in Clients |-> ConnState(c)]
Ended      == {c \in Clients : cst[c] = "ended"}
Sending    == [c \in Clients |-> down[c] \o InHand(c)]

(* Nothing is owed to c: all it sent was read, all replies have reached    *)
(* it; once it has gone, no descriptor is left to it; or the service has   *)
(* gone.                                                                   *)
Settled(c) == \/ cst[c] # "ended" /\ up[c] = <<>> /\ down[c] = <<>> /\ InHand(c) = <<>>
              \/ cst[c] = "ended" /\ \A f \in Fds : fdtab[f] # c
              \/ ~alive
=============================================================================
