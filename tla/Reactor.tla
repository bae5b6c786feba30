------------------------------ MODULE Reactor ------------------------------
(***************************************************************************)
(* The reactor of Reactor/ (reactor.hpp, epoll.hpp, Sock.hpp) with the     *)
(* line calculator of reactor.cc as its task handler and clients that send *)
(* request lines: one thread, an edge-triggered epoll set, a map from      *)
(* descriptors to connection objects with an input and an output buffer.   *)
(*                                                                         *)
(* The steps of the thread are its system calls, since only there can the  *)
(* clients' progress show; what it computes between two of them belongs to *)
(* the first. A request line is two units of a byte stream, the second of  *)
(* which has the line end; a reply is two units, its header and the rest.  *)
(* The log is left out.                                                    *)
(***************************************************************************)
EXTENDS Naturals, Sequences, FiniteSets

CONSTANTS Clients,   (* one client, hence one connection, each             *)
          Fds,       (* the descriptors accept may return                  *)
          Free,      (* no connection                                      *)
          Listen,    (* _listen_fd                                         *)
          Kinds,     (* the kinds of request there are                     *)
          Settings,  (* the circumstances the server may run in            *)
          MaxReqs    (* bound: requests a client sends in its life         *)

(* "op": two integers and an operator; "noop": a line with no operator;    *)
(* "bad": an operator beside something std::stoi throws at, which ends the *)
(* process, as in -1+2, where the operator found first is the sign.        *)
ASSUME ReactorAssumption ==
  /\ Free \notin Clients
  /\ Listen \notin Fds
  /\ Kinds \subseteq {"op", "noop", "bad"}
  /\ Settings \subseteq [window : Nat \ {0}, cap : Nat \ {0},
                         kinds : SUBSET Kinds, fds : SUBSET Fds]
  /\ MaxReqs \in Nat

VARIABLES setting,  (* requests a client sends ahead of the replies, units *)
                    (* the kernel buffers towards a client, the kinds the  *)
                    (* clients send, the descriptors the process may have  *)
          fdtab,    (* the connection each descriptor refers to            *)
          conns,    (* _conns: the connection each object was made for     *)
          inbuf,    (* _inbuffer of each object                            *)
          outbuf,   (* _outbuffer of each object                           *)
          ready,    (* descriptors with an edge epoll_wait did not report  *)
          batch,    (* entries of _events that HandlerEvent did not visit  *)
          rpc,      (* where the thread is                                 *)
          cur,      (* the descriptor of the handler that runs             *)
          backlog,  (* connections that accept has not returned            *)
          up,       (* units sent by each client and not received          *)
          down,     (* units in the kernel towards each client             *)
          peer,     (* "open", or how the server sees the client's end     *)
          cst,      (* "new", "on" or "ended"                              *)
          asked,    (* the kinds of the requests each client has sent      *)
          rcvd,     (* number of units each client has received            *)
          cut,      (* clients whose reply once did not fit the kernel     *)
          alive     (* the server process exists                           *)

objVars    == <<conns, inbuf, outbuf>>
loopVars   == <<batch, rpc, cur>>
netVars    == <<up, down, peer>>
clientVars == <<setting, cst, asked, rcvd, cut>>
vars == <<fdtab, objVars, ready, loopVars, backlog, netVars, clientVars, alive>>

Init == /\ setting \in Settings
        /\ fdtab = [f \in Fds |-> Free]
        /\ conns = [f \in Fds |-> Free]
        /\ inbuf = [f \in Fds |-> <<>>]
        /\ outbuf = [f \in Fds |-> <<>>]
        /\ ready = {}
        /\ batch = {}
        /\ rpc = "wait"
        /\ cur = Listen
        /\ backlog = <<>>
        /\ up = [c \in Clients |-> <<>>]
        /\ down = [c \in Clients |-> <<>>]
        /\ peer = [c \in Clients |-> "open"]
        /\ cst = [c \in Clients |-> "new"]
        /\ asked = [c \in Clients |-> <<>>]
        /\ rcvd = [c \in Clients |-> 0]
        /\ cut = {}
        /\ alive = TRUE
-----------------------------------------------------------------------------
(* Units. Request k of a client is <<k, "part">>, <<k, "end">>; its reply  *)
(* is <<k, "head">>, <<k, "tail">>.                                        *)

RequestUnits(k) == << <<k, "part">>, <<k, "end">> >>

LineEnds(s) == {i \in DOMAIN s : s[i][2] = "end"}
HasLine(s)  == LineEnds(s) # {}
FirstEnd(s) == CHOOSE i \in LineEnds(s) : \A j \in LineEnds(s) : i <= j

Drop(s, n) == SubSeq(s, n + 1, Len(s))
Take(s, n) == SubSeq(s, 1, n)

(* The kernel has something for read on a connection: units, or its end.   *)
Readable(c) == up[c] # <<>> \/ peer[c] # "open"
-----------------------------------------------------------------------------
(* Loop and HandlerEvent.                                                  *)

ListenReady == IF backlog = <<>> THEN {} ELSE {Listen}

(* epoll_wait reports every edge behind which there still is something to  *)
(* read, and the level of the listening socket.                            *)
EpollWait == /\ rpc = "wait"
             /\ batch' = {f \in ready : Readable(fdtab[f])} \cup ListenReady
             /\ batch' # {}
             /\ ready' = {}
             /\ rpc' = "next"
             /\ UNCHANGED <<fdtab, objVars, cur, backlog, netVars, clientVars, alive>>

BatchDone == /\ rpc = "next"
             /\ batch = {}
             /\ rpc' = "wait"
             /\ UNCHANGED <<fdtab, objVars, ready, batch, cur, backlog, netVars, clientVars, alive>>

(* ConnectionHandler: look the descriptor up, run its receive handler. Its *)
(* EPOLLOUT branch is dead, nobody asks for that event, and what it does   *)
(* for EPOLLERR is ExcepHandler, which is empty.                           *)
Dispatch(f) == /\ rpc = "next"
               /\ f \in batch \ {Listen}
               /\ batch' = batch \ {f}
               /\ IF conns[f] = Free
                  THEN UNCHANGED <<rpc, cur>>
                  ELSE rpc' = "recv" /\ cur' = f
               /\ UNCHANGED <<fdtab, objVars, ready, backlog, netVars, clientVars, alive>>

(* AcceptHandler and AddConnection. insert leaves an object that is there  *)
(* already; EPOLL_CTL_ADD reports what arrived before it.                  *)
Accept(f) == /\ rpc = "next"
             /\ Listen \in batch
             /\ batch' = batch \ {Listen}
             /\ f \in setting.fds
             /\ fdtab[f] = Free
             /\ LET c == Head(backlog) IN
                  /\ fdtab' = [fdtab EXCEPT ![f] = c]
                  /\ IF conns[f] = Free
                     THEN conns' = [conns EXCEPT ![f] = c]
                     ELSE UNCHANGED conns
                  /\ ready' = IF Readable(c) THEN ready \cup {f} ELSE ready
             /\ backlog' = Tail(backlog)
             /\ UNCHANGED <<inbuf, outbuf, rpc, cur, netVars, clientVars, alive>>

(* Sock::Accept ends the process when accept finds no free descriptor.     *)
AcceptFails == /\ rpc = "next"
               /\ Listen \in batch
               /\ \A f \in setting.fds : fdtab[f] # Free
               /\ alive' = FALSE
               /\ UNCHANGED <<fdtab, objVars, ready, loopVars, backlog, netVars, clientVars>>
-----------------------------------------------------------------------------
(* RecvHandler, with CalulateTask as _taskHandler.                         *)

Conn == fdtab[cur]

(* The new _outbuffer: HandlerCalTask assigns the result over what is left *)
(* of the last reply, or, with no operator, leaves that where it is; then  *)
(* the header goes before it and a line end after it.                      *)
Reply(k) == << <<k, "head">> >>
            \o (IF asked[Conn][k] = "op" THEN <<>> ELSE outbuf[cur])
            \o << <<k, "tail">> >>

(* Mutant: CalulateTask does not erase the line from _inbuffer.            *)
TaskKeepsLine(s) ==
  IF ~HasLine(s)
  THEN /\ inbuf' = [inbuf EXCEPT ![cur] = s]
       /\ UNCHANGED <<outbuf, rpc, alive>>
  ELSE LET k == s[FirstEnd(s)][1] IN
       /\ inbuf' = [inbuf EXCEPT ![cur] = s]
       /\ outbuf' = [outbuf EXCEPT ![cur] = Reply(k)]
       /\ rpc' = "send"
       /\ UNCHANGED alive

(* CalulateTask on the input s: at most one line, the first, is taken out  *)
(* and answered. Nothing catches what std::stoi throws.                    *)
Task(s) ==
  IF ~HasLine(s)
  THEN /\ inbuf' = [inbuf EXCEPT ![cur] = s]
       /\ UNCHANGED <<outbuf, rpc, alive>>
  ELSE LET k == s[FirstEnd(s)][1] IN
       /\ inbuf' = [inbuf EXCEPT ![cur] = Drop(s, FirstEnd(s))]
       /\ IF asked[Conn][k] = "bad"
          THEN /\ alive' = FALSE
               /\ UNCHANGED <<outbuf, rpc>>
          ELSE /\ outbuf' = [outbuf EXCEPT ![cur] = Reply(k)]
               /\ rpc' = "send"
               /\ UNCHANGED alive

(* recv returns some of what has arrived, and the task handler is called.  *)
Recv == /\ rpc = "recv"
        /\ \E n \in 1 .. Len(up[Conn]) :
             /\ up' = [up EXCEPT ![Conn] = Drop(@, n)]
             /\ Task(inbuf[cur] \o Take(up[Conn], n))
        /\ UNCHANGED <<fdtab, conns, ready, batch, cur, backlog, down, peer, clientVars>>

(* Mutant: the loop is left after one recv.                                *)
RecvLeavesEarly == /\ rpc = "recv"
                   /\ rpc' = "next"
                   /\ UNCHANGED <<fdtab, objVars, ready, batch, cur, backlog, netVars, clientVars, alive>>

(* Mutant: the descriptor is closed at end of file, the object stays.      *)
RecvEndsAndCloses == /\ rpc = "recv"
                     /\ up[Conn] = <<>>
                     /\ rpc' = "next"
                     /\ IF peer[Conn] = "open"
                        THEN UNCHANGED <<fdtab, ready>>
                        ELSE /\ fdtab' = [fdtab EXCEPT ![cur] = Free]
                             /\ ready' = ready \ {cur}
                     /\ UNCHANGED <<objVars, batch, cur, backlog, netVars, clientVars, alive>>

(* The ways out of the loop: recv finds nothing more (EAGAIN), or the end  *)
(* of the stream, or an error. None of them closes anything or touches the *)
(* connection object.                                                      *)
RecvEnds == /\ rpc = "recv"
            /\ up[Conn] = <<>>
            /\ rpc' = "next"
            /\ UNCHANGED <<fdtab, objVars, ready, batch, cur, backlog, netVars, clientVars, alive>>
-----------------------------------------------------------------------------
(* SendHandler, called by CalulateTask; RecvHandler continues after it.    *)

(* Mutant: the output buffer is not cleared once it was sent.              *)
SentNotCleared == /\ UNCHANGED outbuf
                  /\ ready' = IF Readable(Conn) THEN ready \cup {cur} ELSE ready
                  /\ rpc' = "recv"

(* All sent: clear and EPOLL_CTL_MOD, which reports again what is there.   *)
Sent == /\ outbuf' = [outbuf EXCEPT ![cur] = <<>>]
        /\ ready' = IF Readable(Conn) THEN ready \cup {cur} ELSE ready
        /\ rpc' = "recv"

Least(a, b) == IF a < b THEN a ELSE b

(* send takes as much as the kernel has room for.                          *)
Send == /\ rpc = "send"
        /\ peer[Conn] = "open"
        /\ Len(down[Conn]) < setting.cap
        /\ LET n == Least(Len(outbuf[cur]), setting.cap - Len(down[Conn])) IN
             /\ down' = [down EXCEPT ![Conn] = @ \o Take(outbuf[cur], n)]
             /\ IF n = Len(outbuf[cur])
                THEN Sent
                ELSE /\ outbuf' = [outbuf EXCEPT ![cur] = Drop(@, n)]
                     /\ UNCHANGED <<ready, rpc>>
        /\ UNCHANGED <<fdtab, conns, inbuf, batch, cur, backlog, up, peer, clientVars, alive>>

(* EAGAIN: what is left of the reply stays in _outbuffer.                  *)
SendBlocked == /\ rpc = "send"
               /\ peer[Conn] = "open"
               /\ Len(down[Conn]) = setting.cap
               /\ rpc' = "recv"
               /\ cut' = cut \cup {Conn}
               /\ UNCHANGED <<fdtab, objVars, ready, batch, cur, backlog, netVars, setting, cst, asked, rcvd, alive>>

(* send to a client that has closed succeeds and is answered with a reset, *)
(* which may be there before the next call or not.                         *)
SendClosed == /\ rpc = "send"
              /\ peer[Conn] = "fin"
              /\ Sent
              /\ peer' = [peer EXCEPT ![Conn] = "rst"] \/ UNCHANGED peer
              /\ UNCHANGED <<fdtab, conns, inbuf, batch, cur, backlog, up, down, clientVars, alive>>

(* send to a reset connection fails, and ExcepHandler does nothing; or     *)
(* SIGPIPE, which nobody ignores, ends the process.                        *)
SendReset == /\ rpc = "send"
             /\ peer[Conn] = "rst"
             /\ \/ rpc' = "recv" /\ UNCHANGED alive
                \/ alive' = FALSE /\ UNCHANGED rpc
             /\ UNCHANGED <<fdtab, objVars, ready, batch, cur, backlog, netVars, clientVars>>

HandlerStep == \/ Recv \/ RecvEnds
               \/ Send \/ SendBlocked \/ SendClosed \/ SendReset
-----------------------------------------------------------------------------
(* The clients. Their arrivals are the edges of the epoll set.             *)

Edge(c) == {f \in Fds : fdtab[f] = c}

Connect(c) == /\ alive
              /\ cst[c] = "new"
              /\ cst' = [cst EXCEPT ![c] = "on"]
              /\ backlog' = Append(backlog, c)
              /\ UNCHANGED <<fdtab, objVars, ready, loopVars, netVars, setting, asked, rcvd, cut, alive>>

Answered(c) == rcvd[c] \div 2

Ask(c, q) == /\ alive
             /\ cst[c] = "on"
             /\ Len(asked[c]) < MaxReqs
             /\ Len(asked[c]) < Answered(c) + setting.window
             /\ asked' = [asked EXCEPT ![c] = Append(@, q)]
             /\ up' = [up EXCEPT ![c] = @ \o RequestUnits(Len(asked[c]) + 1)]
             /\ ready' = ready \cup Edge(c)
             /\ UNCHANGED <<fdtab, objVars, loopVars, backlog, down, peer, setting, cst, rcvd, cut, alive>>

GetReply(c) == /\ cst[c] = "on"
               /\ \E n \in 1 .. Len(down[c]) :
                    /\ down' = [down EXCEPT ![c] = Drop(@, n)]
                    /\ rcvd' = [rcvd EXCEPT ![c] = @ + n]
               /\ UNCHANGED <<fdtab, objVars, ready, loopVars, backlog, up, peer, setting, cst, asked, cut, alive>>

(* A client may end at any moment; with a reset if it leaves units unread. *)
Leave(c) == /\ cst[c] = "on"
            /\ cst' = [cst EXCEPT ![c] = "ended"]
            /\ peer' = [peer EXCEPT ![c] = IF down[c] = <<>> THEN "fin" ELSE "rst"]
            /\ down' = [down EXCEPT ![c] = <<>>]
            /\ ready' = ready \cup Edge(c)
            /\ UNCHANGED <<fdtab, objVars, loopVars, backlog, up, setting, asked, rcvd, cut, alive>>

ClientStep(c) == \/ Connect(c) \/ GetReply(c) \/ Leave(c)
                 \/ \E q \in setting.kinds : Ask(c, q)
-----------------------------------------------------------------------------
ServerStep == /\ alive
              /\ \/ EpollWait \/ BatchDone \/ AcceptFails \/ HandlerStep
                 \/ \E f \in Fds : Dispatch(f) \/ Accept(f)

Next == ServerStep \/ \E c \in Clients : ClientStep(c)

Spec == Init /\ [][Next]_vars

(* The one thread runs whenever a call of its returns, and a client reads  *)
(* its replies. epoll_wait visits every descriptor of a batch, so no       *)
(* fairness between descriptors has to be assumed.                         *)
FairSpec == /\ Spec
            /\ WF_vars(ServerStep)
            /\ \A c \in Clients : WF_vars(GetReply(c))
-----------------------------------------------------------------------------
(* Properties.                                                             *)

Units == (1 .. MaxReqs) \X {"part", "end", "head", "tail"}

InHandler(f) == /\ rpc \in {"recv", "send"}
                /\ cur = f

(* No lost edge: epoll reports an arrival once, so what is unread on a     *)
(* registered connection needs an edge that is still to be reported, an    *)
(* entry of the batch still to be visited, or the running handler, which   *)
(* calls recv once more before it leaves.                                  *)
NoLostEdge == \A f \in Fds :
                fdtab[f] # Free /\ up[fdtab[f]] # <<>>
                  => f \in ready \cup batch \/ InHandler(f)

(* The object found under a descriptor was made for the connection the     *)
(* descriptor refers to, so no connection inherits buffers from one that   *)
(* had the descriptor before.                                              *)
OwnObject == \A f \in Fds : fdtab[f] # Free => conns[f] = fdtab[f]

(* Units of the replies to the first n requests, and of the requests.      *)
Replies(n) ==
  [i \in 1 .. 2 * n |-> <<(i + 1) \div 2, IF i % 2 = 1 THEN "head" ELSE "tail">>]
Requests(n) ==
  [i \in 1 .. 2 * n |-> <<(i + 1) \div 2, IF i % 2 = 1 THEN "part" ELSE "end">>]

(* Exactly one whole reply per line, in the order of the requests: what is *)
(* on its way to a client continues what it has received, up to the reply  *)
(* of the last line taken from its input, and the rest of its requests are *)
(* in its input buffer and in the kernel, complete and in order. A client  *)
(* whose reply once did not fit the kernel's buffer has no such promise.   *)
RepliesInOrder ==
  alive => \A f \in Fds : LET c == fdtab[f] IN
    c # Free /\ c \notin cut /\ cst[c] = "on" =>
      LET rest  == inbuf[f] \o up[c]
          taken == Len(asked[c]) - Cardinality(LineEnds(rest))
      IN /\ rest = Drop(Requests(Len(asked[c])), 2 * Len(asked[c]) - Len(rest))
         /\ down[c] \o outbuf[f] = Drop(Replies(taken), rcvd[c])

(* Clients that wait for each reply and send what can be parsed, room in   *)
(* the kernel for one reply, and a descriptor for each of them.            *)
Calm == /\ setting.window = 1
        /\ setting.cap >= 2
        /\ "bad" \notin setting.kinds
        /\ Cardinality(Clients) <= Cardinality(setting.fds)

(* The process lives on, whenever such clients connect, ask, read, leave.  *)
ServerSurvives == Calm => alive

(* The loop goes to sleep in epoll_wait only when each such client that    *)
(* stays has received, or can, the replies to all that it asked: neither   *)
(* an edge that was consumed, nor a line left in _inbuffer, nor a reply    *)
(* left in _outbuffer is slept over.                                       *)
Sleeps == rpc = "wait" /\ ListenReady = {} /\ \A f \in ready : ~Readable(fdtab[f])

SleepsWhenDone ==
  Calm /\ Sleeps => \A c \in Clients :
                      cst[c] = "on" => rcvd[c] + Len(down[c]) = 2 * Len(asked[c])

(* The reactor as an echo service with its own reply: a read that has the  *)
(* end of a line is answered by a header and the rest, any other by        *)
(* nothing. A reply in _outbuffer of a client that stays counts as sent.   *)
LineReply(s) == IF HasLine(s)
                THEN LET k == s[FirstEnd(s)][1] IN << <<k, "head">>, <<k, "tail">> >>
                ELSE <<>>

LineMessages(c) == {RequestUnits(k) : k \in 1 .. MaxReqs}

Accepted(c) == \E f \in Fds : fdtab[f] = c
InHand(c)   == IF Accepted(c) THEN outbuf[CHOOSE f \in Fds : fdtab[f] = c] ELSE <<>>

ConnState(c) == IF cst[c] = "new" THEN "none" ELSE IF Accepted(c) THEN "open" ELSE "waiting"
ConnStates   == [c \in Clients |-> ConnState(c)]
Ended        == {c \in Clients : cst[c] = "ended"}
Returning    == [c \in Clients |-> IF c \in Ended THEN <<>> ELSE down[c] \o InHand(c)]
Received     == [c \in Clients |-> Take(Replies(rcvd[c]), rcvd[c])]

Echo == INSTANCE EchoService WITH
          conn <- ConnStates, gone <- Ended, down <- Returning, got <- Received,
          Reply <- LineReply, Messages <- LineMessages, Limit <- Cardinality(Clients)

(* With such clients, what the edges, the batches, the two buffers of each *)
(* object and the order of work come to is an echo service that answers    *)
(* each line when it reads its end.                                        *)
CalmImplementsEcho == Echo!Init /\ [][Calm => Echo!Next]_(Echo!evars)

(* Each request of such a client is answered, if it stays.                 *)
EveryRequestAnswered ==
  Calm => \A c \in Clients : \A k \in 1 .. MaxReqs :
            Len(asked[c]) = k ~> Answered(c) >= k \/ cst[c] = "ended"
=============================================================================
