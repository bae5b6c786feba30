----------------------------- MODULE PoolServer -----------------------------
(***************************************************************************)
(* The TCP echo server of tcp_socket (server_tcp.hpp) with its clients     *)
(* (client_tcp.hpp): main accepts a connection and pushes socketIO with    *)
(* its descriptor to the thread pool; the worker that runs the task reads, *)
(* writes the text back, and closes the descriptor when read ends.         *)
(*                                                                         *)
(* The kernel is modelled as the server sees it: a table of descriptors    *)
(* that close and accept reuse, a listen queue, and for each connection a  *)
(* byte stream each way and how the client's end was closed. A byte stream *)
(* is counted in units. A unit and the words " server[received]" that a    *)
(* write puts behind the text are shorter than a buffer of 1024 bytes, and *)
(* the words count with the last unit of their text: what a stream holds   *)
(* is which bytes of which client are in it, in which order.               *)
(***************************************************************************)
EXTENDS ThreadPool

CONSTANTS Clients,    (* one client process, hence one connection, each    *)
          Patient,    (* the clients nobody ever kills                     *)
          Fds,        (* the descriptors accept may return                 *)
          Free,       (* the entry of a closed descriptor                  *)
          LineLens,   (* how many units the user may enter as one line     *)
          MaxUnits    (* bound: units one client sends in its life         *)

(* A task is its descriptor, all the code keeps of a connection, and, for  *)
(* the properties only, the connection it was accepted for.                *)
ASSUME ServerAssumption ==
  /\ Tasks = Fds \X Clients
  /\ Patient \subseteq Clients
  /\ Free \notin Clients
  /\ LineLens \subseteq Nat
  /\ MaxUnits \in Nat

VARIABLES fdtab,    (* the connection each descriptor refers to            *)
          backlog,  (* connections that accept has not returned            *)
          io,       (* where each worker is in socketIO                    *)
          rbuf,     (* what the worker's last read put in its buffer       *)
          up,       (* units sent by each client and not read              *)
          down,     (* units sent to each client and not read              *)
          peer,     (* "open", or how the server sees the client's end     *)
          cst,      (* where each client is in its loop                    *)
          sent,     (* number of units each client has sent                *)
          rcvd,     (* number of units each client has received            *)
          alive     (* the server process exists                           *)

clientVars == <<cst, sent, rcvd>>
netVars    == <<up, down, peer>>
ioVars     == <<io, rbuf>>
vars       == <<poolVars, fdtab, backlog, ioVars, netVars, clientVars, alive>>

ServerInit == /\ Init
              /\ fdtab = [f \in Fds |-> Free]
              /\ backlog = <<>>
              /\ io = [w \in Workers |-> "read"]
              /\ rbuf = [w \in Workers |-> <<>>]
              /\ up = [c \in Clients |-> <<>>]
              /\ down = [c \in Clients |-> <<>>]
              /\ peer = [c \in Clients |-> "open"]
              /\ cst = [c \in Clients |-> "new"]
              /\ sent = [c \in Clients |-> 0]
              /\ rcvd = [c \in Clients |-> 0]
              /\ alive = TRUE
-----------------------------------------------------------------------------
(* The main thread.                                                        *)

(* accept and the call of push. Any free descriptor may come back: the log *)
(* and the standard streams take and give back the lower ones. With no     *)
(* free descriptor accept fails and the loop continues with no change.     *)
Accept(f) == /\ backlog # <<>>
             /\ fdtab[f] = Free
             /\ PushCall(<<f, Head(backlog)>>)
             /\ fdtab' = [fdtab EXCEPT ![f] = Head(backlog)]
             /\ backlog' = Tail(backlog)
             /\ UNCHANGED <<ioVars, netVars, clientVars, alive>>
-----------------------------------------------------------------------------
(* socketIO, in the worker that runs its task.                             *)

(* socketIO knows its descriptor; the kernel knows the connection.         *)
Socket(w) == wtask[w][1]
Conn(w)   == fdtab[Socket(w)]

InIO(w, l) == /\ wpc[w] = "run"
              /\ io[w] = l

IOGoto(w, l) == io' = [io EXCEPT ![w] = l]

(* Mutant: the buffer is static, one for all the workers.                  *)
ReadStaticBuffer(w) ==
  /\ InIO(w, "read")
  /\ Conn(w) # Free
  /\ \E n \in 1 .. Len(up[Conn(w)]) :
       /\ rbuf' = [v \in Workers |-> SubSeq(up[Conn(w)], 1, n)]
       /\ up' = [up EXCEPT ![Conn(w)] = SubSeq(@, n + 1, Len(@))]
  /\ IOGoto(w, "write")
  /\ UNCHANGED <<poolVars, fdtab, backlog, down, peer, clientVars, alive>>

(* read returns some of what has arrived.                                  *)
ReadData(w) ==
  /\ InIO(w, "read")
  /\ Conn(w) # Free
  /\ \E n \in 1 .. Len(up[Conn(w)]) :
       /\ rbuf' = [rbuf EXCEPT ![w] = SubSeq(up[Conn(w)], 1, n)]
       /\ up' = [up EXCEPT ![Conn(w)] = SubSeq(@, n + 1, Len(@))]
  /\ IOGoto(w, "write")
  /\ UNCHANGED <<poolVars, fdtab, backlog, down, peer, clientVars, alive>>

(* Mutant: the branch of end of file does not leave the loop.              *)
ReadEndsWithoutBreak(w) ==
  /\ InIO(w, "read")
  /\ Conn(w) # Free
  /\ \/ peer[Conn(w)] = "fin" /\ up[Conn(w)] = <<>>
     \/ peer[Conn(w)] = "rst"
  /\ rbuf' = [rbuf EXCEPT ![w] = <<>>]
  /\ IOGoto(w, "write")
  /\ UNCHANGED <<poolVars, fdtab, backlog, netVars, clientVars, alive>>

(* Mutant: the branch of end of file closes, and so does the code after    *)
(* the loop.                                                               *)
ReadEndsAndCloses(w) ==
  /\ InIO(w, "read")
  /\ Conn(w) # Free
  /\ \/ peer[Conn(w)] = "fin" /\ up[Conn(w)] = <<>>
     \/ peer[Conn(w)] = "rst"
  /\ fdtab' = [fdtab EXCEPT ![Socket(w)] = Free]
  /\ IOGoto(w, "close")
  /\ UNCHANGED <<poolVars, backlog, rbuf, netVars, clientVars, alive>>

(* read returns 0 after the last unit, or fails on a reset connection,     *)
(* whose last units it may still deliver first: either way the loop ends.  *)
ReadEnds(w) ==
  /\ InIO(w, "read")
  /\ Conn(w) # Free
  /\ \/ peer[Conn(w)] = "fin" /\ up[Conn(w)] = <<>>
     \/ peer[Conn(w)] = "rst"
  /\ IOGoto(w, "close")
  /\ UNCHANGED <<poolVars, fdtab, backlog, rbuf, netVars, clientVars, alive>>

(* Mutant: one reply per connection, with no loop around read and write.   *)
WriteAndLeave(w) ==
  /\ InIO(w, "write")
  /\ peer[Conn(w)] = "open"
  /\ down' = [down EXCEPT ![Conn(w)] = @ \o rbuf[w]]
  /\ IOGoto(w, "close")
  /\ UNCHANGED <<poolVars, fdtab, backlog, rbuf, up, peer, clientVars, alive>>

(* write to a client that has not closed.                                  *)
WriteOpen(w) ==
  /\ InIO(w, "write")
  /\ peer[Conn(w)] = "open"
  /\ down' = [down EXCEPT ![Conn(w)] = @ \o rbuf[w]]
  /\ IOGoto(w, "read")
  /\ UNCHANGED <<poolVars, fdtab, backlog, rbuf, up, peer, clientVars, alive>>

(* write to a client that has closed succeeds; its kernel answers with a   *)
(* reset, which may be there before this worker's next call or not.        *)
WriteClosed(w) ==
  /\ InIO(w, "write")
  /\ peer[Conn(w)] = "fin"
  /\ peer' = [peer EXCEPT ![Conn(w)] = "rst"] \/ UNCHANGED peer
  /\ IOGoto(w, "read")
  /\ UNCHANGED <<poolVars, fdtab, backlog, rbuf, up, down, clientVars, alive>>

(* write to a reset connection fails with ECONNRESET, which socketIO does  *)
(* not look at, or with EPIPE, and then SIGPIPE, which nobody ignores,     *)
(* ends the process.                                                       *)
WriteReset(w) ==
  /\ InIO(w, "write")
  /\ peer[Conn(w)] = "rst"
  /\ \/ /\ IOGoto(w, "read")
        /\ UNCHANGED alive
     \/ /\ alive' = FALSE
        /\ UNCHANGED io
  /\ UNCHANGED <<poolVars, fdtab, backlog, rbuf, netVars, clientVars>>

(* Mutant: socketIO ends without close.                                    *)
CloseForgotten(w) ==
  /\ InIO(w, "close")
  /\ IOGoto(w, "back")
  /\ UNCHANGED <<poolVars, fdtab, backlog, rbuf, netVars, clientVars, alive>>

(* close(socket).                                                          *)
CloseSocket(w) ==
  /\ InIO(w, "close")
  /\ fdtab' = [fdtab EXCEPT ![Socket(w)] = Free]
  /\ IOGoto(w, "back")
  /\ UNCHANGED <<poolVars, backlog, rbuf, netVars, clientVars, alive>>

(* socketIO returns to _start_func.                                        *)
Return(w) ==
  /\ io[w] = "back"
  /\ Finish(w)
  /\ IOGoto(w, "read")
  /\ rbuf' = [rbuf EXCEPT ![w] = <<>>]
  /\ UNCHANGED <<fdtab, backlog, netVars, clientVars, alive>>

SocketIO(w) == \/ ReadData(w) \/ ReadEnds(w)
               \/ WriteOpen(w) \/ WriteClosed(w) \/ WriteReset(w)
               \/ CloseSocket(w) \/ Return(w)
-----------------------------------------------------------------------------
(* The clients.                                                            *)

serverVars == <<poolVars, fdtab, ioVars, alive>>

Connect(c) == /\ alive
              /\ cst[c] = "new"
              /\ cst' = [cst EXCEPT ![c] = "ready"]
              /\ backlog' = Append(backlog, c)
              /\ UNCHANGED <<serverVars, netVars, sent, rcvd>>

(* n units of client c, the first of them the one after its a-th.          *)
Stretch(c, a, n) == [i \in 1 .. n |-> <<c, a + i>>]

(* getline and write. An empty line is a write of no bytes, after which    *)
(* the client waits as after any other.                                    *)
Send(c) == /\ alive
           /\ cst[c] = "ready"
           /\ \E n \in LineLens :
                /\ sent[c] + n <= MaxUnits
                /\ up' = [up EXCEPT ![c] = @ \o Stretch(c, sent[c], n)]
                /\ sent' = [sent EXCEPT ![c] = @ + n]
           /\ cst' = [cst EXCEPT ![c] = "await"]
           /\ UNCHANGED <<serverVars, backlog, down, peer, rcvd>>

(* One read, of some of what has arrived, and back to getline.             *)
Receive(c) == /\ cst[c] = "await"
              /\ \E n \in 1 .. Len(down[c]) :
                   /\ down' = [down EXCEPT ![c] = SubSeq(@, n + 1, Len(@))]
                   /\ rcvd' = [rcvd EXCEPT ![c] = @ + n]
              /\ cst' = [cst EXCEPT ![c] = "ready"]
              /\ UNCHANGED <<serverVars, backlog, up, peer, sent>>

(* The kernel closes the socket of a client that ends: with a reset if it  *)
(* leaves units unread.                                                    *)
Hangup(c) == /\ cst' = [cst EXCEPT ![c] = "ended"]
             /\ peer' = [peer EXCEPT ![c] = IF down[c] = <<>> THEN "fin" ELSE "rst"]
             /\ down' = [down EXCEPT ![c] = <<>>]
             /\ UNCHANGED <<serverVars, backlog, up, sent, rcvd>>

(* The loop of the client has no exit: its user kills it, at any moment.   *)
Kill(c) == /\ c \notin Patient
           /\ cst[c] \in {"ready", "await"}
           /\ Hangup(c)

(* The connection broke: read or the next write ends the client.           *)
Disconnected(c) == /\ ~alive
                   /\ cst[c] \in {"ready", "await"}
                   /\ down[c] = <<>>
                   /\ Hangup(c)

ClientStep(c) == \/ Connect(c) \/ Send(c) \/ Receive(c)
                 \/ Kill(c) \/ Disconnected(c)
-----------------------------------------------------------------------------
PoolStep == /\ PoolNext
            /\ UNCHANGED <<fdtab, backlog, ioVars, netVars, clientVars, alive>>

ServerStep == /\ alive
              /\ \/ PoolStep
                 \/ \E f \in Fds : Accept(f)
                 \/ \E w \in Workers : SocketIO(w)

ServerNext == ServerStep \/ \E c \in Clients : ClientStep(c)

ServerSpec == ServerInit /\ [][ServerNext]_vars

(* Every thread that can run does. SF: main gets _mtx in the end although  *)
(* workers woken for nothing may take it again and again. The users of the *)
(* clients that are not patient kill them in the end; nobody has to type.  *)
Lifted(A) == A /\ alive /\ UNCHANGED <<fdtab, backlog, ioVars, netVars, clientVars, alive>>

ServerFairness ==
  /\ \A w \in Workers : /\ WF_vars(Lifted(PoolWorkerStep(w)))
                        /\ WF_vars(Lifted(StartWorker(w)))
                        /\ WF_vars(alive /\ SocketIO(w))
  /\ WF_vars(Lifted(PushStep))
  /\ SF_vars(Lifted(PushLock))
  /\ WF_vars(alive /\ \E f \in Fds : Accept(f))
  /\ \A c \in Clients : WF_vars(Kill(c)) /\ WF_vars(Receive(c))

FairServerSpec == ServerSpec /\ ServerFairness
-----------------------------------------------------------------------------
(* Properties.                                                             *)

(* The tasks whose close is still to come: on their way to the queue, in   *)
(* it, or in a worker that has not called close.                           *)
OpenTasks == Arriving \cup Queued
               \cup ({wtask[w] : w \in {v \in Workers : io[v] # "back"}} \ {NoTask})

(* The descriptor in a task keeps its meaning until the worker closes it:  *)
(* it refers to the connection it was accepted for, whatever was closed    *)
(* and accepted meanwhile, and no other task has the same descriptor.      *)
(* A descriptor that no task is left to close is free.                     *)
FdOwned == /\ \A t \in OpenTasks : fdtab[t[1]] = t[2]
           /\ \A s, t \in OpenTasks : s[1] = t[1] => s = t
           /\ \A f \in Fds : fdtab[f] # Free => \E t \in OpenTasks : t[1] = f

InHand(c) == IF \E w \in Workers : InIO(w, "write") /\ wtask[w][2] = c
             THEN rbuf[CHOOSE w \in Workers : InIO(w, "write") /\ wtask[w][2] = c]
             ELSE <<>>

(* No cross-talk: what is on its way back to a client, in the hands of its *)
(* worker and on its way to the server, in this order, is exactly what the *)
(* client sent and has not got back, although all workers share one        *)
(* process and descriptors change their owners.                            *)
EchoInOrder ==
  \A c \in Clients : cst[c] # "ended" =>
    down[c] \o InHand(c) \o up[c] = Stretch(c, rcvd[c], sent[c] - rcvd[c])

(* The server never hangs up on a client: it closes a connection only      *)
(* after the client closed it.                                             *)
NoEarlyClose ==
  [][\A f \in Fds : fdtab[f] # Free /\ fdtab'[f] # fdtab[f]
                      => fdtab'[f] = Free /\ cst[fdtab[f]] = "ended"]_vars

(* Clients that come and go at any moment do not end the server as long as *)
(* each line they send fits one read.                                      *)
ServerSurvives == alive

(* The server as an echo service, whose reply has the units of the text,   *)
(* the last of them with the words behind it. A client that has connected  *)
(* is in the listen queue, under a descriptor, or done with; what a worker *)
(* has read for a client that stays is as good as sent.                    *)
Messages(c) == {Stretch(c, a, n) : a \in 0 .. MaxUnits, n \in LineLens}
Reply(text) == text

ConnState(c) == IF cst[c] = "new" THEN "none"
                ELSE IF \E i \in DOMAIN backlog : backlog[i] = c THEN "waiting"
                ELSE IF \E f \in Fds : fdtab[f] = c THEN "open" ELSE "closed"

ConnStates == [c \in Clients |-> ConnState(c)]
Ended      == {c \in Clients : cst[c] = "ended"}
Returning  == [c \in Clients |-> down[c] \o (IF c \in Ended THEN <<>> ELSE InHand(c))]
Received   == [c \in Clients |-> Stretch(c, 0, rcvd[c])]

Echo == INSTANCE EchoService WITH
          conn <- ConnStates, gone <- Ended, down <- Returning, got <- Received,
          Limit <- Cardinality(Clients)

(* However the workers take turns, the server does what an echo service    *)
(* may: it accepts each connection once, answers what it reads, in order   *)
(* and with nothing else, hangs up after the client has, and ends, if at   *)
(* all, while a client that has gone is still connected.                   *)
ImplementsEcho == Echo!Spec

(* Whoever waits for an answer to what it sent does not wait for somebody  *)
(* who waits for it: the answer is there, or the connection is on its way  *)
(* to a worker, or the worker that has it is on its way to read or write   *)
(* and will not block. So only after an empty line do a client and its     *)
(* worker read from each other.                                            *)
OnItsWay(c) == \/ \E i \in DOMAIN backlog : backlog[i] = c
               \/ \E t \in Arriving \cup Queued : t[2] = c
               \/ \E w \in Workers : wpc[w] = "unlock" /\ wtask[w][2] = c

AtWork(w, c) == /\ InIO(w, "write") \/ (InIO(w, "read") /\ up[c] # <<>>)
                /\ wtask[w][2] = c

NoMutualWait ==
  \A c \in Clients : cst[c] = "await" /\ rcvd[c] < sent[c]
                        => down[c] # <<>> \/ OnItsWay(c) \/ \E w \in Workers : AtWork(w, c)

(* A client that asks its user for the next line has got back all that it  *)
(* sent, if each line fits one read: otherwise it takes the echo of a part *)
(* of its line for the answer, and is behind from then on.                 *)
ClientsInStep == \A c \in Clients : cst[c] = "ready" => rcvd[c] = sent[c]

(* Every descriptor of a client that has ended is given back: again and    *)
(* again there is none, and who has ended does not come back.              *)
NoFdLeak == []<>(\A f \in Fds : fdtab[f] # Free => cst[fdtab[f]] # "ended")

(* A client that stays gets its answer, however long the clients before it *)
(* hold the workers, as long as fewer clients stay than there are workers  *)
(* and descriptors.                                                        *)
PatientServed == \A c \in Patient : cst[c] = "await" ~> cst[c] = "ready"
=============================================================================
