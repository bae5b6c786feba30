---------------------------- MODULE EpollServer ----------------------------
(***************************************************************************)
(* The server of epoll/ (epollServer.hpp): level-triggered, with no table  *)
(* of its own. The epoll set is the open descriptors: accept adds one, and *)
(* close takes it out, whether EPOLL_CTL_DEL came before or not. A name    *)
(* that the select server uses too has a prefix here, since the proofs are *)
(* about both.                                                             *)
(***************************************************************************)
EXTENDS EchoNet

VARIABLE events  (* entries of _events that HandlerEvent did not visit     *)

epollVars == <<evVars, events>>

EpollInit == NetInit /\ events = {}

(* The text behind a prefix.                                               *)
EpollReply(s) == << <<Listen, 0, "head">> >> \o s
-----------------------------------------------------------------------------
EpollWait == /\ pc = "wait"
             /\ events' = {f \in Fds \cup {Listen} : IsReady(f)}
             /\ events' # {}
             /\ pc' = "scan"
             /\ UNCHANGED <<fdtab, backlog, netVars, clientVars, sendVars, alive>>

(* HandlerEvent visits the entry of f. The kernel's order is not known.    *)
Visit(f) == /\ pc = "scan"
            /\ f \in events
            /\ events' = events \ {f}

BatchEnds == /\ pc = "scan"
             /\ events = {}
             /\ pc' = "wait"
             /\ UNCHANGED <<fdtab, backlog, netVars, clientVars, sendVars, alive, events>>

(* Accept and EPOLL_CTL_ADD.                                               *)
Accept(f) == /\ Visit(Listen)
             /\ Accepts(f)
             /\ UNCHANGED <<netVars, clientVars, pc, sendVars, alive>>

(* Sock::Accept ends the process when there is no free descriptor.         *)
AcceptFails == /\ Visit(Listen)
               /\ NoDescriptor
               /\ alive' = FALSE
               /\ UNCHANGED <<fdtab, backlog, netVars, clientVars, pc, sendVars>>

(* Mutant: an entry is read until nothing is left.                         *)
ReadTextAgain(f) == /\ pc = "scan"
                    /\ f \in events \ {Listen}
                    /\ \E n \in 1 .. Len(up[fdtab[f]]) :
                         /\ Reads(f, n)
                         /\ StartSend(f, EpollReply(Take(up[fdtab[f]], n)))
                    /\ UNCHANGED <<fdtab, backlog, down, peer, clientVars, alive, events>>

(* read returns text.                                                      *)
ReadText(f) == /\ f # Listen
               /\ Visit(f)
               /\ \E n \in 1 .. Len(up[fdtab[f]]) :
                    /\ Reads(f, n)
                    /\ StartSend(f, EpollReply(Take(up[fdtab[f]], n)))
               /\ UNCHANGED <<fdtab, backlog, down, peer, clientVars, alive>>

(* Mutant: the test is n <= 1 where the code has n == 0.                   *)
ReadEndsEarly(f) == /\ f # Listen
                    /\ Visit(f)
                    /\ ReadsZero(f) \/ ReadsError(f) \/ Len(up[fdtab[f]]) = 1
                    /\ fdtab' = [fdtab EXCEPT ![f] = Free]
                    /\ UNCHANGED <<backlog, netVars, clientVars, pc, sendVars, alive>>

(* Mutant: the end of the stream is taken out of the epoll set, not closed.*)
ReadEndsWithoutClose(f) == /\ f # Listen
                           /\ Visit(f)
                           /\ ReadsZero(f) \/ ReadsError(f)
                           /\ UNCHANGED fdtab
                           /\ UNCHANGED <<backlog, netVars, clientVars, pc, sendVars, alive>>

(* read returns 0 or fails: close.                                         *)
ReadEnds(f) == /\ f # Listen
               /\ Visit(f)
               /\ ReadsZero(f) \/ ReadsError(f)
               /\ fdtab' = [fdtab EXCEPT ![f] = Free]
               /\ UNCHANGED <<backlog, netVars, clientVars, pc, sendVars, alive>>

(* HandlerEvent.                                                           *)
EpollHandler == \/ AcceptFails \/ BatchEnds
                \/ \E f \in Fds : Accept(f) \/ ReadText(f) \/ ReadEnds(f)

EpollStep == /\ alive
             /\ \/ EpollWait
                \/ EpollHandler
                \/ SendStep /\ UNCHANGED events

EpollNext == \/ EpollStep
             \/ \E c \in Clients : ClientStep(c) /\ UNCHANGED events

EpollSpec == EpollInit /\ [][EpollNext]_epollVars

(* The one thread runs whenever it is not blocked, and clients read. A     *)
(* batch holds every ready descriptor, so each is visited.                 *)
EpollFairSpec == /\ EpollSpec
                 /\ WF_epollVars(EpollStep)
                 /\ \A c \in Clients : WF_epollVars(Hear(c) /\ UNCHANGED events)
-----------------------------------------------------------------------------
(* Properties.                                                             *)

(* What epoll_wait reported is still so when the loop comes to it, also    *)
(* for a descriptor that was closed and accepted again within one batch:   *)
(* no call the thread is about to make blocks.                             *)
BatchNeverBlocks == pc = "scan" => \A f \in events : IsReady(f)

(* Whatever the other clients do, a client that stays gets its replies, as *)
(* long as all clients read theirs, and the descriptor of one that has     *)
(* ended is given back, while there is a service.                          *)
EpollServes == \A c \in Clients : []<>Settled(c)

EpollEcho == INSTANCE EchoService WITH Reply <- EpollReply,
          conn <- ConnStates, gone <- Ended, down <- Sending, Limit <- Cardinality(Fds)

(* The server keeps what an echo service promises, with its own reply; it  *)
(* may end when it has as many connections as there are descriptors.       *)
EpollImplementsEcho == EpollEcho!Spec
=============================================================================
