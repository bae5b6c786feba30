----------------------------- MODULE PollServer -----------------------------
(***************************************************************************)
(* The server of poll/ (pollServer.hpp): one array of descriptors that     *)
(* poll marks; while a connection waits to be accepted, HandlerEvent       *)
(* accepts one and reads nothing.                                          *)
(***************************************************************************)
EXTENDS EchoNet

CONSTANTS Size,   (* max_fdset                                             *)
          Empty   (* default_val                                           *)

ASSUME PollAssumption == Size \in Nat \ {0} /\ Empty \notin Fds \cup {Listen}

VARIABLES slots,    (* the member fd of each _rfds[i], 1 for 0 of the code *)
          revents,  (* the entries poll marked, less those visited         *)
          pos       (* the entry RecvEvent is at                           *)

pollVars == <<slots, revents, pos>>
vars     == <<evVars, pollVars>>

Slots == 1 .. Size

Init == /\ NetInit
        /\ slots = [i \in Slots |-> IF i = 1 THEN Listen ELSE Empty]
        /\ revents = {}
        /\ pos = 2

(* RecvEvent sends back what it received.                                  *)
Reply(s) == s
-----------------------------------------------------------------------------
(* poll marks the entries that are ready. ServerStart enters HandlerEvent, *)
(* which is in RecvEvent unless the entry of the listening descriptor is   *)
(* marked.                                                                 *)
Poll == /\ pc = "wait"
        /\ revents' = {i \in Slots : IsReady(slots[i])}
        /\ revents' # {}
        /\ pos' = 2
        /\ pc' = "scan"
        /\ UNCHANGED <<fdtab, backlog, netVars, clientVars, sendVars, alive, slots>>

Enter(f) ==
  LET empty == {j \in Slots : slots[j] = Empty} IN
  IF empty = {} THEN UNCHANGED slots
  ELSE slots' = [slots EXCEPT ![CHOOSE j \in empty : \A k \in empty : j <= k] = f]

(* Mutant: the new descriptor is entered nowhere.                          *)
AcceptNotEntered(f) ==
  /\ pc = "scan"
  /\ 1 \in revents
  /\ Accepts(f)
  /\ revents' = {}
  /\ pc' = "wait"
  /\ UNCHANGED <<netVars, clientVars, sendVars, alive, slots, pos>>

(* ListenEvent. The branch of RecvEvent is not taken this time.            *)
ListenEvent(f) ==
  /\ pc = "scan"
  /\ 1 \in revents
  /\ Accepts(f)
  /\ Enter(f)
  /\ revents' = {}
  /\ pc' = "wait"
  /\ UNCHANGED <<netVars, clientVars, sendVars, alive, pos>>

(* With no free descriptor accept fails: the loop will poll, find the      *)
(* connection still waiting, and fail again, and read nothing meanwhile.   *)
ListenFails ==
  /\ pc = "scan"
  /\ 1 \in revents
  /\ NoDescriptor
  /\ revents' = {}
  /\ pc' = "wait"
  /\ UNCHANGED <<fdtab, backlog, netVars, clientVars, sendVars, alive, slots, pos>>

(* RecvEvent: the marked entries it has not passed.                        *)
Hits == {i \in pos .. Size : i \in revents /\ slots[i] # Empty}

AtHit(i) == /\ pc = "scan"
            /\ 1 \notin revents
            /\ i \in Hits
            /\ \A j \in Hits : i <= j

ScanEnds == /\ pc = "scan"
            /\ 1 \notin revents
            /\ Hits = {}
            /\ pc' = "wait"
            /\ UNCHANGED <<fdtab, backlog, netVars, clientVars, sendVars, alive, pollVars>>

(* Mutant: an entry is read until nothing is left.                         *)
RecvTextAgain ==
  \E i \in Slots : LET f == slots[i] IN
    /\ AtHit(i)
    /\ \E n \in 1 .. Len(up[fdtab[f]]) :
         /\ Reads(f, n)
         /\ StartSend(f, Reply(Take(up[fdtab[f]], n)))
    /\ UNCHANGED <<fdtab, backlog, down, peer, clientVars, alive, slots, revents, pos>>

(* recv returns text.                                                      *)
RecvText ==
  \E i \in Slots : LET f == slots[i] IN
    /\ AtHit(i)
    /\ \E n \in 1 .. Len(up[fdtab[f]]) :
         /\ Reads(f, n)
         /\ StartSend(f, Reply(Take(up[fdtab[f]], n)))
    /\ pos' = i + 1
    /\ UNCHANGED <<fdtab, backlog, down, peer, clientVars, alive, slots, revents>>

(* Mutant: the test is n <= 1 where the code has n == 0.                   *)
RecvEndsEarly ==
  \E i \in Slots : LET f == slots[i] IN
    /\ AtHit(i)
    /\ ReadsZero(f) \/ Len(up[fdtab[f]]) = 1
    /\ fdtab' = [fdtab EXCEPT ![f] = Free]
    /\ slots' = [slots EXCEPT ![i] = Empty]
    /\ pos' = i + 1
    /\ UNCHANGED <<backlog, netVars, clientVars, pc, sendVars, alive, revents>>

(* recv returns 0: close, and the entry is empty.                          *)
RecvEnds ==
  \E i \in Slots : LET f == slots[i] IN
    /\ AtHit(i)
    /\ ReadsZero(f)
    /\ fdtab' = [fdtab EXCEPT ![f] = Free]
    /\ slots' = [slots EXCEPT ![i] = Empty]
    /\ pos' = i + 1
    /\ UNCHANGED <<backlog, netVars, clientVars, pc, sendVars, alive, revents>>

(* recv fails: logged, and the entry stays. The kernel reports the error   *)
(* once; the next recv on this connection returns 0.                       *)
RecvFails ==
  \E i \in Slots : LET f == slots[i] IN
    /\ AtHit(i)
    /\ ReadsError(f)
    /\ peer' = [peer EXCEPT ![fdtab[f]] = "gone"]
    /\ up' = [up EXCEPT ![fdtab[f]] = <<>>]
    /\ pos' = i + 1
    /\ UNCHANGED <<fdtab, backlog, down, clientVars, pc, sendVars, alive, slots, revents>>

HandlerEvent == \/ \E f \in Fds : ListenEvent(f)
                \/ ListenFails \/ RecvText \/ RecvEnds \/ RecvFails \/ ScanEnds

ServerStep == /\ alive
              /\ \/ Poll
                 \/ HandlerEvent
                 \/ SendStep /\ UNCHANGED pollVars

Next == \/ ServerStep
        \/ \E c \in Clients : ClientStep(c) /\ UNCHANGED pollVars

Spec == Init /\ [][Next]_vars

(* The one thread runs whenever it is not blocked, and clients read.       *)
FairSpec == /\ Spec
            /\ WF_vars(ServerStep)
            /\ \A c \in Clients : WF_vars(Hear(c) /\ UNCHANGED pollVars)
-----------------------------------------------------------------------------
(* Properties.                                                             *)

(* What poll reported is still so when the pass comes to it: no call the   *)
(* thread is about to make blocks.                                         *)
NeverBlocks == pc = "scan" => IF 1 \in revents THEN backlog # <<>>
                              ELSE \A i \in Hits : IsReady(slots[i])

(* A connection waits and there is no descriptor: the loop spins from poll *)
(* to accept and reads nobody, not even the end of those it could close.   *)
Starved == backlog # <<>> /\ NoDescriptor

(* Whatever the other clients do, a client that stays gets its replies, as *)
(* long as all clients read theirs, and the descriptor of one that has     *)
(* ended is given back, also after a recv that failed; unless the loop is  *)
(* starved.                                                                *)
ServedAndReleased == \A c \in Clients : []<>(Settled(c) \/ Starved)

Echo == INSTANCE EchoService WITH
          conn <- ConnStates, gone <- Ended, down <- Sending, Limit <- Cardinality(Clients)

(* The server keeps what an echo service promises, with its own reply, and *)
(* does not end for want of descriptors.                                   *)
ImplementsEcho == Echo!Spec
=============================================================================
