---------------------------- MODULE SelectServer ----------------------------
(***************************************************************************)
(* The server of select/select_server (select_server.hpp): fd_array, the   *)
(* bits select left in rfds, and one pass over fd_array that accepts,      *)
(* reads and answers, slot by slot, while clients go on.                   *)
(***************************************************************************)
EXTENDS EchoNet

CONSTANTS Size,   (* max_fdset                                             *)
          Empty   (* default_val                                           *)

ASSUME SelectAssumption == Size \in Nat \ {0} /\ Empty \notin Fds \cup {Listen}

VARIABLES fd_array,  (* the slots, 1 for 0 of the code                     *)
          rfds,      (* the descriptors select reported                    *)
          pos        (* the slot HandlerEvent is at                        *)

selVars == <<fd_array, rfds, pos>>
vars    == <<evVars, selVars>>

Slots == 1 .. Size

Init == /\ NetInit
        /\ fd_array = [i \in Slots |-> IF i = 1 THEN Listen ELSE Empty]
        /\ rfds = {}
        /\ pos = 1

(* RecvFunc: the text behind a prefix, its last character cut, a line end. *)
Reply(s) == << <<Listen, 0, "head">> >> \o Take(s, Len(s) - 1) \o << <<Listen, 0, "nl">> >>
-----------------------------------------------------------------------------
(* The loop of start fills rfds from fd_array; select waits.               *)
Select == /\ pc = "wait"
          /\ rfds' = {f \in {fd_array[i] : i \in Slots} : IsReady(f)}
          /\ rfds' # {}
          /\ pos' = 1
          /\ pc' = "scan"
          /\ UNCHANGED <<fdtab, backlog, netVars, clientVars, sendVars, alive, fd_array>>

(* HandlerEvent: the slots it has not passed whose descriptor has its bit. *)
Hits == {i \in pos .. Size : fd_array[i] \in rfds}

(* It is at the first of them, i.                                          *)
AtHit(i) == /\ pc = "scan"
            /\ i \in Hits
            /\ \A j \in Hits : i <= j

ScanEnds == /\ pc = "scan"
            /\ Hits = {}
            /\ pc' = "wait"
            /\ UNCHANGED <<fdtab, backlog, netVars, clientVars, sendVars, alive, selVars>>

(* The first empty slot takes f; with no empty slot nobody keeps it.       *)
Enter(f) ==
  LET empty == {j \in Slots : fd_array[j] = Empty} IN
  IF empty = {} THEN UNCHANGED fd_array
  ELSE fd_array' = [fd_array EXCEPT ![CHOOSE j \in empty : \A k \in empty : j <= k] = f]

(* Mutant: the new descriptor is read in the same pass.                    *)
AcceptAndRead(f) ==
  \E i \in Slots :
    /\ AtHit(i)
    /\ fd_array[i] = Listen
    /\ Accepts(f)
    /\ Enter(f)
    /\ rfds' = rfds \cup {f}
    /\ pos' = i + 1
    /\ UNCHANGED <<netVars, clientVars, pc, sendVars, alive>>

(* ListenFunc.                                                             *)
ListenFunc(f) ==
  \E i \in Slots :
    /\ AtHit(i)
    /\ fd_array[i] = Listen
    /\ Accepts(f)
    /\ Enter(f)
    /\ pos' = i + 1
    /\ UNCHANGED <<netVars, clientVars, pc, sendVars, alive, rfds>>

(* With no free descriptor accept fails, and the pass goes on.             *)
ListenFails ==
  \E i \in Slots :
    /\ AtHit(i)
    /\ fd_array[i] = Listen
    /\ NoDescriptor
    /\ pos' = i + 1
    /\ UNCHANGED <<fdtab, backlog, netVars, clientVars, pc, sendVars, alive, fd_array, rfds>>

(* RecvFunc, when recv returns text.                                       *)
RecvText ==
  \E i \in Slots : LET f == fd_array[i] IN
    /\ AtHit(i)
    /\ f # Listen
    /\ \E n \in 1 .. Len(up[fdtab[f]]) :
         /\ Reads(f, n)
         /\ StartSend(f, Reply(Take(up[fdtab[f]], n)))
    /\ pos' = i + 1
    /\ UNCHANGED <<fdtab, backlog, down, peer, clientVars, alive, fd_array, rfds>>

(* Mutant: the slot is cleared and the descriptor stays open.              *)
RecvEndsWithoutClose ==
  \E i \in Slots : LET f == fd_array[i] IN
    /\ AtHit(i)
    /\ f # Listen
    /\ ReadsZero(f) \/ ReadsError(f)
    /\ fd_array' = [fd_array EXCEPT ![i] = Empty]
    /\ pos' = i + 1
    /\ UNCHANGED <<fdtab, backlog, netVars, clientVars, pc, sendVars, alive, rfds>>

(* Mutant: the test is n <= 1 where the code has n <= 0.                   *)
RecvEndsEarly ==
  \E i \in Slots : LET f == fd_array[i] IN
    /\ AtHit(i)
    /\ f # Listen
    /\ ReadsZero(f) \/ ReadsError(f) \/ Len(up[fdtab[f]]) = 1
    /\ fdtab' = [fdtab EXCEPT ![f] = Free]
    /\ fd_array' = [fd_array EXCEPT ![i] = Empty]
    /\ pos' = i + 1
    /\ UNCHANGED <<backlog, netVars, clientVars, pc, sendVars, alive, rfds>>

(* RecvFunc, when recv returns 0 or fails: close, and clear the first slot *)
(* that has this descriptor.                                               *)
RecvEnds ==
  \E i \in Slots : LET f == fd_array[i] IN
    /\ AtHit(i)
    /\ f # Listen
    /\ ReadsZero(f) \/ ReadsError(f)
    /\ fdtab' = [fdtab EXCEPT ![f] = Free]
    /\ fd_array' = [fd_array EXCEPT ![CHOOSE j \in Slots : /\ fd_array[j] = f
                        /\ \A k \in Slots : fd_array[k] = f => j <= k] = Empty]
    /\ pos' = i + 1
    /\ UNCHANGED <<backlog, netVars, clientVars, pc, sendVars, alive, rfds>>

HandlerEvent == \/ \E f \in Fds : ListenFunc(f)
                \/ ListenFails \/ RecvText \/ RecvEnds \/ ScanEnds

ServerStep == /\ alive
              /\ \/ Select
                 \/ HandlerEvent
                 \/ SendStep /\ UNCHANGED selVars

Next == \/ ServerStep
        \/ \E c \in Clients : ClientStep(c) /\ UNCHANGED selVars

Spec == Init /\ [][Next]_vars

(* The one thread runs whenever it is not blocked, and clients read.       *)
FairSpec == /\ Spec
            /\ WF_vars(ServerStep)
            /\ \A c \in Clients : WF_vars(Hear(c) /\ UNCHANGED selVars)
-----------------------------------------------------------------------------
(* Properties.                                                             *)

(* The slots are exactly the open descriptors, each in one slot.           *)
SlotsAreOpen ==
  /\ \A f \in Fds : fdtab[f] # Free <=> \E i \in Slots : fd_array[i] = f
  /\ \A i, j \in Slots : fd_array[i] = fd_array[j] /\ i # j => fd_array[i] = Empty

(* What select reported is still so when the pass comes to it, although    *)
(* connections were accepted and closed since: no call the thread is about *)
(* to make blocks, which would stop the service to everybody.              *)
NeverBlocks == pc = "scan" => \A i \in Hits : IsReady(fd_array[i])

(* Whatever the other clients do, a client that stays gets its replies, as *)
(* long as all clients read theirs, and the descriptor of one that has     *)
(* ended is given back; unless all descriptors are taken while it waits to *)
(* be accepted.                                                            *)
ServedAndReleased == \A c \in Clients : []<>(Settled(c) \/ (Queues(c) /\ NoDescriptor))

Echo == INSTANCE EchoService WITH
          conn <- ConnStates, gone <- Ended, down <- Sending, Limit <- Cardinality(Clients)

(* The server keeps what an echo service promises, with its own reply, and *)
(* does not end for want of descriptors.                                   *)
ImplementsEcho == Echo!Spec
=============================================================================
