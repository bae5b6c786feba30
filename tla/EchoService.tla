---------------------------- MODULE EchoService ----------------------------
(***************************************************************************)
(* What an echo server promises to its clients, with no descriptor, no     *)
(* table and no order of work: each connection is accepted once, read as   *)
(* its bytes come, answered by Reply of what was read, in order, and hung  *)
(* up on after the client has gone. The service ends by writing to such a  *)
(* client, or for want of room, if at all.                                 *)
(***************************************************************************)
EXTENDS Naturals, Sequences, FiniteSets

CONSTANTS Clients,      (* one client, hence one connection, each          *)
          Reply(_),     (* what is sent back for what one read returned    *)
          Messages(_),  (* what a client may send at a time                *)
          Limit         (* connections it has room for                     *)

VARIABLES conn,   (* "none", "waiting", "open" or "closed"                 *)
          gone,   (* the clients that have left                            *)
          up,     (* units sent by each client and not read                *)
          down,   (* units sent to each client and not received            *)
          got,    (* all units each client has received                    *)
          alive   (* the service runs                                      *)

evars == <<conn, gone, up, down, got, alive>>

Init == /\ conn = [c \in Clients |-> "none"]
        /\ gone = {}
        /\ up = [c \in Clients |-> <<>>]
        /\ down = [c \in Clients |-> <<>>]
        /\ got = [c \in Clients |-> <<>>]
        /\ alive = TRUE
-----------------------------------------------------------------------------
(* The clients.                                                            *)

Connect(c) == /\ conn[c] = "none"
              /\ conn' = [conn EXCEPT ![c] = "waiting"]
              /\ UNCHANGED <<gone, up, down, got, alive>>

Say(c) == /\ conn[c] \in {"waiting", "open"}
          /\ c \notin gone
          /\ \E m \in Messages(c) : up' = [up EXCEPT ![c] = @ \o m]
          /\ UNCHANGED <<conn, gone, down, got, alive>>

Hear(c) == /\ \E n \in 1 .. Len(down[c]) :
                /\ got' = [got EXCEPT ![c] = @ \o SubSeq(down[c], 1, n)]
                /\ down' = [down EXCEPT ![c] = SubSeq(@, n + 1, Len(@))]
           /\ UNCHANGED <<conn, gone, up, alive>>

Leave(c) == /\ conn[c] # "none"
            /\ c \notin gone
            /\ gone' = gone \cup {c}
            /\ down' = [down EXCEPT ![c] = <<>>]
            /\ UNCHANGED <<conn, up, got, alive>>
-----------------------------------------------------------------------------
(* The service.                                                            *)

Accept(c) == /\ conn[c] = "waiting"
             /\ conn' = [conn EXCEPT ![c] = "open"]
             /\ UNCHANGED <<gone, up, down, got, alive>>

(* One read and the reply to it; a client that has gone gets none.         *)
Serve(c) == /\ conn[c] = "open"
            /\ \E n \in 1 .. Len(up[c]) :
                 /\ up' = [up EXCEPT ![c] = SubSeq(@, n + 1, Len(@))]
                 /\ IF c \in gone
                    THEN UNCHANGED down
                    ELSE down' = [down EXCEPT ![c] = @ \o Reply(SubSeq(up[c], 1, n))]
            /\ UNCHANGED <<conn, gone, got, alive>>

Hangup(c) == /\ conn[c] = "open"
             /\ c \in gone
             /\ conn' = [conn EXCEPT ![c] = "closed"]
             /\ UNCHANGED <<gone, up, down, got, alive>>

Crash == /\ \/ \E c \in gone : conn[c] = "open"
            \/ /\ Cardinality({c \in Clients : conn[c] = "open"}) = Limit
               /\ \E c \in Clients : conn[c] = "waiting"
         /\ alive' = FALSE
         /\ UNCHANGED <<conn, gone, up, down, got>>

Next == \/ \E c \in Clients : Connect(c) \/ Say(c) \/ Hear(c) \/ Leave(c)
        \/ /\ alive
           /\ \/ \E c \in Clients : Accept(c) \/ Serve(c) \/ Hangup(c)
              \/ Crash

Spec == Init /\ [][Next]_evars
=============================================================================
