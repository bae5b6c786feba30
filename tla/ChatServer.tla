----------------------------- MODULE ChatServer -----------------------------
(***************************************************************************)
(* The chat room of socket/ as it is built (udp_server.hpp, udp_server.cc, *)
(* onlineUser.hpp, udp_client.hpp): one thread receives a datagram, routes *)
(* it, and sends to the users of a map whose keys are addresses, without   *)
(* ports. Datagrams to the server are lost, repeated and reordered.        *)
(***************************************************************************)
EXTENDS Naturals, Sequences

CONSTANTS Hosts,      (* IP addresses                                      *)
          Ports,      (* ports                                             *)
          Endpoints,  (* the address and port of each client               *)
          NoUser,     (* the entry of an address that is not a key         *)
          Kinds,      (* the kinds of lines the clients enter              *)
          MaxLines,   (* bound: lines the clients enter, together          *)
          MaxRouted   (* bound: datagrams the server receives              *)

(* What the server may pass on: lines, names it makes up, and Offline; and *)
(* what a stranger hears.                                                  *)
Lines   == ({"login", "mention", "text"} \X (1 .. MaxLines)) \cup ({"User"} \X (0 .. MaxRouted))
Offline == <<"offline">>
Please  == <<"enter online + nickname to login">>

(* "login": "online" and a nickname; "blank": "online" and one character;  *)
(* "bare": "online" alone; "loginoff": "online" with offline for nickname; *)
(* "offline": that word; "mention": another line with "online" in it, of   *)
(* more than seven characters; "text": a line without these words.         *)
ASSUME ChatAssumption ==
  /\ Endpoints \subseteq Hosts \X Ports
  /\ Kinds \subseteq {"login", "blank", "bare", "loginoff", "offline",
                      "mention", "text"}
  /\ MaxLines \in Nat
  /\ MaxRouted \in Nat
  /\ NoUser \notin [ep : Endpoints, name : Lines \cup {Offline}]

VARIABLES users,   (* _users: the endpoint and the name under each address *)
          inode,   (* number of names the server made up                   *)
          net,     (* datagrams that were sent to the server               *)
          lines,   (* number of lines entered so far                       *)
          routed,  (* number of datagrams the server received              *)
          heard,   (* what the server has sent to each endpoint            *)
          alive,   (* the server process exists                            *)
          came,    (* history: who said online since somebody of the same  *)
                   (* host last said offline, in the order of arrival      *)
          since    (* history: the length of heard when the entry came     *)

vars == <<users, inode, net, lines, routed, heard, alive, came, since>>

Init == /\ users = [h \in Hosts |-> NoUser]
        /\ inode = 0
        /\ net = {}
        /\ lines = 0
        /\ routed = 0
        /\ heard = [e \in Endpoints |-> <<>>]
        /\ alive = TRUE
        /\ came = [h \in Hosts |-> <<>>]
        /\ since = [h \in Hosts |-> 0]
-----------------------------------------------------------------------------
(* The clients and the network.                                            *)

(* getline and sendto.                                                     *)
Enter(e) == /\ lines < MaxLines
            /\ lines' = lines + 1
            /\ \E k \in Kinds : net' = net \cup {[from |-> e, kind |-> k, id |-> lines + 1]}
            /\ UNCHANGED <<users, inode, routed, heard, alive, came, since>>

-----------------------------------------------------------------------------
(* run and routeMessage, for one datagram.                                 *)

SaysOnline(d) == d.kind \in {"login", "blank", "loginoff", "mention"}

(* What is left of the message: what follows its first seven characters if *)
(* it says online, or the name made up for nothing, or the whole line.     *)
Body(d) == CASE d.kind \in {"offline", "loginoff"} -> Offline
             [] d.kind = "blank"                   -> <<"User", inode>>
             [] OTHER                              -> <<d.kind, d.id>>

(* addUser leaves an entry that is there already.                          *)
Added(d) == LET h == d.from[1] IN
            IF SaysOnline(d) /\ users[h] = NoUser
            THEN [users EXCEPT ![h] = [ep |-> d.from, name |-> Body(d)]]
            ELSE users

(* Mutant: removeUser takes its parameter for what it is called, a name.   *)
RemovedByName(d) == Added(d)

(* removeUser erases the entry of the address.                             *)
Removed(d) == IF Body(d) = Offline
              THEN [Added(d) EXCEPT ![d.from[1]] = NoUser]
              ELSE Added(d)

(* Mutant: broadcast leaves out the sender.                                *)
BroadcastToOthers(d, us) ==
  [e \in Endpoints |->
     IF e # d.from /\ \E h \in Hosts : us[h] # NoUser /\ us[h].ep = e
     THEN Append(heard[e], <<d.from, us[d.from[1]].name, Body(d)>>)
     ELSE heard[e]]

(* broadcast sends to every entry of the map, with the name found under    *)
(* the sender's address.                                                   *)
Broadcast(d, us) ==
  [e \in Endpoints |->
     IF \E h \in Hosts : us[h] # NoUser /\ us[h].ep = e
     THEN Append(heard[e], <<d.from, us[d.from[1]].name, Body(d)>>)
     ELSE heard[e]]

Prompt(d) == [heard EXCEPT ![d.from] = Append(@, Please)]

(* Who came, and when an entry came, for the properties.                   *)
CameNow(d) == IF Body(d) = Offline THEN <<>>
              ELSE IF SaysOnline(d) THEN Append(came[d.from[1]], d.from)
              ELSE came[d.from[1]]

SinceNow(d) == LET h == d.from[1] IN
               IF users[h] = NoUser /\ users'[h] # NoUser THEN Len(heard[d.from]) ELSE since[h]

(* A datagram is received, perhaps for the second time or before an older  *)
(* one; one that is lost is not received at all. substr(7) of a shorter    *)
(* message throws, which nobody catches.                                   *)
Receive(d) ==
  /\ alive
  /\ routed < MaxRouted
  /\ routed' = routed + 1
  /\ IF d.kind = "bare"
     THEN /\ alive' = FALSE
          /\ UNCHANGED <<users, inode, heard, came, since>>
     ELSE /\ users' = Removed(d)
          /\ heard' = IF users'[d.from[1]] # NoUser THEN Broadcast(d, users') ELSE Prompt(d)
          /\ inode' = IF d.kind = "blank" THEN inode + 1 ELSE inode
          /\ came' = [came EXCEPT ![d.from[1]] = CameNow(d)]
          /\ since' = [since EXCEPT ![d.from[1]] = SinceNow(d)]
          /\ UNCHANGED alive
  /\ UNCHANGED <<net, lines>>

Next == \/ \E e \in Endpoints : Enter(e)
        \/ \E d \in net : Receive(d)

Spec == Init /\ [][Next]_vars
-----------------------------------------------------------------------------
(* Properties.                                                             *)

Members == {h \in Hosts : users[h] # NoUser}

(* A host is in the room from the first line of it that says online until  *)
(* any of its clients says offline; who said online first is the one who   *)
(* hears the room, and who says it after him from the same host does not,  *)
(* though the prompt at udp_server.cc:134 promises it to everybody.        *)
OnlineLogsIn ==
  \A h \in Hosts :
    IF came[h] = <<>> THEN users[h] = NoUser
                      ELSE users[h] # NoUser /\ users[h].ep = came[h][1]

(* What a member heard since he got in, the latest first.                  *)
Talk(h) == LET said == heard[users[h].ep] IN
           [k \in 1 .. Len(said) - since[h] |-> said[Len(said) + 1 - k]]

(* All who are in the room hear the same lines in the same order, from     *)
(* where they got in, and are not asked to log in, whoever else comes,     *)
(* leaves, is heard twice or late, or shares a host with them.             *)
SameTalk ==
  \A g, h \in Members : \A k \in DOMAIN Talk(g) :
    /\ Talk(g)[k] # Please
    /\ k \in DOMAIN Talk(h) => Talk(g)[k] = Talk(h)[k]

(* Line m comes from host g, and announces that it is called n.            *)
From(m, g)         == m[1][1] = g
Announces(m, g, n) == From(m, g) /\ m[2] = n /\ m[3] = n

(* No member hears a host under another name than before unless the new    *)
(* name was announced to him in between.                                   *)
NamesAnnounced ==
  \A g \in Hosts, h \in Members : \A i \in DOMAIN Talk(h) : \A j \in 1 .. i - 1 :
    LET earlier == Talk(h)[i]
        later   == Talk(h)[j]
    IN  From(earlier, g) /\ From(later, g) /\ earlier[2] # later[2] =>
          \E k \in j .. i - 1 : Announces(Talk(h)[k], g, later[2])

(* The room is one conversation of people one can tell apart: broadcast    *)
(* and getUser (onlineUser.hpp:83-98) after addUser and removeUser.        *)
OneTalk == SameTalk /\ NamesAnnounced

(* What the comment at udp_server.hpp:35 says: the server is an endless    *)
(* loop.                                                                   *)
EndlessLoop == alive
=============================================================================
