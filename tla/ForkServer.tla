----------------------------- MODULE ForkServer -----------------------------
(***************************************************************************)
(* The servers that fork for each client: the calculator (protocol/), the  *)
(* HTTP server (http/) and its variant in TCP_Test/. The parent forks a    *)
(* child, which forks a grandchild and exits, so that the parent reaps it  *)
(* at once and init adopts the grandchild, which serves. A fork copies all *)
(* descriptors, and a socket lives as long as some process has it open.    *)
(* The parent may be killed and is started again.                          *)
(***************************************************************************)
EXTENDS Naturals, Sequences, FiniteSets

CONSTANTS Clients,   (* one client, hence one connection, each             *)
          Listen,    (* the listening socket                               *)
          Nobody,    (* no client                                          *)
          MaxKills   (* bound: times the parent is killed                  *)

ASSUME ForkAssumption == /\ Listen \notin Clients
                         /\ Nobody \notin Clients
                         /\ MaxKills \in Nat

VARIABLES program,  (* "protocol", "http" or "test": which of the three    *)
          short,    (* processes are short: any fork may fail              *)
          pc,       (* where the parent is; "down" when there is none      *)
          cur,      (* client_socket, as the client it is connected to     *)
          forked,   (* id > 0                                              *)
          mine,     (* the children of the parent, also those not reaped   *)
          proc,     (* where each child and grandchild is                  *)
          open,     (* the processes that have each socket open            *)
          backlog,  (* connections that accept has not returned            *)
          cst,      (* "new", "on", "asked" or "left"                      *)
          kills     (* times the parent was killed                         *)

settings   == <<program, short>>
parentVars == <<pc, cur, forked, mine>>
vars       == <<settings, parentVars, proc, open, backlog, cst, kills>>

Main     == <<"main", Nobody>>
Child(c) == <<"child", c>>
Grand(c) == <<"grand", c>>
Procs    == {"child", "grand"} \X Clients
Sockets  == Clients \cup {Listen}

Init == /\ program \in {"protocol", "http", "test"}
        /\ short \in BOOLEAN
        /\ pc = "down"
        /\ cur = Nobody
        /\ forked = FALSE
        /\ mine = {}
        /\ proc = [p \in Procs |-> "none"]
        /\ open = [s \in Sockets |-> {}]
        /\ backlog = <<>>
        /\ cst = [c \in Clients |-> "new"]
        /\ kills = 0
-----------------------------------------------------------------------------
(* The kernel. The last close of the listening socket resets what waits.   *)
Descriptors(table) ==
  /\ open' = table
  /\ backlog' = IF table[Listen] = {} THEN <<>> ELSE backlog

Close(p, s) == Descriptors([open EXCEPT ![s] = @ \ {p}])
CloseAll(p) == Descriptors([s \in Sockets |-> open[s] \ {p}])
Copy(p, q)  == Descriptors([s \in Sockets |->
                              open[s] \cup (IF p \in open[s] THEN {q} ELSE {})])

(* bind fails while the port is listened on; without SO_REUSEADDR, which   *)
(* only protocol/ leaves out, also while a connection to it is left.       *)
CanBind == /\ open[Listen] = {}
           /\ program = "protocol" => \A c \in Clients : open[c] = {}
-----------------------------------------------------------------------------
(* The parent.                                                             *)

(* init. When bind fails it exits, and nothing has changed.                *)
Start == /\ pc = "down"
         /\ CanBind
         /\ open' = [open EXCEPT ![Listen] = {Main}]
         /\ pc' = IF program = "http" THEN "daemon" ELSE "accept"
         /\ UNCHANGED <<settings, cur, forked, mine, proc, backlog, cst, kills>>

Goes == /\ pc' = "down"
        /\ cur' = Nobody
        /\ forked' = FALSE
        /\ mine' = {}
        /\ proc' = [p \in Procs |-> IF proc[p] = "zombie" THEN "gone" ELSE proc[p]]
        /\ CloseAll(Main)

(* daemon: the process forks and goes on as its child, or exits.           *)
Daemon == /\ pc = "daemon"
          /\ \/ pc' = "accept" /\ UNCHANGED <<cur, forked, mine, proc, open, backlog>>
             \/ short /\ Goes
          /\ UNCHANGED <<settings, cst, kills>>

Accept == /\ pc = "accept"
          /\ backlog # <<>>
          /\ cur' = Head(backlog)
          /\ backlog' = Tail(backlog)
          /\ open' = [open EXCEPT ![Head(backlog)] = {Main}]
          /\ pc' = "fork"
          /\ UNCHANGED <<settings, forked, mine, proc, cst, kills>>

Fork == /\ pc = "fork"
        /\ \/ /\ forked' = TRUE
              /\ mine' = mine \cup {Child(cur)}
              /\ proc' = [proc EXCEPT ![Child(cur)] = "born"]
              /\ Copy(Main, Child(cur))
           \/ /\ short
              /\ forked' = FALSE
              /\ UNCHANGED <<mine, proc, open, backlog>>
        /\ pc' = "close"
        /\ UNCHANGED <<settings, cur, cst, kills>>

(* Mutant: the parent keeps client_socket.                                 *)
CloseForgotten == /\ pc = "close"
                  /\ pc' = "wait"
                  /\ UNCHANGED <<settings, cur, forked, mine, proc, open, backlog, cst, kills>>

CloseClient == /\ pc = "close"
               /\ Close(Main, cur)
               /\ pc' = "wait"
               /\ UNCHANGED <<settings, cur, forked, mine, proc, cst, kills>>

(* Mutant: waitpid with WNOHANG.                                           *)
WaitNoHang ==
  /\ pc = "wait"
  /\ mine' = {p \in mine : proc[p] # "zombie"}
  /\ proc' = [p \in Procs |-> IF p \in mine /\ proc[p] = "zombie" THEN "gone" ELSE proc[p]]
  /\ pc' = "accept"
  /\ UNCHANGED <<settings, cur, forked, open, backlog, cst, kills>>

(* waitpid(id): one child, or any when id is -1; with none it fails.       *)
Wait == LET waited == IF forked THEN {Child(cur)} ELSE mine IN
        /\ pc = "wait"
        /\ \/ waited = {} /\ UNCHANGED <<mine, proc>>
           \/ \E p \in waited : /\ proc[p] = "zombie"
                                /\ mine' = mine \ {p}
                                /\ proc' = [proc EXCEPT ![p] = "gone"]
        /\ pc' = "accept"
        /\ UNCHANGED <<settings, cur, forked, open, backlog, cst, kills>>

ParentStep == Start \/ Daemon \/ Accept \/ Fork \/ CloseClient \/ Wait

(* Somebody kills the parent; its children are init's from now on.         *)
Kill == /\ pc # "down"
        /\ kills < MaxKills
        /\ kills' = kills + 1
        /\ Goes
        /\ UNCHANGED <<settings, cst>>
-----------------------------------------------------------------------------
(* Children and grandchildren.                                             *)

At(p, here, next) == proc[p] = here /\ proc' = [proc EXCEPT ![p] = next]

(* Mutant: the child keeps the listening socket.                           *)
CloseListenForgotten(c) == /\ At(Child(c), "born", "fork")
                           /\ UNCHANGED <<settings, parentVars, open, backlog, cst, kills>>

CloseListen(c) == /\ At(Child(c), "born", "fork")
                  /\ Close(Child(c), Listen)
                  /\ UNCHANGED <<settings, parentVars, cst, kills>>

(* Mutant: the child does not exit after its fork.                         *)
ForkWithoutExit(c) ==
  /\ proc[Child(c)] = "fork"
  /\ \/ /\ proc' = [proc EXCEPT ![Child(c)] = "serve", ![Grand(c)] = "serve"]
        /\ Copy(Child(c), Grand(c))
     \/ /\ short
        /\ proc' = [proc EXCEPT ![Child(c)] = "serve"]
        /\ UNCHANGED <<open, backlog>>
  /\ UNCHANGED <<settings, parentVars, cst, kills>>

(* Mutant: no second fork.                                                 *)
ForkOnce(c) == /\ At(Child(c), "fork", "serve")
               /\ UNCHANGED <<settings, parentVars, open, backlog, cst, kills>>

(* if(fork()>0) exit(0): when the fork fails the child goes on itself.     *)
ForkAgain(c) ==
  /\ \/ /\ proc[Child(c)] = "fork"
        /\ proc' = [proc EXCEPT ![Child(c)] = "exit", ![Grand(c)] = "serve"]
        /\ Copy(Child(c), Grand(c))
     \/ /\ short
        /\ At(Child(c), "fork", "serve")
        /\ UNCHANGED <<open, backlog>>
  /\ UNCHANGED <<settings, parentVars, cst, kills>>

(* What ends handlerLink and HttpHandle is the end of the client, or one   *)
(* that asks: a request of HTTP, or what handlerLink cannot parse. Nothing *)
(* ends the one of TCP_Test, which sleeps.                                 *)
Over(c) == program # "test" /\ cst[c] \in {"asked", "left"}

HandlerEnds(p) == /\ At(p, "serve", "close")
                  /\ Over(p[2])
                  /\ UNCHANGED <<settings, parentVars, open, backlog, cst, kills>>

CloseLink(p) == /\ At(p, "close", "exit")
                /\ Close(p, p[2])
                /\ UNCHANGED <<settings, parentVars, cst, kills>>

Exit(p) == /\ At(p, "exit", IF p \in mine THEN "zombie" ELSE "gone")
           /\ CloseAll(p)
           /\ UNCHANGED <<settings, parentVars, cst, kills>>

ProcStep(p) == \/ p[1] = "child" /\ (CloseListen(p[2]) \/ ForkAgain(p[2]))
               \/ HandlerEnds(p) \/ CloseLink(p) \/ Exit(p)
-----------------------------------------------------------------------------
(* The clients.                                                            *)

Connect(c) == /\ cst[c] = "new"
              /\ open[Listen] # {}
              /\ cst' = [cst EXCEPT ![c] = "on"]
              /\ backlog' = Append(backlog, c)
              /\ UNCHANGED <<settings, parentVars, proc, open, kills>>

AskOrLeave(c) == /\ \/ cst[c] = "on" /\ cst' = [cst EXCEPT ![c] = "asked"]
                    \/ cst[c] \in {"on", "asked"} /\ cst' = [cst EXCEPT ![c] = "left"]
                 /\ UNCHANGED <<settings, parentVars, proc, open, backlog, kills>>

Next == \/ ParentStep \/ Kill
        \/ \E p \in Procs : ProcStep(p)
        \/ \E c \in Clients : Connect(c) \/ AskOrLeave(c)

Spec == Init /\ [][Next]_vars

(* Each process runs when it is not blocked; a server that went is started *)
(* again. Nobody has to ask or to leave.                                   *)
FairSpec == /\ Spec
            /\ WF_vars(ParentStep)
            /\ \A p \in Procs : WF_vars(ProcStep(p))
-----------------------------------------------------------------------------
(* Properties.                                                             *)

(* Type correctness of the processes and what they have open.              *)
TypeOK == /\ program \in {"protocol", "http", "test"}
          /\ short \in BOOLEAN
          /\ pc \in {"down", "daemon", "accept", "fork", "close", "wait"}
          /\ cur \in Clients \cup {Nobody}
          /\ forked \in BOOLEAN
          /\ mine \subseteq Procs
          /\ proc \in [Procs -> {"none", "born", "fork", "serve", "close",
                                 "exit", "zombie", "gone"}]
          /\ open \in [Sockets -> SUBSET (Procs \cup {Main})]
          /\ backlog \in Seq(Clients)
          /\ cst \in [Clients -> {"new", "on", "asked", "left"}]
          /\ kills \in 0 .. MaxKills

(* A connection is read by one process at most, the grandchild or, when    *)
(* the second fork fails, the child, so that no request is torn apart.     *)
OneServes == \A c \in Clients : ~ (proc[Child(c)] = "serve" /\ proc[Grand(c)] = "serve")

(* When the parent is back at accept it has no child left, running or      *)
(* zombie, also after forks that failed and after restarts.                *)
ChildrenReaped == pc \in {"accept", "fork"} => mine = {}

(* A connection is open only in the parent, between accept and close, and  *)
(* in the two processes forked for it. One more holder, a parent that      *)
(* forgot it or a child that inherited it, and its client would not see    *)
(* the end that the server makes.                                          *)
OwnConnection ==
  \A c \in Clients : /\ open[c] \subseteq {Main, Child(c), Grand(c)}
                     /\ Main \in open[c] => cur = c /\ pc \in {"fork", "close"}

(* The child that waitpid blocks for is there to be reaped, and is at most *)
(* two steps from its end, unless its own fork failed and it serves: so a  *)
(* parent never waits for a client, except then.                           *)
WaitReturns ==
  pc = "wait" /\ forked => \/ proc[Child(cur)] \in {"born", "fork", "exit", "zombie"}
                           \/ short /\ proc[Child(cur)] \in {"serve", "close"}

(* Only processes that run have a socket open, and the listening socket    *)
(* only the parent, always, and a child that was just forked: whoever      *)
(* serves a client does not keep the port from the next parent.            *)
PortIsOwn ==
  /\ \A s \in Sockets, p \in Procs :
       p \in open[s] => proc[p] \in {"born", "fork", "serve", "close", "exit"}
  /\ \A p \in Procs : p \in open[Listen] => proc[p] = "born"
  /\ Main \in open[Listen] <=> pc # "down"

Waits(c) == \E i \in DOMAIN backlog : backlog[i] = c

(* The second fork failed, and the parent waits for a child that serves.   *)
Stalled == short /\ \E p \in mine : proc[p] = "serve"

(* Nobody waits for others to be served: each connection is taken out of   *)
(* the backlog whether or not any client asks or leaves, unless the second *)
(* fork of the one before failed.                                          *)
NobodyQueues == \A c \in Clients : []<>(~ Waits(c) \/ Stalled)

(* When a handler is over, its connection is closed in all processes that  *)
(* had it, and no process is left of it, not even a zombie.                *)
NothingRemains ==
  \A c \in Clients :
    []<>(Over(c) => /\ open[c] = {}
                    /\ proc[Child(c)] \in {"none", "gone"}
                    /\ proc[Grand(c)] \in {"none", "gone"})

(* A server that was killed comes back while its grandchildren serve on.   *)
(* Without SO_REUSEADDR it must wait for clients that stay.                *)
ComesBack ==
  []<>(\/ pc \notin {"down", "daemon"}
       \/ short
       \/ program = "protocol" /\ \E c \in Clients : open[c] # {} /\ ~ Over(c))
=============================================================================
