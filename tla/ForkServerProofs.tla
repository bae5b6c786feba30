-------------------------- MODULE ForkServerProofs --------------------------
(***************************************************************************)
(* What the forking servers guarantee for any number of clients, any forks *)
(* that fail, and any number of restarts: one process reads a connection,  *)
(* the parent has no child left when it is back at accept, and nobody has  *)
(* a connection open that is not his.                                      *)
(***************************************************************************)
EXTENDS ForkServer, TLAPS

(* The two processes of a client are told apart from each other, from      *)
(* those of other clients and from the parent.                             *)
LEMMA ProcFacts ==
  /\ \A c \in Clients : Child(c) \in Procs /\ Grand(c) \in Procs
  /\ \A c, d \in Clients : /\ Child(c) # Grand(d)
                           /\ Child(c) = Child(d) => c = d
                           /\ Grand(c) = Grand(d) => c = d
  /\ \A p \in Procs : p[2] \in Clients /\ (p = Child(p[2]) \/ p = Grand(p[2]))
  /\ \A p \in Procs : p # Main
  /\ \A c \in Clients : Child(c)[1] = "child" /\ Child(c)[2] = c
  /\ \A c \in Clients : Grand(c)[1] = "grand" /\ Grand(c)[2] = c
BY ForkAssumption DEF Procs, Child, Grand, Main

(* The parent's children: the one forked for the present client, until it  *)
(* is reaped.                                                              *)
ParentInv ==
  /\ pc \in {"fork", "close", "wait"} => cur \in Clients
  /\ mine = IF pc \in {"close", "wait"} /\ forked THEN {Child(cur)} ELSE {}

(* Each connection is accepted once: until then it has no process.         *)
Fresh(c) == proc[Child(c)] = "none" /\ proc[Grand(c)] = "none"

Taken(c) == pc = "fork" /\ cur = c

OnceInv ==
  /\ \A i, j \in DOMAIN backlog : backlog[i] = backlog[j] => i = j
  /\ \A c \in Clients : cst[c] = "new" => ~ Waits(c)
  /\ \A c \in Clients : cst[c] = "new" \/ Waits(c) => Fresh(c) /\ ~ Taken(c)
  /\ pc = "fork" => Fresh(cur)

(* A grandchild exists only when the child is about to exit, or has.       *)
GrandInv == \A c \in Clients :
              proc[Grand(c)] # "none" => proc[Child(c)] \in {"exit", "zombie", "gone"}

ForkInv == TypeOK /\ ParentInv /\ OnceInv /\ GrandInv /\ OwnConnection
-----------------------------------------------------------------------------
(* The kernel's table stays a table, and the backlog shrinks to nothing or *)
(* stays.                                                                  *)
LEMMA TableTypes ==
  ASSUME TypeOK, NEW p \in Procs \cup {Main}, NEW q \in Procs \cup {Main},
         NEW s \in Sockets, Close(p, s) \/ CloseAll(p) \/ Copy(p, q)
  PROVE  /\ open' \in [Sockets -> SUBSET (Procs \cup {Main})]
         /\ backlog' = backlog \/ backlog' = <<>>
         /\ backlog' \in Seq(Clients)
<1>1. open \in [Sockets -> SUBSET (Procs \cup {Main})] /\ backlog \in Seq(Clients)
  BY DEF TypeOK
<1>2. CASE Close(p, s)
  BY <1>1, <1>2 DEF Close, Descriptors
<1>3. CASE CloseAll(p)
  BY <1>1, <1>3 DEF CloseAll, Descriptors
<1>4. CASE Copy(p, q)
  BY <1>1, <1>4 DEF Copy, Descriptors
<1> QED
  BY <1>2, <1>3, <1>4

(* The clients are sockets, the kernel knows the parent.                   *)
LEMMA SocketFacts == Clients \subseteq Sockets /\ Listen \in Sockets
BY DEF Sockets

(* Every step leaves the state well typed.                                 *)
LEMMA TypeNext == TypeOK /\ ParentInv /\ [Next]_vars => TypeOK'
<1> SUFFICES ASSUME TypeOK, ParentInv, [Next]_vars PROVE TypeOK'
  OBVIOUS
<1> USE ForkAssumption, SocketFacts DEF settings, parentVars
<1>1. CASE Start
  BY <1>1 DEF TypeOK, Start
<1>2. ASSUME Goes, UNCHANGED <<settings, cst>>, kills' \in 0 .. MaxKills PROVE TypeOK'
  <2>1. CloseAll(Main)
    BY <1>2 DEF Goes
  <2>2. /\ open' \in [Sockets -> SUBSET (Procs \cup {Main})]
        /\ backlog' \in Seq(Clients)
    BY <2>1, TableTypes
  <2> QED
    BY <1>2, <2>2 DEF TypeOK, Goes
<1>3. CASE Daemon
  BY <1>2, <1>3 DEF TypeOK, Daemon
<1>4. CASE Accept
  BY <1>4 DEF TypeOK, Accept
<1>5. CASE Fork
  <2>1. CASE Copy(Main, Child(cur)) /\ pc = "fork"
    <3>1. cur \in Clients
      BY <2>1 DEF ParentInv
    <3>2. Child(cur) \in Procs
      BY <3>1, ProcFacts
    <3>3. /\ open' \in [Sockets -> SUBSET (Procs \cup {Main})]
          /\ backlog' \in Seq(Clients)
      BY <2>1, <3>2, TableTypes
    <3> QED
      BY <1>5, <3>2, <3>3 DEF TypeOK, Fork
  <2>2. CASE UNCHANGED <<mine, proc, open, backlog>>
    BY <1>5, <2>2 DEF TypeOK, Fork
  <2> QED
    BY <1>5, <2>1, <2>2 DEF Fork
<1>6. CASE CloseClient
  <2>1. cur \in Sockets
    BY <1>6 DEF CloseClient, ParentInv
  <2>2. /\ open' \in [Sockets -> SUBSET (Procs \cup {Main})]
        /\ backlog' \in Seq(Clients)
    BY <1>6, <2>1, TableTypes DEF CloseClient
  <2> QED
    BY <1>6, <2>2 DEF TypeOK, CloseClient
<1>7. CASE Wait
  BY <1>7 DEF TypeOK, Wait
<1>8. CASE Kill
  BY <1>2, <1>8 DEF TypeOK, Kill
<1>9. ASSUME NEW c \in Clients, CloseListen(c) PROVE TypeOK'
  <2>1. /\ open' \in [Sockets -> SUBSET (Procs \cup {Main})]
        /\ backlog' \in Seq(Clients)
    BY <1>9, TableTypes, ProcFacts DEF CloseListen
  <2> QED
    BY <1>9, <2>1 DEF TypeOK, CloseListen, At
<1>10. ASSUME NEW c \in Clients, ForkAgain(c) PROVE TypeOK'
  <2>1. CASE Copy(Child(c), Grand(c))
    <3>1. /\ open' \in [Sockets -> SUBSET (Procs \cup {Main})]
          /\ backlog' \in Seq(Clients)
      BY <2>1, TableTypes, ProcFacts
    <3> QED
      BY <1>10, <3>1 DEF TypeOK, ForkAgain, At
  <2>2. CASE UNCHANGED <<open, backlog>>
    BY <1>10, <2>2 DEF TypeOK, ForkAgain, At
  <2> QED
    BY <1>10, <2>1, <2>2 DEF ForkAgain
<1>11. ASSUME NEW p \in Procs, HandlerEnds(p) PROVE TypeOK'
  BY <1>11 DEF TypeOK, HandlerEnds, At
<1>12. ASSUME NEW p \in Procs, CloseLink(p) PROVE TypeOK'
  <2>1. /\ open' \in [Sockets -> SUBSET (Procs \cup {Main})]
        /\ backlog' \in Seq(Clients)
    BY <1>12, TableTypes, ProcFacts DEF CloseLink
  <2> QED
    BY <1>12, <2>1 DEF TypeOK, CloseLink, At
<1>13. ASSUME NEW p \in Procs, Exit(p) PROVE TypeOK'
  <2>1. /\ open' \in [Sockets -> SUBSET (Procs \cup {Main})]
        /\ backlog' \in Seq(Clients)
    BY <1>13, TableTypes DEF Exit
  <2> QED
    BY <1>13, <2>1 DEF TypeOK, Exit, At
<1>14. ASSUME NEW p \in Procs, ProcStep(p) PROVE TypeOK'
  BY <1>9, <1>10, <1>11, <1>12, <1>13, <1>14, ProcFacts DEF ProcStep
<1>15. ASSUME NEW c \in Clients, Connect(c) \/ AskOrLeave(c) PROVE TypeOK'
  <2>1. CASE Connect(c)
    BY <2>1 DEF TypeOK, Connect
  <2>2. CASE AskOrLeave(c)
    BY <2>2 DEF TypeOK, AskOrLeave
  <2> QED
    BY <1>15, <2>1, <2>2
<1>16. CASE UNCHANGED vars
  BY <1>16 DEF TypeOK, vars
<1> QED
  BY <1>1, <1>3, <1>4, <1>5, <1>6, <1>7, <1>8, <1>14, <1>15, <1>16 DEF Next, ParentStep

(* A step of a child or grandchild p leaves the parent alone. It moves p,  *)
(* from "exit" only to the end, or makes a grandchild and p exits.         *)
LEMMA ProcSteps ==
  ASSUME TypeOK, NEW p \in Procs, ProcStep(p)
  PROVE  /\ UNCHANGED <<settings, parentVars, cst, kills>>
         /\ backlog' = backlog \/ backlog' = <<>>
         /\ proc[p] # "none"
         /\ \/ /\ proc[p] = "exit" => proc'[p] \in {"zombie", "gone"}
               /\ proc[p] \notin {"zombie", "gone"}
               /\ \A q \in Procs \ {p} : proc'[q] = proc[q]
            \/ /\ p = Child(p[2])
               /\ proc'[p] = "exit"
               /\ \A q \in Procs \ {p, Grand(p[2])} : proc'[q] = proc[q]
<1> USE SocketFacts, ProcFacts DEF TypeOK, At
<1>1. CASE p[1] = "child" /\ CloseListen(p[2])
  BY <1>1, TableTypes DEF CloseListen
<1>2. CASE p[1] = "child" /\ ForkAgain(p[2])
  <2>1. p = Child(p[2])
    BY <1>2, ProcFacts
  <2>2. backlog' = backlog \/ backlog' = <<>>
    BY <1>2, TableTypes DEF ForkAgain
  <2> QED
    BY <1>2, <2>1, <2>2 DEF ForkAgain
<1>3. CASE HandlerEnds(p)
  BY <1>3 DEF HandlerEnds
<1>4. CASE CloseLink(p)
  BY <1>4, TableTypes DEF CloseLink
<1>5. CASE Exit(p)
  BY <1>5, TableTypes DEF Exit
<1> QED
  BY <1>1, <1>2, <1>3, <1>4, <1>5 DEF ProcStep

(* Every step keeps the parent's children in order.                        *)
LEMMA ParentNext == TypeOK /\ ParentInv /\ [Next]_vars => ParentInv'
<1> SUFFICES ASSUME TypeOK, ParentInv, [Next]_vars PROVE ParentInv'
  OBVIOUS
<1> USE DEF TypeOK, ParentInv, settings, parentVars
<1>1. CASE Start \/ Daemon \/ Kill
  BY <1>1 DEF Start, Daemon, Kill, Goes
<1>2. CASE Accept
  BY <1>2 DEF Accept
<1>3. CASE Fork
  BY <1>3 DEF Fork
<1>4. CASE CloseClient
  BY <1>4 DEF CloseClient
<1>5. CASE Wait
  BY <1>5 DEF Wait
<1>6. ASSUME NEW p \in Procs, ProcStep(p) PROVE ParentInv'
  BY <1>6, ProcSteps
<1>7. ASSUME NEW c \in Clients, Connect(c) \/ AskOrLeave(c) PROVE ParentInv'
  BY <1>7 DEF Connect, AskOrLeave
<1>8. CASE UNCHANGED vars
  BY <1>8 DEF vars
<1> QED
  BY <1>1, <1>2, <1>3, <1>4, <1>5, <1>6, <1>7, <1>8 DEF Next, ParentStep

(* A grandchild is made when its child exits, and stays behind it.         *)
LEMMA GrandNext ==
  TypeOK /\ ParentInv /\ OnceInv /\ GrandInv /\ [Next]_vars => GrandInv'
<1> SUFFICES ASSUME TypeOK, ParentInv, OnceInv, GrandInv, [Next]_vars,
                    NEW c \in Clients, proc'[Grand(c)] # "none"
             PROVE  proc'[Child(c)] \in {"exit", "zombie", "gone"}
  BY DEF GrandInv
<1> DEFINE Goal == proc'[Child(c)] \in {"exit", "zombie", "gone"}
<1>a. proc[Grand(c)] # "none" => proc[Child(c)] \in {"exit", "zombie", "gone"}
  BY DEF GrandInv
<1>b. Child(c) \in Procs /\ Grand(c) \in Procs /\ Child(c) # Grand(c)
  BY ProcFacts
<1>1. CASE UNCHANGED proc
  BY <1>1, <1>a
<1>2. CASE Goes
  BY <1>2, <1>a, <1>b DEF Goes, TypeOK
<1>3. CASE Fork
  <2>1. cur \in Clients /\ Fresh(cur)
    BY <1>3 DEF Fork, ParentInv, OnceInv
  <2>2. CASE c = cur
    BY <1>3, <1>a, <1>b, <2>1, <2>2 DEF Fork, Fresh, TypeOK
  <2>3. CASE c # cur
    BY <1>3, <1>a, <1>b, <2>1, <2>3, ProcFacts DEF Fork, TypeOK
  <2> QED
    BY <2>2, <2>3
<1>4. CASE Wait
  BY <1>4, <1>a, <1>b DEF Wait, TypeOK
<1>5. ASSUME NEW p \in Procs, ProcStep(p) PROVE Goal
  <2>1. p[2] \in Clients /\ (p = Child(p[2]) \/ p = Grand(p[2]))
    BY ProcFacts
  <2>2. CASE p = Child(c)
    BY <1>5, <1>a, <1>b, <2>2, ProcFacts, ProcSteps DEF TypeOK
  <2>3. CASE p = Grand(c)
    <3>1. p # Child(p[2])
      BY <2>1, <2>3, ProcFacts
    <3>2. proc[p] # "none" /\ proc'[Child(c)] = proc[Child(c)]
      BY <1>5, <1>b, <2>3, <3>1, ProcSteps
    <3> QED
      BY <1>a, <2>3, <3>2
  <2>4. CASE p # Child(c) /\ p # Grand(c)
    <3>1. Grand(p[2]) # Grand(c) \/ p # Child(p[2])
      BY <2>1, <2>4, ProcFacts
    <3> QED
      BY <1>5, <1>a, <1>b, <2>1, <2>4, <3>1, ProcFacts, ProcSteps
  <2> QED
    BY <2>2, <2>3, <2>4
<1> QED
  BY <1>1, <1>2, <1>3, <1>4, <1>5
     DEF Next, ParentStep, Start, Daemon, Kill, Accept, CloseClient, Connect,
         AskOrLeave, vars

(* Which connections wait changes only by accept and connect.              *)
LEMMA FewerWait == (backlog' = backlog \/ backlog' = <<>>) =>
                     \A c \in Clients : Waits(c)' => Waits(c)
BY DEF Waits

(* Every step keeps it so that a connection is accepted once.              *)
LEMMA OnceNext ==
  TypeOK /\ ParentInv /\ OnceInv /\ [Next]_vars => OnceInv'
<1> SUFFICES ASSUME TypeOK, ParentInv, OnceInv, [Next]_vars PROVE OnceInv'
  OBVIOUS
<1>a. \A c \in Clients : Child(c) \in Procs /\ Grand(c) \in Procs
  BY ProcFacts
<1>b. ASSUME backlog' = backlog \/ backlog' = <<>>, UNCHANGED <<cst, proc>>,
             pc' # "fork"
      PROVE  OnceInv'
  BY <1>b, FewerWait DEF OnceInv, Fresh, Taken, TypeOK
<1>1. CASE Start
  BY <1>1, <1>b DEF Start
<1>2. ASSUME Goes, UNCHANGED cst PROVE OnceInv'
  <2>1. backlog' = backlog \/ backlog' = <<>>
    BY <1>2 DEF Goes, CloseAll, Descriptors
  <2>2. \A c \in Clients : Fresh(c) => Fresh(c)'
    BY <1>2, <1>a DEF Goes, Fresh, TypeOK
  <2> QED
    BY <1>2, <2>1, <2>2, FewerWait DEF OnceInv, Goes, Taken, TypeOK
<1>3. CASE Daemon
  BY <1>2, <1>3, <1>b DEF Daemon
<1>4. CASE Kill
  BY <1>2, <1>4 DEF Kill
<1>5. CASE Accept
  <2>1. /\ backlog \in Seq(Clients) /\ backlog # <<>>
        /\ backlog' = Tail(backlog) /\ cur' = Head(backlog)
        /\ UNCHANGED <<cst, proc>> /\ pc = "accept" /\ pc' = "fork"
    BY <1>5 DEF Accept, TypeOK
  <2>2. /\ Head(backlog) = backlog[1] /\ 1 \in DOMAIN backlog
        /\ \A i \in DOMAIN backlog' : /\ i + 1 \in DOMAIN backlog
                                      /\ i \in Nat /\ i + 1 # 1
                                      /\ backlog'[i] = backlog[i + 1]
    BY <2>1
  <2>3. \A c \in Clients : Waits(c)' => Waits(c) /\ c # cur'
    BY <2>1, <2>2 DEF Waits, OnceInv
  <2>4. cur' \in Clients /\ Waits(cur')
    BY <2>1, <2>2 DEF Waits
  <2>5. \A i, j \in DOMAIN backlog' : backlog'[i] = backlog'[j] => i = j
    BY <2>1, <2>2 DEF OnceInv
  <2>6. \A c \in Clients : Fresh(c) => Fresh(c)'
    BY <2>1 DEF Fresh
  <2>7. \A c \in Clients : c = cur' => Fresh(c)'
    BY <2>4, <2>6 DEF OnceInv
  <2>8. \A c \in Clients : cst[c] = "new" => c # cur'
    BY <2>4 DEF OnceInv
  <2> QED
    BY <2>1, <2>3, <2>4, <2>5, <2>6, <2>7, <2>8 DEF OnceInv, Taken, Fresh
<1>6. CASE Fork
  <2>1. cur \in Clients /\ pc = "fork" /\ pc' = "close" /\ UNCHANGED cst
    BY <1>6 DEF Fork, ParentInv
  <2>2. backlog' = backlog \/ backlog' = <<>>
    BY <1>6 DEF Fork, Copy, Descriptors
  <2>3. \A c \in Clients \ {cur} : Fresh(c) => Fresh(c)'
    BY <1>6, <1>a, <2>1, ProcFacts DEF Fork, Fresh, TypeOK
  <2>4. \A c \in Clients : cst[c] = "new" \/ Waits(c) => c # cur
    BY <2>1 DEF OnceInv, Taken
  <2> QED
    BY <2>1, <2>2, <2>3, <2>4, FewerWait DEF OnceInv, Taken, TypeOK
<1>7. CASE CloseClient
  <2>1. backlog' = backlog \/ backlog' = <<>>
    BY <1>7 DEF CloseClient, Close, Descriptors
  <2> QED
    BY <1>7, <1>b, <2>1 DEF CloseClient
<1>8. CASE Wait
  <2>1. \A c \in Clients : Fresh(c) => Fresh(c)'
    BY <1>8, <1>a DEF Wait, Fresh, TypeOK
  <2> QED
    BY <1>8, <2>1 DEF Wait, OnceInv, Taken, Waits
<1>9. ASSUME NEW p \in Procs, ProcStep(p) PROVE OnceInv'
  <2>1. \A c \in Clients : Fresh(c) => Fresh(c)'
    <3> SUFFICES ASSUME NEW c \in Clients, Fresh(c) PROVE Fresh(c)'
      OBVIOUS
    <3>1. p[2] \in Clients /\ p # Child(c) /\ p # Grand(c)
      BY <1>9, ProcSteps, ProcFacts DEF Fresh
    <3>2. p = Child(p[2]) => p[2] # c
      BY <3>1
    <3>3. p = Child(p[2]) => Grand(p[2]) # Grand(c) /\ Grand(p[2]) # Child(c)
      BY <3>1, <3>2, ProcFacts
    <3> QED
      BY <1>9, <1>a, <3>1, <3>3, ProcSteps DEF Fresh
  <2>2. (backlog' = backlog \/ backlog' = <<>>) /\ UNCHANGED <<pc, cur, cst>>
    BY <1>9, ProcSteps DEF parentVars
  <2>3. pc = "fork" => cur \in Clients
    BY DEF ParentInv
  <2> QED
    BY <2>1, <2>2, <2>3, FewerWait DEF OnceInv, Taken, TypeOK
<1>10. ASSUME NEW d \in Clients, Connect(d) PROVE OnceInv'
  <2>1. /\ backlog \in Seq(Clients) /\ backlog' = Append(backlog, d)
        /\ cst[d] = "new" /\ cst' = [cst EXCEPT ![d] = "on"]
        /\ UNCHANGED <<proc, pc, cur>>
    BY <1>10 DEF Connect, TypeOK, parentVars
  <2>2. \A c \in Clients : Waits(c)' => Waits(c) \/ c = d
    BY <2>1 DEF Waits
  <2>3. \A i, j \in DOMAIN backlog' : backlog'[i] = backlog'[j] => i = j
    BY <2>1 DEF OnceInv, Waits
  <2>4. \A c \in Clients : cst'[c] = "new" => cst[c] = "new" /\ c # d
    BY <2>1 DEF TypeOK
  <2> QED
    BY <2>1, <2>2, <2>3, <2>4 DEF OnceInv, Taken, Fresh
<1>11. ASSUME NEW d \in Clients, AskOrLeave(d) PROVE OnceInv'
  <2>1. \A c \in Clients : cst'[c] = "new" => cst[c] = "new"
    BY <1>11 DEF AskOrLeave, TypeOK
  <2> QED
    BY <1>11, <2>1 DEF AskOrLeave, OnceInv, Taken, Fresh, Waits, parentVars
<1>12. CASE UNCHANGED vars
  BY <1>12 DEF vars, parentVars, OnceInv, Taken, Fresh, Waits
<1> QED
  BY <1>1, <1>3, <1>4, <1>5, <1>6, <1>7, <1>8, <1>9, <1>10, <1>11, <1>12
     DEF Next, ParentStep

(* No step gives a connection to a process that is not its own.            *)
LEMMA OwnNext ==
  TypeOK /\ ParentInv /\ OwnConnection /\ [Next]_vars => OwnConnection'
<1> SUFFICES ASSUME TypeOK, ParentInv, OwnConnection, [Next]_vars, NEW c \in Clients
             PROVE  /\ open'[c] \subseteq {Main, Child(c), Grand(c)}
                    /\ Main \in open'[c] => cur' = c /\ pc' \in {"fork", "close"}
  BY DEF OwnConnection
<1> DEFINE Goal == /\ open'[c] \subseteq {Main, Child(c), Grand(c)}
                   /\ Main \in open'[c] => cur' = c /\ pc' \in {"fork", "close"}
<1> SUFFICES Goal
  OBVIOUS
<1>a. /\ open[c] \subseteq {Main, Child(c), Grand(c)}
      /\ Main \in open[c] => cur = c /\ pc \in {"fork", "close"}
  BY DEF OwnConnection
<1>b. open \in [Sockets -> SUBSET (Procs \cup {Main})]
  BY DEF TypeOK
<1>c. c \in Sockets /\ c # Listen
  BY ForkAssumption DEF Sockets
<1>1. CASE Start
  BY <1>1, <1>a, <1>b, <1>c DEF Start
<1>2. CASE Goes
  <2>1. open'[c] = open[c] \ {Main}
    BY <1>2, <1>b, <1>c DEF Goes, CloseAll, Descriptors
  <2> QED
    BY <2>1, <1>a
<1>3. CASE Daemon
  BY <1>2, <1>3, <1>a DEF Daemon
<1>4. CASE Accept
  BY <1>4, <1>a, <1>b, <1>c DEF Accept, TypeOK
<1>5. CASE Fork
  <2>1. cur \in Clients
    BY <1>5 DEF Fork, ParentInv
  <2>2. \/ UNCHANGED open
        \/ open'[c] = open[c] \cup (IF Main \in open[c] THEN {Child(cur)} ELSE {})
    BY <1>5, <1>b, <1>c DEF Fork, Copy, Descriptors
  <2> QED
    BY <1>5, <2>2, <1>a DEF Fork
<1>6. CASE CloseClient
  <2>1. open'[c] = IF c = cur THEN open[c] \ {Main} ELSE open[c]
    BY <1>6, <1>b, <1>c DEF CloseClient, Close, Descriptors
  <2> QED
    BY <1>6, <2>1, <1>a DEF CloseClient
<1>7. CASE Wait
  BY <1>7, <1>a DEF Wait
<1>8. ASSUME NEW d \in Clients, CloseListen(d) PROVE Goal
  BY <1>8, <1>a, <1>b, <1>c DEF CloseListen, Close, Descriptors, parentVars
<1>9. ASSUME NEW d \in Clients, ForkAgain(d) PROVE Goal
  <2>1. \/ UNCHANGED open
        \/ open'[c] = open[c] \cup (IF Child(d) \in open[c] THEN {Grand(d)} ELSE {})
    BY <1>9, <1>b, <1>c DEF ForkAgain, Copy, Descriptors
  <2>2. Child(d) \in open[c] => d = c
    BY <1>a, ProcFacts
  <2>3. Grand(d) # Main
    BY ProcFacts
  <2> QED
    BY <1>9, <2>1, <2>2, <2>3, <1>a DEF ForkAgain, parentVars
<1>10. ASSUME NEW p \in Procs, HandlerEnds(p) \/ CloseLink(p) \/ Exit(p) PROVE Goal
  <2>1. open'[c] \subseteq open[c] /\ UNCHANGED parentVars
    BY <1>10, <1>b, <1>c
       DEF HandlerEnds, CloseLink, Exit, Close, CloseAll, Descriptors
  <2> QED
    BY <2>1, <1>a DEF parentVars
<1>11. ASSUME NEW p \in Procs, ProcStep(p) PROVE Goal
  BY <1>8, <1>9, <1>10, <1>11, ProcFacts DEF ProcStep
<1> QED
  BY <1>1, <1>2, <1>3, <1>4, <1>5, <1>6, <1>7, <1>11, <1>a
     DEF Next, ParentStep, Kill, Connect, AskOrLeave, vars, parentVars

(* The inductive invariant of the forking servers.                         *)
LEMMA ForkInvariant == Spec => []ForkInv
<1>1. Init => ForkInv
  <2> SUFFICES ASSUME Init PROVE ForkInv
    OBVIOUS
  <2>1. TypeOK
    <3>1. proc \in [Procs -> {"none", "born", "fork", "serve", "close",
                             "exit", "zombie", "gone"}]
      BY DEF Init
    <3>2. open \in [Sockets -> SUBSET (Procs \cup {Main})]
      BY DEF Init
    <3>3. backlog \in Seq(Clients) /\ kills \in 0 .. MaxKills
      BY ForkAssumption DEF Init
    <3>4. cst \in [Clients -> {"new", "on", "asked", "left"}]
      BY DEF Init
    <3> QED
      BY <3>1, <3>2, <3>3, <3>4 DEF Init, TypeOK
  <2>2. ParentInv /\ OnceInv /\ GrandInv
    BY ProcFacts DEF Init, ParentInv, OnceInv, GrandInv, Fresh, Waits, Taken
  <2>3. OwnConnection
    BY SocketFacts DEF Init, OwnConnection
  <2> QED
    BY <2>1, <2>2, <2>3 DEF ForkInv
<1>2. ForkInv /\ [Next]_vars => ForkInv'
  BY TypeNext, ParentNext, OnceNext, GrandNext, OwnNext DEF ForkInv
<1> QED
  BY <1>1, <1>2, PTL DEF Spec
-----------------------------------------------------------------------------
(* A connection is read by one process at most.                            *)
THEOREM OneReader == Spec => []OneServes
<1>1. ForkInv => OneServes
  BY DEF ForkInv, GrandInv, OneServes
<1> QED
  BY <1>1, ForkInvariant, PTL

(* The parent has no child, running or zombie, when it is back at accept.  *)
THEOREM NoChildLeft == Spec => []ChildrenReaped
<1>1. ForkInv => ChildrenReaped
  BY DEF ForkInv, ParentInv, ChildrenReaped
<1> QED
  BY <1>1, ForkInvariant, PTL

(* No process has a connection open that it was not forked for, but for    *)
(* the parent between accept and close.                                    *)
THEOREM OpenIsOwn == Spec => []OwnConnection
<1>1. ForkInv => OwnConnection
  BY DEF ForkInv
<1> QED
  BY <1>1, ForkInvariant, PTL
-----------------------------------------------------------------------------
(* What the parent waits for. Its children are alive or to be reaped, and  *)
(* every zombie is one of them.                                            *)

ChildInv ==
  /\ \A p \in mine : proc[p] \notin {"none", "gone"}
  /\ \A p \in Procs : proc[p] = "zombie" => p \in mine
  /\ \A c \in Clients : proc[Child(c)] \in {"serve", "close"} => short

LEMMA ChildNext == TypeOK /\ ParentInv /\ ChildInv /\ [Next]_vars => ChildInv'
<1> SUFFICES ASSUME TypeOK, ParentInv, ChildInv, [Next]_vars PROVE ChildInv'
  OBVIOUS
<1> USE DEF settings, parentVars
<1>a. \A c \in Clients : Child(c) \in Procs /\ Grand(c) \in Procs /\ Child(c) # Grand(c)
  BY ProcFacts
<1>b. proc \in [Procs -> {"none", "born", "fork", "serve", "close", "exit", "zombie", "gone"}]
      /\ mine \subseteq Procs
  BY DEF TypeOK
<1>1. CASE UNCHANGED <<proc, mine, short>>
  BY <1>1 DEF ChildInv
<1>2. ASSUME Goes, short' = short PROVE ChildInv'
  BY <1>2, <1>a, <1>b DEF Goes, ChildInv
<1>3. CASE Fork
  <2>1. cur \in Clients
    BY <1>3 DEF Fork, ParentInv
  <2>2. CASE UNCHANGED <<mine, proc>>
    BY <1>1, <1>3, <2>2 DEF Fork
  <2>3. CASE mine' = mine \cup {Child(cur)} /\ proc' = [proc EXCEPT ![Child(cur)] = "born"]
    BY <1>3, <1>a, <1>b, <2>1, <2>3 DEF Fork, ChildInv
  <2> QED
    BY <1>3, <2>2, <2>3 DEF Fork
<1>4. CASE Wait
  <2>1. CASE UNCHANGED <<mine, proc>>
    BY <1>1, <1>4, <2>1 DEF Wait
  <2>2. ASSUME NEW p, p \in (IF forked THEN {Child(cur)} ELSE mine), mine' = mine \ {p},
               proc' = [proc EXCEPT ![p] = "gone"]
        PROVE  ChildInv'
    BY <1>4, <1>a, <1>b, <2>2 DEF Wait, ChildInv
  <2> QED
    BY <1>4, <2>1, <2>2 DEF Wait
<1>5. ASSUME NEW c \in Clients, CloseListen(c) PROVE ChildInv'
  BY <1>5, <1>a, <1>b DEF CloseListen, At, ChildInv
<1>6. ASSUME NEW c \in Clients, ForkAgain(c) PROVE ChildInv'
  <2>1. CASE proc' = [proc EXCEPT ![Child(c)] = "exit", ![Grand(c)] = "serve"]
    <3>1. \A d \in Clients : Grand(c) # Child(d)
      BY ProcFacts
    <3> QED
      BY <1>6, <1>a, <1>b, <2>1, <3>1 DEF ForkAgain, ChildInv
  <2>2. CASE short /\ proc' = [proc EXCEPT ![Child(c)] = "serve"]
    BY <1>6, <1>a, <1>b, <2>2 DEF ForkAgain, ChildInv
  <2> QED
    BY <1>6, <2>1, <2>2 DEF ForkAgain, At
<1>7. ASSUME NEW p \in Procs, HandlerEnds(p) \/ CloseLink(p) \/ Exit(p) PROVE ChildInv'
  BY <1>7, <1>a, <1>b DEF HandlerEnds, CloseLink, Exit, At, ChildInv
<1>8. ASSUME NEW p \in Procs, ProcStep(p) PROVE ChildInv'
  BY <1>5, <1>6, <1>7, <1>8, ProcFacts DEF ProcStep
<1> QED
  BY <1>1, <1>2, <1>3, <1>4, <1>8
     DEF Next, ParentStep, Start, Daemon, Accept, CloseClient, Kill, Connect,
         AskOrLeave, vars

(* Whatever forks fail and however often the parent is killed, the child   *)
(* that waitpid blocks for exists and is about to exit, unless its own     *)
(* fork failed.                                                            *)
THEOREM ParentWaitsForChild == Spec => []WaitReturns
<1>1. Init => ChildInv
  BY ProcFacts DEF Init, ChildInv
<1>2. ForkInv /\ ChildInv => WaitReturns
  <2> SUFFICES ASSUME ForkInv, ChildInv, pc = "wait", forked
               PROVE  \/ proc[Child(cur)] \in {"born", "fork", "exit", "zombie"}
                      \/ short /\ proc[Child(cur)] \in {"serve", "close"}
    BY DEF WaitReturns
  <2>1. cur \in Clients /\ Child(cur) \in mine
    BY DEF ForkInv, ParentInv
  <2>2. proc[Child(cur)] \in {"none", "born", "fork", "serve", "close", "exit", "zombie", "gone"}
    BY <2>1, ProcFacts DEF ForkInv, TypeOK
  <2> QED
    BY <2>1, <2>2 DEF ChildInv
<1>3. ForkInv /\ ChildInv /\ [Next]_vars => ChildInv'
  BY ChildNext DEF ForkInv
<1> QED
  BY <1>1, <1>2, <1>3, ForkInvariant, PTL DEF Spec
-----------------------------------------------------------------------------
(* What the processes have open.                                           *)

LEMMA PortNext ==
  TypeOK /\ ParentInv /\ OnceInv /\ GrandInv /\ PortIsOwn /\ [Next]_vars => PortIsOwn'
<1> SUFFICES ASSUME TypeOK, ParentInv, OnceInv, GrandInv, PortIsOwn, [Next]_vars PROVE PortIsOwn'
  OBVIOUS
<1> USE DEF settings, parentVars
<1>a. \A c \in Clients : Child(c) \in Procs /\ Grand(c) \in Procs /\ Child(c) # Grand(c)
  BY ProcFacts
<1>b. /\ open \in [Sockets -> SUBSET (Procs \cup {Main})] /\ Listen \in Sockets
      /\ proc \in [Procs -> {"none", "born", "fork", "serve", "close", "exit", "zombie", "gone"}]
      /\ Main \notin Procs /\ \A c \in Clients : c \in Sockets /\ c # Listen
  BY ProcFacts, SocketFacts, ForkAssumption DEF TypeOK
<1>1. CASE UNCHANGED <<proc, open>> /\ (pc = "down" <=> pc' = "down")
  BY <1>1 DEF PortIsOwn
<1>2. CASE Start
  BY <1>2, <1>b DEF Start, PortIsOwn
<1>3. CASE Goes
  <2>1. \A s \in Sockets : open'[s] = open[s] \ {Main}
    BY <1>3, <1>b DEF Goes, CloseAll, Descriptors
  <2>2. \A p \in Procs : proc'[p] = proc[p] \/ (proc[p] = "zombie" /\ proc'[p] = "gone")
    BY <1>3 DEF Goes
  <2>3. pc' = "down"
    BY <1>3 DEF Goes
  <2>4. \A s \in Sockets, p \in Procs : p \in open'[s] => p \in open[s] /\ proc'[p] = proc[p]
    BY <2>1, <2>2 DEF PortIsOwn
  <2> QED
    BY <1>b, <2>1, <2>3, <2>4 DEF PortIsOwn
<1>4. CASE Accept
  <2>1. Head(backlog) \in Clients
    BY <1>4 DEF Accept, TypeOK
  <2>2. \A s \in Sockets : open'[s] = open[s] \/ (s # Listen /\ open'[s] = {Main})
    BY <1>4, <1>b, <2>1 DEF Accept
  <2>3. open'[Listen] = open[Listen] /\ proc' = proc /\ pc # "down" /\ pc' # "down"
    BY <1>4, <1>b, <2>1 DEF Accept
  <2> QED
    BY <1>b, <2>2, <2>3 DEF PortIsOwn
<1>5. CASE Fork
  <2>1. CASE UNCHANGED <<mine, proc, open, backlog>>
    BY <1>1, <1>5, <2>1 DEF Fork
  <2>2. CASE Copy(Main, Child(cur)) /\ proc' = [proc EXCEPT ![Child(cur)] = "born"]
    <3>1. cur \in Clients /\ pc # "down" /\ pc' # "down" /\ Fresh(cur)
      BY <1>5 DEF Fork, ParentInv, OnceInv
    <3>2. \A s \in Sockets : \A p \in open'[s] : p \in open[s] \/ p = Child(cur)
      BY <1>b, <2>2 DEF Copy, Descriptors
    <3>3. Main \in open'[Listen] <=> Main \in open[Listen]
      BY <1>a, <1>b, <2>2, <3>1 DEF Copy, Descriptors
    <3>4. proc'[Child(cur)] = "born" /\ \A p \in Procs \ {Child(cur)} : proc'[p] = proc[p]
      BY <1>a, <1>b, <2>2, <3>1
    <3> QED
      BY <1>b, <3>1, <3>2, <3>3, <3>4 DEF PortIsOwn
  <2> QED
    BY <1>5, <2>1, <2>2 DEF Fork
<1>6. CASE CloseClient
  <2>1. \A s \in Sockets : open'[s] \subseteq open[s]
    BY <1>6, <1>b DEF CloseClient, Close, Descriptors
  <2>2. open'[Listen] = open[Listen] /\ proc' = proc /\ pc # "down" /\ pc' # "down"
    BY <1>6, <1>b DEF CloseClient, Close, Descriptors, ParentInv
  <2> QED
    BY <2>1, <2>2, <1>b DEF PortIsOwn
<1>7. CASE Wait
  <2>1. open' = open /\ pc # "down" /\ pc' # "down"
    BY <1>7 DEF Wait
  <2>2. \A p \in Procs : proc'[p] = proc[p] \/ (proc[p] = "zombie" /\ proc'[p] = "gone")
    BY <1>7, <1>b DEF Wait
  <2>3. \A s \in Sockets, p \in Procs : p \in open[s] => proc'[p] = proc[p]
    BY <2>2 DEF PortIsOwn
  <2> QED
    BY <1>b, <2>1, <2>3 DEF PortIsOwn
<1>8. ASSUME NEW c \in Clients, CloseListen(c) PROVE PortIsOwn'
  <2>1. \A s \in Sockets : open'[s] = IF s = Listen THEN open[s] \ {Child(c)} ELSE open[s]
    BY <1>8, <1>b DEF CloseListen, Close, Descriptors
  <2>2. proc'[Child(c)] = "fork" /\ \A p \in Procs \ {Child(c)} : proc'[p] = proc[p]
    BY <1>8, <1>a, <1>b DEF CloseListen, At
  <2>3. pc' = pc /\ Child(c) # Main
    BY <1>8, <1>a, <1>b DEF CloseListen
  <2> QED
    BY <1>b, <2>1, <2>2, <2>3 DEF PortIsOwn
<1>9. ASSUME NEW c \in Clients, ForkAgain(c) PROVE PortIsOwn'
  <2>1. CASE proc' = [proc EXCEPT ![Child(c)] = "exit", ![Grand(c)] = "serve"]
             /\ proc[Child(c)] = "fork" /\ Copy(Child(c), Grand(c))
    <3>1. \A s \in Sockets : \A p \in open'[s] : \/ p \in open[s]
                                                 \/ p = Grand(c) /\ Child(c) \in open[s]
      BY <1>b, <2>1 DEF Copy, Descriptors
    <3>2. Child(c) \notin open[Listen]
      BY <1>a, <2>1 DEF PortIsOwn
    <3>3. open'[Listen] = open[Listen]
      BY <1>b, <2>1, <3>2 DEF Copy, Descriptors
    <3>4. /\ proc'[Child(c)] = "exit" /\ proc'[Grand(c)] = "serve"
          /\ \A p \in Procs \ {Child(c), Grand(c)} : proc'[p] = proc[p]
      BY <1>a, <1>b, <2>1
    <3>5. Grand(c) \notin open[Listen]
      BY <1>9, <1>a, <1>b, <2>1 DEF PortIsOwn, GrandInv
    <3>6. pc' = pc
      BY <1>9 DEF ForkAgain
    <3> QED
      BY <1>b, <3>1, <3>2, <3>3, <3>4, <3>5, <3>6 DEF PortIsOwn
  <2>2. CASE proc[Child(c)] = "fork" /\ proc' = [proc EXCEPT ![Child(c)] = "serve"] /\ open' = open
    BY <1>9, <1>a, <1>b, <2>2 DEF ForkAgain, PortIsOwn
  <2> QED
    BY <1>9, <2>1, <2>2 DEF ForkAgain, At
<1>10. ASSUME NEW p \in Procs, HandlerEnds(p) \/ CloseLink(p) \/ Exit(p) PROVE PortIsOwn'
  <2>1. \A s \in Sockets : open'[s] \subseteq open[s] /\ (Main \in open[s] => Main \in open'[s])
    BY <1>10, <1>b DEF HandlerEnds, CloseLink, Exit, Close, CloseAll, Descriptors
  <2>2. pc' = pc /\ \A q \in Procs \ {p} : proc'[q] = proc[q]
    BY <1>10, <1>b DEF HandlerEnds, CloseLink, Exit, At
  <2>3. CASE HandlerEnds(p) \/ CloseLink(p)
    <3>1. proc[p] # "born" /\ proc'[p] \in {"close", "exit"}
      BY <1>b, <2>3 DEF HandlerEnds, CloseLink, At
    <3> QED
      BY <1>b, <2>1, <2>2, <3>1 DEF PortIsOwn
  <2>4. CASE Exit(p)
    <3>1. \A s \in Sockets : p \notin open'[s]
      BY <1>b, <2>4 DEF Exit, CloseAll, Descriptors
    <3> QED
      BY <1>b, <2>1, <2>2, <3>1 DEF PortIsOwn
  <2> QED
    BY <1>10, <2>3, <2>4
<1>11. ASSUME NEW p \in Procs, ProcStep(p) PROVE PortIsOwn'
  BY <1>8, <1>9, <1>10, <1>11, ProcFacts DEF ProcStep
<1>12. CASE Daemon
  BY <1>1, <1>3, <1>12 DEF Daemon
<1> QED
  BY <1>1, <1>2, <1>3, <1>4, <1>5, <1>6, <1>7, <1>11, <1>12
     DEF Next, ParentStep, Kill, Connect, AskOrLeave, vars

(* Who serves a client has not the port: only a parent has, as long as it  *)
(* runs, and a child that was just forked; and who is over has nothing.    *)
THEOREM PortComesFree == Spec => []PortIsOwn
<1>1. Init => PortIsOwn
  BY ProcFacts, SocketFacts DEF Init, PortIsOwn
<1>2. ForkInv /\ PortIsOwn /\ [Next]_vars => PortIsOwn'
  BY PortNext DEF ForkInv
<1> QED
  BY <1>1, <1>2, ForkInvariant, PTL DEF Spec
=============================================================================
