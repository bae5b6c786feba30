----------------------------- MODULE ChatProofs -----------------------------
(***************************************************************************)
(* The chat room for any clients, as many on a host as there are, any      *)
(* lines, and a network that loses, repeats and reorders what they send.   *)
(***************************************************************************)
EXTENDS ChatServer, TLAPS

Names == Lines \cup {Offline}
User  == [ep : Endpoints, name : Names]
Sent  == (Endpoints \X Names \X Names) \cup {Please}

(* The state is well typed, and the entry of an address is about it.       *)
MapInv == /\ users \in [Hosts -> User \cup {NoUser}]
          /\ \A h \in Hosts : users[h] # NoUser => users[h].ep[1] = h
          /\ routed \in 0 .. MaxRouted /\ inode \in 0 .. routed
          /\ lines \in 0 .. MaxLines
          /\ net \subseteq [from : Endpoints, kind : Kinds, id : 1 .. lines]
          /\ heard \in [Endpoints -> Seq(Sent)]
          /\ came \in [Hosts -> Seq(Endpoints)]
          /\ since \in [Hosts -> Nat]

-----------------------------------------------------------------------------
(* An endpoint belongs to the address it has.                              *)
LEMMA HostOf == ASSUME NEW e \in Endpoints PROVE e[1] \in Hosts
BY ChatAssumption

(* What a datagram leaves of its line is a name, a line, or Offline.       *)
LEMMA BodyIsLine ==
  ASSUME MapInv, NEW d \in net, d.kind # "bare", routed < MaxRouted
  PROVE  /\ Body(d) \in Names
         /\ Body(d) = Offline <=> d.kind \in {"offline", "loginoff"}
<1>1. d.kind \in {"login", "blank", "loginoff", "offline", "mention", "text"} /\ d.id \in 1 .. MaxLines
  <2>1. d.kind \in Kinds /\ d.id \in 1 .. lines
    BY DEF MapInv
  <2>2. lines \in Nat /\ MaxLines \in Nat /\ lines <= MaxLines
    BY ChatAssumption DEF MapInv
  <2>3. d.id \in 1 .. MaxLines
    BY <2>1, <2>2
  <2> QED
    BY <2>1, <2>3, ChatAssumption
<1>2. inode \in 0 .. MaxRouted
  BY ChatAssumption DEF MapInv
<1>3. CASE d.kind \in {"offline", "loginoff"}
  BY <1>3 DEF Body, Names
<1>4. CASE d.kind = "blank"
  <2>1. Body(d) = <<"User", inode>>
    BY <1>4 DEF Body
  <2>2. Body(d) \in Lines /\ Body(d) # Offline
    BY <1>2, <2>1 DEF Lines, Offline
  <2> QED
    BY <1>4, <2>2 DEF Names
<1>5. CASE d.kind \in {"login", "mention", "text"}
  <2>1. Body(d) = <<d.kind, d.id>>
    BY <1>5 DEF Body
  <2>2. Body(d) \in Lines /\ Body(d) # Offline
    BY <1>1, <1>5, <2>1 DEF Lines, Offline
  <2> QED
    BY <1>5, <2>2 DEF Names
<1> QED
  BY <1>1, <1>3, <1>4, <1>5

(* Only the entry of the sender's address may change: it goes with the     *)
(* word offline, and it comes with a login where there is none.            *)
LEMMA EntryOfSender ==
  ASSUME MapInv, NEW d \in net, d.kind # "bare", routed < MaxRouted
  PROVE  LET h == d.from[1] IN
         /\ Removed(d) \in [Hosts -> User \cup {NoUser}]
         /\ \A g \in Hosts : g # h => Removed(d)[g] = users[g]
         /\ Body(d) = Offline => Removed(d)[h] = NoUser
         /\ Body(d) # Offline =>
              Removed(d)[h] = IF SaysOnline(d) /\ users[h] = NoUser
                              THEN [ep |-> d.from, name |-> Body(d)] ELSE users[h]
<1> DEFINE h == d.from[1]
<1>1. d.from \in Endpoints /\ h \in Hosts
  BY HostOf DEF MapInv
<1>2. [ep |-> d.from, name |-> Body(d)] \in User
  BY <1>1, BodyIsLine DEF User
<1>3. /\ Added(d) \in [Hosts -> User \cup {NoUser}]
      /\ \A g \in Hosts : g # h => Added(d)[g] = users[g]
      /\ Added(d)[h] = IF SaysOnline(d) /\ users[h] = NoUser
                       THEN [ep |-> d.from, name |-> Body(d)] ELSE users[h]
  BY <1>1, <1>2 DEF Added, MapInv
<1> QED
  BY <1>1, <1>3 DEF Removed

(* The map stays well typed, whatever arrives.                             *)
LEMMA MapStep == ASSUME MapInv, [Next]_vars PROVE MapInv'
<1>1. ASSUME NEW e \in Endpoints, Enter(e) PROVE MapInv'
  BY <1>1, ChatAssumption DEF MapInv, Enter
<1>2. ASSUME NEW d \in net, Receive(d) PROVE MapInv'
  <2>1. d.from \in Endpoints /\ d.from[1] \in Hosts
    BY HostOf DEF MapInv
  <2>2. net' \subseteq [from : Endpoints, kind : Kinds, id : 1 .. lines']
    BY <1>2 DEF Receive, MapInv
  <2>3. routed' \in 0 .. MaxRouted /\ inode' \in 0 .. routed' /\ lines' \in 0 .. MaxLines
    <3>1. routed' = routed + 1 /\ routed < MaxRouted /\ lines' = lines
      BY <1>2 DEF Receive
    <3>2. inode' = inode \/ inode' = inode + 1
      BY <1>2 DEF Receive
    <3> QED
      BY <3>1, <3>2, ChatAssumption DEF MapInv
  <2>4. routed < MaxRouted /\ heard \in [Endpoints -> Seq(Sent)]
    BY <1>2 DEF Receive, MapInv
  <2>5. CASE d.kind = "bare"
    BY <1>2, <2>2, <2>3, <2>4, <2>5 DEF Receive, MapInv
  <2>6. CASE d.kind # "bare"
    <3>1. users' = Removed(d)
      BY <1>2, <2>6 DEF Receive
    <3>2. routed < MaxRouted
      BY <1>2 DEF Receive
    <3>3. users' \in [Hosts -> User \cup {NoUser}]
      BY <2>6, <3>1, <3>2, EntryOfSender
    <3>4. \A g \in Hosts : users'[g] # NoUser => users'[g].ep[1] = g
      <4>1. \A g \in Hosts : g # d.from[1] => users'[g] = users[g]
        BY <2>6, <3>1, <3>2, EntryOfSender
      <4>2. \/ users'[d.from[1]] = users[d.from[1]]
            \/ users'[d.from[1]] = NoUser
            \/ users'[d.from[1]] = [ep |-> d.from, name |-> Body(d)]
        BY <2>6, <3>1, <3>2, EntryOfSender
      <4> QED
        <5>1. \A g \in Hosts : users[g] # NoUser => users[g].ep[1] = g
          BY DEF MapInv
        <5> QED
          BY <2>1, <4>1, <4>2, <5>1
    <3>5. Body(d) \in Names
      BY <2>4, <2>6, BodyIsLine
    <3>6. heard' \in [Endpoints -> Seq(Sent)]
      <4>1. CASE users'[d.from[1]] = NoUser
        <5>1. heard' = [heard EXCEPT ![d.from] = Append(@, Please)]
          BY <1>2, <2>6, <4>1 DEF Receive, Prompt
        <5> QED
          BY <2>1, <2>4, <5>1 DEF Sent
      <4>2. CASE users'[d.from[1]] # NoUser
        <5> DEFINE line == <<d.from, users'[d.from[1]].name, Body(d)>>
        <5>1. users'[d.from[1]].name \in Names
          BY <2>1, <3>3, <4>2 DEF User
        <5>2. line \in Sent
          BY <2>1, <3>5, <5>1 DEF Sent
        <5>3. heard' = Broadcast(d, users')
          BY <1>2, <2>6, <4>2 DEF Receive
        <5>4. \A e \in Endpoints : heard'[e] \in {Append(heard[e], line), heard[e]}
          BY <5>3 DEF Broadcast
        <5> HIDE DEF line
        <5>5. \A s \in Seq(Sent) : Append(s, line) \in Seq(Sent)
          BY <5>2
        <5>6. \A e \in Endpoints : heard'[e] \in Seq(Sent)
          BY <2>4, <5>4, <5>5
        <5>7. heard' = [e \in Endpoints |-> heard'[e]]
          BY <5>3 DEF Broadcast
        <5> QED
          BY <5>6, <5>7
      <4> QED
        BY <4>1, <4>2
    <3>7. came' \in [Hosts -> Seq(Endpoints)]
      <4>1. came' = [came EXCEPT ![d.from[1]] = CameNow(d)] /\ came \in [Hosts -> Seq(Endpoints)]
        BY <1>2, <2>6 DEF Receive, MapInv
      <4>2. CameNow(d) \in Seq(Endpoints)
        BY <2>1, <4>1 DEF CameNow
      <4> QED
        BY <4>1, <4>2
    <3>8. since' \in [Hosts -> Nat]
      <4>1. since' = [since EXCEPT ![d.from[1]] = SinceNow(d)] /\ since \in [Hosts -> Nat]
        BY <1>2, <2>6 DEF Receive, MapInv
      <4>2. SinceNow(d) \in Nat
        BY <2>1, <2>4, <4>1 DEF SinceNow
      <4> QED
        BY <4>1, <4>2
    <3> QED
      BY <2>2, <2>3, <3>3, <3>4, <3>6, <3>7, <3>8 DEF MapInv
  <2> QED
    BY <2>5, <2>6
<1>3. CASE UNCHANGED vars
  BY <1>3 DEF MapInv, vars
<1> QED
  BY <1>1, <1>2, <1>3 DEF Next
-----------------------------------------------------------------------------
(* Who says online first has the entry of his host, until somebody there   *)
(* says offline.                                                           *)
LEMMA LoginStep ==
  ASSUME MapInv, OnlineLogsIn, [Next]_vars
  PROVE  OnlineLogsIn'
<1>1. ASSUME UNCHANGED <<users, came>> PROVE OnlineLogsIn'
  BY <1>1 DEF OnlineLogsIn
<1>2. ASSUME NEW d \in net, Receive(d), d.kind # "bare" PROVE OnlineLogsIn'
  <2> DEFINE h == d.from[1]
  <2>1. d.from \in Endpoints /\ h \in Hosts
    BY HostOf DEF MapInv
  <2>2. /\ users' = Removed(d) /\ routed < MaxRouted
        /\ came' = [came EXCEPT ![h] = CameNow(d)] /\ came \in [Hosts -> Seq(Endpoints)]
    BY <1>2 DEF Receive, MapInv
  <2>3. \A g \in Hosts : g # h => users'[g] = users[g] /\ came'[g] = came[g]
    BY <1>2, <2>1, <2>2, EntryOfSender
  <2>4. came'[h] = CameNow(d) /\ came[h] \in Seq(Endpoints)
    BY <2>1, <2>2
  <2>5. IF came[h] = <<>> THEN users[h] = NoUser
                          ELSE users[h] # NoUser /\ users[h].ep = came[h][1]
    BY <2>1 DEF OnlineLogsIn
  <2>6. CASE Body(d) = Offline
    <3>1. users'[h] = NoUser /\ came'[h] = <<>>
      BY <1>2, <2>2, <2>4, <2>6, EntryOfSender DEF CameNow
    <3> QED
      BY <2>3, <3>1 DEF OnlineLogsIn
  <2>7. CASE Body(d) # Offline /\ SaysOnline(d)
    <3>1. came'[h] = Append(came[h], d.from)
      BY <2>4, <2>7 DEF CameNow
    <3>2. /\ came'[h] # <<>>
          /\ came[h] = <<>> => came'[h][1] = d.from
          /\ came[h] # <<>> => came'[h][1] = came[h][1]
      BY <2>1, <2>4, <3>1
    <3>3. users'[h] = IF users[h] = NoUser THEN [ep |-> d.from, name |-> Body(d)] ELSE users[h]
      BY <1>2, <2>2, <2>7, EntryOfSender
    <3>4. [ep |-> d.from, name |-> Body(d)] # NoUser
      BY <1>2, <2>1, <2>2, BodyIsLine, ChatAssumption DEF Names
    <3>5. users'[h] # NoUser /\ users'[h].ep = came'[h][1]
      BY <2>5, <3>2, <3>3, <3>4
    <3> QED
      BY <2>3, <3>2, <3>5 DEF OnlineLogsIn
  <2>8. CASE Body(d) # Offline /\ ~ SaysOnline(d)
    <3>1. users'[h] = users[h] /\ came'[h] = came[h]
      BY <1>2, <2>2, <2>4, <2>8, EntryOfSender DEF CameNow
    <3> QED
      BY <2>3, <3>1 DEF OnlineLogsIn
  <2> QED
    BY <2>6, <2>7, <2>8
<1>3. ASSUME NEW d \in net, Receive(d), d.kind = "bare" PROVE OnlineLogsIn'
  BY <1>1, <1>3 DEF Receive
<1> QED
  BY <1>1, <1>2, <1>3 DEF Next, Enter, vars

(* Both hold in the beginning, and always.                                 *)
LEMMA MapInvariant == Spec => [](MapInv /\ OnlineLogsIn)
<1>1. Init => MapInv /\ OnlineLogsIn
  BY ChatAssumption DEF Init, MapInv, OnlineLogsIn
<1>2. MapInv /\ OnlineLogsIn /\ [Next]_vars => MapInv' /\ OnlineLogsIn'
  BY MapStep, LoginStep
<1> QED
  BY <1>1, <1>2, PTL DEF Spec

(* For any clients, lines and traffic: a host is in the room from its      *)
(* first line that says online until one that says offline, and its entry  *)
(* is that of the client who said it first.                                *)
THEOREM LoginMeansMember == Spec => []OnlineLogsIn
BY MapInvariant, PTL
-----------------------------------------------------------------------------
(* What the members hear. M is a set of hosts, L[h] the number of lines    *)
(* one has heard, t[h][k] the k-th of them, the latest first, and n[h] the *)
(* name in its entry.                                                      *)

SameLines(M, L, t) ==
  \A g, h \in M : \A k \in 1 .. L[g] :
    /\ t[g][k] # Please
    /\ k <= L[h] => t[g][k] = t[h][k]

NamesTold(M, L, t) ==
  \A g \in Hosts, h \in M : \A i \in 1 .. L[h] : \A j \in 1 .. i - 1 :
    From(t[h][i], g) /\ From(t[h][j], g) /\ t[h][i][2] # t[h][j][2] =>
      \E k \in j .. i - 1 : Announces(t[h][k], g, t[h][j][2])

(* The names that members have now were announced in this sense, too.      *)
NamesNow(M, L, t, n) ==
  \A g, h \in M : \A i \in 1 .. L[h] :
    From(t[h][i], g) /\ t[h][i][2] # n[g] => \E k \in 1 .. i - 1 : Announces(t[h][k], g, n[g])

(* A line of m that all members hear, m among them, who may just have come *)
(* and announced himself.                                                  *)
Heard(M, L, t, n, L1, t1, n1, m, line) ==
  /\ \A h \in M : /\ L[h] \in Nat /\ L1[h] = L[h] + 1 /\ n1[h] = n[h]
                  /\ t1[h][1] = line
                  /\ \A k \in 1 .. L[h] : t1[h][k + 1] = t[h][k]
  /\ m \in Hosts /\ From(line, m) /\ line # Please /\ line[2] = n1[m]
  /\ m \notin M => L1[m] = 1 /\ t1[m][1] = line /\ line[3] = n1[m]

LEMMA SameLinesGrow ==
  ASSUME NEW M, NEW L, NEW t, NEW n, NEW L1, NEW t1, NEW n1, NEW m, NEW line,
         Heard(M, L, t, n, L1, t1, n1, m, line), SameLines(M, L, t)
  PROVE  SameLines(M \cup {m}, L1, t1)
<1> SUFFICES ASSUME NEW g \in M \cup {m}, NEW h \in M \cup {m}, NEW k \in 1 .. L1[g]
             PROVE  t1[g][k] # Please /\ (k <= L1[h] => t1[g][k] = t1[h][k])
  BY DEF SameLines
<1>1. \A x \in M \cup {m} : t1[x][1] = line
  BY DEF Heard
<1>2. \A x \in M \cup {m} : x \notin M => L1[x] = 1
  BY DEF Heard
<1>3. CASE k = 1
  BY <1>1, <1>3 DEF Heard
<1>4. CASE k # 1
  <2>1. g \in M
    BY <1>2, <1>4
  <2>2. L[g] \in Nat /\ L1[g] = L[g] + 1
    BY <2>1 DEF Heard
  <2>3. k - 1 \in 1 .. L[g] /\ (k - 1) + 1 = k
    BY <1>4, <2>2
  <2>4. t1[g][k] = t[g][k - 1]
    BY <2>1, <2>3 DEF Heard
  <2>5. t[g][k - 1] # Please
    BY <2>1, <2>3 DEF SameLines
  <2>6. ASSUME k <= L1[h] PROVE t1[h][k] = t[g][k - 1]
    <3>1. h \in M
      BY <1>2, <1>4, <2>3, <2>6
    <3>2. L[h] \in Nat /\ L1[h] = L[h] + 1
      BY <3>1 DEF Heard
    <3>3. k - 1 \in 1 .. L[h]
      BY <2>3, <2>6, <3>2
    <3>4. t1[h][k] = t[h][k - 1]
      BY <2>3, <3>1, <3>3 DEF Heard
    <3>5. k - 1 <= L[h]
      BY <3>3
    <3> QED
      BY <2>1, <2>3, <3>1, <3>4, <3>5 DEF SameLines
  <2> QED
    BY <2>4, <2>5, <2>6
<1> QED
  BY <1>3, <1>4

LEMMA NamesNowGrow ==
  ASSUME NEW M, NEW L, NEW t, NEW n, NEW L1, NEW t1, NEW n1, NEW m, NEW line,
         Heard(M, L, t, n, L1, t1, n1, m, line), NamesNow(M, L, t, n)
  PROVE  NamesNow(M \cup {m}, L1, t1, n1)
<1> SUFFICES ASSUME NEW g \in M \cup {m}, NEW h \in M \cup {m}, NEW i \in 1 .. L1[h],
                    From(t1[h][i], g), t1[h][i][2] # n1[g]
             PROVE  \E k \in 1 .. i - 1 : Announces(t1[h][k], g, n1[g])
  BY DEF NamesNow
<1>1. t1[h][1] = line /\ (h \notin M => L1[h] = 1)
  BY DEF Heard
<1>2. i # 1
  <2>1. ASSUME i = 1 PROVE FALSE
    <3>1. From(line, g) /\ line[2] # n1[g] /\ From(line, m) /\ line[2] = n1[m]
      BY <1>1, <2>1 DEF Heard
    <3>2. g = m
      BY <3>1 DEF From
    <3> QED
      BY <3>1, <3>2
  <2> QED
    BY <2>1
<1>3. h \in M
  BY <1>1, <1>2
<1>4. L[h] \in Nat /\ L1[h] = L[h] + 1
  BY <1>3 DEF Heard
<1>5. i - 1 \in 1 .. L[h] /\ (i - 1) + 1 = i
  BY <1>2, <1>4
<1>6. t1[h][i] = t[h][i - 1]
  BY <1>3, <1>5 DEF Heard
<1>7. CASE g \in M
  <2>1. n1[g] = n[g]
    BY <1>7 DEF Heard
  <2>2. PICK k \in 1 .. (i - 1) - 1 : Announces(t[h][k], g, n[g])
    BY <1>3, <1>5, <1>6, <1>7, <2>1 DEF NamesNow
  <2>3. k \in 1 .. L[h] /\ k + 1 \in 1 .. i - 1
    BY <1>4, <1>5
  <2>4. t1[h][k + 1] = t[h][k]
    BY <1>3, <2>3 DEF Heard
  <2> QED
    BY <2>1, <2>2, <2>3, <2>4
<1>8. CASE g \notin M
  <2>1. g = m /\ From(line, m) /\ line[2] = n1[m] /\ line[3] = n1[m]
    BY <1>8 DEF Heard
  <2>2. Announces(t1[h][1], g, n1[g])
    BY <1>1, <2>1 DEF Announces
  <2>3. 1 \in 1 .. i - 1
    BY <1>5
  <2> QED
    BY <2>2, <2>3
<1> QED
  BY <1>7, <1>8

LEMMA NamesToldGrow ==
  ASSUME NEW M, NEW L, NEW t, NEW n, NEW L1, NEW t1, NEW n1, NEW m, NEW line,
         Heard(M, L, t, n, L1, t1, n1, m, line), NamesNow(M, L, t, n), NamesTold(M, L, t)
  PROVE  NamesTold(M \cup {m}, L1, t1)
<1> SUFFICES ASSUME NEW g \in Hosts, NEW h \in M \cup {m}, NEW i \in 1 .. L1[h],
                    NEW j \in 1 .. i - 1,
                    From(t1[h][i], g), From(t1[h][j], g), t1[h][i][2] # t1[h][j][2]
             PROVE  \E k \in j .. i - 1 : Announces(t1[h][k], g, t1[h][j][2])
  BY DEF NamesTold
<1>1. t1[h][1] = line /\ (h \notin M => L1[h] = 1)
  BY DEF Heard
<1>2. h \in M
  BY <1>1
<1>3. L[h] \in Nat /\ L1[h] = L[h] + 1
  BY <1>2 DEF Heard
<1>4. i - 1 \in 1 .. L[h] /\ (i - 1) + 1 = i
  BY <1>3
<1>5. t1[h][i] = t[h][i - 1]
  BY <1>2, <1>4 DEF Heard
<1>6. CASE j = 1
  <2>1. g = m /\ t1[h][j] = line /\ line[2] = n1[m]
    BY <1>1, <1>6 DEF Heard, From
  <2>2. CASE m \in M
    <3>1. n1[m] = n[m]
      BY <2>2 DEF Heard
    <3>2. From(t[h][i - 1], m) /\ t[h][i - 1][2] # n[m]
      BY <1>5, <2>1, <3>1
    <3>3. PICK k \in 1 .. (i - 1) - 1 : Announces(t[h][k], m, n[m])
      BY <1>2, <1>4, <2>2, <3>2 DEF NamesNow
    <3>4. k \in 1 .. L[h] /\ k + 1 \in j .. i - 1
      BY <1>3, <1>4, <1>6
    <3>5. t1[h][k + 1] = t[h][k]
      BY <1>2, <3>4 DEF Heard
    <3> QED
      BY <2>1, <3>1, <3>3, <3>4, <3>5
  <2>3. CASE m \notin M
    <3>1. From(line, m) /\ line[3] = n1[m]
      BY <2>3 DEF Heard
    <3>2. Announces(t1[h][j], g, t1[h][j][2])
      BY <2>1, <3>1 DEF Announces
    <3>3. j \in j .. i - 1
      OBVIOUS
    <3> QED
      BY <3>2, <3>3
  <2> QED
    BY <2>2, <2>3
<1>7. CASE j # 1
  <2>1. j - 1 \in 1 .. L[h] /\ (j - 1) + 1 = j /\ j - 1 \in 1 .. (i - 1) - 1
    BY <1>3, <1>4, <1>7
  <2>2. t1[h][j] = t[h][j - 1]
    BY <1>2, <2>1 DEF Heard
  <2>3. PICK k \in j - 1 .. (i - 1) - 1 : Announces(t[h][k], g, t[h][j - 1][2])
    BY <1>2, <1>4, <1>5, <2>1, <2>2 DEF NamesTold
  <2>4. k \in 1 .. L[h] /\ k + 1 \in j .. i - 1
    BY <1>3, <1>4, <2>1
  <2>5. t1[h][k + 1] = t[h][k]
    BY <1>2, <2>4 DEF Heard
  <2> QED
    BY <2>2, <2>3, <2>4, <2>5
<1> QED
  BY <1>6, <1>7

(* Who stays when others leave has heard the same lines as before.         *)
LEMMA FewerHear ==
  ASSUME NEW M, NEW L, NEW t, NEW n, NEW M1, NEW L1, NEW t1, NEW n1,
         M1 \subseteq M,
         \A h \in M1 : L1[h] = L[h] /\ t1[h] = t[h] /\ n1[h] = n[h],
         SameLines(M, L, t), NamesNow(M, L, t, n), NamesTold(M, L, t)
  PROVE  SameLines(M1, L1, t1) /\ NamesNow(M1, L1, t1, n1) /\ NamesTold(M1, L1, t1)
<1>1. SameLines(M1, L1, t1)
  BY DEF SameLines
<1>2. NamesNow(M1, L1, t1, n1)
  BY DEF NamesNow
<1>3. NamesTold(M1, L1, t1)
  BY DEF NamesTold
<1> QED
  BY <1>1, <1>2, <1>3
-----------------------------------------------------------------------------
(* What M, L, t and n are in a state.                                      *)
Length == [h \in Members |-> Len(heard[users[h].ep]) - since[h]]
Talks  == [h \in Members |-> Talk(h)]
NameOf == [h \in Members |-> users[h].name]

TalkInv == /\ \A h \in Members : Length[h] \in Nat
           /\ SameLines(Members, Length, Talks)
           /\ NamesNow(Members, Length, Talks, NameOf)
           /\ NamesTold(Members, Length, Talks)

(* The latest line is at the end of a sequence, the others are before it.  *)
LEMMA LatestFirst ==
  ASSUME NEW S, NEW s \in Seq(S), NEW x \in S, NEW b \in Nat, NEW u, u = Append(s, x)
  PROVE  /\ Len(u) = Len(s) + 1
         /\ u[Len(u)] = x
         /\ \A k \in 1 .. Len(s) - b : u[Len(u) + 1 - (k + 1)] = s[Len(s) + 1 - k]
<1>1. Len(u) = Len(s) + 1 /\ u[Len(s) + 1] = x
  OBVIOUS
<1>2. ASSUME NEW k \in 1 .. Len(s) - b
      PROVE  u[Len(u) + 1 - (k + 1)] = s[Len(s) + 1 - k]
  <2>1. Len(s) \in Nat
    OBVIOUS
  <2>2. Len(u) + 1 - (k + 1) = Len(s) + 1 - k /\ Len(s) + 1 - k \in 1 .. Len(s)
    BY <1>1, <2>1
  <2>3. \A j \in 1 .. Len(s) : u[j] = s[j]
    OBVIOUS
  <2> QED
    BY <2>2, <2>3
<1> QED
  BY <1>1, <1>2

(* The entry of the sender after a datagram that leaves him in the room.   *)
LEMMA StaysOrComes ==
  ASSUME MapInv, NEW d \in net, Receive(d), d.kind # "bare", NEW m, m = d.from[1],
         users'[m] # NoUser
  PROVE  /\ m \in Hosts /\ d.from \in Endpoints /\ Body(d) \in Names
         /\ \A h \in Members : users'[h] = users[h] /\ since'[h] = since[h]
         /\ Members' = Members \cup {m}
         /\ m \notin Members => /\ users'[m] = [ep |-> d.from, name |-> Body(d)]
                              /\ since'[m] = Len(heard[d.from])
<1>1. d.from \in Endpoints /\ m \in Hosts /\ routed < MaxRouted
  BY HostOf DEF MapInv, Receive
<1>2. Body(d) \in Names /\ users' = Removed(d)
  BY <1>1, BodyIsLine DEF Receive
<1>3. \A g \in Hosts : g # m => users'[g] = users[g]
  BY <1>1, <1>2, EntryOfSender
<1>4. Body(d) # Offline
  BY <1>1, <1>2, EntryOfSender
<1>5. users'[m] = IF SaysOnline(d) /\ users[m] = NoUser
                  THEN [ep |-> d.from, name |-> Body(d)] ELSE users[m]
  BY <1>1, <1>2, <1>4, EntryOfSender
<1>6. since' = [since EXCEPT ![m] = SinceNow(d)] /\ since \in [Hosts -> Nat]
  BY DEF Receive, MapInv
<1>7. \A g \in Hosts : g # m => since'[g] = since[g]
  BY <1>6
<1>8. since'[m] = IF users[m] = NoUser THEN Len(heard[d.from]) ELSE since[m]
  BY <1>1, <1>6 DEF SinceNow
<1>9. Members' = Members \cup {m}
  BY <1>1, <1>3 DEF Members
<1>10. m \in Members => users'[m] = users[m] /\ since'[m] = since[m]
  BY <1>5, <1>8 DEF Members
<1>11. m \notin Members => users[m] = NoUser
  BY <1>1 DEF Members
<1> QED
  BY <1>1, <1>2, <1>3, <1>5, <1>7, <1>8, <1>9, <1>10, <1>11 DEF Members

(* All members hear it, and who comes with it announces himself.           *)
LEMMA AllHear ==
  ASSUME MapInv, MapInv', TalkInv, NEW d \in net, Receive(d), d.kind # "bare",
         NEW m, m = d.from[1], users'[m] # NoUser, NEW line,
         line = <<d.from, users'[m].name, Body(d)>>
  PROVE  Heard(Members, Length, Talks, NameOf, Length', Talks', NameOf', m, line)
<1>1. /\ m \in Hosts /\ d.from \in Endpoints /\ Body(d) \in Names
      /\ \A h \in Members : users'[h] = users[h] /\ since'[h] = since[h]
      /\ Members' = Members \cup {m}
      /\ m \notin Members => /\ users'[m] = [ep |-> d.from, name |-> Body(d)]
                           /\ since'[m] = Len(heard[d.from])
  BY StaysOrComes
<1>2. /\ heard \in [Endpoints -> Seq(Sent)] /\ since \in [Hosts -> Nat]
      /\ Members \subseteq Hosts
      /\ users' \in [Hosts -> User \cup {NoUser}]
  BY DEF MapInv, Members
<1>3. \A h \in Members' : users'[h] \in User /\ users'[h].ep \in Endpoints
  BY <1>1, <1>2 DEF Members, User
<1>4. heard' = Broadcast(d, users')
  BY DEF Receive
<1>5. \A h \in Members' : heard'[users'[h].ep] = Append(heard[users'[h].ep], line)
  BY <1>1, <1>2, <1>3, <1>4 DEF Broadcast, Members
<1>6. line \in Sent
  <2>1. users'[m].name \in Names
    BY <1>1, <1>3 DEF User
  <2> QED
    BY <1>1, <2>1 DEF Sent
<1>7. line[1] = d.from /\ line[2] = users'[m].name /\ line[3] = Body(d) /\ line # Please
  BY DEF Please
<1> HIDE DEF Sent
<1>8. ASSUME NEW h \in Members
      PROVE  /\ Length[h] \in Nat /\ Length'[h] = Length[h] + 1 /\ NameOf'[h] = NameOf[h]
             /\ Talks'[h][1] = line
             /\ \A k \in 1 .. Length[h] : Talks'[h][k + 1] = Talks[h][k]
  <2>1. h \in Members' /\ users'[h] = users[h] /\ since'[h] = since[h]
    BY <1>1
  <2>2. PICK s \in Seq(Sent) : s = heard[users[h].ep]
    BY <1>2, <1>3, <2>1
  <2>3. PICK b \in Nat : b = since[h]
    BY <1>2
  <2>4. PICK u : u = heard'[users[h].ep]
    OBVIOUS
  <2>5. u = Append(s, line)
    BY <1>5, <2>1, <2>2, <2>4
  <2>6. /\ Len(u) = Len(s) + 1 /\ u[Len(u)] = line
        /\ \A k \in 1 .. Len(s) - b : u[Len(u) + 1 - (k + 1)] = s[Len(s) + 1 - k]
    BY <1>6, <2>5, LatestFirst
  <2>7. /\ Length[h] = Len(s) - b /\ Length'[h] = Len(u) - b
        /\ Talks[h] = [k \in 1 .. Len(s) - b |-> s[Len(s) + 1 - k]]
        /\ Talks'[h] = [k \in 1 .. Len(u) - b |-> u[Len(u) + 1 - k]]
    BY <2>1, <2>2, <2>3, <2>4 DEF Length, Talks, Talk
  <2>8. Length[h] \in Nat /\ Len(s) \in Nat
    BY DEF TalkInv
  <2>9. Length'[h] = Length[h] + 1
    BY <2>3, <2>6, <2>7, <2>8
  <2>10. Talks'[h][1] = line
    <3>1. 1 \in 1 .. Len(u) - b /\ Len(u) + 1 - 1 = Len(u)
      BY <2>3, <2>6, <2>7, <2>8
    <3> QED
      BY <2>6, <2>7, <3>1
  <2>11. ASSUME NEW k \in 1 .. Length[h] PROVE Talks'[h][k + 1] = Talks[h][k]
    <3>1. k \in 1 .. Len(s) - b /\ k + 1 \in 1 .. Len(u) - b
      BY <2>3, <2>6, <2>7, <2>8
    <3>2. Talks[h][k] = s[Len(s) + 1 - k] /\ Talks'[h][k + 1] = u[Len(u) + 1 - (k + 1)]
      BY <2>7, <3>1
    <3> QED
      BY <2>6, <3>1, <3>2
  <2>12. NameOf'[h] = NameOf[h]
    BY <2>1 DEF NameOf
  <2> QED
    BY <2>8, <2>9, <2>10, <2>11, <2>12
<1>9. ASSUME m \notin Members
      PROVE  Length'[m] = 1 /\ Talks'[m][1] = line /\ line[3] = NameOf'[m]
  <2>1. /\ m \in Members' /\ users'[m].ep = d.from /\ users'[m].name = Body(d)
        /\ since'[m] = Len(heard[d.from])
    BY <1>1, <1>9
  <2>2. PICK s \in Seq(Sent) : s = heard[d.from]
    BY <1>1, <1>2
  <2>3. PICK u : u = heard'[d.from]
    OBVIOUS
  <2>4. u = Append(s, line)
    BY <1>5, <2>1, <2>2, <2>3
  <2>5. Len(u) = Len(s) + 1 /\ u[Len(u)] = line /\ Len(s) \in Nat
    BY <1>6, <2>4, LatestFirst
  <2>6. Length'[m] = Len(u) - Len(s) /\ Talks'[m] = [k \in 1 .. Len(u) - Len(s) |-> u[Len(u) + 1 - k]]
    BY <2>1, <2>2, <2>3 DEF Length, Talks, Talk
  <2>7. Length'[m] = 1 /\ 1 \in 1 .. Len(u) - Len(s) /\ Len(u) + 1 - 1 = Len(u)
    BY <2>5, <2>6
  <2>8. Talks'[m][1] = line
    BY <2>5, <2>6, <2>7
  <2>9. line[3] = NameOf'[m]
    BY <1>7, <2>1 DEF NameOf
  <2> QED
    BY <2>7, <2>8, <2>9
<1>10. From(line, m) /\ line[2] = NameOf'[m]
  BY <1>1, <1>7 DEF From, NameOf
<1> QED
  BY <1>1, <1>7, <1>8, <1>9, <1>10 DEF Heard

(* Who has no entry is told so, and the members hear nothing of it.        *)
LEMMA OthersHearNothing ==
  ASSUME MapInv, TalkInv, NEW d \in net, Receive(d), d.kind # "bare",
         NEW m, m = d.from[1], users'[m] = NoUser
  PROVE  /\ Members' \subseteq Members
         /\ \A h \in Members' : /\ Length'[h] = Length[h] /\ Talks'[h] = Talks[h]
                               /\ NameOf'[h] = NameOf[h]
<1>1. d.from \in Endpoints /\ m \in Hosts /\ users' = Removed(d) /\ routed < MaxRouted
  BY HostOf DEF MapInv, Receive
<1>2. \A g \in Hosts : g # m => users'[g] = users[g]
  BY <1>1, EntryOfSender
<1>3. \A h \in Members' : h \in Hosts /\ h # m /\ users'[h] = users[h]
  BY <1>2 DEF Members
<1>4. Members' \subseteq Members
  BY <1>3 DEF Members
<1>5. \A h \in Members' : since'[h] = since[h]
  BY <1>3 DEF Receive, MapInv
<1>6. \A h \in Members : users[h].ep[1] = h
  BY DEF MapInv, Members
<1>7. heard' = [heard EXCEPT ![d.from] = Append(@, Please)]
  BY DEF Receive, Prompt
<1>8. \A h \in Members' : users[h].ep # d.from
  BY <1>3, <1>4, <1>6
<1>9. \A h \in Members' : heard'[users[h].ep] = heard[users[h].ep]
  BY <1>7, <1>8 DEF MapInv
<1>10. ASSUME NEW h \in Members'
       PROVE  /\ Length'[h] = Length[h] /\ Talks'[h] = Talks[h]
              /\ NameOf'[h] = NameOf[h]
  <2>1. h \in Members /\ users'[h] = users[h] /\ since'[h] = since[h]
    BY <1>3, <1>4, <1>5
  <2>2. heard'[users'[h].ep] = heard[users[h].ep]
    BY <1>9, <2>1
  <2>3. Length'[h] = Length[h]
    BY <2>1, <2>2 DEF Length
  <2>4. Talks'[h] = Talks[h]
    BY <2>1, <2>2 DEF Talks, Talk
  <2>5. NameOf'[h] = NameOf[h]
    BY <2>1 DEF NameOf
  <2> QED
    BY <2>3, <2>4, <2>5
<1> QED
  BY <1>4, <1>10

LEMMA TalkStep == ASSUME MapInv, MapInv', TalkInv, [Next]_vars PROVE TalkInv'
<1>1. ASSUME UNCHANGED <<users, heard, since>> PROVE TalkInv'
  <2>1. Members' = Members /\ NameOf' = NameOf
    BY <1>1 DEF Members, NameOf
  <2>2. Length' = Length
    BY <1>1, <2>1 DEF Length
  <2>3. Talks' = Talks
    BY <1>1, <2>1 DEF Talks, Talk
  <2> QED
    BY <2>1, <2>2, <2>3 DEF TalkInv
<1>2. ASSUME NEW d \in net, Receive(d), d.kind # "bare" PROVE TalkInv'
  <2>1. PICK m : m = d.from[1]
    OBVIOUS
  <2>2. CASE users'[m] # NoUser
    <3>1. PICK line : line = <<d.from, users'[m].name, Body(d)>>
      OBVIOUS
    <3>2. Heard(Members, Length, Talks, NameOf, Length', Talks', NameOf', m, line)
      BY <1>2, <2>1, <2>2, <3>1, AllHear
    <3>3. Members' = Members \cup {m}
      BY <1>2, <2>1, <2>2, StaysOrComes
    <3>4. SameLines(Members', Length', Talks')
      BY <3>2, <3>3, SameLinesGrow DEF TalkInv
    <3>5. NamesNow(Members', Length', Talks', NameOf')
      BY <3>2, <3>3, NamesNowGrow DEF TalkInv
    <3>6. NamesTold(Members', Length', Talks')
      BY <3>2, <3>3, NamesToldGrow DEF TalkInv
    <3>7. \A h \in Members' : Length'[h] \in Nat
      BY <3>2, <3>3 DEF Heard
    <3> QED
      BY <3>4, <3>5, <3>6, <3>7 DEF TalkInv
  <2>3. CASE users'[m] = NoUser
    <3>1. /\ Members' \subseteq Members
          /\ \A h \in Members' : /\ Length'[h] = Length[h] /\ Talks'[h] = Talks[h]
                                /\ NameOf'[h] = NameOf[h]
      BY <1>2, <2>1, <2>3, OthersHearNothing
    <3>2. /\ SameLines(Members', Length', Talks')
          /\ NamesNow(Members', Length', Talks', NameOf')
          /\ NamesTold(Members', Length', Talks')
      BY <3>1, FewerHear DEF TalkInv
    <3>3. \A h \in Members' : Length'[h] \in Nat
      BY <3>1 DEF TalkInv
    <3> QED
      BY <3>2, <3>3 DEF TalkInv
  <2> QED
    BY <2>2, <2>3
<1>3. ASSUME NEW d \in net, Receive(d), d.kind = "bare" PROVE TalkInv'
  BY <1>1, <1>3 DEF Receive
<1> QED
  BY <1>1, <1>2, <1>3 DEF Next, Enter, vars

(* For any clients, lines and traffic: all members hear one conversation,  *)
(* and no name in it changes unannounced.                                  *)
THEOREM RoomIsOneTalk == Spec => []OneTalk
<1>1. Init => TalkInv
  <2>1. ASSUME Init PROVE Members = {}
    BY <2>1 DEF Init, Members
  <2> QED
    BY <2>1 DEF TalkInv, SameLines, NamesNow, NamesTold
<1>2. MapInv /\ MapInv' /\ TalkInv /\ [Next]_vars => TalkInv'
  BY TalkStep
<1>3. TalkInv => OneTalk
  <2>1. \A h \in Members : DOMAIN Talk(h) = 1 .. Length[h] /\ Talks[h] = Talk(h)
    BY DEF Talk, Talks, Length
  <2>2. ASSUME TalkInv PROVE SameTalk
    BY <2>1, <2>2 DEF TalkInv, SameTalk, SameLines
  <2>3. ASSUME TalkInv PROVE NamesAnnounced
    BY <2>1, <2>3 DEF TalkInv, NamesAnnounced, NamesTold
  <2> QED
    BY <2>2, <2>3 DEF OneTalk
<1> QED
  BY <1>1, <1>2, <1>3, MapInvariant, PTL DEF Spec
=============================================================================
