---------------------------- MODULE CalcService ----------------------------
(***************************************************************************)
(* What the calculator promises to one client, with no bytes and no        *)
(* packages: requests are answered in order, each with the value that the  *)
(* language defines, as a relation. A request whose value traps gets no    *)
(* answer, and the service hangs up only on a client that is gone or that  *)
(* it owes an answer.                                                      *)
(***************************************************************************)
EXTENDS Integers, Sequences

CONSTANTS Half,       (* half the number of the values of an int           *)
          Requests,   (* the requests <<x, op, y>>                         *)
          MaxAsks     (* bound: requests in the life of the client         *)

VARIABLES asked,      (* the requests of the client                        *)
          answered,   (* the answers <<result, exit code>> that were sent  *)
          got,        (* the answers the client has taken                  *)
          gone,       (* the client has left                               *)
          closed      (* the service has hung up                           *)

cvars == <<asked, answered, got, gone, closed>>

Ints == -Half .. Half - 1
Magnitude(n) == IF n < 0 THEN (-n) ELSE n

(* v is what n becomes in an int.                                          *)
Wraps(n, v) == v \in Ints /\ (v - n) % (2 * Half) = 0

(* Division truncates: x = q * y + r, and r has the sign of x.             *)
Divides(x, y, q, r) == /\ x = q * y + r
                       /\ Magnitude(r) < Magnitude(y)
                       /\ r = 0 \/ (r < 0 <=> x < 0)

IsAnswer(r, a) ==
  LET x == r[1]  op == r[2]  y == r[3] IN
  \/ op = "+" /\ Wraps(x + y, a[1]) /\ a[2] = "OK"
  \/ op = "-" /\ Wraps(x - y, a[1]) /\ a[2] = "OK"
  \/ op = "*" /\ Wraps(x * y, a[1]) /\ a[2] = "OK"
  \/ op = "/" /\ y # 0 /\ a[1] \in Ints /\ Divides(x, y, a[1], x - a[1] * y) /\ a[2] = "OK"
  \/ op = "%" /\ y # 0 /\ (\E q \in Ints : Divides(x, y, q, a[1])) /\ a[2] = "OK"
  \/ op = "/" /\ y = 0 /\ a = <<-1, "DIV_ZERO">>
  \/ op = "%" /\ y = 0 /\ a = <<-1, "MOD_ZERO">>
  \/ op \notin {"+", "-", "*", "/", "%"} /\ a = <<-1, "OP_ERR">>

Init == /\ asked = <<>> /\ answered = <<>> /\ got = <<>>
        /\ gone = FALSE /\ closed = FALSE

Ask == /\ ~ gone
       /\ Len(asked) < MaxAsks
       /\ \E r \in Requests : asked' = Append(asked, r)
       /\ UNCHANGED <<answered, got, gone, closed>>

Answer == /\ ~ closed
          /\ Len(answered) < Len(asked)
          /\ Len(answered') = Len(answered) + 1
          /\ answered' = Append(answered, answered'[Len(answered) + 1])
          /\ IsAnswer(asked[Len(answered) + 1], answered'[Len(answered) + 1])
          /\ UNCHANGED <<asked, got, gone, closed>>

Take == /\ ~ gone
        /\ Len(got) < Len(answered)
        /\ got' = Append(got, answered[Len(got) + 1])
        /\ UNCHANGED <<asked, answered, gone, closed>>

Leave == /\ ~ gone
         /\ gone' = TRUE
         /\ UNCHANGED <<asked, answered, got, closed>>

Hangup == /\ ~ closed
          /\ gone \/ Len(answered) < Len(asked)
          /\ closed' = TRUE
          /\ UNCHANGED <<asked, answered, got, gone>>

Next == Ask \/ Answer \/ Take \/ Leave \/ Hangup

Spec == Init /\ [][Next]_cvars
=============================================================================
