--------------------------- MODULE CalcLinkProofs ---------------------------
(***************************************************************************)
(* What recvPackage guarantees for any requests, any number of them and    *)
(* any way in which the streams are cut: both ends agree where packages    *)
(* begin, callback computes the value that each operation defines, and the *)
(* link keeps the promises of CalcService.                                 *)
(***************************************************************************)
EXTENDS CalcLink, TLAPS

Answers == {Callback(r) : r \in Requests}

(* The types the argument needs.                                           *)
Typed == /\ ahead \in BOOLEAN
         /\ asked \in Seq(Requests)
         /\ replied \in Seq(Answers)
         /\ got \in Seq(Answers)
         /\ taken \in Nat /\ taken <= 4 * Len(asked)
         /\ erased \in Nat
         /\ spc \in {"recv", "answer", "closed"}
         /\ ctaken \in Nat /\ ctaken <= 4 * Len(replied)
         /\ cerased \in Nat
         /\ cpc \in {"prompt", "recv", "left"}

(* How far each end is. A client in step has one request under way when it *)
(* reads, so the buffer it drops holds one package and no more.            *)
StepInv == /\ Len(replied) <= Len(asked)
           /\ Len(got) <= Len(replied)
           /\ cpc = "recv" => ~ ahead /\ Len(asked) = Len(got) + 1
           /\ cpc = "prompt" => ctaken = cerased /\ (ahead \/ Len(asked) = Len(got))

LinkInv == Typed /\ StepInv /\ FramesAligned

(* The request that was cut is the oldest that has no answer.              *)
LEMMA OldestRequest ==
  ASSUME LinkInv, spc = "answer"
  PROVE  /\ Len(replied) + 1 \in 1 .. Len(asked)
         /\ Request = asked[Len(replied) + 1]
         /\ Request \in Requests
<1>1. Len(replied) \in Nat /\ Len(asked) \in Nat
  BY DEF LinkInv, Typed
<1>2. erased = 4 * Len(replied) + 4 /\ erased <= 4 * Len(asked)
  BY DEF LinkInv, Typed, FramesAligned, Units, Size
<1>3. Len(replied) + 1 \in 1 .. Len(asked)
  BY <1>1, <1>2
<1>4. (erased - 4) \div 4 = Len(replied)
  BY <1>1, <1>2
<1>5. Request = asked[Len(replied) + 1]
  BY <1>4 DEF Request, Text, Size
<1> QED
  BY <1>3, <1>5 DEF LinkInv, Typed

(* What a package of the answers holds is the next answer to take.         *)
LEMMA NextAnswer ==
  ASSUME LinkInv, cpc # "left", 4 * Len(got) + 4 <= 4 * Len(replied)
  PROVE  /\ Len(got) + 1 \in 1 .. Len(replied)
         /\ Text(replied, cerased) = replied[Len(got) + 1]
         /\ replied[Len(got) + 1] \in Answers
<1>1. Len(replied) \in Nat /\ Len(got) \in Nat
  BY DEF LinkInv, Typed
<1>2. cerased = 4 * Len(got)
  BY DEF LinkInv, FramesAligned, Units, Size
<1>3. cerased \div 4 = Len(got)
  BY <1>1, <1>2
<1> QED
  BY <1>1, <1>3 DEF Text, Size, LinkInv, Typed

(* A buffer of no more than a package that holds one holds nothing else.   *)
LEMMA OnePackage ==
  ASSUME NEW f \in Nat, NEW n \in Nat, n <= f + 4, Outcome(f, n) = "package"
  PROVE  n = f + 4
BY DEF Outcome, Size

(* Whatever a read brings, the next header is where the last package ended.*)
LEMMA LinkNext == LinkInv /\ [Next]_vars => LinkInv'
<1> SUFFICES ASSUME LinkInv, [Next]_vars PROVE LinkInv'
  OBVIOUS
<1>a. /\ Len(asked) \in Nat /\ Len(replied) \in Nat /\ Len(got) \in Nat
      /\ \A r \in Requests : /\ Append(asked, r) \in Seq(Requests)
                             /\ Len(Append(asked, r)) = Len(asked) + 1
      /\ \A a \in Answers : /\ Append(replied, a) \in Seq(Answers)
                            /\ Len(Append(replied, a)) = Len(replied) + 1
                            /\ Append(got, a) \in Seq(Answers)
                            /\ Len(Append(got, a)) = Len(got) + 1
  BY DEF LinkInv, Typed
<1> USE DEF LinkInv, Typed, StepInv, FramesAligned, Units, Size, serverVars, clientVars
<1>1. ASSUME NEW n \in taken + 1 .. Units(asked), Recv(n) PROVE LinkInv'
  BY <1>1, <1>a DEF Recv, Outcome, HasHeader, After
<1>2. CASE RecvEnds
  BY <1>2, <1>a DEF RecvEnds
<1>3. CASE Answer
  <2>1. Callback(Request) \in Answers /\ Len(replied) + 1 <= Len(asked)
    BY <1>3, <1>a, OldestRequest DEF Answer, Answers
  <2>2. CASE replied' = Append(replied, Callback(Request)) /\ spc' = "recv"
    <3>1. replied' \in Seq(Answers) /\ Len(replied') = Len(replied) + 1
      BY <1>a, <2>1, <2>2
    <3> QED
      BY <1>3, <1>a, <2>1, <2>2, <3>1 DEF Answer
  <2>3. CASE UNCHANGED replied /\ spc' = "closed"
    BY <1>3, <1>a, <2>3 DEF Answer
  <2> QED
    BY <1>3, <2>2, <2>3 DEF Answer
<1>4. ASSUME NEW n \in ctaken + 1 .. Units(replied), CRecv(n) PROVE LinkInv'
  <2>1. cpc = "recv" /\ cerased = 4 * Len(got) /\ n <= 4 * Len(got) + 4
    BY <1>4, <1>a DEF CRecv
  <2>2. CASE Outcome(cerased, n) = "package"
    <3>1. n = cerased + 4
      <4>1. cerased \in Nat /\ n \in Nat /\ n <= cerased + 4
        BY <1>4, <1>a, <2>1
      <4> QED
        BY <2>2, <4>1, OnePackage
    <3>2. 4 * Len(got) + 4 <= 4 * Len(replied)
      BY <1>4, <1>a, <2>1, <3>1
    <3>3. Text(replied, cerased) \in Answers
      BY <2>1, <3>2, NextAnswer
    <3>4. got' \in Seq(Answers) /\ Len(got') = Len(got) + 1 /\ cpc' = "prompt"
      BY <1>4, <1>a, <2>2, <3>3 DEF CRecv
    <3>5. ctaken' = n /\ cerased' = n
      BY <1>4, <2>2 DEF CRecv
    <3> QED
      BY <1>4, <1>a, <2>1, <3>1, <3>2, <3>4, <3>5 DEF CRecv
  <2>3. CASE Outcome(cerased, n) # "package"
    <3>1. /\ UNCHANGED <<ahead, asked, taken, erased, spc, replied, got, cerased>>
          /\ ctaken' = n /\ cpc' \in {"recv", "left"} /\ (cpc' = "recv" => cpc = "recv")
      BY <1>4, <2>3 DEF CRecv
    <3>2. n \in Nat /\ n <= 4 * Len(replied)
      BY <1>4, <1>a
    <3> QED
      BY <1>a, <2>1, <3>1, <3>2
  <2> QED
    BY <2>2, <2>3
<1>5. CASE CRecvEnds \/ Leave
  BY <1>5, <1>a DEF CRecvEnds, Leave
<1>6. CASE Hear
  <2>1. 4 * Len(got) + 4 <= 4 * Len(replied)
    BY <1>6, <1>a DEF Hear
  <2>2. replied[Len(got) + 1] \in Answers
    BY <1>6, <2>1, NextAnswer DEF Hear
  <2> QED
    BY <1>6, <1>a, <2>1, <2>2 DEF Hear
<1>7. ASSUME NEW r \in Requests, Ask(r) PROVE LinkInv'
  BY <1>7, <1>a DEF Ask
<1>8. CASE UNCHANGED vars
  BY <1>8 DEF vars
<1> QED
  BY <1>1, <1>2, <1>3, <1>4, <1>5, <1>6, <1>7, <1>8 DEF Next, ServerStep, ClientReads

(* The inductive invariant of the link.                                    *)
LEMMA LinkInvariant == Spec => []LinkInv
<1>1. Init => LinkInv
  BY DEF Init, LinkInv, Typed, StepInv, FramesAligned, Units, Size
<1>2. LinkInv /\ [Next]_vars => LinkInv'
  BY LinkNext
<1> QED
  BY <1>1, <1>2, PTL DEF Spec

(* However the streams are cut, both ends agree which package each byte is *)
(* of.                                                                     *)
THEOREM PackagesAligned == Spec => []FramesAligned
<1>1. LinkInv => FramesAligned
  BY DEF LinkInv
<1> QED
  BY <1>1, LinkInvariant, PTL
-----------------------------------------------------------------------------
(* Arithmetic of ints: what is left by a division, by zero multiples of    *)
(* the divisor or by any number of them.                                   *)
LEMMA Remainder ==
  ASSUME NEW n \in Int, NEW d \in Nat \ {0}
  PROVE  /\ n \div d \in Int
         /\ n % d \in 0 .. d - 1
         /\ n = d * (n \div d) + (n % d)
<1>1. n \div d \in Int
  BY SMT
<1>2. n % d \in 0 .. d - 1
  BY SMT
<1>3. n = d * (n \div d) + (n % d)
  BY SMT
<1> QED
  BY <1>1, <1>2, <1>3

LEMMA LeastMultiple ==
  ASSUME NEW d \in Nat \ {0}, NEW k \in Int, d * k \in 0 .. d - 1
  PROVE  k = 0
<1>1. CASE k >= 1
  <2>1. d * k >= d
    BY <1>1
  <2> QED
    BY <2>1
<1>2. CASE k <= -1
  <2>1. d * k <= -d
    BY <1>2
  <2> QED
    BY <2>1
<1> QED
  BY <1>1, <1>2

LEMMA MultipleOf ==
  ASSUME NEW d \in Nat \ {0}, NEW k \in Int
  PROVE  (d * k) % d = 0
<1> DEFINE q == (d * k) \div d
           r == (d * k) % d
<1>1. d * k \in Int
  OBVIOUS
<1>2. q \in Int /\ r \in 0 .. d - 1 /\ d * k = d * q + r
  BY <1>1, Remainder
<1> HIDE DEF q, r
<1>3. d * (k - q) = r
  BY <1>2
<1>4. k - q \in Int /\ d * (k - q) \in 0 .. d - 1
  BY <1>2, <1>3
<1>5. k - q = 0
  BY <1>4, LeastMultiple
<1>6. r = 0
  BY <1>3, <1>5
<1> QED
  BY <1>6 DEF r

(* What an overflow leaves is an int, and differs by a multiple of the     *)
(* number of ints.                                                         *)
LEMMA WrapWraps ==
  ASSUME NEW n \in Int
  PROVE  Calc!Wraps(n, Wrap(n))
<1> DEFINE d == 2 * Half
           q == (n + Half) \div d
           r == (n + Half) % d
<1>1. Half \in Nat \ {0} /\ d \in Nat \ {0} /\ n + Half \in Int
  BY CalcAssumption
<1>2. q \in Int /\ r \in 0 .. d - 1 /\ n + Half = d * q + r
  BY <1>1, Remainder
<1>3. Wrap(n) = r - Half
  BY DEF Wrap
<1> HIDE DEF q, r
<1>4. Wrap(n) \in Calc!Ints
  BY <1>1, <1>2, <1>3 DEF Calc!Ints
<1> HIDE DEF d
<1>5. Wrap(n) - n = d * (-q)
  BY <1>1, <1>2, <1>3
<1>6. (d * (-q)) % d = 0
  BY <1>1, <1>2, MultipleOf
<1> QED
  BY <1>4, <1>5, <1>6 DEF Calc!Wraps, d

(* A quotient that is rounded toward zero is no larger than the dividend,  *)
(* and smaller unless the divisor is one.                                  *)
LEMMA QuotientBound ==
  ASSUME NEW a \in Nat, NEW b \in Nat \ {0}
  PROVE  /\ a \div b \in 0 .. a
         /\ a \div b = a => a = 0 \/ b = 1
<1> DEFINE q == a \div b
           r == a % b
<1>1. q \in Int /\ r \in 0 .. b - 1 /\ a = b * q + r
  BY Remainder
<1> HIDE DEF q, r
<1>2. q >= 0
  <2>1. CASE q <= -1
    <3>1. b * q <= -b
      BY <1>1, <2>1
    <3> QED
      BY <1>1, <3>1
  <2> QED
    BY <1>1, <2>1
<1>3. b * q >= q
  BY <1>1, <1>2
<1>4. q <= a
  BY <1>1, <1>3
<1>5. ASSUME q = a, b >= 2 PROVE a = 0
  <2>1. b * q >= 2 * q
    BY <1>1, <1>2, <1>5
  <2> QED
    BY <1>1, <1>5, <2>1
<1> QED
  BY <1>1, <1>2, <1>4, <1>5 DEF q

(* Quotient truncates, and is an int unless the division traps.            *)
LEMMA QuotientDivides ==
  ASSUME NEW x \in Ints, NEW y \in Ints, y # 0, ~ (x = -Half /\ y = -1)
  PROVE  /\ Quotient(x, y) \in Ints
         /\ Calc!Divides(x, y, Quotient(x, y), x - y * Quotient(x, y))
<1> DEFINE a == Calc!Magnitude(x)
           b == Calc!Magnitude(y)
           q == a \div b
           r == a % b
<1>1. Half \in Nat \ {0} /\ x \in Int /\ y \in Int
      /\ -Half <= x /\ x < Half /\ -Half <= y /\ y < Half
  BY CalcAssumption DEF Ints
<1>2. a \in Nat /\ b \in Nat \ {0}
  BY <1>1 DEF Calc!Magnitude
<1> HIDE DEF a, b
<1>3. q \in Int /\ r \in 0 .. b - 1 /\ a = b * q + r
  BY <1>2, Remainder
<1>4. q \in 0 .. a /\ (q = a => a = 0 \/ b = 1)
  BY <1>2, QuotientBound
<1>5. Quotient(x, y) = IF x < 0 <=> y < 0 THEN q ELSE (-q)
  BY DEF Quotient, Calc!Magnitude, a, b
<1> HIDE DEF q, r
<1>6. Quotient(x, y) \in Ints
  <2>1. a <= Half /\ (a = Half => x = -Half)
    BY <1>1 DEF Calc!Magnitude, a
  <2>2. CASE q < Half
    BY <1>1, <1>4, <1>5, <2>2 DEF Ints
  <2>3. CASE q = Half
    <3>1. x = -Half /\ b = 1
      BY <1>1, <1>2, <1>4, <2>1, <2>3
    <3>2. y = 1
      BY <1>1, <3>1 DEF Calc!Magnitude, b
    <3> QED
      BY <1>1, <1>5, <2>3, <3>1, <3>2 DEF Ints
  <2> QED
    BY <1>1, <1>2, <1>4, <2>1, <2>2, <2>3
<1>7. x - y * Quotient(x, y) = IF x < 0 THEN (-r) ELSE r
  <2>1. CASE x < 0 /\ y < 0
    <3>1. x = -a /\ y = -b /\ Quotient(x, y) = q
      BY <1>1, <1>5, <2>1 DEF Calc!Magnitude, a, b
    <3> QED
      BY <1>2, <1>3, <2>1, <3>1
  <2>2. CASE x < 0 /\ ~ (y < 0)
    <3>1. x = -a /\ y = b /\ Quotient(x, y) = -q
      BY <1>1, <1>5, <2>2 DEF Calc!Magnitude, a, b
    <3> QED
      BY <1>2, <1>3, <2>2, <3>1
  <2>3. CASE ~ (x < 0) /\ y < 0
    <3>1. x = a /\ y = -b /\ Quotient(x, y) = -q
      BY <1>1, <1>5, <2>3 DEF Calc!Magnitude, a, b
    <3> QED
      BY <1>2, <1>3, <2>3, <3>1
  <2>4. CASE ~ (x < 0) /\ ~ (y < 0)
    <3>1. x = a /\ y = b /\ Quotient(x, y) = q
      BY <1>1, <1>5, <2>4 DEF Calc!Magnitude, a, b
    <3> QED
      BY <1>2, <1>3, <2>4, <3>1
  <2> QED
    BY <2>1, <2>2, <2>3, <2>4
<1>8. Quotient(x, y) \in Int
  BY <1>3, <1>5
<1>9. y * Quotient(x, y) \in Int /\ Quotient(x, y) * y = y * Quotient(x, y)
  BY <1>1, <1>8
<1>10. Calc!Magnitude(x - y * Quotient(x, y)) < b
  BY <1>2, <1>3, <1>7 DEF Calc!Magnitude
<1>11. LET v == x - y * Quotient(x, y) IN v = 0 \/ (v < 0 <=> x < 0)
  BY <1>1, <1>2, <1>3, <1>7
<1>12. x = Quotient(x, y) * y + (x - y * Quotient(x, y))
  BY <1>1, <1>9
<1> QED
  BY <1>6, <1>10, <1>11, <1>12 DEF Calc!Divides, b

(* callback gives the value that the operation defines, where the machine  *)
(* gives any.                                                              *)
LEMMA RightValue ==
  ASSUME NEW r \in Requests, ~ Traps(r)
  PROVE  Calc!IsAnswer(r, Callback(r))
<1> DEFINE x == r[1]
           op == r[2]
           y == r[3]
<1>1. x \in Ints /\ y \in Ints /\ x \in Int /\ y \in Int
  BY CalcAssumption DEF Ints
<1>2. x + y \in Int /\ x - y \in Int /\ x * y \in Int
  BY <1>1
<1>3. CASE op = "+"
  <2>1. Callback(r) = <<Wrap(x + y), "OK">>
    BY <1>3 DEF Callback
  <2> QED
    BY <1>2, <1>3, <2>1, WrapWraps DEF Calc!IsAnswer
<1>4. CASE op = "-"
  <2>1. Callback(r) = <<Wrap(x - y), "OK">>
    BY <1>4 DEF Callback
  <2> QED
    BY <1>2, <1>4, <2>1, WrapWraps DEF Calc!IsAnswer
<1>5. CASE op = "*"
  <2>1. Callback(r) = <<Wrap(x * y), "OK">>
    BY <1>5 DEF Callback
  <2> QED
    BY <1>2, <1>5, <2>1, WrapWraps DEF Calc!IsAnswer
<1>6. CASE op = "/" /\ y = 0
  <2>1. Callback(r) = <<-1, "DIV_ZERO">>
    BY <1>6 DEF Callback
  <2> QED
    BY <1>6, <2>1 DEF Calc!IsAnswer
<1>7. CASE op = "%" /\ y = 0
  <2>1. Callback(r) = <<-1, "MOD_ZERO">>
    BY <1>7 DEF Callback
  <2> QED
    BY <1>7, <2>1 DEF Calc!IsAnswer
<1>8. ASSUME op \in {"/", "%"}, y # 0
      PROVE  /\ Quotient(x, y) \in Calc!Ints
             /\ Calc!Divides(x, y, Quotient(x, y), x - y * Quotient(x, y))
  <2>1. ~ (x = -Half /\ y = -1)
    BY <1>8 DEF Traps
  <2>2. Calc!Ints = Ints
    BY DEF Calc!Ints, Ints
  <2> QED
    BY <1>1, <1>8, <2>1, <2>2, QuotientDivides
<1>9. CASE op = "/" /\ y # 0
  <2>1. Callback(r) = <<Quotient(x, y), "OK">>
    BY <1>9 DEF Callback
  <2>2. Quotient(x, y) * y = y * Quotient(x, y)
    BY <1>1, <1>8, <1>9 DEF Calc!Ints
  <2> QED
    BY <1>8, <1>9, <2>1, <2>2 DEF Calc!IsAnswer
<1>10. CASE op = "%" /\ y # 0
  <2>1. Callback(r) = <<x - y * Quotient(x, y), "OK">>
    BY <1>10 DEF Callback
  <2> QED
    BY <1>8, <1>10, <2>1 DEF Calc!IsAnswer
<1>11. CASE op \notin {"+", "-", "*", "/", "%"}
  <2>1. Callback(r) = <<-1, "OP_ERR">>
    BY <1>11 DEF Callback
  <2> QED
    BY <1>11, <2>1 DEF Calc!IsAnswer
<1> QED
  BY <1>3, <1>4, <1>5, <1>6, <1>7, <1>9, <1>10, <1>11

(* Every step of the link is a step of the service, or none.               *)
LEMMA LinkStep ==
  LinkInv /\ [Next]_vars => [Calc!Next]_(Calc!cvars)
<1> SUFFICES ASSUME LinkInv, [Next]_vars
             PROVE  Calc!Next \/ UNCHANGED Calc!cvars
  OBVIOUS
<1> USE DEF Calc!cvars, serverVars, clientVars
<1>a. /\ Len(asked) \in Nat /\ Len(replied) \in Nat /\ Len(got) \in Nat
      /\ asked \in Seq(Requests) /\ replied \in Seq(Answers) /\ got \in Seq(Answers)
      /\ spc = "recv" => erased = 4 * Len(replied)
      /\ erased \in Nat /\ taken \in Nat /\ erased <= taken
      /\ cpc # "left" => cerased = 4 * Len(got)
  BY DEF LinkInv, Typed, FramesAligned, Units, Size
<1>1. ASSUME NEW n \in taken + 1 .. Units(asked), Recv(n)
      PROVE  Calc!Hangup \/ UNCHANGED Calc!cvars
  <2>1. Len(replied) < Len(asked)
    BY <1>1, <1>a DEF Recv, Units, Size
  <2> QED
    BY <1>1, <2>1 DEF Recv, Calc!Hangup
<1>2. CASE RecvEnds
  <2>1. Calc!Hangup
    BY <1>2 DEF RecvEnds, Calc!Hangup
  <2> QED
    BY <2>1 DEF Calc!Next
<1>3. CASE Answer
  <2>1. /\ Len(replied) < Len(asked)
        /\ Request = asked[Len(replied) + 1]
        /\ Request \in Requests
    BY <1>3, <1>a, OldestRequest DEF Answer
  <2>2. CASE ~ Traps(Request) /\ replied' = Append(replied, Callback(Request)) /\ spc' = "recv"
    <3>1. /\ Len(replied') = Len(replied) + 1
          /\ replied'[Len(replied) + 1] = Callback(Request)
      BY <1>a, <2>2
    <3>2. Calc!IsAnswer(asked[Len(replied) + 1], replied'[Len(replied) + 1])
      BY <2>1, <2>2, <3>1, RightValue
    <3>3. Calc!Answer
      BY <1>3, <2>1, <2>2, <3>1, <3>2 DEF Answer, Calc!Answer
    <3> QED
      BY <3>3 DEF Calc!Next
  <2>3. CASE UNCHANGED replied /\ spc' = "closed"
    <3>1. Calc!Hangup
      BY <1>3, <2>1, <2>3 DEF Answer, Calc!Hangup
    <3> QED
      BY <3>1 DEF Calc!Next
  <2> QED
    BY <1>3, <2>2, <2>3 DEF Answer
<1>4. ASSUME NEW n \in ctaken + 1 .. Units(replied), CRecv(n)
      PROVE  Calc!Next \/ UNCHANGED Calc!cvars
  <2>1. CASE Outcome(cerased, n) = "package"
    <3>1. 4 * Len(got) + 4 <= 4 * Len(replied)
      BY <1>4, <1>a, <2>1 DEF CRecv, Outcome, Units, Size, LinkInv, Typed
    <3>2. Text(replied, cerased) = replied[Len(got) + 1]
      BY <1>4, <3>1, NextAnswer DEF CRecv
    <3>3. Len(got) < Len(replied)
      BY <1>a, <3>1
    <3>4. got' = Append(got, Text(replied, cerased)) /\ cpc = "recv" /\ cpc' = "prompt"
      BY <1>4, <2>1 DEF CRecv
    <3>5. Calc!Take
      BY <1>4, <3>2, <3>3, <3>4 DEF CRecv, Calc!Take
    <3> QED
      BY <3>5 DEF Calc!Next
  <2>2. CASE Outcome(cerased, n) = "more"
    BY <1>4, <2>2 DEF CRecv
  <2>3. CASE Outcome(cerased, n) = "over"
    <3>1. Calc!Leave
      BY <1>4, <2>3 DEF CRecv, Calc!Leave
    <3> QED
      BY <3>1 DEF Calc!Next
  <2> QED
    BY <1>4, <2>1, <2>2, <2>3 DEF CRecv
<1>5. CASE CRecvEnds \/ Leave
  <2>1. Calc!Leave
    BY <1>5 DEF CRecvEnds, Leave, Calc!Leave
  <2> QED
    BY <2>1 DEF Calc!Next
<1>6. CASE Hear
  <2>1. Calc!Take
    BY <1>6 DEF Hear, Calc!Take
  <2> QED
    BY <2>1 DEF Calc!Next
<1>7. ASSUME NEW r \in Requests, Ask(r) PROVE Calc!Next
  <2>1. Calc!Ask
    BY <1>7 DEF Ask, Calc!Ask
  <2> QED
    BY <2>1 DEF Calc!Next
<1>8. CASE UNCHANGED vars
  BY <1>8 DEF vars
<1> QED
  BY <1>1, <1>2, <1>3, <1>4, <1>5, <1>6, <1>7, <1>8
     DEF Next, ServerStep, ClientReads, Calc!Next

(* For ints of any size and any requests: answers in order, one for each   *)
(* request that was cut out, each with the value that is defined for it.   *)
THEOREM LinkImplementsCalc == Spec => ImplementsCalc
<1>1. Init => Calc!Init
  BY DEF Init, Calc!Init
<1>2. LinkInv /\ [Next]_vars => [Calc!Next]_(Calc!cvars)
  BY LinkStep
<1> QED
  BY <1>1, <1>2, LinkInvariant, PTL DEF Spec, ImplementsCalc, Calc!Spec
-----------------------------------------------------------------------------
(* What is left in a buffer by the end that waits for more: less than a    *)
(* package, or, at the server, one package of a client that is ahead.      *)

WaitInv ==
  /\ Len(asked) <= Len(got) + (IF ahead THEN 2 ELSE 1)
  /\ spc = "recv" => taken <= erased + (IF ahead THEN 4 ELSE 3)
  /\ cpc = "recv" => ctaken <= cerased + 3

LEMMA WaitNext == LinkInv /\ LinkInv' /\ WaitInv /\ [Next]_vars => WaitInv'
<1> SUFFICES ASSUME LinkInv, LinkInv', WaitInv, [Next]_vars PROVE WaitInv'
  OBVIOUS
<1>a. /\ Len(asked) \in Nat /\ Len(replied) \in Nat /\ Len(got) \in Nat
      /\ Len(replied) <= Len(asked) /\ Len(got) <= Len(replied)
      /\ taken \in Nat /\ erased \in Nat /\ ctaken \in Nat /\ cerased \in Nat
      /\ taken <= 4 * Len(asked) /\ ahead \in BOOLEAN
      /\ \A x : Len(Append(asked, x)) = Len(asked) + 1 /\ Len(Append(got, x)) = Len(got) + 1
  BY DEF LinkInv, Typed, StepInv
<1>1. ASSUME NEW n \in taken + 1 .. Units(asked), Recv(n) PROVE WaitInv'
  <2>1. CASE Outcome(erased, n) = "more" /\ UNCHANGED <<erased, spc>>
    <3>1. n - erased < 4 /\ taken' = n
      BY <1>1, <2>1 DEF Recv, Outcome, Size
    <3>2. taken' \in Nat /\ taken' <= erased + 3
      BY <1>1, <1>a, <3>1
    <3> QED
      BY <1>1, <1>a, <2>1, <3>2 DEF Recv, WaitInv, clientVars
  <2>2. CASE spc' # "recv"
    BY <1>1, <2>2 DEF Recv, WaitInv, clientVars
  <2> QED
    BY <1>1, <2>1, <2>2 DEF Recv
<1>2. CASE RecvEnds
  BY <1>2 DEF RecvEnds, WaitInv, clientVars
<1>3. CASE Answer
  <2>1. erased = 4 * Len(replied) + 4
    BY <1>3 DEF Answer, LinkInv, FramesAligned, Units, Size
  <2>2. taken <= erased + (IF ahead THEN 4 ELSE 0)
    BY <1>a, <2>1 DEF WaitInv
  <2> QED
    BY <1>3, <1>a, <2>2 DEF Answer, WaitInv, clientVars
<1>4. ASSUME NEW n \in ctaken + 1 .. Units(replied), CRecv(n) PROVE WaitInv'
  <2>1. Len(got') >= Len(got) /\ Len(got') \in Nat
    BY <1>4, <1>a DEF CRecv
  <2>2. cpc' = "recv" => ctaken' <= cerased' + 3
    <3>1. CASE Outcome(cerased, n) = "more" /\ UNCHANGED <<got, cerased, cpc>>
      <4>1. n - cerased < 4 /\ ctaken' = n
        BY <1>4, <3>1 DEF CRecv, Outcome, Size
      <4> QED
        BY <1>4, <1>a, <3>1, <4>1
    <3> QED
      BY <1>4, <3>1 DEF CRecv
  <2>3. Len(asked) <= Len(got') + (IF ahead THEN 2 ELSE 1)
    BY <1>a, <2>1 DEF WaitInv
  <2> QED
    BY <1>4, <2>2, <2>3 DEF CRecv, WaitInv, serverVars
<1>5. CASE CRecvEnds \/ Leave
  BY <1>5 DEF CRecvEnds, Leave, WaitInv, serverVars
<1>6. CASE Hear
  BY <1>6, <1>a DEF Hear, WaitInv, serverVars
<1>7. ASSUME NEW r \in Requests, Ask(r) PROVE WaitInv'
  <2>1. Len(asked') = Len(asked) + 1 /\ got' = got /\ cpc = "prompt" /\ ahead' = ahead
    BY <1>7, <1>a DEF Ask
  <2>2. ahead => Len(asked) < Len(got) + 2
    BY <1>7 DEF Ask
  <2>3. ~ ahead => Len(asked) = Len(got)
    BY <2>1 DEF LinkInv, StepInv
  <2>4. ctaken = cerased
    BY <2>1 DEF LinkInv, StepInv
  <2>5. Len(asked') <= Len(got) + (IF ahead THEN 2 ELSE 1)
    BY <1>a, <2>1, <2>2, <2>3
  <2> QED
    BY <1>7, <1>a, <2>1, <2>4, <2>5 DEF Ask, WaitInv, serverVars
<1>8. CASE UNCHANGED vars
  BY <1>8 DEF vars, serverVars, clientVars, WaitInv
<1> QED
  BY <1>1, <1>2, <1>3, <1>4, <1>5, <1>6, <1>7, <1>8 DEF Next, ServerStep, ClientReads

(* However the streams are cut, the server and a client in step never wait *)
(* for each other, and nothing but the last request of a client that is    *)
(* ahead is ever left lying in a buffer.                                   *)
THEOREM NeverBothWait == Spec => []NothingOverlooked
<1>1. Init => WaitInv
  BY DEF Init, WaitInv
<1>2. LinkInv /\ WaitInv => NothingOverlooked
  <2> SUFFICES ASSUME LinkInv, WaitInv PROVE NothingOverlooked
    OBVIOUS
  <2>1. /\ Len(asked) \in Nat /\ Len(replied) \in Nat /\ Len(got) \in Nat
        /\ Len(replied) <= Len(asked) /\ Len(got) <= Len(replied)
    BY DEF LinkInv, Typed, StepInv
  <2>2. ASSUME spc = "recv", taken = Units(asked)
        PROVE  Len(asked) = Len(replied) \/ (ahead /\ Len(asked) = Len(replied) + 1)
    <3>1. erased = 4 * Len(replied) /\ taken = 4 * Len(asked)
      BY <2>2 DEF LinkInv, FramesAligned, Units, Size
    <3> QED
      BY <2>1, <2>2, <3>1 DEF WaitInv
  <2>3. ASSUME cpc = "recv", ctaken = Units(replied) PROVE Len(got) = Len(replied)
    <3>1. cerased = 4 * Len(got) /\ ctaken = 4 * Len(replied)
      BY <2>3 DEF LinkInv, FramesAligned, Units, Size
    <3> QED
      BY <2>1, <2>3, <3>1 DEF WaitInv
  <2> QED
    BY <2>2, <2>3 DEF NothingOverlooked
<1> QED
  BY <1>1, <1>2, WaitNext, LinkInvariant, PTL DEF Spec
=============================================================================
