--------------------------- MODULE HttpGetProofs ---------------------------
(***************************************************************************)
(* What the HTTP server answers is true of a moment of the request, for    *)
(* any files that change any number of times.                              *)
(***************************************************************************)
EXTENDS HttpGet, TLAPS

(* The files are among those that may be, and between stat and open seen   *)
(* has the present one.                                                    *)
FilesInv == /\ target \in Contents /\ page \in Pages
            /\ seen \subseteq Contents \cup {Absent}
            /\ pc = "get" => target \in seen

(* What HttpHandle knows at each of its places: a size it took from a      *)
(* version that was seen, or a reason for the page for errors.             *)
PlaceInv == /\ pc = "recv" => res = Nothing
            /\ pc = "get" => taken >= Line /\ \E s \in seen : size = ToInt(SizeOf(s))
            /\ pc \in {"err", "readerr"} => taken < Line \/ Absent \in seen
            /\ pc \in {"get", "err", "readerr"} => res = Nothing
            /\ pc = "readerr" => size \in Nat

HttpInv == FilesInv /\ PlaceInv /\ LengthsAgree /\ AnswersWhatWasThere

-----------------------------------------------------------------------------
(* Sizes are numbers, and only a file that is not there has none.          *)
LEMMA SizeIsInt ==
  ASSUME NEW c \in Contents \cup Pages \cup {Absent}
  PROVE  /\ SizeOf(c) \in Int /\ SizeOf(c) + 1 \in Nat
         /\ c # Absent => SizeOf(c) \in Nat
BY HttpAssumption DEF SizeOf

(* Division with remainder.                                                *)
LEMMA DivMod ==
  ASSUME NEW n \in Nat, NEW d \in Nat \ {0}
  PROVE  /\ n \div d \in Nat
         /\ n % d \in 0 .. d - 1
         /\ n = d * (n \div d) + (n % d)
<1>1. n \div d \in Int
  OBVIOUS
<1>2. n % d \in 0 .. d - 1
  OBVIOUS
<1>3. n = d * (n \div d) + (n % d)
  OBVIOUS
<1>4. ASSUME NEW q \in Int, NEW r \in 0 .. d - 1, n = d * q + r PROVE q \in Nat
  <2>1. CASE q <= -1
    <3>1. d * q <= -d
      BY <2>1
    <3> QED
      BY <1>4, <3>1
  <2> QED
    BY <2>1
<1> QED
  BY <1>1, <1>2, <1>3, <1>4

(* What an int is made of a size is never more than the size, and the size *)
(* itself if it is an int.                                                 *)
LEMMA IntOfSize ==
  ASSUME NEW n \in Int, n >= -1
  PROVE  /\ ToInt(n) \in Int /\ ToInt(n) <= n /\ ToInt(n) < Half
         /\ n < Half => ToInt(n) = n
<1> DEFINE d == 2 * Half
           q == (n + Half) \div d
           r == (n + Half) % d
<1>1. Half \in Nat \ {0} /\ d \in Nat \ {0} /\ n + Half \in Nat
  BY HttpAssumption
<1>2. q \in Nat /\ r \in 0 .. d - 1 /\ n + Half = d * q + r
  BY <1>1, DivMod
<1>3. ToInt(n) = r - Half
  BY DEF ToInt
<1> HIDE DEF q, r
<1>4. q = 0 \/ d * q >= d
  BY <1>1, <1>2
<1>5. d * q \in Nat /\ (q = 0 => d * q = 0)
  BY <1>1, <1>2
<1>6. d = Half + Half
  BY <1>1
<1> DEFINE p == d * q
<1>7. n + Half = p + r /\ p \in Nat /\ (p = 0 \/ p >= d)
  BY <1>2, <1>4, <1>5
<1> HIDE DEF d, p
<1> QED
  BY <1>1, <1>2, <1>3, <1>6, <1>7

(* A body that is filled has the length it was resized to.                 *)
LEMMA FilledLen ==
  ASSUME NEW n \in Nat, NEW m, NEW c
  PROVE  Len(Filled(n, m, c)) = n
<1> DEFINE body == [i \in 1 .. n |-> IF i <= m /\ i <= Len(BytesOf(c)) THEN BytesOf(c)[i] ELSE Nul]
<1>1. body \in Seq({body[i] : i \in 1 .. n})
  OBVIOUS
<1>2. DOMAIN body = 1 .. n
  OBVIOUS
<1> HIDE DEF body
<1>3. Len(body) = n
  BY <1>1, <1>2
<1> QED
  BY <1>3 DEF Filled, body

(* The properties look only at the response, at what was read, and at what *)
(* was seen, and seen only grows once there is a response.                 *)
LEMMA AnswerStays ==
  ASSUME LengthsAgree, AnswersWhatWasThere,
         UNCHANGED <<res, taken>>, seen \subseteq seen'
  PROVE  LengthsAgree' /\ AnswersWhatWasThere'
<1>1. FilesFit' => FilesFit
  BY DEF FilesFit
<1> QED
  BY <1>1 DEF LengthsAgree, AnswersWhatWasThere

LEMMA HttpInit == Init => HttpInv
BY DEF Init, HttpInv, FilesInv, PlaceInv, LengthsAgree, AnswersWhatWasThere

(* A size that was taken for the path is one of an int.                    *)
LEMMA SizeSeen ==
  ASSUME HttpInv, pc = "get"
  PROVE  \E s \in seen : /\ size = ToInt(SizeOf(s)) /\ SizeOf(s) \in Int
                         /\ size \in Int /\ size <= SizeOf(s)
                         /\ SizeOf(s) < Half => size = SizeOf(s)
<1>1. PICK s \in seen : size = ToInt(SizeOf(s))
  BY DEF HttpInv, PlaceInv
<1>2. SizeOf(s) \in Int /\ SizeOf(s) >= -1
  BY SizeIsInt DEF HttpInv, FilesInv
<1> QED
  BY <1>1, <1>2, IntOfSize

(* Get answers with bytes of the present version in the size of another.   *)
LEMMA GetAnswers == ASSUME HttpInv, Get PROVE HttpInv'
<1>1. /\ pc = "get" /\ res = Nothing /\ target \in seen /\ taken >= Line
      /\ UNCHANGED <<target, page, taken, size>>
      /\ target \in Contents /\ page \in Pages /\ seen \subseteq Contents \cup {Absent}
  BY DEF Get, HttpInv, FilesInv, PlaceInv
<1>2. CASE pc' = "close" /\ UNCHANGED <<res, seen>>
  BY <1>1, <1>2, AnswerStays DEF HttpInv, FilesInv, PlaceInv
<1>3. ASSUME size >= -1, NEW c \in Found(target), seen' = seen \cup {c},
             c = Absent, pc' = "err", UNCHANGED res
      PROVE  HttpInv'
  <2>1. FilesInv' /\ PlaceInv'
    BY <1>1, <1>3 DEF FilesInv, PlaceInv
  <2> QED
    BY <1>1, <1>3, <2>1, AnswerStays DEF HttpInv
<1>4. ASSUME size >= -1, NEW c \in Found(target), seen' = seen \cup {c},
             c # Absent, res' = Response(200, {}, Filled(size + 1, size, c)), pc' = "send"
      PROVE  HttpInv'
  <2>1. c = target /\ seen' = seen
    BY <1>1, <1>4 DEF Found
  <2>2. PICK s \in seen : /\ size = ToInt(SizeOf(s)) /\ SizeOf(s) \in Int
                          /\ size \in Int /\ size <= SizeOf(s)
                          /\ SizeOf(s) < Half => size = SizeOf(s)
    BY <1>1, SizeSeen
  <2>3. size + 1 \in Nat
    BY <1>4, <2>2
  <2>4. /\ res'.status = 200 /\ res'.body = Filled(size + 1, size, c)
        /\ res'.lengths = {Len(res'.body)}
    BY <1>4 DEF Response
  <2>5. LengthsAgree'
    BY <2>4 DEF LengthsAgree
  <2>6. Len(res'.body) = size + 1
    BY <2>3, <2>4, FilledLen
  <2>7. Len(res'.body) <= SizeOf(s) + 1
    BY <2>2, <2>6
  <2>8. FilesFit' => Len(res'.body) = SizeOf(s) + 1
    <3>1. ASSUME FilesFit' PROVE SizeOf(s) < Half
      <4>1. SizeOf(s) < Half - 1
        BY <2>1, <3>1 DEF FilesFit
      <4> QED
        BY <2>2, <4>1, HttpAssumption
    <3> QED
      BY <2>2, <2>6, <3>1
  <2>9. \A i \in 1 .. Len(res'.body) :
          res'.body[i] = IF i < Len(res'.body) /\ i <= Len(BytesOf(c)) THEN BytesOf(c)[i] ELSE Nul
    <3>1. \A i \in 1 .. size + 1 :
            res'.body[i] = IF i <= size /\ i <= Len(BytesOf(c)) THEN BytesOf(c)[i] ELSE Nul
      BY <2>3, <2>4 DEF Filled
    <3>2. \A i \in 1 .. size + 1 : i <= size <=> i < size + 1
      BY <2>2
    <3> QED
      BY <2>6, <3>1, <3>2
  <2>10. c \in seen' \ {Absent} /\ s \in seen'
    BY <1>1, <1>4, <2>1
  <2>11. AnswersWhatWasThere'
    BY <2>4, <2>7, <2>8, <2>9, <2>10 DEF AnswersWhatWasThere
  <2> QED
    BY <1>1, <1>4, <2>1, <2>5, <2>11 DEF HttpInv, FilesInv, PlaceInv
<1> QED
  BY <1>2, <1>3, <1>4 DEF Get

(* The page for errors is announced with the size it is resized to.        *)
LEMMA PageAnswers == ASSUME HttpInv, GetErr \/ ReadErr PROVE HttpInv'
<1>1. /\ FilesInv' /\ UNCHANGED <<target, page, seen, taken>>
      /\ res = Nothing /\ (taken < Line \/ Absent \in seen)
      /\ pc \in {"err", "readerr"} /\ pc' \in {"readerr", "send"}
  BY DEF GetErr, ReadErr, HttpInv, FilesInv, PlaceInv, files
<1>2. ASSUME res'.status = 404, res'.lengths = {Len(res'.body)}, pc' = "send"
      PROVE  HttpInv'
  BY <1>1, <1>2 DEF HttpInv, PlaceInv, LengthsAgree, AnswersWhatWasThere
<1>3. CASE ReadErr
  <2>1. size \in Nat
    BY <1>3 DEF ReadErr, HttpInv, PlaceInv
  <2>0. PICK c \in Found(page) : res' = Response(404, {size}, Filled(size, ToInt(size), c))
    BY <1>3 DEF ReadErr
  <2> DEFINE body == Filled(size, ToInt(size), c)
  <2>2. Len(body) = size
    BY <2>1, FilledLen
  <2>3. res' = Response(404, {size}, body) /\ pc' = "send"
    BY <1>3, <2>0 DEF ReadErr
  <2> HIDE DEF body
  <2>4. res'.status = 404 /\ res'.body = body /\ res'.lengths = {size} \cup {Len(body)}
    BY <2>3 DEF Response
  <2>5. {size} \cup {Len(body)} = {Len(body)}
    BY <2>2
  <2>6. res'.lengths = {Len(res'.body)}
    BY <2>4, <2>5
  <2> QED
    BY <1>2, <2>3, <2>4, <2>6
<1>4. ASSUME res' = Response(404, {Len(BuiltIn)}, BuiltIn), pc' = "send" PROVE HttpInv'
  <2>1. /\ res'.status = 404 /\ res'.body = BuiltIn
        /\ res'.lengths = {Len(BuiltIn)} \cup {Len(BuiltIn)}
    BY <1>4 DEF Response
  <2>2. res'.lengths = {Len(res'.body)}
    BY <2>1
  <2> QED
    BY <1>2, <1>4, <2>1, <2>2
<1>5. ASSUME NEW c \in Found(page), c # Absent, size' = SizeOf(c), pc' = "readerr", UNCHANGED res
      PROVE  HttpInv'
  <2>1. c \in Pages
    BY <1>5 DEF HttpInv, FilesInv, Found
  <2>2. size' \in Nat
    BY <1>5, <2>1, SizeIsInt
  <2>3. PlaceInv'
    BY <1>1, <1>5, <2>2 DEF PlaceInv
  <2> QED
    BY <1>1, <1>5, <2>3, AnswerStays DEF HttpInv
<1> QED
  BY <1>3, <1>4, <1>5 DEF GetErr

LEMMA HttpStep == ASSUME HttpInv, [Next]_vars PROVE HttpInv'
<1>1. CASE Recv
  <2>1. /\ pc = "recv" /\ res = Nothing /\ res' = Nothing
        /\ UNCHANGED <<target, page>> /\ target \in Contents /\ page \in Pages
    BY <1>1 DEF Recv, HttpInv, FilesInv, PlaceInv
  <2>2. LengthsAgree' /\ AnswersWhatWasThere'
    BY <2>1 DEF LengthsAgree, AnswersWhatWasThere
  <2>3. CASE taken' < Line /\ pc' \in {"close", "err"} /\ seen' = {target}
    BY <2>1, <2>2, <2>3 DEF HttpInv, FilesInv, PlaceInv
  <2>4. ASSUME taken' >= Line, pc' = "get",
               NEW c \in Found(target), size' = ToInt(SizeOf(c)), seen' = {target, c}
        PROVE  HttpInv'
    <3>1. FilesInv'
      BY <2>1, <2>4 DEF FilesInv, Found
    <3>2. PlaceInv'
      BY <2>1, <2>4 DEF PlaceInv
    <3> QED
      BY <2>2, <3>1, <3>2 DEF HttpInv
  <2> QED
    BY <1>1, <2>3, <2>4 DEF Recv
<1>2. CASE Get
  BY <1>2, GetAnswers
<1>3. CASE GetErr \/ ReadErr
  BY <1>3, PageAnswers
<1>4. CASE RecvEnds \/ Send \/ Close
  <2>1. UNCHANGED <<target, page, seen, taken, res>> /\ pc' \in {"close", "done"}
    BY <1>4 DEF RecvEnds, Send, Close, files
  <2> QED
    BY <2>1, AnswerStays DEF HttpInv, FilesInv, PlaceInv
<1>5. CASE Write \/ Hear \/ Leave \/ UNCHANGED vars
  <2>1. UNCHANGED <<target, page, seen, serverVars>>
    BY <1>5 DEF Write, Hear, Leave, vars, files
  <2> QED
    BY <2>1, AnswerStays DEF HttpInv, FilesInv, PlaceInv, serverVars
<1>6. CASE Edit
  <2>1. /\ seen' = IF pc = "get" THEN seen \cup {target'} ELSE seen
        /\ UNCHANGED serverVars
        /\ target' \in Contents /\ page' \in Pages
    BY <1>6 DEF Edit, HttpInv, FilesInv
  <2>2. FilesInv'
    BY <2>1 DEF HttpInv, FilesInv, serverVars
  <2>3. PlaceInv'
    BY <2>1 DEF HttpInv, PlaceInv, serverVars
  <2> QED
    BY <2>1, <2>2, <2>3, AnswerStays DEF HttpInv, serverVars
<1> QED
  BY <1>1, <1>2, <1>3, <1>4, <1>5, <1>6 DEF Next, ServerStep

LEMMA HttpInvariant == Spec => []HttpInv
BY HttpInit, HttpStep, PTL DEF Spec

(* Each Content-Length is the length of the body, whatever becomes of the  *)
(* files.                                                                  *)
THEOREM LengthsTrue == Spec => []LengthsAgree
<1>1. HttpInv => LengthsAgree
  BY DEF HttpInv
<1> QED
  BY <1>1, HttpInvariant, PTL

(* The answer is true of a moment of the request.                          *)
THEOREM AnswerWasTrue == Spec => []AnswersWhatWasThere
<1>1. HttpInv => AnswersWhatWasThere
  BY DEF HttpInv
<1> QED
  BY <1>1, HttpInvariant, PTL
=============================================================================
