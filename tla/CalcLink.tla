------------------------------ MODULE CalcLink ------------------------------
(***************************************************************************)
(* One connection of the calculator in protocol/: handlerLink in the       *)
(* process that serves it, the client, and recvPackage (protocol.hpp),     *)
(* which both use to cut packages out of a stream that arrives in pieces.  *)
(*                                                                         *)
(* A package is four units: the length, its line end, the text and its     *)
(* line end. Units are numbered from 1 in each direction; of a stream a    *)
(* buffer holds those from its first to the last that was read.            *)
(***************************************************************************)
EXTENDS Integers, Sequences

CONSTANTS Half,       (* half the number of the values of an int, 2 ^ 31   *)
          Requests,   (* the requests <<x, op, y>> clients may send        *)
          MaxAsks     (* bound: requests in the life of the client         *)

(* What _x and _y can be.                                                  *)
Ints == -Half .. Half - 1

ASSUME CalcAssumption == /\ Half \in Nat \ {0}
                         /\ Requests \subseteq Ints \X STRING \X Ints
                         /\ MaxAsks \in Nat

VARIABLES ahead,     (* this client asks twice before it reads             *)
          asked,     (* the requests written, as packages                  *)
          taken,     (* units the server has read                          *)
          erased,    (* units the server has cut from inbuffer             *)
          spc,       (* "recv", "answer" or "closed"                       *)
          replied,   (* the responses written, as packages                 *)
          ctaken,    (* units the client has read                          *)
          cerased,   (* units the client is done with                      *)
          cpc,       (* "prompt", "recv" or "left"                         *)
          got        (* the responses the client has taken                 *)

serverVars == <<taken, erased, spc, replied>>
clientVars == <<asked, ctaken, cerased, cpc, got>>
vars       == <<ahead, serverVars, clientVars>>

Init == /\ ahead \in BOOLEAN
        /\ asked = <<>> /\ taken = 0 /\ erased = 0 /\ spc = "recv"
        /\ replied = <<>> /\ ctaken = 0 /\ cerased = 0 /\ cpc = "prompt"
        /\ got = <<>>
-----------------------------------------------------------------------------
(* enLength, serialize: four units for a message, and which one unit i is. *)
Size == 4
Units(messages) == Size * Len(messages)
IsLength(i) == i % Size = 1

(* Mutant: the text is taken behind the last header of the buffer.         *)
TextOfLast(messages, i) == messages[Len(messages)]

(* deLength, deserialize: the message whose text the package behind unit i *)
(* holds.                                                                  *)
Text(messages, i) == messages[i \div Size + 1]

(* recvPackage, after a read that leaves the units from + 1 .. to in       *)
(* inbuffer. Without a line end it returns false; with anything but a      *)
(* number before the first, stoi throws: either way it is over. A text     *)
(* that is not whole needs another read.                                   *)
HasHeader(from, to) == IsLength(from + 1) /\ from + 2 <= to
Outcome(from, to) == IF ~ HasHeader(from, to) THEN "over"
                     ELSE IF to - from < Size THEN "more" ELSE "package"

(* Mutant: total_len counts one line end only.                             *)
AfterShort(from) == from + Size - 1

(* inbuffer.erase(0, total_len).                                           *)
After(from) == from + Size
-----------------------------------------------------------------------------
(* callback.                                                               *)

(* The build of the Makefile, without optimisation, wraps.                 *)
Wrap(n) == ((n + Half) % (2 * Half)) - Half

Quotient(x, y) == LET q == (IF x < 0 THEN (-x) ELSE x) \div (IF y < 0 THEN (-y) ELSE y)
                  IN IF x < 0 <=> y < 0 THEN q ELSE (-q)

Callback(r) ==
  LET x == r[1]  op == r[2]  y == r[3] IN
  CASE op = "+" -> <<Wrap(x + y), "OK">>
    [] op = "-" -> <<Wrap(x - y), "OK">>
    [] op = "*" -> <<Wrap(x * y), "OK">>
    [] op = "/" -> IF y = 0 THEN <<-1, "DIV_ZERO">> ELSE <<Quotient(x, y), "OK">>
    [] op = "%" -> IF y = 0 THEN <<-1, "MOD_ZERO">> ELSE <<x - y * Quotient(x, y), "OK">>
    [] OTHER    -> <<-1, "OP_ERR">>

(* The machine divides only where the quotient is an int, also for %.      *)
Traps(r) == r[2] \in {"/", "%"} /\ r[1] = -Half /\ r[3] = -1
-----------------------------------------------------------------------------
(* The server: handlerLink.                                                *)

(* read returns what has come, up to unit n. handlerLink does not look at  *)
(* the result of recvPackage, but deLength fails on the empty text.        *)
Recv(n) == /\ spc = "recv"
           /\ n \in taken + 1 .. Units(asked)
           /\ taken' = n
           /\ \/ /\ Outcome(erased, n) = "package"
                 /\ erased' = After(erased)
                 /\ spc' = "answer"
              \/ Outcome(erased, n) = "more" /\ UNCHANGED <<erased, spc>>
              \/ Outcome(erased, n) = "over" /\ spc' = "closed" /\ UNCHANGED erased
           /\ UNCHANGED <<ahead, clientVars, replied>>

(* read returns 0, or fails on a connection that was reset.                *)
RecvEnds == /\ spc = "recv"
            /\ cpc = "left"
            /\ spc' = "closed"
            /\ UNCHANGED <<ahead, clientVars, taken, erased, replied>>

(* The request just cut is computed and answered; SIGFPE ends the process, *)
(* and SIGPIPE, when the client has gone, or the write is not noticed.     *)
Request == Text(asked, erased - Size)
Answer == /\ spc = "answer"
          /\ \/ /\ ~ Traps(Request)
                /\ replied' = Append(replied, Callback(Request))
                /\ spc' = "recv"
             \/ /\ Traps(Request) \/ cpc = "left"
                /\ UNCHANGED replied
                /\ spc' = "closed"
          /\ UNCHANGED <<ahead, clientVars, taken, erased>>

ServerStep == RecvEnds \/ Answer \/ \E n \in taken + 1 .. Units(asked) : Recv(n)
-----------------------------------------------------------------------------
(* The client: run. A line that sscanf cannot read leaves x, op or y       *)
(* uninitialised: it is some request.                                      *)

Ask(r) == /\ cpc = "prompt"
          /\ Len(asked) < MaxAsks
          /\ ahead => Len(asked) < Len(got) + 2
          /\ asked' = Append(asked, r)
          /\ cpc' = IF ahead THEN "prompt" ELSE "recv"
          /\ UNCHANGED <<ahead, serverVars, ctaken, cerased, got>>

(* recvPackage into an inbuffer that is made for each answer and then      *)
(* dropped, whatever it holds; when it fails the client exits.             *)
CRecv(n) ==
  /\ cpc = "recv"
  /\ n \in ctaken + 1 .. Units(replied)
  /\ ctaken' = n
  /\ \/ /\ Outcome(cerased, n) = "package"
        /\ got' = Append(got, Text(replied, cerased))
        /\ cerased' = n
        /\ cpc' = "prompt"
     \/ Outcome(cerased, n) = "more" /\ UNCHANGED <<got, cerased, cpc>>
     \/ Outcome(cerased, n) = "over" /\ cpc' = "left" /\ UNCHANGED <<got, cerased>>
  /\ UNCHANGED <<ahead, serverVars, asked>>

(* Mutant: a read that returns 0 is tried again.                           *)
CRecvEndsIgnored == /\ cpc = "recv"
                    /\ spc = "closed"
                    /\ ctaken = Units(replied) \/ taken < Units(asked)
                    /\ UNCHANGED vars

(* read returns 0 after the last unit, or fails at once when the server    *)
(* closed with units unread.                                               *)
CRecvEnds == /\ cpc = "recv"
             /\ spc = "closed"
             /\ ctaken = Units(replied) \/ taken < Units(asked)
             /\ cpc' = "left"
             /\ UNCHANGED <<ahead, serverVars, asked, ctaken, cerased, got>>

(* The other client, which is not in the repository, takes what it gets.   *)
Hear == /\ ahead /\ cpc = "prompt"
        /\ Len(got) < Len(replied)
        /\ got' = Append(got, replied[Len(got) + 1])
        /\ ctaken' = ctaken + Size
        /\ cerased' = cerased + Size
        /\ UNCHANGED <<ahead, serverVars, asked, cpc>>

(* The client is killed.                                                   *)
Leave == /\ cpc # "left"
         /\ cpc' = "left"
         /\ UNCHANGED <<ahead, serverVars, asked, ctaken, cerased, got>>

ClientReads == CRecvEnds \/ Hear \/ \E n \in ctaken + 1 .. Units(replied) : CRecv(n)

Next == ServerStep \/ ClientReads \/ Leave \/ \E r \in Requests : Ask(r)

Spec == Init /\ [][Next]_vars

(* Both processes run; nobody has to ask or to leave.                      *)
FairSpec == Spec /\ WF_vars(ServerStep) /\ WF_vars(ClientReads)
-----------------------------------------------------------------------------
(* Properties.                                                             *)

(* However the streams are cut, both ends agree which package each byte is *)
(* of: the server has cut one package for each answer it gave or is about  *)
(* to give, and the client, which throws its buffer away with each answer, *)
(* throws nothing away with it.                                            *)
FramesAligned ==
  /\ spc = "recv" => erased = Units(replied)
  /\ spc = "answer" => erased = Units(replied) + Size
  /\ erased <= taken
  /\ cpc # "left" => cerased = Units(got)

(* Nobody waits for what he has: when the server waits with all read that  *)
(* was written to it, it has answered all, or all but the last request of  *)
(* a client that is ahead, which lies whole in inbuffer; and when the      *)
(* client waits with all read, it has taken every answer. So with a client *)
(* in step the two never both wait.                                        *)
NothingOverlooked ==
  /\ spc = "recv" /\ taken = Units(asked)
       => Len(asked) = Len(replied) \/ (ahead /\ Len(asked) = Len(replied) + 1)
  /\ cpc = "recv" /\ ctaken = Units(replied) => Len(got) = Len(replied)

Calc == INSTANCE CalcService WITH
          answered <- replied, gone <- cpc = "left", closed <- spc = "closed"

(* The calculator keeps what CalcService promises: answers in order, each  *)
(* with the value and the exit code that the operation defines.            *)
ImplementsCalc == Calc!Spec

(* A client in step is never left waiting: it gets its answer, or ends. A  *)
(* client that is ahead may be left with one request, which is whole in    *)
(* inbuffer while the server reads for more.                               *)
AnswersOrEnds ==
  []<>(\/ Len(got) = Len(asked) \/ cpc = "left"
       \/ ahead /\ spc = "closed"
       \/ ahead /\ spc = "recv" /\ taken = erased + Size /\ Len(asked) = Len(got) + 1)
=============================================================================
