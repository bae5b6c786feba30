------------------------------ MODULE HttpGet ------------------------------
(***************************************************************************)
(* One request to the server of http/: HttpHandle in the grandchild, which *)
(* calls recv once, parse, Get and readFile, while others change the files *)
(* it looks at. Between any two of its looks they may be gone, new, longer *)
(* or shorter.                                                             *)
(*                                                                         *)
(* A request is three units: the first part of its line, the rest of the   *)
(* line with its end, and the headers.                                     *)
(***************************************************************************)
EXTENDS Integers, Sequences

CONSTANTS Contents,  (* what the requested path may be                     *)
          Pages,     (* what the page for errors may be                    *)
          Absent,    (* no such file                                       *)
          Dir,       (* a directory                                        *)
          DirSize,   (* its size                                           *)
          Nul,       (* the byte zero                                      *)
          BuiltIn,   (* the message when there is no page for errors       *)
          Nothing,   (* no response yet                                    *)
          Half,      (* an int is one of -Half .. Half - 1                 *)
          MaxEdits   (* bound: changes to the files                        *)

ASSUME HttpAssumption ==
  /\ Absent # Dir
  /\ \A c \in (Contents \cup Pages) \ {Absent, Dir} : Len(c) \in Nat
  /\ DirSize \in Nat
  /\ Half \in Nat \ {0}

VARIABLES target,    (* what the requested path is now                     *)
          page,      (* what the page for errors is now                    *)
          edits,     (* changes to the files                               *)
          pc,        (* where HttpHandle is                                *)
          sent,      (* units the client has written                       *)
          taken,     (* units recv returned                                *)
          size,      (* _size, then the size of the page for errors        *)
          res,       (* the response: status, Content-Length's and body    *)
          conn,      (* "open", or closed: "fin", "rst"                    *)
          heard,     (* "nothing", "response", or "closed" without one     *)
          left,      (* the client has left                                *)
          seen       (* history: what looks at the path could find, from   *)
                     (* the first one to the last                          *)

files      == <<target, page, edits, seen>>
serverVars == <<pc, taken, size, res>>
vars       == <<files, serverVars, sent, conn, heard, left>>

Init == /\ target \in Contents /\ page \in Pages
        /\ edits = 0 /\ seen = {target}
        /\ pc = "recv" /\ sent = 0 /\ taken = 0 /\ size = 0 /\ res = Nothing
        /\ conn = "open" /\ heard = "nothing" /\ left = FALSE
-----------------------------------------------------------------------------
Line    == 2
Request == 3

(* st_size of a file, and what read finds in it: of a directory nothing.   *)
SizeOf(c)  == IF c = Absent THEN -1 ELSE IF c = Dir THEN DirSize ELSE Len(c)
BytesOf(c) == IF c \in {Absent, Dir} THEN <<>> ELSE c

(* An off_t in an int.                                                     *)
ToInt(n) == ((n + Half) % (2 * Half)) - Half

(* A look finds what is at a path now, or nothing if the server may not    *)
(* reach it or has no descriptor left.                                     *)
Found(now) == {now, Absent}

(* A body of n bytes, and readFile of at most m bytes of c into it.        *)
Filled(n, m, c) ==
  [i \in 1 .. n |-> IF i <= m /\ i <= Len(BytesOf(c)) THEN BytesOf(c)[i] ELSE Nul]

Response(status, lengths, body) ==
  [status |-> status, lengths |-> lengths \cup {Len(body)}, body |-> body]
-----------------------------------------------------------------------------
(* recv is called once and returns what has come, or the first part of it, *)
(* and parse stats the path. Without a line end parse returns early, _size *)
(* is not initialised and _path empty: the body cannot be resized, which   *)
(* nobody catches, or the page for errors is the answer.                   *)
Recv == /\ pc = "recv"
        /\ taken' \in 1 .. sent
        /\ \/ /\ taken' >= Line
              /\ \E c \in Found(target) : size' = ToInt(SizeOf(c)) /\ seen' = {target, c}
              /\ pc' = "get"
           \/ /\ taken' < Line
              /\ pc' \in {"close", "err"}
              /\ seen' = {target}
              /\ UNCHANGED size
        /\ UNCHANGED <<target, page, edits, res, sent, conn, heard, left>>

(* The client left before it wrote anything.                               *)
RecvEnds == /\ pc = "recv"
            /\ sent = 0 /\ left
            /\ pc' = "close"
            /\ UNCHANGED <<files, taken, size, res, sent, conn, heard, left>>

(* Mutant: the size of no file is taken for an error.                      *)
GetRefusesAbsent ==
  /\ pc = "get"
  /\ \/ /\ size < 0 \/ size = Half - 1
        /\ pc' = "close"
        /\ UNCHANGED <<res, seen>>
     \/ /\ size >= 0
        /\ \E c \in Found(target) :
             /\ seen' = seen \cup {c}
             /\ \/ c = Absent /\ pc' = "err" /\ UNCHANGED res
                \/ /\ c # Absent
                   /\ res' = Response(200, {}, Filled(size + 1, size, c))
                   /\ pc' = "send"
  /\ UNCHANGED <<target, page, edits, taken, size, sent, conn, heard, left>>

(* The body gets the size and one byte more, in ints: a size below -1      *)
(* makes resize throw, which nobody catches, and the largest one may. Then *)
(* the path is opened, and what is found now fills the body; if nothing    *)
(* is, the page for errors is the answer.                                  *)
Get == /\ pc = "get"
       /\ \/ /\ size < -1 \/ size = Half - 1
             /\ pc' = "close"
             /\ UNCHANGED <<res, seen>>
          \/ /\ size >= -1
             /\ \E c \in Found(target) :
                  /\ seen' = seen \cup {c}
                  /\ \/ c = Absent /\ pc' = "err" /\ UNCHANGED res
                     \/ /\ c # Absent
                        /\ res' = Response(200, {}, Filled(size + 1, size, c))
                        /\ pc' = "send"
       /\ UNCHANGED <<target, page, edits, taken, size, sent, conn, heard, left>>

(* stat of the page for errors, whose size is not made an int here.        *)
GetErr == /\ pc = "err"
          /\ \E c \in Found(page) :
               \/ /\ c = Absent
                  /\ res' = Response(404, {Len(BuiltIn)}, BuiltIn)
                  /\ pc' = "send"
                  /\ UNCHANGED size
               \/ /\ c # Absent
                  /\ size' = SizeOf(c)
                  /\ pc' = "readerr"
                  /\ UNCHANGED res
          /\ UNCHANGED <<files, taken, sent, conn, heard, left>>

(* Mutant: the page as TCP_Test/server_http.cc:59 sends it.                *)
ReadErrLonger ==
  /\ pc = "readerr"
  /\ \E c \in Found(page) :
       res' = Response(404, {size}, Filled(size + 1, ToInt(size), c))
  /\ pc' = "send"
  /\ UNCHANGED <<files, taken, size, sent, conn, heard, left>>

(* Mutant: the status line is not replaced.                                *)
ReadErrAsOk ==
  /\ pc = "readerr"
  /\ \E c \in Found(page) :
       res' = Response(200, {size}, Filled(size, ToInt(size), c))
  /\ pc' = "send"
  /\ UNCHANGED <<files, taken, size, sent, conn, heard, left>>

(* The page is read, of which readFile takes the size as an int; or not,   *)
(* which is not noticed.                                                   *)
ReadErr ==
  /\ pc = "readerr"
  /\ \E c \in Found(page) :
       res' = Response(404, {size}, Filled(size, ToInt(size), c))
  /\ pc' = "send"
  /\ UNCHANGED <<files, taken, size, sent, conn, heard, left>>

(* send, and if the client has gone its error or SIGPIPE: all over.        *)
Send == /\ pc = "send"
        /\ pc' = "close"
        /\ UNCHANGED <<files, taken, size, res, sent, conn, heard, left>>

(* close, or the end of the process: a reset if units are left unread.     *)
Close == /\ pc = "close"
         /\ pc' = "done"
         /\ conn' = IF taken < sent THEN "rst" ELSE "fin"
         /\ UNCHANGED <<files, taken, size, res, sent, heard, left>>

ServerStep == Recv \/ RecvEnds \/ Get \/ GetErr \/ ReadErr \/ Send \/ Close
-----------------------------------------------------------------------------
(* The client. What it writes to a closed connection is answered with a    *)
(* reset.                                                                  *)
Write == /\ ~ left /\ heard = "nothing"
         /\ sent < Request
         /\ sent' = sent + 1
         /\ conn' = IF conn = "fin" THEN "rst" ELSE conn
         /\ UNCHANGED <<files, serverVars, heard, left>>

(* It hears the response, or the end of a connection that brought none; a  *)
(* reset may come before the response and take its place.                  *)
Hear == /\ ~ left /\ heard = "nothing"
        /\ \/ pc \in {"close", "done"} /\ res # Nothing /\ heard' = "response"
           \/ /\ conn = "rst" \/ (conn = "fin" /\ res = Nothing)
              /\ heard' = "closed"
        /\ UNCHANGED <<files, serverVars, sent, conn, left>>

Leave == /\ ~ left
         /\ left' = TRUE
         /\ UNCHANGED <<files, serverVars, sent, conn, heard>>

(* Somebody else changes a file.                                           *)
Edit == /\ pc # "done"
        /\ edits < MaxEdits
        /\ edits' = edits + 1
        /\ \/ target' \in Contents \ {target} /\ UNCHANGED page
           \/ page' \in Pages \ {page} /\ UNCHANGED target
        /\ seen' = IF pc = "get" THEN seen \cup {target'} ELSE seen
        /\ UNCHANGED <<serverVars, sent, conn, heard, left>>

Next == ServerStep \/ Write \/ Hear \/ Leave \/ Edit

Spec == Init /\ [][Next]_vars

(* The process runs, and a client that waits reads. Nobody has to write.   *)
FairSpec == Spec /\ WF_vars(ServerStep) /\ WF_vars(Hear)
-----------------------------------------------------------------------------
(* Properties.                                                             *)

(* Every Content-Length of a response is the length of its body, whatever  *)
(* became of the files, so that a client that counts stays in step.        *)
LengthsAgree == res # Nothing => res.lengths = {Len(res.body)}

(* An int can count every version of the file, and one byte more.          *)
FilesFit == \A c \in seen : SizeOf(c) < Half - 1

(* The answer is true of some moment of the request: 404 only if there was *)
(* no request line, or a look found no file it could reach; 200 only with  *)
(* the bytes of one version of the file, never a mixture, with zeros       *)
(* behind, and for the size of one version, and one byte more. Of files    *)
(* that an int cannot count the size is less, but the rest still holds.    *)
AnswersWhatWasThere ==
  res # Nothing =>
    \/ res.status = 404 /\ (taken < Line \/ Absent \in seen)
    \/ /\ res.status = 200
       /\ \E c \in seen \ {Absent}, s \in seen :
            /\ Len(res.body) <= SizeOf(s) + 1
            /\ FilesFit => Len(res.body) = SizeOf(s) + 1
            /\ \A i \in 1 .. Len(res.body) :
                 res.body[i] = IF i < Len(res.body) /\ i <= Len(BytesOf(c))
                               THEN BytesOf(c)[i] ELSE Nul

(* A client that has written something and stays hears the response or the *)
(* end of the connection, whatever happens to the files; it hears the      *)
(* response if recv returned all of its request and an int can count the   *)
(* files.                                                                  *)
Answered == []<>(\/ sent = 0 \/ left
                 \/ heard = "response"
                 \/ heard = "closed" /\ ~ (taken = Request /\ FilesFit))
=============================================================================
