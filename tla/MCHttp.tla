------------------------------- MODULE MCHttp -------------------------------
EXTENDS HttpGet, TLC

CONSTANTS a, b, e

Long(n) == [i \in 1 .. n |-> b]

(* No file, a directory, an empty file, a short one, and with ints from    *)
(* -4 to 3 files of the largest int, and of sizes that are -4, -1 and 1.   *)
Targets  == {Absent, Dir, <<>>, <<a>>, Long(3), Long(4), Long(7), Long(9)}
ErrPages == {Absent, <<e>>, Long(4)}
Message  == <<e, e, e>>
=============================================================================
