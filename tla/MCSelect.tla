------------------------------ MODULE MCSelect ------------------------------
EXTENDS SelectServer, TLC

CONSTANTS c1, c2, c3, f1, f2

(* Two clients send a message each, the third connects and leaves.         *)
Msgs == [c \in Clients |-> IF c = c3 THEN 0 ELSE 1]
=============================================================================
