------------------------------- MODULE MCChat -------------------------------
EXTENDS ChatServer

CONSTANTS h1, h2, p1, p2

(* Two clients on one host, one on another.                                *)
Clients == {<<h1, p1>>, <<h1, p2>>, <<h2, p1>>}

AllKinds == {"login", "blank", "bare", "loginoff", "offline", "mention", "text"}
=============================================================================
