----------------------------- MODULE MCReactor -----------------------------
(***************************************************************************)
(* A small instance of Reactor, in two circumstances: clients in step with *)
(* the server; and clients ahead of it, with one descriptor for two, a     *)
(* send buffer of one reply and a half, and lines that cannot be parsed.   *)
(***************************************************************************)
EXTENDS Reactor

CONSTANTS f1, f2

AnyKind == {"op", "noop", "bad"}

InStep == [window |-> 1, cap |-> 2, kinds |-> {"op", "noop"}, fds |-> {f1, f2}]
Ahead  == [window |-> 2, cap |-> 3, kinds |-> AnyKind, fds |-> {f1}]

Both == {InStep, Ahead}
=============================================================================
