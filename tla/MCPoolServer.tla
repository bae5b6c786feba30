---------------------------- MODULE MCPoolServer ----------------------------
(***************************************************************************)
(* Small instances of PoolServer.                                          *)
(***************************************************************************)
EXTENDS PoolServer, TLC

MCTasks == Fds \X Clients

(* Clients are symmetric where none is patient.                            *)
Symmetry == Permutations(Workers) \cup Permutations(Clients) \cup Permutations(Fds)

OneUnit  == {1}
UpToTwo  == {0, 1, 2}
=============================================================================
