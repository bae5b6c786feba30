---------------------------- MODULE TaskDispatch ----------------------------
(***************************************************************************)
(* What the thread pool of tcp_socket promises to whoever pushes a task,   *)
(* with no mutex, no condition variable and no sleeping thread: tasks are  *)
(* started in the order they were pushed, each is started once, by one     *)
(* idle worker, and a worker runs one task at a time.                      *)
(***************************************************************************)
EXTENDS Naturals, Sequences

CONSTANTS Workers,  (* the threads that run tasks                          *)
          Tasks,    (* the tasks; one value is one call of push            *)
          NoTask    (* "this worker runs nothing"                          *)

VARIABLES pending,  (* tasks pushed and not started, oldest first          *)
          running,  (* the task each worker runs                           *)
          done      (* tasks that have returned                            *)

dvars == <<pending, running, done>>

Init == /\ pending = <<>>
        /\ running = [w \in Workers |-> NoTask]
        /\ done = {}

(* A task is known once it was pushed, and a call of push is not repeated. *)
Known(t) == \/ \E i \in DOMAIN pending : pending[i] = t
            \/ \E w \in Workers : running[w] = t
            \/ t \in done

Submit(t) == /\ ~Known(t)
             /\ pending' = Append(pending, t)
             /\ UNCHANGED <<running, done>>

Start(w) == /\ pending # <<>>
            /\ running[w] = NoTask
            /\ running' = [running EXCEPT ![w] = Head(pending)]
            /\ pending' = Tail(pending)
            /\ UNCHANGED done

Finish(w) == /\ running[w] # NoTask
             /\ done' = done \cup {running[w]}
             /\ running' = [running EXCEPT ![w] = NoTask]
             /\ UNCHANGED pending

Next == \/ \E t \in Tasks : Submit(t)
        \/ \E w \in Workers : Start(w) \/ Finish(w)

Spec == Init /\ [][Next]_dvars

(* A started task returns, and a pending task meets an idle worker.        *)
FairSpec == /\ Spec
            /\ WF_dvars(\E w \in Workers : Start(w))
            /\ \A w \in Workers : WF_dvars(Finish(w))
=============================================================================
