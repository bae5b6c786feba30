----------------------------- MODULE ThreadPool -----------------------------
(***************************************************************************)
(* The thread pool of tcp_socket (Thread_Pool.hpp, Thread.hpp,             *)
(* Lock_Guard.hpp, Task.hpp): one queue, one pthread mutex, one condition  *)
(* variable, the worker threads in _start_func and the main thread, which  *)
(* starts the workers (run) and then pushes tasks (push).                  *)
(*                                                                         *)
(* A step is what one thread does between two points where another thread  *)
(* can be observed: taking the mutex, testing the queue, the atomic        *)
(* release-and-sleep of pthread_cond_wait, taking the mutex again after a  *)
(* wake-up, popping, releasing.                                            *)
(***************************************************************************)
EXTENDS Naturals, Sequences, FiniteSets

CONSTANTS Workers,  (* the threads of _threads                             *)
          Tasks,    (* the tasks; one value is one call of push            *)
          Main,     (* the thread that runs main                           *)
          NoOne,    (* the owner of a free mutex                           *)
          NoTask    (* no task                                             *)

ASSUME PoolAssumption ==
  /\ IsFiniteSet(Workers)
  /\ Workers # {}
  /\ Main \notin Workers
  /\ NoOne \notin Workers \cup {Main}
  /\ NoTask \notin Tasks

VARIABLES queue,      (* _task_queue                                       *)
          mtx,        (* the owner of _mtx                                 *)
          wpc,        (* where each worker is in _start_func               *)
          wtask,      (* the local variable t of each worker               *)
          mpc,        (* where main is in run and push                     *)
          arg,        (* the parameter in of push, until it was copied     *)
          submitted,  (* every task push was ever called with              *)
          done        (* every task that returned                          *)

workerVars == <<wpc, wtask>>
history    == <<submitted, done>>
poolVars   == <<queue, mtx, wpc, wtask, mpc, arg, submitted, done>>

WorkerPC == {"unborn",   (* pthread_create was not called                  *)
             "lock",     (* at the construction of the lock_guard          *)
             "test",     (* holds _mtx, about to evaluate isEmpty          *)
             "sleepy",   (* holds _mtx, about to call pthread_cond_wait    *)
             "asleep",   (* blocked in pthread_cond_wait, without _mtx     *)
             "woken",    (* in pthread_cond_wait, about to take _mtx again *)
             "pop",      (* holds _mtx, about to call pop                  *)
             "unlock",   (* holds _mtx, about to destroy the lock_guard    *)
             "run"}      (* runs t, without _mtx                           *)

MainPC == {"start", "accept", "lock", "push", "signal", "unlock"}

WorkerHolds == {"test", "sleepy", "pop", "unlock"}
MainHolds   == {"push", "signal", "unlock"}

Init == /\ queue = <<>>
        /\ mtx = NoOne
        /\ wpc = [w \in Workers |-> "unborn"]
        /\ wtask = [w \in Workers |-> NoTask]
        /\ mpc = "start"
        /\ arg = NoTask
        /\ submitted = {}
        /\ done = {}
-----------------------------------------------------------------------------
(* The worker threads.                                                     *)

Goto(w, l) == wpc' = [wpc EXCEPT ![w] = l]

(* pthread_mutex_lock in the constructor of lock_guard.                    *)
Lock(w) == /\ wpc[w] = "lock"
           /\ mtx = NoOne
           /\ mtx' = w
           /\ Goto(w, "test")
           /\ UNCHANGED <<queue, wtask, mpc, arg, history>>

(* The condition of while(isEmpty()).                                      *)
TestEmpty(w) == /\ wpc[w] = "test"
                /\ Goto(w, IF queue = <<>> THEN "sleepy" ELSE "pop")
                /\ UNCHANGED <<queue, mtx, wtask, mpc, arg, history>>

(* pthread_cond_wait releases _mtx and blocks in one step.                 *)
CondWait(w) == /\ wpc[w] = "sleepy"
               /\ mtx' = NoOne
               /\ Goto(w, "asleep")
               /\ UNCHANGED <<queue, wtask, mpc, arg, history>>

(* POSIX lets pthread_cond_wait return with no signal.                     *)
SpuriousWakeup(w) == /\ wpc[w] = "asleep"
                     /\ Goto(w, "woken")
                     /\ UNCHANGED <<queue, mtx, wtask, mpc, arg, history>>

(* Mutant: if(isEmpty()) where the code has while(isEmpty()).              *)
RelockWithoutRetest(w) == /\ wpc[w] = "woken"
                          /\ mtx = NoOne
                          /\ mtx' = w
                          /\ Goto(w, "pop")
                          /\ UNCHANGED <<queue, wtask, mpc, arg, history>>

(* pthread_cond_wait returns with _mtx held and the loop tests again.      *)
Relock(w) == /\ wpc[w] = "woken"
             /\ mtx = NoOne
             /\ mtx' = w
             /\ Goto(w, "test")
             /\ UNCHANGED <<queue, wtask, mpc, arg, history>>

(* Mutant: pop copies the front and leaves it in the queue.                *)
PopKeepsFront(w) == /\ wpc[w] = "pop"
                    /\ wtask' = [wtask EXCEPT ![w] = Head(queue)]
                    /\ Goto(w, "unlock")
                    /\ UNCHANGED <<queue, mtx, mpc, arg, history>>

(* pop: copy the front, remove it.                                         *)
Pop(w) == /\ wpc[w] = "pop"
          /\ wtask' = [wtask EXCEPT ![w] = Head(queue)]
          /\ queue' = Tail(queue)
          /\ Goto(w, "unlock")
          /\ UNCHANGED <<mtx, mpc, arg, history>>

(* The lock_guard goes out of scope before t is called.                    *)
Unlock(w) == /\ wpc[w] = "unlock"
             /\ mtx' = NoOne
             /\ Goto(w, "run")
             /\ UNCHANGED <<queue, wtask, mpc, arg, history>>

(* t() returns and the iteration that declared t ends.                     *)
Finish(w) == /\ wpc[w] = "run"
             /\ done' = done \cup {wtask[w]}
             /\ wtask' = [wtask EXCEPT ![w] = NoTask]
             /\ Goto(w, "lock")
             /\ UNCHANGED <<queue, mtx, mpc, arg, submitted>>
-----------------------------------------------------------------------------
(* The main thread.                                                        *)

(* One iteration of run: pthread_create of one worker.                     *)
StartWorker(w) == /\ mpc = "start"
                  /\ wpc[w] = "unborn"
                  /\ Goto(w, "lock")
                  /\ mpc' = IF \E v \in Workers \ {w} : wpc[v] = "unborn"
                            THEN "start" ELSE "accept"
                  /\ UNCHANGED <<queue, mtx, wtask, arg, history>>

(* Main, out of run, calls push with a task it never pushed before.        *)
PushCall(t) == /\ mpc = "accept"
               /\ t \notin submitted
               /\ mpc' = "lock"
               /\ arg' = t
               /\ submitted' = submitted \cup {t}
               /\ UNCHANGED <<queue, mtx, workerVars, done>>

PushLock == /\ mpc = "lock"
            /\ mtx = NoOne
            /\ mtx' = Main
            /\ mpc' = "push"
            /\ UNCHANGED <<queue, workerVars, arg, history>>

(* Mutant: a stack where the code has a queue.                             *)
PushAtFront == /\ mpc = "push"
               /\ queue' = <<arg>> \o queue
               /\ arg' = NoTask
               /\ mpc' = "signal"
               /\ UNCHANGED <<mtx, workerVars, history>>

PushEnqueue == /\ mpc = "push"
               /\ queue' = Append(queue, arg)
               /\ arg' = NoTask
               /\ mpc' = "signal"
               /\ UNCHANGED <<mtx, workerVars, history>>

Asleep == {w \in Workers : wpc[w] = "asleep"}

(* Mutant: push signals only when it made the queue nonempty.              *)
SignalFirstOnly == /\ mpc = "signal"
                   /\ mpc' = "unlock"
                   /\ IF Asleep = {} \/ Len(queue) > 1
                      THEN UNCHANGED wpc
                      ELSE \E w \in Asleep : Goto(w, "woken")
                   /\ UNCHANGED <<queue, mtx, wtask, arg, history>>

(* Mutant: push forgets pthread_cond_signal.                               *)
SignalForgotten == /\ mpc = "signal"
                   /\ mpc' = "unlock"
                   /\ UNCHANGED <<queue, mtx, workerVars, arg, history>>

(* pthread_cond_signal unblocks one of the blocked threads, if there is    *)
(* one; a signal that unblocks two is this step and a SpuriousWakeup.      *)
PushSignal == /\ mpc = "signal"
              /\ mpc' = "unlock"
              /\ IF Asleep = {}
                 THEN UNCHANGED wpc
                 ELSE \E w \in Asleep : Goto(w, "woken")
              /\ UNCHANGED <<queue, mtx, wtask, arg, history>>

PushUnlock == /\ mpc = "unlock"
              /\ mtx' = NoOne
              /\ mpc' = "accept"
              /\ UNCHANGED <<queue, workerVars, arg, history>>
-----------------------------------------------------------------------------
(* The steps that do not depend on what the tasks do.                      *)
PoolWorkerStep(w) == \/ Lock(w) \/ TestEmpty(w) \/ CondWait(w) \/ Relock(w)
                     \/ Pop(w) \/ Unlock(w)

PushStep == PushLock \/ PushEnqueue \/ PushSignal \/ PushUnlock

PoolNext == \/ \E w \in Workers : \/ PoolWorkerStep(w)
                                  \/ SpuriousWakeup(w)
                                  \/ StartWorker(w)
            \/ PushStep

(* The pool alone: any task may be pushed, and a task may return any time. *)
Next == \/ PoolNext
        \/ \E t \in Tasks : PushCall(t)
        \/ \E w \in Workers : Finish(w)

Spec == Init /\ [][Next]_poolVars

(* Threads that can run do run, and tasks return. Nobody is obliged to     *)
(* push, and no spurious wake-up is ever owed.                             *)
Fairness == /\ \A w \in Workers : /\ WF_poolVars(PoolWorkerStep(w))
                                  /\ WF_poolVars(StartWorker(w))
                                  /\ WF_poolVars(Finish(w))
            /\ WF_poolVars(PushStep)

FairSpec == Spec /\ Fairness
-----------------------------------------------------------------------------
(* Properties.                                                             *)

(* Type correctness of the whole state, with the queue a sequence of tasks *)
(* and at most one owner of _mtx.                                          *)
TypeOK == /\ queue \in Seq(Tasks)
          /\ mtx \in Workers \cup {Main, NoOne}
          /\ wpc \in [Workers -> WorkerPC]
          /\ wtask \in [Workers -> Tasks \cup {NoTask}]
          /\ mpc \in MainPC
          /\ arg \in Tasks \cup {NoTask}
          /\ submitted \subseteq Tasks
          /\ done \subseteq Tasks

(* Whoever is between the constructor and the destructor of a lock_guard,  *)
(* and outside pthread_cond_wait, is the owner of _mtx, and nobody else is.*)
LockOwner == /\ \A w \in Workers : mtx = w <=> wpc[w] \in WorkerHolds
             /\ mtx = Main <=> mpc \in MainHolds

(* A thread has a copy of a task exactly where its code declares one that  *)
(* was filled: t of a worker after pop, the parameter in of push.          *)
HandsFull == /\ \A w \in Workers : wtask[w] # NoTask <=> wpc[w] \in {"unlock", "run"}
             /\ arg # NoTask <=> mpc \in {"lock", "push"}

(* No worker evaluates _task_queue.front() on an empty queue, which is     *)
(* undefined: not after a wake-up another worker was faster to serve, nor  *)
(* after a spurious one. A worker about to sleep saw an empty queue that   *)
(* is empty still.                                                         *)
PopHasTask == \A w \in Workers : /\ wpc[w] = "pop" => queue # <<>>
                                 /\ wpc[w] = "sleepy" => queue = <<>>

(* The workers whose next visit to the queue needs no further signal.      *)
Coming == {w \in Workers : wpc[w] \in {"lock", "woken", "test", "pop"}}

PendingSignal == IF mpc = "signal" THEN 1 ELSE 0

(* No lost wake-up: as long as a worker sleeps, every queued task is       *)
(* matched by a worker that is on its way to the queue or by the signal    *)
(* that push is about to send. Signalling once per push, and testing under *)
(* the mutex that cond_wait releases, are what makes it so.                *)
SignalCoversBacklog ==
  Asleep # {} => Len(queue) <= Cardinality(Coming) + PendingSignal

Queued   == {queue[i] : i \in DOMAIN queue}
Running  == {wtask[w] : w \in Workers} \ {NoTask}
Arriving == {arg} \ {NoTask}

(* Exactly once: a task push was called with is in one place only - the    *)
(* parameter of push, one slot of the queue, the hands of one worker, or   *)
(* returned - so none is lost and none is run twice.                       *)
ExactlyOnce ==
  /\ submitted = Arriving \cup Queued \cup Running \cup done
  /\ Arriving \cap (Queued \cup Running \cup done) = {}
  /\ Queued \cap (Running \cup done) = {}
  /\ Running \cap done = {}
  /\ \A i, j \in DOMAIN queue : queue[i] = queue[j] => i = j
  /\ \A v, w \in Workers : wtask[v] = wtask[w] /\ v # w => wtask[v] = NoTask

Dispatch == INSTANCE TaskDispatch WITH pending <- queue, running <- wtask

(* The pool implements the FIFO dispatcher: push hands a task over when it *)
(* is enqueued, pop starts the oldest one on the worker that calls it.     *)
ImplementsDispatch == Dispatch!Spec

(* With the threads' fairness it is also live: a queued task is started    *)
(* whenever some worker is idle, so no task waits beside a sleeping worker.*)
ImplementsFairDispatch == Dispatch!FairSpec
=============================================================================
