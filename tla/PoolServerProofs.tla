-------------------------- MODULE PoolServerProofs --------------------------
(***************************************************************************)
(* What the thread pool guarantees for any finite number of workers and    *)
(* any set of tasks, and the echo server on it for any clients,            *)
(* descriptors, lines and cuts of the streams.                             *)
(*                                                                         *)
(* The pool: the mutex has one owner and its owner is the thread that is   *)
(* between lock and unlock (LockOwner), so no other thread changes the     *)
(* queue between a worker's test and its pop (PopHasTask). On this rest    *)
(* the accounting of wake-ups, of tasks, and the refinement.               *)
(*                                                                         *)
(* The server: its threads use the pool as ThreadPool describes it, so the *)
(* theorems about the pool hold in it. A descriptor keeps its meaning from *)
(* accept to close, so the server hangs up on nobody; a connection is in   *)
(* one worker's hands, so what is in transit of a client is a stretch of   *)
(* its own stream (StreamInv), so that the whole is an echo service (the   *)
(* Moves lemmas); and where one read takes a whole line, a client has at   *)
(* most one line in transit (QuietInv), so no write meets a connection     *)
(* that has been reset.                                                    *)
(***************************************************************************)
EXTENDS PoolServer, TLAPS, FiniteSetTheorems, SequenceTheorems

(* The pool: what every step of every thread keeps.                        *)
Inv == /\ TypeOK
       /\ LockOwner
       /\ HandsFull
       /\ PopHasTask

(* Initially nothing is queued, held or run.                               *)
LEMMA InitInv == Init => Inv
BY PoolAssumption
   DEF Init, Inv, TypeOK, LockOwner, HandsFull, PopHasTask, WorkerPC, MainPC,
       WorkerHolds, MainHolds

(* Every step of every thread preserves types, the ownership of the mutex, *)
(* the whereabouts of task copies, and that a pop finds a task.            *)
LEMMA NextInv == Inv /\ [Next]_poolVars => Inv'
<1> SUFFICES ASSUME Inv, [Next]_poolVars PROVE Inv'
  OBVIOUS
<1> USE PoolAssumption DEF Inv, TypeOK, LockOwner, HandsFull, PopHasTask, WorkerPC,
        MainPC, WorkerHolds, MainHolds, Goto, history, workerVars
<1>1. ASSUME NEW w \in Workers, Lock(w) PROVE Inv'
  BY <1>1 DEF Lock
<1>2. ASSUME NEW w \in Workers, TestEmpty(w) PROVE Inv'
  BY <1>2 DEF TestEmpty
<1>3. ASSUME NEW w \in Workers, CondWait(w) PROVE Inv'
  BY <1>3 DEF CondWait
<1>4. ASSUME NEW w \in Workers, SpuriousWakeup(w) PROVE Inv'
  BY <1>4 DEF SpuriousWakeup
<1>5. ASSUME NEW w \in Workers, Relock(w) PROVE Inv'
  BY <1>5 DEF Relock
<1>6. ASSUME NEW w \in Workers, Pop(w) PROVE Inv'
  BY <1>6 DEF Pop
<1>7. ASSUME NEW w \in Workers, Unlock(w) PROVE Inv'
  BY <1>7 DEF Unlock
<1>8. ASSUME NEW w \in Workers, Finish(w) PROVE Inv'
  BY <1>8 DEF Finish
<1>9. ASSUME NEW w \in Workers, StartWorker(w) PROVE Inv'
  BY <1>9 DEF StartWorker
<1>10. ASSUME NEW t \in Tasks, PushCall(t) PROVE Inv'
  BY <1>10 DEF PushCall
<1>11. CASE PushLock
  BY <1>11 DEF PushLock
<1>12. CASE PushEnqueue
  BY <1>12 DEF PushEnqueue
<1>13. CASE PushSignal
  BY <1>13 DEF PushSignal, Asleep
<1>14. CASE PushUnlock
  BY <1>14 DEF PushUnlock
<1>15. CASE UNCHANGED poolVars
  BY <1>15 DEF poolVars
<1> QED
  BY <1>1, <1>2, <1>3, <1>4, <1>5, <1>6, <1>7, <1>8, <1>9, <1>10, <1>11, <1>12,
     <1>13, <1>14, <1>15
     DEF Next, PoolNext, PoolWorkerStep, PushStep

(* The state is well typed in every reachable state, the mutex is owned by *)
(* the thread inside its critical section, and pop never meets an empty    *)
(* queue.                                                                  *)
THEOREM PoolInvariant == Spec => []Inv
<1>1. Init => Inv
  BY InitInv
<1>2. Inv /\ [Next]_poolVars => Inv'
  BY NextInv
<1> QED
  BY <1>1, <1>2, PTL DEF Spec

(* The state is well typed, for any workers and any tasks.                 *)
THEOREM TypeCorrect == Spec => []TypeOK
<1>1. Inv => TypeOK
  BY DEF Inv
<1> QED
  BY <1>1, PoolInvariant, PTL

(* _task_queue.front() is never evaluated on an empty queue.               *)
THEOREM PopSafe == Spec => []PopHasTask
<1>1. Inv => PopHasTask
  BY DEF Inv
<1> QED
  BY <1>1, PoolInvariant, PTL
-----------------------------------------------------------------------------
(* No lost wake-up: an account of the workers on their way to the queue.   *)

OnTheWay == {"lock", "woken", "test", "pop"}

(* How many workers are on their way is a number.                          *)
LEMMA ComingFinite == /\ IsFiniteSet(Coming)
                      /\ Cardinality(Coming) \in Nat
<1>1. Coming \in SUBSET Workers
  BY DEF Coming
<1>2. IsFiniteSet(Coming)
  BY <1>1, FS_Subset, PoolAssumption
<1> QED
  BY <1>2, FS_CardinalityType

(* A worker that sets out is one more on its way.                          *)
LEMMA SetsOut == ASSUME NEW w \in Workers, NEW l \in OnTheWay,
                        wpc \in [Workers -> WorkerPC],
                        wpc[w] \notin OnTheWay, Goto(w, l)
                 PROVE  Cardinality(Coming') = Cardinality(Coming) + 1
<1>1. Coming' = Coming \cup {w}
  BY DEF Coming, Goto, OnTheWay
<1>2. w \notin Coming
  BY DEF Coming, OnTheWay
<1> QED
  BY <1>1, <1>2, ComingFinite, FS_AddElement

(* A worker that got a task, or goes to sleep, is one less.                *)
LEMMA Arrives == ASSUME NEW w \in Workers, NEW l,
                        wpc \in [Workers -> WorkerPC],
                        wpc[w] \in OnTheWay, l \notin OnTheWay, Goto(w, l)
                 PROVE  Cardinality(Coming') = Cardinality(Coming) - 1
<1>1. Coming' = Coming \ {w}
  BY DEF Coming, Goto, OnTheWay
<1>2. w \in Coming
  BY DEF Coming, OnTheWay
<1> QED
  BY <1>1, <1>2, ComingFinite, FS_RemoveElement

(* Nothing changes while it takes the mutex or tests the queue.            *)
LEMMA GoesOn == ASSUME NEW w \in Workers, NEW l,
                       wpc \in [Workers -> WorkerPC],
                       wpc[w] \in OnTheWay <=> l \in OnTheWay, Goto(w, l)
                PROVE  Coming' = Coming
BY DEF Coming, Goto, OnTheWay

(* The account stays covered in every step. A worker falls asleep only on  *)
(* an empty queue, push adds a task together with a signal, the signal     *)
(* sends out a sleeper whenever there is one, and a worker leaves the      *)
(* account only with a task.                                               *)
LEMMA SignalNext == Inv /\ SignalCoversBacklog /\ [Next]_poolVars => SignalCoversBacklog'
<1> SUFFICES ASSUME Inv, SignalCoversBacklog, [Next]_poolVars, Asleep' # {}
             PROVE  Len(queue') <= Cardinality(Coming') + PendingSignal'
  BY DEF SignalCoversBacklog
<1> DEFINE Goal == Len(queue') <= Cardinality(Coming') + PendingSignal'
<1> HIDE DEF Goal
<1>a. /\ wpc \in [Workers -> WorkerPC]
      /\ queue \in Seq(Tasks)
      /\ Len(queue) \in Nat
      /\ PendingSignal \in {0, 1}
      /\ Cardinality(Coming) \in Nat
  BY ComingFinite DEF Inv, TypeOK, PendingSignal
<1>b. Asleep # {} => Len(queue) <= Cardinality(Coming) + PendingSignal
  BY DEF SignalCoversBacklog
<1>c. ASSUME UNCHANGED queue, UNCHANGED mpc, Coming' = Coming, Asleep # {} PROVE Goal
  BY <1>b, <1>c DEF Goal, PendingSignal
<1>1. ASSUME NEW w \in Workers, Lock(w) PROVE Goal
  <2>1. Coming' = Coming /\ Asleep' = Asleep
    BY <1>a, <1>1, GoesOn DEF Lock, OnTheWay, Asleep, Goto
  <2> QED
    BY <1>1, <1>c, <2>1 DEF Lock
<1>2. ASSUME NEW w \in Workers, TestEmpty(w) PROVE Goal
  <2>1. CASE queue = <<>>
    <3>1. Cardinality(Coming') = Cardinality(Coming) - 1 /\ Cardinality(Coming') \in Nat
      <4>1. IsFiniteSet(Coming')
        BY FS_Subset, PoolAssumption DEF Coming
      <4> QED
        BY <1>a, <1>2, <2>1, <4>1, Arrives, FS_CardinalityType DEF TestEmpty, OnTheWay
    <3> QED
      BY <1>a, <1>2, <2>1, <3>1 DEF TestEmpty, Goal, PendingSignal
  <2>2. CASE queue # <<>>
    <3>1. Coming' = Coming /\ Asleep' = Asleep
      BY <1>a, <1>2, <2>2, GoesOn DEF TestEmpty, OnTheWay, Asleep, Goto
    <3> QED
      BY <1>2, <1>c, <3>1 DEF TestEmpty
  <2> QED
    BY <2>1, <2>2
<1>3. ASSUME NEW w \in Workers, CondWait(w) PROVE Goal
  <2>1. queue = <<>>
    BY <1>3 DEF CondWait, Inv, PopHasTask
  <2>2. Coming' = Coming
    BY <1>a, <1>3, GoesOn DEF CondWait, OnTheWay
  <2> QED
    BY <1>a, <1>3, <2>1, <2>2 DEF CondWait, Goal, PendingSignal
<1>4. ASSUME NEW w \in Workers, SpuriousWakeup(w) PROVE Goal
  <2>1. Cardinality(Coming') = Cardinality(Coming) + 1
    BY <1>a, <1>4, SetsOut DEF SpuriousWakeup, OnTheWay
  <2>2. Asleep # {}
    BY <1>4 DEF SpuriousWakeup, Asleep
  <2> QED
    BY <1>a, <1>b, <1>4, <2>1, <2>2 DEF SpuriousWakeup, Goal, PendingSignal
<1>5. ASSUME NEW w \in Workers, Relock(w) PROVE Goal
  <2>1. Coming' = Coming /\ Asleep' = Asleep
    BY <1>a, <1>5, GoesOn DEF Relock, OnTheWay, Asleep, Goto
  <2> QED
    BY <1>5, <1>c, <2>1 DEF Relock
<1>6. ASSUME NEW w \in Workers, Pop(w) PROVE Goal
  <2>1. Cardinality(Coming') = Cardinality(Coming) - 1
    BY <1>a, <1>6, Arrives DEF Pop, OnTheWay
  <2>2. Asleep' = Asleep
    BY <1>a, <1>6 DEF Pop, Asleep, Goto
  <2>3. Len(queue') = Len(queue) - 1
    BY <1>a, <1>6 DEF Pop, Inv, PopHasTask
  <2>4. PendingSignal' = PendingSignal /\ Len(queue') \in Int
    BY <1>a, <1>6, <2>3 DEF Pop, PendingSignal
  <2> QED
    BY <1>a, <1>b, <2>1, <2>2, <2>3, <2>4 DEF Goal
<1>7. ASSUME NEW w \in Workers, Unlock(w) PROVE Goal
  <2>1. Coming' = Coming /\ Asleep' = Asleep
    BY <1>a, <1>7, GoesOn DEF Unlock, OnTheWay, Asleep, Goto
  <2> QED
    BY <1>7, <1>c, <2>1 DEF Unlock
<1>8. ASSUME NEW w \in Workers, Finish(w) PROVE Goal
  <2>1. Cardinality(Coming') = Cardinality(Coming) + 1
    BY <1>a, <1>8, SetsOut DEF Finish, OnTheWay
  <2>2. Asleep' = Asleep
    BY <1>a, <1>8 DEF Finish, Asleep, Goto
  <2> QED
    BY <1>a, <1>b, <1>8, <2>1, <2>2 DEF Finish, Goal, PendingSignal
<1>9. ASSUME NEW w \in Workers, StartWorker(w) PROVE Goal
  <2>1. Cardinality(Coming') = Cardinality(Coming) + 1
    BY <1>a, <1>9, SetsOut DEF StartWorker, OnTheWay
  <2>2. Asleep' = Asleep
    BY <1>a, <1>9 DEF StartWorker, Asleep, Goto
  <2> QED
    BY <1>a, <1>b, <1>9, <2>1, <2>2 DEF StartWorker, Goal, PendingSignal
<1>10. ASSUME NEW t \in Tasks, PushCall(t) PROVE Goal
  <2>1. Coming' = Coming /\ Asleep' = Asleep
    BY <1>10 DEF PushCall, Coming, Asleep, workerVars
  <2> QED
    BY <1>a, <1>b, <1>10, <2>1 DEF PushCall, Goal, PendingSignal
<1>11. ASSUME PushLock \/ PushUnlock PROVE Goal
  <2>1. Coming' = Coming /\ Asleep' = Asleep
    BY <1>11 DEF PushLock, PushUnlock, Coming, Asleep, workerVars
  <2> QED
    BY <1>a, <1>b, <1>11, <2>1 DEF PushLock, PushUnlock, Goal, PendingSignal
<1>12. CASE PushEnqueue
  <2>1. Coming' = Coming /\ Asleep' = Asleep
    BY <1>12 DEF PushEnqueue, Coming, Asleep, workerVars
  <2>2. Len(queue') = Len(queue) + 1
    BY <1>a, <1>12 DEF PushEnqueue, Inv, TypeOK
  <2> QED
    BY <1>a, <1>b, <1>12, <2>1, <2>2 DEF PushEnqueue, Goal, PendingSignal
<1>13. CASE PushSignal
  <2>1. CASE Asleep = {}
    BY <1>13, <2>1 DEF PushSignal, Asleep
  <2>2. CASE Asleep # {}
    <3>1. PICK w \in Asleep : Goto(w, "woken")
      BY <1>13, <2>2 DEF PushSignal
    <3>2. Cardinality(Coming') = Cardinality(Coming) + 1
      BY <1>a, <3>1, SetsOut DEF Asleep, OnTheWay
    <3> QED
      BY <1>a, <1>b, <1>13, <2>2, <3>2 DEF PushSignal, Goal, PendingSignal
  <2> QED
    BY <2>1, <2>2
<1>14. CASE UNCHANGED poolVars
  BY <1>14, <1>c DEF poolVars, Coming, Asleep, Goal
<1> QED
  BY <1>1, <1>2, <1>3, <1>4, <1>5, <1>6, <1>7, <1>8, <1>9, <1>10, <1>11, <1>12,
     <1>13, <1>14
     DEF Next, PoolNext, PoolWorkerStep, PushStep, Goal

(* As long as a worker sleeps, each queued task has a worker on its way to *)
(* it or the signal of its push still to come.                             *)
THEOREM NoLostWakeup == Spec => []SignalCoversBacklog
<1>1. Init => SignalCoversBacklog
  BY DEF Init, SignalCoversBacklog, Asleep
<1>2. Inv /\ SignalCoversBacklog /\ [Next]_poolVars => SignalCoversBacklog'
  BY SignalNext
<1> QED
  BY <1>1, <1>2, PoolInvariant, PTL DEF Spec
-----------------------------------------------------------------------------
(* Exactly once: the account of tasks.                                     *)

(* Most steps move no task.                                                *)
LEMMA TasksStay == ExactlyOnce /\ UNCHANGED <<queue, wtask, arg, submitted, done>>
                     => ExactlyOnce'
BY DEF ExactlyOnce, Queued, Running, Arriving

(* push is called with a task that is nowhere yet.                         *)
LEMMA PushCallOnce == ASSUME Inv, ExactlyOnce, NEW t \in Tasks, PushCall(t)
                      PROVE  ExactlyOnce'
<1>1. arg = NoTask /\ Arriving = {}
  BY DEF Inv, HandsFull, PushCall, Arriving
<1>2. Arriving' = {t}
  BY PoolAssumption DEF PushCall, Arriving
<1>3. UNCHANGED <<queue, wtask, done, Queued, Running>>
  BY DEF PushCall, workerVars, Queued, Running
<1>4. submitted' = submitted \cup {t} /\ t \notin submitted
  BY DEF PushCall
<1> QED
  BY <1>1, <1>2, <1>3, <1>4 DEF ExactlyOnce

(* It becomes the last of the queue, and only that.                        *)
LEMMA PushEnqueueOnce == ASSUME Inv, ExactlyOnce, PushEnqueue
                         PROVE  ExactlyOnce'
<1>1. arg # NoTask /\ Arriving = {arg} /\ arg \notin Queued
  BY DEF Inv, HandsFull, PushEnqueue, Arriving, ExactlyOnce
<1>2. /\ Len(queue') = Len(queue) + 1
      /\ Len(queue) \in Nat
      /\ DOMAIN queue = 1 .. Len(queue)
      /\ DOMAIN queue' = 1 .. (Len(queue) + 1)
      /\ \A i \in DOMAIN queue : queue'[i] = queue[i]
      /\ queue'[Len(queue) + 1] = arg
  BY DEF Inv, TypeOK, PushEnqueue
<1>3. DOMAIN queue' = DOMAIN queue \cup {Len(queue) + 1}
  BY <1>2
<1>4. Queued' = Queued \cup {arg}
  BY <1>2, <1>3 DEF Queued
<1>5. \A i, j \in DOMAIN queue' : queue'[i] = queue'[j] => i = j
  BY <1>1, <1>2, <1>3 DEF Queued, ExactlyOnce
<1>6. Arriving' = {}
  BY DEF PushEnqueue, Arriving
<1>7. UNCHANGED <<wtask, done, submitted, Running>>
  BY DEF PushEnqueue, workerVars, history, Running
<1> QED
  BY <1>1, <1>4, <1>5, <1>6, <1>7 DEF ExactlyOnce

(* pop takes the front out of the queue into the hands of one worker.      *)
LEMMA PopOnce == ASSUME Inv, ExactlyOnce, NEW w \in Workers, Pop(w)
                 PROVE  ExactlyOnce'
<1>1. /\ queue # <<>>
      /\ wtask[w] = NoTask
      /\ wtask \in [Workers -> Tasks \cup {NoTask}]
  BY DEF Inv, TypeOK, PopHasTask, HandsFull, Pop
<1>2. /\ Len(queue) \in Nat \ {0}
      /\ DOMAIN queue = 1 .. Len(queue)
      /\ DOMAIN queue' = 1 .. (Len(queue) - 1)
      /\ \A i \in DOMAIN queue' : i + 1 \in DOMAIN queue /\ queue'[i] = queue[i + 1]
      /\ Head(queue) = queue[1]
      /\ queue[1] \in Tasks
  BY <1>1 DEF Inv, TypeOK, Pop
<1>3. \A i \in DOMAIN queue \ {1} : i - 1 \in DOMAIN queue' /\ queue'[i - 1] = queue[i]
  BY <1>2
<1>4. queue[1] \in Queued /\ Queued' = Queued \ {queue[1]}
  <2>1. \A i \in DOMAIN queue : queue[i] = queue[1] => i = 1
    BY <1>2 DEF ExactlyOnce
  <2>2. Queued' \subseteq Queued \ {queue[1]}
    BY <1>2, <2>1 DEF Queued
  <2>3. Queued \ {queue[1]} \subseteq Queued'
    BY <1>2, <1>3, <2>1 DEF Queued
  <2>4. queue[1] \in Queued
    BY <1>2 DEF Queued
  <2> QED
    BY <2>2, <2>3, <2>4
<1>5. wtask' = [wtask EXCEPT ![w] = queue[1]]
  BY <1>2 DEF Pop
<1>6. Running' = Running \cup {queue[1]}
  BY <1>1, <1>2, <1>5, PoolAssumption DEF Running
<1>7. \A i, j \in DOMAIN queue' : queue'[i] = queue'[j] => i = j
  BY <1>2 DEF ExactlyOnce
<1>8. \A u, v \in Workers : wtask'[u] = wtask'[v] /\ u # v => wtask'[u] = NoTask
  BY <1>1, <1>4, <1>5, PoolAssumption DEF ExactlyOnce, Running
<1>9. UNCHANGED <<done, submitted, Arriving>>
  BY DEF Pop, history, Arriving
<1> QED
  BY <1>4, <1>6, <1>7, <1>8, <1>9 DEF ExactlyOnce

(* A task that returns leaves the hands of its worker.                     *)
LEMMA FinishOnce == ASSUME Inv, ExactlyOnce, NEW w \in Workers, Finish(w)
                    PROVE  ExactlyOnce'
<1>1. /\ wtask[w] # NoTask
      /\ wtask \in [Workers -> Tasks \cup {NoTask}]
  BY DEF Inv, TypeOK, HandsFull, Finish
<1>2. wtask' = [wtask EXCEPT ![w] = NoTask] /\ done' = done \cup {wtask[w]}
  BY DEF Finish
<1>3. wtask[w] \in Running /\ Running' = Running \ {wtask[w]}
  BY <1>1, <1>2 DEF Running, ExactlyOnce
<1>4. \A u, v \in Workers : wtask'[u] = wtask'[v] /\ u # v => wtask'[u] = NoTask
  BY <1>1, <1>2 DEF ExactlyOnce
<1>5. UNCHANGED <<queue, submitted, Queued, Arriving>>
  BY DEF Finish, Queued, Arriving
<1> QED
  BY <1>2, <1>3, <1>4, <1>5 DEF ExactlyOnce

(* Every step preserves the account.                                       *)
LEMMA OnceNext == Inv /\ ExactlyOnce /\ [Next]_poolVars => ExactlyOnce'
<1> SUFFICES ASSUME Inv, ExactlyOnce, [Next]_poolVars PROVE ExactlyOnce'
  OBVIOUS
<1>1. ASSUME NEW w \in Workers,
             \/ Lock(w) \/ TestEmpty(w) \/ CondWait(w) \/ SpuriousWakeup(w)
             \/ Relock(w) \/ Unlock(w) \/ StartWorker(w)
      PROVE  ExactlyOnce'
  BY <1>1, TasksStay
     DEF Lock, TestEmpty, CondWait, SpuriousWakeup, Relock, Unlock, StartWorker, history
<1>2. ASSUME PushLock \/ PushSignal \/ PushUnlock \/ UNCHANGED poolVars
      PROVE  ExactlyOnce'
  BY <1>2, TasksStay
     DEF PushLock, PushSignal, PushUnlock, poolVars, workerVars, history
<1> QED
  BY <1>1, <1>2, PopOnce, FinishOnce, PushCallOnce, PushEnqueueOnce
     DEF Next, PoolNext, PoolWorkerStep, PushStep

(* Each task push is called with is in one place at any time, so it is not *)
(* lost and never run twice.                                               *)
THEOREM EveryTaskOnce == Spec => []ExactlyOnce
<1>1. Init => ExactlyOnce
  BY PoolAssumption DEF Init, ExactlyOnce, Queued, Running, Arriving
<1>2. Inv /\ ExactlyOnce /\ [Next]_poolVars => ExactlyOnce'
  BY OnceNext
<1> QED
  BY <1>1, <1>2, PoolInvariant, PTL DEF Spec
-----------------------------------------------------------------------------
(* Refinement. push submits when it enqueues, pop starts; every other step *)
(* of mutex, condition variable and main is a stutter of the dispatcher.   *)

(* Every step of the pool is a step of the dispatcher, or none.            *)
LEMMA DispatchNext ==
  Inv /\ ExactlyOnce /\ [Next]_poolVars => [Dispatch!Next]_(Dispatch!dvars)
<1> SUFFICES ASSUME Inv, ExactlyOnce, [Next]_poolVars
             PROVE  [Dispatch!Next]_(Dispatch!dvars)
  OBVIOUS
<1>1. ASSUME UNCHANGED <<queue, wtask, done>> PROVE [Dispatch!Next]_(Dispatch!dvars)
  BY <1>1 DEF Dispatch!dvars
<1>2. ASSUME NEW w \in Workers,
             \/ Lock(w) \/ TestEmpty(w) \/ CondWait(w) \/ SpuriousWakeup(w)
             \/ Relock(w) \/ Unlock(w) \/ StartWorker(w)
      PROVE  UNCHANGED <<queue, wtask, done>>
  BY <1>2 DEF Lock, TestEmpty, CondWait, SpuriousWakeup, Relock, Unlock, StartWorker, history
<1>3. ASSUME \/ PushLock \/ PushSignal \/ PushUnlock \/ UNCHANGED poolVars
             \/ \E t \in Tasks : PushCall(t)
      PROVE  UNCHANGED <<queue, wtask, done>>
  BY <1>3 DEF PushLock, PushSignal, PushUnlock, PushCall, poolVars, workerVars, history
<1>4. ASSUME NEW w \in Workers, Pop(w) PROVE Dispatch!Next
  <2>1. queue # <<>> /\ wtask[w] = NoTask
    BY <1>4 DEF Inv, PopHasTask, HandsFull, Pop
  <2>2. Dispatch!Start(w)
    BY <1>4, <2>1 DEF Pop, Dispatch!Start, history
  <2> QED
    BY <2>2 DEF Dispatch!Next
<1>5. ASSUME NEW w \in Workers, Finish(w) PROVE Dispatch!Next
  <2>1. wtask[w] # NoTask
    BY <1>5 DEF Inv, HandsFull, Finish
  <2>2. Dispatch!Finish(w)
    BY <1>5, <2>1 DEF Finish, Dispatch!Finish
  <2> QED
    BY <2>2 DEF Dispatch!Next
<1>6. CASE PushEnqueue
  <2>1. arg \in Tasks /\ arg # NoTask
    BY <1>6, PoolAssumption DEF Inv, TypeOK, HandsFull, PushEnqueue
  <2>2. arg \notin Queued \cup Running \cup done
    BY <2>1 DEF ExactlyOnce, Arriving
  <2>3. ~Dispatch!Known(arg)
    BY <2>1, <2>2 DEF Dispatch!Known, Queued, Running
  <2>4. Dispatch!Submit(arg)
    BY <1>6, <2>3 DEF PushEnqueue, Dispatch!Submit, workerVars, history
  <2> QED
    BY <2>1, <2>4 DEF Dispatch!Next
<1> QED
  BY <1>1, <1>2, <1>3, <1>4, <1>5, <1>6
     DEF Next, PoolNext, PoolWorkerStep, PushStep

(* The pool is a first-in first-out dispatcher that starts each task once, *)
(* on one worker, whatever the interleaving of its threads.                *)
THEOREM PoolImplementsDispatch == Spec => ImplementsDispatch
<1>1. Init => Dispatch!Init
  BY DEF Init, Dispatch!Init
<1>2. Inv /\ ExactlyOnce /\ [Next]_poolVars => [Dispatch!Next]_(Dispatch!dvars)
  BY DispatchNext
<1> QED
  BY <1>1, <1>2, PoolInvariant, EveryTaskOnce, PTL
     DEF Spec, ImplementsDispatch, Dispatch!Spec
-----------------------------------------------------------------------------
(* The server.                                                             *)

(* The types the argument needs, and where workers can be in socketIO.     *)
IOInv == /\ fdtab \in [Fds -> Clients \cup {Free}]
         /\ backlog \in Seq(Clients)
         /\ io \in [Workers -> {"read", "write", "close", "back"}]
         /\ peer \in [Clients -> {"open", "fin", "rst"}]
         /\ cst \in [Clients -> {"new", "ready", "await", "ended"}]
         /\ \A c \in Clients : peer[c] # "open" => cst[c] = "ended"
         /\ \A w \in Workers : io[w] # "read" => wpc[w] = "run"

(* A worker that has left the loop of socketIO has seen the client's end.  *)
SawEnd == \A w \in Workers : io[w] = "close" => cst[wtask[w][2]] = "ended"

ServerInv == /\ Inv
             /\ ExactlyOnce
             /\ IOInv
             /\ FdOwned
             /\ SawEnd
-----------------------------------------------------------------------------
(* The steps of the server, sorted by what they do to the pool.            *)

(* A step of a client touches no thread.                                   *)
LEMMA ClientKeeps == ASSUME NEW c \in Clients, ClientStep(c)
                     PROVE  UNCHANGED <<poolVars, fdtab, io>>
BY DEF ClientStep, Connect, Send, Receive, Kill, Disconnected, Hangup, serverVars, ioVars

(* What accept returns is a task the pool accepts.                         *)
LEMMA AcceptPushes == ASSUME IOInv, NEW f \in Fds, Accept(f)
                      PROVE  /\ Head(backlog) \in Clients
                             /\ <<f, Head(backlog)>> \in Tasks
                             /\ PushCall(<<f, Head(backlog)>>)
BY ServerAssumption DEF IOInv, Accept

(* Every step of the server is a step of the pool, or none.                *)
LEMMA ServerPool == IOInv /\ [ServerNext]_vars => [Next]_poolVars
<1> SUFFICES ASSUME IOInv, [ServerNext]_vars PROVE [Next]_poolVars
  OBVIOUS
<1>1. CASE PoolStep
  BY <1>1 DEF PoolStep, Next
<1>2. ASSUME NEW f \in Fds, Accept(f) PROVE [Next]_poolVars
  BY <1>2, AcceptPushes DEF Next
<1>3. ASSUME NEW w \in Workers, SocketIO(w) PROVE [Next]_poolVars
  <2>1. CASE Return(w)
    BY <2>1 DEF Return, Next
  <2>2. CASE ~Return(w)
    BY <1>3, <2>2
       DEF SocketIO, ReadData, ReadEnds, WriteOpen, WriteClosed, WriteReset, CloseSocket
  <2> QED
    BY <2>1, <2>2
<1>4. ASSUME NEW c \in Clients, ClientStep(c) PROVE [Next]_poolVars
  BY <1>4, ClientKeeps
<1>5. CASE UNCHANGED vars
  BY <1>5 DEF vars
<1> QED
  BY <1>1, <1>2, <1>3, <1>4, <1>5 DEF ServerNext, ServerStep
-----------------------------------------------------------------------------
(* Types and places.                                                       *)

(* Initially the types are right and no worker is in socketIO.             *)
LEMMA IOInit == ServerInit => IOInv
BY DEF ServerInit, IOInv

(* Every step leaves them right, and workers in socketIO run a task.       *)
LEMMA IONext == Inv /\ IOInv /\ [ServerNext]_vars => IOInv'
<1> SUFFICES ASSUME Inv, IOInv, [ServerNext]_vars PROVE IOInv'
  OBVIOUS
<1> USE DEF IOInv, ioVars, netVars, clientVars, serverVars
<1>1. CASE PoolStep
  <2>1. \A w \in Workers : wpc[w] = "run" => wpc'[w] = "run"
    BY <1>1 DEF PoolStep, PoolNext, PoolWorkerStep, PushStep, Lock, TestEmpty, CondWait,
       SpuriousWakeup, Relock, Pop, Unlock, StartWorker, PushLock, PushEnqueue,
       PushSignal, PushUnlock, Asleep, Goto, workerVars, Inv, TypeOK
  <2> QED
    BY <1>1, <2>1 DEF PoolStep
<1>2. ASSUME NEW f \in Fds, Accept(f) PROVE IOInv'
  <2>1. UNCHANGED <<io, peer, cst, wpc>> /\ backlog' \in Seq(Clients)
    BY <1>2 DEF Accept, PushCall, workerVars
  <2>2. fdtab' \in [Fds -> Clients \cup {Free}]
    BY <1>2, AcceptPushes DEF Accept
  <2> QED
    BY <2>1, <2>2
<1>3. ASSUME NEW w \in Workers, ReadData(w) \/ WriteOpen(w) \/ WriteReset(w) PROVE IOInv'
  BY <1>3 DEF ReadData, WriteOpen, WriteReset, InIO, IOGoto, poolVars
<1>4. ASSUME NEW w \in Workers, ReadEnds(w) \/ CloseSocket(w) PROVE IOInv'
  BY <1>4 DEF ReadEnds, CloseSocket, InIO, IOGoto, poolVars
<1>5. ASSUME NEW w \in Workers, WriteClosed(w) PROVE IOInv'
  BY <1>5 DEF WriteClosed, InIO, IOGoto, poolVars
<1>6. ASSUME NEW w \in Workers, Return(w) PROVE IOInv'
  BY <1>6 DEF Return, Finish, IOGoto, Goto, Inv, TypeOK
<1>7. ASSUME NEW c \in Clients, ClientStep(c) PROVE IOInv'
  <2>1. UNCHANGED <<fdtab, io, wpc>>
    BY <1>7, ClientKeeps DEF poolVars
  <2>2. backlog' \in Seq(Clients)
    <3>1. backlog' = backlog \/ backlog' = Append(backlog, c)
      BY <1>7 DEF ClientStep, Connect, Send, Receive, Kill, Disconnected, Hangup
    <3> QED
      BY <3>1
  <2>3. CASE Connect(c) \/ Send(c) \/ Receive(c)
    BY <2>1, <2>2, <2>3 DEF Connect, Send, Receive
  <2>4. CASE Kill(c) \/ Disconnected(c)
    BY <2>1, <2>2, <2>4 DEF Kill, Disconnected, Hangup
  <2> QED
    BY <1>7, <2>3, <2>4 DEF ClientStep
<1>8. CASE UNCHANGED vars
  BY <1>8 DEF vars, poolVars
<1> QED
  BY <1>1, <1>2, <1>3, <1>4, <1>5, <1>6, <1>7, <1>8
     DEF ServerNext, ServerStep, SocketIO
-----------------------------------------------------------------------------
(* Whatever the clients do, the threads of the server use the pool as the  *)
(* pool alone is described: the theorems about it are about the server.    *)
THEOREM ServerUsesPool == ServerSpec => Spec
<1>1. ServerInit => Init /\ Inv /\ IOInv
  BY InitInv, IOInit DEF ServerInit
<1>2. IOInv /\ [ServerNext]_vars => [Next]_poolVars
  BY ServerPool
<1>3. Inv /\ IOInv /\ [ServerNext]_vars => Inv' /\ IOInv'
  BY NextInv, ServerPool, IONext
<1> QED
  BY <1>1, <1>2, <1>3, PTL DEF ServerSpec, Spec
-----------------------------------------------------------------------------
(* Descriptors. OpenTasks changes in two places only: accept adds a task   *)
(* and close takes one away; in between tasks only move.                   *)

(* The part of OpenTasks that is in the hands of workers.                  *)
HeldOpen == {wtask[w] : w \in {v \in Workers : io[v] # "back"}} \ {NoTask}

(* Every open task is a descriptor with the connection it was made for.    *)
LEMMA OpenTyped == Inv => OpenTasks \subseteq Fds \X Clients
BY ServerAssumption DEF Inv, TypeOK, OpenTasks, Arriving, Queued

(* A task that is pushed or popped stays open.                             *)
LEMMA PoolKeepsOpen == ASSUME Inv, IOInv, PoolStep
                       PROVE  OpenTasks' = OpenTasks
<1> USE DEF PoolStep, ioVars
<1>1. ASSUME UNCHANGED <<queue, wtask, arg>> PROVE OpenTasks' = OpenTasks
  BY <1>1 DEF OpenTasks, Arriving, Queued
<1>2. CASE PushEnqueue
  <2>1. /\ Len(queue) \in Nat
        /\ DOMAIN queue = 1 .. Len(queue)
        /\ DOMAIN queue' = 1 .. (Len(queue) + 1)
        /\ \A i \in DOMAIN queue : queue'[i] = queue[i]
        /\ queue'[Len(queue) + 1] = arg
    BY <1>2 DEF Inv, TypeOK, PushEnqueue
  <2>2. Queued' = Queued \cup {arg}
    BY <2>1 DEF Queued
  <2>3. Arriving = {arg} /\ Arriving' = {}
    BY <1>2 DEF Inv, HandsFull, PushEnqueue, Arriving
  <2>4. UNCHANGED HeldOpen
    BY <1>2 DEF PushEnqueue, HeldOpen, workerVars
  <2> QED
    BY <2>2, <2>3, <2>4 DEF OpenTasks, HeldOpen
<1>3. ASSUME NEW w \in Workers, Pop(w) PROVE OpenTasks' = OpenTasks
  <2>1. /\ queue # <<>>
        /\ wtask[w] = NoTask
        /\ wtask \in [Workers -> Tasks \cup {NoTask}]
        /\ io[w] # "back"
    BY <1>3 DEF Inv, TypeOK, PopHasTask, HandsFull, Pop, IOInv
  <2>2. /\ Len(queue) \in Nat \ {0}
        /\ DOMAIN queue = 1 .. Len(queue)
        /\ DOMAIN queue' = 1 .. (Len(queue) - 1)
        /\ \A i \in DOMAIN queue' : i + 1 \in DOMAIN queue /\ queue'[i] = queue[i + 1]
        /\ Head(queue) = queue[1]
        /\ queue[1] \in Tasks
    BY <1>3, <2>1 DEF Inv, TypeOK, Pop
  <2>3. \A i \in DOMAIN queue \ {1} : i - 1 \in DOMAIN queue' /\ queue'[i - 1] = queue[i]
    BY <2>2
  <2>4. Queued = Queued' \cup {queue[1]}
    BY <2>2, <2>3 DEF Queued
  <2>5. HeldOpen' = HeldOpen \cup {queue[1]}
    BY <1>3, <2>1, <2>2, PoolAssumption DEF Pop, HeldOpen
  <2>6. UNCHANGED Arriving
    BY <1>3 DEF Pop, Arriving
  <2> QED
    BY <2>4, <2>5, <2>6 DEF OpenTasks, HeldOpen
<1> QED
  BY <1>1, <1>2, <1>3
     DEF PoolNext, PoolWorkerStep, PushStep, Lock, TestEmpty, CondWait, SpuriousWakeup,
         Relock, Unlock, StartWorker, PushLock, PushSignal, PushUnlock, workerVars, history

(* accept opens one task, on a descriptor no open task has.                *)
LEMMA AcceptOpens == ASSUME Inv, IOInv, FdOwned, NEW f \in Fds, Accept(f)
                     PROVE  FdOwned'
<1> DEFINE t0 == <<f, Head(backlog)>>
<1>1. t0 \in Tasks /\ t0 # NoTask /\ t0[1] = f /\ t0[2] = Head(backlog)
      /\ Head(backlog) # Free
  BY AcceptPushes, PoolAssumption, ServerAssumption
<1>2. OpenTasks' = OpenTasks \cup {t0}
  <2>1. Arriving = {} /\ Arriving' = {t0}
    BY <1>1 DEF Inv, HandsFull, Accept, PushCall, Arriving
  <2>2. UNCHANGED <<Queued, HeldOpen>>
    BY DEF Accept, PushCall, workerVars, ioVars, Queued, HeldOpen
  <2> QED
    BY <2>1, <2>2 DEF OpenTasks, HeldOpen
<1>3. \A t \in OpenTasks : t[1] # f
  BY OpenTyped, ServerAssumption DEF FdOwned, Accept
<1>4. fdtab' = [fdtab EXCEPT ![f] = Head(backlog)] /\ fdtab \in [Fds -> Clients \cup {Free}]
  BY DEF Accept, IOInv
<1>5. \A t \in OpenTasks : t[1] \in Fds
  BY OpenTyped
<1>6. \A t \in OpenTasks' : fdtab'[t[1]] = t[2]
  BY <1>1, <1>2, <1>3, <1>4, <1>5 DEF FdOwned
<1>7. \A s, t \in OpenTasks' : s[1] = t[1] => s = t
  BY <1>1, <1>2, <1>3 DEF FdOwned
<1>8. \A g \in Fds : fdtab'[g] # Free => \E t \in OpenTasks' : t[1] = g
  BY <1>1, <1>2, <1>4 DEF FdOwned
<1> QED
  BY <1>6, <1>7, <1>8 DEF FdOwned

(* The task of a worker that is in socketIO, before its close, is open and *)
(* nobody else has it: its descriptor is the worker's own.                 *)
LEMMA WorkerOwns == ASSUME Inv, ExactlyOnce, IOInv, FdOwned, NEW w \in Workers,
                           wpc[w] = "run", io[w] # "back"
                    PROVE  /\ wtask[w] \in OpenTasks
                           /\ wtask[w][1] \in Fds
                           /\ wtask[w][2] \in Clients
                           /\ Conn(w) = wtask[w][2]
                           /\ wtask[w] \notin Arriving \cup Queued
                           /\ \A v \in Workers : wtask[v] = wtask[w] => v = w
<1>1. wtask[w] # NoTask
  BY DEF Inv, HandsFull
<1>2. wtask[w] \in OpenTasks /\ wtask[w] \in Running
  BY <1>1 DEF OpenTasks, Running
<1> QED
  BY <1>1, <1>2, OpenTyped DEF ExactlyOnce, FdOwned, Conn, Socket

(* close ends one task and frees its descriptor, which no other task has.  *)
LEMMA CloseEnds == ASSUME Inv, ExactlyOnce, IOInv, FdOwned, NEW w \in Workers, CloseSocket(w)
                   PROVE  FdOwned'
<1> DEFINE t0 == wtask[w]
<1>1. /\ t0 \in OpenTasks
      /\ t0[1] \in Fds
      /\ t0 \notin Arriving \cup Queued
      /\ \A v \in Workers : wtask[v] = t0 => v = w
  BY WorkerOwns DEF CloseSocket, InIO
<1>2. OpenTasks' = OpenTasks \ {t0}
  <2>1. HeldOpen' = HeldOpen \ {t0}
    BY <1>1 DEF CloseSocket, IOGoto, InIO, HeldOpen, poolVars, IOInv
  <2>2. UNCHANGED <<Queued, Arriving>>
    BY DEF CloseSocket, poolVars, Queued, Arriving
  <2> QED
    BY <1>1, <2>1, <2>2 DEF OpenTasks, HeldOpen
<1>3. fdtab' = [fdtab EXCEPT ![t0[1]] = Free] /\ fdtab \in [Fds -> Clients \cup {Free}]
  BY DEF CloseSocket, Socket, IOInv
<1>4. \A t \in OpenTasks : t[1] = t0[1] => t = t0
  BY <1>1 DEF FdOwned
<1>5. \A t \in OpenTasks' : fdtab'[t[1]] = t[2]
  BY <1>2, <1>3, <1>4, OpenTyped DEF FdOwned
<1>6. \A g \in Fds : fdtab'[g] # Free => \E t \in OpenTasks' : t[1] = g
  BY <1>1, <1>2, <1>3 DEF FdOwned
<1> QED
  BY <1>2, <1>5, <1>6 DEF FdOwned

(* All other steps keep both the open tasks and the descriptor table.      *)
LEMMA OthersKeep == ASSUME Inv, IOInv, FdOwned, OpenTasks' = OpenTasks, UNCHANGED fdtab
                    PROVE  FdOwned'
BY DEF FdOwned

(* A descriptor means the connection of the task that has it, in every     *)
(* step of the server.                                                     *)
LEMMA FdNext == Inv /\ ExactlyOnce /\ IOInv /\ FdOwned /\ [ServerNext]_vars => FdOwned'
<1> SUFFICES ASSUME Inv, ExactlyOnce, IOInv, FdOwned, [ServerNext]_vars PROVE FdOwned'
  OBVIOUS
<1>1. CASE PoolStep
  BY <1>1, PoolKeepsOpen, OthersKeep DEF PoolStep
<1>2. ASSUME NEW w \in Workers,
             ReadData(w) \/ ReadEnds(w) \/ WriteOpen(w) \/ WriteClosed(w) \/ WriteReset(w)
      PROVE  FdOwned'
  <2>1. {v \in Workers : io'[v] # "back"} = {v \in Workers : io[v] # "back"}
    BY <1>2 DEF ReadData, ReadEnds, WriteOpen, WriteClosed, WriteReset, InIO, IOGoto, IOInv
  <2>2. UNCHANGED <<poolVars, fdtab>>
    BY <1>2 DEF ReadData, ReadEnds, WriteOpen, WriteClosed, WriteReset
  <2> QED
    BY <2>1, <2>2, OthersKeep DEF poolVars, OpenTasks, Queued, Arriving
<1>3. ASSUME NEW w \in Workers, Return(w) PROVE FdOwned'
  <2>1. UNCHANGED <<queue, arg, fdtab>>
    BY <1>3 DEF Return, Finish
  <2>2. UNCHANGED HeldOpen
    BY <1>3 DEF Return, Finish, IOGoto, HeldOpen, Inv, TypeOK, IOInv
  <2> QED
    BY <2>1, <2>2, OthersKeep DEF OpenTasks, HeldOpen, Queued, Arriving
<1>4. ASSUME NEW c \in Clients, ClientStep(c) PROVE FdOwned'
  BY <1>4, ClientKeeps, OthersKeep DEF poolVars, OpenTasks, Queued, Arriving
<1>5. CASE UNCHANGED vars
  BY <1>5, OthersKeep DEF vars, ioVars, poolVars, OpenTasks, Queued, Arriving
<1> QED
  BY <1>1, <1>2, <1>3, <1>4, <1>5, AcceptOpens, CloseEnds
     DEF ServerNext, ServerStep, SocketIO
-----------------------------------------------------------------------------
(* The server hangs up last.                                               *)

(* Once a worker has seen the client's end, the client stays ended and the *)
(* worker keeps its task.                                                  *)
LEMMA SawEndNext == Inv /\ ExactlyOnce /\ IOInv /\ FdOwned /\ SawEnd /\ [ServerNext]_vars
                      => SawEnd'
<1> SUFFICES ASSUME Inv, ExactlyOnce, IOInv, FdOwned, SawEnd, [ServerNext]_vars,
                    NEW v \in Workers, io'[v] = "close"
             PROVE  cst'[wtask'[v][2]] = "ended"
  BY DEF SawEnd
<1> DEFINE Goal == cst'[wtask'[v][2]] = "ended"
<1> SUFFICES Goal
  OBVIOUS
<1> HIDE DEF Goal
<1>a. ASSUME io[v] = "close", wtask'[v] = wtask[v], cst' = cst PROVE Goal
  BY <1>a DEF SawEnd, Goal
<1>1. CASE PoolStep
  <2>1. UNCHANGED <<io, cst>> /\ wpc[v] = "run"
    BY <1>1 DEF PoolStep, ioVars, clientVars, IOInv
  <2>2. wtask'[v] = wtask[v]
    BY <1>1, <2>1
       DEF PoolStep, PoolNext, PoolWorkerStep, PushStep, Lock, TestEmpty, CondWait,
           SpuriousWakeup, Relock, Pop, Unlock, StartWorker, PushLock, PushEnqueue,
           PushSignal, PushUnlock, workerVars, Inv, TypeOK
  <2> QED
    BY <1>a, <2>1, <2>2
<1>2. ASSUME NEW f \in Fds, Accept(f) PROVE Goal
  BY <1>2, <1>a DEF Accept, PushCall, workerVars, ioVars, clientVars
<1>3. ASSUME NEW w \in Workers, ReadEnds(w) PROVE Goal
  <2>1. UNCHANGED <<wtask, cst>> /\ io' = [io EXCEPT ![w] = "close"]
    BY <1>3 DEF ReadEnds, IOGoto, poolVars, clientVars
  <2>2. CASE v = w
    <3>1. Conn(w) = wtask[w][2] /\ wtask[w][2] \in Clients
      BY <1>3, WorkerOwns DEF ReadEnds, InIO
    <3>2. cst[Conn(w)] = "ended"
      BY <1>3, <3>1 DEF ReadEnds, IOInv
    <3> QED
      BY <2>1, <2>2, <3>1, <3>2 DEF Goal
  <2> QED
    BY <1>a, <2>1, <2>2
<1>4. ASSUME NEW w \in Workers,
             \/ ReadData(w) \/ WriteOpen(w) \/ WriteClosed(w) \/ WriteReset(w) \/ CloseSocket(w)
      PROVE  Goal
  BY <1>4, <1>a DEF ReadData, WriteOpen, WriteClosed, WriteReset, CloseSocket, IOGoto, IOInv,
                    poolVars, clientVars
<1>5. ASSUME NEW w \in Workers, Return(w) PROVE Goal
  BY <1>5, <1>a DEF Return, Finish, IOGoto, IOInv, clientVars
<1>6. ASSUME NEW c \in Clients, ClientStep(c) PROVE Goal
  <2>1. UNCHANGED <<io, wtask>>
    BY <1>6, ClientKeeps DEF poolVars
  <2>2. \A d \in Clients : cst[d] = "ended" => cst'[d] = "ended"
    BY <1>6 DEF ClientStep, Connect, Send, Receive, Kill, Disconnected, Hangup, IOInv
  <2>3. wtask[v][2] \in Clients
    BY <2>1, WorkerOwns DEF IOInv
  <2> QED
    BY <2>1, <2>2, <2>3 DEF SawEnd, Goal
<1>7. CASE UNCHANGED vars
  BY <1>7, <1>a DEF vars, poolVars, ioVars, clientVars
<1> QED
  BY <1>1, <1>2, <1>3, <1>4, <1>5, <1>6, <1>7
     DEF ServerNext, ServerStep, SocketIO

(* The inductive invariant of the server.                                  *)
LEMMA ServerInvInit == ServerInit => ServerInv
<1> SUFFICES ASSUME ServerInit PROVE ServerInv
  OBVIOUS
<1>1. Inv /\ IOInv
  BY InitInv, IOInit DEF ServerInit
<1>2. ExactlyOnce /\ OpenTasks = {}
  BY PoolAssumption
     DEF ServerInit, Init, ExactlyOnce, OpenTasks, Queued, Running, Arriving
<1>3. FdOwned /\ SawEnd
  BY <1>2 DEF ServerInit, FdOwned, SawEnd
<1> QED
  BY <1>1, <1>2, <1>3 DEF ServerInv

(* Every step preserves it.                                                *)
LEMMA ServerInvNext == ServerInv /\ [ServerNext]_vars => ServerInv'
BY NextInv, OnceNext, ServerPool, IONext, FdNext, SawEndNext DEF ServerInv

(* A descriptor refers to the connection its task was made for until the   *)
(* worker closes it, and no two tasks share one.                           *)
THEOREM DescriptorsOwned == ServerSpec => []FdOwned
<1>1. ServerInv => FdOwned
  BY DEF ServerInv
<1> QED
  BY <1>1, ServerInvInit, ServerInvNext, PTL DEF ServerSpec

(* A connection is closed only after the client closed it: the descriptor  *)
(* that close takes is the worker's own, and it has seen that client's end.*)
THEOREM HangsUpLast == ServerSpec => NoEarlyClose
<1> DEFINE A == \A f \in Fds : fdtab[f] # Free /\ fdtab'[f] # fdtab[f]
                      => fdtab'[f] = Free /\ cst[fdtab[f]] = "ended"
<1>1. ServerInv /\ [ServerNext]_vars => [A]_vars
  <2> SUFFICES ASSUME ServerInv, ServerNext, NEW f \in Fds,
                      fdtab[f] # Free, fdtab'[f] # fdtab[f]
               PROVE  fdtab'[f] = Free /\ cst[fdtab[f]] = "ended"
    OBVIOUS
  <2>1. PICK w \in Workers : CloseSocket(w)
    <3>1. ASSUME NEW g \in Fds, Accept(g) PROVE FALSE
      BY <3>1 DEF Accept, ServerInv, IOInv
    <3> QED
      BY <3>1, ClientKeeps
         DEF ServerNext, ServerStep, PoolStep, SocketIO, ReadData, ReadEnds, WriteOpen,
             WriteClosed, WriteReset, Return
  <2>2. f = Socket(w) /\ fdtab'[f] = Free
    BY <2>1 DEF CloseSocket, ServerInv, IOInv
  <2>3. fdtab[f] = wtask[w][2] /\ cst[wtask[w][2]] = "ended"
    BY <2>1, <2>2, WorkerOwns DEF CloseSocket, InIO, Conn, ServerInv, SawEnd
  <2> QED
    BY <2>2, <2>3
<1> QED
  BY <1>1, ServerInvInit, ServerInvNext, PTL DEF ServerSpec, NoEarlyClose
-----------------------------------------------------------------------------
(* The byte streams. What a client sends is moved three times: by read from*)
(* up into the buffer of its worker, by write from there into down, by the *)
(* client out of down; the order is kept because a connection has one home *)
(* and hence one worker.                                                   *)

Stream == Seq(Clients \X Nat)

(* What is left of stream d when its first k units are taken.              *)
After(d, k) == SubSeq(d, k + 1, Len(d))

StreamTypes == /\ up \in [Clients -> Seq(Clients \X Nat)]
               /\ down \in [Clients -> Seq(Clients \X Nat)]
               /\ rbuf \in [Workers -> Seq(Clients \X Nat)]
               /\ sent \in [Clients -> Nat]
               /\ rcvd \in [Clients -> Nat]
               /\ \A c \in Clients : rcvd[c] <= sent[c]
               /\ \A c \in Clients : cst[c] = "ended" => peer[c] # "open"

(* A connection is in one place: a client that has not connected is        *)
(* nowhere, one that waits for accept has no descriptor and one place in   *)
(* the listen queue, and no two descriptors refer to one connection.       *)
OneHome ==
  /\ \A c \in Clients : cst[c] = "new" =>
       /\ \A f \in Fds : fdtab[f] # c
       /\ \A i \in DOMAIN backlog : backlog[i] # c
  /\ \A i \in DOMAIN backlog, f \in Fds : fdtab[f] # backlog[i]
  /\ \A i, j \in DOMAIN backlog : backlog[i] = backlog[j] => i = j
  /\ \A f, g \in Fds : fdtab[f] = fdtab[g] /\ fdtab[f] # Free => f = g

Writes(w, c) == InIO(w, "write") /\ wtask[w][2] = c

(* What a client has sent follows what was on its way.                     *)
LEMMA StretchGrows == ASSUME NEW c \in Clients, NEW a \in Nat, NEW n \in Nat, NEW m \in Nat
                      PROVE  Stretch(c, a, n) \o [i \in 1 .. m |-> <<c, a + n + i>>]
                               = Stretch(c, a, n + m)
<1> DEFINE U == Clients \X Nat
           s == Stretch(c, a, n)
           t == [i \in 1 .. m |-> <<c, a + n + i>>]
           r == Stretch(c, a, n + m)
           z == s \o t
<1> HIDE DEF s, t, r, z, U
<1>1. /\ s \in Seq(U) /\ Len(s) = n
      /\ \A i \in 1 .. n : s[i] = <<c, a + i>>
  BY DEF s, Stretch, U
<1>2. /\ t \in Seq(U) /\ Len(t) = m
      /\ \A i \in 1 .. m : t[i] = <<c, a + n + i>>
  BY DEF t, U
<1>3. /\ r \in Seq(U) /\ Len(r) = n + m
      /\ \A i \in 1 .. (n + m) : r[i] = <<c, a + i>>
  BY DEF r, Stretch, U
<1>4. /\ z \in Seq(U) /\ Len(z) = n + m
      /\ \A i \in 1 .. (n + m) : z[i] = IF i <= n THEN s[i] ELSE t[i - n]
  BY <1>1, <1>2, ConcatProperties DEF z
<1>5. ASSUME NEW i \in 1 .. (n + m) PROVE z[i] = r[i]
  <2>1. CASE i <= n
    <3>1. i \in 1 .. n
      BY <2>1
    <3>2. z[i] = s[i]
      BY <1>4, <2>1
    <3> QED
      BY <1>1, <1>3, <3>1, <3>2
  <2>2. CASE i > n
    <3>1. i - n \in 1 .. m /\ a + n + (i - n) = a + i
      BY <2>2
    <3>2. z[i] = t[i - n]
      BY <1>4, <2>2
    <3> QED
      BY <1>2, <1>3, <3>1, <3>2
  <2> QED
    BY <2>1, <2>2
<1>6. z = r
  BY <1>3, <1>4, <1>5, SeqEqual
<1> QED
  BY <1>6 DEF s, t, r, z

(* What a client receives is the beginning of what was on its way.         *)
LEMMA StretchShrinks == ASSUME NEW c \in Clients, NEW a \in Nat, NEW n \in Nat,
                               NEW d \in Stream, NEW r \in Stream,
                               d \o r = Stretch(c, a, n), NEW k \in 0 .. Len(d)
                        PROVE  /\ k <= n
                               /\ After(d, k) \o r = Stretch(c, a + k, n - k)
<1> DEFINE U == Clients \X Nat
           e == After(d, k)
           t == Stretch(c, a + k, n - k)
           x == d \o r
           y == e \o r
<1> HIDE DEF e, t, x, y, U
<1>1. d \in Seq(U) /\ r \in Seq(U) /\ Len(d) \in Nat /\ Len(r) \in Nat
  BY DEF U, Stream
<1>2. Len(x) = n /\ \A i \in 1 .. n : x[i] = <<c, a + i>>
  BY DEF x, Stretch
<1>3. /\ Len(x) = Len(d) + Len(r)
      /\ \A i \in 1 .. (Len(d) + Len(r)) : x[i] = IF i <= Len(d) THEN d[i] ELSE r[i - Len(d)]
  BY <1>1, ConcatProperties DEF x
<1>4. k <= n /\ n - k \in Nat /\ Len(d) - k \in Nat /\ (Len(d) - k) + Len(r) = n - k
  <2>1. Len(d) + Len(r) = n
    BY <1>2, <1>3
  <2> QED
    BY <1>1, <2>1
<1>5. e \in Seq(U) /\ Len(e) = Len(d) - k /\ \A i \in 1 .. (Len(d) - k) : e[i] = d[i + k]
  BY DEF e, After, U, Stream
<1>6. /\ t \in Seq(U) /\ Len(t) = n - k
      /\ \A i \in 1 .. (n - k) : t[i] = <<c, (a + k) + i>>
  BY <1>4 DEF t, Stretch, U
<1>7. /\ y \in Seq(U) /\ Len(y) = Len(e) + Len(r)
      /\ \A i \in 1 .. (Len(e) + Len(r)) : y[i] = IF i <= Len(e) THEN e[i] ELSE r[i - Len(e)]
  BY <1>1, <1>5, ConcatProperties DEF y
<1>8. ASSUME NEW i \in 1 .. (n - k) PROVE y[i] = t[i]
  <2>1. i + k \in 1 .. n /\ a + (i + k) = (a + k) + i
    BY <1>4
  <2>2. y[i] = IF i <= Len(d) - k THEN e[i] ELSE r[i - (Len(d) - k)]
    BY <1>4, <1>5, <1>7
  <2>3. x[i + k] = IF i + k <= Len(d) THEN d[i + k] ELSE r[(i + k) - Len(d)]
    BY <1>2, <1>3, <2>1
  <2>4. y[i] = x[i + k]
    <3>1. CASE i + k <= Len(d)
      BY <1>1, <1>5, <2>2, <2>3, <3>1
    <3>2. CASE ~(i + k <= Len(d))
      <4>1. (i + k) - Len(d) = i - (Len(d) - k) /\ ~(i <= Len(d) - k)
        BY <1>1, <3>2
      <4> QED
        BY <2>2, <2>3, <3>2, <4>1
    <3> QED
      BY <3>1, <3>2
  <2> QED
    BY <1>2, <1>6, <2>1, <2>4
<1>9. y = t
  BY <1>4, <1>5, <1>6, <1>7, <1>8, SeqEqual
<1> QED
  BY <1>4, <1>9 DEF e, t, y

(* Cutting a sequence in two loses nothing.                                *)
LEMMA CutInTwo == ASSUME NEW S, NEW s \in Seq(S), NEW k \in 0 .. Len(s)
                  PROVE  /\ SubSeq(s, 1, k) \in Seq(S)
                         /\ SubSeq(s, k + 1, Len(s)) \in Seq(S)
                         /\ Len(SubSeq(s, 1, k)) = k
                         /\ Len(SubSeq(s, k + 1, Len(s))) = Len(s) - k
                         /\ SubSeq(s, 1, k) \o SubSeq(s, k + 1, Len(s)) = s
<1> DEFINE p == SubSeq(s, 1, k)
           r == SubSeq(s, k + 1, Len(s))
<1> HIDE DEF p, r
<1>1. p \in Seq(S) /\ Len(p) = k /\ \A i \in 1 .. k : p[i] = s[i]
  BY DEF p
<1>2. r \in Seq(S) /\ Len(r) = Len(s) - k /\ \A i \in 1 .. Len(r) : r[i] = s[i + k]
  BY DEF r
<1>4. /\ p \o r \in Seq(S) /\ Len(p \o r) = Len(p) + Len(r)
      /\ \A i \in 1 .. Len(p) + Len(r) : (p \o r)[i] = IF i <= Len(p) THEN p[i] ELSE r[i - Len(p)]
  BY <1>1, <1>2, ConcatProperties
<1>6. Len(p) + Len(r) = Len(s)
  BY <1>1, <1>2
<1>3. ASSUME NEW i \in 1 .. Len(s) PROVE (p \o r)[i] = s[i]
  BY <1>1, <1>2, <1>4, <1>6
<1>5. p \o r = s
  BY <1>3, <1>4, <1>6, SeqEqual
<1> QED
  BY <1>1, <1>2, <1>5 DEF p, r

(* The parts of OneHome, for a step that leaves both tables alone.         *)
LEMMA HomeKept == ASSUME OneHome, UNCHANGED <<fdtab, backlog>>,
                         \A c \in Clients : cst'[c] = "new" => cst[c] = "new"
                  PROVE  OneHome'
BY DEF OneHome

(* accept moves the head of the listen queue to a free descriptor.         *)
LEMMA HomeAccept == ASSUME IOInv, OneHome, NEW f \in Fds, Accept(f) PROVE OneHome'
<1> DEFINE c0 == Head(backlog)
<1>1. /\ Len(backlog) \in Nat \ {0}
      /\ DOMAIN backlog = 1 .. Len(backlog)
      /\ DOMAIN backlog' = 1 .. (Len(backlog) - 1)
      /\ \A i \in DOMAIN backlog' : i + 1 \in DOMAIN backlog /\ backlog'[i] = backlog[i + 1]
      /\ c0 = backlog[1] /\ 1 \in DOMAIN backlog
      /\ c0 \in Clients
  BY DEF IOInv, Accept
<1>2. /\ fdtab' = [fdtab EXCEPT ![f] = c0]
      /\ fdtab \in [Fds -> Clients \cup {Free}]
      /\ cst' = cst
  BY DEF IOInv, Accept, clientVars
<1>3. \A i \in DOMAIN backlog' : backlog'[i] # c0
  <2> TAKE i \in DOMAIN backlog'
  <2>1. i + 1 \in DOMAIN backlog /\ i + 1 # 1
    BY <1>1
  <2> QED
    BY <1>1, <2>1 DEF OneHome
<1>4. \A g \in Fds : fdtab[g] # c0
  BY <1>1 DEF OneHome
<1>5. \A c \in Clients : cst'[c] = "new" =>
        /\ \A g \in Fds : fdtab'[g] # c
        /\ \A i \in DOMAIN backlog' : backlog'[i] # c
  <2> SUFFICES ASSUME NEW c \in Clients, cst[c] = "new"
               PROVE  /\ \A g \in Fds : fdtab'[g] # c
                      /\ \A i \in DOMAIN backlog' : backlog'[i] # c
    BY <1>2
  <2>1. c # c0
    BY <1>1 DEF OneHome
  <2> QED
    BY <1>1, <1>2, <2>1 DEF OneHome
<1>6. \A i \in DOMAIN backlog', g \in Fds : fdtab'[g] # backlog'[i]
  BY <1>1, <1>2, <1>3 DEF OneHome
<1>7. \A i, j \in DOMAIN backlog' : backlog'[i] = backlog'[j] => i = j
  <2> TAKE i, j \in DOMAIN backlog'
  <2>1. /\ i + 1 \in DOMAIN backlog /\ backlog'[i] = backlog[i + 1]
        /\ j + 1 \in DOMAIN backlog /\ backlog'[j] = backlog[j + 1]
    BY <1>1
  <2>2. i \in Nat /\ j \in Nat
    BY <1>1
  <2>3. backlog'[i] = backlog'[j] => i + 1 = j + 1
    BY <2>1 DEF OneHome
  <2> QED
    BY <2>2, <2>3
<1>8. \A g, h \in Fds : fdtab'[g] = fdtab'[h] /\ fdtab'[g] # Free => g = h
  BY <1>2, <1>4 DEF OneHome
<1> QED
  BY <1>5, <1>6, <1>7, <1>8 DEF OneHome

(* connect puts a connection that was nowhere into the listen queue.       *)
LEMMA HomeConnect == ASSUME IOInv, OneHome, NEW c \in Clients, Connect(c) PROVE OneHome'
<1>1. /\ Len(backlog) \in Nat
      /\ DOMAIN backlog = 1 .. Len(backlog)
      /\ DOMAIN backlog' = 1 .. (Len(backlog) + 1)
      /\ \A i \in DOMAIN backlog : backlog'[i] = backlog[i]
      /\ backlog'[Len(backlog) + 1] = c
  BY DEF IOInv, Connect
<1>2. /\ cst[c] = "new" /\ cst' = [cst EXCEPT ![c] = "ready"]
      /\ fdtab' = fdtab
  BY DEF Connect, serverVars
<1>3. \A i \in DOMAIN backlog' : i \in DOMAIN backlog \/ backlog'[i] = c
  BY <1>1
<1>4. \A f \in Fds : fdtab[f] # c
  BY <1>2 DEF OneHome
<1>5. \A i \in DOMAIN backlog : backlog[i] # c
  BY <1>2 DEF OneHome
<1>6. \A d \in Clients : cst'[d] = "new" => cst[d] = "new" /\ d # c
  BY <1>2 DEF IOInv
<1>7. \A d \in Clients : cst'[d] = "new" =>
        /\ \A f \in Fds : fdtab'[f] # d
        /\ \A i \in DOMAIN backlog' : backlog'[i] # d
  BY <1>1, <1>2, <1>3, <1>6 DEF OneHome
<1>8. \A i \in DOMAIN backlog', f \in Fds : fdtab'[f] # backlog'[i]
  BY <1>1, <1>2, <1>3, <1>4 DEF OneHome
<1>9. \A i, j \in DOMAIN backlog' : backlog'[i] = backlog'[j] => i = j
  <2> TAKE i, j \in DOMAIN backlog'
  <2>1. \A k \in DOMAIN backlog' : k \in DOMAIN backlog \/ k = Len(backlog) + 1
    BY <1>1
  <2> QED
    BY <1>1, <1>5, <2>1 DEF OneHome
<1>10. \A f, g \in Fds : fdtab'[f] = fdtab'[g] /\ fdtab'[f] # Free => f = g
  BY <1>2 DEF OneHome
<1> QED
  BY <1>7, <1>8, <1>9, <1>10 DEF OneHome

(* A connection has one home in every state of the server.                 *)
LEMMA HomeNext == IOInv /\ OneHome /\ [ServerNext]_vars => OneHome'
<1> SUFFICES ASSUME IOInv, OneHome, [ServerNext]_vars PROVE OneHome'
  OBVIOUS
<1>1. CASE PoolStep
  BY <1>1, HomeKept DEF PoolStep, clientVars
<1>2. ASSUME NEW w \in Workers, CloseSocket(w) PROVE OneHome'
  <2>1. UNCHANGED <<backlog, cst>>
    BY <1>2 DEF CloseSocket, clientVars
  <2>2. \A f \in Fds : fdtab'[f] = fdtab[f] \/ fdtab'[f] = Free
    BY <1>2 DEF CloseSocket, IOInv
  <2>3. \A i \in DOMAIN backlog : backlog[i] # Free
    BY ServerAssumption DEF IOInv
  <2> QED
    BY <2>1, <2>2, <2>3, ServerAssumption DEF OneHome
<1>3. ASSUME NEW w \in Workers, SocketIO(w), ~CloseSocket(w) PROVE OneHome'
  <2>1. UNCHANGED <<fdtab, backlog, cst>>
    BY <1>3 DEF SocketIO, ReadData, ReadEnds, WriteOpen, WriteClosed, WriteReset, Return,
                clientVars
  <2> QED
    BY <2>1, HomeKept
<1>4. ASSUME NEW c \in Clients, ClientStep(c), ~Connect(c) PROVE OneHome'
  <2>1. UNCHANGED <<fdtab, backlog>>
    BY <1>4 DEF ClientStep, Send, Receive, Kill, Disconnected, Hangup, serverVars
  <2>2. \A d \in Clients : cst'[d] = "new" => cst[d] = "new"
    BY <1>4 DEF ClientStep, Send, Receive, Kill, Disconnected, Hangup, IOInv
  <2> QED
    BY <2>1, <2>2, HomeKept
<1>5. CASE UNCHANGED vars
  BY <1>5, HomeKept DEF vars, clientVars
<1> QED
  BY <1>1, <1>2, <1>3, <1>4, <1>5, HomeAccept, HomeConnect DEF ServerNext, ServerStep

(* Two workers between read and close work for different clients.          *)
LEMMA OneWorker == ASSUME ServerInv, OneHome, NEW v \in Workers, NEW w \in Workers,
                          io[v] = "write", wpc[w] = "run", io[w] # "back",
                          wtask[v][2] = wtask[w][2]
                   PROVE  v = w
<1>1. wpc[v] = "run" /\ io[v] # "back"
  BY DEF ServerInv, IOInv
<1>2. /\ wtask[v] \in OpenTasks /\ wtask[v][1] \in Fds /\ fdtab[wtask[v][1]] = wtask[v][2]
      /\ wtask[v][2] \in Clients
  BY <1>1, WorkerOwns DEF ServerInv, Conn, Socket
<1>3. /\ wtask[w] \in OpenTasks /\ wtask[w][1] \in Fds /\ fdtab[wtask[w][1]] = wtask[w][2]
      /\ \A x \in Workers : wtask[x] = wtask[w] => x = w
  BY WorkerOwns DEF ServerInv, Conn, Socket
<1>4. wtask[v][1] = wtask[w][1]
  BY <1>2, <1>3, ServerAssumption DEF OneHome
<1> QED
  BY <1>2, <1>3, <1>4 DEF ServerInv, FdOwned

(* What is in the hands of a client's worker is in one buffer.             *)
LEMMA HandIs == ServerInv /\ OneHome =>
                  \A c \in Clients :
                    /\ \A w \in Workers : Writes(w, c) => InHand(c) = rbuf[w]
                    /\ (\A w \in Workers : ~Writes(w, c)) => InHand(c) = <<>>
<1> SUFFICES ASSUME ServerInv, OneHome, NEW c \in Clients
             PROVE  /\ \A w \in Workers : Writes(w, c) => InHand(c) = rbuf[w]
                    /\ (\A w \in Workers : ~Writes(w, c)) => InHand(c) = <<>>
  OBVIOUS
<1>1. ASSUME NEW w \in Workers, Writes(w, c) PROVE InHand(c) = rbuf[w]
  <2> DEFINE x == CHOOSE y \in Workers : InIO(y, "write") /\ wtask[y][2] = c
  <2>1. x \in Workers /\ InIO(x, "write") /\ wtask[x][2] = c
    BY <1>1 DEF Writes
  <2>2. x = w
    BY <1>1, <2>1, OneWorker DEF Writes, InIO
  <2> QED
    BY <1>1, <2>2 DEF InHand, Writes
<1>2. (\A w \in Workers : ~Writes(w, c)) => InHand(c) = <<>>
  BY DEF InHand, Writes
<1> QED
  BY <1>1, <1>2

(* The same in the next state.                                             *)
LEMMA HandIsNext == (ServerInv /\ OneHome)' =>
                      (\A c \in Clients :
                         /\ \A w \in Workers : Writes(w, c) => InHand(c) = rbuf[w]
                         /\ (\A w \in Workers : ~Writes(w, c)) => InHand(c) = <<>>)'
BY HandIs, PTL

(* A step that moves no worker of c into or out of "write" leaves the hand.*)
LEMMA HandKept == ASSUME ServerInv, OneHome, ServerInv', OneHome', NEW c \in Clients,
                         \A w \in Workers : Writes(w, c)' <=> Writes(w, c),
                         \A w \in Workers : Writes(w, c) => rbuf'[w] = rbuf[w]
                  PROVE  InHand(c)' = InHand(c)
<1>1. CASE \A w \in Workers : ~Writes(w, c)
  BY <1>1, HandIs, HandIsNext
<1>2. ASSUME NEW w \in Workers, Writes(w, c) PROVE InHand(c)' = InHand(c)
  BY <1>2, HandIs, HandIsNext
<1> QED
  BY <1>1, <1>2

(* The three moves, as facts about sequences: what was between the server  *)
(* and the client stays what it was.                                       *)
LEMMA ReadMoves == ASSUME NEW S, NEW d \in Seq(S), NEW u \in Seq(S), NEW k \in 0 .. Len(u)
                   PROVE  (d \o SubSeq(u, 1, k)) \o SubSeq(u, k + 1, Len(u)) = (d \o <<>>) \o u
<1> DEFINE p == SubSeq(u, 1, k)
           r == SubSeq(u, k + 1, Len(u))
<1> HIDE DEF p, r
<1>1. p \in Seq(S) /\ r \in Seq(S)
  BY CutInTwo DEF p, r
<1>2. (d \o p) \o r = d \o (p \o r)
  BY <1>1, ConcatAssociative, SMTT(60)
<1>3. d \o <<>> = d
  BY ConcatEmptySeq
<1>5. p \o r = u
  BY CutInTwo DEF p, r
<1>4. (d \o p) \o r = (d \o <<>>) \o u
  BY <1>2, <1>3, <1>5, Zenon
<1> QED
  BY <1>4 DEF p, r

LEMMA WriteMoves == ASSUME NEW S, NEW d \in Seq(S), NEW h \in Seq(S), NEW u \in Seq(S)
                    PROVE  ((d \o h) \o <<>>) \o u = (d \o h) \o u
<1> DEFINE e == d \o h
<1> HIDE DEF e
<1>1. e \in Seq(S)
  BY ConcatProperties DEF e
<1>2. e \o <<>> = e
  BY <1>1, ConcatEmptySeq
<1>3. (e \o <<>>) \o u = e \o u
  BY <1>2
<1> QED
  BY <1>3 DEF e

(* Concatenation of streams, with Stream a name.                           *)
LEMMA Regroup == ASSUME NEW d \in Stream, NEW h \in Stream, NEW u \in Stream
                 PROVE  d \o h \in Stream /\ (d \o h) \o u = d \o (h \o u)
<1>1. d \o h \in Stream
  BY ConcatProperties, Zenon DEF Stream
<1>2. (d \o h) \o u = d \o (h \o u)
  BY ConcatAssociative, SMTT(60) DEF Stream
<1> QED
  BY <1>1, <1>2

(* What client c has sent and not got back, in order.                      *)
InTransit(c) == down[c] \o InHand(c) \o up[c]

StreamOf(c) == cst[c] # "ended" => InTransit(c) = Stretch(c, rcvd[c], sent[c] - rcvd[c])

(* EchoInOrder is StreamOf of every client.                                *)
LEMMA EchoIsStream == EchoInOrder <=> \A c \in Clients : StreamOf(c)
BY DEF EchoInOrder, StreamOf, InTransit, Stretch

StreamInv == ServerInv /\ OneHome /\ StreamTypes /\ \A c \in Clients : StreamOf(c)

(* A hand is a sequence of units.                                          *)
LEMMA HandTyped == ASSUME ServerInv, OneHome, StreamTypes, NEW c \in Clients
                   PROVE  InHand(c) \in Seq(Clients \X Nat)
<1>1. CASE \A w \in Workers : ~Writes(w, c)
  <2>1. InHand(c) = <<>>
    BY <1>1, HandIs
  <2> QED
    BY <2>1
<1>2. ASSUME NEW w \in Workers, Writes(w, c) PROVE InHand(c) \in Seq(Clients \X Nat)
  BY <1>2, HandIs DEF StreamTypes
<1> QED
  BY <1>1, <1>2

(* A step that is not about c.                                             *)
LEMMA StreamKept == ASSUME StreamInv, ServerInv', OneHome', NEW c \in Clients,
                           \A w \in Workers : Writes(w, c)' <=> Writes(w, c),
                           \A w \in Workers : Writes(w, c) => rbuf'[w] = rbuf[w],
                           down'[c] = down[c], up'[c] = up[c],
                           sent'[c] = sent[c], rcvd'[c] = rcvd[c],
                           cst'[c] # "ended" => cst[c] # "ended"
                    PROVE  StreamOf(c)'
<1>1. InHand(c)' = InHand(c)
  BY HandKept DEF StreamInv
<1>2. InTransit(c)' = InTransit(c)
  BY <1>1 DEF InTransit
<1> QED
  BY <1>2 DEF StreamInv, StreamOf

(* read takes the beginning of up into the buffer.                         *)
LEMMA StreamRead == ASSUME StreamInv, ServerInv', OneHome', NEW w \in Workers, ReadData(w),
                           NEW c \in Clients
                    PROVE  StreamOf(c)'
<1> DEFINE c0 == wtask[w][2]
<1>1. /\ wpc[w] = "run" /\ io[w] = "read"
      /\ c0 \in Clients /\ Conn(w) = c0
      /\ wpc' = wpc /\ wtask' = wtask /\ io' = [io EXCEPT ![w] = "write"]
      /\ UNCHANGED <<down, sent, rcvd, cst>>
  BY WorkerOwns DEF ReadData, InIO, IOGoto, poolVars, clientVars, StreamInv, ServerInv
<1>2. PICK n \in 1 .. Len(up[c0]) :
        /\ rbuf' = [rbuf EXCEPT ![w] = SubSeq(up[c0], 1, n)]
        /\ up' = [up EXCEPT ![c0] = SubSeq(@, n + 1, Len(@))]
  BY <1>1 DEF ReadData
<1>3. io \in [Workers -> {"read", "write", "close", "back"}]
  BY DEF StreamInv, ServerInv, IOInv
<1>4. /\ rbuf \in [Workers -> Seq(Clients \X Nat)] /\ up \in [Clients -> Seq(Clients \X Nat)]
      /\ down \in [Clients -> Seq(Clients \X Nat)]
  BY DEF StreamInv, StreamTypes
<1>5. CASE c # c0
  <2>1. \A v \in Workers : Writes(v, c)' <=> Writes(v, c)
    BY <1>1, <1>3, <1>5 DEF Writes, InIO
  <2>2. \A v \in Workers : Writes(v, c) => rbuf'[v] = rbuf[v]
    BY <1>1, <1>2, <1>4, <1>5 DEF Writes
  <2> QED
    BY <1>1, <1>2, <1>4, <1>5, <2>1, <2>2, StreamKept
<1>6. CASE c = c0
  <2>1. \A v \in Workers : ~Writes(v, c)
    <3> SUFFICES ASSUME NEW v \in Workers, Writes(v, c) PROVE FALSE
      OBVIOUS
    <3>1. v = w
      BY <1>1, <1>6, OneWorker DEF Writes, InIO, StreamInv
    <3> QED
      BY <1>1, <3>1 DEF Writes, InIO
  <2>2. InHand(c) = <<>>
    BY <2>1, HandIs DEF StreamInv
  <2>3. Writes(w, c)'
    BY <1>1, <1>3, <1>6 DEF Writes, InIO
  <2>4. InHand(c)' = SubSeq(up[c], 1, n)
    BY <1>2, <1>4, <1>6, <2>3, HandIsNext
  <2>5. up'[c] = SubSeq(up[c], n + 1, Len(up[c]))
    BY <1>2, <1>4, <1>6
  <2>6. InTransit(c)' = InTransit(c)
    <3>0. up[c] \in Seq(Clients \X Nat) /\ down[c] \in Seq(Clients \X Nat)
      BY <1>4
    <3>1. n \in 0 .. Len(up[c])
      BY <1>6, <3>0
    <3>2. (down[c] \o SubSeq(up[c], 1, n)) \o SubSeq(up[c], n + 1, Len(up[c]))
            = (down[c] \o <<>>) \o up[c]
      BY <3>0, <3>1, ReadMoves
    <3>3. down'[c] = down[c]
      BY <1>1
    <3> QED
      BY <2>2, <2>4, <2>5, <3>2, <3>3 DEF InTransit
  <2> QED
    BY <1>1, <2>6 DEF StreamInv, StreamOf
<1> QED
  BY <1>5, <1>6

(* write hands the buffer to the client's end.                             *)
LEMMA StreamWrite == ASSUME StreamInv, ServerInv', OneHome', NEW w \in Workers, WriteOpen(w),
                            NEW c \in Clients
                     PROVE  StreamOf(c)'
<1> DEFINE c0 == wtask[w][2]
<1>1. /\ wpc[w] = "run" /\ io[w] = "write"
      /\ c0 \in Clients /\ Conn(w) = c0
      /\ wpc' = wpc /\ wtask' = wtask /\ io' = [io EXCEPT ![w] = "read"]
      /\ UNCHANGED <<up, rbuf, sent, rcvd, cst>>
      /\ down' = [down EXCEPT ![c0] = @ \o rbuf[w]]
  BY WorkerOwns DEF WriteOpen, InIO, IOGoto, poolVars, clientVars, StreamInv, ServerInv
<1>3. io \in [Workers -> {"read", "write", "close", "back"}]
  BY DEF StreamInv, ServerInv, IOInv
<1>4. /\ rbuf \in [Workers -> Seq(Clients \X Nat)] /\ up \in [Clients -> Seq(Clients \X Nat)]
      /\ down \in [Clients -> Seq(Clients \X Nat)]
  BY DEF StreamInv, StreamTypes
<1>5. CASE c # c0
  <2>1. \A v \in Workers : Writes(v, c)' <=> Writes(v, c)
    BY <1>1, <1>3, <1>5 DEF Writes, InIO
  <2> QED
    BY <1>1, <1>4, <1>5, <2>1, StreamKept
<1>6. CASE c = c0
  <2>1. InHand(c) = rbuf[w]
    BY <1>1, <1>6, HandIs DEF Writes, InIO, StreamInv
  <2>2. \A v \in Workers : ~Writes(v, c)'
    <3> SUFFICES ASSUME NEW v \in Workers, Writes(v, c)' PROVE FALSE
      OBVIOUS
    <3>1. v # w /\ Writes(v, c)
      BY <1>1, <1>3 DEF Writes, InIO
    <3>2. v = w
      BY <1>1, <1>6, <3>1, OneWorker DEF Writes, InIO, StreamInv
    <3> QED
      BY <3>1, <3>2
  <2>3. InHand(c)' = <<>>
    BY <2>2, HandIsNext
  <2>4. down'[c] = down[c] \o rbuf[w] /\ up'[c] = up[c]
    BY <1>1, <1>4, <1>6
  <2>5. ((down[c] \o rbuf[w]) \o <<>>) \o up[c] = (down[c] \o rbuf[w]) \o up[c]
    BY <1>4, WriteMoves
  <2>6. InTransit(c)' = InTransit(c)
    BY <2>1, <2>3, <2>4, <2>5 DEF InTransit
  <2> QED
    BY <1>1, <2>6 DEF StreamInv, StreamOf
<1> QED
  BY <1>5, <1>6

(* The client that writes a line adds the next units at the far end.       *)
LEMMA StreamSend == ASSUME StreamInv, ServerInv', OneHome', NEW b \in Clients, Send(b),
                           NEW c \in Clients
                    PROVE  StreamOf(c)'
<1>1. \A w \in Workers : (Writes(w, c)' <=> Writes(w, c)) /\ rbuf'[w] = rbuf[w]
  BY DEF Send, serverVars, poolVars, ioVars, Writes, InIO
<1>2. PICK n \in LineLens :
        /\ up' = [up EXCEPT ![b] = @ \o [i \in 1 .. n |-> <<b, sent[b] + i>>]]
        /\ sent' = [sent EXCEPT ![b] = @ + n]
  BY DEF Send, Stretch
<1>3. /\ down' = down /\ rcvd' = rcvd
      /\ \A d \in Clients : cst'[d] # "ended" => cst[d] # "ended"
  BY DEF Send, StreamInv, ServerInv, IOInv
<1>4. up \in [Clients -> Seq(Clients \X Nat)] /\ sent \in [Clients -> Nat]
  BY DEF StreamInv, StreamTypes
<1>5. CASE c # b
  BY <1>1, <1>2, <1>3, <1>4, <1>5, StreamKept
<1>6. CASE c = b
  <2> DEFINE t == [i \in 1 .. n |-> <<c, sent[c] + i>>]
             a == rcvd[c]
             m == sent[c] - rcvd[c]
             h == InHand(c)
             front == down[c] \o h
  <2> HIDE DEF t, a, m, h, front
  <2>1. a \in Nat /\ m \in Nat /\ a + m = sent[c] /\ n \in Nat
    BY ServerAssumption DEF StreamInv, StreamTypes, a, m
  <2>2. t = [i \in 1 .. n |-> <<c, a + m + i>>]
    BY <2>1 DEF t
  <2>3. t \in Stream
    BY <2>1, <2>2, SMTT(60) DEF Stream
  <2>4. InHand(c)' = h
    BY <1>1, HandKept DEF StreamInv, h
  <2>5. down[c] \in Stream /\ h \in Stream /\ up[c] \in Stream
    BY HandTyped DEF StreamInv, StreamTypes, h, Stream
  <2>6. front \in Stream
    BY <2>5, Regroup DEF front
  <2>7. (front \o up[c]) \o t = front \o (up[c] \o t)
    BY <2>3, <2>5, <2>6, Regroup
  <2>8. front \o up[c] = Stretch(c, a, m)
    BY <1>6 DEF Send, StreamInv, StreamOf, InTransit, front, h, a, m
  <2>9. up'[c] = up[c] \o t
    BY <1>2, <1>4, <1>6 DEF t
  <2>10. InTransit(c)' = front \o (up[c] \o t)
    BY <1>3, <2>4, <2>9, Zenon DEF InTransit, front
  <2>11. Stretch(c, a, m) \o t = Stretch(c, a, m + n)
    BY <2>1, <2>2, StretchGrows
  <2>12. rcvd'[c] = a /\ sent'[c] - rcvd'[c] = m + n
    BY <1>2, <1>3, <1>4, <1>6, <2>1 DEF a
  <2>13. InTransit(c)' = Stretch(c, a, m + n)
    BY <2>7, <2>8, <2>10, <2>11, Zenon
  <2> QED
    BY <2>12, <2>13 DEF StreamOf, Stretch
<1> QED
  BY <1>5, <1>6

(* The client that reads takes units at the near end, none it did not send.*)
LEMMA StreamReceive == ASSUME StreamInv, ServerInv', OneHome', NEW b \in Clients, Receive(b),
                              NEW c \in Clients
                       PROVE  StreamOf(c)' /\ rcvd'[c] \in Nat /\ rcvd'[c] <= sent'[c]
<1>1. \A w \in Workers : (Writes(w, c)' <=> Writes(w, c)) /\ rbuf'[w] = rbuf[w]
  BY DEF Receive, serverVars, poolVars, ioVars, Writes, InIO
<1>2. PICK n \in 1 .. Len(down[b]) :
        /\ down' = [down EXCEPT ![b] = SubSeq(@, n + 1, Len(@))]
        /\ rcvd' = [rcvd EXCEPT ![b] = @ + n]
  BY DEF Receive
<1>3. /\ up' = up /\ sent' = sent
      /\ \A d \in Clients : cst'[d] # "ended" => cst[d] # "ended"
  BY DEF Receive, StreamInv, ServerInv, IOInv
<1>4. down \in [Clients -> Seq(Clients \X Nat)] /\ sent \in [Clients -> Nat] /\ rcvd \in [Clients -> Nat]
      /\ rcvd[c] <= sent[c]
  BY DEF StreamInv, StreamTypes
<1>5. CASE c # b
  BY <1>1, <1>2, <1>3, <1>4, <1>5, StreamKept
<1>6. CASE c = b
  <2> DEFINE a == rcvd[c]
             m == sent[c] - rcvd[c]
             h == InHand(c)
             e == After(down[c], n)
             rest == h \o up[c]
  <2> HIDE DEF a, m, h, e, rest
  <2>1. a \in Nat /\ m \in Nat /\ a + m = sent[c]
    BY <1>4 DEF a, m
  <2>2. down[c] \in Stream /\ h \in Stream /\ up[c] \in Stream
    BY HandTyped DEF StreamInv, StreamTypes, h, Stream
  <2>3. n \in 0 .. Len(down[c]) /\ n \in Nat
    BY <1>6, <2>2 DEF Stream
  <2>4. rest \in Stream
    BY <2>2, Regroup DEF rest
  <2>5. e \in Stream
    BY <2>2, <2>3, CutInTwo DEF e, After, Stream
  <2>6. (down[c] \o h) \o up[c] = Stretch(c, a, m)
    BY <1>6 DEF Receive, StreamInv, StreamOf, InTransit, h, a, m
  <2>7. (down[c] \o h) \o up[c] = down[c] \o (h \o up[c])
    BY <2>2, Regroup
  <2>8. down[c] \o rest = Stretch(c, a, m)
    BY <2>6, <2>7, Zenon DEF rest
  <2>9. n <= m /\ e \o rest = Stretch(c, a + n, m - n)
    <3> DEFINE d == down[c]
    <3> HIDE DEF d
    <3>1. a \in Nat /\ m \in Nat /\ n \in 0 .. Len(d) /\ d \in Stream
      BY <2>1, <2>2, <2>3 DEF d
    <3>2. d \o rest = Stretch(c, a, m)
      BY <2>8 DEF d
    <3>3. n <= m /\ After(d, n) \o rest = Stretch(c, a + n, m - n)
      BY <2>4, <3>1, <3>2, StretchShrinks, ZenonT(60)
    <3> QED
      BY <3>3 DEF d, e
  <2>10. (e \o h) \o up[c] = e \o (h \o up[c])
    BY <2>2, <2>5, Regroup
  <2>11. InHand(c)' = h
    BY <1>1, HandKept DEF StreamInv, h
  <2>12. down'[c] = e /\ rcvd'[c] = a + n
    BY <1>2, <1>4, <1>6 DEF e, a, After
  <2>13. InTransit(c)' = (e \o h) \o up[c]
    BY <1>3, <2>11, <2>12, Zenon DEF InTransit
  <2>14. InTransit(c)' = Stretch(c, a + n, m - n)
    BY <2>9, <2>10, <2>13, Zenon DEF rest
  <2>15. sent'[c] - rcvd'[c] = m - n /\ rcvd'[c] <= sent'[c]
    BY <1>3, <2>1, <2>3, <2>9, <2>12 
  <2> QED
    BY <2>1, <2>3, <2>12, <2>14, <2>15 DEF StreamOf, Stretch
<1> QED
  BY <1>5, <1>6

(* The buffers and counters keep their types.                              *)
LEMMA StreamTypesNext == StreamInv /\ ServerInv' /\ OneHome' /\ [ServerNext]_vars => StreamTypes'
<1> SUFFICES ASSUME StreamInv, ServerInv', OneHome', [ServerNext]_vars PROVE StreamTypes'
  OBVIOUS
<1> USE DEF StreamTypes
<1>0. StreamTypes /\ IOInv
  BY DEF StreamInv, ServerInv
<1>1. CASE PoolStep
  BY <1>0, <1>1 DEF PoolStep, ioVars, netVars, clientVars
<1>2. ASSUME NEW f \in Fds, Accept(f) PROVE StreamTypes'
  BY <1>0, <1>2 DEF Accept, ioVars, netVars, clientVars
<1>3. ASSUME NEW w \in Workers, ReadData(w) PROVE StreamTypes'
  <2>1. Conn(w) \in Clients
    <3>1. io[w] # "back" /\ wpc[w] = "run"
      BY <1>3 DEF ReadData, InIO
    <3> QED
      BY <3>1, WorkerOwns DEF StreamInv, ServerInv
  <2>2. up[Conn(w)] \in Seq(Clients \X Nat)
    BY <1>0, <2>1
  <2>3. PICK n \in 1 .. Len(up[Conn(w)]) :
          /\ rbuf' = [rbuf EXCEPT ![w] = SubSeq(up[Conn(w)], 1, n)]
          /\ up' = [up EXCEPT ![Conn(w)] = SubSeq(@, n + 1, Len(@))]
    BY <1>3 DEF ReadData
  <2>4. n \in 0 .. Len(up[Conn(w)])
    BY <2>2, <2>3
  <2>5. /\ SubSeq(up[Conn(w)], 1, n) \in Seq(Clients \X Nat)
        /\ SubSeq(up[Conn(w)], n + 1, Len(up[Conn(w)])) \in Seq(Clients \X Nat)
    BY <2>2, <2>4, CutInTwo
  <2>6. up' \in [Clients -> Seq(Clients \X Nat)] /\ rbuf' \in [Workers -> Seq(Clients \X Nat)]
    BY <1>0, <2>1, <2>3, <2>5
  <2> QED
    BY <1>0, <1>3, <2>6 DEF ReadData, clientVars
<1>4. ASSUME NEW w \in Workers, WriteOpen(w) PROVE StreamTypes'
  <2>1. Conn(w) \in Clients
    BY <1>4, WorkerOwns DEF WriteOpen, InIO, StreamInv, ServerInv
  <2>2. down[Conn(w)] \o rbuf[w] \in Seq(Clients \X Nat)
    BY <1>0, <2>1, ConcatProperties
  <2>3. down' \in [Clients -> Seq(Clients \X Nat)]
    BY <1>0, <1>4, <2>2 DEF WriteOpen
  <2> QED
    BY <1>0, <1>4, <2>3 DEF WriteOpen, clientVars
<1>5. ASSUME NEW w \in Workers, WriteClosed(w) PROVE StreamTypes'
  BY <1>0, <1>5 DEF WriteClosed, clientVars, IOInv
<1>6. ASSUME NEW w \in Workers, ReadEnds(w) \/ WriteReset(w) \/ CloseSocket(w) \/ Return(w)
      PROVE  StreamTypes'
  <2>1. UNCHANGED <<up, down, peer, cst, sent, rcvd>>
    BY <1>6 DEF ReadEnds, WriteReset, CloseSocket, Return, netVars, clientVars
  <2>2. rbuf' = rbuf \/ rbuf' = [rbuf EXCEPT ![w] = <<>>]
    BY <1>6 DEF ReadEnds, WriteReset, CloseSocket, Return
  <2>3. <<>> \in Seq(Clients \X Nat)
    OBVIOUS
  <2>4. rbuf' \in [Workers -> Seq(Clients \X Nat)]
    BY <1>0, <2>2, <2>3
  <2> QED
    BY <1>0, <2>1, <2>4
<1>7. ASSUME NEW c \in Clients, Connect(c) PROVE StreamTypes'
  BY <1>0, <1>7 DEF Connect, serverVars, ioVars, netVars
<1>8. ASSUME NEW c \in Clients, Send(c) PROVE StreamTypes'
  <2>1. PICK n \in LineLens :
          /\ up' = [up EXCEPT ![c] = @ \o [i \in 1 .. n |-> <<c, sent[c] + i>>]]
          /\ sent' = [sent EXCEPT ![c] = @ + n]
    BY <1>8 DEF Send, Stretch
  <2> DEFINE t == [i \in 1 .. n |-> <<c, sent[c] + i>>]
  <2>0. n \in Nat /\ sent[c] \in Nat
    BY <1>0, ServerAssumption
  <2>2. n \in Nat /\ t \in Seq(Clients \X Nat)
    BY <2>0
  <2>3. up[c] \o t \in Seq(Clients \X Nat)
    BY <1>0, <2>2, ConcatProperties
  <2>4. up' \in [Clients -> Seq(Clients \X Nat)]
    BY <1>0, <2>1, <2>3
  <2>5. sent' \in [Clients -> Nat] /\ \A d \in Clients : sent[d] <= sent'[d]
    BY <1>0, <2>1, <2>2
  <2>6. UNCHANGED <<down, rbuf, rcvd, peer>>
    BY <1>8 DEF Send, serverVars, ioVars
  <2>7. \A d \in Clients : cst'[d] = "ended" => cst[d] = "ended"
    BY <1>0, <1>8 DEF Send, IOInv
  <2>8. \A d \in Clients : rcvd'[d] <= sent'[d]
    BY <1>0, <2>5, <2>6
  <2> QED
    BY <1>0, <2>4, <2>5, <2>6, <2>7, <2>8
<1>9. ASSUME NEW c \in Clients, Receive(c) PROVE StreamTypes'
  <2>1. PICK n \in 1 .. Len(down[c]) : down' = [down EXCEPT ![c] = SubSeq(@, n + 1, Len(@))]
    BY <1>9 DEF Receive
  <2>2. n \in 0 .. Len(down[c]) /\ down[c] \in Seq(Clients \X Nat)
    BY <1>0, <2>1
  <2>3. SubSeq(down[c], n + 1, Len(down[c])) \in Seq(Clients \X Nat)
    BY <2>2, CutInTwo
  <2>4. down' \in [Clients -> Seq(Clients \X Nat)]
    BY <1>0, <2>1, <2>3
  <2>5. \A d \in Clients : rcvd'[d] \in Nat /\ rcvd'[d] <= sent'[d]
    BY <1>9, StreamReceive
  <2>6. rcvd' \in [Clients -> Nat]
    BY <1>0, <1>9, <2>5 DEF Receive
  <2>7. UNCHANGED <<up, rbuf, sent, peer>>
    BY <1>9 DEF Receive, serverVars, ioVars
  <2>8. \A d \in Clients : cst'[d] = "ended" => cst[d] = "ended"
    BY <1>0, <1>9 DEF Receive, IOInv
  <2> QED
    BY <1>0, <2>4, <2>5, <2>6, <2>7, <2>8
<1>10. ASSUME NEW c \in Clients, Kill(c) \/ Disconnected(c) PROVE StreamTypes'
  <2>1. UNCHANGED <<up, rbuf, sent, rcvd>>
    BY <1>10 DEF Kill, Disconnected, Hangup, serverVars, ioVars
  <2>2. /\ down' = [down EXCEPT ![c] = <<>>]
        /\ peer' = [peer EXCEPT ![c] = IF down[c] = <<>> THEN "fin" ELSE "rst"]
        /\ cst' = [cst EXCEPT ![c] = "ended"]
    BY <1>10 DEF Kill, Disconnected, Hangup
  <2>3. <<>> \in Seq(Clients \X Nat)
    OBVIOUS
  <2>4. down' \in [Clients -> Seq(Clients \X Nat)]
    BY <1>0, <2>2, <2>3
  <2>5. \A d \in Clients : cst'[d] = "ended" => peer'[d] # "open"
    BY <1>0, <2>2 DEF IOInv
  <2> QED
    BY <1>0, <2>1, <2>4, <2>5
<1>11. CASE UNCHANGED vars
  BY <1>0, <1>11 DEF vars, ioVars, netVars, clientVars
<1> QED
  BY <1>1, <1>2, <1>3, <1>4, <1>5, <1>6, <1>7, <1>8, <1>9, <1>10, <1>11
     DEF ServerNext, ServerStep, SocketIO, ClientStep

(* No step breaks the order of the units of a client.                      *)
LEMMA StreamNext == StreamInv /\ [ServerNext]_vars => StreamInv'
<1> SUFFICES ASSUME StreamInv, [ServerNext]_vars PROVE StreamInv'
  OBVIOUS
<1>0. ServerInv /\ OneHome /\ Inv /\ IOInv /\ ServerInv' /\ OneHome' /\ StreamTypes'
  BY ServerInvNext, HomeNext, StreamTypesNext DEF StreamInv, ServerInv
<1> SUFFICES ASSUME NEW c \in Clients PROVE StreamOf(c)'
  BY <1>0 DEF StreamInv
<1>1. CASE PoolStep
  <2>1. UNCHANGED <<io, rbuf, up, down, sent, rcvd, cst>>
    BY <1>1 DEF PoolStep, ioVars, netVars, clientVars
  <2>2. ASSUME NEW w \in Workers, io[w] = "write"
        PROVE  wpc[w] = "run" /\ wpc'[w] = "run" /\ wtask'[w] = wtask[w]
    BY <1>0, <1>1, <2>2
       DEF PoolStep, PoolNext, PoolWorkerStep, PushStep, Lock, TestEmpty, CondWait,
           SpuriousWakeup, Relock, Pop, Unlock, StartWorker, PushLock, PushEnqueue,
           PushSignal, PushUnlock, Asleep, Goto, workerVars, Inv, TypeOK, IOInv
  <2>3. \A w \in Workers : Writes(w, c)' <=> Writes(w, c)
    BY <2>1, <2>2 DEF Writes, InIO
  <2> QED
    BY <1>0, <2>1, <2>3, StreamKept
<1>2. ASSUME NEW f \in Fds, Accept(f) PROVE StreamOf(c)'
  <2>1. UNCHANGED <<wpc, wtask, io, rbuf, up, down, sent, rcvd, cst>>
    BY <1>2 DEF Accept, PushCall, workerVars, ioVars, netVars, clientVars
  <2> QED
    BY <1>0, <2>1, StreamKept DEF Writes, InIO
<1>3. ASSUME NEW w \in Workers, ReadData(w) \/ WriteOpen(w) PROVE StreamOf(c)'
  BY <1>0, <1>3, StreamRead, StreamWrite
<1>4. ASSUME NEW w \in Workers, ReadEnds(w) \/ CloseSocket(w) PROVE StreamOf(c)'
  <2>1. UNCHANGED <<wpc, wtask, rbuf, up, down, sent, rcvd, cst>>
    BY <1>4 DEF ReadEnds, CloseSocket, poolVars, netVars, clientVars
  <2>2. \A v \in Workers : io'[v] = "write" <=> io[v] = "write"
    BY <1>0, <1>4 DEF ReadEnds, CloseSocket, InIO, IOGoto, IOInv
  <2> QED
    BY <1>0, <2>1, <2>2, StreamKept DEF Writes, InIO
<1>5. ASSUME NEW w \in Workers, WriteClosed(w) \/ WriteReset(w) PROVE StreamOf(c)'
  <2> DEFINE c0 == wtask[w][2]
  <2>1. UNCHANGED <<wpc, wtask, rbuf, up, down, sent, rcvd, cst>>
    BY <1>5 DEF WriteClosed, WriteReset, poolVars, netVars, clientVars
  <2>2. io'[w] = "read" \/ io' = io
    BY <1>0, <1>5 DEF WriteClosed, WriteReset, IOGoto, IOInv
  <2>3. \A v \in Workers \ {w} : io'[v] = io[v]
    BY <1>0, <1>5 DEF WriteClosed, WriteReset, IOGoto, IOInv
  <2>4. Conn(w) = c0 /\ c0 \in Clients /\ peer[c0] # "open"
    BY <1>0, <1>5, WorkerOwns DEF WriteClosed, WriteReset, InIO, ServerInv
  <2>5. CASE c = c0
    BY <1>0, <2>1, <2>4, <2>5 DEF IOInv, StreamOf
  <2>6. CASE c # c0
    <3>1. \A v \in Workers : Writes(v, c)' <=> Writes(v, c)
      BY <2>1, <2>3, <2>6 DEF Writes, InIO
    <3> QED
      BY <1>0, <2>1, <3>1, StreamKept
  <2> QED
    BY <2>5, <2>6
<1>6. ASSUME NEW w \in Workers, Return(w) PROVE StreamOf(c)'
  <2>1. UNCHANGED <<up, down, sent, rcvd, cst>>
    BY <1>6 DEF Return, netVars, clientVars
  <2>2. ~Writes(w, c) /\ ~Writes(w, c)'
    BY <1>0, <1>6 DEF Return, IOGoto, Writes, InIO, IOInv
  <2>3. \A v \in Workers \ {w} : /\ io'[v] = io[v] /\ wpc'[v] = wpc[v] /\ wtask'[v] = wtask[v]
                               /\ rbuf'[v] = rbuf[v]
    BY <1>0, <1>6 DEF Return, Finish, Goto, IOGoto, Inv, TypeOK, IOInv, StreamInv, StreamTypes
  <2>4. \A v \in Workers : Writes(v, c)' <=> Writes(v, c)
    BY <2>2, <2>3 DEF Writes, InIO
  <2>5. \A v \in Workers : Writes(v, c) => rbuf'[v] = rbuf[v]
    BY <2>2, <2>3
  <2> QED
    BY <1>0, <2>1, <2>4, <2>5, StreamKept
<1>7. ASSUME NEW b \in Clients, Connect(b) PROVE StreamOf(c)'
  <2>1. UNCHANGED <<wpc, wtask, io, rbuf, up, down, sent, rcvd>>
    BY <1>7 DEF Connect, serverVars, poolVars, ioVars, netVars
  <2>2. cst'[c] # "ended" => cst[c] # "ended"
    BY <1>0, <1>7 DEF Connect, IOInv
  <2> QED
    BY <1>0, <2>1, <2>2, StreamKept DEF Writes, InIO
<1>8. ASSUME NEW b \in Clients, Send(b) \/ Receive(b) PROVE StreamOf(c)'
  BY <1>0, <1>8, StreamSend, StreamReceive
<1>9. ASSUME NEW b \in Clients, Kill(b) \/ Disconnected(b) PROVE StreamOf(c)'
  <2>1. UNCHANGED <<wpc, wtask, io, rbuf, up, sent, rcvd>>
    BY <1>9 DEF Kill, Disconnected, Hangup, serverVars, poolVars, ioVars
  <2>2. CASE c = b
    BY <1>0, <1>9, <2>2 DEF Kill, Disconnected, Hangup, IOInv, StreamOf
  <2>3. CASE c # b
    <3>1. down'[c] = down[c] /\ cst'[c] = cst[c]
      BY <1>0, <1>9, <2>3 DEF Kill, Disconnected, Hangup, IOInv, StreamInv, StreamTypes
    <3> QED
      BY <1>0, <2>1, <3>1, StreamKept DEF Writes, InIO
  <2> QED
    BY <2>2, <2>3
<1>10. CASE UNCHANGED vars
  BY <1>0, <1>10, StreamKept DEF vars, poolVars, ioVars, netVars, clientVars, Writes, InIO
<1> QED
  BY <1>1, <1>2, <1>3, <1>4, <1>5, <1>6, <1>7, <1>8, <1>9, <1>10
     DEF ServerNext, ServerStep, SocketIO, ClientStep

(* Initially nothing is on its way.                                        *)
LEMMA StreamInit == ServerInit => StreamInv
<1> SUFFICES ASSUME ServerInit PROVE StreamInv
  OBVIOUS
<1>1. ServerInv
  BY ServerInvInit
<1>2. OneHome /\ StreamTypes
  BY ServerAssumption DEF ServerInit, OneHome, StreamTypes
<1>3. ASSUME NEW c \in Clients PROVE StreamOf(c)
  <2>1. \A w \in Workers : ~Writes(w, c)
    BY DEF ServerInit, Writes, InIO
  <2>2. InHand(c) = <<>> /\ up[c] = <<>> /\ down[c] = <<>> /\ sent[c] - rcvd[c] = 0
    BY <1>1, <1>2, <2>1, HandIs DEF ServerInit
  <2>3. (<<>> \o <<>>) \o <<>> = <<>>
    OBVIOUS
  <2>4. InTransit(c) = <<>>
    BY <2>2, <2>3 DEF InTransit
  <2>5. Stretch(c, rcvd[c], sent[c] - rcvd[c]) = <<>>
    BY <2>2 DEF Stretch
  <2> QED
    BY <2>4, <2>5 DEF StreamOf
<1> QED
  BY <1>1, <1>2, <1>3 DEF StreamInv

(* Nobody gets a unit of somebody else, none is lost and none comes twice  *)
(* or out of order: what is on its way to a client, with its worker and on *)
(* its way to the server is what it sent and has not got back.             *)
THEOREM NoCrossTalk == ServerSpec => []EchoInOrder
<1>1. StreamInv => EchoInOrder
  BY EchoIsStream DEF StreamInv
<1> QED
  BY <1>1, StreamInit, StreamNext, PTL DEF ServerSpec
-----------------------------------------------------------------------------
(* The server as an echo service. What a step does to a connection, to who *)
(* has left and to what is on its way back.                                *)

Queues(c) == \E i \in DOMAIN backlog : backlog[i] = c
Holds(c)  == \E f \in Fds : fdtab[f] = c

(* A client that stays is in the queue or under a descriptor.              *)
Attached == \A c \in Clients : cst[c] \in {"ready", "await"} => Queues(c) \/ Holds(c)

EchoInv == StreamInv /\ Attached

EchoMove == Attached' /\ [Echo!Next]_(Echo!evars)

(* Who has left is who the server sees the end of.                         *)
LEMMA EndedIs == StreamInv => \A c \in Clients : /\ c \in Ended <=> cst[c] = "ended"
                                                 /\ c \in Ended <=> peer[c] # "open"
BY DEF StreamInv, StreamTypes, ServerInv, IOInv, Ended

(* A step that is not about where connections are.                         *)
LEMMA ConnKept == ASSUME Attached, UNCHANGED <<fdtab, backlog>>,
                         \A c \in Clients : cst'[c] = "new" <=> cst[c] = "new",
                         \A c \in Clients : cst'[c] \in {"ready", "await"}
                                              => cst[c] \in {"ready", "await"}
                  PROVE  ConnStates' = ConnStates /\ Attached'
BY DEF ConnStates, ConnState, Attached, Queues, Holds

(* What is on its way to c stays the same if its parts do.                 *)
LEMMA ReturningKept == ASSUME StreamInv, StreamInv', NEW c \in Clients,
                              down'[c] = down[c], cst'[c] = cst[c],
                              \A w \in Workers : Writes(w, c)' <=> Writes(w, c),
                              \A w \in Workers : Writes(w, c) => rbuf'[w] = rbuf[w]
                       PROVE  Returning'[c] = Returning[c]
<1>1. InHand(c)' = InHand(c)
  BY HandKept DEF StreamInv
<1>2. c \in Ended' <=> c \in Ended
  BY DEF Ended
<1> QED
  BY <1>1, <1>2 DEF Returning

(* A step that no client sees.                                             *)
LEMMA Unseen == ASSUME StreamInv, StreamInv', Attached,
                       UNCHANGED <<fdtab, backlog, up, down, cst, rcvd, alive>>,
                       \A w \in Workers, c \in Clients : Writes(w, c)' <=> Writes(w, c),
                       \A w \in Workers, c \in Clients : Writes(w, c) => rbuf'[w] = rbuf[w]
                PROVE  EchoMove
<1>1. ConnStates' = ConnStates /\ Attached'
  BY ConnKept
<1>2. \A c \in Clients : Returning'[c] = Returning[c]
  BY ReturningKept
<1>3. Returning' = Returning
  BY <1>2 DEF Returning
<1>4. Ended' = Ended /\ Received' = Received
  BY DEF Ended, Received
<1> QED
  BY <1>1, <1>3, <1>4 DEF EchoMove, Echo!evars

(* Where the connection of a worker that reads, writes or closes is.       *)
LEMMA WorkerConn == ASSUME EchoInv, NEW w \in Workers, wpc[w] = "run", io[w] # "back"
                    PROVE  \E c \in Clients :
                             /\ wtask[w][2] = c /\ Conn(w) = c
                             /\ Socket(w) \in Fds /\ fdtab[Socket(w)] = c
                             /\ ConnStates[c] = "open"
                             /\ ~Queues(c) /\ cst[c] # "new"
<1> DEFINE c == wtask[w][2]
<1>1. c \in Clients /\ Conn(w) = c /\ Socket(w) \in Fds /\ fdtab[Socket(w)] = c
  BY WorkerOwns DEF EchoInv, StreamInv, ServerInv, Conn, Socket
<1>2. ~Queues(c) /\ cst[c] # "new"
  BY <1>1 DEF EchoInv, StreamInv, OneHome, Queues
<1>3. ConnState(c) = "open"
  BY <1>1, <1>2 DEF ConnState, Queues
<1> QED
  BY <1>1, <1>2, <1>3 DEF ConnStates

(* The workers' steps between them.                                        *)
LEMMA PoolMoves == ASSUME EchoInv, StreamInv', PoolStep PROVE EchoMove
<1>1. UNCHANGED <<fdtab, backlog, io, rbuf, up, down, cst, rcvd, alive>>
  BY DEF PoolStep, ioVars, netVars, clientVars
<1>2. ASSUME NEW w \in Workers, io[w] = "write"
      PROVE  wpc[w] = "run" /\ wpc'[w] = "run" /\ wtask'[w] = wtask[w]
  BY <1>2
     DEF PoolStep, PoolNext, PoolWorkerStep, PushStep, Lock, TestEmpty, CondWait,
         SpuriousWakeup, Relock, Pop, Unlock, StartWorker, PushLock, PushEnqueue,
         PushSignal, PushUnlock, Asleep, Goto, workerVars, Inv, TypeOK, IOInv,
         EchoInv, StreamInv, ServerInv
<1>3. \A w \in Workers, c \in Clients : Writes(w, c)' <=> Writes(w, c)
  BY <1>1, <1>2 DEF Writes, InIO
<1> QED
  BY <1>1, <1>3, Unseen DEF EchoInv

(* accept opens the connection at the head of the queue.                   *)
LEMMA AcceptMoves == ASSUME EchoInv, StreamInv', alive, NEW f \in Fds, Accept(f) PROVE EchoMove
<1> DEFINE c == Head(backlog)
<1>1. /\ c \in Clients /\ backlog # <<>> /\ backlog' = Tail(backlog)
      /\ fdtab[f] = Free /\ fdtab' = [fdtab EXCEPT ![f] = c]
      /\ UNCHANGED <<wpc, wtask, io, rbuf, up, down, cst, rcvd, alive>>
  BY AcceptPushes
     DEF Accept, PushCall, workerVars, ioVars, netVars, clientVars, EchoInv, StreamInv, ServerInv
<1>2. /\ backlog \in Seq(Clients) /\ Len(backlog) \in Nat /\ Len(backlog) # 0
      /\ fdtab \in [Fds -> Clients \cup {Free}]
  BY <1>1 DEF EchoInv, StreamInv, ServerInv, IOInv
<1>3. /\ c = backlog[1] /\ 1 \in DOMAIN backlog
      /\ DOMAIN backlog = 1 .. Len(backlog) /\ DOMAIN backlog' = 1 .. Len(backlog) - 1
      /\ \A i \in 1 .. Len(backlog) - 1 : backlog'[i] = backlog[i + 1]
  BY <1>1, <1>2
<1>4. Queues(c) /\ cst[c] # "new" /\ \A g \in Fds : fdtab[g] # c
  <2>1. Queues(c)
    BY <1>3 DEF Queues
  <2>2. cst[c] # "new"
    BY <1>1, <2>1 DEF EchoInv, StreamInv, OneHome, Queues
  <2>3. \A g \in Fds : fdtab[g] # c
    BY <2>1 DEF EchoInv, StreamInv, OneHome, Queues
  <2> QED
    BY <2>1, <2>2, <2>3
<1>5. ASSUME NEW d \in Clients PROVE Queues(d)' <=> Queues(d) /\ d # c
  <2>1. ASSUME NEW i \in DOMAIN backlog' PROVE backlog'[i] # c /\ Queues(backlog'[i])
    <3>1. i + 1 \in DOMAIN backlog /\ backlog'[i] = backlog[i + 1] /\ i + 1 # 1
      BY <1>2, <1>3
    <3> QED
      BY <1>3, <3>1 DEF EchoInv, StreamInv, OneHome, Queues
  <2>2. ASSUME NEW i \in DOMAIN backlog, backlog[i] # c
        PROVE  \E j \in DOMAIN backlog' : backlog'[j] = backlog[i]
    <3>1. i - 1 \in DOMAIN backlog' /\ (i - 1) + 1 = i
      BY <1>2, <1>3, <2>2
    <3> QED
      BY <1>3, <3>1
  <2> QED
    BY <2>1, <2>2 DEF Queues
<1>6. \A d \in Clients : Holds(d)' <=> Holds(d) \/ d = c
  BY <1>1, <1>2, ServerAssumption DEF Holds
<1>7. ConnStates[c] = "waiting"
  BY <1>1, <1>4 DEF ConnStates, ConnState, Queues
<1>8. ConnStates' = [ConnStates EXCEPT ![c] = "open"]
  <2>1. ASSUME NEW d \in Clients
        PROVE  ConnState(d)' = IF d = c THEN "open" ELSE ConnState(d)
    <3>1. (\E i \in DOMAIN backlog' : backlog'[i] = d) <=> (\E i \in DOMAIN backlog : backlog[i] = d) /\ d # c
      BY <1>5 DEF Queues
    <3>2. (\E g \in Fds : fdtab'[g] = d) <=> (\E g \in Fds : fdtab[g] = d) \/ d = c
      BY <1>6 DEF Holds
    <3> QED
      BY <1>1, <1>4, <3>1, <3>2 DEF ConnState
  <2> QED
    BY <2>1 DEF ConnStates
<1>9. Attached'
  BY <1>1, <1>5, <1>6 DEF EchoInv, Attached
<1>10. UNCHANGED <<Ended, Received>> /\ Returning' = Returning
  <2>1. \A d \in Clients : Returning'[d] = Returning[d]
    BY <1>1, ReturningKept DEF Writes, InIO, EchoInv
  <2> QED
    BY <1>1, <2>1 DEF Ended, Received, Returning
<1>11. Echo!Accept(c)
  BY <1>1, <1>7, <1>8, <1>10 DEF Echo!Accept
<1> QED
  BY <1>1, <1>9, <1>11 DEF EchoMove, Echo!Next

(* A step of a worker that nobody outside sees, and its own steps that are *)
(* seen: the read with the answer that is to come, the write that ends the *)
(* process, and the close.                                                 *)
LEMMA WorkerIdles ==
  ASSUME EchoInv, StreamInv', NEW w \in Workers,
         ReadEnds(w) \/ WriteClosed(w) \/ (WriteReset(w) /\ UNCHANGED alive) \/ Return(w)
  PROVE  EchoMove
<1>0. IOInv /\ Inv /\ StreamTypes
  BY DEF EchoInv, StreamInv, ServerInv
<1>1. UNCHANGED <<fdtab, backlog, up, down, cst, rcvd, alive>>
  BY DEF ReadEnds, WriteClosed, WriteReset, Return, netVars, clientVars
<1>2. \A v \in Workers \ {w} : /\ io'[v] = io[v] /\ wpc'[v] = wpc[v] /\ wtask'[v] = wtask[v]
                               /\ rbuf'[v] = rbuf[v]
  BY <1>0 DEF ReadEnds, WriteClosed, WriteReset, Return, Finish, Goto, IOGoto, poolVars,
              Inv, TypeOK, IOInv, StreamTypes
<1>3. CASE ReadEnds(w) \/ Return(w)
  <2>1. \A c \in Clients : ~Writes(w, c) /\ ~Writes(w, c)'
    BY <1>0, <1>3 DEF ReadEnds, Return, IOGoto, Writes, InIO, IOInv
  <2>2. \A v \in Workers, c \in Clients : Writes(v, c)' <=> Writes(v, c)
    BY <1>2, <2>1 DEF Writes, InIO
  <2>3. \A v \in Workers, c \in Clients : Writes(v, c) => rbuf'[v] = rbuf[v]
    BY <1>2, <2>1
  <2> QED
    BY <1>1, <2>2, <2>3, Unseen DEF EchoInv
<1>4. CASE WriteClosed(w) \/ (WriteReset(w) /\ UNCHANGED alive)
  <2>1. UNCHANGED <<wpc, wtask, rbuf>> /\ wpc[w] = "run" /\ io[w] = "write" /\ peer[Conn(w)] # "open"
    BY <1>4 DEF WriteClosed, WriteReset, InIO, poolVars
  <2>2. PICK c0 \in Clients : wtask[w][2] = c0 /\ Conn(w) = c0
    BY <2>1, WorkerConn
  <2>3. c0 \in Ended
    BY <2>1, <2>2, EndedIs DEF EchoInv
  <2>4. ASSUME NEW c \in Clients PROVE Returning'[c] = Returning[c]
    <3>1. CASE c = c0
      BY <1>1, <2>3, <3>1 DEF Returning, Ended
    <3>2. CASE c # c0
      <4>1. \A v \in Workers : Writes(v, c)' <=> Writes(v, c)
        BY <1>2, <2>1, <2>2, <3>2 DEF Writes, InIO
      <4> QED
        BY <1>1, <2>1, <4>1, ReturningKept DEF EchoInv
    <3> QED
      BY <3>1, <3>2
  <2>5. Returning' = Returning
    BY <2>4 DEF Returning
  <2>6. Ended' = Ended /\ Received' = Received
    BY <1>1 DEF Ended, Received
  <2>7. ConnStates' = ConnStates /\ Attached'
    BY <1>1, ConnKept DEF EchoInv
  <2> QED
    BY <1>1, <2>5, <2>6, <2>7 DEF EchoMove, Echo!evars
<1> QED
  BY <1>3, <1>4

LEMMA ResetMoves == ASSUME EchoInv, StreamInv', alive, NEW w \in Workers, WriteReset(w),
                           alive' = FALSE
                    PROVE  EchoMove
<1>1. /\ wpc[w] = "run" /\ io[w] = "write" /\ peer[Conn(w)] # "open"
      /\ UNCHANGED <<wpc, wtask, io, rbuf, fdtab, backlog, up, down, cst, rcvd>>
  BY DEF WriteReset, InIO, poolVars, netVars, clientVars
<1>2. PICK c \in Clients : Conn(w) = c /\ ConnStates[c] = "open"
  BY <1>1, WorkerConn
<1>3. c \in Ended
  BY <1>1, <1>2, EndedIs DEF EchoInv
<1>4. ConnStates' = ConnStates /\ Attached'
  BY <1>1, ConnKept DEF EchoInv
<1>5. Returning' = Returning
  <2>1. \A d \in Clients : Returning'[d] = Returning[d]
    BY <1>1, ReturningKept DEF Writes, InIO, EchoInv
  <2> QED
    BY <2>1 DEF Returning
<1>6. Echo!Crash
  BY <1>1, <1>2, <1>3, <1>4, <1>5 DEF Echo!Crash, Ended, Received
<1> QED
  BY <1>4, <1>6 DEF EchoMove, Echo!Next

LEMMA CloseMoves == ASSUME EchoInv, StreamInv', alive, NEW w \in Workers, CloseSocket(w)
                    PROVE  EchoMove
<1>0. IOInv /\ OneHome
  BY DEF EchoInv, StreamInv, ServerInv
<1>1. /\ wpc[w] = "run" /\ io[w] = "close" /\ fdtab' = [fdtab EXCEPT ![Socket(w)] = Free]
      /\ io' = [io EXCEPT ![w] = "back"]
      /\ UNCHANGED <<wpc, wtask, rbuf, backlog, up, down, cst, rcvd, alive>>
  BY DEF CloseSocket, InIO, IOGoto, poolVars, netVars, clientVars
<1>2. PICK c \in Clients : /\ wtask[w][2] = c /\ Socket(w) \in Fds /\ fdtab[Socket(w)] = c
                           /\ ConnStates[c] = "open" /\ ~Queues(c) /\ cst[c] # "new"
  BY <1>1, WorkerConn
<1>3. cst[c] = "ended"
  BY <1>1, <1>2 DEF EchoInv, StreamInv, ServerInv, SawEnd
<1>4. \A d \in Clients : Holds(d)' <=> Holds(d) /\ d # c
  <2>1. \A f \in Fds : fdtab'[f] = IF f = Socket(w) THEN Free ELSE fdtab[f]
    BY <1>0, <1>1 DEF IOInv
  <2>2. \A f \in Fds : fdtab[f] = c => f = Socket(w)
    BY <1>0, <1>2, ServerAssumption DEF OneHome
  <2> QED
    BY <1>2, <2>1, <2>2, ServerAssumption DEF Holds
<1>5. ConnStates' = [ConnStates EXCEPT ![c] = "closed"]
  <2>1. ASSUME NEW d \in Clients
        PROVE  ConnState(d)' = IF d = c THEN "closed" ELSE ConnState(d)
    <3>1. (\E g \in Fds : fdtab'[g] = d) <=> (\E g \in Fds : fdtab[g] = d) /\ d # c
      BY <1>4 DEF Holds
    <3> QED
      BY <1>1, <1>2, <3>1 DEF ConnState, Queues
  <2> QED
    BY <2>1 DEF ConnStates
<1>6. Attached'
  BY <1>1, <1>3, <1>4 DEF EchoInv, Attached, Queues
<1>7. Returning' = Returning
  <2>1. \A v \in Workers, d \in Clients : Writes(v, d)' <=> Writes(v, d)
    BY <1>0, <1>1 DEF Writes, InIO, IOInv
  <2>2. \A d \in Clients : Returning'[d] = Returning[d]
    BY <1>1, <2>1, ReturningKept DEF EchoInv
  <2> QED
    BY <2>2 DEF Returning
<1>8. Echo!Hangup(c)
  BY <1>1, <1>2, <1>3, <1>5, <1>7 DEF Echo!Hangup, Ended, Received
<1> QED
  BY <1>1, <1>6, <1>8 DEF EchoMove, Echo!Next

(* write moves the text from the hand of the worker to what is under way.  *)
LEMMA WriteIdles == ASSUME EchoInv, StreamInv', NEW w \in Workers, WriteOpen(w) PROVE EchoMove
<1>0. IOInv /\ StreamTypes /\ OneHome /\ ServerInv /\ (OneHome /\ ServerInv)'
  BY DEF EchoInv, StreamInv, ServerInv
<1>1. /\ wpc[w] = "run" /\ io[w] = "write"
      /\ io' = [io EXCEPT ![w] = "read"]
      /\ down' = [down EXCEPT ![Conn(w)] = @ \o rbuf[w]]
      /\ UNCHANGED <<wpc, wtask, rbuf, fdtab, backlog, up, cst, rcvd, alive>>
  BY DEF WriteOpen, InIO, IOGoto, poolVars, clientVars
<1>2. PICK c0 \in Clients : wtask[w][2] = c0 /\ Conn(w) = c0
  BY <1>1, WorkerConn
<1>3. \A v \in Workers : Writes(v, c0) <=> v = w
  BY <1>0, <1>1, <1>2, OneWorker DEF Writes, InIO
<1>4. \A v \in Workers : ~Writes(v, c0)'
  BY <1>0, <1>1, <1>3 DEF Writes, InIO, IOInv
<1>5. InHand(c0) = rbuf[w] /\ InHand(c0)' = <<>>
  BY <1>0, <1>3, <1>4, HandIs, HandIsNext
<1>6. peer[c0] = "open" /\ c0 \notin Ended
  BY <1>2, EndedIs DEF WriteOpen, EchoInv
<1>7. ASSUME NEW c \in Clients PROVE Returning'[c] = Returning[c]
  <2>1. CASE c = c0
    <3>1. Returning[c] = down[c0] \o rbuf[w] /\ Returning'[c] = (down[c0] \o rbuf[w]) \o <<>>
      <4>1. down'[c0] = down[c0] \o rbuf[w] /\ c0 \notin Ended'
        BY <1>0, <1>1, <1>2, <1>6 DEF StreamTypes, Ended
      <4> QED
        BY <1>5, <1>6, <2>1, <4>1, Zenon DEF Returning
    <3>2. down[c0] \o rbuf[w] \in Stream
      BY <1>0, ConcatProperties DEF StreamTypes, Stream
    <3> DEFINE x == down[c0] \o rbuf[w]
    <3> HIDE DEF x
    <3>3. x \o <<>> = x
      BY <3>2, ConcatEmptySeq DEF x, Stream
    <3> QED
      BY <3>1, <3>3, Zenon DEF x
  <2>2. CASE c # c0
    <3>1. \A v \in Workers : Writes(v, c)' <=> Writes(v, c)
      BY <1>0, <1>1, <1>2, <2>2 DEF Writes, InIO, IOInv
    <3>2. down'[c] = down[c]
      BY <1>0, <1>1, <1>2, <2>2 DEF StreamTypes
    <3> QED
      BY <1>1, <3>1, <3>2, ReturningKept DEF EchoInv
  <2> QED
    BY <2>1, <2>2
<1>8. Returning' = Returning
  BY <1>7 DEF Returning
<1>9. ConnStates' = ConnStates /\ Attached'
  BY <1>1, ConnKept DEF EchoInv
<1> QED
  BY <1>1, <1>8, <1>9 DEF EchoMove, Echo!evars, Ended, Received

(* read takes what will be the reply. A client that has gone gets none.    *)
LEMMA ServeMoves == ASSUME EchoInv, StreamInv', alive, NEW w \in Workers, ReadData(w)
                    PROVE  EchoMove
<1>0. IOInv /\ StreamTypes /\ OneHome /\ ServerInv /\ (OneHome /\ ServerInv)'
  BY DEF EchoInv, StreamInv, ServerInv
<1>1. /\ wpc[w] = "run" /\ io[w] = "read"
      /\ io' = [io EXCEPT ![w] = "write"]
      /\ UNCHANGED <<wpc, wtask, fdtab, backlog, down, cst, rcvd, alive>>
  BY DEF ReadData, InIO, IOGoto, poolVars, clientVars
<1>2. PICK c0 \in Clients : wtask[w][2] = c0 /\ Conn(w) = c0 /\ ConnStates[c0] = "open"
  BY <1>1, WorkerConn
<1>3. PICK n \in 1 .. Len(up[c0]) :
        /\ rbuf' = [rbuf EXCEPT ![w] = SubSeq(up[c0], 1, n)]
        /\ up' = [up EXCEPT ![c0] = SubSeq(@, n + 1, Len(@))]
  BY <1>2 DEF ReadData
<1>4. \A v \in Workers : ~Writes(v, c0)
  <2> SUFFICES ASSUME NEW v \in Workers, Writes(v, c0) PROVE FALSE
    OBVIOUS
  <2>1. v = w
    BY <1>0, <1>1, <1>2, OneWorker DEF Writes, InIO
  <2> QED
    BY <1>1, <2>1 DEF Writes, InIO
<1>5. Writes(w, c0)'
  BY <1>0, <1>1, <1>2 DEF Writes, InIO, IOInv
<1>6. InHand(c0) = <<>> /\ InHand(c0)' = SubSeq(up[c0], 1, n)
  <2>1. rbuf'[w] = SubSeq(up[c0], 1, n)
    BY <1>0, <1>3 DEF StreamTypes
  <2> QED
    BY <1>0, <1>4, <1>5, <2>1, HandIs, HandIsNext
<1>7. ASSUME NEW c \in Clients, c # c0 PROVE Returning'[c] = Returning[c]
  <2>1. \A v \in Workers : Writes(v, c)' <=> Writes(v, c)
    BY <1>0, <1>1, <1>2, <1>7 DEF Writes, InIO, IOInv
  <2>2. \A v \in Workers : Writes(v, c) => rbuf'[v] = rbuf[v]
    BY <1>0, <1>2, <1>3, <1>7 DEF Writes, StreamTypes
  <2> QED
    BY <1>1, <2>1, <2>2, ReturningKept DEF EchoInv
<1>8. Returning[c0] = down[c0]
  <2>1. Returning[c0] = down[c0] \o <<>>
    BY <1>6, Zenon DEF Returning
  <2> QED
    BY <1>0, <2>1, ConcatEmptySeq DEF StreamTypes
<1>9. c0 \in Ended => Returning'[c0] = down[c0]
  <2>1. ASSUME c0 \in Ended PROVE Returning'[c0] = down[c0] \o <<>>
    <3>1. c0 \in Ended' /\ down'[c0] = down[c0]
      BY <1>1, <2>1 DEF Ended
    <3> QED
      BY <3>1, Zenon DEF Returning
  <2> QED
    BY <1>0, <2>1, ConcatEmptySeq DEF StreamTypes
<1>10. c0 \notin Ended => Returning'[c0] = down[c0] \o SubSeq(up[c0], 1, n)
  <2> SUFFICES ASSUME c0 \notin Ended PROVE Returning'[c0] = down[c0] \o SubSeq(up[c0], 1, n)
    OBVIOUS
  <2>1. c0 \notin Ended' /\ down'[c0] = down[c0]
    BY <1>1 DEF Ended
  <2> QED
    BY <1>6, <2>1, Zenon DEF Returning
<1>11. IF c0 \in Ended THEN UNCHANGED Returning
       ELSE Returning' = [Returning EXCEPT ![c0] = @ \o Reply(SubSeq(up[c0], 1, n))]
  <2>1. CASE c0 \in Ended
    <3>1. \A c \in Clients : Returning'[c] = Returning[c]
      BY <1>7, <1>8, <1>9, <2>1
    <3> QED
      BY <2>1, <3>1 DEF Returning
  <2>2. CASE c0 \notin Ended
    <3> DEFINE x == Returning[c0] \o Reply(SubSeq(up[c0], 1, n))
    <3>1. Returning'[c0] = x
      BY <1>8, <1>10, <2>2, Zenon DEF Reply
    <3> HIDE DEF x
    <3>2. Returning' = [Returning EXCEPT ![c0] = x]
      BY <1>7, <3>1 DEF Returning
    <3> QED
      BY <2>2, <3>2, Zenon DEF x
  <2> QED
    BY <2>1, <2>2
<1>12. ConnStates' = ConnStates /\ Attached'
  BY <1>1, ConnKept DEF EchoInv
<1>13. Echo!Serve(c0)
  <2>1. UNCHANGED <<ConnStates, Ended, Received, alive>>
    BY <1>1, <1>12 DEF Ended, Received
  <2> QED
    BY <1>2, <1>3, <1>11, <2>1 DEF Echo!Serve
<1> QED
  BY <1>1, <1>12, <1>13 DEF EchoMove, Echo!Next

(* The clients.                                                            *)
LEMMA ConnectMoves == ASSUME EchoInv, StreamInv', NEW c \in Clients, Connect(c) PROVE EchoMove
<1>0. IOInv /\ OneHome
  BY DEF EchoInv, StreamInv, ServerInv
<1>1. /\ cst[c] = "new" /\ backlog' = Append(backlog, c)
      /\ \A d \in Clients : cst'[d] = IF d = c THEN "ready" ELSE cst[d]
      /\ UNCHANGED <<wpc, wtask, io, rbuf, fdtab, up, down, rcvd, alive>>
  BY <1>0 DEF Connect, serverVars, poolVars, ioVars, netVars, IOInv
<1>2. /\ DOMAIN backlog' = DOMAIN backlog \cup {Len(backlog) + 1}
      /\ Len(backlog) + 1 \notin DOMAIN backlog
      /\ backlog'[Len(backlog) + 1] = c
      /\ \A i \in DOMAIN backlog : backlog'[i] = backlog[i]
  BY <1>0, <1>1 DEF IOInv
<1>3. \A d \in Clients : Queues(d)' <=> Queues(d) \/ d = c
  BY <1>2 DEF Queues
<1>4. ConnStates[c] = "none"
  BY <1>1 DEF ConnStates, ConnState
<1>5. ConnStates' = [ConnStates EXCEPT ![c] = "waiting"]
  <2>1. ASSUME NEW d \in Clients
        PROVE  ConnState(d)' = IF d = c THEN "waiting" ELSE ConnState(d)
    <3>1. (\E i \in DOMAIN backlog' : backlog'[i] = d) <=> (\E i \in DOMAIN backlog : backlog[i] = d) \/ d = c
      BY <1>3 DEF Queues
    <3> QED
      BY <1>1, <3>1 DEF ConnState
  <2> QED
    BY <2>1 DEF ConnStates
<1>6. Attached'
  BY <1>1, <1>3 DEF EchoInv, Attached, Holds
<1>7. Ended' = Ended /\ Received' = Received
  BY <1>1 DEF Ended, Received
<1>8. Returning' = Returning
  <2>1. \A d \in Clients : InHand(d)' = InHand(d)
    BY <1>1, HandKept DEF Writes, InIO, EchoInv, StreamInv
  <2> QED
    BY <1>1, <1>7, <2>1 DEF Returning
<1>9. Echo!Connect(c)
  BY <1>1, <1>4, <1>5, <1>7, <1>8 DEF Echo!Connect
<1> QED
  BY <1>6, <1>9 DEF EchoMove, Echo!Next

LEMMA SendMoves == ASSUME EchoInv, StreamInv', NEW c \in Clients, Send(c) PROVE EchoMove
<1>0. IOInv /\ StreamTypes
  BY DEF EchoInv, StreamInv, ServerInv
<1>1. /\ cst[c] = "ready"
      /\ \A d \in Clients : cst'[d] = IF d = c THEN "await" ELSE cst[d]
      /\ UNCHANGED <<wpc, wtask, io, rbuf, fdtab, backlog, down, rcvd, alive>>
  BY <1>0 DEF Send, serverVars, poolVars, ioVars, IOInv
<1>2. PICK n \in LineLens : /\ sent[c] + n <= MaxUnits
                            /\ up' = [up EXCEPT ![c] = @ \o Stretch(c, sent[c], n)]
  BY DEF Send
<1>3. Stretch(c, sent[c], n) \in Messages(c)
  <2>1. sent[c] \in 0 .. MaxUnits
    BY <1>0, <1>2, ServerAssumption DEF StreamTypes
  <2> QED
    BY <2>1 DEF Messages
<1>4. ConnStates[c] \in {"waiting", "open"} /\ c \notin Ended
  BY <1>1 DEF EchoInv, Attached, Queues, Holds, ConnStates, ConnState, Ended
<1>5. ConnStates' = ConnStates /\ Attached'
  BY <1>1, ConnKept DEF EchoInv
<1>6. Ended' = Ended /\ Received' = Received
  BY <1>1 DEF Ended, Received
<1>7. Returning' = Returning
  <2>1. \A d \in Clients : InHand(d)' = InHand(d)
    BY <1>1, HandKept DEF Writes, InIO, EchoInv, StreamInv
  <2> QED
    BY <1>1, <1>6, <2>1 DEF Returning
<1>8. Echo!Say(c)
  BY <1>1, <1>2, <1>3, <1>4, <1>5, <1>6, <1>7 DEF Echo!Say
<1> QED
  BY <1>5, <1>8 DEF EchoMove, Echo!Next

(* The beginning of a stretch, and what is left of two joined streams.     *)
LEMMA FrontOfStretch == ASSUME NEW c \in Clients, NEW a \in Nat, NEW m \in Nat,
                               NEW d \in Stream, NEW r \in Stream,
                               d \o r = Stretch(c, a, m), NEW n \in 0 .. Len(d)
                        PROVE  SubSeq(d, 1, n) = Stretch(c, a, n)
<1> DEFINE U == Clients \X Nat
           x == d \o r
           p == SubSeq(d, 1, n)
           t == Stretch(c, a, n)
<1> HIDE DEF U, x, p, t
<1>1. d \in Seq(U) /\ r \in Seq(U) /\ Len(d) \in Nat /\ Len(r) \in Nat
  BY DEF U, Stream
<1>2. Len(x) = m /\ \A i \in 1 .. m : x[i] = <<c, a + i>>
  BY DEF x, Stretch
<1>3. /\ Len(x) = Len(d) + Len(r)
      /\ \A i \in 1 .. (Len(d) + Len(r)) : x[i] = IF i <= Len(d) THEN d[i] ELSE r[i - Len(d)]
  BY <1>1, ConcatProperties DEF x
<1>4. p \in Seq(U) /\ Len(p) = n /\ \A i \in 1 .. n : p[i] = d[i]
  BY <1>1 DEF p
<1>5. t \in Seq(U) /\ Len(t) = n /\ \A i \in 1 .. n : t[i] = <<c, a + i>>
  BY DEF t, Stretch, U
<1>6. ASSUME NEW i \in 1 .. n PROVE p[i] = t[i]
  <2>1. i \in 1 .. (Len(d) + Len(r)) /\ i <= Len(d) /\ i \in 1 .. m
    BY <1>1, <1>2, <1>3
  <2>2. x[i] = d[i]
    BY <1>3, <2>1
  <2> QED
    BY <1>2, <1>4, <1>5, <2>1, <2>2
<1>7. p = t
  BY <1>4, <1>5, <1>6, SeqEqual
<1> QED
  BY <1>7 DEF p, t

LEMMA RestOfJoin == ASSUME NEW d \in Stream, NEW h \in Stream, NEW n \in 0 .. Len(d)
                    PROVE  /\ n <= Len(d \o h)
                           /\ After(d \o h, n) = After(d, n) \o h
<1> DEFINE U == Clients \X Nat
           x == d \o h
           e == After(d, n)
           y == e \o h
           z == After(x, n)
<1> HIDE DEF U, x, e, y, z
<1>1. d \in Seq(U) /\ h \in Seq(U) /\ Len(d) \in Nat /\ Len(h) \in Nat
  BY DEF U, Stream
<1>2. /\ x \in Seq(U) /\ Len(x) = Len(d) + Len(h)
      /\ \A i \in 1 .. (Len(d) + Len(h)) : x[i] = IF i <= Len(d) THEN d[i] ELSE h[i - Len(d)]
  BY <1>1, ConcatProperties DEF x
<1>3. n \in Nat /\ n <= Len(d) /\ n <= Len(x) /\ Len(d) - n \in Nat
  BY <1>1, <1>2
<1>4. e \in Seq(U) /\ Len(e) = Len(d) - n /\ \A i \in 1 .. (Len(d) - n) : e[i] = d[i + n]
  BY <1>1, <1>3 DEF e, After
<1>5. /\ y \in Seq(U) /\ Len(y) = Len(e) + Len(h)
      /\ \A i \in 1 .. (Len(e) + Len(h)) : y[i] = IF i <= Len(e) THEN e[i] ELSE h[i - Len(e)]
  BY <1>1, <1>4, ConcatProperties DEF y
<1>6. z \in Seq(U) /\ Len(z) = Len(x) - n /\ \A i \in 1 .. (Len(x) - n) : z[i] = x[i + n]
  BY <1>2, <1>3 DEF z, After
<1>7. Len(z) = Len(y)
  BY <1>1, <1>2, <1>3, <1>4, <1>5, <1>6
<1>8. ASSUME NEW i \in 1 .. Len(z) PROVE z[i] = y[i]
  <2>1. i \in 1 .. (Len(e) + Len(h)) /\ i + n \in 1 .. (Len(d) + Len(h)) /\ z[i] = x[i + n]
    <3>1. Len(z) = (Len(d) + Len(h)) - n /\ Len(e) + Len(h) = Len(z) /\ n \in Nat
      BY <1>1, <1>2, <1>3, <1>4, <1>5, <1>6, <1>7
    <3>2. i \in 1 .. (Len(x) - n) /\ i \in Nat /\ i <= Len(z) /\ i >= 1
      BY <1>2, <1>6, <3>1
    <3>3. z[i] = x[i + n]
      BY <1>6, <3>2
    <3> QED
      BY <1>1, <3>1, <3>2, <3>3
  <2>2. CASE i <= Len(e)
    <3>1. i + n <= Len(d) /\ i \in 1 .. (Len(d) - n)
      BY <1>3, <1>4, <2>1, <2>2
    <3> QED
      BY <1>2, <1>4, <1>5, <2>1, <2>2, <3>1
  <2>3. CASE ~(i <= Len(e))
    <3>1. ~(i + n <= Len(d)) /\ (i + n) - Len(d) = i - Len(e)
      BY <1>1, <1>3, <1>4, <2>1, <2>3
    <3> QED
      BY <1>2, <1>5, <2>1, <2>3, <3>1
  <2> QED
    BY <2>2, <2>3
<1>9. z = y
  BY <1>5, <1>6, <1>7, <1>8, SeqEqual
<1> QED
  BY <1>3, <1>9 DEF x, y, z, e

LEMMA ReceiveMoves == ASSUME EchoInv, StreamInv', NEW c \in Clients, Receive(c) PROVE EchoMove
<1>0. IOInv /\ StreamTypes /\ ServerInv /\ OneHome /\ StreamOf(c)
  BY DEF EchoInv, StreamInv, ServerInv
<1>1. /\ cst[c] = "await"
      /\ \A b \in Clients : cst'[b] = IF b = c THEN "ready" ELSE cst[b]
      /\ UNCHANGED <<wpc, wtask, io, rbuf, fdtab, backlog, up, alive>>
  BY <1>0 DEF Receive, serverVars, poolVars, ioVars, IOInv
<1>2. PICK n \in 1 .. Len(down[c]) :
        /\ down' = [down EXCEPT ![c] = SubSeq(@, n + 1, Len(@))]
        /\ rcvd' = [rcvd EXCEPT ![c] = @ + n]
  BY DEF Receive
<1> DEFINE d == down[c]
           h == InHand(c)
           u == up[c]
           x == d \o h
           a == rcvd[c]
<1> HIDE DEF d, h, u, x, a
<1>3. /\ d \in Stream /\ h \in Stream /\ u \in Stream /\ a \in Nat /\ Len(d) \in Nat
      /\ sent[c] - a \in Nat
  <2>1. h \in Stream
    BY <1>0, HandTyped DEF Stream, h
  <2>2. d \in Stream /\ u \in Stream /\ Len(d) \in Nat
    BY <1>0 DEF StreamTypes, Stream, d, u
  <2>3. a \in Nat /\ sent[c] \in Nat /\ a <= sent[c]
    BY <1>0 DEF StreamTypes, a
  <2> QED
    BY <2>1, <2>2, <2>3
<1>4. n \in 0 .. Len(d) /\ n \in Nat /\ n >= 1
  BY <1>2, <1>3 DEF d
<1>5. x \in Stream
  BY <1>3, Regroup DEF x
<1>6. n <= Len(x) /\ After(x, n) = After(d, n) \o h
  BY <1>3, <1>4, RestOfJoin DEF x
<1>7. n \in 0 .. Len(x) /\ n \in 1 .. Len(x)
  BY <1>4, <1>5, <1>6 DEF Stream
<1>8. SubSeq(x, 1, n) = Stretch(c, a, n)
  <2>1. x \o u = Stretch(c, a, sent[c] - a)
    BY <1>0, <1>1 DEF StreamOf, InTransit, x, d, h, u, a
  <2> DEFINE m == sent[c] - a
  <2> HIDE DEF m
  <2>2. m \in Nat /\ x \o u = Stretch(c, a, m)
    BY <1>3, <2>1 DEF m
  <2> QED
    BY <1>3, <1>5, <1>7, <2>2, FrontOfStretch
<1>9. c \notin Ended /\ c \notin Ended' /\ Ended' = Ended
  BY <1>1 DEF Ended
<1>10. \A b \in Clients : InHand(b)' = InHand(b)
  BY <1>1, HandKept DEF Writes, InIO, EchoInv, StreamInv
<1>11. Returning[c] = x
  BY <1>9, Zenon DEF Returning, x, d, h
<1>12. Returning'[c] = After(x, n)
  <2>1. down'[c] = After(d, n) /\ InHand(c)' = h
    BY <1>0, <1>2, <1>10 DEF StreamTypes, After, d, h
  <2>2. Returning'[c] = After(d, n) \o h
    BY <1>9, <2>1, Zenon DEF Returning
  <2> QED
    BY <1>6, <2>2, Zenon
<1>13. \A b \in Clients \ {c} : Returning'[b] = Returning[b]
  <2>1. \A b \in Clients \ {c} : down'[b] = down[b]
    BY <1>0, <1>2 DEF StreamTypes
  <2> QED
    BY <1>9, <1>10, <2>1 DEF Returning
<1>14. Returning' = [Returning EXCEPT ![c] = SubSeq(@, n + 1, Len(@))]
  <2>1. Returning'[c] = SubSeq(Returning[c], n + 1, Len(Returning[c]))
    BY <1>11, <1>12, Zenon DEF After
  <2> QED
    BY <1>13, <2>1 DEF Returning
<1>15. Received' = [Received EXCEPT ![c] = @ \o SubSeq(Returning[c], 1, n)]
  <2>1. rcvd'[c] = a + n /\ \A b \in Clients \ {c} : rcvd'[b] = rcvd[b]
    BY <1>0, <1>2 DEF StreamTypes, a
  <2>2. Stretch(c, 0, a) \o Stretch(c, a, n) = Stretch(c, 0, a + n)
    <3>1. 0 \in Nat /\ \A i \in 1 .. n : 0 + a + i = a + i
      BY <1>3
    <3>2. Stretch(c, a, n) = [i \in 1 .. n |-> <<c, 0 + a + i>>]
      BY <3>1 DEF Stretch
    <3>3. Stretch(c, 0, a) \o [i \in 1 .. n |-> <<c, 0 + a + i>>] = Stretch(c, 0, a + n)
      BY <1>3, <1>4, <3>1, StretchGrows
    <3> QED
      BY <3>2, <3>3, Zenon
  <2>3. Received'[c] = Received[c] \o SubSeq(Returning[c], 1, n)
    <3>1. Received'[c] = Stretch(c, 0, a + n) /\ Received[c] = Stretch(c, 0, a)
      BY <2>1, Zenon DEF Received, a
    <3> QED
      BY <1>8, <1>11, <2>2, <3>1, Zenon
  <2>4. \A b \in Clients \ {c} : Received'[b] = Received[b]
    BY <2>1 DEF Received
  <2> DEFINE r == Received[c] \o SubSeq(Returning[c], 1, n)
  <2>5. Received'[c] = r
    BY <2>3
  <2> HIDE DEF r
  <2>6. Received' = [Received EXCEPT ![c] = r]
    BY <2>4, <2>5 DEF Received
  <2> QED
    BY <2>6, Zenon DEF r
<1>16. ConnStates' = ConnStates /\ Attached'
  BY <1>1, ConnKept DEF EchoInv
<1>17. Echo!Hear(c)
  <2>1. n \in 1 .. Len(Returning[c])
    BY <1>7, <1>11, Zenon
  <2> QED
    BY <1>1, <1>9, <1>14, <1>15, <1>16, <2>1 DEF Echo!Hear
<1> QED
  BY <1>16, <1>17 DEF EchoMove, Echo!Next

LEMMA LeaveMoves == ASSUME EchoInv, StreamInv', NEW c \in Clients, Kill(c) \/ Disconnected(c)
                    PROVE  EchoMove
<1>0. IOInv /\ StreamTypes
  BY DEF EchoInv, StreamInv, ServerInv
<1>1. /\ cst[c] \in {"ready", "await"} /\ down' = [down EXCEPT ![c] = <<>>]
      /\ \A d \in Clients : cst'[d] = IF d = c THEN "ended" ELSE cst[d]
      /\ UNCHANGED <<wpc, wtask, io, rbuf, fdtab, backlog, up, rcvd, alive>>
  BY <1>0 DEF Kill, Disconnected, Hangup, serverVars, poolVars, ioVars, IOInv
<1>2. ConnStates[c] # "none" /\ c \notin Ended /\ Ended' = Ended \cup {c}
  BY <1>1 DEF ConnStates, ConnState, Ended
<1>3. ConnStates' = ConnStates /\ Attached'
  BY <1>1, ConnKept DEF EchoInv
<1>4. Returning'[c] = <<>>
  <2>1. down'[c] = <<>> /\ c \in Ended'
    BY <1>0, <1>1, <1>2 DEF StreamTypes
  <2>2. Returning'[c] = <<>> \o <<>>
    BY <2>1, Zenon DEF Returning
  <2> QED
    BY <2>2
<1>5. ASSUME NEW d \in Clients \ {c} PROVE Returning'[d] = Returning[d]
  <2>1. down'[d] = down[d] /\ cst'[d] = cst[d]
    BY <1>0, <1>1 DEF StreamTypes
  <2> QED
    BY <1>1, <2>1, ReturningKept DEF Writes, InIO, EchoInv
<1>6. Returning' = [Returning EXCEPT ![c] = <<>>]
  BY <1>4, <1>5 DEF Returning
<1>7. Echo!Leave(c)
  BY <1>1, <1>2, <1>3, <1>6 DEF Echo!Leave, Received
<1> QED
  BY <1>3, <1>7 DEF EchoMove, Echo!Next

LEMMA EchoStart == ServerInit => Attached /\ Echo!Init
<1> SUFFICES ASSUME ServerInit PROVE Attached /\ Echo!Init
  OBVIOUS
<1>1. Attached
  BY DEF ServerInit, Attached
<1>2. ConnStates = [c \in Clients |-> "none"] /\ Ended = {}
  BY DEF ServerInit, ConnStates, ConnState, Ended
<1>3. Returning = [c \in Clients |-> <<>>]
  <2>1. ServerInv /\ OneHome
    BY StreamInit DEF StreamInv
  <2>2. \A c \in Clients : InHand(c) = <<>>
    BY <2>1, HandIs DEF ServerInit, Writes, InIO
  <2>3. \A c \in Clients : Returning[c] = <<>> \o <<>>
    BY <2>2 DEF ServerInit, Returning
  <2>4. <<>> \o <<>> = <<>>
    OBVIOUS
  <2> QED
    BY <2>3, <2>4, Zenon DEF Returning
<1>4. Received = [c \in Clients |-> <<>>]
  <2>1. \A c \in Clients : Received[c] = <<>>
    BY DEF ServerInit, Received, Stretch
  <2> QED
    BY <2>1, Zenon DEF Received
<1> QED
  BY <1>1, <1>2, <1>3, <1>4 DEF ServerInit, Echo!Init

(* Each step of the server is one of an echo service, or none.             *)
LEMMA EchoStep == StreamInv /\ StreamInv' /\ Attached /\ [ServerNext]_vars => EchoMove
<1> SUFFICES ASSUME StreamInv, StreamInv', Attached, [ServerNext]_vars PROVE EchoMove
  OBVIOUS
<1> USE DEF EchoInv
<1>1. CASE PoolStep
  BY <1>1, PoolMoves
<1>2. ASSUME NEW f \in Fds, alive, Accept(f) PROVE EchoMove
  BY <1>2, AcceptMoves
<1>3. ASSUME NEW w \in Workers, alive, SocketIO(w) PROVE EchoMove
  <2>1. CASE WriteReset(w)
    BY <1>3, <2>1, WorkerIdles, ResetMoves DEF WriteReset
  <2> QED
    BY <1>3, <2>1, ServeMoves, WorkerIdles, WriteIdles, CloseMoves DEF SocketIO
<1>4. ASSUME NEW c \in Clients, ClientStep(c) PROVE EchoMove
  BY <1>4, ConnectMoves, SendMoves, ReceiveMoves, LeaveMoves DEF ClientStep
<1>5. CASE UNCHANGED vars
  <2>1. UNCHANGED <<wpc, wtask, io, rbuf, fdtab, backlog, up, down, cst, rcvd, alive>>
    BY <1>5 DEF vars, poolVars, ioVars, netVars, clientVars
  <2> QED
    BY <2>1, Unseen DEF Writes, InIO
<1> QED
  BY <1>1, <1>2, <1>3, <1>4, <1>5 DEF ServerNext, ServerStep

(* For any workers, descriptors, clients, lines and cuts of the streams,   *)
(* each step of the server is one of an echo service, or none: nobody      *)
(* outside can tell the pool, its queue and its workers from one server    *)
(* that reads and answers at once.                                         *)
THEOREM ServerIsEcho == ServerSpec => ImplementsEcho
<1>1. StreamInv /\ StreamInv' /\ Attached /\ [ServerNext]_vars
        => Attached' /\ [Echo!Next]_(Echo!evars)
  BY EchoStep DEF EchoMove
<1> QED
  BY <1>1, EchoStart, StreamInit, StreamNext, PTL DEF ServerSpec, ImplementsEcho, Echo!Spec
-----------------------------------------------------------------------------
(* SIGPIPE. A write to a reset connection ends the process. When the line  *)
(* of a client fits one read there is one unit of it at a time anywhere,   *)
(* so a connection that is reset has nothing left that could be echoed.    *)

LinesFit == LineLens \subseteq {0, 1}

(* The connection is reset when its client leaves an answer unread, or by  *)
(* the answer written after the client had left: the one unit it ever had  *)
(* in transit.                                                             *)
QuietInv ==
  /\ alive
  /\ \A c \in Clients : cst[c] \in {"new", "ready"} => sent[c] = rcvd[c]
  /\ \A c \in Clients : cst[c] = "await" => sent[c] - rcvd[c] <= 1
  /\ \A w \in Workers : io[w] = "write" => rbuf[w] # <<>>
  /\ \A c \in Clients : peer[c] = "fin" =>
       /\ Len(up[c]) <= 1
       /\ \A w \in Workers : Writes(w, c) => up[c] = <<>>
  /\ \A c \in Clients : peer[c] = "rst" =>
       /\ up[c] = <<>>
       /\ \A w \in Workers : ~Writes(w, c)

(* With a client that is there, at most one unit is anywhere.              *)
LEMMA OneInTransit == ASSUME StreamInv, QuietInv, NEW c \in Clients, peer[c] = "open"
                      PROVE  /\ Len(up[c]) <= 1
                             /\ down[c] # <<>> => up[c] = <<>> /\ InHand(c) = <<>>
                             /\ InHand(c) # <<>> => up[c] = <<>>
<1> DEFINE d == down[c]
           h == InHand(c)
           u == up[c]
           m == sent[c] - rcvd[c]
<1> HIDE DEF d, h, u, m
<1>1. cst[c] # "ended" /\ cst[c] \in {"new", "ready", "await", "ended"}
  BY DEF StreamInv, ServerInv, IOInv, StreamTypes
<1>2. sent[c] \in Nat /\ rcvd[c] \in Nat /\ rcvd[c] <= sent[c]
  BY DEF StreamInv, StreamTypes
<1>3. m \in 0 .. 1
  BY <1>1, <1>2 DEF QuietInv, m
<1>4. d \in Stream /\ h \in Stream /\ u \in Stream
  BY HandTyped DEF StreamInv, StreamTypes, Stream, d, h, u
<1>5. (d \o h) \o u = Stretch(c, rcvd[c], m)
  BY <1>1 DEF StreamInv, StreamOf, InTransit, d, h, u, m
<1>6. Len(Stretch(c, rcvd[c], m)) = m
  BY <1>3 DEF Stretch
<1>7. /\ Len(d) \in Nat /\ Len(h) \in Nat /\ Len(u) \in Nat
      /\ Len(d) = 0 => d = <<>>
      /\ Len(h) = 0 => h = <<>>
      /\ Len(u) = 0 => u = <<>>
  BY <1>4 DEF Stream
<1>8. Len((d \o h) \o u) = (Len(d) + Len(h)) + Len(u)
  <2>1. d \o h \in Stream /\ Len(d \o h) = Len(d) + Len(h)
    BY <1>4, ConcatProperties DEF Stream
  <2> DEFINE f == d \o h
  <2> HIDE DEF f
  <2>2. f \in Stream
    BY <2>1 DEF f
  <2>3. Len(f \o u) = Len(f) + Len(u)
    BY <1>4, <2>2, ConcatProperties DEF Stream
  <2> QED
    BY <2>1, <2>3 DEF f
<1>9. (Len(d) + Len(h)) + Len(u) <= 1
  BY <1>3, <1>5, <1>6, <1>8
<1>10. /\ Len(u) <= 1
       /\ d # <<>> => u = <<>> /\ h = <<>>
       /\ h # <<>> => u = <<>>
  BY <1>7, <1>9
<1> QED
  BY <1>10 DEF d, h, u

(* What QuietInv says of one client, for a step that is not about it.      *)
QuietOf(c) == /\ cst[c] \in {"new", "ready"} => sent[c] = rcvd[c]
              /\ cst[c] = "await" => sent[c] - rcvd[c] <= 1
              /\ peer[c] = "fin" =>
                   /\ Len(up[c]) <= 1
                   /\ \A w \in Workers : Writes(w, c) => up[c] = <<>>
              /\ peer[c] = "rst" =>
                   /\ up[c] = <<>>
                   /\ \A w \in Workers : ~Writes(w, c)

LEMMA QuietParts == QuietInv <=> /\ alive
                                 /\ \A w \in Workers : io[w] = "write" => rbuf[w] # <<>>
                                 /\ \A c \in Clients : QuietOf(c)
BY DEF QuietInv, QuietOf

LEMMA QuietPartsNext == (/\ alive
                         /\ \A w \in Workers : io[w] = "write" => rbuf[w] # <<>>
                         /\ \A c \in Clients : QuietOf(c))'
                          => QuietInv'
BY QuietParts, PTL

LEMMA QuietKept == ASSUME NEW c \in Clients, QuietOf(c),
                          \A w \in Workers : Writes(w, c)' => Writes(w, c),
                          up'[c] = up[c], peer'[c] = peer[c],
                          sent'[c] = sent[c], rcvd'[c] = rcvd[c], cst'[c] = cst[c]
                   PROVE  QuietOf(c)'
BY DEF QuietOf

(* A worker that writes for c has something in its hands.                  *)
LEMMA WriterHolds == ASSUME StreamInv, QuietInv, NEW w \in Workers, NEW c \in Clients,
                            Writes(w, c)
                     PROVE  InHand(c) # <<>>
<1>1. InHand(c) = rbuf[w]
  BY HandIs DEF StreamInv
<1> QED
  BY <1>1 DEF QuietInv, Writes, InIO

(* read: after it there is nothing more to read from who has left.         *)
LEMMA QuietRead == ASSUME StreamInv, QuietInv, NEW w \in Workers, ReadData(w)
                   PROVE  QuietInv'
<1> DEFINE c0 == wtask[w][2]
<1>1. /\ wpc[w] = "run" /\ io[w] = "read"
      /\ c0 \in Clients /\ Conn(w) = c0
      /\ wpc' = wpc /\ wtask' = wtask /\ io' = [io EXCEPT ![w] = "write"]
      /\ UNCHANGED <<down, sent, rcvd, cst, peer, alive>>
  BY WorkerOwns DEF ReadData, InIO, IOGoto, poolVars, clientVars, StreamInv, ServerInv
<1>2. PICK n \in 1 .. Len(up[c0]) :
        /\ rbuf' = [rbuf EXCEPT ![w] = SubSeq(up[c0], 1, n)]
        /\ up' = [up EXCEPT ![c0] = SubSeq(@, n + 1, Len(@))]
  BY <1>1 DEF ReadData
<1>3. io \in [Workers -> {"read", "write", "close", "back"}]
  BY DEF StreamInv, ServerInv, IOInv
<1>4. /\ rbuf \in [Workers -> Seq(Clients \X Nat)] /\ up \in [Clients -> Seq(Clients \X Nat)]
  BY DEF StreamInv, StreamTypes
<1>5. up[c0] \in Seq(Clients \X Nat) /\ Len(up[c0]) \in Nat
  BY <1>1, <1>4
<1>6. n \in Nat /\ n >= 1 /\ n <= Len(up[c0]) /\ n \in 0 .. Len(up[c0])
  BY <1>5
<1>7. /\ Len(SubSeq(up[c0], 1, n)) = n
      /\ SubSeq(up[c0], n + 1, Len(up[c0])) \in Seq(Clients \X Nat)
      /\ Len(SubSeq(up[c0], n + 1, Len(up[c0]))) = Len(up[c0]) - n
  BY <1>5, <1>6, CutInTwo
<1>8. SubSeq(up[c0], 1, n) # <<>>
  <2>1. Len(<<>>) = 0
    OBVIOUS
  <2> QED
    BY <1>6, <1>7, <2>1
<1>9. \A v \in Workers : io'[v] = "write" => rbuf'[v] # <<>>
  BY <1>1, <1>2, <1>3, <1>4, <1>8 DEF QuietInv
<1>10. ASSUME NEW c \in Clients PROVE QuietOf(c)'
  <2>1. CASE c # c0
    <3>1. \A v \in Workers : Writes(v, c)' => Writes(v, c)
      BY <1>1, <1>3, <2>1 DEF Writes, InIO
    <3> QED
      BY <1>1, <1>2, <1>4, <2>1, <3>1, QuietParts, QuietKept
  <2>2. CASE c = c0
    <3>1. peer[c] # "rst"
      <4>1. up[c] # <<>>
        BY <1>6, <2>2
      <4> QED
        BY <4>1 DEF QuietInv
    <3>2. peer[c] = "fin" => up'[c] = <<>>
      <4> SUFFICES ASSUME peer[c] = "fin" PROVE up'[c] = <<>>
        OBVIOUS
      <4>1. Len(up[c0]) <= 1
        BY <2>2 DEF QuietInv
      <4>2. Len(up[c0]) - n = 0
        BY <1>5, <1>6, <4>1
      <4>3. SubSeq(up[c0], n + 1, Len(up[c0])) = <<>>
        BY <1>7, <4>2
      <4> QED
        BY <1>2, <1>4, <2>2, <4>3
    <3>3. up'[c] = <<>> => Len(up'[c]) <= 1
      OBVIOUS
    <3>4. QuietOf(c)
      BY QuietParts
    <3> QED
      BY <1>1, <2>2, <3>1, <3>2, <3>3, <3>4 DEF QuietOf
  <2> QED
    BY <2>1, <2>2
<1> QED
  BY <1>1, <1>9, <1>10, QuietPartsNext DEF QuietInv

(* write: who has left had one unit, and now there is none.                *)
LEMMA QuietWrite == ASSUME StreamInv, QuietInv, NEW w \in Workers,
                           WriteOpen(w) \/ WriteClosed(w) \/ WriteReset(w)
                    PROVE  QuietInv'
<1> DEFINE c0 == wtask[w][2]
<1>1. /\ wpc[w] = "run" /\ io[w] = "write"
      /\ c0 \in Clients /\ Conn(w) = c0
  BY WorkerOwns DEF WriteOpen, WriteClosed, WriteReset, InIO, StreamInv, ServerInv
<1>2. Writes(w, c0)
  BY <1>1 DEF Writes, InIO
<1>3. peer[c0] # "rst"
  BY <1>1, <1>2 DEF QuietInv
<1>4. /\ wpc' = wpc /\ wtask' = wtask /\ io' = [io EXCEPT ![w] = "read"]
      /\ UNCHANGED <<up, rbuf, sent, rcvd, cst, alive>>
      /\ \/ peer' = peer
         \/ peer[c0] = "fin" /\ peer' = [peer EXCEPT ![c0] = "rst"]
  BY <1>1, <1>3 DEF WriteOpen, WriteClosed, WriteReset, IOGoto, poolVars, clientVars
<1>5. io \in [Workers -> {"read", "write", "close", "back"}] /\ peer \in [Clients -> {"open", "fin", "rst"}]
  BY DEF StreamInv, ServerInv, IOInv
<1>6. \A v \in Workers : io'[v] = "write" => rbuf'[v] # <<>>
  BY <1>4, <1>5 DEF QuietInv
<1>7. \A v \in Workers, c \in Clients : Writes(v, c)' => Writes(v, c)
  BY <1>4, <1>5 DEF Writes, InIO
<1>8. ASSUME NEW c \in Clients PROVE QuietOf(c)'
  <2>0. QuietOf(c)
    BY QuietParts
  <2>1. CASE peer'[c] = peer[c]
    BY <1>4, <1>7, <2>0, <2>1, QuietKept
  <2>2. CASE peer'[c] # peer[c]
    <3>1. c = c0 /\ peer[c] = "fin"
      BY <1>1, <1>4, <1>5, <2>2
    <3>2. up[c] = <<>>
      BY <1>2, <3>1 DEF QuietInv
    <3>3. \A v \in Workers : ~Writes(v, c)'
      <4> SUFFICES ASSUME NEW v \in Workers, Writes(v, c)' PROVE FALSE
        OBVIOUS
      <4>1. v # w /\ Writes(v, c)
        BY <1>4, <1>5, <1>7 DEF Writes, InIO
      <4>2. v = w
        BY <1>1, <3>1, <4>1, OneWorker DEF Writes, InIO, StreamInv
      <4> QED
        BY <4>1, <4>2
    <3>4. Len(up[c]) <= 1
      BY <3>2
    <3> QED
      BY <1>4, <2>0, <3>2, <3>3, <3>4 DEF QuietOf
  <2> QED
    BY <2>1, <2>2
<1> QED
  BY <1>4, <1>6, <1>8, QuietPartsNext DEF QuietInv

(* No step with lines that fit a read ends the server.                     *)
LEMMA QuietNext == ASSUME LinesFit, StreamInv, StreamInv', QuietInv, [ServerNext]_vars
                   PROVE  QuietInv'
<1>0. /\ ServerInv /\ Inv /\ IOInv /\ StreamTypes
      /\ alive /\ \A w \in Workers : io[w] = "write" => rbuf[w] # <<>>
      /\ \A c \in Clients : QuietOf(c)
  BY QuietParts DEF StreamInv, ServerInv, QuietInv
<1>1. CASE PoolStep
  <2>1. UNCHANGED <<io, rbuf, up, peer, sent, rcvd, cst, alive>>
    BY <1>1 DEF PoolStep, ioVars, netVars, clientVars
  <2>2. \A w \in Workers : io[w] = "write" => wpc[w] = "run" /\ wtask'[w] = wtask[w]
    BY <1>0, <1>1
       DEF PoolStep, PoolNext, PoolWorkerStep, PushStep, Lock, TestEmpty, CondWait,
           SpuriousWakeup, Relock, Pop, Unlock, StartWorker, PushLock, PushEnqueue,
           PushSignal, PushUnlock, workerVars, Inv, TypeOK, IOInv
  <2>3. \A w \in Workers, c \in Clients : Writes(w, c)' => Writes(w, c)
    BY <2>1, <2>2 DEF Writes, InIO
  <2>4. ASSUME NEW c \in Clients PROVE QuietOf(c)'
    <3>1. QuietOf(c) /\ \A v \in Workers : Writes(v, c)' => Writes(v, c)
      BY <1>0, <2>1, <2>3
    <3> QED
      BY <2>1, <3>1, QuietKept
  <2> QED
    BY <1>0, <2>1, <2>4, QuietPartsNext
<1>2. ASSUME NEW f \in Fds, Accept(f) PROVE QuietInv'
  <2>1. UNCHANGED <<wpc, wtask, io, rbuf, up, peer, sent, rcvd, cst, alive>>
    BY <1>2 DEF Accept, PushCall, workerVars, ioVars, netVars, clientVars
  <2>2. ASSUME NEW c \in Clients PROVE QuietOf(c)'
    <3>1. QuietOf(c) /\ \A v \in Workers : Writes(v, c)' => Writes(v, c)
      BY <1>0, <2>1 DEF Writes, InIO
    <3> QED
      BY <2>1, <3>1, QuietKept
  <2> QED
    BY <1>0, <2>1, <2>2, QuietPartsNext
<1>3. ASSUME NEW w \in Workers, ReadEnds(w) \/ CloseSocket(w) PROVE QuietInv'
  <2>1. UNCHANGED <<wpc, wtask, rbuf, up, peer, sent, rcvd, cst, alive>>
    BY <1>3 DEF ReadEnds, CloseSocket, poolVars, netVars, clientVars
  <2>2. \A v \in Workers : io'[v] = "write" => io[v] = "write"
    BY <1>0, <1>3 DEF ReadEnds, CloseSocket, InIO, IOGoto, IOInv
  <2>3. ASSUME NEW c \in Clients PROVE QuietOf(c)'
    <3>1. QuietOf(c) /\ \A v \in Workers : Writes(v, c)' => Writes(v, c)
      BY <1>0, <2>1, <2>2 DEF Writes, InIO
    <3> QED
      BY <2>1, <3>1, QuietKept
  <2> QED
    BY <1>0, <2>1, <2>2, <2>3, QuietPartsNext
<1>4. ASSUME NEW w \in Workers, Return(w) PROVE QuietInv'
  <2>1. UNCHANGED <<up, peer, sent, rcvd, cst, alive>>
    BY <1>4 DEF Return, netVars, clientVars
  <2>2. io'[w] # "write"
    BY <1>0, <1>4 DEF Return, IOGoto, IOInv
  <2>3. \A v \in Workers \ {w} : /\ io'[v] = io[v] /\ wpc'[v] = wpc[v] /\ wtask'[v] = wtask[v]
                               /\ rbuf'[v] = rbuf[v]
    BY <1>0, <1>4 DEF Return, Finish, Goto, IOGoto, Inv, TypeOK, IOInv, StreamTypes
  <2>4. \A v \in Workers, c \in Clients : Writes(v, c)' => Writes(v, c)
    BY <2>2, <2>3 DEF Writes, InIO
  <2>5. ASSUME NEW c \in Clients PROVE QuietOf(c)'
    <3>1. QuietOf(c) /\ \A v \in Workers : Writes(v, c)' => Writes(v, c)
      BY <1>0, <2>1, <2>4
    <3> QED
      BY <2>1, <3>1, QuietKept
  <2>6. \A v \in Workers : io'[v] = "write" => rbuf'[v] # <<>>
    BY <1>0, <2>2, <2>3
  <2> QED
    BY <1>0, <2>1, <2>5, <2>6, QuietPartsNext
<1>5. ASSUME NEW b \in Clients, ClientStep(b) PROVE QuietInv'
  <2>1. UNCHANGED <<wpc, wtask, io, rbuf, alive>>
    BY <1>5 DEF ClientStep, Connect, Send, Receive, Kill, Disconnected, Hangup, serverVars,
                poolVars, ioVars
  <2>2. \A w \in Workers, c \in Clients : Writes(w, c)' <=> Writes(w, c)
    BY <2>1 DEF Writes, InIO
  <2>3. ASSUME NEW c \in Clients, c # b PROVE QuietOf(c)'
    <3>1. up'[c] = up[c] /\ peer'[c] = peer[c] /\ cst'[c] = cst[c] /\ sent'[c] = sent[c] /\ rcvd'[c] = rcvd[c]
      BY <1>0, <1>5, <2>3
         DEF ClientStep, Connect, Send, Receive, Kill, Disconnected, Hangup, netVars,
             IOInv, StreamTypes
    <3> QED
      BY <1>0, <2>2, <3>1, QuietKept
  <2>4. QuietOf(b)'
    <3>0. QuietOf(b) /\ sent[b] \in Nat /\ rcvd[b] \in Nat
      BY <1>0 DEF StreamTypes
    <3>1. CASE Connect(b)
      <4>1. cst[b] = "new" /\ cst'[b] = "ready" /\ UNCHANGED <<up, peer, sent, rcvd>>
        BY <1>0, <3>1 DEF Connect, netVars, IOInv
      <4> QED
        BY <2>2, <3>0, <4>1 DEF QuietOf
    <3>2. CASE Send(b)
      <4>1. cst[b] = "ready" /\ cst'[b] = "await" /\ UNCHANGED <<peer, rcvd>>
        BY <1>0, <3>2 DEF Send, IOInv
      <4>2. PICK n \in LineLens : sent' = [sent EXCEPT ![b] = @ + n]
        BY <3>2 DEF Send
      <4>3. n \in {0, 1} /\ sent'[b] = sent[b] + n
        BY <1>0, <4>2 DEF LinesFit, StreamTypes
      <4>4. sent'[b] - rcvd'[b] <= 1
        BY <3>0, <4>1, <4>3 DEF QuietOf
      <4>5. peer[b] = "open"
        BY <1>0, <4>1 DEF IOInv
      <4> QED
        BY <4>1, <4>4, <4>5 DEF QuietOf
    <3>3. CASE Receive(b)
      <4>1. cst[b] = "await" /\ cst'[b] = "ready" /\ UNCHANGED <<peer, sent, up>>
        BY <1>0, <3>3 DEF Receive, IOInv
      <4>2. PICK n \in 1 .. Len(down[b]) : rcvd' = [rcvd EXCEPT ![b] = @ + n]
        BY <3>3 DEF Receive
      <4>3. n \in Nat /\ n >= 1 /\ rcvd'[b] = rcvd[b] + n
        BY <1>0, <4>2 DEF StreamTypes
      <4>4. rcvd'[b] <= sent[b] /\ sent[b] - rcvd[b] <= 1
        BY <3>0, <4>1 DEF StreamInv, StreamTypes, QuietOf
      <4>5. sent[b] = rcvd'[b]
        BY <3>0, <4>3, <4>4
      <4> QED
        BY <2>2, <3>0, <4>1, <4>5 DEF QuietOf
    <3>4. CASE Kill(b) \/ Disconnected(b)
      <4>1. /\ cst[b] \in {"ready", "await"} /\ cst'[b] = "ended"
            /\ UNCHANGED <<sent, rcvd, up>>
            /\ peer'[b] = IF down[b] = <<>> THEN "fin" ELSE "rst"
        BY <1>0, <3>4 DEF Kill, Disconnected, Hangup, IOInv
      <4>2. peer[b] = "open"
        BY <1>0, <4>1 DEF IOInv
      <4>3. /\ Len(up[b]) <= 1
            /\ down[b] # <<>> => up[b] = <<>> /\ InHand(b) = <<>>
            /\ InHand(b) # <<>> => up[b] = <<>>
        BY <4>2, OneInTransit
      <4>4. \A w \in Workers : Writes(w, b) => InHand(b) # <<>>
        BY WriterHolds
      <4> QED
        BY <2>2, <4>1, <4>3, <4>4 DEF QuietOf
    <3> QED
      BY <1>5, <3>1, <3>2, <3>3, <3>4 DEF ClientStep
  <2>5. \A c \in Clients : QuietOf(c)'
    BY <2>3, <2>4
  <2> QED
    BY <1>0, <2>1, <2>5, QuietPartsNext
<1>6. CASE UNCHANGED vars
  <2>1. UNCHANGED <<wpc, wtask, io, rbuf, up, peer, sent, rcvd, cst, alive>>
    BY <1>6 DEF vars, poolVars, ioVars, netVars, clientVars
  <2>2. ASSUME NEW c \in Clients PROVE QuietOf(c)'
    <3>1. QuietOf(c) /\ \A v \in Workers : Writes(v, c)' => Writes(v, c)
      BY <1>0, <2>1 DEF Writes, InIO
    <3> QED
      BY <2>1, <3>1, QuietKept
  <2> QED
    BY <1>0, <2>1, <2>2, QuietPartsNext
<1> QED
  BY <1>1, <1>2, <1>3, <1>4, <1>5, <1>6, QuietRead, QuietWrite
     DEF ServerNext, ServerStep, SocketIO

LEMMA QuietInit == ServerInit => QuietInv
<1> SUFFICES ASSUME ServerInit PROVE QuietInv
  OBVIOUS
<1>1. Len(<<>>) <= 1
  OBVIOUS
<1> QED
  BY <1>1 DEF ServerInit, QuietInv, Writes, InIO

(* Clients that come and go at any moment do not end a server whose        *)
(* clients send lines that fit one read: whatever order the workers and    *)
(* the clients run in, no write ever meets a reset connection.             *)
THEOREM ShortLinesSurvive == ASSUME LinesFit PROVE ServerSpec => []ServerSurvives
<1>1. ServerInit => StreamInv /\ QuietInv
  BY StreamInit, QuietInit
<1>2. StreamInv /\ QuietInv /\ [ServerNext]_vars => StreamInv' /\ QuietInv'
  BY StreamNext, QuietNext
<1>3. QuietInv => ServerSurvives
  BY DEF QuietInv, ServerSurvives
<1> QED
  BY <1>1, <1>2, <1>3, PTL DEF ServerSpec
-----------------------------------------------------------------------------
(* Who waits for whom.                                                     *)

(* What a client is owed is somewhere.                                     *)
LEMMA OwedIsSomewhere == ASSUME StreamInv, NEW c \in Clients, cst[c] = "await",
                                rcvd[c] < sent[c], down[c] = <<>>,
                                \A w \in Workers : ~Writes(w, c)
                         PROVE  up[c] # <<>>
<1>1. InHand(c) = <<>>
  BY HandIs DEF StreamInv
<1>2. sent[c] \in Nat /\ rcvd[c] \in Nat
  BY DEF StreamInv, StreamTypes
<1>3. (<<>> \o <<>>) \o up[c] = Stretch(c, rcvd[c], sent[c] - rcvd[c])
  BY <1>1 DEF StreamInv, StreamOf, InTransit
<1>4. Len(Stretch(c, rcvd[c], sent[c] - rcvd[c])) = sent[c] - rcvd[c]
  BY <1>2 DEF Stretch
<1>5. Len((<<>> \o <<>>) \o <<>>) = 0
  OBVIOUS
<1> QED
  BY <1>2, <1>3, <1>4, <1>5

(* A client whose connection has a descriptor is some worker's, or will be.*)
LEMMA TaskIsSomewhere == ASSUME StreamInv, NEW c \in Clients, Holds(c), cst[c] # "ended"
                         PROVE  \/ \E t \in Arriving \cup Queued : t[2] = c
                                \/ \E w \in Workers : /\ wpc[w] \in {"unlock", "run"}
                                                      /\ wtask[w][2] = c
                                                      /\ io[w] \in {"read", "write"}
<1>1. PICK f \in Fds : fdtab[f] = c
  BY DEF Holds
<1>2. PICK t \in OpenTasks : t[1] = f
  BY <1>1, ServerAssumption DEF StreamInv, ServerInv, FdOwned
<1>3. t[2] = c
  BY <1>1, <1>2 DEF StreamInv, ServerInv, FdOwned
<1>4. CASE t \in Arriving \cup Queued
  BY <1>3, <1>4
<1>5. ASSUME NEW w \in Workers, io[w] # "back", t = wtask[w], t # NoTask
      PROVE  wpc[w] \in {"unlock", "run"} /\ wtask[w][2] = c /\ io[w] \in {"read", "write"}
  <2>1. io[w] # "close"
    BY <1>3, <1>5 DEF StreamInv, ServerInv, SawEnd
  <2> QED
    BY <1>3, <1>5, <2>1 DEF StreamInv, ServerInv, IOInv, Inv, HandsFull
<1> QED
  BY <1>2, <1>4, <1>5 DEF OpenTasks

(* For any workers, clients, lines and cuts of the streams, no client and  *)
(* worker wait for each other while the client has an answer to come.      *)
THEOREM NobodyWaitsInVain == ServerSpec => []NoMutualWait
<1>1. EchoInv => NoMutualWait
  <2> SUFFICES ASSUME EchoInv, NEW c \in Clients, cst[c] = "await", rcvd[c] < sent[c],
                      down[c] = <<>>, ~OnItsWay(c)
               PROVE  \E w \in Workers : AtWork(w, c)
    BY DEF NoMutualWait
  <2>1. StreamInv /\ Holds(c)
    BY DEF EchoInv, Attached, Queues, OnItsWay
  <2>2. PICK w \in Workers : wpc[w] = "run" /\ wtask[w][2] = c /\ io[w] \in {"read", "write"}
    BY <2>1, TaskIsSomewhere DEF OnItsWay
  <2>3. CASE io[w] = "write"
    BY <2>2, <2>3 DEF AtWork, InIO
  <2>4. CASE io[w] = "read"
    <3>1. ASSUME NEW v \in Workers, Writes(v, c) PROVE FALSE
      BY <2>1, <2>2, <2>4, <3>1, OneWorker DEF Writes, InIO, StreamInv
    <3> QED
      BY <2>1, <2>2, <2>4, <3>1, OwedIsSomewhere DEF AtWork, InIO
  <2> QED
    BY <2>2, <2>3, <2>4
<1>2. StreamInv /\ StreamInv' /\ Attached /\ [ServerNext]_vars => Attached'
  BY EchoStep DEF EchoMove
<1> QED
  BY <1>1, <1>2, EchoStart, StreamInit, StreamNext, PTL DEF ServerSpec, EchoInv

(* A client never goes on to its next line with an answer still to come,   *)
(* as long as each line fits one read.                                     *)
THEOREM AnswersBeforeLines == ASSUME LinesFit PROVE ServerSpec => []ClientsInStep
<1>1. ServerInit => StreamInv /\ QuietInv
  BY StreamInit, QuietInit
<1>2. StreamInv /\ QuietInv /\ [ServerNext]_vars => StreamInv' /\ QuietInv'
  BY StreamNext, QuietNext
<1>3. QuietInv => ClientsInStep
  BY DEF QuietInv, ClientsInStep
<1> QED
  BY <1>1, <1>2, <1>3, PTL DEF ServerSpec
=============================================================================
