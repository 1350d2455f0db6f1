--------------------------- MODULE TaskQueueProofs ---------------------------
(***************************************************************************)
(* Safety of the task queue for every set of tasks and every bound.        *)
(*                                                                         *)
(* Inv adds to the properties what makes them inductive: workerDone is     *)
(* closed only when the queue was found empty during a shutdown, the       *)
(* shutdown only begins when the context is cancelled, and a queue that is *)
(* shut down and empty takes no task any more.                             *)
(***************************************************************************)
EXTENDS TaskQueue, SequenceTheorems, TLAPS

\* how long the provers may work on a step
USE ZenonT(5), SMTT(60)

Inv ==
  /\ TypeOK
  /\ QueueConsistent
  /\ closes <= 1
  /\ closes > 0 => shuttingDown /\ dirty = {} /\ processing = {}
                     /\ worker \in {"loop", "ended"}
  /\ shuttingDown => cancelled /\ term \notin {"wait", "cancel", "shutdown"}
  /\ Running /\ term \notin {"wait", "cancel"} => cancelled
  /\ run = "new" => worker = "none"

\* what the steps of the actors that leave the queue alone preserve
LEMMA QueueUnchanged ==
  ASSUME QueueConsistent, UNCHANGED tasks,
         worker' \in {"sync", "check", "done"} <=> worker \in {"sync", "check", "done"}
  PROVE  QueueConsistent'
  BY DEF QueueConsistent, tasks

LEMMA InitInv == Init => Inv
<1> SUFFICES ASSUME Init PROVE Inv
  OBVIOUS
<1>1. TypeOK
  BY EmptySeq DEF Init, TypeOK, Queue!QueueInit
<1>2. QueueConsistent
  BY DEF Init, QueueConsistent, Queue!QueueInit
<1> QED
  BY <1>1, <1>2 DEF Init, Inv, Queue!QueueInit

LEMMA AddInv ==
  ASSUME TypeOK, QueueConsistent, NEW k \in Tasks, Queue!Add(k),
         worker' \in {"sync", "check", "done"} <=> worker \in {"sync", "check", "done"}
  PROVE  /\ QueueConsistent'
         /\ queue' \in Seq(Tasks) /\ dirty' \subseteq Tasks /\ processing' = processing
         /\ shuttingDown' = shuttingDown
         /\ shuttingDown => dirty' = dirty
<1>1. CASE UNCHANGED <<queue, dirty>>
  BY <1>1 DEF Queue!Add, TypeOK, QueueConsistent
<1>2. CASE ~shuttingDown /\ k \notin dirty /\ k \in processing
  BY <1>2 DEF Queue!Add, TypeOK, QueueConsistent
<1>3. CASE ~shuttingDown /\ k \notin dirty /\ k \notin processing
  <2>1. queue' = Append(queue, k) /\ dirty' = dirty \cup {k}
        /\ UNCHANGED <<processing, shuttingDown>>
    BY <1>3 DEF Queue!Add
  <2>2. /\ DOMAIN queue = 1..Len(queue) /\ Len(queue) \in Nat
        /\ DOMAIN queue' = 1..(Len(queue) + 1)
        /\ \A i \in 1..Len(queue) : queue'[i] = queue[i]
        /\ queue'[Len(queue) + 1] = k
    BY <2>1 DEF TypeOK
  <2>3. \A i \in DOMAIN queue : queue[i] # k
    BY <1>3 DEF QueueConsistent
  <2>4. QueueConsistent'
    BY <2>1, <2>2, <2>3, <1>3 DEF QueueConsistent
  <2> QED
    BY <2>1, <2>4, <1>3 DEF TypeOK
<1> QED
  BY <1>1, <1>2, <1>3 DEF Queue!Add

LEMMA GetInv ==
  ASSUME TypeOK, QueueConsistent, processing = {}, NEW k \in Tasks, Queue!Get(k),
         worker' = "sync"
  PROVE  /\ QueueConsistent'
         /\ queue' \in Seq(Tasks) /\ dirty' = dirty \ {k} /\ processing' = {k}
         /\ k \in dirty
         /\ shuttingDown' = shuttingDown
<1>1. /\ queue \in Seq(Tasks) /\ queue # <<>> /\ k = Head(queue) /\ queue' = Tail(queue)
      /\ processing' = {k} /\ dirty' = dirty \ {k} /\ UNCHANGED shuttingDown
  BY DEF TypeOK, Queue!Get
<1>2. /\ DOMAIN queue = 1..Len(queue) /\ Len(queue) \in Nat \ {0} /\ k = queue[1]
      /\ DOMAIN queue' = 1..(Len(queue) - 1)
      /\ \A i \in DOMAIN queue' : i + 1 \in DOMAIN queue /\ queue'[i] = queue[i + 1]
  BY <1>1
<1>3. k \in dirty
  BY <1>2 DEF QueueConsistent
<1>4. \A i, j \in DOMAIN queue' : queue'[i] = queue'[j] => i = j
  <2>1. SUFFICES ASSUME NEW i \in DOMAIN queue', NEW j \in DOMAIN queue', queue'[i] = queue'[j]
                 PROVE  i = j
    OBVIOUS
  <2>2. i + 1 = j + 1
    BY <1>2, <2>1 DEF QueueConsistent
  <2> QED
    BY <2>2, <1>2
<1>5. \A i \in DOMAIN queue' : queue'[i] \in dirty' /\ queue'[i] \notin processing'
  <2>1. SUFFICES ASSUME NEW i \in DOMAIN queue' PROVE queue[i + 1] \in dirty /\ queue[i + 1] # k
    BY <1>1, <1>2
  <2>2. i + 1 # 1 /\ 1 \in DOMAIN queue
    BY <1>2
  <2> QED
    BY <1>2, <2>2 DEF QueueConsistent
<1>6. \A x \in dirty' : x \in processing' \/ \E i \in DOMAIN queue' : queue'[i] = x
  <2>1. SUFFICES ASSUME NEW x \in dirty, x # k PROVE \E i \in DOMAIN queue' : queue'[i] = x
    BY <1>1
  <2>2. PICK j \in DOMAIN queue : queue[j] = x
    BY <2>1 DEF QueueConsistent
  <2>3. j - 1 \in DOMAIN queue' /\ (j - 1) + 1 = j
    BY <1>2, <2>1, <2>2
  <2> QED
    BY <1>2, <2>2, <2>3
<1>7. QueueConsistent'
  BY <1>1, <1>4, <1>5, <1>6 DEF QueueConsistent
<1>8. queue' \in Seq(Tasks)
  BY <1>1
<1> QED
  BY <1>1, <1>3, <1>7, <1>8

LEMMA DoneInv ==
  ASSUME TypeOK, QueueConsistent, NEW k \in processing, Queue!Done(k),
         worker = "done", worker' = "get"
  PROVE  /\ QueueConsistent'
         /\ queue' \in Seq(Tasks) /\ dirty' = dirty /\ processing' = {}
         /\ shuttingDown' = shuttingDown
<1>1. k \in Tasks /\ processing = {k}
  BY DEF TypeOK, QueueConsistent
<1>2. processing' = {} /\ UNCHANGED <<dirty, shuttingDown>>
  BY <1>1 DEF Queue!Done
<1>3. CASE k \notin dirty
  BY <1>1, <1>2, <1>3 DEF QueueConsistent, Queue!Done, TypeOK
<1>4. CASE k \in dirty
  <2>1. queue' = Append(queue, k)
    BY <1>4 DEF Queue!Done
  <2>2. /\ DOMAIN queue = 1..Len(queue) /\ Len(queue) \in Nat
        /\ DOMAIN queue' = 1..(Len(queue) + 1)
        /\ \A i \in 1..Len(queue) : queue'[i] = queue[i]
        /\ queue'[Len(queue) + 1] = k
    BY <2>1 DEF TypeOK
  <2>3. \A i \in DOMAIN queue : queue[i] # k
    BY <1>1 DEF QueueConsistent
  <2>4. QueueConsistent'
    BY <1>1, <1>2, <1>4, <2>2, <2>3 DEF QueueConsistent
  <2> QED
    BY <1>1, <1>2, <2>1, <2>4 DEF TypeOK
<1> QED
  BY <1>3, <1>4

-----------------------------------------------------------------------------
\* Every step preserves Inv.  The cases are the actions of Next.
LEMMA NextInv == Inv /\ [Next]_vars => Inv'
<1> SUFFICES ASSUME Inv, [Next]_vars PROVE Inv'
  OBVIOUS
<1> USE DEF Inv, Running
<1>1. CASE Run
  <2>1. QueueConsistent'
    BY <1>1, QueueUnchanged DEF Run
  <2> QED
    BY <1>1, <2>1 DEF Run, TypeOK, tasks, termination
<1>2. ASSUME NEW k \in Tasks, List(k) \/ Enqueue(k) PROVE Inv'
  <2>1. /\ Queue!Add(k) /\ owed' \in {owed, owed \cup {k}}
        /\ UNCHANGED <<run, errors, worker, closes, ready, termination>>
    BY <1>2 DEF List, Enqueue, Owe
  <2>2. /\ QueueConsistent'
        /\ queue' \in Seq(Tasks) /\ dirty' \subseteq Tasks /\ processing' = processing
        /\ shuttingDown' = shuttingDown
        /\ shuttingDown => dirty' = dirty
    BY <2>1, AddInv
  <2>3. listed' \subseteq Initial /\ events' \in Nat
    BY <1>2 DEF List, Enqueue, TypeOK
  <2>4. TypeOK'
    BY <2>1, <2>2, <2>3 DEF TypeOK, termination
  <2> QED
    BY <2>1, <2>2, <2>4 DEF termination
<1>3. CASE StartWorker
  <2>1. QueueConsistent'
    BY <1>3 DEF StartWorker, QueueConsistent, tasks
  <2> QED
    BY <1>3, <2>1 DEF StartWorker, TypeOK, tasks, informers, termination
<1>4. CASE GetTask
  <2>1. PICK k \in Tasks : Queue!Get(k)
    BY <1>4 DEF GetTask
  <2>2. /\ QueueConsistent'
        /\ queue' \in Seq(Tasks) /\ dirty' = dirty \ {k} /\ processing' = {k}
        /\ shuttingDown' = shuttingDown
    BY <1>4, <2>1, GetInv DEF GetTask, QueueConsistent
  <2>3. TypeOK'
    BY <1>4, <2>2 DEF GetTask, TypeOK, informers, termination
  <2> QED
    BY <1>4, <2>2, <2>3 DEF GetTask, TypeOK, informers, termination
<1>5. CASE QuitWorker
  <2>1. QueueConsistent'
    BY <1>5 DEF QuitWorker, QueueConsistent, tasks
  <2>2. dirty = {} /\ processing = {} /\ closes = 0
    BY <1>5 DEF QuitWorker, QueueConsistent, TypeOK
  <2>3. TypeOK'
    BY <1>5 DEF QuitWorker, TypeOK, tasks, informers, termination
  <2> QED
    BY <1>5, <2>1, <2>2, <2>3 DEF QuitWorker, tasks, informers, termination
<1>6. ASSUME NEW k \in Tasks, Sync(k) PROVE Inv'
  <2>1. QueueConsistent'
    BY <1>6, QueueUnchanged DEF Sync
  <2> QED
    BY <1>6, <2>1 DEF Sync, TypeOK, tasks, informers, termination
<1>7. ASSUME NEW k \in Tasks, Requeue(k) PROVE Inv'
  <2>1. /\ QueueConsistent'
        /\ queue' \in Seq(Tasks) /\ dirty' \subseteq Tasks /\ processing' = processing
        /\ shuttingDown' = shuttingDown
    BY <1>7, AddInv DEF Requeue
  <2>2. TypeOK'
    BY <1>7, <2>1 DEF Requeue, TypeOK, informers, termination
  <2> QED
    BY <1>7, <2>1, <2>2 DEF Requeue, informers, termination
<1>8. CASE CheckReady
  <2>1. QueueConsistent'
    BY <1>8, QueueUnchanged DEF CheckReady
  <2> QED
    BY <1>8, <2>1 DEF CheckReady, TypeOK, tasks, informers, termination
<1>9. CASE TaskDone
  <2>1. PICK k \in processing : Queue!Done(k)
    BY <1>9 DEF TaskDone
  <2>2. /\ QueueConsistent'
        /\ queue' \in Seq(Tasks) /\ dirty' = dirty /\ processing' = {}
        /\ shuttingDown' = shuttingDown
    BY <1>9, <2>1, DoneInv DEF TaskDone
  <2>3. TypeOK'
    BY <1>9, <2>2 DEF TaskDone, TypeOK, informers, termination
  <2> QED
    BY <1>9, <2>2, <2>3 DEF TaskDone, informers, termination
<1>10. CASE NginxExits \/ Sigterm \/ NoticeNginxExit \/ Cancel \/ WorkerAck \/ QuitNginx \/ Exit
  <2>1. UNCHANGED <<tasks, informers, workers>>
    BY <1>10 DEF NginxExits, Sigterm, NoticeNginxExit, Cancel, WorkerAck, QuitNginx, Exit
  <2>2. QueueConsistent'
    BY <2>1, QueueUnchanged DEF workers
  <2>3. TypeOK'
    <3>1. /\ cancelled' \in BOOLEAN /\ nginxExited' \in BOOLEAN
          /\ term' \in {"wait", "cancel", "shutdown", "ack", "quit", "nginx"}
          /\ nginx' \in {"up", "down"}
          /\ process' \in {"running", "exited", "crashed"}
      BY <1>10 DEF TypeOK,
           NginxExits, Sigterm, NoticeNginxExit, Cancel, WorkerAck, QuitNginx, Exit
    <3> QED
      BY <2>1, <3>1 DEF TypeOK, tasks, informers, workers
  <2>4. /\ shuttingDown => cancelled' /\ term' \notin {"wait", "cancel", "shutdown"}
        /\ Running' /\ term' \notin {"wait", "cancel"} => cancelled'
    BY <1>10 DEF TypeOK,
         NginxExits, Sigterm, NoticeNginxExit, Cancel, WorkerAck, QuitNginx, Exit
  <2> QED
    BY <2>1, <2>2, <2>3, <2>4 DEF tasks, informers, workers
<1>11. CASE Shutdown
  <2>1. QueueConsistent'
    BY <1>11 DEF Shutdown, Queue!ShutDown, QueueConsistent, workers
  <2> QED
    BY <1>11, <2>1 DEF Shutdown, Queue!ShutDown, TypeOK, informers, workers
<1>12. CASE UNCHANGED vars
  <2>1. QueueConsistent'
    BY <1>12, QueueUnchanged DEF vars, workers
  <2> QED
    BY <1>12, <2>1 DEF vars, TypeOK, tasks, informers, workers, termination
<1> QED
  BY <1>1, <1>2, <1>3, <1>4, <1>5, <1>6, <1>7, <1>8, <1>9, <1>10, <1>11, <1>12
  DEF Next, Informers, Worker, Terminator

\* The inductive invariant holds in every state of the task queue, for every set of
\* tasks and all bounds.
THEOREM InvHolds == Spec => []Inv
  BY InitInv, NextInv, PTL DEF Spec

\* The queue, dirty and processing of workqueue.Type always agree, whatever the
\* informers, the worker and the termination do in between.
THEOREM QueueIsConsistent == Spec => [](TypeOK /\ QueueConsistent)
<1>1. Inv => TypeOK /\ QueueConsistent
  BY DEF Inv
<1> QED
  BY <1>1, InvHolds, PTL

\* Type correctness of the task queue, the worker and the termination.
THEOREM TypeCorrect == Spec => []TypeOK
  BY QueueIsConsistent, PTL

\* worker never closes workerDone twice, although wait.Until calls it in a loop.
THEOREM ClosedOnce == Spec => []WorkerDoneClosedOnce
<1>1. Inv => WorkerDoneClosedOnce
  BY DEF Inv, WorkerDoneClosedOnce
<1> QED
  BY <1>1, InvHolds, PTL

\* When Shutdown gets its ACK, no task waits and none is being processed.
THEOREM Drained == Spec => []NothingLeftBehind
<1>1. Inv => NothingLeftBehind
  BY DEF Inv, NothingLeftBehind
<1> QED
  BY <1>1, InvHolds, PTL

-----------------------------------------------------------------------------
\* A step of the task queue is a step of the set of tasks, or none.
LEMMA StepIsTaskSetStep == Inv /\ [Next]_vars => [Abstract!Next]_(Abstract!vars)
<1> SUFFICES ASSUME Inv, [Next]_vars PROVE [Abstract!Next]_(Abstract!vars)
  OBVIOUS
<1> USE DEF Abstract!Next, Abstract!vars
<1>1. ASSUME NEW k \in Tasks, Queue!Add(k) PROVE [Abstract!Next]_(Abstract!vars)
  <2>1. UNCHANGED <<dirty, processing, shuttingDown>> \/ Abstract!Submit(k)
    BY <1>1 DEF Queue!Add, Abstract!Submit
  <2> QED
    BY <2>1
<1>2. CASE GetTask
  <2>1. PICK k \in Tasks : Queue!Get(k)
    BY <1>2 DEF GetTask
  <2>2. processing = {} /\ k \in dirty
    BY <1>2, <2>1, GetInv DEF GetTask, Inv, QueueConsistent
  <2>3. Abstract!Start(k)
    BY <2>1, <2>2 DEF Queue!Get, Abstract!Start
  <2> QED
    BY <2>3
<1>3. CASE TaskDone
  <2>1. PICK k \in processing : Queue!Done(k)
    BY <1>3 DEF TaskDone
  <2>2. processing' = {} /\ dirty' = dirty /\ shuttingDown' = shuttingDown
    BY <1>3, <2>1, DoneInv DEF TaskDone, Inv
  <2>3. Abstract!Finish
    BY <2>1, <2>2 DEF Abstract!Finish
  <2> QED
    BY <2>3
<1>4. CASE Shutdown
  BY <1>4 DEF Shutdown, Queue!ShutDown, Abstract!Close
<1>5. CASE UNCHANGED tasks
  BY <1>5 DEF tasks
<1>6. (\E k \in Tasks : Queue!Add(k)) \/ GetTask \/ TaskDone \/ Shutdown \/ UNCHANGED tasks
  BY DEF Next, vars, Informers, Worker, Terminator, Run, List, Enqueue, StartWorker, QuitWorker,
         Sync, Requeue, CheckReady, NginxExits, Sigterm, NoticeNginxExit, Cancel, WorkerAck,
         QuitNginx, Exit
<1> QED
  BY <1>1, <1>2, <1>3, <1>4, <1>5, <1>6

\* The task queue implements the set of tasks: a submitted task is neither lost nor
\* invented, and at most one is being synced (workqueue.Type under taskQueue).
THEOREM Refinement == Spec => ImplementsTaskSet
<1>1. Init => Abstract!Init
  BY DEF Init, Queue!QueueInit, Abstract!Init
<1> QED
  BY <1>1, InvHolds, StepIsTaskSetStep, PTL DEF Spec, ImplementsTaskSet, Abstract!Spec
=============================================================================
