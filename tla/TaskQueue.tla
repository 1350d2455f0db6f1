------------------------------ MODULE TaskQueue ------------------------------
(***************************************************************************)
(* The life of the task queue: LoadBalancerController.Run starts the       *)
(* informers and the worker (wait.Until around taskQueue.worker), the      *)
(* informers enqueue tasks, the worker syncs one task after the other and  *)
(* sets isNginxReady, and handleTermination stops everything on SIGTERM or *)
(* when NGINX exits.                                                       *)
(***************************************************************************)
EXTENDS Integers, Sequences, FiniteSets, Functions

CONSTANTS
  Tasks,
  Initial,      \* the tasks of the objects that exist when the process starts
  MaxEvents,    \* bound on later events of the informers
  MaxErrors,    \* bound on errors of the listers, after which sync requeues
  EarlyStop     \* may SIGTERM arrive before the worker goroutine first runs?

ASSUME TasksAssumption == Initial \subseteq Tasks

VARIABLES
  queue, dirty, processing, shuttingDown,
  run,          \* Run: "new" until the goroutines are started, then "running"
  listed,       \* the initial objects the informers have delivered
  events, errors,
  worker,       \* "none", "loop" (wait.Until), "get", "sync", "check", "done", "ended"
  closes,       \* how often workerDone was closed
  owed,         \* history: the tasks added since the last sync that saw them
  ready,        \* isNginxReady
  cancelled,    \* the context of Run
  term,         \* handleTermination: "wait", "cancel", "shutdown", "ack", "quit", "nginx"
  nginxExited,  \* the variable exited of handleTermination
  nginx,        \* "up" or "down"
  process       \* "running", "exited" or "crashed"

Queue == INSTANCE WorkQueue

tasks == <<queue, dirty, processing, shuttingDown>>
informers == <<run, listed, events>>
workers == <<errors, worker, closes, owed, ready>>
termination == <<cancelled, term, nginxExited, nginx, process>>
vars == <<tasks, informers, workers, termination>>

Init ==
  /\ Queue!QueueInit
  /\ run = "new" /\ listed = {} /\ events = 0
  /\ errors = 0 /\ worker = "none" /\ closes = 0 /\ owed = {} /\ ready = FALSE
  /\ cancelled = FALSE /\ term = "wait" /\ nginxExited = FALSE
  /\ nginx = "up" /\ process = "running"

Running == process = "running"

-----------------------------------------------------------------------------
\* Run and the informers

Run ==
  /\ Running
  /\ run = "new"
  /\ run' = "running"
  /\ worker' = "loop"
  /\ UNCHANGED <<tasks, listed, events, errors, closes, owed, ready, termination>>

\* what Add accepts is to be synced once more, by a sync that begins after it
Owe(k) == owed' = IF shuttingDown THEN owed ELSE owed \cup {k}

List(k) ==
  /\ Running
  /\ run = "running"
  /\ k \in Initial \ listed
  /\ listed' = listed \cup {k}
  /\ Queue!Add(k) /\ Owe(k)
  /\ UNCHANGED <<run, events, errors, worker, closes, ready, termination>>

Enqueue(k) ==
  /\ Running
  /\ run = "running"
  /\ events < MaxEvents
  /\ events' = events + 1
  /\ Queue!Add(k) /\ Owe(k)
  /\ UNCHANGED <<run, listed, errors, worker, closes, ready, termination>>

-----------------------------------------------------------------------------
\* The worker

\* wait.Until calls taskQueue.worker unless the context is cancelled
StartWorker ==
  /\ Running
  /\ worker = "loop"
  /\ worker' = IF cancelled THEN "ended" ELSE "get"
  /\ UNCHANGED <<tasks, informers, errors, closes, owed, ready, termination>>

GetTask ==
  /\ Running
  /\ worker = "get"
  /\ \E k \in Tasks : Queue!Get(k)
  /\ worker' = "sync"
  /\ UNCHANGED <<informers, errors, closes, owed, ready, termination>>

\* Mutants of the next definition
Bug_QuitWithoutDraining ==
  /\ Running
  /\ worker = "get" /\ shuttingDown
  /\ closes' = closes + 1
  /\ worker' = "loop"
  /\ UNCHANGED <<tasks, informers, errors, owed, ready, termination>>
Bug_QuitWithoutClose ==
  /\ Running
  /\ worker = "get" /\ queue = <<>> /\ shuttingDown
  /\ worker' = "loop"
  /\ UNCHANGED <<tasks, informers, errors, closes, owed, ready, termination>>

\* Get reports the shutdown: close(workerDone), and back to wait.Until
QuitWorker ==
  /\ Running
  /\ worker = "get"
  /\ queue = <<>> /\ shuttingDown
  /\ closes' = closes + 1
  /\ worker' = "loop"
  /\ UNCHANGED <<tasks, informers, errors, owed, ready, termination>>

\* a task that was added again since Get is still owed a sync
Sync(k) ==
  /\ Running
  /\ worker = "sync"
  /\ k \in processing
  /\ owed' = IF k \in dirty THEN owed ELSE owed \ {k}
  /\ worker' = "check"
  /\ UNCHANGED <<tasks, informers, errors, closes, ready, termination>>

\* Mutants of the next definition: Add takes any value, and here it is given the
\* Key; the task is forgotten
Bug_RequeueKey(k) ==
  /\ Running
  /\ worker = "sync"
  /\ k \in processing
  /\ errors < MaxErrors
  /\ errors' = errors + 1
  /\ Queue!Add([Key |-> k])
  /\ worker' = "check"
  /\ UNCHANGED <<informers, closes, owed, ready, termination>>

Bug_NotRequeued(k) ==
  /\ Running
  /\ worker = "sync"
  /\ k \in processing
  /\ errors < MaxErrors
  /\ errors' = errors + 1
  /\ worker' = "check"
  /\ UNCHANGED <<tasks, informers, closes, owed, ready, termination>>

\* the lister returned an error: the sync functions requeue the task
Requeue(k) ==
  /\ Running
  /\ worker = "sync"
  /\ k \in processing
  /\ errors < MaxErrors
  /\ errors' = errors + 1
  /\ Queue!Add(k)
  /\ worker' = "check"
  /\ UNCHANGED <<informers, closes, owed, ready, termination>>

\* Mutants of the next definition
Bug_ReadyOutsideSync ==
  /\ Running
  /\ worker = "check"
  /\ ready' = (ready \/ (queue = <<>> /\ processing = {}))
  /\ worker' = "done"
  /\ UNCHANGED <<tasks, informers, errors, closes, owed, termination>>

\* the end of sync
CheckReady ==
  /\ Running
  /\ worker = "check"
  /\ ready' = (ready \/ queue = <<>>)
  /\ worker' = "done"
  /\ UNCHANGED <<tasks, informers, errors, closes, owed, termination>>

TaskDone ==
  /\ Running
  /\ worker = "done"
  /\ \E k \in processing : Queue!Done(k)
  /\ worker' = "get"
  /\ UNCHANGED <<informers, errors, closes, owed, ready, termination>>

-----------------------------------------------------------------------------
\* handleTermination

NginxExits ==
  /\ Running
  /\ nginx = "up"
  /\ nginx' = "down"
  /\ UNCHANGED <<tasks, informers, workers, cancelled, term, nginxExited, process>>

Sigterm ==
  /\ Running
  /\ term = "wait"
  /\ EarlyStop \/ worker \notin {"none", "loop"}
  /\ term' = "cancel"
  /\ UNCHANGED <<tasks, informers, workers, cancelled, nginxExited, nginx, process>>

NoticeNginxExit ==
  /\ Running
  /\ term = "wait"
  /\ EarlyStop \/ worker \notin {"none", "loop"}
  /\ nginx = "down"
  /\ nginxExited' = TRUE
  /\ term' = "cancel"
  /\ UNCHANGED <<tasks, informers, workers, cancelled, nginx, process>>

\* Mutants of the next definition
Bug_NoCancel ==
  /\ Running
  /\ term = "cancel"
  /\ term' = "shutdown"
  /\ UNCHANGED <<tasks, informers, workers, cancelled, nginxExited, nginx, process>>

\* Stop calls lbc.cancel, which Run sets
Cancel ==
  /\ Running
  /\ term = "cancel"
  /\ cancelled' = (run = "running")
  /\ process' = IF run = "running" THEN process ELSE "crashed"
  /\ term' = "shutdown"
  /\ UNCHANGED <<tasks, informers, workers, nginxExited, nginx>>

Shutdown ==
  /\ Running
  /\ term = "shutdown"
  /\ Queue!ShutDown
  /\ term' = "ack"
  /\ UNCHANGED <<informers, workers, cancelled, nginxExited, nginx, process>>

\* Shutdown has received from workerDone
WorkerAck ==
  /\ Running
  /\ term = "ack"
  /\ closes > 0
  /\ term' = "quit"
  /\ process' = IF nginxExited THEN "exited" ELSE process
  /\ UNCHANGED <<tasks, informers, workers, cancelled, nginxExited, nginx>>

\* Quit is fatal if the command fails
QuitNginx ==
  /\ Running
  /\ term = "quit"
  /\ term' = "nginx"
  /\ nginx' = "down"
  /\ process' = IF nginx = "up" THEN process ELSE "crashed"
  /\ UNCHANGED <<tasks, informers, workers, cancelled, nginxExited>>

Exit ==
  /\ Running
  /\ term = "nginx"
  /\ process' = "exited"
  /\ UNCHANGED <<tasks, informers, workers, cancelled, term, nginxExited, nginx>>

-----------------------------------------------------------------------------
Informers == \E k \in Tasks : List(k) \/ Enqueue(k)
Worker ==
  \/ StartWorker \/ GetTask \/ QuitWorker \/ CheckReady \/ TaskDone
  \/ \E k \in Tasks : Sync(k) \/ Requeue(k)
Terminator ==
  \/ Sigterm \/ NoticeNginxExit \/ Cancel \/ Shutdown \/ WorkerAck \/ QuitNginx \/ Exit

Next == Run \/ Informers \/ Worker \/ NginxExits \/ Terminator

\* Goroutines that can run do run, and the informers deliver what they listed.  No
\* fairness of SIGTERM, of later events, of lister errors or of an exit of NGINX.
Fairness ==
  /\ WF_vars(Run)
  /\ WF_vars(Worker)
  /\ WF_vars(\E k \in Tasks : List(k))
  /\ WF_vars(NoticeNginxExit)
  /\ WF_vars(term # "wait" /\ Terminator)

Spec == Init /\ [][Next]_vars /\ Fairness

-----------------------------------------------------------------------------
\* Properties

\* Type invariant: the queue and its sets hold tasks, and every program counter has
\* one of the places named in the source.
TypeOK ==
  /\ queue \in Seq(Tasks)
  /\ dirty \subseteq Tasks /\ processing \subseteq Tasks
  /\ shuttingDown \in BOOLEAN
  /\ run \in {"new", "running"}
  /\ listed \subseteq Initial /\ owed \subseteq Tasks
  /\ events \in Nat /\ errors \in Nat /\ closes \in Nat
  /\ worker \in {"none", "loop", "get", "sync", "check", "done", "ended"}
  /\ ready \in BOOLEAN /\ cancelled \in BOOLEAN /\ nginxExited \in BOOLEAN
  /\ term \in {"wait", "cancel", "shutdown", "ack", "quit", "nginx"}
  /\ nginx \in {"up", "down"}
  /\ process \in {"running", "exited", "crashed"}

\* The queue and its sets agree (the comments on workqueue.Type): no task waits
\* twice, a waiting task is dirty and not being processed, a dirty task waits or is
\* being processed, and a task is being processed exactly while the worker syncs.
QueueConsistent ==
  /\ \A i, j \in DOMAIN queue : queue[i] = queue[j] => i = j
  /\ \A i \in DOMAIN queue : queue[i] \in dirty /\ queue[i] \notin processing
  /\ \A k \in dirty : k \in processing \/ \E i \in DOMAIN queue : queue[i] = k
  /\ IF worker \in {"sync", "check", "done"}
     THEN \E k \in Tasks : processing = {k} ELSE processing = {}

\* The worker closes workerDone once: a second close would panic (Stop cancels the
\* context before it shuts the queue down, so wait.Until does not call worker again).
WorkerDoneClosedOnce == closes <= 1

\* When Shutdown has its ACK, no task is left behind: the queue was drained.
NothingLeftBehind == closes > 0 => dirty = {} /\ processing = {}

\* Every task that the queue accepts, the first time or again, also during its own
\* sync, gets a sync that begins after it was added, lister errors and a shutdown
\* notwithstanding, unless the process ends before that (worker, Requeue, Done).
TasksGetSynced ==
  \A k \in Tasks : k \in owed ~> (k \notin owed \/ ~Running)

Abstract == INSTANCE TaskSet WITH pending <- dirty, active <- processing,
                                  closed <- shuttingDown
\* The task queue implements a set of tasks: none is lost or invented, and no two
\* are synced at the same time, whatever the order of Add, Get and Done.
ImplementsTaskSet == Abstract!Spec

\* Termination completes: once handleTermination has left its select, the process
\* exits (Shutdown "waits for the worker to ACK").
TerminationCompletes == term # "wait" ~> ~Running

\* The process becomes ready or ends.
EventuallyReady == <>(ready \/ term # "wait")
=============================================================================
