------------------------------ MODULE WorkQueue ------------------------------
(***************************************************************************)
(* The work queue under taskQueue (workqueue.Type): a FIFO of items in     *)
(* which an item waits at most once, and an item that is added while it is *)
(* being processed is put back when its processing is done.                *)
(***************************************************************************)
EXTENDS Sequences

VARIABLES
  queue,         \* the items to process, in order
  dirty,         \* the items that need processing
  processing,    \* the items being processed
  shuttingDown

qvars == <<queue, dirty, processing, shuttingDown>>

QueueInit ==
  /\ queue = <<>>
  /\ dirty = {}
  /\ processing = {}
  /\ shuttingDown = FALSE

\* Mutants of the next definition
Bug_IgnoreWhileProcessing(item) ==
  /\ IF shuttingDown \/ item \in dirty \cup processing
     THEN UNCHANGED <<queue, dirty>>
     ELSE dirty' = dirty \cup {item} /\ queue' = Append(queue, item)
  /\ UNCHANGED <<processing, shuttingDown>>
Bug_AddTwice(item) ==
  /\ IF shuttingDown THEN UNCHANGED <<queue, dirty>>
     ELSE dirty' = dirty \cup {item} /\ queue' = Append(queue, item)
  /\ UNCHANGED <<processing, shuttingDown>>

\* Add does nothing after ShutDown or for an item that is already dirty
Add(item) ==
  /\ IF shuttingDown \/ item \in dirty
     THEN UNCHANGED <<queue, dirty>>
     ELSE /\ dirty' = dirty \cup {item}
          /\ queue' = IF item \in processing THEN queue ELSE Append(queue, item)
  /\ UNCHANGED <<processing, shuttingDown>>

\* Mutants of the next definition
Bug_StaysDirty(item) ==
  /\ queue # <<>>
  /\ item = Head(queue)
  /\ queue' = Tail(queue)
  /\ processing' = processing \cup {item}
  /\ UNCHANGED <<dirty, shuttingDown>>

\* Get when it does not have to wait and does not report the shutdown
Get(item) ==
  /\ queue # <<>>
  /\ item = Head(queue)
  /\ queue' = Tail(queue)
  /\ processing' = processing \cup {item}
  /\ dirty' = dirty \ {item}
  /\ UNCHANGED shuttingDown

\* Mutants of the next definition
Bug_NotPutBack(item) ==
  processing' = processing \ {item} /\ UNCHANGED <<queue, dirty, shuttingDown>>

Done(item) ==
  /\ processing' = processing \ {item}
  /\ queue' = IF item \in dirty THEN Append(queue, item) ELSE queue
  /\ UNCHANGED <<dirty, shuttingDown>>

ShutDown ==
  /\ shuttingDown' = TRUE
  /\ UNCHANGED <<queue, dirty, processing>>
=============================================================================
