------------------------------- MODULE TaskSet -------------------------------
(***************************************************************************)
(* What the task queue promises its users, without its order: a set of     *)
(* tasks waiting to be synced.  A task that is submitted waits until it is *)
(* started, also when it is submitted during its own sync; one task at a   *)
(* time is synced; after Close nothing is submitted any more, and what     *)
(* waits is still started.                                                 *)
(***************************************************************************)
CONSTANT Tasks

VARIABLES pending, active, closed

vars == <<pending, active, closed>>

Init == pending = {} /\ active = {} /\ closed = FALSE

Submit(k) == ~closed /\ pending' = pending \cup {k} /\ UNCHANGED <<active, closed>>

Start(k) ==
  /\ active = {}
  /\ k \in pending
  /\ pending' = pending \ {k}
  /\ active' = {k}
  /\ UNCHANGED closed

Finish == active # {} /\ active' = {} /\ UNCHANGED <<pending, closed>>

Close == closed' = TRUE /\ UNCHANGED <<pending, active>>

Next == (\E k \in Tasks : Submit(k) \/ Start(k)) \/ Finish \/ Close

Spec == Init /\ [][Next]_vars
=============================================================================
