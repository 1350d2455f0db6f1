------------------------ MODULE ControllerStatusProofs ------------------------
(***************************************************************************)
(* The statuses that Controller leaves behind are true: StatusTruth, for   *)
(* any objects and specifications and in any order of events.              *)
(*                                                                         *)
(* StatusInv says it for every state: the status of an object is what      *)
(* Configuration says of it (StateOK), or the worker will still write it   *)
(* (Covered).  A status is written for the objects in a change and for the *)
(* problems that are new, so the invariant depends on what rebuild leaves  *)
(* out: a resource that IsEqual takes for unchanged has the same parts and *)
(* the same warnings (WarnInv), and an object is used by one resource or   *)
(* has a problem (ActiveInv).  It also depends on the order: a deletion    *)
(* may write a status that is wrong by now, and is followed by what        *)
(* corrects it (DeletesInv).  An object that was created again may be      *)
(* taken for the one before it, but then it is still in recreated          *)
(* (IncarnationInv).  ControllerTaskProofs has these invariants.           *)
(***************************************************************************)
EXTENDS ControllerTaskProofs

\* how long the provers may work on a step
USE ZenonT(10), SMTT(60)

\* the state that an update of x reports for k
UseState(x, k) ==
  IF k[1] = "Ingress" THEN "Published"
  ELSE IF ~applied[x] THEN "Invalid"
  ELSE IF (k = x /\ resources[x].warnings # {}) \/ k \in warned[x] THEN "Warning" ELSE "Valid"

ProblemState(k) == IF k[1] = "Ingress" THEN "" ELSE "Warning"
RejectedState(k) == IF k[1] = "Ingress" THEN "" ELSE "Invalid"

\* the status of k is what Configuration says of it
StateOK(k) ==
  /\ \A x : Uses(x, k) => status[k][1] = UseState(x, k)
  /\ k \in DOMAIN problems => status[k][1] = ProblemState(k)
  /\ Rejected(k) => status[k][1] = RejectedState(k)

\* the worker will still write the status of k
Covered(k) ==
  \/ \E p \in reported : p[1] = k
  \/ \E i \in DOMAIN changes : changes[i].op = "AddOrUpdate" /\ Uses(changes[i].key, k)
  \/ \E i \in DOMAIN changes : /\ changes[i].op = "Delete" /\ changes[i].key = k
                               /\ changes[i].error = TRUE
  \/ pc = "rebuild" /\ rejected = k

StatusInv == \A k \in DOMAIN cluster \ (skipped \cup recreated) : Covered(k) \/ StateOK(k)

\* the status stays right if nothing it depends on changes
LEMMA StateKept ==
  ASSUME NEW k, StateOK(k), status'[k] = status[k], UNCHANGED <<resources, problems>>,
         \A x : Uses(x, k) => applied'[x] = applied[x] /\ warned'[x] = warned[x],
         Rejected(k)' => Rejected(k)
  PROVE  StateOK(k)'
<1>1. \A x : Uses(x, k)' <=> Uses(x, k)
  BY PrimedUses DEF Uses
<1>2. \A x : Uses(x, k)' => status'[k][1] = UseState(x, k)'
  <2> SUFFICES ASSUME NEW x, Uses(x, k)' PROVE status'[k][1] = UseState(x, k)'
    OBVIOUS
  <2>1. Uses(x, k) /\ applied'[x] = applied[x] /\ warned'[x] = warned[x] /\ resources' = resources
    BY <1>1
  <2>2. UseState(x, k)' = UseState(x, k)
    BY <2>1 DEF UseState
  <2> QED
    BY <2>1, <2>2 DEF StateOK
<1>3. /\ k \in DOMAIN problems' => status'[k][1] = ProblemState(k)
      /\ Rejected(k)' => status'[k][1] = RejectedState(k)
  BY DEF StateOK
<1> QED
  BY <1>2, <1>3 DEF StateOK, ProblemState, RejectedState

\* a status that will be written is still to be written
LEMMA CoverKept ==
  ASSUME NEW k, Covered(k), UNCHANGED <<resources, reported, changes, pc, rejected>>
  PROVE  Covered(k)'
<1>1. \A x : Uses(x, k)' <=> Uses(x, k)
  BY PrimedUses DEF Uses
<1>2. ASSUME NEW i \in DOMAIN changes, changes[i].op = "AddOrUpdate", Uses(changes[i].key, k)
      PROVE  Uses(changes[i].key, k)'
  BY <1>2 DEF Uses, PartKey
<1> QED
  BY <1>1, <1>2 DEF Covered

\* the steps that write no status and leave Configuration alone
LEMMA StatusSame ==
  ASSUME StatusInv, NEW k \in DOMAIN cluster \ (skipped \cup recreated), status'[k] = status[k],
         Rejected(k)' => Rejected(k),
         UNCHANGED <<resources, problems, reported, changes, pc, rejected, applied, warned>>
  PROVE  Covered(k)' \/ StateOK(k)'
  BY StateKept, CoverKept DEF StatusInv

\* A new object has no status, and nothing in Configuration says otherwise, unless it
\* has taken the place of one that Configuration still has.
LEMMA UsersStatus ==
  ASSUME ControllerInv, StoredInv, StatusInv, Users(Specs, Uids, 1..MaxClock)
  PROVE  StatusInv'
<1>0. TasksInv /\ UpdateInv /\ DOMAIN status = DOMAIN cluster
  BY DEF ControllerInv, UpdateInv, TypesInv
<1>1. /\ UNCHANGED <<resources, problems, reported, changes, pc, rejected, applied, warned>>
      /\ UNCHANGED <<store, processing, wpc>>
  BY OutsideWorker
<1>2. PICK k \in Keys : \/ \E s, uid, t : CreateObject(k, s, uid, t)
                        \/ \E s : UpdateObject(k, s)
                        \/ DeleteObject(k)
  BY DEF Users, Keys
<1>3. dirty' = dirty \cup {k}
  <2>1. Changed(k)
    BY <1>2 DEF CreateObject, UpdateObject, DeleteObject
  <2> QED
    BY <1>0, <2>1 DEF Changed, Queue!Add, TasksInv
<1>4. \A j : Rejected(j)' => Rejected(j)
  BY <1>0, UsersReject
<1>5. ASSUME NEW j \in DOMAIN cluster' \ (skipped' \cup recreated'), j \in DOMAIN cluster
      PROVE  Covered(j)' \/ StateOK(j)'
  <2>1. \/ \E s, uid, t : CreateObject(k, s, uid, t) /\ j # k
        \/ \E s : UpdateObject(k, s)
        \/ DeleteObject(k) /\ j # k
    BY <1>2, <1>5 DEF CreateObject, DeleteObject, Drop
  <2>2. status'[j] = status[j]
    BY <1>0, <1>5, <2>1 DEF CreateObject, UpdateObject, DeleteObject, Put, Drop
  <2>3. j \notin skipped \cup recreated
    BY <1>5, <2>1 DEF CreateObject, UpdateObject, DeleteObject, history
  <2> QED
    BY <1>1, <1>4, <1>5, <2>2, <2>3, StatusSame
<1>6. ASSUME NEW j \in DOMAIN cluster' \ (skipped' \cup recreated'), j \notin DOMAIN cluster
      PROVE  StateOK(j)'
  <2>1. j = k /\ k \notin dirty \cup processing
    BY <1>2, <1>6 DEF CreateObject, UpdateObject, DeleteObject, Put, Drop
  <2>2. ~Stored(k)
    BY <1>0, <1>6, <2>1 DEF UpdateInv, Synced, Wanted
  <2>3. k \notin DOMAIN problems /\ \A x : ~Uses(x, k)
    BY <2>1, <2>2 DEF StoredInv
  <2>4. k \notin DOMAIN problems' /\ \A x : ~Uses(x, k)'
    BY <1>1, <2>3, PrimedUses DEF Uses
  <2>5. ~Rejected(k)'
    BY <1>3 DEF Rejected
  <2> QED
    BY <2>1, <2>4, <2>5 DEF StateOK
<1> QED
  BY <1>5, <1>6 DEF StatusInv

\* when a task is synced nothing is left of the last one
LEMMA SyncStatus ==
  ASSUME ControllerInv, ReportInv, StatusInv, SyncTask
  PROVE  StatusInv'
<1>0. TasksInv /\ ConfInv /\ ResultsInv
  BY DEF ControllerInv, UpdateInv
<1>1. /\ pc = "idle" /\ UNCHANGED <<resources, problems>> /\ changes' = <<>> /\ reported' = {}
      /\ wpc = "sync" /\ wpc' = "apply"
      /\ UNCHANGED <<cluster, status, dirty, processing, applied, warned, skipped, recreated>>
  BY SyncCalls
<1>2. changes = <<>> /\ reported = {}
  BY <1>0, <1>1 DEF ResultsInv, ReportInv
<1>3. \A k \in DOMAIN cluster \ (skipped \cup recreated) : StateOK(k)
  <2>1. DOMAIN changes = {}
    BY <1>2
  <2> QED
    BY <1>1, <1>2, <2>1 DEF StatusInv, Covered
<1>4. PICK p \in Keys : processing = {p} /\ (Rejected(p)' => rejected' = p /\ pc' = "rebuild")
  BY <1>0, SyncRejects
<1>5. ASSUME NEW k \in DOMAIN cluster, ~Covered(k)' PROVE Rejected(k)' => Rejected(k)
  <2> SUFFICES ASSUME Rejected(k)' PROVE Rejected(k)
    OBVIOUS
  <2>1. k # p
    BY <1>4, <1>5 DEF Covered
  <2>2. /\ cluster[k].class /\ ~IsValid(k, cluster[k])
        /\ k \notin dirty'
    BY <1>1, PrimedRejected
  <2> QED
    BY <1>1, <1>4, <2>1, <2>2 DEF Rejected
<1>6. ASSUME NEW k \in DOMAIN cluster \ (skipped \cup recreated), ~Covered(k)' PROVE StateOK(k)'
  <2>1. Rejected(k)' => Rejected(k)
    BY <1>5, <1>6
  <2>2. StateOK(k) /\ status'[k] = status[k] /\ applied' = applied /\ warned' = warned
    BY <1>1, <1>3
  <2> QED
    BY <1>1, <2>1, <2>2, StateKept
<1> QED
  BY <1>1, <1>6 DEF StatusInv

\* what rebuild changes for an object, it reports
LEMMA FinishStatus ==
  ASSUME ControllerInv, PartsInv, WarnInv, WarnInv', ReportInv, IncarnationInv, StatusInv,
         Rebuild, FinishRebuild
  PROVE  StatusInv'
<1> DEFINE sq == squashResourceChanges(createResourceChanges)
<1>0. TasksInv /\ ConfInv /\ ResultsInv /\ HostsInv /\ BuiltInv
  BY DEF ControllerInv, UpdateInv, ConfInv
<1>1. /\ pc = "rebuild" /\ problems' = NewProblems
      /\ reported' = detectChangesInProblems(NewProblems, problems) \cup
                       (IF rejected = NoKey \/ \E i \in DOMAIN sq : sq[i].key = rejected THEN {}
                        ELSE {<<rejected, Problem(TRUE, "Rejected", NoKey)>>})
      /\ UNCHANGED <<cluster, status, dirty, processing, wpc, applied, warned, skipped, recreated>>
  BY DEF FinishRebuild, Rebuild, api, tasks, configurator, history
<1>2. changes = <<>> /\ reported = {}
  BY <1>0, <1>1 DEF ResultsInv, ReportInv
<1>3. /\ DOMAIN changes' = DOMAIN sq
      /\ \A i \in DOMAIN changes' :
           /\ changes'[i].key = sq[i].key
           /\ changes'[i].error = (changes'[i].key = rejected)
           /\ \/ changes'[i].op = "Delete"
              \/ changes'[i].op = "AddOrUpdate" /\ changes'[i].key \in DOMAIN resources'
  BY <1>0, FinishSquashed
<1> HIDE DEF sq
<1>4. ASSUME NEW k \in DOMAIN cluster, rejected = k PROVE Covered(k)'
  <2>1. k # NoKey
    <3>1. k[1] \in {"Ingress", "VirtualServer", "VirtualServerRoute"}
      BY <1>0, KeyIsPair DEF TasksInv
    <3>2. NoKey[1] = ""
      BY DEF NoKey
    <3> QED
      BY <3>1, <3>2
  <2>2. CASE \E i \in DOMAIN sq : sq[i].key = rejected
    <3>1. PICK i \in DOMAIN changes' : changes'[i].key = k /\ changes'[i].error = TRUE
      BY <1>3, <1>4, <2>2
    <3>2. CASE changes'[i].op = "Delete"
      BY <3>1, <3>2 DEF Covered
    <3>3. CASE changes'[i].op = "AddOrUpdate" /\ changes'[i].key \in DOMAIN resources'
      <4>1. Uses(changes[i].key, k)'
        BY <3>1, <3>3 DEF Uses, PartKey
      <4> QED
        BY <3>1, <3>3, <4>1 DEF Covered
    <3> QED
      BY <1>3, <3>2, <3>3
  <2>3. CASE ~\E i \in DOMAIN sq : sq[i].key = rejected
    <3>1. <<k, Problem(TRUE, "Rejected", NoKey)>> \in reported'
      BY <1>1, <1>4, <2>1, <2>3
    <3> QED
      BY <3>1 DEF Covered
  <2> QED
    BY <2>2, <2>3
<1>5. ASSUME NEW k \in DOMAIN cluster \ (skipped \cup recreated), rejected # k, ~Covered(k)'
      PROVE  StateOK(k)'
  <2>1. StateOK(k)
    <3>1. DOMAIN changes = {}
      BY <1>2
    <3> QED
      BY <1>2, <1>5, <3>1 DEF StatusInv, Covered
  <2>2. ASSUME NEW x, Uses(x, k)' PROVE status'[k][1] = UseState(x, k)'
    <3>1. x \in DOMAIN resources' /\ PartKey(x, resources'[x], k)
      BY <2>2, PrimedUses
    <3>2. ~\E i \in DOMAIN changes' : changes'[i].op = "AddOrUpdate" /\ changes'[i].key = x
      <4> SUFFICES ASSUME NEW i \in DOMAIN changes', changes'[i].op = "AddOrUpdate",
                          changes'[i].key = x
                   PROVE  FALSE
        OBVIOUS
      <4>1. Uses(changes[i].key, k)'
        BY <3>1 DEF Uses, PartKey
      <4> QED
        BY <1>5, <4>1 DEF Covered
    <3>3. /\ Uses(x, k)
          /\ x[1] = "VirtualServer" /\ resources[x].object.uid = resources'[x].object.uid =>
               (resources[x].warnings = {} <=> resources'[x].warnings = {})
      BY <1>0, <3>1, <3>2, FinishUnreported DEF Uses
    <3>4. ASSUME k = x PROVE resources[x].object.uid = resources'[x].object.uid
      <4>1. Current(x, resources'[x].object)
        BY <1>0, <3>1, NewCurrent DEF PartOf
      <4> QED
        BY <1>5, <3>3, <3>4, <4>1 DEF Current, IncarnationInv, Uses
    <3>5. x[1] \in {"Ingress", "VirtualServer"}
      BY <1>0, <3>3 DEF Uses, ResultsInv, ResKeys
    <3>6. UseState(x, k)' = UseState(x, k)
      BY <1>1, <3>3, <3>4, <3>5 DEF UseState
    <3> QED
      BY <1>1, <2>1, <3>3, <3>6 DEF StateOK
  <2>3. ASSUME k \in DOMAIN problems' PROVE status'[k][1] = ProblemState(k)
    <3>1. k \notin DOMAIN problems => <<k, NewProblems[k]>> \in reported'
      BY <1>1, <2>3 DEF detectChangesInProblems
    <3>2. k \in DOMAIN problems
      BY <1>5, <3>1 DEF Covered
    <3> QED
      BY <1>1, <2>1, <3>2 DEF StateOK
  <2>4. Rejected(k)' => status'[k][1] = RejectedState(k)
    BY <1>1, <2>1, SameRejected DEF StateOK
  <2> QED
    BY <2>2, <2>3, <2>4 DEF StateOK, ProblemState, RejectedState
<1> QED
  BY <1>1, <1>4, <1>5 DEF StatusInv

\* what a change leaves alone: the objects that are not among its parts
LEMMA ApplyOther ==
  ASSUME TypesInv, ResultsInv, AppliedInv, StatusInv, NEW ok, NEW w, ApplyChange(ok, w),
         NEW k \in DOMAIN cluster \ (skipped \cup recreated), status'[k] = status[k],
         NEW x, x = changes[1].key,
         changes[1].op = "AddOrUpdate" => ~Uses(x, k),
         changes[1].op = "Delete" => k # x
  PROVE  Covered(k)' \/ StateOK(k)'
<1>1. /\ UNCHANGED <<resources, problems, reported, cluster, dirty, processing, wpc, pc, rejected>>
      /\ \A i \in DOMAIN changes : i # 1 => \E j \in DOMAIN changes' : changes'[j] = changes[i]
      /\ \/ changes[1].op = "AddOrUpdate"
            /\ applied' = Put(applied, x, ok) /\ warned' = Put(warned, x, w)
         \/ changes[1].op = "Delete" /\ x \notin DOMAIN resources
            /\ applied' = Drop(applied, x) /\ warned' = Drop(warned, x)
  BY AppliedChange
<1>2. \A y : Uses(y, k)' <=> Uses(y, k)
  BY <1>1, PrimedUses DEF Uses
<1>3. ASSUME NEW y, Uses(y, k), y # x, ToUpdate(y) PROVE Covered(k)'
  <2>1. PICK i \in DOMAIN changes : changes[i].op = "AddOrUpdate" /\ changes[i].key = y
    BY <1>3 DEF ToUpdate
  <2>2. PICK j \in DOMAIN changes' : changes'[j] = changes[i]
    BY <1>1, <1>3, <2>1
  <2>3. Uses(changes[j].key, k)'
    BY <1>1, <1>3, <2>1, <2>2 DEF Uses, PartKey
  <2> QED
    BY <2>1, <2>2, <2>3 DEF Covered
<1>4. ASSUME NEW y, Uses(y, k) PROVE y # x
  BY <1>1, <1>4 DEF Uses
<1>5. CASE Covered(k)
  <2>1. CASE \E p \in reported : p[1] = k
    BY <1>1, <2>1 DEF Covered
  <2>2. CASE \E i \in DOMAIN changes : changes[i].op = "AddOrUpdate" /\ Uses(changes[i].key, k)
    <3>1. PICK i \in DOMAIN changes : changes[i].op = "AddOrUpdate" /\ Uses(changes[i].key, k)
      BY <2>2
    <3>2. PICK y : y = changes[i].key
      OBVIOUS
    <3> QED
      BY <1>3, <1>4, <3>1, <3>2 DEF ToUpdate
  <2>3. ASSUME NEW i \in DOMAIN changes, changes[i].op = "Delete", changes[i].key = k,
               changes[i].error = TRUE
        PROVE  Covered(k)'
    <3>1. PICK j \in DOMAIN changes' : changes'[j] = changes[i]
      BY <1>1, <2>3
    <3> QED
      BY <2>3, <3>1 DEF Covered
  <2>4. pc = "idle"
    BY DEF ApplyChange
  <2> QED
    BY <1>5, <2>1, <2>2, <2>3, <2>4 DEF Covered
<1>6. CASE StateOK(k) /\ ~Covered(k)'
  <2>1. ASSUME NEW y, Uses(y, k) PROVE applied'[y] = applied[y] /\ warned'[y] = warned[y]
    <3>1. y # x /\ ~ToUpdate(y) /\ y \in DOMAIN resources
      BY <1>3, <1>4, <1>6, <2>1 DEF Uses
    <3>2. y \in DOMAIN applied /\ y \in DOMAIN warned
      BY <3>1 DEF AppliedInv, TypesInv
    <3> QED
      BY <1>1, <3>1, <3>2 DEF Put, Drop
  <2>2. Rejected(k)' => Rejected(k)
    BY <1>1, SameRejected
  <2> QED
    BY <1>1, <1>6, <2>1, <2>2, StateKept
<1> QED
  BY <1>5, <1>6 DEF StatusInv

\* an update reports the state of every part of the resource
UpdateReports(r, x, ok, w) ==
  IF r.kind = "Ingress" THEN updateIngressStatusAndEvents(r, x)
  ELSE updateVirtualServerStatusAndEvents(r, x, ok, w)

\* the state that it reports
ReportedState(r, x, ok, w, k) ==
  IF k[1] = "Ingress" THEN "Published"
  ELSE IF ~ok THEN "Invalid"
  ELSE IF (k = x /\ r.warnings # {}) \/ k \in w THEN "Warning" ELSE "Valid"

\* what it writes: the state of the parts, and nothing else
PartsWritten(r, x, ok, w, k) ==
  /\ PartKey(x, r, k) /\ k \notin skipped' => status'[k][1] = ReportedState(r, x, ok, w, k)
  /\ ~PartKey(x, r, k) => StatusLeft(k)

LEMMA UpdateWrites ==
  ASSUME TypesInv, NEW x, x[1] \in {"Ingress", "VirtualServer"}, NEW r, r.kind = x[1],
         NEW ok, NEW w, NEW k \in DOMAIN cluster, UpdateReports(r, x, ok, w)
  PROVE  PartsWritten(r, x, ok, w, k)
<1>1. CASE x[1] = "Ingress"
  <2> DEFINE K == {x} \cup {<<"Ingress", m.object.key>> : m \in Range(r.minions)}
             S == [j \in K |-> Published]
  <2>1. UpdateStatus(S)
    BY <1>1 DEF UpdateReports, updateIngressStatusAndEvents
  <2>2. k \in K <=> PartKey(x, r, k)
    BY <1>1 DEF PartKey, Range
  <2>3. k \in K => k[1] = "Ingress"
    BY <1>1
  <2>4. DOMAIN S = K /\ (k \in K => S[k][1] = "Published")
    BY DEF Published
  <2> HIDE DEF S, K
  <2>5. /\ k \notin DOMAIN S => StatusLeft(k)
        /\ k \in DOMAIN S /\ k \notin skipped' => status'[k] = S[k]
    BY <2>1, Written
  <2> QED
    BY <2>2, <2>3, <2>4, <2>5 DEF PartsWritten, ReportedState
<1>2. CASE x[1] = "VirtualServer"
  <2> DEFINE messages(j) == (IF j = x THEN r.warnings ELSE {}) \cup Warning(w, j)
             report(j) ==
               IF ~ok THEN <<"Invalid", "AddedOrUpdatedWithError", messages(j) \cup Failure(ok)>>
               ELSE IF messages(j) # {} THEN <<"Warning", "AddedOrUpdatedWithWarning", messages(j)>>
               ELSE <<"Valid", "AddedOrUpdated", {}>>
             R == {<<"VirtualServerRoute", v.key>> : v \in Range(r.routes)}
             K == {x} \cup R
             S == [j \in K |-> report(j)]
  <2>1. UpdateStatus(S)
    BY <1>2 DEF UpdateReports, updateVirtualServerStatusAndEvents
  <2>2. k \in K <=> PartKey(x, r, k)
    BY <1>2 DEF PartKey, Range
  <2>3. k \in K => k[1] # "Ingress"
    BY <1>2
  <2>4. messages(k) # {} <=> (k = x /\ r.warnings # {}) \/ k \in w
    BY DEF Warning
  <2>5. report(k)[1] = IF ~ok THEN "Invalid" ELSE IF messages(k) # {} THEN "Warning" ELSE "Valid"
    <3> HIDE DEF messages
    <3> QED
      OBVIOUS
  <2> HIDE DEF messages, R
  <2>6. DOMAIN S = K /\ (k \in K => S[k] = report(k))
    <3> HIDE DEF report, K
    <3> QED
      OBVIOUS
  <2> HIDE DEF report, S, K
  <2>7. /\ k \notin DOMAIN S => StatusLeft(k)
        /\ k \in DOMAIN S /\ k \notin skipped' => status'[k] = S[k]
    BY <2>1, Written
  <2> QED
    BY <2>2, <2>3, <2>4, <2>5, <2>6, <2>7 DEF PartsWritten, ReportedState
<1> QED
  BY <1>1, <1>2

\* a deletion reports an error for the resource itself, and nothing for the others
DeletionWritten(x, error, k) ==
  /\ k # x => StatusLeft(k)
  /\ k = x /\ error = TRUE /\ k \notin skipped' => status'[k][1] = RejectedState(k)

LEMMA DeleteWrites ==
  ASSUME TypesInv, NEW x, NEW r, r.kind = x[1], NEW error \in BOOLEAN, NEW ok,
         UpdateStatusAndEventsOnDelete(r, x, error, ok), NEW k \in DOMAIN cluster
  PROVE  DeletionWritten(x, error, k)
<1> DEFINE state == IF error \/ ~ok THEN "Invalid" ELSE "Warning"
           reason == IF ok THEN "Rejected" ELSE "RejectedWithError"
           message == (IF error THEN {<<"invalid", 0>>} ELSE r.warnings) \cup Failure(ok)
           value == IF r.kind = "Ingress" THEN NoStatus ELSE <<state, reason, message>>
           S == [j \in {x} |-> value]
<1>1. \/ error = FALSE /\ status' = status /\ skipped' = skipped /\ recreated' = recreated
      \/ UpdateStatus(S)
  BY DEF UpdateStatusAndEventsOnDelete, history
<1>2. error = TRUE => value[1] = RejectedState(x)
  BY DEF NoStatus, RejectedState
<1> HIDE DEF value
<1>3. DOMAIN S = {x} /\ S[x] = value
  OBVIOUS
<1> HIDE DEF S
<1>4. UpdateStatus(S) => /\ k \notin DOMAIN S => StatusLeft(k)
                         /\ k \in DOMAIN S /\ k \notin skipped' => status'[k] = S[k]
  BY Written
<1>5. CASE error = FALSE /\ status' = status /\ skipped' = skipped /\ recreated' = recreated
  BY <1>5 DEF DeletionWritten, StatusLeft
<1>6. CASE UpdateStatus(S)
  BY <1>2, <1>3, <1>4, <1>6 DEF DeletionWritten
<1> QED
  BY <1>1, <1>5, <1>6

\* applying the first change writes the statuses it stands for
LEMMA ApplyStatus ==
  ASSUME ControllerInv, ActiveInv, StoredInv, RejectedInv, DeletesInv, AppliedInv, StatusInv,
         NEW ok, NEW w, ApplyChange(ok, w)
  PROVE  StatusInv'
<1>7. PICK x, r, error : x = changes[1].key /\ r = changes[1].resource /\ error = changes[1].error
  OBVIOUS
<1>0. TypesInv /\ ResultsInv /\ LoopOK /\ UpdateInv /\ pc = "idle" /\ DOMAIN cluster \subseteq Keys
  BY DEF ControllerInv, ConfInv, HostsInv, UpdateInv, TasksInv, ApplyChange
<1>1. /\ 1 \in DOMAIN changes /\ x[1] \in {"Ingress", "VirtualServer"}
      /\ UNCHANGED <<resources, problems, reported, cluster, dirty, processing, wpc, pc, rejected>>
      /\ \A i \in DOMAIN changes : i # 1 => \E j \in DOMAIN changes' : changes'[j] = changes[i]
      /\ \/ /\ changes[1].op = "AddOrUpdate" /\ x \in DOMAIN resources /\ r = resources[x]
            /\ applied' = Put(applied, x, ok) /\ warned' = Put(warned, x, w)
            /\ IF r.kind = "Ingress" THEN updateIngressStatusAndEvents(r, x)
               ELSE updateVirtualServerStatusAndEvents(r, x, ok, w)
         \/ /\ changes[1].op = "Delete" /\ x \notin DOMAIN resources
            /\ UpdateStatusAndEventsOnDelete(r, x, error, ok)
  BY <1>0, <1>7, AppliedChange DEF ResKeys
<1>2. \A y, k : Uses(y, k)' <=> Uses(y, k)
  BY <1>1, PrimedUses DEF Uses
<1>3. \A k : Rejected(k)' => Rejected(k)
  BY <1>1, SameRejected
<1>4. ASSUME NEW k \in DOMAIN cluster, k \notin skipped' \cup recreated', changes[1].op = "AddOrUpdate"
      PROVE  Covered(k)' \/ StateOK(k)'
  <2>1. x \in DOMAIN resources /\ r = resources[x] /\ r.kind = x[1]
    BY <1>0, <1>1, <1>4 DEF LoopOK, KeyWithKind
  <2>0. UpdateReports(r, x, ok, w)
    BY <1>1, <1>4 DEF UpdateReports
  <2>2. /\ PartKey(x, r, k) => status'[k][1] = ReportedState(r, x, ok, w, k)
        /\ ~PartKey(x, r, k) => StatusLeft(k)
    <3>1. x[1] \in {"Ingress", "VirtualServer"}
      BY <1>1
    <3>2. r.kind = x[1]
      BY <2>1
    <3>3. TypesInv
      BY <1>0
    <3>4. PartsWritten(r, x, ok, w, k)
      BY <2>0, <3>1, <3>2, <3>3, UpdateWrites
    <3> QED
      BY <1>4, <3>4 DEF PartsWritten
  <2>3. CASE Uses(x, k)
    <3>1. applied'[x] = ok /\ warned'[x] = w /\ resources'[x] = r
      BY <1>1, <1>4, <2>1 DEF Put
    <3>2. status'[k][1] = UseState(x, k)'
      BY <2>2, <2>1, <2>3, <3>1 DEF UseState, ReportedState, Uses
    <3>3. \A y : Uses(y, k)' => y = x
      BY <1>2, <2>3 DEF ActiveInv
    <3>4. k \notin DOMAIN problems'
      BY <1>1, <2>3 DEF ActiveInv
    <3>5. ~Rejected(k)'
      BY <1>0, <1>3, <2>3, RejectedWasUsed
    <3> QED
      BY <3>2, <3>3, <3>4, <3>5 DEF StateOK
  <2>4. CASE ~Uses(x, k)
    <3>1. status'[k] = status[k] /\ k \notin skipped \cup recreated
      BY <1>4, <2>1, <2>2, <2>4 DEF Uses, StatusLeft
    <3> QED
      BY <1>0, <1>4, <2>4, <3>1, <1>7, ApplyOther
  <2> QED
    BY <2>3, <2>4
<1>5. ASSUME NEW k \in DOMAIN cluster, k \notin skipped' \cup recreated', changes[1].op = "Delete"
      PROVE  Covered(k)' \/ StateOK(k)'
  <2>1. /\ r.kind = x[1] /\ error \in BOOLEAN
        /\ \A y : Uses(y, x) =>
             \E j \in DOMAIN changes : changes[j].op = "AddOrUpdate" /\ changes[j].key = y
        /\ x \in DOMAIN problems => \E p \in reported : p[1] = x
        /\ Rejected(x) => error = TRUE
    BY <1>1, <1>5, <1>7 DEF DeletesInv, DeleteOK
  <2>0. UpdateStatusAndEventsOnDelete(r, x, error, ok)
    BY <1>1, <1>5
  <2>2. /\ k # x => StatusLeft(k)
        /\ k = x /\ error = TRUE => status'[k][1] = RejectedState(k)
    <3>1. r.kind = x[1]
      BY <2>1
    <3>2. error \in BOOLEAN
      BY <2>1
    <3>3. TypesInv
      BY <1>0
    <3>4. DeletionWritten(x, error, k)
      BY <2>0, <3>1, <3>2, <3>3, DeleteWrites
    <3> QED
      BY <1>5, <3>4 DEF DeletionWritten
  <2>3. CASE k # x
    <3>1. status'[k] = status[k] /\ k \notin skipped \cup recreated
      BY <1>5, <2>2, <2>3 DEF StatusLeft
    <3> QED
      BY <1>0, <1>5, <2>3, <3>1, <1>7, ApplyOther
  <2>4. CASE k = x /\ ~Covered(k)'
    <3>1. ASSUME NEW y, Uses(y, x)' PROVE FALSE
      <4>1. PICK j \in DOMAIN changes : changes[j].op = "AddOrUpdate" /\ changes[j].key = y
        BY <1>2, <2>1, <3>1
      <4>2. PICK i \in DOMAIN changes' : changes'[i] = changes[j]
        BY <1>1, <1>5, <4>1
      <4>3. Uses(changes[i].key, x)'
        BY <3>1, <4>1, <4>2 DEF Uses, PartKey
      <4> QED
        BY <2>4, <4>1, <4>2, <4>3 DEF Covered
    <3>2. k \notin DOMAIN problems'
      BY <1>1, <2>1, <2>4 DEF Covered
    <3>3. Rejected(k)' => status'[k][1] = RejectedState(k)
      BY <1>3, <2>1, <2>2, <2>4
    <3> QED
      BY <2>4, <3>1, <3>2, <3>3 DEF StateOK, RejectedState
  <2> QED
    BY <2>3, <2>4
<1>6. DOMAIN cluster' = DOMAIN cluster
  BY <1>1
<1> QED
  BY <1>1, <1>4, <1>5, <1>6 DEF StatusInv

\* processing a problem writes the status of its object
LEMMA ProcessStatus ==
  ASSUME ControllerInv, ActiveInv, StoredInv, RejectedInv, ReportInv, StatusInv,
         NEW p \in reported, ProcessProblem(p)
  PROVE  StatusInv'
<1> DEFINE state == IF p[2].isError THEN "Invalid" ELSE "Warning"
           message == {<<"problem", p[2].message>>}
           S == [x \in {p[1]} |-> IF x[1] = "Ingress" THEN NoStatus
                                  ELSE <<state, p[2].reason, message>>]
<1>0. TypesInv /\ UpdateInv /\ DOMAIN cluster \subseteq Keys
  BY DEF ControllerInv, UpdateInv, TasksInv
<1>1. /\ pc = "idle" /\ changes = <<>> /\ reported' = reported \ {p} /\ UpdateStatus(S)
      /\ UNCHANGED <<cluster, dirty, processing, wpc, resources, problems, pc, rejected, changes,
                     applied, warned>>
  BY DEF ProcessProblem, tasks, configurator
<1>2. DOMAIN S = {p[1]} /\ S[p[1]][1] = IF p[1][1] = "Ingress" THEN "" ELSE state
  BY DEF NoStatus
<1> HIDE DEF S
<1>3. \A k \in DOMAIN cluster : /\ k # p[1] => StatusLeft(k)
                                /\ k = p[1] /\ k \notin skipped' => status'[k] = S[k]
  BY <1>0, <1>1, <1>2, Written
<1>4. \A k : Rejected(k)' => Rejected(k)
  BY <1>1, SameRejected
<1>5. \A x, k : Uses(x, k)' <=> Uses(x, k)
  BY <1>1, PrimedUses DEF Uses
<1>6. ASSUME NEW k \in DOMAIN cluster, k \notin skipped' \cup recreated', k # p[1]
      PROVE  Covered(k)' \/ StateOK(k)'
  <2>0. status'[k] = status[k] /\ k \notin skipped \cup recreated
    <3>1. StatusLeft(k)
      BY <1>3, <1>6
    <3> QED
      BY <1>6, <3>1 DEF StatusLeft
  <2>1. DOMAIN changes = {}
    BY <1>1
  <2>2. CASE Covered(k)
    <3>1. PICK q \in reported : q[1] = k
      BY <1>1, <2>1, <2>2 DEF Covered
    <3>2. q \in reported'
      BY <1>1, <1>6, <3>1
    <3> QED
      BY <3>1, <3>2 DEF Covered
  <2>3. CASE StateOK(k)
    BY <1>1, <1>4, <2>0, <2>3, StateKept
  <2> QED
    BY <2>0, <2>2, <2>3 DEF StatusInv
<1>7. ASSUME NEW k \in DOMAIN cluster, k \notin skipped', k = p[1] PROVE StateOK(k)'
  <2>1. status'[k][1] = IF k[1] = "Ingress" THEN "" ELSE state
    <3> HIDE DEF state
    <3>1. status'[k] = S[k]
      BY <1>3, <1>7
    <3> QED
      BY <1>2, <1>7, <3>1
  <2>2. CASE p[2].isError = FALSE /\ k \in DOMAIN problems
    <3>1. status'[k][1] = ProblemState(k)
      BY <2>1, <2>2 DEF ProblemState
    <3>2. \A x : ~Uses(x, k)'
      BY <1>5, <2>2 DEF ActiveInv
    <3>3. ~Rejected(k)'
      BY <1>0, <1>1, <1>4, <2>2, RejectedWasUsed
    <3> QED
      BY <3>1, <3>2, <3>3 DEF StateOK, ProblemState
  <2>3. CASE p[2].isError = TRUE /\ ~Stored(k)
    <3>1. status'[k][1] = RejectedState(k)
      BY <2>1, <2>3 DEF RejectedState
    <3>2. k \notin DOMAIN problems' /\ \A x : ~Uses(x, k)'
      BY <1>1, <1>5, <2>3 DEF StoredInv
    <3> QED
      BY <3>1, <3>2 DEF StateOK, RejectedState
  <2> QED
    BY <1>7, <2>2, <2>3 DEF ReportInv
<1> QED
  BY <1>1, <1>6, <1>7 DEF StatusInv

\* the steps that write no status and leave Configuration and its results alone
LEMMA QuietStatus ==
  ASSUME ControllerInv, StatusInv,
         \/ GetTask \/ TaskDone \/ Informer \/ UNCHANGED vars \/ (Rebuild /\ ~FinishRebuild)
  PROVE  StatusInv'
<1>0. TasksInv /\ ResultsInv
  BY DEF ControllerInv, UpdateInv
<1>1. /\ UNCHANGED <<cluster, status, skipped, recreated>>
      /\ UNCHANGED <<resources, problems, reported, changes, pc, rejected, applied, warned>>
  BY BuildLeaves DEF GetTask, TaskDone, Informer, StatusArrives, vars, api, conf, active, locals,
     results, configurator, history
<1>2. ASSUME NEW k, Rejected(k)' PROVE Rejected(k)
  <2>1. k \in DOMAIN cluster /\ cluster'[k] = cluster[k]
    BY <1>1, <1>2 DEF Rejected
  <2>2. /\ cluster[k].class /\ ~IsValid(k, cluster[k])
        /\ k \notin dirty' /\ ~(wpc' = "sync" /\ k \in processing')
    BY <1>2, <2>1, PrimedRejected
  <2>3. CASE GetTask
    <3>1. PICK h \in Keys : Queue!Get(h)
      BY <2>3 DEF GetTask
    <3>2. wpc = "get" /\ wpc' = "sync" /\ dirty' = dirty \ {h} /\ processing' = processing \cup {h}
      BY <2>3, <3>1 DEF GetTask, Queue!Get
    <3> QED
      BY <2>1, <2>2, <3>2 DEF Rejected
  <2>4. CASE TaskDone
    <3>1. wpc = "apply" /\ dirty' = dirty
      BY <2>4 DEF TaskDone, Queue!Done
    <3> QED
      BY <2>1, <2>2, <3>1 DEF Rejected
  <2>5. CASE Informer \/ UNCHANGED vars \/ (Rebuild /\ ~FinishRebuild)
    <3>1. UNCHANGED <<cluster, dirty, processing, wpc>>
      BY <2>5, BuildLeaves DEF Informer, StatusArrives, vars, api, tasks
    <3> QED
      BY <1>2, <3>1, SameRejected
  <2> QED
    BY <2>3, <2>4, <2>5
<1>3. ASSUME NEW k \in DOMAIN cluster \ (skipped \cup recreated) PROVE Covered(k)' \/ StateOK(k)'
  <2>1. status'[k] = status[k]
    BY <1>1
  <2> QED
    BY <1>1, <1>2, <2>1, StatusSame
<1>4. DOMAIN cluster' = DOMAIN cluster
  BY <1>1
<1> QED
  BY <1>1, <1>3, <1>4 DEF StatusInv

\* every step keeps StatusInv
LEMMA StatusStep ==
  ASSUME ControllerInv, PartsInv, WarnInv, WarnInv', ActiveInv, StoredInv, RejectedInv,
         IncarnationInv, ReportInv, DeletesInv, AppliedInv, StatusInv, [Next]_vars
  PROVE  StatusInv'
<1>1. CASE Users(Specs, Uids, 1..MaxClock)
  BY <1>1, UsersStatus
<1>2. CASE SyncTask
  BY <1>2, SyncStatus
<1>3. CASE Rebuild /\ FinishRebuild
  BY <1>3, FinishStatus
<1>4. ASSUME NEW ok, NEW w, ApplyChange(ok, w) PROVE StatusInv'
  BY <1>4, ApplyStatus
<1>5. ASSUME NEW p \in reported, ProcessProblem(p) PROVE StatusInv'
  BY <1>5, ProcessStatus
<1>6. CASE GetTask \/ TaskDone \/ Informer \/ UNCHANGED vars \/ (Rebuild /\ ~FinishRebuild)
  BY <1>6, QuietStatus
<1> QED
  BY <1>1, <1>2, <1>3, <1>4, <1>5, <1>6 DEF Next, Worker

-----------------------------------------------------------------------------
\* When no task is left, StatusInv is StatusTruth

\* a stored object that no resource uses has a problem
LEMMA UnusedHasProblem ==
  ASSUME ControllerInv, UsedOrProblem, pc = "idle", NEW k \in Keys, Stored(k), \A x : ~Uses(x, k)
  PROVE  k \in DOMAIN problems
<1>0. LoopOK
  BY DEF ControllerInv, ConfInv, HostsInv
<1>1. /\ k = <<k[1], k[2]>>
      /\ k[1] \in {"Ingress", "VirtualServer", "VirtualServerRoute"}
  BY KeyIsPair
<1>2. CASE k \in StoredKeys
  <2>1. k \notin DOMAIN resources
    BY DEF Uses, PartKey
  <2> QED
    BY <1>0, <1>2, <2>1 DEF LoopOK, UsedOrProblem
<1>3. CASE k[1] = "Ingress" /\ k[2] \in DOMAIN ingresses /\ isMinion(ingresses[k[2]])
  <2>1. ASSUME NEW x \in DOMAIN resources, x[1] = "Ingress",
               NEW m \in Range(resources[x].minions), m.object.key = k[2]
        PROVE  FALSE
    <3>1. PICK i \in DOMAIN resources[x].minions : m = resources[x].minions[i]
      BY <2>1 DEF Range
    <3> QED
      BY <1>1, <1>3, <2>1, <3>1 DEF Uses, PartKey
  <2> QED
    BY <1>1, <1>3, <2>1 DEF UsedOrProblem
<1>4. CASE k[1] = "VirtualServerRoute" /\ k[2] \in DOMAIN virtualServerRoutes
  <2>1. ASSUME NEW x \in DOMAIN resources, x[1] = "VirtualServer",
               NEW v \in Range(resources[x].routes), v.key = k[2]
        PROVE  FALSE
    <3>1. PICK i \in DOMAIN resources[x].routes : v = resources[x].routes[i]
      BY <2>1 DEF Range
    <3> QED
      BY <1>1, <1>4, <2>1, <3>1 DEF Uses, PartKey
  <2> QED
    BY <1>1, <1>4, <2>1 DEF UsedOrProblem
<1> QED
  BY <1>1, <1>2, <1>3, <1>4 DEF Stored, StoredKeys, ResourceKeys

\* the resources that ExpectedState looks at are the ones that use the object
LEMMA UsersOf ==
  ASSUME ResultsInv, NEW k \in Keys
  PROVE  /\ k[1] = "Ingress" =>
              ((\E x : Uses(x, k)) <=> k \in DOMAIN resources \/ ActiveMaster(k[2]) # {})
         /\ k[1] = "VirtualServer" => \A x : Uses(x, k) <=> x = k /\ k \in DOMAIN resources
         /\ k[1] = "VirtualServerRoute" => \A x : Uses(x, k) <=> x \in ActiveServers(k[2])
<1>1. k = <<k[1], k[2]>>
  BY KeyIsPair
<1>2. \A x \in DOMAIN resources : x[1] \in {"Ingress", "VirtualServer"}
  BY DEF ResultsInv, ResKeys
<1>3. \A x : x \in ActiveMaster(k[2]) <=>
        x \in DOMAIN resources /\ x[1] = "Ingress" /\
          \E i \in DOMAIN resources[x].minions : resources[x].minions[i].object.key = k[2]
  BY DEF ActiveMaster, Range
<1>4. \A x : x \in ActiveServers(k[2]) <=>
        x \in DOMAIN resources /\ x[1] = "VirtualServer" /\
          \E i \in DOMAIN resources[x].routes : resources[x].routes[i].key = k[2]
  BY DEF ActiveServers, Range
<1>5. ASSUME k[1] = "Ingress", NEW x
      PROVE  Uses(x, k) <=> (x = k /\ k \in DOMAIN resources) \/ x \in ActiveMaster(k[2])
  BY <1>1, <1>2, <1>3, <1>5 DEF Uses, PartKey
<1>6. ASSUME k[1] = "VirtualServer", NEW x
      PROVE  Uses(x, k) <=> x = k /\ k \in DOMAIN resources
  BY <1>1, <1>2, <1>6 DEF Uses, PartKey
<1>7. ASSUME k[1] = "VirtualServerRoute", NEW x
      PROVE  Uses(x, k) <=> x \in ActiveServers(k[2])
  BY <1>1, <1>2, <1>4, <1>7 DEF Uses, PartKey
<1> QED
  BY <1>5, <1>6, <1>7

\* what NGINX has of an object that no resource uses, or one
LEMMA StateInNone == \A k : StateIn(k, {}) = "Warning"
  BY DEF StateIn
LEMMA StateInOne ==
  \A k, x : StateIn(k, {x}) = IF ~applied[x] THEN "Invalid"
                              ELSE IF k \in warned[x] THEN "Warning" ELSE "Valid"
  BY DEF StateIn

\* without a task nothing is covered, so every status is right
LEMMA IdleTruth ==
  ASSUME ControllerInv, UsedOrProblem, ActiveInv, QueueInv, ReportInv, StatusInv
  PROVE  StatusTruth
<1> SUFFICES ASSUME Idle, NEW k \in DOMAIN cluster \ (skipped \cup recreated), cluster[k].class
             PROVE  status[k][1] = ExpectedState(k)
  BY DEF StatusTruth
<1>0. TasksInv /\ UpdateInv /\ ResultsInv /\ k \in Keys /\ wpc = "get" /\ queue = <<>>
  BY DEF ControllerInv, UpdateInv, TasksInv, Idle
<1>1. processing = {} /\ pc = "idle" /\ changes = <<>> /\ reported = {} /\ dirty = {}
  <2>1. DOMAIN queue = {}
    BY <1>0
  <2> QED
    BY <1>0, <2>1 DEF TasksInv, ResultsInv, ReportInv, QueueInv
<1>2. StateOK(k)
  <2>1. DOMAIN changes = {}
    BY <1>1
  <2> QED
    BY <1>1, <2>1 DEF StatusInv, Covered
<1>3. k[1] \in {"Ingress", "VirtualServer", "VirtualServerRoute"}
  BY <1>0, KeyIsPair
<1>4. CASE ~IsValid(k, cluster[k])
  <2>1. status[k][1] = RejectedState(k)
    BY <1>0, <1>1, <1>2, <1>4 DEF StateOK, Rejected
  <2> QED
    BY <1>4, <2>1 DEF RejectedState, ExpectedState
<1>5. CASE IsValid(k, cluster[k])
  <2>1. Stored(k)
    BY <1>0, <1>1, <1>5 DEF UpdateInv, Synced, Wanted
  <2>2. CASE \A x : ~Uses(x, k)
    <3>1. status[k][1] = ProblemState(k)
      BY <1>0, <1>1, <1>2, <2>1, <2>2, UnusedHasProblem DEF StateOK
    <3>2. CASE k[1] = "Ingress"
      <4>1. k \notin DOMAIN resources /\ ActiveMaster(k[2]) = {}
        BY <1>0, <2>2, <3>2, UsersOf
      <4> QED
        BY <3>1, <3>2, <4>1 DEF ProblemState, ExpectedState
    <3>3. CASE k[1] = "VirtualServer"
      <4>1. k \notin DOMAIN resources /\ {k} \cap DOMAIN resources = {}
        BY <1>0, <2>2, <3>3, UsersOf
      <4> QED
        BY <1>5, <3>1, <3>3, <4>1, StateInNone DEF ProblemState, ExpectedState
    <3>4. CASE k[1] = "VirtualServerRoute"
      <4>1. ActiveServers(k[2]) = {}
        BY <1>0, <2>2, <3>4, UsersOf
      <4> QED
        BY <1>5, <3>1, <3>4, <4>1, StateInNone DEF ProblemState, ExpectedState
    <3> QED
      BY <1>3, <3>2, <3>3, <3>4
  <2>3. ASSUME NEW x, Uses(x, k) PROVE status[k][1] = ExpectedState(k)
    <3>1. status[k][1] = UseState(x, k) /\ \A y : Uses(y, k) => y = x
      BY <1>2, <2>3 DEF StateOK, ActiveInv
    <3>2. CASE k[1] = "Ingress"
      <4>1. k \in DOMAIN resources \/ ActiveMaster(k[2]) # {}
        BY <1>0, <2>3, <3>2, UsersOf
      <4> QED
        BY <1>5, <3>1, <3>2, <4>1 DEF UseState, ExpectedState
    <3>3. CASE k[1] = "VirtualServer"
      <4>1. x = k /\ k \in DOMAIN resources /\ {k} \cap DOMAIN resources = {k}
        BY <1>0, <2>3, <3>3, UsersOf
      <4> QED
        BY <1>5, <3>1, <3>3, <4>1, StateInOne DEF UseState, ExpectedState
    <3>4. CASE k[1] = "VirtualServerRoute"
      <4>0. \A y : Uses(y, k) <=> y \in ActiveServers(k[2])
        BY <1>0, <3>4, UsersOf
      <4>1. \A y : y \in ActiveServers(k[2]) <=> y = x
        BY <2>3, <3>1, <4>0
      <4>2. ActiveServers(k[2]) = {x}
        BY <4>1
      <4>3. x # k
        BY <2>3, <1>0, <3>4 DEF Uses, ResultsInv, ResKeys
      <4> QED
        BY <1>5, <3>1, <3>4, <4>2, <4>3, StateInOne DEF UseState, ExpectedState
    <3> QED
      BY <1>3, <3>2, <3>3, <3>4
  <2> QED
    BY <2>2, <2>3
<1> QED
  BY <1>4, <1>5

-----------------------------------------------------------------------------
\* Put together

\* what holds between calls of Configuration
IdleInv == pc = "idle" => ActiveInv /\ StoredInv
BaseInv == ControllerInv /\ UsedOrProblem /\ AgeInv /\ PartsInv /\ WarnInv /\ ProblemsInv /\ IdleInv
WorkInv == ActiveInv /\ StoredInv /\ RejectedInv /\ QueueInv /\ IncarnationInv /\ ReportInv
           /\ DeletesInv /\ AppliedInv /\ StatusInv

\* the invariants that do not mention the task
LEMMA BaseHolds == Spec => []BaseInv
<1> DEFINE J == ControllerInv /\ AgeInv /\ PartsInv /\ WarnInv /\ ProblemsInv
<1>1. Init => J
  <2> SUFFICES ASSUME Init PROVE J
    OBVIOUS
  <2>1. ControllerInv /\ AgeInv /\ PartsInv
    BY FileInvInit DEF FileInv
  <2>2. WarnInv /\ ProblemsInv
    BY DEF Init, NewConfiguration, Empty, WarnInv, ProblemsInv, Range
  <2> QED
    BY <2>1, <2>2
<1>2. J /\ [Next]_vars => J'
  <2>1. ControllerInv /\ [Next]_vars => ControllerInv'
    BY StepInv, ConfStep, ResultsStep, TypesStep DEF ControllerInv, UpdateInv
  <2>2. ControllerInv => ConfInv
    BY DEF ControllerInv
  <2> QED
    BY <2>1, <2>2, AgeStep, PartsStep, WarnStep, ProblemsStep
<1>3. J /\ UsedOrProblem => BaseInv
  <2> SUFFICES ASSUME J, UsedOrProblem PROVE BaseInv
    OBVIOUS
  <2>1. ConfInv
    BY DEF ControllerInv
  <2>2. pc = "idle" => ActiveInv
    BY <2>1, IdleActive
  <2>3. pc = "idle" => StoredInv
    BY <2>1, IdleStored DEF StoredInv
  <2> QED
    BY <2>2, <2>3 DEF BaseInv, IdleInv
<1> QED
  BY <1>1, <1>2, <1>3, ControllerHosts, PTL DEF Spec

\* initially nothing is in use, reported or written
LEMMA WorkInit == Init => WorkInv
<1> SUFFICES ASSUME Init PROVE WorkInv
  OBVIOUS
<1>1. /\ cluster = Empty /\ resources = Empty /\ problems = Empty /\ applied = Empty
      /\ pc = "idle" /\ rejected = NoKey /\ changes = <<>> /\ reported = {} /\ dirty = {}
  BY DEF Init, NewConfiguration, Queue!QueueInit
<1>2. DOMAIN cluster = {} /\ DOMAIN resources = {} /\ DOMAIN problems = {} /\ DOMAIN changes = {}
  BY <1>1 DEF Empty
<1>3. \A x, k : ~Uses(x, k)
  BY <1>2 DEF Uses
<1>4. ActiveInv /\ StoredInv
  BY <1>2, <1>3 DEF ActiveInv, StoredInv
<1>5. RejectedInv /\ QueueInv /\ IncarnationInv /\ ReportInv
  BY <1>1, <1>2 DEF RejectedInv, QueueInv, IncarnationInv, ReportInv
<1>6. DeletesInv /\ AppliedInv /\ StatusInv
  BY <1>2 DEF DeletesInv, AppliedInv, StatusInv
<1> QED
  BY <1>4, <1>5, <1>6 DEF WorkInv

\* a step keeps the invariants about the task, given the others before and after it
LEMMA WorkStep == BaseInv /\ BaseInv' /\ WorkInv /\ [Next]_vars => WorkInv'
<1> SUFFICES ASSUME BaseInv, BaseInv', WorkInv, [Next]_vars PROVE WorkInv'
  OBVIOUS
<1>1. ControllerInv /\ PartsInv /\ WarnInv /\ ProblemsInv
  BY DEF BaseInv
<1>2. WarnInv' /\ (pc = "idle" => ActiveInv)' /\ (pc = "idle" => StoredInv)'
  BY DEF BaseInv, IdleInv
<1>3. /\ ActiveInv /\ StoredInv /\ RejectedInv /\ QueueInv /\ IncarnationInv /\ ReportInv
      /\ DeletesInv /\ AppliedInv /\ StatusInv
  BY DEF WorkInv
<1>4. ActiveInv' /\ StoredInv'
  BY <1>1, <1>2, <1>3, ActiveStep, StoredStep
<1>5. RejectedInv' /\ QueueInv' /\ IncarnationInv' /\ ReportInv' /\ AppliedInv'
  BY <1>1, <1>3, RejectedStep, QueueStep, IncarnationStep, ReportStep, AppliedStep
<1>6. DeletesInv'
  BY <1>1, <1>2, <1>3, DeletesStep
<1>7. StatusInv'
  BY <1>1, <1>2, <1>3, StatusStep
<1> QED
  BY <1>4, <1>5, <1>6, <1>7 DEF WorkInv

\* Whenever no task is left the status of every object tells what became of it: Invalid
\* if it failed validation or NGINX did not reload, Warning if it is not in use or in
\* use with warnings, Valid otherwise, and for an Ingress the address exactly if it is
\* in use; in any order of edits, of the worker's steps and of the updates of the
\* lister, and whatever reloads and the generator of the files report.  So the changes
\* and problems that rebuild reports are all that is needed (IsEqual and
\* detectChangesInProblems leave out nothing that shows in a status), processing
\* deletions first and problems last leaves no outdated status behind, and the only
\* objects with another status are those that StatusTruth names: the last report on
\* one was left out because the lister showed it already, or the object took the
\* place of one that the worker still had to delete and was not reported on since.
THEOREM StatusesAreTrue == Spec => []StatusTruth
<1>1. BaseInv /\ WorkInv => StatusTruth
  BY IdleTruth DEF BaseInv, WorkInv
<1> QED
  BY <1>1, BaseHolds, WorkInit, WorkStep, PTL DEF Spec
===============================================================================
