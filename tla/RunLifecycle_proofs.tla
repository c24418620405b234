------------------------ MODULE RunLifecycle_proofs ------------------------
(***************************************************************************)
(* Proofs about RunLifecycle, for every set of runs and threads and every  *)
(* number of failures and restarts.                                        *)
(***************************************************************************)
EXTENDS RunLifecycle, TLAPS

\* The locks of a thread belong to the one start request that is in progress on it.
OneRequest == \A r \in Runs : adm[r] \notin AdmOver <=> ctx[Thread(r)] = r

\* Only an admitted request has a task.
LaunchedOnly == \A r \in Runs : pc[r] # "none" => adm[r] = "admitted"

\* A request that does not know yet that its predecessors are over watches every
\* live task of its thread.
Watching == \A r, a \in Runs :
    /\ adm[r] \in {"put", "persist", "await"}
    /\ Thread(a) = Thread(r) /\ TaskAlive(a)
    => a \in seen[r]

\* Past that point no task of the thread is alive.
Quiet == \A r, a \in Runs :
    adm[r] \in {"settle", "announce"} /\ Thread(a) = Thread(r) => ~TaskAlive(a)

Exclusion == OneRequest /\ LaunchedOnly /\ Watching /\ Quiet /\ OneWriter

\* Only an interrupt or a rollback in progress has predecessors to act upon.
ReplacesOnly == \A r \in Runs :
    strategy[r] = "reject" \/ adm[r] \in AdmOver \cup {"bind"} => seen[r] = {}

BeforeCapture(r) ==
    \/ pc[r] \in {"start", "capture"}
    \/ pc[r] \in {"lock", "persist"} /\ target[r] = "running"

\* A run has no output before the snapshot is taken.
Untouched == \A r \in Runs :
    adm[r] \notin {"admitted", "lost"} \/ BeforeCapture(r) => r \notin head[Thread(r)]

\* A snapshot belongs to a live task, and a restore has one.
Restorable == \A r \in Runs :
    /\ captured[r] => TaskAlive(r)
    /\ pc[r] = "rollback" => captured[r]

Snapshots == Untouched /\ Restorable /\ SnapshotFaithful

\* A success that waits for the registry lock is not aborted, unless its
\* CancelledError comes first.
WaitingSuccess == \A r \in Runs :
    /\ abort[r] /\ pc[r] = "lock" /\ target[r] = "success" => cancelReq[r]
    /\ status[r] = "success" => pc[r] # "none"

Aborts == WaitingSuccess /\ AbortedNeverSucceeds

\* What the status of a run says of its request ...
RequestStatus(r) ==
    /\ adm[r] \in {"none", "bind"} => status[r] = "absent" /\ ~abort[r]
    /\ adm[r] = "put" => lock = r /\ status[r] = "pending"
    /\ adm[r] \in {"persist", "await", "settle", "announce"} => status[r] \in {"pending", "interrupted"}
    /\ adm[r] = "fail_persist" => status[r] = "error"
    /\ adm[r] = "rejected" => status[r] \notin Live
    /\ adm[r] = "lost" => status[r] = "absent"
    /\ adm[r] = "admitted" => pc[r] # "none"

\* ... of the position of its task ...
TaskStatus(r) ==
    /\ pc[r] \in {"none", "start", "capture", "stream"} => phase[r] = "body"
    /\ pc[r] \in {"lock", "persist"} =>
         /\ target[r] # "pending"
         /\ target[r] \in {"running", "success"} => phase[r] = "body"
    /\ pc[r] = "persist" /\ target[r] # "running" => status[r] \notin Live
    /\ pc[r] = "persist" /\ target[r] = "interrupted" => status[r] = "interrupted"
    /\ pc[r] # "none" => status[r] # "absent"
    /\ status[r] \in {"running", "success"} => pc[r] # "none"
    /\ status[r] = "success" => pc[r] \notin {"start", "lock", "capture", "stream"}
    /\ status[r] = "error" =>
         /\ pc[r] \notin {"start", "capture", "stream"}
         /\ pc[r] = "lock" => target[r] = "rollback" /\ phase[r] = "cancelled"
    /\ status[r] \in {"success", "error"} /\ pc[r] = "persist" => target[r] # "running"
    /\ pc[r] \in {"finlock", "finpersist"} =>
         target[r] = status[r] \/ (target[r] \in Live /\ proc # "up")

\* ... of an abort while the body of run_agent executes ...
BodyStatus(r) ==
    /\ phase[r] = "body" /\ pc[r] = "persist" /\ target[r] \in {"success", "error"} => ~abort[r]
    /\ phase[r] = "body" /\ (pc[r] = "rollback" \/ (pc[r] \in {"lock", "persist"} /\ target[r] = "rollback"))
         => abort[r] /\ action[r] = "rollback"

\* ... and of the cancellations that are on their way to it.  A CancelledError finds the
\* finalizer only if a waiting request was cancelled, which is a fault.
CancelStatus(r) ==
    /\ cancelReq[r] => abort[r] /\ TaskAlive(r) /\ (Interruptible(r) \/ faults > 0)
    /\ status[r] = "interrupted" => abort[r]
    /\ pc[r] = "lock" /\ target[r] \in {"interrupted", "rollback"} => abort[r]
    /\ pc[r] = "lock" /\ (abort[r] \/ status[r] \notin Live)
         => cancelReq[r] \/ target[r] \notin {"running", "success", "error"}
                        \/ (target[r] = "error" /\ phase[r] # "body")
    /\ status[r] \in Live /\ TaskAlive(r) => Interruptible(r) \/ (abort[r] /\ proc # "up")
    /\ proc = "up" /\ status[r] \in Live =>
         /\ abort[r] => adm[r] \in {"failing", "abandoned"}
         /\ pc[r] \notin {"done", "cancelled"}
    /\ r \in drain => pc[r] # "none" /\ (abort[r] \/ status[r] \notin Live)
    /\ proc = "down" => pc[r] = "none" /\ status[r] = "absent" /\ adm[r] \in AdmOver

RunProgress(r) == RequestStatus(r) /\ TaskStatus(r) /\ BodyStatus(r) /\ CancelStatus(r)

Progress == \A r \in Runs : RunProgress(r)

IInv == TypeOK /\ ReplacesOnly /\ Exclusion /\ Snapshots /\ Aborts /\ Progress
-----------------------------------------------------------------------------
(* Type correctness *)

\* The program starts in a state of the type.
LEMMA TypeInit == Init => TypeOK
BY RunsAssumption, BoundsAssumption
   DEF Init, TypeOK, RecordsOK, WorkersOK, RequestsOK, LocksOK, StoresOK, ProcessOK,
       Status, Live, Terminal, Actions, Strategies, Targets, WorkerPC, AdmPC

\* A part of the type is kept by a step that leaves its variables alone.
LEMMA UnchangedType ==
    /\ RecordsOK /\ UNCHANGED recordVars => RecordsOK'
    /\ WorkersOK /\ UNCHANGED workerVars => WorkersOK'
    /\ RequestsOK /\ UNCHANGED admVars => RequestsOK'
    /\ LocksOK /\ UNCHANGED lockVars => LocksOK'
    /\ StoresOK /\ UNCHANGED <<storeVars, head>> => StoresOK'
    /\ ProcessOK /\ UNCHANGED <<procVars, faults>> => ProcessOK'
BY DEF RecordsOK, WorkersOK, RequestsOK, LocksOK, StoresOK, ProcessOK,
       recordVars, workerVars, admVars, lockVars, storeVars, procVars

\* A write cut short stores a status, a restore cut short a content.
LEMMA CutType ==
    ASSUME TypeOK, NEW r \in Runs, CutShort(r), UNCHANGED <<writes, tstatus, newest>>
    PROVE  StoresOK'
<1>1. target[r] \in Targets /\ base[r] \in SUBSET Runs
  BY DEF TypeOK, WorkersOK
<1>2. Outcome(target[r]) \in Status
  BY <1>1 DEF Outcome, Targets, Status, Live, Terminal
<1>3. /\ row' = row \/ row' = [row EXCEPT ![r] = Outcome(target[r])]
      /\ head' = head \/ head' = [head EXCEPT ![Thread(r)] = base[r]]
  BY DEF CutShort, Restored
<1>. QED
  BY <1>1, <1>2, <1>3 DEF TypeOK, StoresOK

\* No step of a worker leaves the type.
LEMMA WorkerType ==
    ASSUME TypeOK, Progress, NEW r \in Runs, Worker(r)
    PROVE  TypeOK'
<1>. USE UnchangedType, RunsAssumption, BoundsAssumption DEF TypeOK
<1>1. CASE NeverRuns(r)
  BY <1>1 DEF NeverRuns, TaskEnds, WorkersOK, WorkerPC, Targets, Status, Live, recordVars,
      workerVars, admVars, lockVars, storeVars, procVars
<1>2. CASE Skips(r)
  BY <1>2 DEF Skips, TaskEnds, WorkersOK, WorkerPC, Targets, Status, Live, recordVars,
      workerVars, admVars, lockVars, storeVars, procVars
<1>3. CASE Starts(r)
  BY <1>3 DEF Starts, SetStatus, Outcome, RecordsOK, Status, Live, Terminal,
      Actions, WorkersOK, WorkerPC, Targets, recordVars, workerVars, admVars,
      lockVars, storeVars, procVars
<1>4. CASE GetsLock(r)
  BY <1>4 DEF GetsLock, SetStatus, Outcome, RecordsOK, Status, Live, Terminal,
      Actions, WorkersOK, WorkerPC, Targets, admVars, lockVars, storeVars, procVars
<1>5. CASE PersistsStatus(r)
  BY <1>5 DEF PersistsStatus, WriteRow, Fault, Outcome, AfterStatus, Targets,
      WorkersOK, WorkerPC, StoresOK, Status, Live, Terminal, ProcessOK,
      recordVars, workerVars, admVars, lockVars, storeVars, procVars
<1>6. CASE Captures(r)
  <2>1. head[Thread(r)] \subseteq Runs
    BY DEF StoresOK, Thread
  <2>2. WorkersOK'
    BY <1>6, <2>1 DEF Captures, WorkersOK, WorkerPC
  <2>3. StoresOK'
    BY <1>6 DEF Captures
  <2>4. ProcessOK'
    BY <1>6 DEF Captures, Fault, ProcessOK, procVars
  <2>. QED
    BY <2>2, <2>3, <2>4, <1>6 DEF Captures
<1>7. CASE AgentWrites(r)
  BY <1>7 DEF AgentWrites, Thread, StoresOK, Status, Live, Terminal,
      recordVars, workerVars, admVars, lockVars, storeVars, procVars
<1>8. CASE AgentSwallows(r)
  BY <1>8 DEF AgentSwallows, WorkersOK, WorkerPC, Targets, recordVars,
      workerVars, admVars, lockVars, storeVars, procVars
<1>9. CASE StreamEnds(r)
  BY <1>9 DEF StreamEnds, SetStatus, Outcome, StreamOutcomes, AbortTarget,
      GraphOutcomes, RecordsOK, Status, Live, Terminal, Actions, WorkersOK,
      WorkerPC, Targets, recordVars, workerVars, admVars, lockVars, storeVars,
      procVars
<1>10. CASE StreamRaises(r)
  BY <1>10 DEF StreamRaises, SetStatus, Outcome, RecordsOK, Status, Live,
      Terminal, Actions, WorkersOK, WorkerPC, Targets, recordVars, workerVars,
      admVars, lockVars, storeVars, procVars
<1>11. CASE CancelledInBody(r)
  <2>1. AbortTarget(r) \in Targets /\ \A s \in Targets : Outcome(s) \in Status
    BY DEF AbortTarget, Outcome, Targets, Status, Live, Terminal
  <2>2. RecordsOK'
    BY <1>11, <2>1 DEF CancelledInBody, SetStatus, RecordsOK
  <2>3. WorkersOK'
    BY <1>11, <2>1 DEF CancelledInBody, SetStatus, WorkersOK, WorkerPC
  <2>4. StoresOK'
    BY <1>11, CutType DEF CancelledInBody
  <2>. QED
    BY <1>11, <2>2, <2>3, <2>4 DEF CancelledInBody, admVars, lockVars, procVars
<1>12. CASE CancelledInHandler(r)
  <2>1. WorkersOK'
    BY <1>12 DEF CancelledInHandler, WorkersOK, WorkerPC
  <2>2. StoresOK'
    BY <1>12, CutType DEF CancelledInHandler
  <2>. QED
    BY <1>12, <2>1, <2>2 DEF CancelledInHandler, admVars, lockVars, procVars
<1>13. CASE RollsBack(r)
  BY <1>13 DEF RollsBack, Fault, Restored, Thread, WorkersOK, WorkerPC,
      Targets, StoresOK, Status, Live, Terminal, ProcessOK, recordVars,
      workerVars, admVars, lockVars, storeVars, procVars
<1>14. CASE Concludes(r)
  <2>1. status[r] \in Targets
    BY <1>14 DEF Concludes, Progress, RunProgress, TaskStatus, RecordsOK, Targets
  <2>. QED
    BY <1>14, <2>1 DEF Concludes, AtCompletion, WorkersOK, WorkerPC
<1>16. CASE GetsLockAtEnd(r)
  BY <1>16 DEF GetsLockAtEnd, WorkersOK, WorkerPC
<1>17. CASE Completes(r)
  <2>1. WorkersOK'
    BY <1>17 DEF Completes, WorkersOK, WorkerPC
  <2>2. target[r] \in Status
    <3>1. target[r] \in {status[r]} \cup Live
      BY <1>17 DEF Completes, Progress, RunProgress, TaskStatus
    <3>2. status[r] \in Status
      BY <1>17 DEF Completes, Progress, RunProgress, TaskStatus, RecordsOK
    <3>. QED
      BY <3>1, <3>2 DEF Status
  <2>3. StoresOK' /\ ProcessOK'
    BY <1>17, <2>2 DEF Completes, WriteRow, Fault, StoresOK, ProcessOK, procVars
  <2>. QED
    BY <1>17, <2>1, <2>3 DEF Completes, admVars, lockVars, recordVars
<1>18. CASE CancelledInFinalizer(r)
  <2>1. WorkersOK'
    BY <1>18 DEF CancelledInFinalizer, TaskEnds, WorkersOK, WorkerPC, Targets, Status, Live
  <2>2. target[r] \in Status \cup {"rollback"} /\ status[r] \in Status \cup {"absent"}
    BY DEF WorkersOK, RecordsOK, Targets
  <2>3. pc[r] = "finpersist" => target[r] \in {status[r]} \cup Live
    BY DEF Progress, RunProgress, TaskStatus
  <2>4. StoresOK'
    BY <1>18, <2>2, <2>3 DEF CancelledInFinalizer, ThreadStatus, StoresOK, Status, Live, Terminal
  <2>. QED
    BY <1>18, <2>1, <2>4 DEF CancelledInFinalizer
<1>15. CASE Finishes(r)
  <2>1. WorkersOK'
    BY <1>15 DEF Finishes, Fault, TaskEnds, WorkersOK, WorkerPC, Targets, Status, Live
  <2>2. StoresOK'
    BY <1>15 DEF Finishes, Fault, ThreadStatus, RecordsOK, Thread, StoresOK,
        Status, Live, Terminal, storeVars
  <2>3. ProcessOK'
    BY <1>15 DEF Finishes, Fault, ProcessOK, procVars
  <2>. QED
    BY <2>1, <2>2, <2>3, <1>15 DEF Finishes
<1>. QED
  BY <1>1, <1>2, <1>3, <1>4, <1>5, <1>6, <1>7, <1>8, <1>9, <1>10, <1>11,
      <1>12, <1>13, <1>14, <1>15, <1>16, <1>17, <1>18 DEF Worker

\* No step of a start request leaves the type.
LEMMA AdmissionType ==
    ASSUME TypeOK, ReplacesOnly, NEW r \in Runs, Admission(r)
    PROVE  TypeOK'
<1>. USE UnchangedType, RunsAssumption, BoundsAssumption DEF TypeOK
<1>1. CASE Rejects(r)
  BY <1>1 DEF Rejects, Leaves, Thread, RequestsOK, AdmPC, Strategies, LocksOK,
      recordVars, workerVars, admVars, lockVars, storeVars, procVars
<1>2. CASE Inserts(r)
  BY <1>2 DEF Inserts, InFlightOn, RecordsOK, Status, Live, Terminal, Actions,
      RequestsOK, AdmPC, Strategies, LocksOK, recordVars, workerVars, admVars,
      lockVars, storeVars, procVars
<1>3. CASE Replaces(r)
  BY <1>3 DEF Replaces, AfterPersist, AfterWait, ReleasesLock, Abortable,
      ReplacesOnly, Strategies, Thread, RecordsOK, Status, Live, Terminal,
      Actions, WorkersOK, WorkerPC, Targets, RequestsOK, AdmPC, LocksOK,
      StoresOK, recordVars, workerVars, admVars, lockVars, storeVars, procVars
<1>4. CASE PutFails(r)
  <2>1. RecordsOK'
    BY <1>4 DEF PutFails, RecordsOK, Status, Live, Terminal, Actions,
        recordVars
  <2>2. RequestsOK'
    BY <1>4 DEF PutFails, Leaves, RequestsOK, AdmPC, Strategies, admVars
  <2>3. LocksOK'
    BY <1>4 DEF PutFails, Leaves, ReleasesLock, Thread, LocksOK, lockVars
  <2>4. StoresOK'
    BY <1>4 DEF PutFails, Thread, StoresOK, Status, Live, Terminal, storeVars
  <2>5. ProcessOK'
    BY <1>4 DEF PutFails, Fault, ProcessOK, procVars
  <2>. QED
    BY <2>1, <2>2, <2>3, <2>4, <2>5, <1>4 DEF PutFails
<1>5. CASE PersistsReplaced(r)
  BY <1>5 DEF PersistsReplaced, WriteRow, Fault, AfterPersist, AfterWait,
      RequestsOK, AdmPC, Strategies, StoresOK, Status, Live, Terminal,
      ProcessOK, recordVars, workerVars, admVars, lockVars, storeVars,
      procVars
<1>6. CASE PredecessorsEnd(r)
  BY <1>6 DEF PredecessorsEnd, AfterWait, RequestsOK, AdmPC, Strategies,
      recordVars, workerVars, admVars, lockVars, storeVars, procVars
<1>7. CASE WaitTimesOut(r)
  BY <1>7 DEF WaitTimesOut, FailsAdmission, RecordsOK, Status, Live, Terminal,
      Actions, RequestsOK, AdmPC, Strategies, recordVars, workerVars, admVars,
      lockVars, storeVars, procVars
<1>8. CASE SettlesReplaced(r)
  <2>1. RecordsOK'
    BY <1>8 DEF SettlesReplaced, RecordsOK, Status, Live, Terminal
  <2>2. RequestsOK'
    BY <1>8 DEF SettlesReplaced, RequestsOK, AdmPC
  <2>3. StoresOK' /\ ProcessOK'
    BY <1>8 DEF SettlesReplaced, WriteRow, Fault, RecordsOK, StoresOK, ProcessOK, procVars
  <2>. QED
    BY <1>8, <2>1, <2>2, <2>3 DEF SettlesReplaced, recordVars, workerVars, lockVars
<1>9. CASE Launches(r)
  <2>1. WorkersOK'
    BY <1>9 DEF Launches, WorkersOK, WorkerPC, Targets, workerVars
  <2>2. RequestsOK'
    BY <1>9 DEF Launches, Leaves, RequestsOK, AdmPC, Strategies, admVars
  <2>3. LocksOK'
    BY <1>9 DEF Launches, Leaves, Thread, LocksOK, lockVars
  <2>4. StoresOK'
    BY <1>9 DEF Launches, Thread, StoresOK, Status, Live, Terminal, storeVars
  <2>5. ProcessOK'
    BY <1>9 DEF Launches, Fault, ProcessOK, procVars
  <2>. QED
    BY <2>1, <2>2, <2>3, <2>4, <2>5, <1>9 DEF Launches
<1>10. CASE RequestCancelled(r)
  <2>1. RecordsOK'
    BY <1>10 DEF RequestCancelled, FailsAdmission, RecordsOK, Status, Live,
        Terminal, Actions, recordVars
  <2>2. RequestsOK'
    BY <1>10 DEF RequestCancelled, Leaves, FailsAdmission, RequestsOK, AdmPC,
        Strategies, admVars
  <2>3. LocksOK'
    BY <1>10 DEF RequestCancelled, Leaves, FailsAdmission, Thread, LocksOK,
        lockVars
  <2>4. ProcessOK'
    BY <1>10 DEF RequestCancelled, Fault, ProcessOK, procVars
  <2>. QED
    BY <2>1, <2>2, <2>3, <2>4, <1>10 DEF RequestCancelled
<1>11. CASE MarksFailed(r)
  BY <1>11 DEF MarksFailed, RecordsOK, Status, Live, Terminal, Actions,
      RequestsOK, AdmPC, Strategies, recordVars, workerVars, admVars,
      lockVars, storeVars, procVars
<1>12. CASE PersistsFailed(r)
  BY <1>12 DEF PersistsFailed, WriteRow, Fault, Leaves, Thread, RequestsOK,
      AdmPC, Strategies, LocksOK, StoresOK, Status, Live, Terminal, ProcessOK,
      recordVars, workerVars, admVars, lockVars, storeVars, procVars
<1>. QED
  BY <1>1, <1>2, <1>3, <1>4, <1>5, <1>6, <1>7, <1>8, <1>9, <1>10, <1>11, <1>12 DEF Admission

\* Neither the shutdown, a crash nor the next start leaves the type.
LEMMA ProcessType ==
    ASSUME TypeOK, Process
    PROVE  TypeOK'
<1>. USE UnchangedType, RunsAssumption, BoundsAssumption DEF TypeOK
<1>1. CASE ShutsDown
  BY <1>1 DEF ShutsDown, RecordsOK, Status, Live, Terminal, Actions, WorkersOK, ProcessOK,
      storeVars, admVars, lockVars
<1>2. CASE Drained
  <2>1. RecordsOK'
    BY <1>2 DEF Drained, RecordsOK, Status, Live, Terminal
  <2>2. {<<r, status'[r]>> : r \in {q \in drain : TaskAlive(q) \/ pc[q] = "cancelled"}}
        \subseteq Runs \X (Status \cup {"absent"})
    BY <2>1 DEF RecordsOK, ProcessOK
  <2>3. StoresOK'
    BY <1>2, <2>2 DEF Drained, StoresOK
  <2>4. ProcessOK'
    BY <1>2 DEF Drained, ProcessOK
  <2>. QED
    BY <2>1, <2>3, <2>4, <1>2 DEF Drained
<1>3. CASE ProcessEnds
  BY <1>3 DEF ProcessEnds, RecordsOK, WorkersOK, WorkerPC, Targets, RequestsOK, AdmPC,
      Strategies, LocksOK, StoresOK, ProcessOK, Status, Live, Terminal, Actions
<1>4. CASE Boots
  <2>1. StoresOK'
    BY <1>4 DEF Boots, StoresOK, Status, Live, Terminal
  <2>2. ProcessOK'
    BY <1>4 DEF Boots, Fault, ProcessOK
  <2>. QED
    BY <2>1, <2>2, <1>4 DEF Boots
<1>. QED
  BY <1>1, <1>2, <1>3, <1>4 DEF Process

\* No step leaves the type.
LEMMA TypeStep ==
    ASSUME TypeOK, ReplacesOnly, Progress, [Next]_vars
    PROVE  TypeOK'
<1>1. ASSUME NEW r \in Runs, NEW s \in Strategies, Requests(r, s)
      PROVE  TypeOK'
  BY <1>1, UnchangedType, RunsAssumption
  DEF TypeOK, Requests, RequestsOK, AdmPC, LocksOK, Thread
<1>2. ASSUME NEW r \in Runs, NEW a \in Actions, Cancels(r, a)
      PROVE  TypeOK'
  <2>1. RecordsOK' /\ WorkersOK'
    BY <1>2 DEF TypeOK, Cancels, RecordsOK, WorkersOK, Status, Live, Terminal, TaskAlive
  <2>2. StoresOK'
    BY <1>2 DEF TypeOK, Cancels, StoresOK, Status, Live, Terminal
  <2>. QED
    BY <1>2, <2>1, <2>2, UnchangedType DEF TypeOK, Cancels, procVars
<1>3. CASE DelayedWrite
  <2>1. StoresOK'
    BY <1>3 DEF TypeOK, DelayedWrite, WriteRow, StoresOK, Status, Live, Terminal
  <2>2. ProcessOK'
    BY <1>3, BoundsAssumption DEF TypeOK, DelayedWrite, WriteRow, Fault, ProcessOK, procVars
  <2>. QED
    BY <1>3, <2>1, <2>2, UnchangedType DEF TypeOK, DelayedWrite
<1>4. CASE UNCHANGED vars
  BY <1>4, UnchangedType DEF TypeOK, vars
<1>5. ASSUME NEW r \in Runs, WaiterCancelled(r)
      PROVE  TypeOK'
  <2>1. WorkersOK' /\ ProcessOK'
    BY <1>5, BoundsAssumption DEF TypeOK, WaiterCancelled, Fault, WorkersOK, ProcessOK, procVars
  <2>. QED
    BY <1>5, <2>1, UnchangedType DEF TypeOK, WaiterCancelled
<1>. QED
  BY <1>1, <1>2, <1>3, <1>4, <1>5, WorkerType, AdmissionType, ProcessType DEF Next, Idle

-----------------------------------------------------------------------------
(* Exclusive execution: one task per thread *)

\* A step of the worker of r concerns the task of r, which was alive, and no request.
LEMMA WorkerFrame ==
    ASSUME TypeOK, NEW r \in Runs, Worker(r)
    PROVE  /\ TaskAlive(r)
           /\ pc'[r] # "none"
           /\ \A q \in Runs \ {r} : pc'[q] = pc[q]
           /\ UNCHANGED <<adm, strategy, seen, ctx>>
BY DEF TypeOK, WorkersOK, Worker, TaskAlive, NeverRuns, Skips, Starts, GetsLock, PersistsStatus,
       Captures, AgentWrites, AgentSwallows, StreamEnds, StreamRaises, CancelledInBody,
       CancelledInHandler, RollsBack, Concludes, GetsLockAtEnd, Completes, Finishes,
       CancelledInFinalizer, SetStatus, TaskEnds, AfterStatus, AtCompletion, admVars, lockVars,
       workerVars

\* A worker keeps the exclusion: it can only end its own task.
LEMMA WorkerExclusion ==
    ASSUME TypeOK, Exclusion, NEW r \in Runs, Worker(r)
    PROVE  Exclusion'
BY WorkerFrame DEF Exclusion, OneRequest, LaunchedOnly, Watching, Quiet, OneWriter, TaskAlive,
                   Thread

\* A request that leaves gives its thread back, and no task begins or ends.
LEMMA LeavesExclusion ==
    ASSUME TypeOK, Exclusion, NEW r \in Runs, NEW how \in AdmOver,
           adm[r] \notin AdmOver, Leaves(r, how), UNCHANGED pc
    PROVE  Exclusion'
<1>. USE RunsAssumption DEF Exclusion, TypeOK
<1>1. /\ adm' = [adm EXCEPT ![r] = how] /\ ctx' = [ctx EXCEPT ![Thread(r)] = NoRun]
      /\ seen' = [seen EXCEPT ![r] = {}]
  BY DEF Leaves
<1>2. pc[r] = "none"
  BY DEF LaunchedOnly, AdmOver
<1>3. OneRequest'
  BY <1>1 DEF OneRequest, RequestsOK, LocksOK, Thread
<1>4. LaunchedOnly'
  BY <1>1, <1>2 DEF LaunchedOnly, RequestsOK
<1>5. Watching'
  BY <1>1 DEF Watching, TaskAlive, AdmOver, RequestsOK
<1>6. Quiet'
  BY <1>1 DEF Quiet, TaskAlive, AdmOver, RequestsOK
<1>7. OneWriter'
  BY DEF OneWriter, TaskAlive
<1>. QED
  BY <1>3, <1>4, <1>5, <1>6, <1>7

\* One that fails keeps its thread until its own status is stored.
LEMMA FailingExclusion ==
    ASSUME TypeOK, Exclusion, NEW r \in Runs,
           adm[r] \in {"persist", "await", "settle"}, FailsAdmission(r), UNCHANGED pc
    PROVE  Exclusion'
<1>. USE RunsAssumption DEF Exclusion, TypeOK
<1>1. /\ adm' = [adm EXCEPT ![r] = adm'[r]] /\ adm'[r] \in {"failing", "fail_persist"}
      /\ UNCHANGED <<ctx, seen>>
  BY DEF FailsAdmission, RequestsOK
<1>2. OneRequest' /\ LaunchedOnly'
  BY <1>1 DEF OneRequest, LaunchedOnly, RequestsOK, Thread, AdmOver
<1>3. Watching' /\ Quiet' /\ OneWriter'
  BY <1>1 DEF Watching, Quiet, OneWriter, TaskAlive, RequestsOK
<1>. QED
  BY <1>2, <1>3

\* A start request keeps the exclusion: it launches only when no task of its thread
\* is alive.
LEMMA AdmissionExclusion ==
    ASSUME TypeOK, Exclusion, NEW r \in Runs, Admission(r)
    PROVE  Exclusion'
<1>. USE RunsAssumption DEF Exclusion, OneRequest, LaunchedOnly, Watching, Quiet, OneWriter,
         TaskAlive, Thread, TypeOK, WorkersOK, RequestsOK, LocksOK, AdmOver, workerVars, lockVars
<1>1. CASE Rejects(r)
  BY <1>1, LeavesExclusion DEF Rejects
<1>2. CASE Inserts(r)
  BY <1>2 DEF Inserts, InFlightOn, InFlight
<1>3. CASE Replaces(r)
  <2>1. /\ adm[r] = "put" /\ adm' = [adm EXCEPT ![r] = adm'[r]]
        /\ adm'[r] \in {"persist", "await", "settle", "announce"}
        /\ UNCHANGED <<pc, seen, ctx>>
    BY <1>3 DEF Replaces, AfterPersist, AfterWait
  <2>2. adm'[r] \notin {"persist", "await"} => \A a \in seen[r] : ~TaskAlive(a)
    BY <1>3 DEF Replaces, AfterPersist, AfterWait
  <2>3. OneRequest' /\ LaunchedOnly' /\ OneWriter'
    BY <2>1
  <2>4. Watching'
    BY <2>1
  <2>5. Quiet'
    BY <2>1, <2>2
  <2>. QED
    BY <2>3, <2>4, <2>5
<1>4. CASE PutFails(r)
  BY <1>4, LeavesExclusion DEF PutFails
<1>5. CASE PersistsReplaced(r)
  BY <1>5 DEF PersistsReplaced, AfterPersist, AfterWait
<1>6. CASE PredecessorsEnd(r)
  BY <1>6 DEF PredecessorsEnd, AfterWait
<1>7. CASE WaitTimesOut(r)
  BY <1>7, FailingExclusion DEF WaitTimesOut
<1>8. CASE SettlesReplaced(r)
  BY <1>8 DEF SettlesReplaced
<1>9. CASE Launches(r)
  <2>1. \A a \in Runs : Thread(a) = Thread(r) => ~TaskAlive(a)
    BY <1>9 DEF Launches
  <2>2. \A q \in Runs \ {r} : Thread(q) = Thread(r) => adm[q] \in AdmOver
    BY <1>9 DEF Launches
  <2>3. /\ pc' = [pc EXCEPT ![r] = "start"]
        /\ adm' = [adm EXCEPT ![r] = "admitted"]
        /\ ctx' = [ctx EXCEPT ![Thread(r)] = NoRun]
        /\ seen' = [seen EXCEPT ![r] = {}]
    BY <1>9 DEF Launches, Leaves
  <2>4. OneRequest'
    BY <2>2, <2>3
  <2>5. LaunchedOnly'
    BY <2>3
  <2>6. Watching'
    <3>. SUFFICES ASSUME NEW q \in Runs, NEW a \in Runs,
                         adm'[q] \in {"put", "persist", "await"}, Thread(a) = Thread(q), TaskAlive(a)'
                  PROVE  a \in seen'[q]
      OBVIOUS
    <3>1. q # r /\ adm'[q] = adm[q] /\ seen'[q] = seen[q]
      BY <2>3
    <3>2. a # r /\ pc'[a] = pc[a]
      BY <2>2, <2>3, <3>1
    <3>. QED
      BY <3>1, <3>2
  <2>7. Quiet'
    BY <2>1, <2>2, <2>3
  <2>8. OneWriter'
    BY <2>1, <2>3
  <2>. QED
    BY <2>4, <2>5, <2>6, <2>7, <2>8
<1>10. CASE RequestCancelled(r)
  <2>1. UNCHANGED pc
    BY <1>10 DEF RequestCancelled
  <2>2. CASE Leaves(r, "rejected") \/ Leaves(r, "abandoned")
    <3>1. adm[r] \notin AdmOver
      BY <1>10 DEF RequestCancelled
    <3>. QED
      BY <2>1, <2>2, <3>1, LeavesExclusion
  <2>3. CASE adm[r] \in {"persist", "await", "settle"} /\ FailsAdmission(r)
    BY <2>1, <2>3, FailingExclusion
  <2>. QED
    BY <1>10, <2>2, <2>3 DEF RequestCancelled
<1>11. CASE MarksFailed(r)
  BY <1>11 DEF MarksFailed
<1>12. CASE PersistsFailed(r)
  BY <1>12, LeavesExclusion DEF PersistsFailed
<1>. QED
  BY <1>1, <1>2, <1>3, <1>4, <1>5, <1>6, <1>7, <1>8, <1>9, <1>10, <1>11, <1>12 DEF Admission

\* Every step keeps the exclusion.
LEMMA ExclusionStep ==
    ASSUME TypeOK, Exclusion, [Next]_vars
    PROVE  Exclusion'
<1>. USE RunsAssumption DEF Exclusion, OneRequest, LaunchedOnly, Watching, Quiet, OneWriter,
         TaskAlive, Thread, TypeOK, WorkersOK, RequestsOK, LocksOK, AdmOver, workerVars, lockVars
<1>1. ASSUME NEW r \in Runs, NEW s \in Strategies, Requests(r, s)
      PROVE  Exclusion'
  BY <1>1 DEF Requests
<1>2. ASSUME NEW r \in Runs, NEW a \in Actions, Cancels(r, a)
      PROVE  Exclusion'
  BY <1>2 DEF Cancels, admVars
<1>3. CASE DelayedWrite
  BY <1>3 DEF DelayedWrite, admVars
<1>4. CASE Process
  BY <1>4 DEF Process, ShutsDown, Drained, ProcessEnds, Boots, admVars
<1>5. CASE UNCHANGED vars
  BY <1>5 DEF vars, admVars
<1>6. ASSUME NEW r \in Runs, WaiterCancelled(r)
      PROVE  Exclusion'
  BY <1>6 DEF WaiterCancelled, admVars
<1>. QED
  BY <1>1, <1>2, <1>3, <1>4, <1>5, <1>6, WorkerExclusion, AdmissionExclusion DEF Next, Idle
-----------------------------------------------------------------------------
\* Every step keeps the locals of the start requests as their strategies say.
LEMMA ReplacesStep ==
    ASSUME TypeOK, ReplacesOnly, [Next]_vars
    PROVE  ReplacesOnly'
<1>. USE RunsAssumption DEF ReplacesOnly, TypeOK, RequestsOK, AdmOver
<1>1. ASSUME NEW r \in Runs, Worker(r)
      PROVE  ReplacesOnly'
  BY <1>1, WorkerFrame
<1>2. ASSUME NEW r \in Runs, Admission(r)
      PROVE  ReplacesOnly'
  BY <1>2 DEF Admission, Rejects, Inserts, Replaces, PutFails, PersistsReplaced, PredecessorsEnd,
              WaitTimesOut, SettlesReplaced, Launches, RequestCancelled, MarksFailed,
              PersistsFailed, Leaves, FailsAdmission, AfterPersist, AfterWait
<1>3. ASSUME NEW r \in Runs, NEW s \in Strategies, Requests(r, s)
      PROVE  ReplacesOnly'
  BY <1>3 DEF Requests
<1>4. ASSUME NEW r \in Runs, NEW a \in Actions, Cancels(r, a)
      PROVE  ReplacesOnly'
  BY <1>4 DEF Cancels, admVars
<1>5. CASE DelayedWrite \/ Process \/ UNCHANGED vars
  BY <1>5 DEF DelayedWrite, Process, ShutsDown, Drained, ProcessEnds, Boots, vars, admVars
<1>6. ASSUME NEW r \in Runs, WaiterCancelled(r)
      PROVE  ReplacesOnly'
  BY <1>6 DEF WaiterCancelled, admVars
<1>. QED
  BY <1>1, <1>2, <1>3, <1>4, <1>5, <1>6 DEF Next, Idle
-----------------------------------------------------------------------------
(* Rollback restores what the thread was *)

\* A step of a worker that leaves the thread and the snapshots alone keeps what is known of
\* them, unless it returns to before its snapshot or restores one that was not taken.
LEMMA SnapshotsStay ==
    ASSUME TypeOK, Snapshots, NEW r \in Runs, UNCHANGED <<base, captured, head, adm>>,
           \A s \in Runs \ {r} : pc'[s] = pc[s] /\ target'[s] = target[s],
           BeforeCapture(r)' => BeforeCapture(r), captured[r] => TaskAlive(r)',
           pc'[r] = "rollback" => captured[r]
    PROVE  Snapshots'
<1>1. \A s \in Runs \ {r} : (BeforeCapture(s)' <=> BeforeCapture(s)) /\ (TaskAlive(s)' <=> TaskAlive(s))
  BY DEF BeforeCapture, TaskAlive
<1>2. Untouched'
  BY <1>1 DEF Snapshots, Untouched, Thread
<1>3. Restorable'
  BY <1>1 DEF Snapshots, Restorable
<1>4. SnapshotFaithful'
  BY DEF Snapshots, SnapshotFaithful, Thread
<1>. QED
  BY <1>2, <1>3, <1>4 DEF Snapshots

\* Setting a status moves the worker to where the status is stored, or to the lock.
LEMMA SettingMoves ==
    ASSUME TypeOK, NEW r \in Runs, NEW s \in Targets, SetStatus(r, s)
    PROVE  /\ pc'[r] \in {"lock", "persist"} /\ target'[r] = s
           /\ \A t \in Runs \ {r} : pc'[t] = pc[t] /\ target'[t] = target[t]
<1>1. pc \in [Runs -> WorkerPC] /\ target \in [Runs -> Targets]
  BY DEF TypeOK, WorkersOK
<1>2. target' = [target EXCEPT ![r] = s] /\ \E p \in {"lock", "persist"} : pc' = [pc EXCEPT ![r] = p]
  BY DEF SetStatus
<1>. QED
  BY <1>1, <1>2

\* A worker that goes from status to status keeps the snapshots.
LEMMA StatusSnapshots ==
    ASSUME TypeOK, Snapshots, NEW r \in Runs,
           GetsLock(r) \/ PersistsStatus(r) \/ StreamEnds(r) \/ StreamRaises(r)
    PROVE  Snapshots'
<1>1. CASE GetsLock(r)
  <2>1. target[r] \in Targets /\ SetStatus(r, target[r])
    BY <1>1 DEF GetsLock, TypeOK, WorkersOK
  <2>2. /\ pc'[r] \in {"lock", "persist"} /\ target'[r] = target[r]
        /\ \A s \in Runs \ {r} : pc'[s] = pc[s] /\ target'[s] = target[s]
    BY <2>1, SettingMoves
  <2>3. pc[r] = "lock" /\ UNCHANGED <<base, captured, head, adm>>
    BY <1>1 DEF GetsLock, admVars
  <2>. QED
    BY <2>2, <2>3, SnapshotsStay DEF BeforeCapture, TaskAlive
<1>2. CASE PersistsStatus(r)
  <2>1. pc'[r] = AfterStatus(r) /\ \A s \in Runs \ {r} : pc'[s] = pc[s]
    BY <1>2 DEF PersistsStatus, TypeOK, WorkersOK
  <2>2. pc[r] = "persist" /\ UNCHANGED <<base, captured, head, adm, target>>
    BY <1>2 DEF PersistsStatus, admVars
  <2>3. /\ AfterStatus(r) \in {"capture", "rollback", "completion"}
        /\ AfterStatus(r) = "capture" => target[r] = "running"
        /\ AfterStatus(r) = "rollback" => captured[r]
    BY DEF AfterStatus
  <2>. QED
    BY <2>1, <2>2, <2>3, SnapshotsStay DEF BeforeCapture, TaskAlive
<1>3. CASE StreamEnds(r) \/ StreamRaises(r)
  <2>1. PICK s \in Targets \ {"running"} : SetStatus(r, s)
    BY <1>3 DEF StreamEnds, StreamRaises, StreamOutcomes, GraphOutcomes, AbortTarget, Targets,
                Status, Live, Terminal
  <2>2. /\ pc'[r] \in {"lock", "persist"} /\ target'[r] # "running"
        /\ \A g \in Runs \ {r} : pc'[g] = pc[g] /\ target'[g] = target[g]
    BY <2>1, SettingMoves
  <2>3. UNCHANGED <<base, captured, head, adm>>
    BY <1>3 DEF StreamEnds, StreamRaises, admVars
  <2>. QED
    BY <2>2, <2>3, SnapshotsStay DEF BeforeCapture, TaskAlive
<1>. QED
  BY <1>1, <1>2, <1>3

\* What a worker does to the checkpoints when it takes back its output, or did so when a
\* CancelledError cut it short.
LEMMA RestoresOwn ==
    ASSUME Snapshots, NEW r \in Runs, pc[r] = "rollback"
    PROVE  Restored(r) = head[Thread(r)] \ {r}
BY DEF Snapshots, Restorable, SnapshotFaithful, Restored

\* A worker whose output is as it was, or taken back, and which goes on after its snapshot
\* keeps the snapshots.
LEMMA CutSnapshots ==
    ASSUME TypeOK, Exclusion, Snapshots, NEW r \in Runs, TaskAlive(r), CutShort(r),
           UNCHANGED <<base, captured, adm>>,
           \A s \in Runs \ {r} : pc'[s] = pc[s] /\ target'[s] = target[s],
           pc'[r] = "completion" \/ (pc'[r] \in {"lock", "persist"} /\ target'[r] # "running")
    PROVE  Snapshots'
<1>1. CASE UNCHANGED head
  BY <1>1, SnapshotsStay DEF BeforeCapture, TaskAlive
<1>2. CASE pc[r] = "rollback" /\ head' = [head EXCEPT ![Thread(r)] = Restored(r)]
  <2>1. head' = [head EXCEPT ![Thread(r)] = @ \ {r}]
    BY <1>2, RestoresOwn
  <2>2. \A q \in Runs : head'[Thread(q)] = IF Thread(q) = Thread(r) THEN head[Thread(q)] \ {r}
                                           ELSE head[Thread(q)]
    BY <2>1, RunsAssumption DEF TypeOK, StoresOK, Thread
  <2>3. \A q \in Runs \ {r} : captured[q] => Thread(q) # Thread(r)
    BY DEF Snapshots, Restorable, Exclusion, OneWriter
  <2>4. Untouched'
    BY <2>2 DEF Snapshots, Untouched, BeforeCapture, Thread
  <2>5. Restorable'
    BY DEF Snapshots, Restorable, TaskAlive
  <2>6. SnapshotFaithful'
    BY <2>2, <2>3 DEF Snapshots, SnapshotFaithful, Thread
  <2>. QED
    BY <2>4, <2>5, <2>6 DEF Snapshots
<1>. QED
  BY <1>1, <1>2 DEF CutShort

\* A worker keeps the snapshots: only the one writer of a thread changes its content.
LEMMA WorkerSnapshots ==
    ASSUME TypeOK, Exclusion, Snapshots, NEW r \in Runs, Worker(r)
    PROVE  Snapshots'
<1>1. CASE GetsLock(r) \/ PersistsStatus(r) \/ StreamEnds(r) \/ StreamRaises(r)
  BY <1>1, StatusSnapshots
<1>12. CASE CancelledInBody(r)
  <2>1. AbortTarget(r) \in Targets \ {"running"} /\ SetStatus(r, AbortTarget(r))
    BY <1>12 DEF CancelledInBody, AbortTarget, Targets, Status, Live, Terminal
  <2>2. /\ pc'[r] \in {"lock", "persist"} /\ target'[r] # "running"
        /\ \A g \in Runs \ {r} : pc'[g] = pc[g] /\ target'[g] = target[g]
    BY <2>1, SettingMoves
  <2>3. TaskAlive(r) /\ CutShort(r) /\ UNCHANGED <<base, captured, adm>>
    BY <1>12 DEF CancelledInBody, TaskAlive, admVars
  <2>. QED
    BY <2>2, <2>3, CutSnapshots
<1>8. CASE CancelledInHandler(r)
  <2>1. /\ pc'[r] = "completion" /\ UNCHANGED <<target, base, captured, adm>>
        /\ \A g \in Runs \ {r} : pc'[g] = pc[g]
    BY <1>8 DEF CancelledInHandler, TypeOK, WorkersOK, admVars
  <2>2. TaskAlive(r) /\ CutShort(r)
    BY <1>8 DEF CancelledInHandler, TaskAlive
  <2>. QED
    BY <2>1, <2>2, CutSnapshots
<1>10. CASE Concludes(r) \/ GetsLockAtEnd(r) \/ Completes(r)
  <2>1. /\ pc[r] \in {"completion", "finlock", "finpersist"}
        /\ pc'[r] \in {"finlock", "finpersist", "meta"}
        /\ UNCHANGED <<base, captured, head, adm>>
        /\ \A s \in Runs \ {r} : pc'[s] = pc[s] /\ target'[s] = target[s]
    BY <1>10 DEF Concludes, GetsLockAtEnd, Completes, AtCompletion, TypeOK, WorkersOK, admVars
  <2>. QED
    BY <2>1, SnapshotsStay DEF BeforeCapture, TaskAlive
<1>. USE RunsAssumption DEF Snapshots, Untouched, BeforeCapture, Restorable, SnapshotFaithful,
         TypeOK, WorkersOK, StoresOK, TaskAlive, Thread, LaunchedOnly
<1>2. CASE NeverRuns(r)
  BY <1>2 DEF NeverRuns, Exclusion, TaskEnds, admVars
<1>3. CASE Skips(r)
  BY <1>3 DEF Skips, Exclusion, TaskEnds, admVars
<1>4. CASE Starts(r)
  BY <1>4 DEF Starts, Exclusion, SetStatus, admVars
<1>5. CASE Captures(r)
  <2>1. Untouched'
    BY <1>5 DEF Captures, Exclusion, admVars
  <2>2. Restorable'
    BY <1>5 DEF Captures, Exclusion, admVars
  <2>3. SnapshotFaithful'
    BY <1>5 DEF Captures, Exclusion, admVars
  <2>. QED
    BY <2>1, <2>2, <2>3
<1>6. CASE AgentWrites(r)
  <2>1. Untouched'
    BY <1>6 DEF AgentWrites, Exclusion, OneWriter, admVars, workerVars
  <2>2. Restorable'
    BY <1>6 DEF AgentWrites, Exclusion, OneWriter, admVars, workerVars
  <2>3. SnapshotFaithful'
    BY <1>6 DEF AgentWrites, Exclusion, OneWriter, admVars, workerVars
  <2>. QED
    BY <2>1, <2>2, <2>3
<1>7. CASE AgentSwallows(r)
  BY <1>7 DEF AgentSwallows, Exclusion, admVars
<1>9. CASE RollsBack(r)
  <2>1. Untouched'
    BY <1>9 DEF RollsBack, Exclusion, OneWriter, Restored, admVars
  <2>2. Restorable'
    BY <1>9 DEF RollsBack, Exclusion, OneWriter, Restored, admVars
  <2>3. SnapshotFaithful'
    BY <1>9 DEF RollsBack, Exclusion, OneWriter, Restored, admVars
  <2>. QED
    BY <2>1, <2>2, <2>3
<1>11. CASE Finishes(r) \/ CancelledInFinalizer(r)
  <2>1. UNCHANGED <<head, adm>> /\ \E how \in {"done", "cancelled"} : TaskEnds(r, how)
    BY <1>11 DEF Finishes, CancelledInFinalizer, admVars
  <2>2. pc[r] # "none"
    BY <1>11 DEF Finishes, CancelledInFinalizer
  <2>. QED
    BY <2>1, <2>2 DEF TaskEnds, Exclusion
<1>. QED
  BY <1>1, <1>2, <1>3, <1>4, <1>5, <1>6, <1>7, <1>8, <1>9, <1>10, <1>11, <1>12 DEF Worker

\* A request changes no checkpoint and, but for the launch, no task; it never goes back
\* from being admitted.
LEMMA AdmissionFrame ==
    ASSUME TypeOK, NEW r \in Runs, Admission(r)
    PROVE  /\ UNCHANGED <<head, base, captured, target>>
           /\ adm[r] \notin {"admitted", "lost"}
           /\ \A q \in Runs \ {r} : adm'[q] = adm[q] /\ pc'[q] = pc[q]
           /\ UNCHANGED pc \/ pc'[r] = "start"
           /\ adm'[r] = "admitted" => pc'[r] = "start"
           /\ adm'[r] # "lost"
BY DEF TypeOK, WorkersOK, RequestsOK, Admission, Rejects, Inserts, Replaces, PutFails,
       PersistsReplaced, PredecessorsEnd, WaitTimesOut, SettlesReplaced, Launches,
       RequestCancelled, MarksFailed, PersistsFailed, Leaves, FailsAdmission, AfterPersist,
       AfterWait, workerVars

\* Every step keeps the snapshots faithful; a start request or a crash touches none.
LEMMA SnapshotsStep ==
    ASSUME TypeOK, Exclusion, Snapshots, [Next]_vars
    PROVE  Snapshots'
<1>. USE RunsAssumption DEF Snapshots, Untouched, BeforeCapture, Restorable, SnapshotFaithful,
         TypeOK, WorkersOK, StoresOK, RequestsOK, TaskAlive, Thread, Exclusion, LaunchedOnly
<1>1. ASSUME NEW r \in Runs, Admission(r)
      PROVE  Snapshots'
  <2>1. Untouched'
    BY <1>1, AdmissionFrame
  <2>2. Restorable'
    BY <1>1, AdmissionFrame
  <2>3. SnapshotFaithful'
    BY <1>1, AdmissionFrame
  <2>. QED
    BY <2>1, <2>2, <2>3
<1>2. ASSUME NEW r \in Runs, NEW s \in Strategies, Requests(r, s)
      PROVE  Snapshots'
  BY <1>2 DEF Requests, workerVars
<1>3. ASSUME NEW r \in Runs, NEW a \in Actions, Cancels(r, a)
      PROVE  Snapshots'
  BY <1>3 DEF Cancels, admVars
<1>4. CASE ProcessEnds
  BY <1>4 DEF ProcessEnds
<1>5. CASE DelayedWrite \/ ShutsDown \/ Drained \/ Boots \/ UNCHANGED vars
  BY <1>5 DEF DelayedWrite, ShutsDown, Drained, Boots, vars, workerVars, admVars
<1>6. ASSUME NEW r \in Runs, WaiterCancelled(r)
      PROVE  Snapshots'
  BY <1>6 DEF WaiterCancelled, admVars
<1>. QED
  BY <1>1, <1>2, <1>3, <1>4, <1>5, <1>6, WorkerSnapshots DEF Next, Idle, Process
-----------------------------------------------------------------------------
(* An aborted run never succeeds *)

\* No step makes a success of a run that was aborted.
LEMMA AbortsStep ==
    ASSUME TypeOK, Exclusion, Aborts, [Next]_vars
    PROVE  Aborts'
<1>. USE DEF Aborts, WaitingSuccess, AbortedNeverSucceeds, TypeOK, RecordsOK, WorkersOK
<1>1. ASSUME NEW r \in Runs, Worker(r)
      PROVE  Aborts'
  <2>1. CASE \/ NeverRuns(r) \/ Skips(r) \/ Starts(r) \/ GetsLock(r) \/ PersistsStatus(r)
            \/ Captures(r) \/ AgentWrites(r) \/ AgentSwallows(r)
    BY <2>1 DEF NeverRuns, Skips, Starts, GetsLock, PersistsStatus, Captures, AgentWrites,
                AgentSwallows, TaskEnds, SetStatus, Outcome, AfterStatus, recordVars, workerVars
  <2>2. CASE StreamEnds(r) \/ StreamRaises(r) \/ CancelledInBody(r)
    BY <2>2 DEF StreamEnds, StreamRaises, CancelledInBody, StreamOutcomes, AbortTarget,
                SetStatus, Outcome
  <2>3. CASE \/ CancelledInHandler(r) \/ RollsBack(r) \/ Concludes(r) \/ GetsLockAtEnd(r)
            \/ Completes(r) \/ Finishes(r) \/ CancelledInFinalizer(r)
    BY <2>3 DEF CancelledInHandler, RollsBack, Concludes, GetsLockAtEnd, Completes, Finishes,
          CancelledInFinalizer, TaskEnds, AtCompletion, recordVars
  <2>. QED
    BY <1>1, <2>1, <2>2, <2>3 DEF Worker
<1>2. ASSUME NEW r \in Runs, Admission(r)
      PROVE  Aborts'
  <2>1. CASE Replaces(r)
    BY <2>1 DEF Replaces, Abortable, TaskAlive
  <2>2. CASE WaitTimesOut(r) \/ RequestCancelled(r)
    BY <2>2 DEF WaitTimesOut, RequestCancelled, FailsAdmission, Exclusion, LaunchedOnly, workerVars
  <2>3. CASE \/ Rejects(r) \/ Inserts(r) \/ PutFails(r) \/ PersistsReplaced(r)
            \/ PredecessorsEnd(r) \/ SettlesReplaced(r) \/ MarksFailed(r) \/ PersistsFailed(r)
    BY <2>3 DEF Rejects, Inserts, PutFails, PersistsReplaced, PredecessorsEnd,
                SettlesReplaced, MarksFailed, PersistsFailed, recordVars, workerVars
  <2>4. CASE Launches(r)
    BY <2>4 DEF Launches, recordVars
  <2>. QED
    BY <1>2, <2>1, <2>2, <2>3, <2>4 DEF Admission
<1>3. ASSUME NEW r \in Runs, NEW s \in Strategies, Requests(r, s)
      PROVE  Aborts'
  BY <1>3 DEF Requests, recordVars, workerVars
<1>4. ASSUME NEW r \in Runs, NEW a \in Actions, Cancels(r, a)
      PROVE  Aborts'
  BY <1>4 DEF Cancels, TaskAlive
<1>5. CASE ShutsDown
  BY <1>5 DEF ShutsDown, Abortable, Live, TaskAlive
<1>6. CASE DelayedWrite \/ Drained \/ ProcessEnds \/ Boots \/ UNCHANGED vars
  BY <1>6 DEF DelayedWrite, Drained, ProcessEnds, Boots, vars, recordVars, workerVars
<1>7. ASSUME NEW r \in Runs, WaiterCancelled(r)
      PROVE  Aborts'
  BY <1>7 DEF WaiterCancelled, recordVars
<1>. QED
  BY <1>1, <1>2, <1>3, <1>4, <1>5, <1>6, <1>7 DEF Next, Idle, Process
-----------------------------------------------------------------------------
(* Statuses, positions and cancellations *)

\* Failures are only counted up.
LEMMA FaultsCount ==
    ASSUME TypeOK, [Next]_vars
    PROVE  faults' \in {faults, faults + 1} /\ faults \in Nat
<1>. USE BoundsAssumption DEF TypeOK, ProcessOK, vars
<1>1. /\ Fault => faults' = faults + 1
      /\ \A x, s : WriteRow(x, s) => faults' \in {faults, faults + 1}
      /\ faults \in Nat
  BY DEF Fault, WriteRow
<1>2. ASSUME NEW q \in Runs, Worker(q)
      PROVE  faults' \in {faults, faults + 1}
  BY <1>1, <1>2
     DEF Worker, NeverRuns, Skips, Starts, GetsLock, PersistsStatus, Captures, AgentWrites,
         AgentSwallows, StreamEnds, StreamRaises, CancelledInBody, CancelledInHandler, RollsBack,
         Concludes, GetsLockAtEnd, Completes, Finishes, CancelledInFinalizer
<1>3. ASSUME NEW q \in Runs, Admission(q)
      PROVE  faults' \in {faults, faults + 1}
  BY <1>1, <1>3
     DEF Admission, Rejects, Inserts, Replaces, PutFails, PersistsReplaced, PredecessorsEnd,
         WaitTimesOut, SettlesReplaced, Launches, RequestCancelled, MarksFailed, PersistsFailed
<1>4. ASSUME ~(\E q \in Runs : Worker(q) \/ Admission(q))
      PROVE  faults' \in {faults, faults + 1}
  BY <1>1, <1>4 DEF Next, Requests, Cancels, WaiterCancelled, DelayedWrite, Process, ShutsDown,
                    Drained, ProcessEnds, Boots, Idle
<1>. QED
  BY <1>1, <1>2, <1>3, <1>4

\* What is known of a run stays so while nothing of it changes.
LEMMA ProgressStays ==
    ASSUME NEW q \in Runs, RunProgress(q), faults > 0 => faults' > 0,
           UNCHANGED <<status[q], abort[q], action[q], pc[q], phase[q], target[q], cancelReq[q]>>,
           UNCHANGED <<adm[q], lock, proc>>, q \in drain' => q \in drain
    PROVE  RunProgress(q)'
BY DEF RunProgress, RequestStatus, TaskStatus, BodyStatus, CancelStatus, Interruptible, TaskAlive

\* A worker changes only what is known of its own run.
LEMMA WorkerLocal ==
    ASSUME TypeOK, NEW r \in Runs, Worker(r)
    PROVE  /\ UNCHANGED <<adm, lock, proc, drain>>
           /\ \A q \in Runs \ {r} :
                UNCHANGED <<status[q], abort[q], action[q], pc[q], phase[q], target[q], cancelReq[q]>>
BY DEF TypeOK, RecordsOK, WorkersOK, Worker, NeverRuns, Skips, Starts, GetsLock, PersistsStatus,
       Captures, AgentWrites, AgentSwallows, StreamEnds, StreamRaises, CancelledInBody,
       CancelledInHandler, RollsBack, Concludes, GetsLockAtEnd, Completes, Finishes,
       CancelledInFinalizer, SetStatus, TaskEnds, recordVars, workerVars, admVars, lockVars,
       procVars

\* A worker moves its status and its place together.
LEMMA WorkerProgress ==
    ASSUME TypeOK, Exclusion, Aborts, Progress, NEW r \in Runs, Worker(r)
    PROVE  Progress'
<1>1. faults > 0 => faults' > 0
  BY FaultsCount DEF Next
<1>2. UNCHANGED <<adm, lock, proc, drain>>
  BY WorkerLocal
<1>3. adm[r] = "admitted" /\ proc # "down" /\ RunProgress(r)
  BY WorkerFrame DEF Progress, RunProgress, CancelStatus, Exclusion, LaunchedOnly, TaskAlive
<1>. SUFFICES RunProgress(r)'
  BY <1>1, WorkerLocal, ProgressStays DEF Progress
<1>. USE <1>1, <1>2, <1>3 DEF RunProgress, RequestStatus, TaskStatus, BodyStatus, CancelStatus,
         Interruptible, TypeOK, RecordsOK, WorkersOK, TaskAlive, Live, AdmOver
<1>4. CASE NeverRuns(r) \/ Skips(r)
  <2>1. pc[r] = "start" /\ abort[r] /\ pc'[r] \in {"done", "cancelled"} /\ phase'[r] = "body"
    BY <1>4 DEF NeverRuns, Skips, TaskEnds, AbortedEarly
  <2>2. UNCHANGED <<status, abort, action>> /\ ~cancelReq'[r]
    BY <1>4 DEF NeverRuns, Skips, recordVars
  <2>. QED
    BY <2>1, <2>2
<1>5. CASE Starts(r)
  <2>1. /\ status[r] \in Live /\ phase[r] = "body" /\ ~abort[r] /\ ~cancelReq[r]
    BY <1>5 DEF Starts, AbortedEarly, Status, Terminal
  <2>2. /\ target'[r] = "running"
        /\ \/ pc'[r] = "persist" /\ status'[r] = "running"
           \/ pc'[r] = "lock" /\ status'[r] = status[r]
    BY <1>5 DEF Starts, SetStatus, Outcome
  <2>3. UNCHANGED <<abort, action, phase, cancelReq>>
    BY <1>5 DEF Starts
  <2>. QED
    BY <2>1, <2>2, <2>3
<1>6. CASE GetsLock(r)
  <2>1. ~cancelReq[r] /\ pc[r] = "lock" /\ target[r] \in Targets
    BY <1>6 DEF GetsLock
  <2>2. target'[r] = target[r] /\ pc'[r] = "persist" /\ status'[r] = Outcome(target[r])
    BY <1>6 DEF GetsLock, SetStatus
  <2>3. UNCHANGED <<abort, action, phase, cancelReq>>
    BY <1>6 DEF GetsLock
  <2>. QED
    BY <2>1, <2>2, <2>3 DEF Outcome, Targets, Status, Terminal
<1>7. CASE PersistsStatus(r)
  <2>1. /\ pc[r] = "persist" /\ ~cancelReq[r] /\ pc'[r] = AfterStatus(r)
        /\ UNCHANGED <<status, abort, action, phase, target, cancelReq>>
    BY <1>7 DEF PersistsStatus, recordVars
  <2>2. /\ AfterStatus(r) \in {"capture", "rollback", "completion"}
        /\ AfterStatus(r) = "capture" <=> target[r] = "running"
        /\ AfterStatus(r) = "rollback" => target[r] = "rollback"
    BY DEF AfterStatus
  <2>. QED
    BY <2>1, <2>2
<1>8. CASE Captures(r) \/ AgentWrites(r) \/ AgentSwallows(r)
  <2>1. /\ pc[r] \in {"capture", "stream"} /\ pc'[r] = "stream"
        /\ UNCHANGED <<status, abort, action, phase, target>>
        /\ cancelReq'[r] => cancelReq[r]
    BY <1>8 DEF Captures, AgentWrites, AgentSwallows, recordVars, workerVars
  <2>. QED
    BY <2>1
<1>9. CASE StreamEnds(r)
  <2>1. pc[r] = "stream" /\ ~cancelReq[r] /\ status[r] \in Live \cup {"interrupted"}
    BY <1>9 DEF StreamEnds, Status, Terminal
  <2>2. /\ target'[r] \in {"success", "error", "interrupted", "rollback"}
        /\ target'[r] \in {"interrupted", "rollback"} <=> abort[r]
        /\ target'[r] = "rollback" => action[r] = "rollback"
        /\ \/ pc'[r] = "persist" /\ status'[r] = Outcome(target'[r])
           \/ pc'[r] = "lock" /\ status'[r] = status[r]
    BY <1>9 DEF StreamEnds, SetStatus, StreamOutcomes, AbortTarget, GraphOutcomes
  <2>3. UNCHANGED <<abort, action, phase, cancelReq>>
    BY <1>9 DEF StreamEnds
  <2>. QED
    BY <2>1, <2>2, <2>3 DEF Outcome
<1>10. CASE StreamRaises(r)
  <2>1. pc[r] = "stream" /\ ~cancelReq[r] /\ phase'[r] = "failed"
    BY <1>10 DEF StreamRaises
  <2>2. /\ target'[r] = "error"
        /\ \/ pc'[r] = "persist" /\ status'[r] = "error"
           \/ pc'[r] = "lock" /\ status'[r] = status[r]
    BY <1>10 DEF StreamRaises, SetStatus, Outcome
  <2>3. UNCHANGED <<abort, action, cancelReq>>
    BY <1>10 DEF StreamRaises
  <2>. QED
    BY <2>1, <2>2, <2>3
<1>11. CASE CancelledInBody(r)
  <2>1. /\ cancelReq[r] /\ abort[r] /\ phase[r] = "body" /\ ~cancelReq'[r] /\ phase'[r] = "cancelled"
        /\ pc[r] \in {"lock", "persist", "capture", "stream", "rollback"}
    BY <1>11 DEF CancelledInBody
  <2>2. /\ target'[r] = IF action[r] = "rollback" THEN "rollback" ELSE "interrupted"
        /\ \/ pc'[r] = "persist" /\ status'[r] = Outcome(target'[r])
           \/ pc'[r] = "lock" /\ status'[r] = status[r]
    BY <1>11 DEF CancelledInBody, SetStatus, AbortTarget
  <2>3. UNCHANGED <<abort, action>>
    BY <1>11 DEF CancelledInBody
  <2>4. status[r] # "success" /\ (status[r] = "error" => action[r] = "rollback")
    BY <2>1 DEF Aborts, AbortedNeverSucceeds, Targets, Status, Terminal
  <2>. QED
    BY <2>1, <2>2, <2>3, <2>4 DEF Outcome
<1>12. CASE CancelledInHandler(r) \/ RollsBack(r)
  <2>1. /\ pc'[r] = "completion" /\ UNCHANGED <<status, abort, action, target>>
        /\ ~cancelReq'[r] /\ pc[r] \in {"lock", "persist", "rollback"}
        /\ pc[r] = "rollback" \/ phase[r] \in {"failed", "cancelled"}
        /\ ~Interruptible(r) \/ cancelReq[r]
    BY <1>12 DEF CancelledInHandler, RollsBack, recordVars
  <2>2. status[r] \in Live => abort[r] /\ proc # "up"
    BY <2>1
  <2>. QED
    BY <2>1, <2>2
<1>13. CASE Concludes(r)
  <2>1. /\ pc[r] = "completion" /\ pc'[r] \in {"finlock", "finpersist"} /\ target'[r] = status[r]
        /\ UNCHANGED <<status, abort, action, phase, cancelReq>>
    BY <1>13 DEF Concludes, AtCompletion, recordVars
  <2>. QED
    BY <2>1
<1>14. CASE GetsLockAtEnd(r) \/ Completes(r)
  <2>1. /\ pc[r] \in {"finlock", "finpersist"} /\ pc'[r] \in {"finpersist", "meta"}
        /\ UNCHANGED <<status, abort, action, phase, target, cancelReq>>
    BY <1>14 DEF GetsLockAtEnd, Completes, recordVars
  <2>. QED
    BY <2>1
<1>15. CASE Finishes(r) \/ CancelledInFinalizer(r)
  <2>1. /\ pc[r] \in {"completion", "finlock", "finpersist", "meta"} /\ ~cancelReq'[r]
        /\ pc'[r] \in {"done", "cancelled"} /\ phase'[r] = "body"
        /\ UNCHANGED <<status, abort, action>>
    BY <1>15 DEF Finishes, CancelledInFinalizer, TaskEnds, recordVars
  <2>. QED
    BY <2>1
<1>. QED
  BY <1>4, <1>5, <1>6, <1>7, <1>8, <1>9, <1>10, <1>11, <1>12, <1>13, <1>14, <1>15 DEF Worker

\* So does a start request, also with the status of what it replaces.
LEMMA AdmissionProgress ==
    ASSUME TypeOK, Exclusion, Progress, NEW r \in Runs, Admission(r)
    PROVE  Progress'
<1>0. faults > 0 => faults' > 0
  BY FaultsCount DEF Next
<1>. USE RunsAssumption, <1>0 DEF Progress, RunProgress, RequestStatus, TaskStatus, BodyStatus,
         CancelStatus, Interruptible, TypeOK, RecordsOK, WorkersOK, RequestsOK, ProcessOK,
         LocksOK, TaskAlive, Free, Live, AdmOver, Exclusion, LaunchedOnly
<1>1. CASE Rejects(r)
  BY <1>1 DEF Rejects, Leaves, recordVars, workerVars, lockVars, procVars
<1>2. CASE Inserts(r)
  <2>. SUFFICES ASSUME NEW q \in Runs
                PROVE  RunProgress(q)'
    OBVIOUS
  <2>1. CASE q = r
    <3>1. pc[r] = "none" /\ status[r] = "absent" /\ ~abort[r] /\ ~cancelReq[r] /\ r \notin drain
          /\ phase[r] = "body" /\ proc # "down"
      BY <1>2 DEF Inserts
    <3>2. adm'[r] = "put" /\ status'[r] = "pending" /\ lock' = r
      BY <1>2 DEF Inserts
    <3>3. UNCHANGED <<abort, pc, phase, target, cancelReq, proc, drain>>
      BY <1>2 DEF Inserts, workerVars, procVars
    <3>. QED
      BY <2>1, <3>1, <3>2, <3>3
  <2>2. CASE q # r
    BY <2>2, <1>2 DEF Inserts, recordVars, workerVars, lockVars, procVars
  <2>. QED
    BY <2>1, <2>2
<1>3. CASE Replaces(r)
  <2>. SUFFICES ASSUME NEW q \in Runs
                PROVE  RunProgress(q)'
    OBVIOUS
  <2>1. CASE q = r
    <3>1. /\ adm[r] = "put" /\ adm'[r] \in {"persist", "await", "settle", "announce"}
          /\ UNCHANGED <<pc, phase, target, proc, drain>>
      BY <1>3 DEF Replaces, AfterPersist, AfterWait, procVars
    <3>2. pc[r] = "none" /\ ~TaskAlive(r)
      BY <3>1
    <3>3. \/ UNCHANGED <<abort[r], status[r]>>
          \/ ~abort[r] /\ abort'[r] /\ status[r] \in Live /\ status'[r] = "interrupted"
      BY <1>3 DEF Replaces, Abortable
    <3>4. cancelReq'[r] = cancelReq[r]
      BY <1>3, <3>2 DEF Replaces
    <3>5. status[r] = "pending" /\ adm'[r] \notin AdmOver
      BY <3>1
    <3>6. RequestStatus(r)'
      BY <3>1, <3>3, <3>5
    <3>7. TaskStatus(r)'
      BY <3>1, <3>2, <3>3, <3>5
    <3>8. CancelStatus(r)'
      BY <3>1, <3>2, <3>3, <3>4, <3>5
    <3>9. BodyStatus(r)'
      BY <3>1, <3>2
    <3>. QED
      BY <2>1, <3>6, <3>7, <3>8, <3>9
  <2>2. CASE q # r
    <3>1. adm'[q] = adm[q] /\ adm[q] # "put" /\ UNCHANGED <<pc, phase, target, proc, drain>>
      BY <1>3, <2>2 DEF Replaces, procVars
    <3>2. CASE q \in seen[r] /\ Abortable(q)
      <4>1. abort'[q] /\ status'[q] = "interrupted" /\ cancelReq'[q] = (cancelReq[q] \/ TaskAlive(q))
        BY <1>3, <3>2 DEF Replaces
      <4>2. status[q] \in Live /\ ~abort[q]
        BY <3>2 DEF Abortable
      <4>4. RequestStatus(q)'
        BY <3>1, <4>1, <4>2
      <4>5. TaskStatus(q)'
        BY <3>1, <4>1, <4>2
      <4>6. CancelStatus(q)'
        BY <3>1, <4>1, <4>2
      <4>7. BodyStatus(q)'
        BY <3>1, <4>2
      <4>. QED
        BY <4>4, <4>5, <4>6, <4>7
    <3>3. CASE ~(q \in seen[r] /\ Abortable(q))
      <4>1. UNCHANGED <<status[q], abort[q], action[q], cancelReq[q]>>
        BY <1>3, <3>3 DEF Replaces
      <4>. QED
        BY <3>1, <4>1
    <3>. QED
      BY <3>2, <3>3
  <2>. QED
    BY <2>1, <2>2
<1>4. CASE PutFails(r)
  BY <1>4 DEF PutFails, Leaves, ReleasesLock, recordVars, workerVars, lockVars,
      procVars
<1>5. CASE PersistsReplaced(r)
  BY <1>5 DEF PersistsReplaced, AfterPersist, AfterWait, recordVars, workerVars,
      lockVars, procVars
<1>6. CASE PredecessorsEnd(r)
  BY <1>6 DEF PredecessorsEnd, AfterWait, recordVars, workerVars, lockVars, procVars
<1>7. CASE WaitTimesOut(r)
  BY <1>7 DEF WaitTimesOut, FailsAdmission, recordVars, workerVars, lockVars,
      procVars
<1>8. CASE SettlesReplaced(r)
  BY <1>8 DEF SettlesReplaced, recordVars, workerVars, lockVars, procVars
<1>9. CASE Launches(r)
  BY <1>9 DEF Launches, Leaves, recordVars, workerVars, lockVars, procVars
<1>10. CASE RequestCancelled(r)
  BY <1>10 DEF RequestCancelled, Leaves, FailsAdmission, recordVars, workerVars,
      lockVars, procVars
<1>11. CASE MarksFailed(r)
  <2>. SUFFICES ASSUME NEW q \in Runs
                PROVE  RunProgress(q)'
    OBVIOUS
  <2>1. CASE q = r
    <3>1. pc[r] = "none" /\ ~cancelReq[r] /\ r \notin drain /\ phase[r] = "body" /\ proc # "down"
      BY <1>11 DEF MarksFailed
    <3>2. adm'[r] = "fail_persist" /\ status'[r] = "error"
      BY <1>11 DEF MarksFailed
    <3>3. UNCHANGED <<abort, pc, phase, target, cancelReq, proc, drain>>
      BY <1>11 DEF MarksFailed, workerVars, procVars
    <3>. QED
      BY <2>1, <3>1, <3>2, <3>3
  <2>2. CASE q # r
    BY <2>2, <1>11 DEF MarksFailed, recordVars, workerVars, lockVars, procVars
  <2>. QED
    BY <2>1, <2>2
<1>12. CASE PersistsFailed(r)
  <2>. SUFFICES ASSUME NEW q \in Runs
                PROVE  RunProgress(q)'
    OBVIOUS
  <2>1. UNCHANGED <<status, abort, action, pc, phase, target, cancelReq, proc, drain, lock>>
    BY <1>12 DEF PersistsFailed, recordVars, workerVars, procVars
  <2>2. adm[r] = "fail_persist" /\ adm' = [adm EXCEPT ![r] = "rejected"]
    BY <1>12 DEF PersistsFailed, Leaves
  <2>3. CASE q = r
    <3>1. adm'[r] = "rejected"
      BY <2>2
    <3>. QED
      BY <2>1, <2>2, <2>3, <3>1
  <2>4. CASE q # r
    <3>1. adm'[q] = adm[q]
      BY <2>2, <2>4
    <3>. QED
      BY <2>1, <2>4, <3>1
  <2>. QED
    BY <2>3, <2>4
<1>. QED
  BY <1>1, <1>2, <1>3, <1>4, <1>5, <1>6, <1>7, <1>8, <1>9, <1>10, <1>11, <1>12 DEF Admission

\* Every step keeps status, request, task and cancellation in agreement.
LEMMA ProgressStep ==
    ASSUME TypeOK, Exclusion, Aborts, Progress, [Next]_vars
    PROVE  Progress'
<1>0. faults > 0 => faults' > 0
  BY FaultsCount DEF Next
<1>. USE RunsAssumption, <1>0 DEF Progress, RunProgress, RequestStatus, TaskStatus, BodyStatus,
         CancelStatus, Interruptible, TypeOK, RecordsOK, WorkersOK, RequestsOK, ProcessOK,
         LocksOK, TaskAlive, Free, Live, AdmOver, Exclusion, LaunchedOnly
<1>1. ASSUME NEW r \in Runs, NEW s \in Strategies, Requests(r, s)
      PROVE  Progress'
  BY <1>1 DEF Requests, recordVars, workerVars, procVars
<1>2. ASSUME NEW r \in Runs, NEW a \in Actions, Cancels(r, a)
      PROVE  Progress'
  <2>. SUFFICES ASSUME NEW q \in Runs
                PROVE  RunProgress(q)'
    OBVIOUS
  <2>1. CASE q = r
    <3>1. status[r] \in {"pending", "running"} /\ proc = "up" /\ lock = NoRun
      BY <1>2 DEF Cancels
    <3>2. /\ status'[r] = "interrupted" /\ abort'[r] /\ cancelReq'[r] = TaskAlive(r)
          /\ UNCHANGED <<pc, phase, target, adm, lock, proc, drain>>
      BY <1>2 DEF Cancels, admVars, lockVars, procVars
    <3>3. pc[r] \notin {"done", "cancelled"} /\ (TaskAlive(r) => Interruptible(r))
      BY <3>1
    <3>4. RequestStatus(r)'
      BY <3>1, <3>2
    <3>5. TaskStatus(r)'
      BY <3>1, <3>2, <3>3
    <3>6. CancelStatus(r)'
      BY <3>1, <3>2, <3>3
    <3>7. BodyStatus(r)'
      BY <3>1, <3>2, <3>3
    <3>. QED
      BY <2>1, <3>4, <3>5, <3>6, <3>7
  <2>2. CASE q # r
    <3>1. /\ UNCHANGED <<status[q], abort[q], action[q], cancelReq[q]>>
          /\ UNCHANGED <<pc, phase, target, adm, lock, proc, drain>>
      BY <2>2, <1>2 DEF Cancels, admVars, lockVars, procVars
    <3>. QED
      BY <3>1
  <2>. QED
    BY <2>1, <2>2
<1>3. CASE DelayedWrite \/ UNCHANGED vars
  <2>1. UNCHANGED <<status, abort, action, pc, phase, target, cancelReq, adm, lock, proc, drain>>
    BY <1>3 DEF DelayedWrite, vars, recordVars, workerVars, admVars, lockVars, procVars
  <2>. QED
    BY <2>1
<1>4. CASE ShutsDown
  <2>. SUFFICES ASSUME NEW q \in Runs
                PROVE  RunProgress(q)'
    OBVIOUS
  <2>1. /\ UNCHANGED <<status, pc, phase, target, adm, lock>>
        /\ proc = "up" /\ proc' \in {"draining", "drained"}
    BY <1>4 DEF ShutsDown, admVars, lockVars
  <2>2. /\ q \in drain' <=> TaskAlive(q)
        /\ IF TaskAlive(q) /\ Abortable(q)
           THEN abort'[q] /\ cancelReq'[q]
           ELSE UNCHANGED <<abort[q], action[q], cancelReq[q]>>
    <3>. DEFINE hit == {r \in {x \in Runs : TaskAlive(x)} : Abortable(r)}
    <3>1. /\ drain' = {r \in Runs : TaskAlive(r)}
          /\ abort' = [r \in Runs |-> abort[r] \/ r \in hit]
          /\ cancelReq' = [r \in Runs |-> cancelReq[r] \/ r \in hit]
          /\ action' = [r \in Runs |-> IF r \in hit THEN "interrupt" ELSE action[r]]
      BY <1>4 DEF ShutsDown
    <3>2. q \in hit <=> TaskAlive(q) /\ Abortable(q)
      OBVIOUS
    <3>3. /\ abort'[q] = (abort[q] \/ q \in hit) /\ cancelReq'[q] = (cancelReq[q] \/ q \in hit)
          /\ q \notin hit => action'[q] = action[q]
      BY <3>1
    <3>4. abort[q] \in BOOLEAN /\ cancelReq[q] \in BOOLEAN
      OBVIOUS
    <3>. HIDE DEF hit
    <3>. QED
      BY <3>1, <3>2, <3>3, <3>4
  <2>3. RequestStatus(q)'
    BY <2>1, <2>2 DEF Abortable
  <2>4. TaskStatus(q)'
    BY <2>1, <2>2 DEF Abortable
  <2>5. CancelStatus(q)'
    <3>1. CASE TaskAlive(q) /\ Abortable(q)
      <4>1. status[q] \in {"pending", "running"} /\ abort'[q] /\ cancelReq'[q]
        BY <2>2, <3>1 DEF Abortable
      <4>2. Interruptible(q)
        BY <2>1, <3>1 DEF Abortable
      <4>. QED
        BY <2>1, <4>1, <4>2
    <3>2. CASE ~(TaskAlive(q) /\ Abortable(q))
      <4>1. abort'[q] = abort[q] /\ cancelReq'[q] = cancelReq[q]
        BY <2>2, <3>2
      <4>2. q \in drain' => pc[q] # "none" /\ (abort[q] \/ status[q] \notin {"pending", "running"})
        BY <2>2, <3>2 DEF Abortable
      <4>. QED
        BY <2>1, <4>1, <4>2
    <3>. QED
      BY <3>1, <3>2
  <2>6. BodyStatus(q)'
    BY <2>1, <2>2 DEF Abortable
  <2>. QED
    BY <2>3, <2>4, <2>5, <2>6
<1>5. CASE Drained
  <2>. SUFFICES ASSUME NEW q \in Runs
                PROVE  RunProgress(q)'
    OBVIOUS
  <2>1. /\ UNCHANGED <<abort, action, pc, phase, target, cancelReq, adm, lock, drain>>
        /\ proc = "draining" /\ proc' = "drained"
    BY <1>5 DEF Drained, workerVars, admVars, lockVars
  <2>2. CASE status'[q] = status[q]
    BY <2>1, <2>2
  <2>3. CASE status'[q] # status[q]
    <3>1. q \in drain /\ status[q] \in {"pending", "running"} /\ status'[q] = "interrupted"
      BY <1>5, <2>3 DEF Drained
    <3>2. abort[q] /\ pc[q] # "none"
      BY <3>1
    <3>3. RequestStatus(q)'
      BY <2>1, <3>1, <3>2
    <3>4. TaskStatus(q)'
      BY <2>1, <3>1, <3>2
    <3>5. CancelStatus(q)'
      BY <2>1, <3>1, <3>2
    <3>6. BodyStatus(q)'
      BY <2>1
    <3>. QED
      BY <3>3, <3>4, <3>5, <3>6
  <2>. QED
    BY <2>2, <2>3
<1>6. CASE ProcessEnds
  BY <1>6 DEF ProcessEnds
<1>7. CASE Boots
  BY <1>7 DEF Boots, recordVars, workerVars, admVars, lockVars
<1>8. ASSUME NEW r \in Runs, WaiterCancelled(r)
      PROVE  Progress'
  <2>. SUFFICES ASSUME NEW q \in Runs
                PROVE  RunProgress(q)'
    OBVIOUS
  <2>1. /\ abort[r] /\ TaskAlive(r) /\ faults' > 0
        /\ UNCHANGED <<status, abort, action, pc, phase, target, adm, lock, proc, drain>>
    BY <1>8, FaultsCount DEF WaiterCancelled, Fault, recordVars, admVars, lockVars, procVars
  <2>2. CASE q = r
    <3>1. cancelReq'[r]
      BY <1>8 DEF WaiterCancelled
    <3>. QED
      BY <2>1, <2>2, <3>1
  <2>3. CASE q # r
    <3>1. cancelReq'[q] = cancelReq[q]
      BY <1>8, <2>3 DEF WaiterCancelled
    <3>. QED
      BY <2>1, <3>1
  <2>. QED
    BY <2>2, <2>3
<1>. QED
  BY <1>1, <1>2, <1>3, <1>4, <1>5, <1>6, <1>7, <1>8, WorkerProgress, AdmissionProgress
     DEF Next, Idle, Process
-----------------------------------------------------------------------------
(* The invariant, and the properties of the runs that follow from it *)

\* The inductive invariant holds at the start ...
LEMMA IInvInit == Init => IInv
BY TypeInit, RunsAssumption DEF Init, IInv, ReplacesOnly, Exclusion, OneRequest, LaunchedOnly,
   Watching, Quiet, OneWriter, Snapshots, Untouched, BeforeCapture, Restorable, SnapshotFaithful,
   Aborts, WaitingSuccess, AbortedNeverSucceeds, TaskAlive, AdmOver, Thread, Progress,
   RunProgress, RequestStatus, TaskStatus, BodyStatus, CancelStatus, Interruptible, Live

\* ... and every step keeps it.
LEMMA IInvStep == IInv /\ [Next]_vars => IInv'
BY TypeStep, ReplacesStep, ExclusionStep, SnapshotsStep, AbortsStep, ProgressStep DEF IInv

\* Everything below rests on the invariance of IInv.
THEOREM Invariance == Spec => []IInv
BY IInvInit, IInvStep, PTL DEF Spec

\* The variables keep their types: a status, a suspended await or a stored row has no
\* value but those the code writes.
THEOREM TypeCorrect == Spec => []TypeOK
BY Invariance, PTL DEF IInv

\* No two run_agent tasks of one thread are ever alive together.
THEOREM OneWriterAlways == Spec => []OneWriter
BY Invariance, PTL DEF IInv, Exclusion

\* Restoring pre_run_snapshot takes back the output of the run itself and nothing else.
THEOREM RollbackFaithful == Spec => []SnapshotFaithful
BY Invariance, PTL DEF IInv, Snapshots

\* A run that cancel(), a replacement or the shutdown aborted never becomes a success.
THEOREM AbortWins == Spec => []AbortedNeverSucceeds
BY Invariance, PTL DEF IInv, Aborts

\* A single step sends no CancelledError to a worker past its body, unless a request that
\* waits for a cancelled run is cancelled itself.
LEMMA CancelsOnceStep ==
    ASSUME IInv, [Next]_vars
    PROVE  CancelsOnce
<1>. SUFFICES ASSUME NEW r \in Runs, cancelReq'[r], ~cancelReq[r]
              PROVE  Interruptible(r) \/ WaiterCancelled(r)
  BY DEF CancelsOnce
<1>. USE DEF IInv, TypeOK, RecordsOK, WorkersOK
<1>1. ASSUME status[r] \in Live, TaskAlive(r), ~abort[r] \/ proc = "up"
      PROVE  Interruptible(r)
  BY <1>1 DEF Progress, RunProgress, CancelStatus
<1>2. ASSUME NEW q \in Runs, Worker(q)
      PROVE  FALSE
  BY <1>2 DEF Worker, NeverRuns, Skips, Starts, GetsLock, PersistsStatus, Captures, AgentWrites,
         AgentSwallows, StreamEnds, StreamRaises, CancelledInBody, CancelledInHandler, RollsBack,
         Concludes, GetsLockAtEnd, Completes, Finishes, CancelledInFinalizer, workerVars
<1>3. ASSUME NEW q \in Runs, Admission(q)
      PROVE  Interruptible(r)
  <2>1. Replaces(q)
    BY <1>3 DEF Admission, Rejects, Inserts, PutFails, PersistsReplaced, PredecessorsEnd,
           WaitTimesOut, SettlesReplaced, Launches, RequestCancelled, MarksFailed, PersistsFailed,
           workerVars
  <2>. QED
    BY <1>1, <2>1 DEF Replaces, Abortable
<1>4. ASSUME NEW q \in Runs, NEW a \in Actions, Cancels(q, a)
      PROVE  Interruptible(r)
  BY <1>1, <1>4 DEF Cancels
<1>5. ASSUME NEW q \in Runs, WaiterCancelled(q)
      PROVE  WaiterCancelled(r)
  <2>1. q = r
    BY <1>5 DEF WaiterCancelled
  <2>. QED
    BY <1>5, <2>1
<1>6. CASE ShutsDown
  BY <1>1, <1>6 DEF ShutsDown, Abortable
<1>7. CASE \/ \E q \in Runs, s \in Strategies : Requests(q, s)
           \/ DelayedWrite \/ Drained \/ ProcessEnds \/ Boots \/ UNCHANGED vars
  BY <1>7 DEF Requests, DelayedWrite, Drained, ProcessEnds, Boots, vars, workerVars
<1>. QED
  BY <1>2, <1>3, <1>4, <1>5, <1>6, <1>7 DEF Next, Idle, Process

\* Neither cancel(), a replacement nor the shutdown sends a CancelledError to a worker that
\* restores or finalizes.
THEOREM FinalizerSafe == Spec => FinalizerUndisturbed
<1>1. IInv /\ [Next]_vars => [CancelsOnce]_vars
  BY CancelsOnceStep
<1>. QED
  BY <1>1, Invariance, PTL DEF Spec, FinalizerUndisturbed

\* A record that is pending or running is owned by a task or by a request in progress,
\* the one exception named in NoOwnerlessRun apart.
THEOREM RunsOwned == Spec => []NoOwnerlessRun
<1>1. IInv => NoOwnerlessRun
  BY DEF IInv, Progress, RunProgress, RequestStatus, CancelStatus, NoOwnerlessRun, TaskAlive,
         AdmOver, Live, TypeOK, RequestsOK, AdmPC
<1>. QED
  BY <1>1, Invariance, PTL

\* A single step moves no status back.
LEMMA StatusStep ==
    ASSUME IInv, [Next]_vars
    PROVE  StatusMoves
<1>. USE DEF IInv, TypeOK, RecordsOK, WorkersOK, Progress, RunProgress, RequestStatus, TaskStatus,
         CancelStatus, StatusMoves
<1>1. ASSUME NEW r \in Runs, Worker(r)
      PROVE  StatusMoves
  <2>1. CASE \/ NeverRuns(r) \/ Skips(r) \/ PersistsStatus(r) \/ Captures(r) \/ AgentWrites(r)
            \/ AgentSwallows(r) \/ CancelledInHandler(r) \/ RollsBack(r) \/ Concludes(r)
            \/ GetsLockAtEnd(r) \/ Completes(r) \/ Finishes(r) \/ CancelledInFinalizer(r)
    BY <2>1 DEF NeverRuns, Skips, PersistsStatus, Captures, AgentWrites, AgentSwallows,
                CancelledInHandler, RollsBack, Concludes, GetsLockAtEnd, Completes, Finishes,
                CancelledInFinalizer, recordVars
  <2>2. CASE Starts(r)
    BY <2>2 DEF Starts, AbortedEarly, SetStatus, Outcome
  <2>3. CASE GetsLock(r)
    <3>1. /\ pc[r] = "lock" /\ ~cancelReq[r] /\ status' = [status EXCEPT ![r] = Outcome(target[r])]
      BY <2>3 DEF GetsLock, SetStatus
    <3>2. target[r] # "pending" /\ target[r] \in Targets /\ status[r] # "success"
      BY <3>1
    <3>3. status[r] = "error" => target[r] = "rollback"
      BY <3>1
    <3>4. status[r] = "interrupted" => target[r] \notin {"running", "success"}
      BY <3>1 DEF Live
    <3>. QED
      BY <3>1, <3>2, <3>3, <3>4 DEF Outcome, Targets, Status, Live, Terminal
  <2>4. CASE StreamEnds(r) \/ StreamRaises(r)
    BY <2>4 DEF StreamEnds, StreamRaises, StreamOutcomes, AbortTarget, GraphOutcomes, SetStatus,
                Outcome
  <2>5. CASE CancelledInBody(r)
    <3>1. /\ cancelReq[r] /\ phase[r] = "body"
          /\ pc[r] \in {"lock", "persist", "capture", "stream", "rollback"}
          /\ target'[r] = IF action[r] = "rollback" THEN "rollback" ELSE "interrupted"
          /\ status'[r] \in {status[r], Outcome(target'[r])}
          /\ \A q \in Runs \ {r} : status'[q] = status[q]
      BY <2>5 DEF CancelledInBody, AbortTarget, SetStatus
    <3>2. status[r] # "success"
      BY <3>1 DEF Aborts, AbortedNeverSucceeds
    <3>3. status[r] = "error" => action[r] = "rollback"
      BY <3>1, <3>2 DEF BodyStatus, Targets, Status, Terminal, Live
    <3>. QED
      BY <3>1, <3>2, <3>3 DEF Outcome
  <2>. QED
    BY <1>1, <2>1, <2>2, <2>3, <2>4, <2>5 DEF Worker
<1>2. ASSUME NEW r \in Runs, Admission(r)
      PROVE  StatusMoves
  <2>1. CASE Replaces(r) \/ Inserts(r) \/ PutFails(r)
    BY <2>1 DEF Replaces, Inserts, PutFails, Abortable, Live
  <2>2. CASE \/ WaitTimesOut(r) \/ RequestCancelled(r) \/ MarksFailed(r)
    BY <2>2 DEF WaitTimesOut, RequestCancelled, MarksFailed, FailsAdmission, Exclusion, LaunchedOnly
  <2>3. CASE \/ Rejects(r) \/ PersistsReplaced(r) \/ PredecessorsEnd(r) \/ SettlesReplaced(r)
            \/ Launches(r) \/ PersistsFailed(r)
    BY <2>3 DEF Rejects, PersistsReplaced, PredecessorsEnd, SettlesReplaced, Launches,
                PersistsFailed, recordVars
  <2>. QED
    BY <1>2, <2>1, <2>2, <2>3 DEF Admission
<1>3. ASSUME NEW r \in Runs, NEW a \in Actions, Cancels(r, a)
      PROVE  StatusMoves
  BY <1>3 DEF Cancels, Live
<1>4. CASE \/ \E r \in Runs, s \in Strategies : Requests(r, s)
           \/ \E r \in Runs : WaiterCancelled(r)
           \/ DelayedWrite \/ Boots \/ ShutsDown \/ UNCHANGED vars
  BY <1>4 DEF Requests, WaiterCancelled, DelayedWrite, Boots, ShutsDown, vars, recordVars
<1>5. CASE Drained
  BY <1>5 DEF Drained, Live
<1>6. CASE ProcessEnds
  BY <1>6 DEF ProcessEnds
<1>. QED
  BY <1>1, <1>2, <1>3, <1>4, <1>5, <1>6 DEF Next, Idle, Process

\* As long as the process lives, success and error are final and an interrupted run can only
\* become the error of its rollback.
THEOREM StatusesForward == Spec => StatusForward
<1>1. IInv /\ [Next]_vars => [StatusMoves]_vars
  BY StatusStep
<1>. QED
  BY <1>1, Invariance, PTL DEF Spec, StatusForward
-----------------------------------------------------------------------------
(* The run subsystem implements exclusive ownership of a thread *)

\* The owner of a thread is the run whose task is alive ...
LEMMA OwnerIs ==
    ASSUME OneWriter, NEW t \in Threads
    PROVE  /\ \A r \in Runs : Thread(r) = t /\ TaskAlive(r) => Owner(t) = r
           /\ (\A r \in Runs : Thread(r) = t => ~TaskAlive(r)) => Owner(t) = NoRun
BY DEF Owner, OneWriter

\* ... after a step, too ...
LEMMA OwnerWillBe ==
    ASSUME OneWriter', NEW t \in Threads
    PROVE  /\ \A r \in Runs : Thread(r) = t /\ TaskAlive(r)' => Owner(t)' = r
           /\ (\A r \in Runs : Thread(r) = t => ~TaskAlive(r)') => Owner(t)' = NoRun
BY DEF Owner, OneWriter, Thread

\* A thread none of whose tasks started or ended has the owner it had.
LEMMA OwnerStays ==
    ASSUME NEW t \in Threads,
           \A r \in Runs : Thread(r) = t => TaskAlive(r)' = TaskAlive(r)
    PROVE  Owner(t)' = Owner(t)
<1>1. \A r \in Runs : (Thread(r) = t /\ TaskAlive(r))' <=> Thread(r) = t /\ TaskAlive(r)
  BY DEF Thread
<1>. QED
  BY <1>1 DEF Owner

\* What a step of a worker does to the checkpoints.
LEMMA WorkerHead ==
    ASSUME TypeOK, Snapshots, NEW r \in Runs, Worker(r)
    PROVE  \/ UNCHANGED head
           \/ TaskAlive(r)' /\ head' = [head EXCEPT ![Thread(r)] = @ \cup {r}]
           \/ /\ TaskAlive(r)' /\ pc[r] = "rollback"
              /\ head' = [head EXCEPT ![Thread(r)] = @ \ {r}]
<1>. USE DEF TypeOK, WorkersOK
<1>1. CASE AgentWrites(r)
  BY <1>1 DEF AgentWrites, workerVars, TaskAlive
<1>2. CASE RollsBack(r) \/ CancelledInBody(r) \/ CancelledInHandler(r)
  <2>1. TaskAlive(r)'
    BY <1>2 DEF RollsBack, CancelledInBody, CancelledInHandler, SetStatus, TaskAlive
  <2>2. \/ UNCHANGED head
        \/ pc[r] = "rollback" /\ head' = [head EXCEPT ![Thread(r)] = Restored(r)]
    BY <1>2 DEF RollsBack, CancelledInBody, CancelledInHandler, CutShort
  <2>. QED
    BY <2>1, <2>2, RestoresOwn
<1>3. CASE ~AgentWrites(r) /\ ~RollsBack(r) /\ ~CancelledInBody(r) /\ ~CancelledInHandler(r)
  BY <1>3 DEF Worker, NeverRuns, Skips, Starts, GetsLock, PersistsStatus, Captures, AgentSwallows,
              StreamEnds, StreamRaises, Concludes, GetsLockAtEnd, Completes, Finishes,
              CancelledInFinalizer
<1>. QED
  BY <1>1, <1>2, <1>3

\* Every step is one of ThreadOwnership, or changes nothing there.
LEMMA OwnershipStep ==
    ASSUME IInv, IInv', [Next]_vars
    PROVE  [Ownership!Next]_(Ownership!vars)
<1>. DEFINE own == [t \in Threads |-> Owner(t)]
<1>0. OneWriter /\ OneWriter' /\ TypeOK /\ TypeOK'
  BY DEF IInv, Exclusion
<1>1. ASSUME NEW r \in Runs, Worker(r)
      PROVE  [Ownership!Next]_(Ownership!vars)
  <2>. DEFINE t == Thread(r)
  <2>1. t \in Threads /\ own[t] = r
    BY <1>0, <1>1, WorkerFrame, OwnerIs, RunsAssumption DEF Thread
  <2>2. \A u \in Threads \ {t} : Owner(u)' = Owner(u)
    BY <1>0, <1>1, WorkerFrame, OwnerStays DEF TaskAlive
  <2>3. CASE TaskAlive(r)'
    <3>1. own' = own
      BY <1>0, <2>1, <2>2, <2>3, OwnerWillBe
    <3>. QED
      BY <1>0, <1>1, <2>1, <3>1, WorkerHead, RunsAssumption
      DEF IInv, Ownership!Next, Ownership!Extend, Ownership!Undo, Ownership!vars
  <2>4. CASE ~TaskAlive(r)'
    <3>1. \A q \in Runs : Thread(q) = t => ~TaskAlive(q)'
      BY <1>0, <1>1, <2>4, WorkerFrame DEF OneWriter, TaskAlive
    <3>2. own' = [own EXCEPT ![t] = NoRun]
      BY <1>0, <2>1, <2>2, <3>1, OwnerWillBe
    <3>3. UNCHANGED head
      BY <1>0, <1>1, <2>4, WorkerHead DEF IInv
    <3>. QED
      BY <2>1, <3>2, <3>3, RunsAssumption DEF Ownership!Next, Ownership!Release
  <2>. QED
    BY <2>3, <2>4
<1>2. ASSUME NEW r \in Runs, Launches(r)
      PROVE  [Ownership!Next]_(Ownership!vars)
  <2>. DEFINE t == Thread(r)
  <2>1. t \in Threads
    BY RunsAssumption DEF Thread
  <2>2. own[t] = NoRun
    BY <1>0, <1>2, <2>1, OwnerIs DEF Launches, IInv, Exclusion, Quiet
  <2>3. pc' = [pc EXCEPT ![r] = "start"] /\ UNCHANGED head
    BY <1>2 DEF Launches
  <2>4. TaskAlive(r)'
    BY <1>0, <2>3 DEF TaskAlive, TypeOK, WorkersOK
  <2>5. \A u \in Threads \ {t} : Owner(u)' = Owner(u)
    BY <1>0, <2>3, OwnerStays DEF TaskAlive, TypeOK, WorkersOK
  <2>6. own' = [own EXCEPT ![t] = r]
    BY <1>0, <2>1, <2>4, <2>5, OwnerWillBe
  <2>. QED
    BY <2>1, <2>2, <2>3, <2>6 DEF Ownership!Next, Ownership!Acquire
<1>3. CASE ProcessEnds
  <2>1. \A r \in Runs : ~TaskAlive(r)'
    BY <1>3 DEF ProcessEnds, TaskAlive
  <2>2. own' = [t \in Threads |-> NoRun]
    BY <1>0, <2>1, OwnerWillBe
  <2>. QED
    BY <1>3, <2>2 DEF ProcessEnds, Ownership!Next, Ownership!Die
<1>4. CASE UNCHANGED <<pc, head>>
  <2>1. own' = own
    BY <1>4, OwnerStays DEF TaskAlive
  <2>. QED
    BY <1>4, <2>1 DEF Ownership!vars
<1>5. \/ \E r \in Runs : Worker(r) \/ Launches(r)
      \/ ProcessEnds
      \/ UNCHANGED <<pc, head>>
  <2>1. ASSUME NEW r \in Runs, Admission(r)
        PROVE  Launches(r) \/ UNCHANGED <<pc, head>>
    BY <2>1 DEF Admission, Rejects, Inserts, Replaces, PutFails, PersistsReplaced, PredecessorsEnd,
         WaitTimesOut, SettlesReplaced, RequestCancelled, MarksFailed, PersistsFailed, workerVars
  <2>2. ASSUME \/ \E r \in Runs, s \in Strategies : Requests(r, s)
               \/ \E r \in Runs, a \in Actions : Cancels(r, a)
               \/ \E r \in Runs : WaiterCancelled(r)
               \/ DelayedWrite \/ Process \/ Idle \/ UNCHANGED vars
        PROVE  ProcessEnds \/ UNCHANGED <<pc, head>>
    BY <2>2 DEF Requests, Cancels, WaiterCancelled, DelayedWrite, Process, ShutsDown, Drained,
          Boots, Idle, vars, workerVars
  <2>. QED
    BY <2>1, <2>2 DEF Next
<1>. QED
  BY <1>1, <1>2, <1>3, <1>4, <1>5

\* Only the run whose task is alive adds its output to its thread or takes it back, whatever
\* is replaced, cancelled, failing or restarted.
THEOREM OwnershipImplemented == Spec => ImplementsOwnership
<1>1. Init => Ownership!Init
  <2>1. ASSUME Init
        PROVE  \A t \in Threads : Owner(t) = NoRun
    BY <2>1, IInvInit, OwnerIs DEF IInv, Exclusion, Init, TaskAlive
  <2>. QED
    BY <2>1 DEF Init, Ownership!Init
<1>2. IInv /\ IInv' /\ [Next]_vars => [Ownership!Next]_(Ownership!vars)
  BY OwnershipStep
<1>. QED
  BY <1>1, <1>2, Invariance, PTL DEF Spec, ImplementsOwnership, Ownership!Spec
-----------------------------------------------------------------------------
(* What the stores keep: successes, replaced runs, rows at rest *)

\* What a run achieved is in its thread, and its stored success is a success.
Kept == \A r \in Runs :
    /\ row[r] = "success" => status[r] = "success" \/ adm[r] = "lost"
    /\ status[r] = "success" => r \in head[Thread(r)]
    /\ pc[r] \in {"lock", "persist"} /\ target[r] = "success" => r \in head[Thread(r)]
    /\ pc[r] = "persist" /\ target[r] = "success" => status[r] = "success"
    /\ pc[r] = "persist" /\ target[r] = "rollback" => status[r] = "error"
    /\ pc[r] = "rollback" => status[r] = "error"

\* A write that is still to be made is of a run that is over.
LateWrites == \A r \in Runs, s \in Status \cup {"absent"} :
    <<r, s>> \in writes =>
        /\ status[r] \in Terminal /\ s \in Terminal
        /\ s = "success" => status[r] = "success"

\* A request replaces runs of its thread, which will not be active again.
Replacing == \A r \in Runs :
    /\ \A a \in seen[r] \cup replaced[r] \cup todo[r] :
         a # r /\ Thread(a) = Thread(r) /\ adm[r] \notin AdmOver
    /\ \A a \in replaced[r] \cup todo[r] : status[a] \in {"interrupted", "error"}
    /\ adm[r] = "await" => todo[r] = replaced[r]

\* Where a request that replaces runs is suspended.
Replacer == {"persist", "await", "settle", "announce"}

\* The outcome of a replaced run is stored.
Stored(r, a) == adm[r] = "announce" \/ (adm[r] = "settle" /\ a \notin todo[r])

\* Nobody but the request itself still writes what became of them.
OwnWrites == faults = 0 /\ proc = "up" =>
    \A r, a \in Runs :
        adm[r] \in Replacer /\ a \in replaced[r] =>
            /\ \A s \in Status \cup {"absent"} : <<a, s>> \notin writes
            /\ Stored(r, a) => row[a] = status[a]

\* Somebody will store that r is over.
Owed(r) ==
    \/ \E s \in Status \cup {"absent"} : <<r, s>> \in writes
    \/ \E q \in Runs : adm[q] = "persist" /\ r \in todo[q]
    \/ pc[r] \in {"lock", "persist", "capture", "stream", "rollback", "completion", "finlock",
                  "finpersist"}
    \/ adm[r] \in {"failing", "fail_persist"}

\* A row that says pending or running is true or will be corrected.
Settling == faults = 0 =>
    \A r \in Runs :
        /\ adm[r] # "abandoned"
        /\ row[r] \in Live /\ proc # "down" => status[r] # "absent"
        /\ row[r] \in Live /\ proc = "up" => status[r] \in Live \/ Owed(r)

Stores == SuccessKept /\ Kept /\ LateWrites /\ Replacing /\ OwnWrites /\ Settling

\* Only the end of the process makes a status move back, and it forgets all of them.
LEMMA StatusKept ==
    ASSUME IInv, [Next]_vars, ~ProcessEnds, NEW r \in Runs
    PROVE  /\ status[r] \in {"success", "error"} => status'[r] = status[r]
           /\ status[r] = "interrupted" => status'[r] \in {"interrupted", "error"}
           /\ proc' = "down" => proc = "down"
<1>1. proc' = "down" => proc = "down"
  <2>1. ASSUME NEW q \in Runs, Worker(q) PROVE proc' = proc
    BY <2>1 DEF Worker, NeverRuns, Skips, Starts, GetsLock, PersistsStatus, Captures, AgentWrites,
         AgentSwallows, StreamEnds, StreamRaises, CancelledInBody, CancelledInHandler, RollsBack,
         Concludes, GetsLockAtEnd, Completes, Finishes, CancelledInFinalizer, procVars
  <2>2. ASSUME NEW q \in Runs, Admission(q) PROVE proc' = proc
    BY <2>2 DEF Admission, Rejects, Inserts, Replaces, PutFails, PersistsReplaced,
         PredecessorsEnd, WaitTimesOut, SettlesReplaced, Launches, RequestCancelled, MarksFailed,
         PersistsFailed, procVars
  <2>3. ASSUME \/ \E q \in Runs, s \in Strategies : Requests(q, s)
               \/ \E q \in Runs, a \in Actions : Cancels(q, a)
               \/ \E q \in Runs : WaiterCancelled(q)
               \/ DelayedWrite \/ Process \/ Idle \/ UNCHANGED vars
        PROVE  proc' = "down" => proc = "down"
    BY <2>3 DEF Requests, Cancels, WaiterCancelled, DelayedWrite, Process, ShutsDown, Drained,
          Boots, Idle, vars, procVars
  <2>. QED
    BY <2>1, <2>2, <2>3 DEF Next
<1>2. proc = "down" => status[r] = "absent"
  BY DEF IInv, Progress, RunProgress, CancelStatus
<1>. QED
  BY <1>1, <1>2, StatusStep DEF StatusMoves

\* Where a stored status comes from.
LEMMA RowSources ==
    ASSUME TypeOK, [Next]_vars, NEW r \in Runs, row'[r] # row[r]
    PROVE  \/ adm[r] = "put" /\ row'[r] = "pending" /\ (Replaces(r) \/ PutFails(r))
           \/ /\ pc[r] = "persist" /\ row'[r] = Outcome(target[r])
              /\ pc'[r] \in {"lock", "persist", "capture", "rollback", "completion"}
           \/ pc[r] = "finpersist" /\ row'[r] = target[r] /\ status'[r] = status[r]
           \/ \E q \in Runs : adm[q] = "persist" /\ r \in todo[q] /\ row'[r] = "interrupted"
           \/ \E q \in Runs : adm[q] = "settle" /\ r \in todo[q] /\ row'[r] = status[r]
           \/ adm[r] = "fail_persist" /\ row'[r] = "error"
           \/ row'[r] \in Status \cup {"absent"} /\ <<r, row'[r]>> \in writes
           \/ Boots /\ row'[r] = "error"
<1>. USE DEF TypeOK, RequestsOK, StoresOK, WorkersOK
<1>1. ASSUME NEW q \in Runs, Worker(q)
      PROVE  /\ q = r
             /\ \/ /\ pc[r] = "persist" /\ row'[r] = Outcome(target[r])
                   /\ pc'[r] \in {"lock", "persist", "capture", "rollback", "completion"}
                \/ pc[r] = "finpersist" /\ row'[r] = target[r] /\ status'[r] = status[r]
  BY <1>1 DEF Worker, NeverRuns, Skips, Starts, GetsLock, PersistsStatus, Captures, AgentWrites,
         AgentSwallows, StreamEnds, StreamRaises, CancelledInBody, CancelledInHandler, RollsBack,
         Concludes, GetsLockAtEnd, Completes, Finishes, CancelledInFinalizer, CutShort, WriteRow,
         SetStatus, AfterStatus, recordVars, storeVars
<1>2. ASSUME NEW q \in Runs, Admission(q)
      PROVE  \/ q = r /\ adm[r] = "put" /\ row'[r] = "pending" /\ (Replaces(r) \/ PutFails(r))
             \/ adm[q] = "persist" /\ r \in todo[q] /\ row'[r] = "interrupted"
             \/ adm[q] = "settle" /\ r \in todo[q] /\ row'[r] = status[r]
             \/ q = r /\ adm[r] = "fail_persist" /\ row'[r] = "error"
  <2>1. CASE Replaces(q) \/ PutFails(q)
    <3>1. q = r /\ adm[q] = "put" /\ row'[r] = "pending"
      BY <2>1 DEF Replaces, PutFails
    <3>. QED
      BY <2>1, <3>1
  <2>2. CASE PersistsReplaced(q)
    <3>1. PICK a \in todo[q] : WriteRow(a, "interrupted")
      BY <2>2 DEF PersistsReplaced
    <3>. QED
      BY <2>2, <3>1 DEF PersistsReplaced, WriteRow
  <2>3. CASE SettlesReplaced(q)
    <3>1. PICK a \in todo[q] : WriteRow(a, status[a])
      BY <2>3 DEF SettlesReplaced
    <3>. QED
      BY <2>3, <3>1 DEF SettlesReplaced, WriteRow
  <2>4. CASE PersistsFailed(q)
    BY <2>4 DEF PersistsFailed, WriteRow
  <2>5. CASE \/ Rejects(q) \/ Inserts(q) \/ PredecessorsEnd(q) \/ WaitTimesOut(q) \/ Launches(q)
             \/ RequestCancelled(q) \/ MarksFailed(q)
    BY <2>5 DEF Rejects, Inserts, PredecessorsEnd, WaitTimesOut, Launches, RequestCancelled,
                MarksFailed, storeVars
  <2>. QED
    BY <1>2, <2>1, <2>2, <2>3, <2>4, <2>5 DEF Admission
<1>3. CASE DelayedWrite
  <2>1. PICK w \in writes : WriteRow(w[1], w[2])
    BY <1>3 DEF DelayedWrite
  <2>2. w = <<w[1], w[2]>> /\ w[1] \in Runs /\ w[2] \in Status \cup {"absent"}
    OBVIOUS
  <2>3. w[1] = r /\ row'[r] = w[2]
    BY <2>1, <2>2 DEF WriteRow
  <2>. QED
    BY <2>2, <2>3
<1>4. CASE Boots
  BY <1>4 DEF Boots
<1>5. CASE \/ \E q \in Runs, s \in Strategies : Requests(q, s)
           \/ \E q \in Runs, a \in Actions : Cancels(q, a)
           \/ \E q \in Runs : WaiterCancelled(q)
           \/ ShutsDown \/ Drained \/ ProcessEnds \/ UNCHANGED vars
  BY <1>5 DEF Requests, Cancels, WaiterCancelled, ShutsDown, Drained, ProcessEnds, vars, storeVars
<1>. QED
  BY <1>1, <1>2, <1>3, <1>4, <1>5 DEF Next, Idle, Process

\* Where a write still to be made comes from.
LEMMA WriteSources ==
    ASSUME TypeOK, [Next]_vars, NEW r \in Runs, NEW s, <<r, s>> \in writes', <<r, s>> \notin writes
    PROVE  \/ /\ proc = "up" /\ proc' = "up"
              /\ status[r] \in Live /\ status'[r] = "interrupted" /\ s = "interrupted"
           \/ /\ proc = "draining" /\ proc' = "drained"
              /\ s = status'[r] /\ r \in drain
              /\ status'[r] = IF status[r] \in Live THEN "interrupted" ELSE status[r]
<1>1. ASSUME NEW q \in Runs, NEW a \in Actions, Cancels(q, a)
      PROVE  /\ proc = "up" /\ proc' = "up"
             /\ status[r] \in Live /\ status'[r] = "interrupted" /\ s = "interrupted"
  BY <1>1 DEF Cancels, procVars, TypeOK, RecordsOK
<1>2. CASE Drained
  BY <1>2 DEF Drained, TypeOK, RecordsOK, ProcessOK
<1>3. CASE DelayedWrite \/ ShutsDown \/ ProcessEnds \/ Boots \/ UNCHANGED vars
  BY <1>3 DEF DelayedWrite, ShutsDown, ProcessEnds, Boots, vars, storeVars
<1>4. ASSUME NEW q \in Runs,
             \/ Worker(q) \/ Admission(q) \/ WaiterCancelled(q)
             \/ \E a \in Strategies : Requests(q, a)
      PROVE  FALSE
  BY <1>4 DEF Worker, NeverRuns, Skips, Starts, GetsLock, PersistsStatus, Captures, AgentWrites,
         AgentSwallows, StreamEnds, StreamRaises, CancelledInBody, CancelledInHandler, RollsBack,
         Concludes, GetsLockAtEnd, Completes, Finishes, CancelledInFinalizer, Admission, Rejects,
         Inserts, Replaces, PutFails, PersistsReplaced,
         PredecessorsEnd, WaitTimesOut, SettlesReplaced, Launches, RequestCancelled, MarksFailed,
         PersistsFailed, Requests, WaiterCancelled, storeVars
<1>. QED
  BY <1>1, <1>2, <1>3, <1>4 DEF Next, Idle, Process

\* No write still to be made becomes wrong.
LEMMA LateWritesStep ==
    ASSUME IInv, LateWrites, [Next]_vars
    PROVE  LateWrites'
<1>1. CASE ProcessEnds
  BY <1>1 DEF ProcessEnds, LateWrites
<1>2. CASE ~ProcessEnds
  <2>. SUFFICES ASSUME NEW r \in Runs, NEW s \in Status \cup {"absent"}, <<r, s>> \in writes'
                PROVE  /\ status'[r] \in Terminal /\ s \in Terminal
                       /\ s = "success" => status'[r] = "success"
    BY DEF LateWrites
  <2>1. CASE <<r, s>> \in writes
    BY <1>2, <2>1, StatusKept DEF LateWrites, Terminal
  <2>2. CASE <<r, s>> \notin writes
    <3>1. proc = "draining" /\ r \in drain => status[r] # "absent"
      BY DEF IInv, Progress, RunProgress, TaskStatus, CancelStatus
    <3>2. status[r] \in Status \cup {"absent"}
      BY DEF IInv, TypeOK, RecordsOK
    <3>. QED
      BY <2>2, <3>1, <3>2, WriteSources DEF IInv, Status, Terminal
  <2>. QED
    BY <2>1, <2>2
<1>. QED
  BY <1>1, <1>2

\* A run whose process was lost stays lost.
LEMMA LostStays ==
    ASSUME TypeOK, [Next]_vars, NEW r \in Runs, adm[r] = "lost"
    PROVE  adm'[r] = "lost"
BY WorkerFrame, AdmissionFrame
   DEF Next, Requests, Cancels, WaiterCancelled, DelayedWrite, Process, ShutsDown, Drained,
       ProcessEnds, Boots, Idle, vars, admVars, TypeOK, RequestsOK

\* The status the finalizer writes is the one the run has, or was active while the process
\* shuts down.
LEMMA Concluded ==
    ASSUME IInv, NEW r \in Runs, pc[r] \in {"finlock", "finpersist"}
    PROVE  target[r] = status[r] \/ (target[r] \in Live /\ proc # "up")
BY DEF IInv, Progress, RunProgress, TaskStatus

\* A stored success is the success of a run that is remembered as one or was lost.
LEMMA SuccessRow ==
    ASSUME IInv, Kept, LateWrites, [Next]_vars, NEW r \in Runs, row'[r] = "success"
    PROVE  status'[r] = "success" \/ adm'[r] = "lost"
<1>1. status[r] = "success" \/ adm[r] = "lost"
  <2>1. CASE row'[r] = row[r]
    BY <2>1 DEF Kept
  <2>2. CASE row'[r] # row[r]
    BY <2>2, RowSources, Concluded DEF IInv, Kept, LateWrites, Outcome, Live
  <2>. QED
    BY <2>1, <2>2
<1>2. status[r] = "success" => adm[r] = "admitted"
  BY DEF IInv, Progress, RunProgress, TaskStatus, Exclusion, LaunchedOnly
<1>3. CASE ProcessEnds
  BY <1>1, <1>2, <1>3 DEF ProcessEnds
<1>4. CASE ~ProcessEnds
  BY <1>1, <1>4, StatusKept, LostStays DEF IInv
<1>. QED
  BY <1>3, <1>4

\* What Kept says of a run but for its row.
Output(r) ==
    /\ status[r] = "success" => r \in head[Thread(r)]
    /\ pc[r] \in {"lock", "persist"} /\ target[r] = "success" => r \in head[Thread(r)]
    /\ pc[r] = "persist" /\ target[r] = "success" => status[r] = "success"
    /\ pc[r] = "persist" /\ target[r] = "rollback" => status[r] = "error"
    /\ pc[r] = "rollback" => status[r] = "error"

\* A worker keeps its output while it may still become a success.
LEMMA WorkerOutput ==
    ASSUME IInv, Kept, NEW q \in Runs, Worker(q), NEW r \in Runs
    PROVE  Output(r)'
<1>. USE RunsAssumption DEF Output, IInv, TypeOK, RecordsOK, WorkersOK, StoresOK, Thread,
                            recordVars, workerVars
<1>1. Output(r)
  BY DEF Kept
<1>2. r \in head[Thread(r)] /\ (r # q \/ status[q] # "error") => r \in head'[Thread(r)]
  <2>1. pc[q] = "rollback" => status[q] = "error"
    BY DEF Kept
  <2>. QED
    BY <2>1, WorkerHead
<1>3. CASE r # q
  <2>1. status'[r] = status[r] /\ pc'[r] = pc[r] /\ target'[r] = target[r]
    BY <1>3 DEF Worker, NeverRuns, Skips, Starts, GetsLock, PersistsStatus, Captures, AgentWrites,
            AgentSwallows, StreamEnds, StreamRaises, CancelledInBody, CancelledInHandler, RollsBack,
            Concludes, GetsLockAtEnd, Completes, Finishes, CancelledInFinalizer, SetStatus, TaskEnds
  <2>. QED
    BY <1>1, <1>2, <1>3, <2>1
<1>4. CASE r = q
  <2>. USE <1>1, <1>4
  <2>1. CASE NeverRuns(r) \/ Skips(r) \/ Finishes(r)
    BY <2>1 DEF NeverRuns, Skips, Finishes, TaskEnds
  <2>2. CASE Starts(r)
    BY <2>2 DEF Starts, SetStatus, Outcome
  <2>3. CASE GetsLock(r)
    BY <2>3 DEF GetsLock, SetStatus, Outcome
  <2>4. CASE PersistsStatus(r)
    BY <2>4 DEF PersistsStatus, AfterStatus
  <2>5. CASE Captures(r) \/ AgentWrites(r) \/ AgentSwallows(r)
    BY <2>5, <1>2 DEF Captures, AgentWrites, AgentSwallows
  <2>9. CASE \/ CancelledInHandler(r) \/ Concludes(r) \/ GetsLockAtEnd(r) \/ Completes(r)
            \/ CancelledInFinalizer(r)
    <3>1. /\ pc'[r] \notin {"lock", "persist", "rollback"} /\ status' = status
      BY <2>9 DEF CancelledInHandler, Concludes, GetsLockAtEnd, Completes, CancelledInFinalizer,
                  TaskEnds, AtCompletion
    <3>. QED
      BY <1>2, <3>1
  <2>6. CASE StreamEnds(r) \/ StreamRaises(r)
    BY <2>6 DEF StreamEnds, StreamRaises, SetStatus, Outcome, StreamOutcomes, AbortTarget,
                GraphOutcomes, Progress, RunProgress, TaskStatus
  <2>7. CASE CancelledInBody(r)
    <3>1. status[r] # "success"
      BY <2>7 DEF CancelledInBody, Progress, RunProgress, CancelStatus, Aborts, AbortedNeverSucceeds
    <3>2. /\ target'[r] \in {"rollback", "interrupted"} /\ pc'[r] \in {"lock", "persist"}
          /\ pc'[r] = "persist" => status'[r] = Outcome(target'[r])
          /\ status'[r] \in {status[r], Outcome(target'[r])}
      BY <2>7 DEF CancelledInBody, SetStatus, AbortTarget
    <3>. QED
      BY <3>1, <3>2 DEF Outcome
  <2>8. CASE RollsBack(r)
    BY <2>8 DEF RollsBack
  <2>. QED
    BY <2>1, <2>2, <2>3, <2>4, <2>5, <2>6, <2>7, <2>8, <2>9 DEF Worker
<1>. QED
  BY <1>3, <1>4

\* Nobody else makes a success of a run or touches the checkpoints.
LEMMA OthersOutput ==
    ASSUME IInv, Kept, [Next]_vars, ~(\E q \in Runs : Worker(q)), NEW r \in Runs
    PROVE  Output(r)'
<1>. USE DEF Output, Thread
<1>1. CASE ProcessEnds
  BY <1>1 DEF ProcessEnds
<1>2. CASE ~ProcessEnds
  <2>1. UNCHANGED head /\ UNCHANGED target /\ (pc'[r] = pc[r] \/ pc'[r] = "start")
    BY <1>2, AdmissionFrame
       DEF Next, Requests, Cancels, WaiterCancelled, DelayedWrite, Process, ShutsDown, Drained,
           Boots, Idle, vars, workerVars, IInv
  <2>2. status'[r] = "success" => status[r] = "success"
    <3>1. ASSUME NEW q \in Runs, Admission(q), status'[r] = "success" PROVE status[r] = "success"
      BY <3>1 DEF Admission, Rejects, Inserts, Replaces, PutFails, PersistsReplaced,
           PredecessorsEnd, WaitTimesOut, SettlesReplaced, Launches, RequestCancelled, MarksFailed,
           PersistsFailed, FailsAdmission, recordVars, IInv, TypeOK, RecordsOK
    <3>2. ASSUME \/ \E q \in Runs, s \in Strategies : Requests(q, s)
                 \/ \E q \in Runs, a \in Actions : Cancels(q, a)
                 \/ \E q \in Runs : WaiterCancelled(q)
                 \/ DelayedWrite \/ Process \/ Idle \/ UNCHANGED vars,
                 status'[r] = "success"
          PROVE  status[r] = "success"
      BY <1>2, <3>2 DEF Requests, Cancels, WaiterCancelled, DelayedWrite, Process, ShutsDown,
           Drained, Boots, Idle, vars, recordVars, IInv, TypeOK, RecordsOK
    <3>. QED
      BY <3>1, <3>2 DEF Next
  <2>3. status[r] \in {"success", "error"} => status'[r] = status[r]
    BY <1>2, StatusKept
  <2>. QED
    BY <2>1, <2>2, <2>3 DEF Kept
<1>. QED
  BY <1>1, <1>2

\* A success keeps its output.
LEMMA KeptStep ==
    ASSUME IInv, Kept, LateWrites, [Next]_vars
    PROVE  Kept'
<1>1. \A r \in Runs : Output(r)'
  BY WorkerOutput, OthersOutput
<1>. QED
  BY <1>1, SuccessRow DEF Kept, Output

\* The stored history reports no success whose output is gone.
LEMMA SuccessKeptStep ==
    ASSUME IInv, SuccessKept, Kept, LateWrites, [Next]_vars
    PROVE  SuccessKept'
<1>. SUFFICES ASSUME NEW r \in Runs, row'[r] = "success"
              PROVE  r \in head'[Thread(r)]
  BY DEF SuccessKept, Thread
<1>1. CASE status'[r] = "success"
  BY <1>1, KeptStep DEF Kept, Thread
<1>2. CASE adm'[r] = "lost" /\ status'[r] # "success"
  <2>1. r \in head[Thread(r)]
    <3>1. CASE row'[r] = row[r]
      BY <3>1 DEF SuccessKept
    <3>2. CASE row'[r] # row[r]
      BY <3>2, RowSources, Concluded DEF IInv, Kept, LateWrites, Outcome, SuccessKept, Live
    <3>. QED
      BY <3>1, <3>2
  <2>2. ASSUME NEW q \in Runs, Worker(q)
        PROVE  q # r
    BY <1>2, <2>2, WorkerFrame DEF IInv, Exclusion, LaunchedOnly, TaskAlive
  <2>3. \/ UNCHANGED head
        \/ \E q \in Runs : Worker(q)
    BY AdmissionFrame
       DEF Next, Requests, Cancels, WaiterCancelled, DelayedWrite, Process, ShutsDown, Drained,
           ProcessEnds, Boots, Idle, vars, IInv
  <2>. QED
    BY <2>1, <2>2, <2>3, WorkerHead, RunsAssumption DEF IInv, TypeOK, StoresOK, Thread
<1>. QED
  BY <1>1, <1>2, SuccessRow

\* A request goes on replacing runs of its thread, which stay over.
LEMMA ReplacingStep ==
    ASSUME IInv, Replacing, [Next]_vars
    PROVE  Replacing'
<1>. USE RunsAssumption DEF Replacing, IInv, TypeOK, RequestsOK, AdmOver, Thread
<1>1. CASE ProcessEnds
  BY <1>1 DEF ProcessEnds
<1>2. ASSUME ~ProcessEnds, NEW r \in Runs, status[r] \in {"interrupted", "error"}
      PROVE  status'[r] \in {"interrupted", "error"}
  BY <1>2, StatusKept
<1>3. ASSUME NEW q \in Runs, Admission(q)
      PROVE  Replacing'
  <2>1. ~ProcessEnds
    BY <1>3 DEF ProcessEnds, Admission, Rejects, Inserts, Replaces, PutFails, PersistsReplaced,
           PredecessorsEnd, WaitTimesOut, SettlesReplaced, Launches, RequestCancelled, MarksFailed,
           PersistsFailed, procVars, ProcessOK
  <2>2. CASE Rejects(q) \/ PutFails(q) \/ Launches(q) \/ PersistsFailed(q)
    BY <1>2, <2>1, <2>2 DEF Rejects, PutFails, Launches, PersistsFailed, Leaves
  <2>3. CASE Inserts(q)
    BY <1>2, <2>1, <2>3 DEF Inserts, InFlightOn, InFlight, Progress, RunProgress, RequestStatus,
                            Exclusion, LaunchedOnly, TaskAlive, Live
  <2>4. CASE Replaces(q)
    BY <1>2, <2>1, <2>4 DEF Replaces, AfterPersist, AfterWait
  <2>5. CASE PersistsReplaced(q)
    BY <1>2, <2>1, <2>5 DEF PersistsReplaced, AfterPersist, AfterWait
  <2>6. CASE PredecessorsEnd(q) \/ SettlesReplaced(q) \/ MarksFailed(q)
    BY <1>2, <2>1, <2>6 DEF PredecessorsEnd, SettlesReplaced, MarksFailed, AfterWait
  <2>7. CASE WaitTimesOut(q) \/ RequestCancelled(q)
    BY <1>2, <2>1, <2>7 DEF WaitTimesOut, RequestCancelled, FailsAdmission, Leaves
  <2>. QED
    BY <1>3, <2>2, <2>3, <2>4, <2>5, <2>6, <2>7 DEF Admission
<1>4. ASSUME NEW q \in Runs, NEW s \in Strategies, Requests(q, s)
      PROVE  Replacing'
  <2>1. ~ProcessEnds
    BY <1>4 DEF ProcessEnds, Requests, procVars
  <2>. QED
    BY <1>2, <1>4, <2>1 DEF Requests
<1>5. CASE ~ProcessEnds /\ UNCHANGED <<adm, seen, replaced, todo>>
  BY <1>2, <1>5
<1>6. \/ ProcessEnds
      \/ \E q \in Runs : Admission(q) \/ \E s \in Strategies : Requests(q, s)
      \/ UNCHANGED <<adm, seen, replaced, todo>>
  BY DEF Next, Worker, NeverRuns, Skips, Starts, GetsLock, PersistsStatus, Captures, AgentWrites,
         AgentSwallows, StreamEnds, StreamRaises, CancelledInBody, CancelledInHandler, RollsBack,
         Concludes, GetsLockAtEnd, Completes, Finishes, CancelledInFinalizer, Cancels,
         WaiterCancelled, DelayedWrite, Process, ShutsDown, Drained, Boots, Idle, vars, admVars
<1>. QED
  BY <1>1, <1>3, <1>4, <1>5, <1>6

\* Failures are counted, and the process serves requests again only by starting.
LEMMA CalmStep ==
    ASSUME TypeOK, [Next]_vars
    PROVE  /\ faults' = 0 => faults = 0
           /\ proc' = "up" => proc = "up" \/ Boots
<1>. USE BoundsAssumption DEF TypeOK, ProcessOK, procVars, vars
<1>0. /\ Fault => faults' = faults + 1
      /\ \A x, s : WriteRow(x, s) => faults' \in {faults, faults + 1}
      /\ faults \in Nat
  BY DEF Fault, WriteRow
<1>1. ASSUME NEW q \in Runs, Worker(q)
      PROVE  faults' \in {faults, faults + 1} /\ proc' = proc
  BY <1>0, <1>1
     DEF Worker, NeverRuns, Skips, Starts, GetsLock, PersistsStatus, Captures, AgentWrites,
         AgentSwallows, StreamEnds, StreamRaises, CancelledInBody, CancelledInHandler, RollsBack,
         Concludes, GetsLockAtEnd, Completes, Finishes, CancelledInFinalizer
<1>2. ASSUME NEW q \in Runs, Admission(q)
      PROVE  faults' \in {faults, faults + 1} /\ proc' = proc
  BY <1>0, <1>2 DEF Admission, Rejects, Inserts, Replaces, PutFails, PersistsReplaced,
         PredecessorsEnd, WaitTimesOut, SettlesReplaced, Launches, RequestCancelled, MarksFailed,
         PersistsFailed
<1>3. ASSUME ~(\E q \in Runs : Worker(q) \/ Admission(q))
      PROVE  faults' \in {faults, faults + 1} /\ (proc' = "up" => proc = "up" \/ Boots)
  BY <1>0, <1>3 DEF Next, Requests, Cancels, WaiterCancelled, DelayedWrite, Process, ShutsDown,
         Drained, ProcessEnds, Boots, Idle
<1>. QED
  BY <1>0, <1>1, <1>2, <1>3

\* The status of a run without task or request that is over does not change.
LEMMA OverStays ==
    ASSUME TypeOK, [Next]_vars, ~ProcessEnds, NEW a \in Runs,
           ~TaskAlive(a), adm[a] \in AdmOver, status[a] \notin Live
    PROVE  status'[a] = status[a]
<1>. USE DEF TypeOK, RecordsOK, recordVars, AdmOver
<1>1. ASSUME NEW q \in Runs, Worker(q)
      PROVE  status'[a] = status[a]
  <2>1. q # a
    BY <1>1, WorkerFrame
  <2>. QED
    BY <1>1, <2>1 DEF Worker, NeverRuns, Skips, Starts, GetsLock, PersistsStatus, Captures,
         AgentWrites, AgentSwallows, StreamEnds, StreamRaises, CancelledInBody,
         CancelledInHandler, RollsBack, Concludes, GetsLockAtEnd, Completes, Finishes,
         CancelledInFinalizer, SetStatus
<1>2. ASSUME NEW q \in Runs, Admission(q)
      PROVE  status'[a] = status[a]
  BY <1>2 DEF Admission, Rejects, Inserts, Replaces, PutFails, PersistsReplaced, PredecessorsEnd,
         WaitTimesOut, SettlesReplaced, Launches, RequestCancelled, MarksFailed, PersistsFailed,
         FailsAdmission, Abortable
<1>3. CASE \/ \E q \in Runs, s \in Strategies : Requests(q, s)
           \/ \E q \in Runs, s \in Actions : Cancels(q, s)
           \/ \E q \in Runs : WaiterCancelled(q)
           \/ DelayedWrite \/ ShutsDown \/ Drained \/ Boots \/ UNCHANGED vars
  BY <1>3 DEF Requests, Cancels, WaiterCancelled, DelayedWrite, ShutsDown, Drained, Boots, vars
<1>. QED
  BY <1>1, <1>2, <1>3 DEF Next, Idle, Process

\* What a request does with the runs it replaces.
LEMMA ReplacerFrame ==
    ASSUME TypeOK, [Next]_vars, NEW r \in Runs, adm'[r] \in Replacer
    PROVE  \/ Replaces(r)
           \/ PersistsReplaced(r) /\ adm[r] \in Replacer /\ replaced'[r] = replaced[r]
           \/ PredecessorsEnd(r) /\ adm[r] \in Replacer /\ replaced'[r] = replaced[r]
           \/ SettlesReplaced(r) /\ adm[r] \in Replacer /\ replaced'[r] = replaced[r]
           \/ adm'[r] = adm[r] /\ replaced'[r] = replaced[r] /\ todo'[r] = todo[r]
<1>. USE DEF TypeOK, RequestsOK, Replacer
<1>1. ASSUME NEW q \in Runs, Admission(q), q # r
      PROVE  adm'[r] = adm[r] /\ replaced'[r] = replaced[r] /\ todo'[r] = todo[r]
  BY <1>1 DEF Admission, Rejects, Inserts, Replaces, PutFails, PersistsReplaced, PredecessorsEnd,
         WaitTimesOut, SettlesReplaced, Launches, RequestCancelled, MarksFailed, PersistsFailed,
         FailsAdmission, Leaves
<1>2. CASE PersistsReplaced(r) \/ PredecessorsEnd(r) \/ SettlesReplaced(r)
  <2>1. adm[r] \in Replacer /\ replaced'[r] = replaced[r]
    BY <1>2 DEF PersistsReplaced, PredecessorsEnd, SettlesReplaced
  <2>. QED
    BY <1>2, <2>1
<1>3. CASE \/ Rejects(r) \/ Inserts(r) \/ PutFails(r) \/ WaitTimesOut(r) \/ Launches(r)
           \/ RequestCancelled(r) \/ MarksFailed(r) \/ PersistsFailed(r)
  BY <1>3 DEF Rejects, Inserts, PutFails, WaitTimesOut, Launches, RequestCancelled, MarksFailed,
              PersistsFailed, FailsAdmission, Leaves
<1>4. ASSUME NEW q \in Runs, NEW s \in Strategies, Requests(q, s)
      PROVE  adm'[r] = adm[r] /\ replaced'[r] = replaced[r] /\ todo'[r] = todo[r]
  BY <1>4 DEF Requests
<1>5. CASE ProcessEnds
  BY <1>5 DEF ProcessEnds
<1>6. \/ \E q \in Runs : Admission(q) \/ \E s \in Strategies : Requests(q, s)
      \/ ProcessEnds
      \/ UNCHANGED <<adm, replaced, todo>>
  BY DEF Next, Worker, NeverRuns, Skips, Starts, GetsLock, PersistsStatus, Captures, AgentWrites,
         AgentSwallows, StreamEnds, StreamRaises, CancelledInBody, CancelledInHandler, RollsBack,
         Concludes, GetsLockAtEnd, Completes, Finishes, CancelledInFinalizer, Cancels,
         WaiterCancelled, DelayedWrite, Process, ShutsDown, Drained, Boots, Idle, vars, admVars
<1>. QED
  BY <1>1, <1>2, <1>3, <1>4, <1>5, <1>6 DEF Admission

\* While a request replaces runs, nobody else changes what is stored of them.
LEMMA OwnWritesStep ==
    ASSUME IInv, LateWrites, Replacing, OwnWrites, [Next]_vars
    PROVE  OwnWrites'
<1>. SUFFICES ASSUME faults' = 0, proc' = "up", NEW r \in Runs, NEW a \in Runs,
                     adm'[r] \in Replacer, a \in replaced'[r]
              PROVE  /\ \A s \in Status \cup {"absent"} : <<a, s>> \notin writes'
                     /\ Stored(r, a)' => row'[a] = status'[a]
  BY DEF OwnWrites, Replacer
<1>. USE DEF IInv
<1>1. CASE Replaces(r)
  <2>1. a \in seen[r] /\ status[a] \in Live /\ UNCHANGED writes /\ adm'[r] = "persist"
    BY <1>1 DEF Replaces, Abortable, TypeOK, RequestsOK
  <2>. QED
    BY <2>1 DEF LateWrites, Live, Terminal, Stored
<1>2. CASE ~Replaces(r)
  <2>1. adm[r] \in Replacer /\ a \in replaced[r]
    BY <1>2, ReplacerFrame
  <2>2. proc = "up" /\ faults = 0 /\ ~Boots /\ ~ProcessEnds
    <3>1. proc # "down"
      BY <2>1 DEF Progress, RunProgress, CancelStatus, Replacer, AdmOver
    <3>. QED
      BY <3>1, CalmStep DEF Boots, ProcessEnds
  <2>3. a # r /\ Thread(a) = Thread(r) /\ status[a] \in {"interrupted", "error"}
    BY <2>1 DEF Replacing
  <2>4. \A s \in Status \cup {"absent"} : <<a, s>> \notin writes
    BY <2>1, <2>2 DEF OwnWrites, Replacer
  <2>5. \A s \in Status \cup {"absent"} : <<a, s>> \notin writes'
    BY <2>3, <2>4, WriteSources DEF Live
  <2>6. adm[a] \in AdmOver
    BY <2>1, <2>3 DEF Exclusion, OneRequest, Replacer, AdmOver
  <2>7. adm[r] \in {"settle", "announce"} => status'[a] = status[a]
    BY <2>2, <2>3, <2>6, OverStays DEF Exclusion, Quiet, Live
  <2>8. CASE Stored(r, a)
    <3>1. adm[r] \in {"settle", "announce"} /\ row[a] = status[a] /\ ~TaskAlive(a)
      BY <2>1, <2>2, <2>3, <2>8 DEF Stored, OwnWrites, Replacer, Exclusion, Quiet
    <3>2. ASSUME NEW q \in Runs, a \in todo[q]
          PROVE  q = r
      BY <2>1, <2>3, <3>2 DEF Replacing, Exclusion, OneRequest, Replacer, AdmOver
    <3>3. row'[a] = row[a]
      <4>1. SUFFICES ASSUME row'[a] # row[a]
                     PROVE  FALSE
        OBVIOUS
      <4>. QED
        BY <2>2, <2>4, <2>6, <3>1, <3>2, <4>1, RowSources DEF TaskAlive, AdmOver
    <3>. QED
      BY <2>5, <2>7, <3>1, <3>3
  <2>9. CASE ~Stored(r, a)
    <3>1. CASE PersistsReplaced(r)
      BY <2>1, <2>5, <3>1 DEF PersistsReplaced, AfterPersist, AfterWait, Stored, TypeOK, RequestsOK
    <3>2. CASE PredecessorsEnd(r)
      BY <2>1, <2>5, <3>2 DEF PredecessorsEnd, AfterWait, Stored, Replacing, TypeOK, RequestsOK
    <3>3. CASE SettlesReplaced(r)
      <4>1. PICK x \in todo[r] : /\ WriteRow(x, status[x])
                                 /\ todo' = [todo EXCEPT ![r] = @ \ {x}]
                                 /\ adm' = [adm EXCEPT ![r] = IF todo[r] = {x} THEN "announce" ELSE @]
        BY <3>3 DEF SettlesReplaced
      <4>2. adm[r] = "settle" /\ a \in todo[r]
        BY <2>9, <3>3 DEF SettlesReplaced, Stored
      <4>3. row' = [row EXCEPT ![x] = status[x]]
        BY <2>2, <4>1 DEF WriteRow, Fault
      <4>4. Stored(r, a)' => a = x
        BY <4>1, <4>2 DEF Stored, TypeOK, RequestsOK
      <4>. QED
        BY <2>5, <2>7, <4>2, <4>3, <4>4 DEF TypeOK, StoresOK
    <3>4. CASE adm'[r] = adm[r] /\ replaced'[r] = replaced[r] /\ todo'[r] = todo[r]
      BY <2>5, <2>9, <3>4 DEF Stored
    <3>. QED
      BY <1>2, <3>1, <3>2, <3>3, <3>4, ReplacerFrame
  <2>. QED
    BY <2>8, <2>9
<1>. QED
  BY <1>1, <1>2

\* A request is abandoned by a cancellation only, a record removed by a failure only.
LEMMA FailuresOnly ==
    ASSUME TypeOK, [Next]_vars, faults' = 0, NEW r \in Runs
    PROVE  /\ adm'[r] = "abandoned" => adm[r] = "abandoned"
           /\ ~PutFails(r)
           /\ ~ProcessEnds /\ status'[r] = "absent" => status[r] = "absent"
<1>. USE BoundsAssumption DEF TypeOK, RecordsOK, RequestsOK, recordVars, admVars
<1>1. ~Fault
  BY DEF Fault, ProcessOK
<1>2. ASSUME NEW q \in Runs, Worker(q)
      PROVE  adm'[r] = adm[r] /\ (status'[r] = "absent" => status[r] = "absent")
  <2>1. adm' = adm
    BY <1>2, WorkerFrame
  <2>2. /\ \A s \in Targets : Outcome(s) # "absent"
        /\ {"running", "success", "error", "interrupted", "rollback", target[q]} \subseteq Targets
    BY DEF Outcome, Targets, Status, Live, Terminal, WorkersOK
  <2>3. \A s \in Targets : SetStatus(q, s) => (status'[r] = "absent" => status[r] = "absent")
    BY <2>2 DEF SetStatus
  <2>4. status'[r] = "absent" => status[r] = "absent"
    BY <1>2, <2>2, <2>3 DEF Worker, NeverRuns, Skips, Starts, GetsLock, PersistsStatus, Captures,
         AgentWrites, AgentSwallows, StreamEnds, StreamRaises, CancelledInBody, CancelledInHandler,
         RollsBack, Concludes, GetsLockAtEnd, Completes, Finishes, CancelledInFinalizer,
         StreamOutcomes, GraphOutcomes, AbortTarget
  <2>. QED
    BY <2>1, <2>4
<1>3. ASSUME NEW q \in Runs, Admission(q)
      PROVE  /\ adm'[r] = "abandoned" => adm[r] = "abandoned"
             /\ status'[r] = "absent" => status[r] = "absent"
  BY <1>1, <1>3 DEF Admission, Rejects, Inserts, Replaces, PutFails, PersistsReplaced,
         PredecessorsEnd, WaitTimesOut, SettlesReplaced, Launches, RequestCancelled, MarksFailed,
         PersistsFailed, FailsAdmission, Leaves, AfterPersist, AfterWait
<1>4. ASSUME ~(\E q \in Runs : Worker(q) \/ Admission(q))
      PROVE  /\ adm'[r] = "abandoned" => adm[r] = "abandoned"
             /\ ~ProcessEnds /\ status'[r] = "absent" => status[r] = "absent"
  BY <1>4 DEF Next, Requests, Cancels, WaiterCancelled, DelayedWrite, Process, ShutsDown, Drained,
         ProcessEnds, Boots, Idle, vars
<1>5. ~PutFails(r)
  BY <1>1 DEF PutFails
<1>. QED
  BY <1>2, <1>3, <1>4, <1>5

\* Whoever makes a run over owes its row the outcome.
LEMMA OverIsOwed ==
    ASSUME IInv, Replacing, [Next]_vars, proc' = "up", faults' = 0, NEW r \in Runs,
           status[r] \in Live, status'[r] \notin Live
    PROVE  Owed(r)'
<1>. USE DEF IInv, TypeOK, RecordsOK, RequestsOK, WorkersOK, recordVars
<1>1. ASSUME NEW q \in Runs, Worker(q)
      PROVE  pc'[r] \in {"lock", "persist"}
  BY <1>1 DEF Worker, NeverRuns, Skips, Starts, GetsLock, PersistsStatus, Captures, AgentWrites,
         AgentSwallows, StreamEnds, StreamRaises, CancelledInBody, CancelledInHandler, RollsBack,
         Concludes, GetsLockAtEnd, Completes, Finishes, CancelledInFinalizer, SetStatus
<1>2. ASSUME NEW q \in Runs, Admission(q)
      PROVE  adm'[r] = "fail_persist" \/ (adm'[q] = "persist" /\ r \in todo'[q])
  <2>1. CASE Replaces(q)
    BY <2>1 DEF Replaces
  <2>2. CASE WaitTimesOut(q) \/ RequestCancelled(q) \/ MarksFailed(q)
    BY <2>2 DEF WaitTimesOut, RequestCancelled, MarksFailed, FailsAdmission
  <2>3. CASE \/ Rejects(q) \/ Inserts(q) \/ PersistsReplaced(q) \/ PredecessorsEnd(q)
             \/ SettlesReplaced(q) \/ Launches(q) \/ PersistsFailed(q)
    BY <2>3 DEF Rejects, Inserts, PersistsReplaced, PredecessorsEnd, SettlesReplaced, Launches,
                PersistsFailed, Live
  <2>4. CASE PutFails(q)
    BY <2>4, FailuresOnly
  <2>. QED
    BY <1>2, <2>1, <2>2, <2>3, <2>4 DEF Admission
<1>3. ASSUME NEW q \in Runs, NEW a \in Actions, Cancels(q, a)
      PROVE  "interrupted" \in Status /\ <<r, "interrupted">> \in writes'
  BY <1>3 DEF Cancels, Status, Terminal
<1>4. \/ \E q \in Runs : Worker(q) \/ Admission(q)
      \/ \E q \in Runs, a \in Actions : Cancels(q, a)
  BY DEF Next, Requests, WaiterCancelled, DelayedWrite, Process, ShutsDown, Drained, ProcessEnds,
         Boots, Idle, vars
<1>. QED
  BY <1>1, <1>2, <1>3, <1>4 DEF Owed

\* An owed outcome is stored, or still owed.
LEMMA OwedStays ==
    ASSUME IInv, LateWrites, [Next]_vars, proc = "up", proc' = "up", faults' = 0, NEW r \in Runs,
           Owed(r), status[r] \notin Live, row'[r] \in Live
    PROVE  Owed(r)'
<1>. USE DEF IInv, TypeOK
<1>0. ~Fault /\ ~ProcessEnds
  BY BoundsAssumption DEF Fault, ProcessOK, ProcessEnds
<1>1. ASSUME NEW s \in Status \cup {"absent"}, <<r, s>> \in writes
      PROVE  <<r, s>> \in writes'
  <2>1. CASE DelayedWrite
    <3>1. PICK w \in writes : WriteRow(w[1], w[2]) /\ writes' = writes \ {w}
      BY <2>1 DEF DelayedWrite
    <3>2. w # <<r, s>>
      <4>1. SUFFICES ASSUME w = <<r, s>>
                     PROVE  row'[r] = s
        BY <1>1 DEF LateWrites, Live, Terminal
      <4>. QED
        BY <1>0, <3>1, <4>1 DEF WriteRow, StoresOK
    <3>. QED
      BY <1>1, <3>1, <3>2
  <2>2. CASE ~DelayedWrite
    <3>1. ASSUME NEW q \in Runs, Worker(q) PROVE writes' = writes
      BY <3>1 DEF Worker, NeverRuns, Skips, Starts, GetsLock, PersistsStatus, Captures,
           AgentWrites, AgentSwallows, StreamEnds, StreamRaises, CancelledInBody,
           CancelledInHandler, RollsBack, Concludes, GetsLockAtEnd, Completes, Finishes,
           CancelledInFinalizer, storeVars
    <3>2. ASSUME NEW q \in Runs, Admission(q) PROVE writes' = writes
      BY <3>2 DEF Admission, Rejects, Inserts, Replaces, PutFails, PersistsReplaced,
           PredecessorsEnd, WaitTimesOut, SettlesReplaced, Launches, RequestCancelled,
           MarksFailed, PersistsFailed, storeVars
    <3>3. ASSUME \/ \E q \in Runs, t \in Strategies : Requests(q, t)
                 \/ \E q \in Runs, a \in Actions : Cancels(q, a)
                 \/ \E q \in Runs : WaiterCancelled(q)
                 \/ Process \/ Idle \/ UNCHANGED vars
          PROVE  writes \subseteq writes'
      BY <1>0, <3>3 DEF Requests, Cancels, WaiterCancelled, Process, ShutsDown, Drained, Boots,
            Idle, vars, storeVars
    <3>. QED
      BY <1>1, <2>2, <3>1, <3>2, <3>3 DEF Next
  <2>. QED
    BY <2>1, <2>2
<1>2. ASSUME NEW q \in Runs, adm[q] = "persist", r \in todo[q]
      PROVE  adm'[q] = "persist" /\ r \in todo'[q]
  <2>1. CASE Admission(q)
    <3>1. PersistsReplaced(q)
      BY <1>0, <1>2, <2>1
         DEF Admission, Rejects, Inserts, Replaces, PutFails, PredecessorsEnd, WaitTimesOut,
             SettlesReplaced, Launches, RequestCancelled, MarksFailed, PersistsFailed
    <3>2. PICK a \in todo[q] :
               /\ WriteRow(a, "interrupted")
               /\ IF todo[q] = {a}
                  THEN /\ todo' = [todo EXCEPT ![q] = replaced[q]]
                       /\ adm' = [adm EXCEPT ![q] = AfterPersist(q, replaced[q])]
                  ELSE todo' = [todo EXCEPT ![q] = @ \ {a}] /\ UNCHANGED adm
      BY <3>1 DEF PersistsReplaced
    <3>3. a # r
      BY <1>0, <3>2 DEF WriteRow, StoresOK, Live
    <3>. QED
      BY <1>2, <3>2, <3>3 DEF RequestsOK
  <2>2. ASSUME NEW x \in Runs, Worker(x)
        PROVE  UNCHANGED <<adm, todo>>
    BY <2>2 DEF Worker, NeverRuns, Skips, Starts, GetsLock, PersistsStatus, Captures, AgentWrites,
           AgentSwallows, StreamEnds, StreamRaises, CancelledInBody, CancelledInHandler, RollsBack,
           Concludes, GetsLockAtEnd, Completes, Finishes, CancelledInFinalizer, admVars
  <2>3. ASSUME NEW x \in Runs, Admission(x), x # q
        PROVE  adm'[q] = adm[q] /\ todo'[q] = todo[q]
    BY <2>3 DEF Admission, Rejects, Inserts, Replaces, PutFails, PersistsReplaced,
           PredecessorsEnd, WaitTimesOut, SettlesReplaced, Launches, RequestCancelled,
           MarksFailed, PersistsFailed, FailsAdmission, Leaves, RequestsOK
  <2>4. ASSUME ~(\E x \in Runs : Worker(x) \/ Admission(x))
        PROVE  adm'[q] = adm[q] /\ todo'[q] = todo[q]
    BY <1>0, <1>2, <2>4 DEF Next, Requests, Cancels, WaiterCancelled, DelayedWrite, Process,
                            ShutsDown, Drained, Boots, Idle, vars, admVars, RequestsOK
  <2>. QED
    BY <1>2, <2>1, <2>2, <2>3, <2>4
<1>3. ASSUME pc[r] \in {"lock", "persist", "capture", "stream", "rollback", "completion",
                        "finlock", "finpersist"}
      PROVE  pc'[r] \in {"lock", "persist", "capture", "stream", "rollback", "completion",
                         "finlock", "finpersist"}
  <2>1. CASE Worker(r)
    <3>1. ~Completes(r)
      BY <1>0, Concluded DEF Completes, WriteRow, StoresOK
    <3>2. ~CancelledInFinalizer(r)
      <4>1. CancelledInFinalizer(r) => faults = 0 /\ ~Interruptible(r)
        BY DEF CancelledInFinalizer, Interruptible
      <4>. QED
        BY <4>1 DEF CancelledInFinalizer, Progress, RunProgress, CancelStatus
    <3>3. CASE GetsLock(r) \/ Starts(r) \/ StreamEnds(r) \/ StreamRaises(r) \/ CancelledInBody(r)
      BY <3>3 DEF GetsLock, Starts, StreamEnds, StreamRaises, CancelledInBody, SetStatus, WorkersOK
    <3>4. CASE \/ PersistsStatus(r) \/ Captures(r) \/ AgentWrites(r) \/ AgentSwallows(r)
              \/ CancelledInHandler(r) \/ RollsBack(r) \/ Concludes(r) \/ GetsLockAtEnd(r)
      BY <1>3, <3>4 DEF PersistsStatus, Captures, AgentWrites, AgentSwallows, CancelledInHandler,
           RollsBack, Concludes, GetsLockAtEnd, AfterStatus, AtCompletion, WorkersOK, workerVars
    <3>5. ~NeverRuns(r) /\ ~Skips(r) /\ ~Finishes(r)
      BY <1>3 DEF NeverRuns, Skips, Finishes
    <3>. QED
      BY <2>1, <3>1, <3>2, <3>3, <3>4, <3>5 DEF Worker
  <2>2. ASSUME NEW q \in Runs, Worker(q), q # r
        PROVE  pc'[r] = pc[r]
    BY <2>2, WorkerFrame
  <2>3. ASSUME NEW q \in Runs, Admission(q)
        PROVE  pc'[r] = pc[r]
    BY <1>3, <2>3, AdmissionFrame DEF Exclusion, LaunchedOnly
  <2>4. ASSUME ~(\E q \in Runs : Worker(q) \/ Admission(q))
        PROVE  pc'[r] = pc[r]
    BY <1>0, <2>4 DEF Next, Requests, Cancels, WaiterCancelled, DelayedWrite, Process, ShutsDown,
                      Drained, Boots, Idle, vars, workerVars
  <2>. QED
    BY <1>3, <2>1, <2>2, <2>3, <2>4
<1>4. ASSUME adm[r] \in {"failing", "fail_persist"}
      PROVE  adm'[r] \in {"failing", "fail_persist"}
  <2>1. CASE Admission(r)
    <3>1. MarksFailed(r) \/ PersistsFailed(r)
      BY <1>0, <1>4, <2>1
         DEF Admission, Rejects, Inserts, Replaces, PutFails, PersistsReplaced, PredecessorsEnd,
             WaitTimesOut, SettlesReplaced, Launches, RequestCancelled
    <3>2. ~PersistsFailed(r)
      BY <1>0 DEF PersistsFailed, WriteRow, StoresOK, Live
    <3>. QED
      BY <3>1, <3>2 DEF MarksFailed, RequestsOK
  <2>2. ASSUME NEW q \in Runs, Worker(q)
        PROVE  adm'[r] = adm[r]
    BY <2>2, WorkerFrame
  <2>3. ASSUME NEW q \in Runs, Admission(q), q # r
        PROVE  adm'[r] = adm[r]
    BY <2>3, AdmissionFrame
  <2>4. ASSUME ~(\E q \in Runs : Worker(q) \/ Admission(q))
        PROVE  adm'[r] = adm[r]
    BY <1>0, <1>4, <2>4 DEF Next, Requests, Cancels, WaiterCancelled, DelayedWrite, Process,
                            ShutsDown, Drained, Boots, Idle, vars, admVars, RequestsOK
  <2>. QED
    BY <1>4, <2>1, <2>2, <2>3, <2>4
<1>. QED
  BY <1>1, <1>2, <1>3, <1>4 DEF Owed

\* Without failures every row is true, owed an outcome, or of a process that is down.
LEMMA SettlingStep ==
    ASSUME IInv, LateWrites, Replacing, Settling, [Next]_vars
    PROVE  Settling'
<1>. SUFFICES ASSUME faults' = 0, NEW r \in Runs
              PROVE  /\ adm'[r] # "abandoned"
                     /\ row'[r] \in Live /\ proc' # "down" => status'[r] # "absent"
                     /\ row'[r] \in Live /\ proc' = "up" => status'[r] \in Live \/ Owed(r)'
  BY DEF Settling
<1>. USE DEF IInv
<1>1. faults = 0 /\ ~Fault
  BY CalmStep, BoundsAssumption DEF Fault, TypeOK, ProcessOK
<1>2. adm'[r] # "abandoned"
  BY <1>1, FailuresOnly DEF Settling
<1>3. ASSUME row'[r] \in Live, proc' # "down"
      PROVE  ~Boots /\ ~ProcessEnds /\ proc # "down"
  <2>1. ~Boots
    BY <1>1, <1>3 DEF Boots, Orphans, Live, TypeOK, StoresOK
  <2>2. ~ProcessEnds
    BY <1>3 DEF ProcessEnds
  <2>3. proc # "down"
    <3>1. proc = "down" => \A q \in Runs : pc[q] = "none" /\ adm[q] \in AdmOver
      BY DEF Progress, RunProgress, CancelStatus
    <3>2. proc = "down" => ~(\E q \in Runs : Worker(q) \/ Admission(q))
      <4>1. \A q \in Runs : Admission(q) => adm[q] \notin AdmOver
        BY DEF Admission, Rejects, Inserts, Replaces, PutFails,
           PersistsReplaced, PredecessorsEnd, WaitTimesOut, SettlesReplaced, Launches,
           RequestCancelled, MarksFailed, PersistsFailed, AdmOver
      <4>2. \A q \in Runs : Worker(q) => pc[q] # "none"
        BY WorkerFrame DEF TaskAlive
      <4>. QED
        BY <3>1, <4>1, <4>2
    <3>. QED
      BY <1>3, <2>1, <2>2, <3>2 DEF Next, Requests, Cancels, WaiterCancelled, DelayedWrite,
         Process, ShutsDown, Drained, Idle, vars, procVars
  <2>. QED
    BY <2>1, <2>2, <2>3
<1>4. ASSUME row'[r] \in Live, proc' # "down"
      PROVE  status'[r] # "absent"
  <2>1. SUFFICES ASSUME status[r] = "absent"
                 PROVE  FALSE
    BY <1>3, <1>4, FailuresOnly
  <2>2. row'[r] # row[r]
    BY <1>1, <1>3, <1>4, <2>1 DEF Settling
  <2>. QED
    BY <1>3, <1>4, <2>1, <2>2, RowSources, FailuresOnly
       DEF Progress, RunProgress, RequestStatus, TaskStatus, LateWrites, Live, Terminal
<1>5. ASSUME row'[r] \in Live, proc' = "up"
      PROVE  status'[r] \in Live \/ Owed(r)'
  <2>1. ~Boots /\ ~ProcessEnds /\ proc = "up"
    BY <1>3, <1>5, CalmStep
  <2>. SUFFICES ASSUME status'[r] \notin Live
                PROVE  Owed(r)'
    OBVIOUS
  <2>2. CASE row'[r] = row[r]
    <3>1. status[r] \in Live \/ Owed(r)
      BY <1>1, <1>5, <2>1, <2>2 DEF Settling
    <3>. QED
      BY <1>5, <2>1, <3>1, OverIsOwed, OwedStays
  <2>3. CASE row'[r] # row[r]
    <3>1. CASE Replaces(r)
      <4>1. r \notin seen[r] /\ status[r] = "pending"
        BY <3>1 DEF Replaces, Replacing, Progress, RunProgress, RequestStatus
      <4>2. status'[r] = status[r]
        BY <3>1, <4>1 DEF Replaces
      <4>. QED
        BY <4>1, <4>2 DEF Live
    <3>2. CASE pc'[r] \in {"lock", "persist", "capture", "rollback", "completion"}
      BY <3>2 DEF Owed
    <3>3. ~(pc[r] = "finpersist" /\ row'[r] = target[r] /\ status'[r] = status[r])
      BY <1>5, <2>1, Concluded
    <3>. QED
      BY <1>5, <2>1, <2>3, <3>1, <3>2, <3>3, RowSources, FailuresOnly
         DEF Replacing, LateWrites, Live, Terminal
  <2>. QED
    BY <2>2, <2>3
<1>. QED
  BY <1>2, <1>4, <1>5

\* The promises about the stores hold at the start ...
LEMMA StoresInit == Init => Stores
BY DEF Init, Stores, SuccessKept, Kept, LateWrites, Replacing, OwnWrites, Settling, Live

\* ... and every step keeps them.
LEMMA StoresStep == IInv /\ Stores /\ [Next]_vars => Stores'
BY SuccessKeptStep, KeptStep, LateWritesStep, ReplacingStep, OwnWritesStep, SettlingStep DEF Stores

\* The stores keep what the requests, the workers and the shutdown promise of them.
THEOREM StoresKept == Spec => []Stores
<1>1. IInv /\ Stores /\ [Next]_vars => Stores'
  BY StoresStep
<1>. QED
  BY <1>1, StoresInit, Invariance, PTL DEF Spec

\* A run the history reports as a success has its output in the thread.
THEOREM SuccessStays == Spec => []SuccessKept
BY StoresKept, PTL DEF Stores

\* Without store failures every row that says pending or running is true or about to be
\* corrected, and none is left at rest.
THEOREM RowsSettled == Spec => []RowsSettle
<1>1. IInv /\ Stores => RowsSettle
  <2>. SUFFICES ASSUME IInv, Stores, faults = 0, NEW r \in Runs, row[r] \in Live
                PROVE  (proc # "down" => status[r] # "absent") /\ ~Settled
    BY DEF RowsSettle
  <2>1. proc # "down" => status[r] # "absent"
    BY DEF Stores, Settling
  <2>2. ASSUME Settled
        PROVE  FALSE
    <3>1. ~Owed(r)
      BY <2>2 DEF Settled, Owed, TaskAlive, AdmOver
    <3>2. status[r] \in Live /\ adm[r] # "abandoned"
      BY <2>2, <3>1 DEF Settled, Stores, Settling
    <3>3. adm[r] # "failing" /\ adm[r] \in AdmOver /\ ~TaskAlive(r) /\ proc = "up"
      BY <2>2 DEF Settled, AdmOver
    <3>. QED
      BY <3>2, <3>3 DEF IInv, Progress, RunProgress, RequestStatus, CancelStatus, TaskAlive,
            AdmOver, Live
  <2>. QED
    BY <2>1, <2>2
<1>. QED
  BY <1>1, Invariance, StoresKept, PTL

\* When a replacement is launched, the outcome of every run it replaced is stored.
THEOREM ReplacementsSettled == Spec => []ReplacementSettled
<1>1. IInv /\ Stores => ReplacementSettled
  BY DEF Stores, OwnWrites, Replacer, Stored, Replacing, ReplacementSettled, Terminal, IInv, TypeOK,
         RequestsOK
<1>. QED
  BY <1>1, Invariance, StoresKept, PTL
=============================================================================
