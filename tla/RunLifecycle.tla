---------------------------- MODULE RunLifecycle ----------------------------
(***************************************************************************)
(* The life of a run: the start request that admits it, the worker task    *)
(* that executes it, the cancellations that reach it, the status rows it   *)
(* leaves behind, and the checkpoints of the thread it writes.             *)
(*                                                                         *)
(* Everything runs on one asyncio loop, so a step is the code between two  *)
(* awaits.  A control state names the await at which the coroutine is      *)
(* suspended, and task.cancel() takes effect at such a state.              *)
(***************************************************************************)
EXTENDS Naturals, FiniteSets

CONSTANTS Threads, Runs, ThreadOf,
          NoRun,        \* nobody holds a lock, a thread has had no run
          MaxFaults,    \* store or checkpointer failures and cancelled requests
          MaxRestarts   \* ends of the process

ASSUME RunsAssumption ==
    /\ ThreadOf \in [Runs -> Threads]
    /\ NoRun \notin Runs
ASSUME BoundsAssumption == MaxFaults \in Nat /\ MaxRestarts \in Nat

VARIABLES
    status,     \* RunRecord.status; "absent": no record in RunManager._runs
    abort,      \* RunRecord.abort_event is set
    action,     \* RunRecord.abort_action
    pc,         \* the await at which run_agent is suspended
    phase,      \* the clause of run_agent that executes
    target,     \* what the set_status call in progress sets
    cancelReq,  \* task.cancel() was called, CancelledError not yet raised
    base,       \* pre_run_snapshot: the content of the thread it captured
    captured,   \* not snapshot_capture_failed
    ended,      \* publish_end was called for the run
    adm,        \* the await at which the start request is suspended
    strategy,   \* multitask_strategy of the request
    seen,       \* inflight, as create_or_reject computed it
    replaced,   \* interrupted_records
    todo,       \* interrupted_records still to be persisted by a loop
    lock,       \* RunManager._lock: the admission that holds it over an await
    ctx,        \* thread_context_lock and the admission lock of the thread
    row,        \* run store: the status column; "none": no row
    writes,     \* status writes that cancel() and shutdown() still have to make
    head,       \* checkpointer: the runs whose output the latest checkpoint has
    tstatus,    \* thread store: threads_meta.status
    newest,     \* run store: the newest row of the thread
    proc,       \* the Gateway process
    drain,      \* the runs shutdown() waits for
    faults, restarts

recordVars == <<status, abort, action>>
workerVars == <<pc, phase, target, cancelReq, base, captured, ended>>
admVars    == <<adm, strategy, seen, replaced, todo>>
lockVars   == <<lock, ctx>>
storeVars  == <<row, writes, tstatus, newest>>
procVars   == <<proc, drain, restarts>>
vars == <<recordVars, workerVars, admVars, lockVars, storeVars, head, procVars, faults>>

Live     == {"pending", "running"}
Terminal == {"success", "error", "interrupted"}
Status   == Live \cup Terminal
Actions  == {"interrupt", "rollback"}
Strategies == {"reject"} \cup Actions
\* What a status call of the worker writes; "rollback" is error "Rolled back by user" and
\* the restore after it, and no call sets "pending" but the final one may repeat it.
Targets  == Status \cup {"rollback"}
WorkerPC == {"none", "start", "lock", "persist", "capture", "stream",
             "rollback", "completion", "finlock", "finpersist", "meta", "done", "cancelled"}
AdmPC    == {"none", "bind", "put", "persist", "await", "settle", "announce",
             "failing", "fail_persist", "admitted", "rejected", "abandoned", "lost"}
AdmOver  == {"none", "admitted", "rejected", "abandoned", "lost"}

Thread(r)    == ThreadOf[r]
TaskAlive(r) == pc[r] \notin {"none", "done", "cancelled"}
Free         == lock = NoRun

\* A faulty variant, named in PROJECT.json as a mutant of the definition after it:
\* here, a terminal run that still finalizes does not count.  The others below are
\* marked the same way, and nothing else uses them.
InFlightByStatus(r) == status[r] \in Live

InFlight(r) == status[r] \in Live \/ TaskAlive(r)

\* Mutant: a second abort of a run that is aborted or finalizing already.
AbortableTask(r) == status[r] \in Live \/ TaskAlive(r)

\* What a replacement and a shutdown may abort.
Abortable(r) == ~abort[r] /\ status[r] \in Live

\* Mutant: the registry lock is not given back.
KeepsLock == UNCHANGED lock

ReleasesLock == lock' = NoRun
Serving      == proc \in {"up", "draining", "drained"}

Fault == faults < MaxFaults /\ faults' = faults + 1

\* A status write to the run store: done, or given up after the retries.
WriteRow(r, s) ==
    \/ row' = [row EXCEPT ![r] = s] /\ faults' = faults
    \/ row' = row /\ Fault
-----------------------------------------------------------------------------
(* The worker: run_agent *)

\* Mutant: the action is taken for the status.
RawOutcome(s) == s

Outcome(s) == IF s = "rollback" THEN "error" ELSE s

\* await run_manager.set_status(...): without contention the status changes at
\* once and the call is suspended in the store write.
SetStatus(r, s) ==
    /\ target' = [target EXCEPT ![r] = s]
    /\ IF Free
       THEN /\ status' = [status EXCEPT ![r] = Outcome(s)]
            /\ pc' = [pc EXCEPT ![r] = "persist"]
       ELSE /\ pc' = [pc EXCEPT ![r] = "lock"]
            /\ UNCHANGED status

\* The task is over, and the locals of run_agent with it.
TaskEnds(r, how) ==
    /\ pc' = [pc EXCEPT ![r] = how]
    /\ phase' = [phase EXCEPT ![r] = "body"]
    /\ target' = [target EXCEPT ![r] = "running"]
    /\ base' = [base EXCEPT ![r] = {}]
    /\ captured' = [captured EXCEPT ![r] = FALSE]

\* Cancelled before its first step, the coroutine never executes.
NeverRuns(r) ==
    /\ pc[r] = "start" /\ cancelReq[r]
    /\ TaskEnds(r, "cancelled")
    /\ cancelReq' = [cancelReq EXCEPT ![r] = FALSE]
    /\ UNCHANGED <<recordVars, ended, admVars, lockVars, storeVars, head, procVars, faults>>

\* Mutant: run_agent does not look at the abort event first.
NeverAbortedEarly(r) == FALSE

AbortedEarly(r) == abort[r]

\* Cancelled before its task was attached: run_agent returns at once.
Skips(r) ==
    /\ pc[r] = "start" /\ ~cancelReq[r] /\ AbortedEarly(r)
    /\ TaskEnds(r, "done")
    /\ ended' = [ended EXCEPT ![r] = TRUE]
    /\ UNCHANGED <<recordVars, cancelReq, admVars, lockVars, storeVars, head, procVars, faults>>

Starts(r) ==
    /\ pc[r] = "start" /\ ~cancelReq[r] /\ ~AbortedEarly(r)
    /\ SetStatus(r, "running")
    /\ UNCHANGED <<abort, action, phase, cancelReq, base, captured, ended, admVars,
                   lockVars, storeVars, head, procVars, faults>>

\* The registry lock is free again for the set_status call that waits for it.
GetsLock(r) ==
    /\ pc[r] = "lock" /\ ~cancelReq[r] /\ Free
    /\ SetStatus(r, target[r])
    /\ UNCHANGED <<abort, action, phase, cancelReq, base, captured, ended, admVars,
                   lockVars, storeVars, head, procVars, faults>>

\* Mutant: the snapshot is restored even if its capture failed.
AfterStatusUnchecked(r) ==
    IF target[r] = "running" THEN "capture"
    ELSE IF target[r] = "rollback" THEN "rollback"
    ELSE "completion"

AfterStatus(r) ==
    IF target[r] = "running" THEN "capture"
    ELSE IF target[r] = "rollback" /\ captured[r] THEN "rollback"
    ELSE "completion"

PersistsStatus(r) ==
    /\ pc[r] = "persist" /\ ~cancelReq[r]
    /\ WriteRow(r, Outcome(target[r]))
    /\ pc' = [pc EXCEPT ![r] = AfterStatus(r)]
    /\ UNCHANGED <<recordVars, phase, target, cancelReq, base, captured, ended,
                   admVars, lockVars, writes, head, tstatus, newest, procVars>>

\* Reads the latest checkpoint for a later rollback; a failed read goes on without.
Captures(r) ==
    /\ pc[r] = "capture" /\ ~cancelReq[r]
    /\ \/ /\ base' = [base EXCEPT ![r] = head[Thread(r)]]
          /\ captured' = [captured EXCEPT ![r] = TRUE]
          /\ faults' = faults
       \/ Fault /\ UNCHANGED <<base, captured>>
    /\ pc' = [pc EXCEPT ![r] = "stream"]
    /\ UNCHANGED <<recordVars, phase, target, cancelReq, ended, admVars, lockVars,
                   storeVars, head, procVars>>

\* The graph writes checkpoints while astream is consumed.
AgentWrites(r) ==
    /\ pc[r] = "stream" /\ r \notin head[Thread(r)]
    /\ head' = [head EXCEPT ![Thread(r)] = @ \cup {r}]
    /\ UNCHANGED <<recordVars, workerVars, admVars, lockVars, storeVars, procVars, faults>>

\* The agent swallows the CancelledError; the loop then sees the abort event.
AgentSwallows(r) ==
    /\ pc[r] = "stream" /\ cancelReq[r]
    /\ cancelReq' = [cancelReq EXCEPT ![r] = FALSE]
    /\ UNCHANGED <<recordVars, pc, phase, target, base, captured, ended, admVars,
                   lockVars, storeVars, head, procVars, faults>>

AbortTarget(r) == IF action[r] = "rollback" THEN "rollback" ELSE "interrupted"

GraphOutcomes(r) ==
    {"error"} \cup (IF r \in head[Thread(r)] THEN {"success"} ELSE {})

\* Mutant: the abort event is not looked at when the stream is over.
OutcomesUnaborted(r) == GraphOutcomes(r)

\* The loop breaks on the abort event, or the stream is over; "error" is the LLM
\* fallback marker, and a graph that succeeds has written a checkpoint.
StreamOutcomes(r) == IF abort[r] THEN {AbortTarget(r)} ELSE GraphOutcomes(r)

StreamEnds(r) ==
    /\ pc[r] = "stream" /\ ~cancelReq[r]
    /\ \E s \in StreamOutcomes(r) : SetStatus(r, s)
    /\ UNCHANGED <<abort, action, phase, cancelReq, base, captured, ended, admVars,
                   lockVars, storeVars, head, procVars, faults>>

\* Building or running the graph raises: the clause "except Exception".
StreamRaises(r) ==
    /\ pc[r] = "stream" /\ ~cancelReq[r]
    /\ phase' = [phase EXCEPT ![r] = "failed"]
    /\ SetStatus(r, "error")
    /\ UNCHANGED <<abort, action, cancelReq, base, captured, ended, admVars,
                   lockVars, storeVars, head, procVars, faults>>

\* Mutant: the thread is deleted, whatever it held before the run.
RestoredEmpty(r) == {}

Restored(r) == base[r]

\* A status write or a restore that CancelledError cuts short may have been made.
CutShort(r) ==
    \/ UNCHANGED <<row, head>>
    \/ pc[r] = "persist" /\ row' = [row EXCEPT ![r] = Outcome(target[r])] /\ UNCHANGED head
    \/ pc[r] = "rollback" /\ head' = [head EXCEPT ![Thread(r)] = Restored(r)] /\ UNCHANGED row

\* CancelledError is raised in the body: the clause "except CancelledError".
CancelledInBody(r) ==
    /\ cancelReq[r] /\ phase[r] = "body"
    /\ pc[r] \in {"lock", "persist", "capture", "stream", "rollback"}
    /\ phase' = [phase EXCEPT ![r] = "cancelled"]
    /\ cancelReq' = [cancelReq EXCEPT ![r] = FALSE]
    /\ SetStatus(r, AbortTarget(r))
    /\ CutShort(r)
    /\ UNCHANGED <<abort, action, base, captured, ended, admVars, lockVars, writes,
                   tstatus, newest, procVars, faults>>

\* CancelledError is raised in one of the except clauses: no sibling clause sees it,
\* only the finalizer executes.
CancelledInHandler(r) ==
    /\ cancelReq[r] /\ phase[r] \in {"failed", "cancelled"}
    /\ pc[r] \in {"lock", "persist", "rollback"}
    /\ phase' = [phase EXCEPT ![r] = "escaped"]
    /\ cancelReq' = [cancelReq EXCEPT ![r] = FALSE]
    /\ pc' = [pc EXCEPT ![r] = "completion"]
    /\ CutShort(r)
    /\ UNCHANGED <<recordVars, target, base, captured, ended, admVars, lockVars,
                   writes, tstatus, newest, procVars, faults>>

\* _rollback_to_pre_run_checkpoint; a failed restore is logged and the run goes on.
RollsBack(r) ==
    /\ pc[r] = "rollback" /\ ~cancelReq[r]
    /\ \/ head' = [head EXCEPT ![Thread(r)] = Restored(r)] /\ faults' = faults
       \/ Fault /\ UNCHANGED head
    /\ pc' = [pc EXCEPT ![r] = "completion"]
    /\ UNCHANGED <<recordVars, phase, target, cancelReq, base, captured, ended,
                   admVars, lockVars, storeVars, procVars>>

AtCompletion(r) == IF Free THEN "finpersist" ELSE "finlock"

\* The finalizer: the status is read for update_run_completion, which then takes the
\* registry lock ...
Concludes(r) ==
    /\ pc[r] = "completion" /\ ~cancelReq[r]
    /\ target' = [target EXCEPT ![r] = status[r]]
    /\ pc' = [pc EXCEPT ![r] = AtCompletion(r)]
    /\ UNCHANGED <<recordVars, phase, cancelReq, base, captured, ended, admVars,
                   lockVars, storeVars, head, procVars, faults>>

GetsLockAtEnd(r) ==
    /\ pc[r] = "finlock" /\ ~cancelReq[r] /\ Free
    /\ pc' = [pc EXCEPT ![r] = "finpersist"]
    /\ UNCHANGED <<recordVars, phase, target, cancelReq, base, captured, ended, admVars,
                   lockVars, storeVars, head, procVars, faults>>

\* ... and writes that status,
Completes(r) ==
    /\ pc[r] = "finpersist" /\ ~cancelReq[r]
    /\ WriteRow(r, target[r])
    /\ pc' = [pc EXCEPT ![r] = "meta"]
    /\ UNCHANGED <<recordVars, phase, target, cancelReq, base, captured, ended,
                   admVars, lockVars, writes, head, tstatus, newest, procVars>>

ThreadStatus(s) == IF s = "success" THEN "idle" ELSE s

\* then the thread status and publish_end, and the task is over.
Finishes(r) ==
    /\ pc[r] = "meta" /\ ~cancelReq[r]
    /\ \/ tstatus' = [tstatus EXCEPT ![Thread(r)] = ThreadStatus(status[r])] /\ faults' = faults
       \/ Fault /\ UNCHANGED tstatus
    /\ ended' = [ended EXCEPT ![r] = TRUE]
    /\ TaskEnds(r, IF phase[r] = "escaped" THEN "cancelled" ELSE "done")
    /\ UNCHANGED <<recordVars, cancelReq, admVars, lockVars, row, writes, newest, head, procVars>>

\* CancelledError is raised in the finalizer: what it still had to do is not done, and
\* the end of the stream is not published.
CancelledInFinalizer(r) ==
    /\ cancelReq[r] /\ pc[r] \in {"completion", "finlock", "finpersist", "meta"}
    /\ cancelReq' = [cancelReq EXCEPT ![r] = FALSE]
    /\ TaskEnds(r, "cancelled")
    /\ \/ UNCHANGED <<row, tstatus>>
       \/ pc[r] = "finpersist" /\ row' = [row EXCEPT ![r] = target[r]] /\ UNCHANGED tstatus
       \/ /\ pc[r] = "meta" /\ UNCHANGED row
          /\ tstatus' = [tstatus EXCEPT ![Thread(r)] = ThreadStatus(status[r])]
    /\ UNCHANGED <<recordVars, ended, admVars, lockVars, writes, newest, head, procVars, faults>>

Worker(r) ==
    \/ NeverRuns(r) \/ Skips(r) \/ Starts(r) \/ GetsLock(r) \/ PersistsStatus(r)
    \/ Captures(r) \/ AgentWrites(r) \/ AgentSwallows(r) \/ StreamEnds(r)
    \/ StreamRaises(r) \/ CancelledInBody(r) \/ CancelledInHandler(r)
    \/ RollsBack(r) \/ Concludes(r) \/ GetsLockAtEnd(r) \/ Completes(r) \/ Finishes(r)
    \/ CancelledInFinalizer(r)
-----------------------------------------------------------------------------
(* The start request: start_run and RunManager.create_or_reject *)

\* start_run takes the context lock of the thread; create_or_reject, its only
\* caller inside that lock, takes the admission lock with it.
Requests(r, s) ==
    /\ proc = "up" /\ adm[r] = "none" /\ ctx[Thread(r)] = NoRun
    /\ ctx' = [ctx EXCEPT ![Thread(r)] = r]
    /\ strategy' = [strategy EXCEPT ![r] = s]
    /\ adm' = [adm EXCEPT ![r] = "bind"]
    /\ UNCHANGED <<recordVars, workerVars, seen, replaced, todo, lock, storeVars,
                   head, procVars, faults>>

\* The request is over: its locals are gone and the locks of the thread are free.
Leaves(r, how) ==
    /\ adm' = [adm EXCEPT ![r] = how]
    /\ ctx' = [ctx EXCEPT ![Thread(r)] = NoRun]
    /\ strategy' = [strategy EXCEPT ![r] = "reject"]
    /\ seen' = [seen EXCEPT ![r] = {}]
    /\ replaced' = [replaced EXCEPT ![r] = {}]
    /\ todo' = [todo EXCEPT ![r] = {}]

InFlightOn(t) == {a \in Runs : ThreadOf[a] = t /\ InFlight(a)}

\* The agent identity is bound and the registry lock is free: conflict, or the new
\* record is inserted and the lock is kept over the first store write.
Rejects(r) ==
    /\ adm[r] = "bind" /\ Free
    /\ strategy[r] = "reject" /\ InFlightOn(Thread(r)) # {}
    /\ Leaves(r, "rejected")
    /\ UNCHANGED <<recordVars, workerVars, lock, storeVars, head, procVars, faults>>

Inserts(r) ==
    /\ adm[r] = "bind" /\ Free
    /\ strategy[r] = "reject" => InFlightOn(Thread(r)) = {}
    /\ seen' = [seen EXCEPT ![r] = InFlightOn(Thread(r))]
    /\ status' = [status EXCEPT ![r] = "pending"]
    /\ lock' = r
    /\ adm' = [adm EXCEPT ![r] = "put"]
    /\ UNCHANGED <<abort, action, workerVars, strategy, replaced, todo, ctx,
                   storeVars, head, procVars, faults>>

\* Where the admission is suspended next: old is interrupted_records.
\* Mutant: the outcome of the predecessors is not persisted again.
AfterWaitUnsettled(old) == "announce"

AfterWait(old) == IF old = {} THEN "announce" ELSE "settle"

\* Mutant: the tasks of the predecessors are not waited for.
AfterPersistAtOnce(r, old) == AfterWait(old)

AfterPersist(r, old) ==
    IF \E a \in seen[r] : TaskAlive(a) THEN "await" ELSE AfterWait(old)

\* The row is stored; the predecessors still pending or running, and not aborted
\* already, are aborted and their tasks cancelled before the lock is released.
Replaces(r) ==
    LET old == {a \in seen[r] : Abortable(a)} IN
    /\ adm[r] = "put"
    /\ row' = [row EXCEPT ![r] = "pending"]
    /\ newest' = [newest EXCEPT ![Thread(r)] = r]
    /\ abort' = [a \in Runs |-> abort[a] \/ a \in old]
    /\ action' = [a \in Runs |-> IF a \in old THEN strategy[r] ELSE action[a]]
    /\ cancelReq' = [a \in Runs |-> cancelReq[a] \/ (a \in old /\ TaskAlive(a))]
    /\ status' = [a \in Runs |-> IF a \in old THEN "interrupted" ELSE status[a]]
    /\ replaced' = [replaced EXCEPT ![r] = old]
    /\ todo' = [todo EXCEPT ![r] = old]
    /\ ReleasesLock
    /\ adm' = [adm EXCEPT ![r] = IF old # {} THEN "persist" ELSE AfterPersist(r, old)]
    /\ UNCHANGED <<pc, phase, target, base, captured, ended, strategy, seen, ctx,
                   writes, tstatus, head, procVars, faults>>

\* The first store write fails or is cancelled: the record is rolled back.  A
\* cancelled write may have reached the store all the same.
PutFails(r) ==
    /\ adm[r] = "put" /\ Fault
    /\ status' = [status EXCEPT ![r] = "absent"]
    /\ ReleasesLock
    /\ Leaves(r, "rejected")
    /\ \/ UNCHANGED <<row, newest>>
       \/ /\ row' = [row EXCEPT ![r] = "pending"]
          /\ newest' = [newest EXCEPT ![Thread(r)] = r]
    /\ UNCHANGED <<abort, action, workerVars, writes, tstatus, head, procVars>>

\* The loop that persists what Replaces did; it leaves todo as the second loop needs it.
PersistsReplaced(r) ==
    /\ adm[r] = "persist"
    /\ \E a \in todo[r] :
         /\ WriteRow(a, "interrupted")
         /\ IF todo[r] = {a}
            THEN /\ todo' = [todo EXCEPT ![r] = replaced[r]]
                 /\ adm' = [adm EXCEPT ![r] = AfterPersist(r, replaced[r])]
            ELSE todo' = [todo EXCEPT ![r] = @ \ {a}] /\ UNCHANGED adm
    /\ UNCHANGED <<recordVars, workerVars, strategy, seen, replaced, lockVars, writes,
                   tstatus, newest, head, procVars>>

\* asyncio.wait on the tasks of the predecessors: all of them are over ...
PredecessorsEnd(r) ==
    /\ adm[r] = "await" /\ \A a \in seen[r] : ~TaskAlive(a)
    /\ adm' = [adm EXCEPT ![r] = AfterWait(replaced[r])]
    /\ UNCHANGED <<recordVars, workerVars, strategy, seen, replaced, todo, lockVars,
                   storeVars, head, procVars, faults>>

\* Mutant: the failed admission leaves the status of the new run alone.
FailsAdmissionSilently(r) ==
    /\ abort' = [abort EXCEPT ![r] = TRUE]
    /\ adm' = [adm EXCEPT ![r] = "fail_persist"]
    /\ UNCHANGED <<status, strategy, seen, replaced, todo, ctx>>

\* except BaseException: the new run is aborted and becomes an error.
FailsAdmission(r) ==
    /\ abort' = [abort EXCEPT ![r] = TRUE]
    /\ IF Free
       THEN /\ status' = [status EXCEPT ![r] = "error"]
            /\ adm' = [adm EXCEPT ![r] = "fail_persist"]
       ELSE /\ adm' = [adm EXCEPT ![r] = "failing"]
            /\ UNCHANGED status
    /\ UNCHANGED <<strategy, seen, replaced, todo, ctx>>

\* ... or one still executes after replacement_timeout: ConflictError.
WaitTimesOut(r) ==
    /\ adm[r] = "await" /\ \E a \in seen[r] : TaskAlive(a)
    /\ FailsAdmission(r)
    /\ UNCHANGED <<action, workerVars, lock, storeVars, head, procVars, faults>>

\* The loop that persists what became of the predecessors.
SettlesReplaced(r) ==
    /\ adm[r] = "settle"
    /\ \E a \in todo[r] :
         /\ WriteRow(a, status[a])
         /\ todo' = [todo EXCEPT ![r] = @ \ {a}]
         /\ adm' = [adm EXCEPT ![r] = IF todo[r] = {a} THEN "announce" ELSE @]
    /\ UNCHANGED <<recordVars, workerVars, strategy, seen, replaced, lockVars, writes,
                   tstatus, newest, head, procVars>>

\* The thread is marked running, the locks are released and the task is created,
\* without an await in between.
Launches(r) ==
    /\ adm[r] = "announce"
    /\ \/ tstatus' = [tstatus EXCEPT ![Thread(r)] = "running"] /\ faults' = faults
       \/ Fault /\ UNCHANGED tstatus
    /\ Leaves(r, "admitted")
    /\ pc' = [pc EXCEPT ![r] = "start"]
    /\ UNCHANGED <<recordVars, phase, target, cancelReq, base, captured, ended,
                   lock, row, writes, newest, head, procVars>>

\* The request is cancelled at an await.  Before create_or_reject and after it nothing
\* handles that; inside it the admission fails (PutFails covers the first write), and a
\* failed one that waits for the registry lock never marks its record (PersistsFailed
\* covers its last write).
RequestCancelled(r) ==
    /\ Fault
    /\ \/ adm[r] = "bind" /\ Leaves(r, "rejected") /\ UNCHANGED <<status, abort>>
       \/ adm[r] \in {"persist", "await", "settle"} /\ FailsAdmission(r)
       \/ adm[r] \in {"failing", "announce"} /\ Leaves(r, "abandoned") /\ UNCHANGED <<status, abort>>
    /\ UNCHANGED <<action, workerVars, lock, storeVars, head, procVars>>

MarksFailed(r) ==
    /\ adm[r] = "failing" /\ Free
    /\ status' = [status EXCEPT ![r] = "error"]
    /\ adm' = [adm EXCEPT ![r] = "fail_persist"]
    /\ UNCHANGED <<abort, action, workerVars, strategy, seen, replaced, todo, lockVars,
                   storeVars, head, procVars, faults>>

PersistsFailed(r) ==
    /\ adm[r] = "fail_persist"
    /\ WriteRow(r, "error")
    /\ Leaves(r, "rejected")
    /\ UNCHANGED <<recordVars, workerVars, lock, writes, tstatus, newest, head, procVars>>

Admission(r) ==
    \/ Rejects(r) \/ Inserts(r) \/ Replaces(r) \/ PutFails(r) \/ PersistsReplaced(r)
    \/ PredecessorsEnd(r) \/ WaitTimesOut(r) \/ SettlesReplaced(r) \/ Launches(r)
    \/ RequestCancelled(r) \/ MarksFailed(r) \/ PersistsFailed(r)
-----------------------------------------------------------------------------
(* RunManager.cancel, called by the cancel routes and by a client's disconnect *)

\* A run that is interrupted already, unknown or over is left alone.
Cancels(r, a) ==
    /\ proc = "up" /\ Free /\ status[r] \in Live
    /\ action' = [action EXCEPT ![r] = a]
    /\ abort' = [abort EXCEPT ![r] = TRUE]
    /\ cancelReq' = [cancelReq EXCEPT ![r] = TaskAlive(r)]
    /\ status' = [status EXCEPT ![r] = "interrupted"]
    /\ writes' = writes \cup {<<r, "interrupted">>}
    /\ UNCHANGED <<pc, phase, target, base, captured, ended, admVars, lockVars, row,
                   tstatus, newest, head, procVars, faults>>

\* The cancel routes with wait=true await record.task itself, so that cancelling such a
\* request cancels the worker once more, wherever it is.  cancel() lets everyone wait who
\* asks while the run is interrupted.
WaiterCancelled(r) ==
    /\ proc = "up" /\ abort[r] /\ TaskAlive(r) /\ ~cancelReq[r]
    /\ Fault
    /\ cancelReq' = [cancelReq EXCEPT ![r] = TRUE]
    /\ UNCHANGED <<recordVars, pc, phase, target, base, captured, ended, admVars, lockVars,
                   storeVars, head, procVars>>

\* The status write of cancel() or shutdown(), made after the lock was released.
DelayedWrite ==
    /\ \E w \in writes : WriteRow(w[1], w[2]) /\ writes' = writes \ {w}
    /\ UNCHANGED <<recordVars, workerVars, admVars, lockVars, tstatus, newest, head, procVars>>
-----------------------------------------------------------------------------
(* The process: RunManager.shutdown, a crash, the next start *)

ShutsDown ==
    LET alive == {r \in Runs : TaskAlive(r)}
        hit == {r \in alive : Abortable(r)} IN
    /\ proc = "up" /\ Free /\ restarts < MaxRestarts
    /\ drain' = alive
    /\ abort' = [r \in Runs |-> abort[r] \/ r \in hit]
    /\ action' = [r \in Runs |-> IF r \in hit THEN "interrupt" ELSE action[r]]
    /\ cancelReq' = [r \in Runs |-> cancelReq[r] \/ r \in hit]
    /\ proc' = IF alive = {} THEN "drained" ELSE "draining"
    /\ UNCHANGED <<status, pc, phase, target, base, captured, ended, admVars, lockVars,
                   storeVars, head, restarts, faults>>

\* The drain ends, when the tasks are over or at its deadline: the runs that did not
\* settle on their own are marked and their status is persisted, time permitting.
Drained ==
    LET unsettled == {r \in drain : TaskAlive(r) \/ pc[r] = "cancelled"}
        marked == {r \in unsettled : status[r] \in Live} IN
    /\ proc = "draining" /\ Free
    /\ status' = [r \in Runs |-> IF r \in marked THEN "interrupted" ELSE status[r]]
    /\ writes' = writes \cup {<<r, status'[r]>> : r \in unsettled}
    /\ proc' = "drained"
    /\ UNCHANGED <<abort, action, workerVars, admVars, lockVars, row, tstatus, newest,
                   head, drain, restarts, faults>>

\* The process exits after the drain, or crashes at any point: memory is lost, the
\* stores and the checkpoints stay.
ProcessEnds ==
    /\ Serving /\ restarts < MaxRestarts
    /\ restarts' = restarts + 1
    /\ proc' = "down"
    /\ drain' = {}
    /\ status' = [r \in Runs |-> "absent"]
    /\ abort' = [r \in Runs |-> FALSE]
    /\ action' = [r \in Runs |-> "interrupt"]
    /\ pc' = [r \in Runs |-> "none"]
    /\ phase' = [r \in Runs |-> "body"]
    /\ target' = [r \in Runs |-> "running"]
    /\ cancelReq' = [r \in Runs |-> FALSE]
    /\ base' = [r \in Runs |-> {}]
    /\ captured' = [r \in Runs |-> FALSE]
    /\ ended' = [r \in Runs |-> FALSE]
    /\ adm' = [r \in Runs |-> IF adm[r] = "none" THEN "none" ELSE "lost"]
    /\ strategy' = [r \in Runs |-> "reject"]
    /\ seen' = [r \in Runs |-> {}]
    /\ replaced' = [r \in Runs |-> {}]
    /\ todo' = [r \in Runs |-> {}]
    /\ lock' = NoRun
    /\ ctx' = [t \in Threads |-> NoRun]
    /\ writes' = {}
    /\ UNCHANGED <<row, tstatus, newest, head, faults>>

\* Mutant: a row that was still pending is not recovered.
OrphansRunning == {r \in Runs : row[r] = "running"}

Orphans == {r \in Runs : row[r] \in Live}

\* _mark_latest_recovered_threads_error
LatestRecovered(recovered) == {t \in Threads : newest[t] \in recovered}

\* reconcile_orphaned_inflight_runs, before requests are served, and the thread
\* status of the threads whose newest run was recovered; a failed write is logged.
Boots ==
    /\ proc = "down"
    /\ proc' = "up"
    /\ \E recovered \in SUBSET Orphans : \E marked \in SUBSET LatestRecovered(recovered) :
         /\ IF recovered = Orphans /\ marked = LatestRecovered(recovered)
            THEN UNCHANGED faults
            ELSE Fault
         /\ row' = [r \in Runs |-> IF r \in recovered THEN "error" ELSE row[r]]
         /\ tstatus' = [t \in Threads |-> IF t \in marked THEN "error" ELSE tstatus[t]]
    /\ UNCHANGED <<recordVars, workerVars, admVars, lockVars, writes, newest, head,
                   drain, restarts>>

Process == ShutsDown \/ Drained \/ ProcessEnds \/ Boots

\* Every request was made and answered, every task is over.
Settled ==
    /\ proc = "up" /\ writes = {}
    /\ \A r \in Runs : adm[r] \in AdmOver /\ ~TaskAlive(r)

Idle == Settled /\ (\A r \in Runs : adm[r] # "none") /\ UNCHANGED vars
-----------------------------------------------------------------------------
Init ==
    /\ status = [r \in Runs |-> "absent"]
    /\ abort = [r \in Runs |-> FALSE]
    /\ action = [r \in Runs |-> "interrupt"]
    /\ pc = [r \in Runs |-> "none"]
    /\ phase = [r \in Runs |-> "body"]
    /\ target = [r \in Runs |-> "running"]
    /\ cancelReq = [r \in Runs |-> FALSE]
    /\ base = [r \in Runs |-> {}]
    /\ captured = [r \in Runs |-> FALSE]
    /\ ended = [r \in Runs |-> FALSE]
    /\ adm = [r \in Runs |-> "none"]
    /\ strategy = [r \in Runs |-> "reject"]
    /\ seen = [r \in Runs |-> {}]
    /\ replaced = [r \in Runs |-> {}]
    /\ todo = [r \in Runs |-> {}]
    /\ lock = NoRun
    /\ ctx = [t \in Threads |-> NoRun]
    /\ row = [r \in Runs |-> "none"]
    /\ writes = {}
    /\ head = [t \in Threads |-> {}]
    /\ tstatus = [t \in Threads |-> "idle"]
    /\ newest = [t \in Threads |-> NoRun]
    /\ proc = "up"
    /\ drain = {}
    /\ faults = 0
    /\ restarts = 0

Next ==
    \/ \E r \in Runs : Worker(r)
    \/ \E r \in Runs : Admission(r)
    \/ \E r \in Runs, s \in Strategies : Requests(r, s)
    \/ \E r \in Runs, a \in Actions : Cancels(r, a)
    \/ \E r \in Runs : WaiterCancelled(r)
    \/ DelayedWrite
    \/ Process
    \/ Idle

Spec == Init /\ [][Next]_vars

\* The scheduling asyncio gives: every coroutine that can go on eventually does,
\* and graph execution is bounded (recursion_limit), so a stream that can end does.
\* Nobody has to cancel, to crash or to fail.
Fairness ==
    /\ \A r \in Runs : WF_vars(Worker(r)) /\ WF_vars(Admission(r))
    /\ WF_vars(DelayedWrite)
    /\ WF_vars(Drained)
    /\ WF_vars(Boots)

FairSpec == Spec /\ Fairness
-----------------------------------------------------------------------------
(* Properties *)

RecordsOK ==
    /\ status \in [Runs -> Status \cup {"absent"}]
    /\ abort \in [Runs -> BOOLEAN]
    /\ action \in [Runs -> Actions]

WorkersOK ==
    /\ pc \in [Runs -> WorkerPC]
    /\ phase \in [Runs -> {"body", "cancelled", "failed", "escaped"}]
    /\ target \in [Runs -> Targets]
    /\ cancelReq \in [Runs -> BOOLEAN]
    /\ base \in [Runs -> SUBSET Runs]
    /\ captured \in [Runs -> BOOLEAN]
    /\ ended \in [Runs -> BOOLEAN]

RequestsOK ==
    /\ adm \in [Runs -> AdmPC]
    /\ strategy \in [Runs -> Strategies]
    /\ seen \in [Runs -> SUBSET Runs]
    /\ replaced \in [Runs -> SUBSET Runs]
    /\ todo \in [Runs -> SUBSET Runs]

LocksOK ==
    /\ lock \in Runs \cup {NoRun}
    /\ ctx \in [Threads -> Runs \cup {NoRun}]

StoresOK ==
    /\ row \in [Runs -> Status \cup {"none", "absent"}]
    /\ writes \in SUBSET (Runs \X (Status \cup {"absent"}))
    /\ tstatus \in [Threads -> Status \cup {"idle", "absent"}]
    /\ newest \in [Threads -> Runs \cup {NoRun}]
    /\ head \in [Threads -> SUBSET Runs]

ProcessOK ==
    /\ proc \in {"up", "draining", "drained", "down"}
    /\ drain \in SUBSET Runs
    /\ faults \in 0..MaxFaults
    /\ restarts \in 0..MaxRestarts

TypeOK == RecordsOK /\ WorkersOK /\ RequestsOK /\ LocksOK /\ StoresOK /\ ProcessOK

\* "admission fails with a conflict instead of launching another writer"
\* (HARDENING.md): the tasks of two runs of a thread never overlap, whatever the
\* order of start requests, cancellations, timeouts, failures and restarts.
OneWriter ==
    \A r, s \in Runs :
        TaskAlive(r) /\ TaskAlive(s) /\ Thread(r) = Thread(s) => r = s

\* What a rollback would restore differs from the thread as it is by the output of
\* the run itself, until the task ends: restoring it loses nothing of anyone else.
SnapshotFaithful ==
    \A r \in Runs : captured[r] => base[r] = head[Thread(r)] \ {r}

\* A run the history reports as a success has its output in the thread, whatever
\* was rolled back, cancelled or restarted since.
SuccessKept ==
    \A r \in Runs : row[r] = "success" => r \in head[Thread(r)]

\* cancel() returned True, a replacement or a shutdown aborted the run: it is never
\* reported as a success after that.
AbortedNeverSucceeds ==
    \A r \in Runs : abort[r] => status[r] # "success"

\* Where a worker executes neither a rollback nor the finalizer.
Interruptible(r) ==
    \/ pc[r] = "start"
    \/ phase[r] = "body" /\ pc[r] \in {"lock", "persist", "capture", "stream"}
    \/ phase[r] = "failed" /\ pc[r] = "lock"

\* "Never interrupt a rollback/finalizer a second time" (create_or_reject): neither a
\* cancel(), a replacement nor a shutdown sends a CancelledError to a worker that
\* restores a checkpoint or finalizes.  The exception is a request that waits for a
\* cancelled run and is cancelled itself.
CancelsOnce ==
    \A r \in Runs :
        cancelReq'[r] /\ ~cancelReq[r] => Interruptible(r) \/ WaiterCancelled(r)

FinalizerUndisturbed == [][CancelsOnce]_vars

\* A record that says pending or running has somebody who will finish it, so that
\* the thread can be used again; the exception is a request cancelled after its
\* admission and before its launch, or while its failed admission waits for the
\* registry lock to mark the record.
NoOwnerlessRun ==
    \A r \in Runs :
        proc = "up" /\ status[r] \in Live =>
            TaskAlive(r) \/ adm[r] \notin AdmOver \/ adm[r] = "abandoned"

\* Without store failures no stored run claims to be active when no process knows
\* it, and none is left active when everything has come to rest.
RowsSettle ==
    faults = 0 =>
        \A r \in Runs : row[r] \in Live =>
            /\ proc # "down" => status[r] # "absent"
            /\ ~Settled

\* "Persist its final outcome once cleanup has settled" (create_or_reject): when a
\* replacement is launched, the stored outcome of what it replaced is the real one
\* (unless the shutdown persists an outcome of its own).
ReplacementSettled ==
    faults = 0 /\ proc = "up" =>
        \A r \in Runs : adm[r] = "announce" =>
            \A a \in replaced[r] : row[a] = status[a] /\ status[a] \in Terminal

\* Statuses only move forward: success and error are final, interrupted can only
\* become the error of a rollback, running never becomes pending.
StatusMoves ==
    proc' # "down" =>
        \A r \in Runs :
            /\ status[r] \in {"success", "error"} => status'[r] = status[r]
            /\ status[r] = "interrupted" => status'[r] \in {"interrupted", "error"}
            /\ status[r] = "running" => status'[r] # "pending"

StatusForward == [][StatusMoves]_vars

\* Every start request is answered: no order of lock acquisitions blocks forever.
RequestsAnswered ==
    \A r \in Runs : adm[r] = "bind" ~> adm[r] \in AdmOver

\* Every launched task ends, however it is cancelled and whoever holds the locks.
TasksEnd ==
    \A r \in Runs : pc[r] = "start" ~> ~TaskAlive(r)

\* worker.py: an "end" event is published on every path, "otherwise a failure here
\* would leave the stream hanging with no terminator".
StreamsEnd ==
    \A r \in Runs : pc[r] = "start" ~> ended[r]

\* "Persist its final outcome once cleanup has settled" (create_or_reject), asked of
\* every run: at rest and without store failures the stored status is the real one.
HistoryAgrees ==
    faults = 0 /\ Settled =>
        \A r \in Runs : status[r] # "absent" => row[r] = status[r]

\* The run whose task is alive owns its thread.
Owner(t) ==
    IF \E r \in Runs : Thread(r) = t /\ TaskAlive(r)
    THEN CHOOSE r \in Runs : Thread(r) = t /\ TaskAlive(r)
    ELSE NoRun

Ownership == INSTANCE ThreadOwnership
    WITH owner <- [t \in Threads |-> Owner(t)], content <- head

\* The run subsystem implements exclusive ownership of a thread: only the run whose
\* task is alive adds its output to the thread or takes it back.
ImplementsOwnership == Ownership!Spec
=============================================================================
