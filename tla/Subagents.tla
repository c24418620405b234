----------------------------- MODULE Subagents -----------------------------
(***************************************************************************)
(* Background subagents: the records of subagents/executor.py, the thread  *)
(* that schedules each of them, the coroutine that carries it out on the   *)
(* isolated loop, and the tool call that polls it                          *)
(* (tools/builtins/task_tool.py).  The four run concurrently: a timeout, a *)
(* cancellation of the parent and the end of the coroutine may all settle  *)
(* the record, and the tool call removes it while the others still have it.*)
(*                                                                         *)
(* A task is named by its tool call id.  Time is left out: a poll, the     *)
(* limit of the polls and the timeout of the execution may come at any     *)
(* moment.                                                                 *)
(***************************************************************************)
EXTENDS Naturals, FiniteSets

CONSTANTS Tasks,
          Slots      \* the threads of the scheduler pool

ASSUME SlotsAssumption == Slots \in Nat \ {0}

Outcomes == {"completed", "failed", "cancelled", "timed_out", "max_turns_reached"}
Unsettled == {"none", "pending", "running"}

VARIABLES
  records,    \* keys of _background_tasks
  status,     \* of the record of each task, "none" before it is made
  event,      \* its cancel_event is set
  scheduler,  \* run_task: "queued", "waiting" for the coroutine, or in its timeout
  body,       \* _aexecute: about to "check" the event, in a "turn" of the agent
  poller,     \* task_tool: "polling", "waiting" after it was cancelled, "deferred" cleanup
  reported    \* the outcome the tool call returned with

subagentVars == <<records, status, event, scheduler, body, poller, reported>>

SubagentInit ==
    /\ records = {}
    /\ status = [t \in Tasks |-> "none"]
    /\ event = [t \in Tasks |-> FALSE]
    /\ scheduler = [t \in Tasks |-> "none"]
    /\ body = [t \in Tasks |-> "none"]
    /\ poller = [t \in Tasks |-> "none"]
    /\ reported = [t \in Tasks |-> "none"]
-----------------------------------------------------------------------------
Settled(t) == status[t] \in Outcomes

\* Mutant: the last outcome stays.
SetTerminal(t, outcome) == status' = [status EXCEPT ![t] = outcome]

\* try_set_terminal: the first outcome stays.
TrySetTerminal(t, outcome) == status' = [status EXCEPT ![t] = IF Settled(t) THEN @ ELSE outcome]

SchedulerGoes(t, pc) == scheduler' = [scheduler EXCEPT ![t] = pc]
BodyGoes(t, pc) == body' = [body EXCEPT ![t] = pc]
PollerGoes(t, pc) == poller' = [poller EXCEPT ![t] = pc]

\* request_cancel_background_task
RequestCancel(t) == event' = [event EXCEPT ![t] = @ \/ t \in records]

\* Mutant: the record is removed whatever its status is.
AllCleanedUp(t) == records \ {t}

\* cleanup_background_task removes settled records only.
CleanedUp(t) == IF Settled(t) THEN records \ {t} ELSE records

ExecuteAsync(t) ==
    /\ poller[t] = "none"
    /\ records' = records \cup {t}
    /\ status' = [status EXCEPT ![t] = "pending"]
    /\ SchedulerGoes(t, "queued") /\ PollerGoes(t, "polling")
    /\ UNCHANGED <<event, body, reported>>
-----------------------------------------------------------------------------
(* run_task, on a thread of the scheduler pool *)

Busy == {t \in Tasks : scheduler[t] \in {"waiting", "expired", "cancelling"}}

\* A record that is gone raises a KeyError before anything was submitted; the isolated
\* loop may not start.
TaskRuns(t) ==
    /\ scheduler[t] = "queued" /\ Cardinality(Busy) < Slots
    /\ IF t \notin records
         THEN SchedulerGoes(t, "done") /\ UNCHANGED <<status, body>>
         ELSE \/ /\ status' = [status EXCEPT ![t] = "running"]
                 /\ SchedulerGoes(t, "waiting") /\ BodyGoes(t, "check")
              \/ /\ status' = [status EXCEPT ![t] = "failed"]
                 /\ SchedulerGoes(t, "done") /\ UNCHANGED body
    /\ UNCHANGED <<records, event, poller, reported>>

ExecutionEnds(t) ==
    /\ scheduler[t] = "waiting" /\ body[t] = "done"
    /\ SchedulerGoes(t, "done")
    /\ UNCHANGED <<records, status, event, body, poller, reported>>

\* The timeout asks the coroutine to stop, settles the record, and cancels the coroutine.
ExecutionTimesOut(t) ==
    /\ scheduler[t] = "waiting"
    /\ event' = [event EXCEPT ![t] = TRUE]
    /\ SchedulerGoes(t, "expired")
    /\ UNCHANGED <<records, status, body, poller, reported>>

SetsTimedOut(t) ==
    /\ scheduler[t] = "expired"
    /\ TrySetTerminal(t, "timed_out")
    /\ SchedulerGoes(t, "cancelling")
    /\ UNCHANGED <<records, event, body, poller, reported>>

CancelsExecution(t) ==
    /\ scheduler[t] = "cancelling"
    /\ SchedulerGoes(t, "done") /\ BodyGoes(t, "done")
    /\ UNCHANGED <<records, status, event, poller, reported>>
-----------------------------------------------------------------------------
(* _aexecute, on the isolated loop: the event is looked at before the agent *)
(* starts and at each chunk it yields, and not after the last one.          *)

Checks(t) ==
    /\ body[t] = "check"
    /\ IF event[t] THEN TrySetTerminal(t, "cancelled") /\ BodyGoes(t, "done")
                   ELSE BodyGoes(t, "turn") /\ UNCHANGED status
    /\ UNCHANGED <<records, event, scheduler, poller, reported>>

TurnYields(t) ==
    /\ body[t] = "turn"
    /\ BodyGoes(t, "check")
    /\ UNCHANGED <<records, status, event, scheduler, poller, reported>>

\* The stream is over, reaches its recursion limit, or raises, which the preparation of
\* the agent may do too.
BodyEnds(t) ==
    /\ \/ /\ body[t] = "turn"
          /\ TrySetTerminal(t, "completed") \/ TrySetTerminal(t, "max_turns_reached")
       \/ body[t] \in {"check", "turn"} /\ TrySetTerminal(t, "failed")
    /\ BodyGoes(t, "done")
    /\ UNCHANGED <<records, event, scheduler, poller, reported>>
-----------------------------------------------------------------------------
(* task_tool *)

\* A poll that finds an outcome, which the tool call returns with, or no record.
PollReturns(t) ==
    /\ poller[t] = "polling" /\ (t \in records => Settled(t))
    /\ reported' = [reported EXCEPT ![t] = IF t \in records THEN status[t] ELSE "none"]
    /\ records' = CleanedUp(t) /\ PollerGoes(t, "done")
    /\ UNCHANGED <<status, event, scheduler, body>>

\* The polls are used up: cancellation is asked for, and the record left to a task that
\* waits for its outcome.
PollsRunOut(t) ==
    /\ poller[t] = "polling" /\ t \in records
    /\ RequestCancel(t) /\ PollerGoes(t, "deferred")
    /\ UNCHANGED <<records, status, scheduler, body, reported>>

\* The parent run is cancelled: the tool call asks for cancellation and waits, until
\* there is an outcome, the polls are used up, or it is cancelled again.
ParentCancelled(t) ==
    /\ poller[t] = "polling"
    /\ RequestCancel(t) /\ PollerGoes(t, "waiting")
    /\ UNCHANGED <<records, status, scheduler, body, reported>>

StopsWaiting(t) ==
    /\ poller[t] = "waiting"
    /\ records' = CleanedUp(t)
    /\ PollerGoes(t, IF t \in records /\ Settled(t) THEN "done" ELSE "deferred")
    /\ UNCHANGED <<status, event, scheduler, body, reported>>

\* _deferred_cleanup_subagent_task, which gives up after as many polls.
DeferredCleanup(t) ==
    /\ poller[t] = "deferred"
    /\ records' = CleanedUp(t) /\ PollerGoes(t, "done")
    /\ UNCHANGED <<status, event, scheduler, body, reported>>
-----------------------------------------------------------------------------
SchedulerStep(t) == \/ TaskRuns(t) \/ ExecutionEnds(t)
                    \/ ExecutionTimesOut(t) \/ SetsTimedOut(t) \/ CancelsExecution(t)

BodyStep(t) == Checks(t) \/ TurnYields(t) \/ BodyEnds(t)

Polls(t) == PollReturns(t) \/ PollsRunOut(t) \/ StopsWaiting(t) \/ DeferredCleanup(t)

SubagentNext ==
    \E t \in Tasks : ExecuteAsync(t) \/ SchedulerStep(t) \/ BodyStep(t) \/ Polls(t) \/ ParentCancelled(t)

SubagentSpec == SubagentInit /\ [][SubagentNext]_subagentVars
-----------------------------------------------------------------------------
SubagentTypeOK ==
    /\ records \subseteq Tasks
    /\ status \in [Tasks -> Unsettled \cup Outcomes]
    /\ event \in [Tasks -> BOOLEAN]
    /\ scheduler \in [Tasks -> {"none", "queued", "waiting", "expired", "cancelling", "done"}]
    /\ body \in [Tasks -> {"none", "check", "turn", "done"}]
    /\ poller \in [Tasks -> {"none", "polling", "waiting", "deferred", "done"}]
    /\ reported \in [Tasks -> Outcomes \cup {"none"}]

\* What the tool call reported is and stays the outcome of the task, whichever of the
\* timeout, the cancellation and the end of the coroutine comes late; and the record of
\* a reported task is gone.  (executor.py 112-145, "late terminal writes must not
\* change status".)
ReportIsFinal ==
    \A t \in Tasks : reported[t] # "none" => status[t] = reported[t] /\ t \notin records

\* Every task that was started gets an outcome, even one that is cancelled or given up
\* by its tool call while it is queued, and one whose agent never returns.
\* (executor.py 854-883.)
SubagentsEnd == \A t \in Tasks : poller[t] = "polling" ~> Settled(t)
=============================================================================
