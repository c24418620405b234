# A TLA+ model of VassilFlow

VassilFlow runs agent graphs on behalf of users: a FastAPI Gateway admits *runs* on
conversation *threads*, executes each run as an asyncio task that writes checkpoints, streams
its events over SSE, records its outcome in SQL stores, and can delete a thread with everything
that belongs to it. This directory holds TLA+ modules of the parts of that program in which
concurrency, failure and ordering decide whether it is right, TLC configurations that check
them on small instances, and TLAPS proofs for every size of them.

Paths below are relative to the repository; `H/` is
`backend/packages/harness/vassilflow/`, `G/` is `backend/app/gateway/`.

- `tlc -config X.cfg M` runs a configuration of the table under [Runs](#runs);
- `tlapm M_proofs.tla` checks the proofs;
- `PROJECT.json` lists components, runs, the source lines each definition stands for, the
  hazards of the code with the properties that cover them, a faulty variant of the code for
  each property (a mutant, which TLC must find violated), findings and theorems.

## 1. Inventory

### Modelled

**Run registry and admission** (`H/runtime/runs/manager.py`). State: the `RunRecord`s (status,
abort event and action, the task), one asyncio lock for the registry, one admission lock per
thread; a row per run in a SQL store. Operations: `create_or_reject` with the strategies
reject, interrupt and rollback, `cancel`, `set_status` and its persistence with retries,
reconciliation of orphaned rows at startup, `shutdown`. Hard because an admission holds locks
over store writes and over the wait for the tasks it replaces, while those tasks need the
registry lock to end; because a status lives in memory and in a row that several coroutines
write; and because cancellation arrives at any await. Correct when a thread never has two
writers, a status never goes back, an aborted run is never a success, every request is
answered, and the rows agree with what happened once all is over.

**Run worker** (`H/runtime/runs/worker.py`). State: the locals of `run_agent` (which clause of
its `try` executes, the snapshot for a rollback, whether its capture failed) and the thread's
checkpoints. Operations: start, snapshot, streaming, the outcome, the two `except` clauses, the
rollback, the finalizer. Hard because `CancelledError` is raised at whatever await the task
stands, because the rollback replaces the content of the thread, and because a task may be
cancelled before its first step. Correct when a rollback takes back the output of its own run
and nothing else, and nobody but a cancelled waiter interrupts it or the finalizer.

**Start requests and run routes** (`G/services.py`, `G/routers/thread_runs.py`, `G/deps.py`).
`start_run` takes the thread's context lock, admits, marks the thread as running and creates
the task; the routes cancel runs, wait for them or join their streams. Clients disconnect, so
a start request may itself be cancelled at an await, and so may a request that waits for a run
it has cancelled: it awaits the run task itself, which is then cancelled once more.

**Event stream of a run** (`H/runtime/stream_bridge/memory.py`). State: per run a ring of
retained events with the offset of the first, a counter, an end mark. Operations: publish,
publish_end, subscribe with `Last-Event-ID`, cleanup a minute after the run. Hard because
eviction, reconnection, a foreign id and cleanup meet in the arithmetic of offsets. Correct when
a client gets the events in order, none twice, loses none but by eviction, and hears of the end.

**Thread lifecycle journal** (`H/runtime/lifecycle_journal.py`). State: files. An operation
(prepared, committed, aborted) and per handler a sequence of attempts with leases; one file lock
for mutations, none for reads. Operations: prepare, commit_source, abort_source, begin_attempt,
renew_attempt, finish_attempt, get, list. Hard because several processes use it, leases expire
while their holders work, a process may die between creating the directory of an attempt and its
`started.json`, and readers see that. Correct when an outcome is decided once, at most one lease
of a handler is valid, a superseded attempt is fenced, and a recorded success was carried out.

**Thread deletion and lifecycle dispatcher** (`G/routers/threads.py`,
`H/runtime/thread_lifecycle.py`, `G/domain_lifecycle.py`, `G/domain_repair.py`). The DELETE route
announces the deletion in the journal, purges files, checkpoints and rows, commits, has every
domain handler project the deletion, and removes the owner row last; `replay_user` projects what
was left. Hard because two requests and a replay interleave at every await and any of them dies.
Correct when only committed deletions are projected and the owner row outlives what it guards.

**Memory update queue** (`H/agents/memory/queue.py`, `updater.py`). State: the queue, one timer
with a generation and a deadline, the batch in flight with an event per update, tombstones of
deleted threads. Operations: add (debounced or not), discard and allow a thread, flush, the timer's
callback, the worker of a batch. Hard because callers, timers, flushes and the worker are threads
that meet under one lock, and a timer that is cancelled too late still has its callback. Correct
when nothing queued is forgotten, nothing of a deleted thread is saved, and no superseded timer
starts a batch.

**MCP session pool** (`H/mcp/session_pool.py`). State: the registered sessions in their order of
use, creations in flight, an owner task per session. Operations: get_session, close by scope, by
server or all, synchronously or not; eviction. Hard because sessions belong to event loops, a
creation may hang in `initialize`, and it can be closed, evicted or cancelled meanwhile. Correct
when an entered session is always found by whoever must end it, and what is registered is open.

**AIO sandbox provider** (`H/community/aio_sandbox/`). State: tracked sandboxes, the warm pool, the
activity times, the containers. Operations: acquire in four layers, release, get, the idle
checker, eviction, death of a container. Hard because the maps change under a lock and containers
are asked, started and stopped outside it, where a stop may fail. Correct when every container has
somebody who will stop it and a sandbox in use is not stopped.

**Subagent executor** (`H/subagents/executor.py`, `H/tools/builtins/task_tool.py`). State: result
records shared by a pool's thread, the coroutine on the isolated loop and the polling tool call.
Hard because a timeout, the cancellation of the parent and the end of the coroutine race, and the
record is removed while others still hold it. Correct when the first outcome stays, is the one
reported, and every task gets one.

**Domain action store and repair** (`H/actions/store.py`, `reconciliation.py`). State: per action
the files of its lease, its repair claim and its outcome. Hard because leases and claims expire
under holders that still work and a process dies between two files. Correct when an undecided
action is never held by its worker and a repair, or by two repairs.

**Channels** (`backend/app/channels/manager.py`). State: the dedupe keys of recent messages, the
handler tasks, slots, one lock per conversation, the mapping of conversations to threads. Hard
because messengers deliver twice, handlers are cancelled at any await by a stop, and locks are
made and forgotten on the way. Correct when a message is handled once, a conversation gets one
thread, and a stop leaves nothing behind.

How they interact: a start request creates worker tasks and, through the registry, cancels
others; the worker publishes to the stream bridge and writes the stores; routes subscribe to
the bridge; the deletion route shares the thread's rows and checkpoints with runs that still
execute; the dispatcher calls domain handlers, which are supplied by deployments (the shipped
composition root, `G/domain_lifecycle.py`, registers none). Middlewares of the agent put updates
into the memory queue and take sandboxes; its tools take MCP sessions and start subagents; the
deletion of a thread calls `discard_thread`; the channel manager is a client of the run routes.
Each of these is a call into a component that keeps its own state: no two of them share any.

### Not modelled

The coverage of the map is low by its nature: most of the repository (about 90,000 lines) is
adapters, configuration, CRUD over files, prompts and sequential transformations of messages, for
which a model would be a second program. What has state that is shared, survives or is timed is
modelled, but for the following; `PROJECT.json` gives every component its reason.

- Run and thread stores as SQL: their rows are variables of the models.
- The run event journal and its stores: buffering; only observability depends on it.
- Checkpointer and store providers: construct third-party savers, which are outside.
- Thread state routes and compaction: they read and write checkpoints with one lock or none; a
  model of them would say no more than that the state routes take none.
- The memory's file cache and its merge of facts; the messages of subagents; remote sandboxes,
  several processes on one host; tool caches and OAuth tokens.
- Lead agent and middlewares, sandbox tools, the vendors' channel adapters, authentication, other
  routers, configuration, models, skills, the embedded client, `vassilflow_core`, the frontend,
  deployment files.

## 2. Modules

| Module | What it is |
|---|---|
| `ThreadOwnership` | abstract: a thread has one owner, and only the owner adds to its content or takes its own addition back |
| `RunLifecycle` | registry, admission, worker, cancellation, stores, shutdown, crash and restart |
| `EventFeed` | abstract: clients receive numbered events in order, never twice, the end last |
| `StreamBridge` | `MemoryStreamBridge` for one run |
| `ProjectionOutbox` | abstract: announced, decided once, delivered once per handler after the commit |
| `LifecycleJournal` | the journal: its files as state, its operations as operators |
| `ThreadDeletion` | extends the journal with the route, the dispatcher, the replay and their environment |
| `MemoryQueue` | the queue of memory updates and the worker of its batches |
| `McpSessionPool` | the pool of MCP sessions |
| `SandboxPool` | sandboxes, warm pool, idle checker, containers |
| `Subagents` | background subagents with their pool, coroutine and tool call |
| `ActionStore` | lease, claim and outcome of an action, and its repairs |
| `Inbox` | abstract: a message is in the hands of one handler, and turned away only while somebody has it or has lost it |
| `Channels` | the manager of the messenger channels |
| `MCRunLifecycle` | model values and thread assignments for TLC |
| `MCServices` | the components that share no state, each explored on its own in one run |
| `*_proofs` | the theorems; `Services_proofs` has those of `Subagents`, of `ActionStore` and of the composition `MCServices` |

### RunLifecycle

The Gateway is one asyncio loop, so **a step is the code between two awaits**, and a control
state is the await at which a coroutine stands. `pc[r]` is the place of `run_agent`, `adm[r]`
that of its start request; `task.cancel()` sets `cancelReq[r]`, which a later step of the worker
consumes at a place where the code can be interrupted. `phase[r]` is the clause of the `try`.

| Action | Code |
|---|---|
| `Requests` ... `Launches` | `start_run` under the context lock, `create_or_reject`: `Inserts`/`Rejects` (the registry lock is taken and kept over the first write), `Replaces` (row stored, predecessors aborted, lock released), `PutFails`, `PersistsReplaced`, `PredecessorsEnd`/`WaitTimesOut`, `SettlesReplaced`, `Launches` |
| `RequestCancelled`, `MarksFailed`, `PersistsFailed` | a `CancelledError` or failure in the request, and the `except BaseException` path |
| `Starts`, `GetsLock`, `PersistsStatus`, `Captures`, `AgentWrites`, `StreamEnds` | the body of `run_agent`; `GetsLock` is a `set_status` that had to wait for the registry lock |
| `StreamRaises`, `CancelledInBody`, `CancelledInHandler`, `AgentSwallows` | the `except` clauses, and where a cancellation can go |
| `RollsBack`, `Concludes`, `GetsLockAtEnd`, `Completes`, `Finishes` | the rollback and the finalizer: the status is read, `update_run_completion` takes the registry lock and writes it, then the thread status and `publish_end` |
| `WaiterCancelled`, `CancelledInFinalizer` | a cancel request with `wait` is cancelled itself and takes the run task with it; what the finalizer still had to do is not done |
| `NeverRuns`, `Skips` | a task cancelled before its first step; the early return of `run_agent` on the abort event |
| `Cancels`, `DelayedWrite` | `cancel()` and the status write it makes after releasing the lock; a write that a `CancelledError` cuts short may have been made (`CutShort`) |
| `ShutsDown`, `Drained`, `ProcessEnds`, `Boots` | `shutdown`, exit or crash, `reconcile_orphaned_inflight_runs` |

Abstractions. `head[t]` is the set of runs whose output the latest checkpoint of a thread
carries, which is what a rollback can get wrong. A run has one batch of output. A graph that
succeeds has written a checkpoint. Once a shutdown drains, no new start or cancel request
arrives (the server has stopped accepting), and none that waits is cancelled. A run that is
aborted has been cancelled or replaced, and either way a client may wait for it: `cancel()` answers
yes for a run that is interrupted already. `cleanup`, `create` and `update_run_progress` have
no caller, and reads change nothing. `Boots` is the reconciliation the Gateway makes for sqlite;
with PostgreSQL it makes none (`G/deps.py:235`), and `RowsSettle` is not claimed there.

### StreamBridge

`publish` and one turn of the loop in `subscribe` await nothing but the condition they hold, so
each is a step; waiting is being disabled. Numbers of events stand for their content, ids are a
stream and a number. A subscription keeps the `_RunStream` it found, so there are two: the one
of the run and the one a subscription makes after cleanup. Malformed ids and ids of other runs
are those of origin 0. Heartbeats are stuttering steps.

### LifecycleJournal and ThreadDeletion

`source[t]` is the marker files of the deletion of a thread, `attempts` the readable attempts of
each pair of thread and handler, `torn` the pairs that have a directory without `started.json`.
All mutations but `begin_attempt` are one step under the lock; `begin_attempt` is two, so that a
death or a reader can come between. `task[w]` holds the locals of each request and replay. The
clock is the action `Expires`; `renew_attempt` is `Renews`, at any time the heartbeat may come.
`get` is called without the lock after a commit and after an outcome (`Rereads`, and part of
`Concludes`): it fails while any attempt of the operation is torn. `RunWrites` and `RunEnds` are
a run of the thread that is still in flight, which the route does not look for.

Abstractions. Handlers are a set and their order is left open; a handler that this process does
not have counts as a fault. Branch events take the same path and are not repeated. A replay does
not reach its limit of 500 operations. Torn source markers, legacy events and links in the
journal's directory are left out. A request that dies can have died alone or with its process;
the lock goes in both cases.

### MemoryQueue

The steps are the critical sections of the queue's lock and the stages of an update (ask the
model, check the cancellation, write). `timer` is the generation of the armed timer; a callback
that waits for the lock is its generation in `callbacks`, so that one that was cancelled too late
is there still. `Add` is both forms of adding, `TimerFires` and `CallbackRuns` the two halves of
an expiry, `FlushBegins` and `FlushProcesses` the two critical sections of `flush`, `WorkerTakes`
to `WorkerEnds` the batch. Time is the deadline, ahead or past. The agent name and the content of
an update are left out.

### McpSessionPool

An owner task is named after the call of `get_session` that made it. `pc` of a call is the place
between two critical sections: `evict` (telling and waiting for what it evicted), `join`,
`create`, `unwind` and `teardown`. What a caller sends to another loop is in `posted` until
`Delivered`. `CloserTells` is the second half of each closing operation, after it has taken the
owners from the registry. `Initializes` is not fair: a server may never answer.

### SandboxPool

A sandbox id is a hash of user and thread, so a thread names its sandbox, its container and its
acquisition. An acquisition goes through the layers of `_acquire_internal`, first without and then
with the file lock; each layer reads the maps in one step, asks the backend and acts in another.
`doomed` holds what was taken from the maps and is not stopped yet. Each stop may fail
(`Destroys`): the error is logged and the container goes on, which `abandoned` remembers until an
acquisition discovers and registers it. `SandboxInfo` objects have an identity, because the code
compares them with `is`.

### Subagents

`scheduler` is the pool's thread (`run_task`), `body` the coroutine, `poller` the tool call with
its cancelled and deferred forms. Time is left out: polls, their limit and the timeout come at any
moment. Nothing is assumed of the agent's turn, not even that it ends.

### ActionStore

The file lock of the store is held for all of an operation, so each is one step; `Crash` is a
death between `outcome.json` and the removal of the other two files. A repair is the loop body of
`ActionRepairService.repair` with the step it has reached.

### Channels

One event loop: a handler stands at an await (`at`). `Dispatches` is one turn of the loop with the
dedupe test; `missed`, `locking`, `again`, `create` and `store` are the awaits of
`_get_or_create_thread` and `_create_thread`. A lock is named after the handler that made it, so
that a lock that was forgotten and one that was made after it are different. `CancelTaken` is the
`CancelledError` of a stop at any of these places. `/new` creates a thread without the lock, as in
the code; `/bootstrap` and skills are chats. `StreamBreaks` is the error of a stream, which the
code catches where it reads the stream: the handler goes on to reply, and the message stays seen.
The order in which a lock wakes its waiters is left open, and a call that creates a thread may
have created it when it is cancelled.

### MCServices

`MemoryQueue`, `McpSessionPool`, `SandboxPool`, `Subagents`, `ActionStore`, `StreamBridge` and
`Channels` share no variable. One run checks them: the first state chooses a service (`focus`),
only that one moves, and the others stay in their initial states. That explores the state graph of
each, side by side instead of multiplied, and every property is about one of them. In each
fairness condition the choice of the service is repeated; it changes nothing, because `focus`
never changes and an action of another service is not a step of its variables.

## 3. Runs

| Run | Instance | Shows |
|---|---|---|
| `lifecycle` | 3 runs of 1 thread, 1 fault, no restart, symmetric in the runs; 4.2 million states | `OneWriter`, `SnapshotFaithful`, `AbortedNeverSucceeds`, `FinalizerUndisturbed`, `ReplacementSettled`, `StatusForward` |
| `threads` | 2 runs of one thread, 1 of another that holds the lock and does no more, 1 fault; 0.9 million states | `NoOwnerlessRun`, also where admissions of different threads meet at the registry lock; the refinement of `ThreadOwnership` |
| `restart` | 2 runs, no fault, 1 shutdown or crash and a restart, with fairness; 198,736 states | `RowsSettle`, `SuccessKept`, `RequestsAnswered`, `TasksEnd` |
| `deletion` | 1 thread, 1 handler, 2 deletions and 1 replay, 2 attempts, 1 fault, 1 death, with fairness; 201,972 states | `OnlyCommitted`, `SuccessIsReal`, `OneLease`, `Fenced`, `OwnerOutlivesProjection`, `DispatchEnds`; the refinement of `ProjectionOutbox` |
| `services` | the seven services, see below; 240,800 states | the properties of the table below |
| `hanging_stream` | 2 runs, no fault | `StreamsEnd` is violated |
| `stale_history` | 2 runs, no fault | `HistoryAgrees` is violated |
| `late_join` | 1 client, 1 event, 1 connection | `EveryStreamEnds` is violated |
| `retry_refused` | 2 deletions, no handlers (as shipped), 1 fault | `RetryFinalises` is violated |
| `active_thread` | 2 deletions, no handlers (as shipped), no fault | `OwnershipOutlivesCheckpoints` is violated |
| `reaper` | 2 threads, 1 replica, no death | `ReapedIsIdle` is violated |
| `one_creator` | 3 chats of 1 conversation, 1 error | `OneCreator` is violated |

What `services` checks of each service:

| Service | Bounds | Properties |
|---|---|---|
| memory queue | 2 threads of 1 user, 4 calls | `NothingForgotten`, `Tombstoned`, `BatchIsDue`, `QueueDrains` |
| MCP sessions | 2 calls of `get_session`, 2 keys, 2 loops, 1 session, 2 closings, 1 cancelled caller | `NoLeakedSession`, `RegisteredIsOpen`, `ToldEnds` |
| sandboxes | 2 threads, 1 replica, 2 infos, 1 death, at most one container adopted at startup | `NoOrphanContainer` |
| subagents | 2 tasks, 1 slot | `ReportIsFinal`, `SubagentsEnd` |
| action | 2 repairs, 3 claims, 2 crashes | `LeaseOrClaim` |
| event stream | 2 clients, 4 connections, 4 events of which 2 are retained | `NoSilentGap`, `ServedToTheEnd`, the refinement of `EventFeed` |
| channels | 1 conversation, 3 deliveries of given messages, 2 slots, 1 error, broken stream or lapsed key, 1 stop | `StopIsClean`, `OneThread`, `HandlersEnd`, the refinement of `Inbox` |

**Why these bounds.** Threads share only the registry lock. The runs of one thread contend for it
as well, but an admission that fails while another one holds the lock takes two threads, which is
what `threads` is for; the run of the second thread is there to hold the lock, so the constraint
`Bystander` keeps it from being cancelled and its task at the first step. Three runs give a
replacement that is itself replaced while its predecessor finishes, and a rollback between two
other runs. One fault reaches every error path, the second cancellation of a run and of a failed
admission included; the paths after it are the code's handling of one failure. Two runs suffice
for a restart: a live run and its replacement. Four events with two retained allow a client to be
behind by more than the ring, to return at an event that is still there, just evicted or long
gone, and to come back twice. Two deletions and a replay give every pair of actors of the journal,
and two attempts with one death let a lease expire, be taken over, and the limit of attempts (100
in the code, `_MAX_ATTEMPTS_PER_HANDLER`) be reached. In the two deletion runs without handlers
the instance is the shipped Gateway.

In the services two of each actor give every pair of them, and each limit is one below the demand:
one session and two keys evict, one replica and two threads evict, one slot and two tasks wait.
Four calls of the queue are an update, a deletion that races its batch, the thread's return and
another update; a second user would only be a second thread. A pool with one session evicts at
the second call, from a session of the other loop; two closings reach one that is being evicted
and one that is being created. The messages of the channels are chosen: a redelivery beside
another chat, and two chats with `/new`; three deliveries put one handler behind two slots, and
one that waits for a lock behind one that holds it. The bounds on calls, infos and deliveries end
a behaviour; they are no claim that the code stops there. Keys, loops and threads are alike, so the
run follows only the calls of `get_session` whose first one has a given key and loop (the constraint
`FirstCall`; no fairness condition is about a new call), and a container to adopt is that of a given
thread.

**Deadlock** is checked in `RunLifecycle` and `ThreadDeletion`, where `Idle` and `Rests` name the
states in which all is over (`Idle` asks that no request, task or write is left). The other
configurations switch it off: a service that nobody calls has nothing to do.

**Fairness.** asyncio resumes every coroutine that can go on: weak fairness of each worker, of
each admission, of the delayed write, of the end of the drain and of the start of the process.
A graph ends, because langgraph's `recursion_limit` bounds it; handlers end. In `StreamBridge`
the worker calls `publish_end`, the cleanup follows it, and each open subscription is served. In
`ThreadDeletion` each request and replay goes on when it can. In the memory queue timers fire,
threads get the lock, and an update ends, because the model call has a timeout. In the session
pool loops run what is ready, but a server need not answer `initialize`. Of subagents the pool runs
what is queued, the timeout comes and the tool call polls, but an agent's turn need not end. In
the channels a handler goes on, because the client of the Gateway has timeouts, and a stop that
has begun goes on. Messages need neither come nor be dispatched. No fairness is assumed of
clients, callers, cancellations, renewals, expiring leases, faults, crashes, or runs in flight.

Each property of a passing run has a mutant: a variant of a definition, written beside it and
marked `Mutant:`, that errs as a change of the code might (a dropped guard, a lock not released,
an off-by-one, an outcome not looked at), and TLC finds the property violated by it.

## 4. What the code does otherwise than it says

Seven of the runs end in a violation; `PROJECT.json` quotes the lines.

- **`StreamsEnd`** (`H/runtime/runs/worker.py:469`). The end of a stream is published in the
  `finally` clause of `run_agent`. A task cancelled before its first step never enters the `try`,
  so subscribers of that run wait for ever; the comment at `worker.py:175-180` says every path
  publishes it.
- **`HistoryAgrees`** (`manager.py:553`). `cancel()` writes "interrupted" after it released the
  lock. The write can overtake the worker's final ones: the record ends as an error after a
  rollback, the row says interrupted. `manager.py:679-680` describes the race and repairs it for
  replacements only.
- **`EveryStreamEnds`** (`memory.py:116`). A client that joins a finished run after the cleanup
  makes a new stream, which nobody ends. For connections made before, `ServedToTheEnd` holds.
- **`RetryFinalises`** (`lifecycle_journal.py:756`). A deletion refused with 503 aborts its
  operation, whose id depends on owner, event and thread only; each retry purges the stores and
  then fails at the commit. `docs/HARDENING.md:19-21` promises the retry.
- **`OwnershipOutlivesCheckpoints`** (`G/routers/threads.py:477`). The route does not ask whether
  a run of the thread is in flight; its next checkpoint outlives the owner row.
- **`ReapedIsIdle`** (`aio_sandbox_provider.py:413`). The idle checker verifies under the lock
  that a sandbox is idle and destroys it after the lock was released; one that is used in between
  is destroyed under its user. The comment at 399-401 says it is verified "before destroying".
- **`OneCreator`** (`channels/manager.py:1289`). Whoever leaves `_get_or_create_thread` removes the
  conversation's lock although others wait for it. After a creation that failed, the next message
  makes another lock and two threads are created; line 1272 says "at most one thread per
  conversation". Without an error the second look at the mapping saves it (`OneThread`).

Four more disagreements were met. Each is a step of its model, and the property that would deny it
names it as its one exception, so that everything around it is still checked and proved:

- **A second cancellation of a finalizer** (`G/routers/thread_runs.py:533` and `599`). The cancel
  routes with `wait` do `await record.task`, without a shield. When such a request is cancelled,
  the worker gets another `CancelledError`, in its rollback or in its finalizer as well; a
  rollback is then lost, and `publish_end` is not called. `manager.py:653-654` says "Never
  interrupt a rollback/finalizer a second time, and do not turn a completed run's remaining
  cleanup into rollback", and 671-672 that predecessors' "rollback must finish independently". In
  `FinalizerUndisturbed` the exception is `WaiterCancelled`; cancel(), replacements and shutdowns
  keep the rule. `OneWriter`, `SnapshotFaithful`, `SuccessKept`, `TasksEnd` and the others hold
  although such a cancellation may come.
- **An owner row that goes before its handler has failed** (`H/runtime/thread_lifecycle.py:220`).
  While another request or a replay executes a handler, `begin_attempt` returns None; the dispatch
  goes on as if the handler had succeeded, and its request removes the owner row. When the handler
  fails after that, the row is gone. `G/routers/threads.py:492-493` says "A failed handler leaves
  thread_meta available for retry." In `OwnerOutlivesProjection` the exception is `set_aside`; of
  every other handler it asks that it has succeeded.
- **A container whose stop failed** (`H/community/aio_sandbox/local_backend.py:617-618`,
  `aio_sandbox_provider.py:422`, `650` and `842`). The maps forget a sandbox before its container
  is stopped, and a failed stop is logged: the container runs on in nobody's map, until an
  acquisition of its thread discovers it. No line promises more, but nothing tries again either.
  In `NoOrphanContainer` the exception is `abandoned`, which it shares with a container whose
  `acquire_async` was cancelled.
- **The error of a stream** (`backend/app/channels/manager.py:1527-1532`). It is caught where the
  stream is read, the user is told, and the handler ends as if it had answered: the message keeps
  its dedupe key and a redelivery is dropped. Lines 1074-1077 say "if handling fails we must not
  turn a recoverable error into a TTL-long black hole for the same message_id", and 1136-1138
  "release the dedupe key so a provider redelivery of the same message can recover instead of
  being dropped". In the refinement of `Inbox` the exception is the step `Lose`; no other error
  takes it.

Some behaviours are part of the models without a finding, because no line denies them:

- a start request cancelled between admission and launch leaves a pending record nobody starts
  (the exception of `NoOwnerlessRun`);
- a death inside `begin_attempt` leaves an operation that `get` and `list` refuse to read until
  someone repairs the directory (`DispatchEnds` shows that nobody hangs, `OwnerOutlivesProjection`
  that the owner row stays);
- a caller of `get_session` that is cancelled while it waits for another loop leaves what it has
  evicted and not told (`Abandoned`, the exception of `NoLeakedSession`);
- an `acquire_async` cancelled while its container starts leaves the container until a restart or
  another acquisition of the thread adopts it.

What some properties do not say:

- `RowsSettle`, `ReplacementSettled` and `HistoryAgrees` speak of behaviours without store
  failures: what a failed write leaves behind is not promised.
- `Tombstoned` is about the queue and the marks of the batch. A deletion between the last look at
  the mark (`updater.py:552`) and the save (554) comes too late for that update.
- `LeaseOrClaim` speaks of actions that are undecided. Once an outcome is written, a lease or a
  claim may be left beside it by a death, and an expired claim may still be the one to write the
  outcome while the worker has renewed its lease.
- `RegisteredIsOpen` knows no transport that dies by itself, and `ToldEnds` is about the owners of
  sessions, not about callers that wait for one.
- `StopIsClean` is about handlers that a stop cancelled before they had an outcome: one that is
  cancelled while it says that it was refused keeps its key, like one that has said so.
- `QueueDrains` is checked with boundedly many calls; adds without end would put off a debounce
  for ever. In `StreamBridge` waiting is being disabled, so `ServedToTheEnd` does not depend on
  who is notified.

## 5. Proofs

All hold for every size of the sets and every bound. The assumptions are named in the modules and
ask what makes the constants meaningful: each run has a thread, bounds are natural numbers, limits
(events retained, sessions, slots) are at least one where the code's constructors give that, and
the distinguished values are none of the others.

| Module | Theorems |
|---|---|
| `RunLifecycle_proofs` | `Invariance`, `TypeCorrect`, `OneWriterAlways`, `RollbackFaithful`, `AbortWins`, `FinalizerSafe`, `RunsOwned`, `StatusesForward`, `OwnershipImplemented`, `StoresKept`, `SuccessStays`, `RowsSettled`, `ReplacementsSettled` |
| `StreamBridge_proofs` | `BridgeInvariance`, `BridgeTypeCorrect`, `OffsetsAgree`, `GapsAreEvictions`, `FeedImplemented` |
| `ThreadDeletion_proofs` | `Invariance`, `TypeCorrect`, `CommittedOnly`, `SuccessReal`, `OwnerLast`, `OneLeaseAlways`, `OwnGenerations`, `FencedAlways`, `OutboxImplemented` |
| `MemoryQueue_proofs` | `QueueTypeCorrect`, `NothingIsForgotten`, `DeletedStaysOut`, `OneWayToStart`, `BatchesAreDue` |
| `McpSessionPool_proofs` | `PoolTypeCorrect`, `NoSessionLeaks`, `RegisteredStaysOpen` |
| `SandboxPool_proofs` | `SandboxTypeCorrect`, `ContainersAreHeld`, `RegistrationReplacesNone` |
| `Channels_proofs` | `ChannelsTypeCorrect`, `ChannelsHandleOnce`, `ChannelsStopClean`, `ChannelsOneThread`, `OneCreatorUntilError`, `NoLockIsLeft`, `SlotsAreBounded`, `InboxImplemented` |
| `Services_proofs` | `SubagentTypeCorrect`, `ReportStaysTrue`, `RecordIsFound`, `OutcomeNeverChanges`; `ActionTypeCorrect`, `LeaseExcludesClaim`; `ServicesImplement`, `ServicesTypeCorrect`, `ServicesSafe` |

**RunLifecycle.** `OneWriter` is not inductive: a request could launch beside a live task. It
becomes so with what the admission knows at each of its awaits. `OneRequest`: the locks of a
thread belong to the one request in progress on it. `LaunchedOnly`: only admitted requests have
tasks. `Watching`: until the wait is over, a request watches *every* live task of its thread,
which is why terminal runs whose task still finalizes must count as in flight. `Quiet`: after
the wait no task is alive. Then, in order, each on top of the last: `Snapshots` (a run has no
output before its snapshot; only a run with a snapshot restores), so that `base` is the content
without the run's own output, because nobody else writes the thread meanwhile; `Aborts` (a
success that waits for the lock and is aborted there has its `CancelledError` pending, which
comes first); `Progress` (status, request, task and pending cancellation agree: at each place
which statuses are possible, what the body has seen of an abort, and where a cancellation may be on
its way). `FinalizerSafe` is an action
property on top of it: a run that `cancel()`, a replacement or a shutdown may still abort has a
live status, and a live status is one of a worker outside its rollback and finalizer; the request
that waits is the step that asks for no status. The refinement maps the owner of a thread to the
run whose task is alive.

A second invariant, `Stores`, on top of the first and of `StatusForward`, is about what is written
down. `Kept`: a success has its output in the thread from the moment it waits for the registry
lock, and only an `error` restores. `LateWrites`: a write still to be made is of a run that is
over. `Replacing` and `OwnWrites`: the runs a request replaces stay over, and nobody but the
request writes their rows while it settles them, which is what the second persist loop is for.
`Settling`: without failures a row that says pending or running is true, or somebody *owes* it the
outcome (a scheduled write, the persist loop of a replacement, the worker before its last write, a
failed admission); nobody owes anything at rest.

**StreamBridge.** The retained events are the last ones published (`Window`), the one at index
`i` has number `start + i - 1` (`SeqIsOffset`), and each subscription reads on at or after its
client's position, all in between being evicted (`Positions`). That makes the arithmetic of
`_resolve_start_offset` right and every gap an eviction; a delivery is then a `Receive` of the
feed, and the end comes when the position is the number of events published.

**ThreadDeletion.** Layer one, `IInv`: for each request and replay, what the journal and stores
say at the place where it stands (`Well`: after the intent it is announced, while it dispatches
it is committed, a handler it has left behind without a failure has succeeded or was set aside,
`Covered`); `OwnerLast` reads that in the step that removes the owner row. The lock is held
across two steps by `begin_attempt` only (`LockHeld`); all attempts but the newest have not
succeeded and hold no lease (`Trail`). Since others only ever add to the journal (`Monotone`), a
step of one task leaves what is known of the rest. Layer two, `Generations`: whoever executes a
handler has its own attempt, still "running". Without it two workers of one generation could
publish two outcomes, so the fence and the outbox rest on it.

**MemoryQueue.** That something will take a queued update is not inductive without knowing which
callbacks are obsolete: while a batch is processed there is neither a timer nor a callback of the
current generation (`DueCallbacks`), so the end of the batch is the only step that has to arm one.
`Tombstoned` is proved with what `discard_thread` marks of the batch.

**McpSessionPool.** The invariant says of every owner where it can be found: at most one session or
creation per key (`OnePerKey`), what was taken from the registry is in somebody's hands until it is
told (`TakenOut`), a creation in flight belongs to a call that will finish it (`InFlight`), and
what the future of an owner says of its task (`TasksOK`).

**SandboxPool.** An acquisition that has read the maps may act on what they were; the file lock
and the thread's lock keep others of the same thread out. What is known at each layer (`Layers`)
gives that a registration replaces nothing, and that what is registered stops the container that
runs, so that a container which was left behind is held again. From that every container has a
holder (`Holders`) or is left behind.

**Subagents.** The record of a task is there as long as the scheduler or the tool call may ask for
it (`RecordKept`), and a task not yet started is untouched (`Untouched`).

**ActionStore.** Claims have ids of their own, so at most one repair holds the claim of record
(`ClaimsDiffer`), and a lease and a claim are never both live on an undecided action
(`LeaseXorClaim`).

**Channels.** Of a handler's step only three things matter beyond its own place: what it does to
its key, to its lock, and to the mapping (`HandlerMove` says each step that way, `HandlerFrame`
what all have in common), so that the parts of the invariant are proved from these and not from
the actions. *Keys* (`KeysOK`): a key is there because a handler `Claims` it, and two handlers
claim one message only if its key had lapsed; for `Accepted` alone this is not inductive, since a
cancelled stream keeps its key until it has said goodbye, and a broken one for good. That gives
the refinement of `Inbox` (`InboxImplemented`), `HandledOnce` which is a part of it, and the
second half of `StopIsClean`. *Stops* (`StopsHold`): whoever is alive while a stop drains is
cancelled or says goodbye. *Locks*: whoever stands at a lock has one of his conversation
(`LocksFit`), a known lock is used (`LocksUsed`), one handler holds it (`OneHolder`). *Threads*
(`ThreadsFit`): `OneThread` looks false, because whoever leaves the lock forgets it while others
wait. It holds as long as no handler fails: a lock is let go of by a handler that has made the
thread, or has found it made, and those who still wait for the old lock or find a new one look the
mapping up again; or by a cancelled one, and then they all are cancelled (`LockIsKnown` is about
the others, `MakersDone`, `OneMaker`). An error is the one way out that leaves the conversation
without a thread and the waiters with a forgotten lock. `OneCreatorUntilError` says that this is
all that is behind the violation of `OneCreator` in the run `one_creator`.

**Services.** A step of `MCServices` is one of the component in focus and leaves the variables of
the others alone, so `ServicesSpec` implements the specification of each (`ServicesImplement`), and
all their safety invariants hold in the composition that the run explores (`ServicesTypeCorrect`,
`ServicesSafe`). The run's extra restrictions, which arrivals are tried and who may go on, only take
behaviours away.

**Only model-checked.** Everything temporal under fairness: `RequestsAnswered`, `TasksEnd`,
`ServedToTheEnd`, `DispatchEnds`, `QueueDrains`, `ToldEnds`, `SubagentsEnd`, `HandlersEnd`; every
other property of a passing run is a theorem. The violations are counterexamples of TLC. Liveness,
ENABLED, induction over data and RECURSIVE operators are beyond the prover; the modules use no
recursion.

## 6. Plan

Done: `RunLifecycle` (the core: everything a user sees goes through it), then `StreamBridge`
(shares the run's end with it), then `ThreadDeletion` (shares the thread), then the services that
the agent and the messengers use.

Every safety property and action property of a passing run is a theorem, and the composition of
the services is proved to inherit theirs.

Left, in this order:

1. `SandboxPool` with shutdown and a second process on the host, which meet at the file lock;
2. the run event journal with its flush and its retry, once a property of the history is wanted;
3. the file cache of the memory storage beside the routes that edit the memory.
