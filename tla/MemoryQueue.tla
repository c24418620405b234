---------------------------- MODULE MemoryQueue ----------------------------
(***************************************************************************)
(* The debounced queue of memory updates (agents/memory/queue.py) and the  *)
(* worker that carries its batches out (agents/memory/updater.py).  Four   *)
(* kinds of thread meet under one lock: callers that add an update or      *)
(* delete a thread, timers, callers of flush, and the worker of a batch.   *)
(*                                                                         *)
(* A timer that is cancelled too late has a callback that waits for the    *)
(* lock; the generation it carries tells it that it is obsolete.  Contexts *)
(* are the targets of an update (the agent name is part of no decision and *)
(* is left out); the order of a batch is left open.  Time is the deadline  *)
(* of the debounce: ahead ("later") or reached ("past").                   *)
(***************************************************************************)
EXTENDS Naturals, FiniteSets

CONSTANTS Conversations,   \* thread ids
          Owners,          \* user ids
          Anyone,          \* the default user_id=None of discard_thread
          MaxCalls         \* bound on the calls of the public operations

ASSUME AnyoneAssumption == Anyone \notin Owners
ASSUME CallsAssumption == MaxCalls \in Nat

Targets == Conversations \X Owners
NoTarget == <<>>

VARIABLES
  queued,       \* _queue: the targets with an update that waits
  tombstones,   \* _discarded_threads
  timer,        \* generation of the armed threading.Timer, 0 when none is armed
  generation,   \* _timer_generation
  callbacks,    \* generations of the callbacks that wait for the lock
  deadline,     \* _pending_deadline: "none", "later" or "past"
  flushWanted,  \* _pending_flush
  processing,   \* _processing
  batch,        \* _active_contexts
  cancelled,    \* the members of the batch whose event is set
  todo,         \* the members of the batch the worker has not taken up
  job,          \* the update the worker carries out
  stage,        \* how far it is: "model" is asked, answer to "check", "write"
  flushers,     \* calls of flush between their two critical sections
  calls         \* public calls so far

timerVars  == <<timer, generation, deadline, flushWanted>>
workerVars == <<processing, batch, cancelled, todo, job, stage>>
queueVars  == <<queued, tombstones, timerVars, callbacks, workerVars, flushers, calls>>

QueueInit ==
    /\ queued = {} /\ tombstones = {} /\ callbacks = {}
    /\ timer = 0 /\ generation = 0 /\ deadline = "none" /\ flushWanted = FALSE
    /\ processing = FALSE /\ batch = {} /\ cancelled = {} /\ todo = {}
    /\ job = NoTarget /\ stage = "idle" /\ flushers = 0 /\ calls = 0
-----------------------------------------------------------------------------
Called == calls < MaxCalls /\ calls' = calls + 1

Matches(c, d, o) == c[1] = d /\ (o = Anyone \/ c[2] = o)
Discarded(c) == <<c[1], c[2]>> \in tombstones \/ <<c[1], Anyone>> \in tombstones

\* _cancel_timer_locked: callbacks that wait for the lock become obsolete.
CancelTimer == timer' = 0 /\ generation' = generation + 1

NoDeadline == deadline' = "none" /\ flushWanted' = FALSE

\* Mutant: the timer is armed before the generation is counted.
ArmsOldTimer(immediate, busy) ==
    /\ generation' = generation + 1
    /\ deadline' = IF immediate THEN "past" ELSE "later"
    /\ flushWanted' = (flushWanted \/ immediate)
    /\ timer' = IF busy THEN 0 ELSE generation

\* _schedule_timer for a queue that is not empty.  While a batch is processed the
\* deadline is left to its worker.
Schedule(immediate, busy) ==
    /\ generation' = generation + 1
    /\ deadline' = IF immediate THEN "past" ELSE "later"
    /\ flushWanted' = (flushWanted \/ immediate)
    /\ timer' = IF busy THEN 0 ELSE generation + 1

\* add and add_nowait, which merge with an update of the same target that waits.
Add(c, immediate) ==
    /\ Called
    /\ ~Discarded(c)
    /\ queued' = queued \cup {c}
    /\ Schedule(immediate, processing)
    /\ UNCHANGED <<tombstones, callbacks, workerVars, flushers>>

FlushNowait ==
    /\ Called
    /\ IF queued = {} THEN CancelTimer /\ NoDeadline ELSE Schedule(TRUE, processing)
    /\ UNCHANGED <<queued, tombstones, callbacks, workerVars, flushers>>

\* Mutant: the batch in flight is not cancelled.
DiscardsQueued(d, o) ==
    /\ Called
    /\ tombstones' = tombstones \cup {<<d, o>>}
    /\ queued' = {c \in queued : ~Matches(c, d, o)}
    /\ IF queued' = {} THEN CancelTimer /\ NoDeadline ELSE UNCHANGED timerVars
    /\ UNCHANGED <<callbacks, workerVars, flushers>>

DiscardThread(d, o) ==
    /\ Called
    /\ tombstones' = tombstones \cup {<<d, o>>}
    /\ queued' = {c \in queued : ~Matches(c, d, o)}
    /\ cancelled' = cancelled \cup {c \in batch : Matches(c, d, o)}
    /\ IF queued' = {} THEN CancelTimer /\ NoDeadline ELSE UNCHANGED timerVars
    /\ UNCHANGED <<callbacks, processing, batch, todo, job, stage, flushers>>

AllowThread(d, o) ==
    /\ Called
    /\ tombstones' = tombstones \ {<<d, o>>, <<d, Anyone>>}
    /\ UNCHANGED <<queued, timerVars, callbacks, workerVars, flushers>>

\* The timer's delay is over, or it was armed with none.
DeadlineComes ==
    /\ deadline = "later"
    /\ deadline' = "past"
    /\ UNCHANGED <<queued, tombstones, timer, generation, flushWanted, callbacks, workerVars, flushers, calls>>

TimerFires ==
    /\ timer # 0
    /\ flushWanted \/ deadline = "past"
    /\ callbacks' = callbacks \cup {timer}
    /\ timer' = 0
    /\ UNCHANGED <<queued, tombstones, generation, deadline, flushWanted, workerVars, flushers, calls>>

\* _process_queue once it is not obsolete: the queue becomes the batch of a new worker,
\* or a follow-up of the batch that is processed.
TakeBatch ==
    IF processing
      THEN /\ flushWanted' = (queued # {})
           /\ UNCHANGED <<queued, timer, generation, deadline, workerVars>>
      ELSE /\ CancelTimer /\ NoDeadline
           /\ processing' = (queued # {})
           /\ batch' = queued /\ todo' = queued /\ queued' = {}
           /\ UNCHANGED <<cancelled, job, stage>>

\* Mutant: the generation is not looked at.
NeverObsolete(g) == FALSE

Obsolete(g) == g # generation

CallbackRuns(g) ==
    /\ g \in callbacks
    /\ callbacks' = callbacks \ {g}
    /\ IF Obsolete(g) THEN UNCHANGED <<queued, timerVars, workerVars>> ELSE TakeBatch
    /\ UNCHANGED <<tombstones, flushers, calls>>

\* flush cancels the timer, lets go of the lock, and processes the queue.
FlushBegins ==
    /\ Called
    /\ CancelTimer
    /\ flushers' = flushers + 1
    /\ UNCHANGED <<queued, tombstones, deadline, flushWanted, callbacks, workerVars>>

FlushProcesses ==
    /\ flushers > 0
    /\ flushers' = flushers - 1
    /\ TakeBatch
    /\ UNCHANGED <<tombstones, callbacks, calls>>
-----------------------------------------------------------------------------
(* The worker of a batch; update_memory is the part of it that lasts. *)

WorkerTakes(c) ==
    /\ processing /\ job = NoTarget /\ c \in todo
    /\ todo' = todo \ {c}
    /\ IF c \in cancelled THEN UNCHANGED <<job, stage>> ELSE job' = c /\ stage' = "model"
    /\ UNCHANGED <<queued, tombstones, timerVars, callbacks, processing, batch, cancelled, flushers, calls>>

JobEnds == job' = NoTarget /\ stage' = "idle"
OnlyJob == UNCHANGED <<queued, tombstones, timerVars, callbacks, processing, batch, cancelled, todo, flushers, calls>>

\* The model answers, or the call fails.
ModelAnswers ==
    /\ stage = "model"
    /\ JobEnds \/ (stage' = "check" /\ UNCHANGED job)
    /\ OnlyJob

\* The last look at the cancellation before the save.
MayWrite == job \notin cancelled

LastCheck ==
    /\ stage = "check"
    /\ IF MayWrite THEN stage' = "write" /\ UNCHANGED job ELSE JobEnds
    /\ OnlyJob

Saved == stage = "write" /\ JobEnds /\ OnlyJob

\* Mutant: nothing is armed for what was queued meanwhile.
EndsQuietly ==
    /\ processing /\ job = NoTarget /\ todo = {}
    /\ processing' = FALSE /\ batch' = {} /\ cancelled' = {}
    /\ UNCHANGED <<queued, tombstones, timerVars, callbacks, todo, job, stage, flushers, calls>>

\* The finally clause: what was queued meanwhile gets a timer.
WorkerEnds ==
    /\ processing /\ job = NoTarget /\ todo = {}
    /\ processing' = FALSE /\ batch' = {} /\ cancelled' = {}
    /\ IF queued = {} THEN UNCHANGED timerVars
                      ELSE Schedule(flushWanted \/ deadline # "later", FALSE)
    /\ UNCHANGED <<queued, tombstones, callbacks, todo, job, stage, flushers, calls>>
-----------------------------------------------------------------------------
PublicCall ==
    \/ \E c \in Targets, now \in BOOLEAN : Add(c, now)
    \/ \E d \in Conversations, o \in Owners \cup {Anyone} : DiscardThread(d, o) \/ AllowThread(d, o)
    \/ FlushNowait \/ FlushBegins

TimerStep == DeadlineComes \/ TimerFires \/ FlushProcesses \/ \E g \in callbacks : CallbackRuns(g)

WorkerStep == (\E c \in todo : WorkerTakes(c)) \/ ModelAnswers \/ LastCheck \/ Saved \/ WorkerEnds

QueueNext == PublicCall \/ TimerStep \/ WorkerStep

QueueSpec == QueueInit /\ [][QueueNext]_queueVars
-----------------------------------------------------------------------------
CallsOK ==
    /\ queued \subseteq Targets /\ tombstones \subseteq Conversations \X (Owners \cup {Anyone})
    /\ flushers \in Nat /\ calls \in 0..MaxCalls

TimersOK ==
    /\ generation \in Nat /\ timer \in {0, generation} /\ callbacks \subseteq 0..generation
    /\ deadline \in {"none", "later", "past"} /\ flushWanted \in BOOLEAN

BatchOK ==
    /\ processing \in BOOLEAN /\ batch \subseteq Targets /\ (~processing => batch = {})
    /\ cancelled \subseteq batch /\ todo \subseteq batch /\ job \in batch \cup {NoTarget}
    /\ stage \in {"idle", "model", "check", "write"} /\ (stage = "idle" <=> job = NoTarget)

QueueTypeOK == CallsOK /\ TimersOK /\ BatchOK

\* While an update waits, something will take it: a timer that is armed, a callback that
\* is not obsolete, a flush between its two critical sections, or the worker of the
\* current batch, which arms a timer when it ends.  (queue.py 204-310: no cancelled
\* timer may be the last one.)
NothingForgotten ==
    queued # {} => timer # 0 \/ generation \in callbacks \/ flushers > 0 \/ processing

\* A deleted thread has no update that waits, and the one in the batch is cancelled,
\* until the thread is created again.  (queue.py 168-195, "rejects updates that race
\* with deletion".)
Tombstoned ==
    \A c \in Targets : Discarded(c) => c \notin queued /\ (c \in batch => c \in cancelled)

\* A batch starts only because its debounce is over, because immediate processing was
\* asked for, or in a flush; a superseded timer starts none.  (queue.py 204-216.)
BatchIsDue ==
    [][~processing /\ processing' => flushWanted \/ deadline = "past" \/ flushers' < flushers]_queueVars

\* An update that waits is taken by a worker or discarded, however timers, flushes and
\* batches overlap.
QueueDrains == \A c \in Targets : c \in queued ~> c \notin queued
=============================================================================
