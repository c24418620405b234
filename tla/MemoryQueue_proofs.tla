------------------------- MODULE MemoryQueue_proofs -------------------------
(***************************************************************************)
(* Proofs about MemoryQueue, for every set of conversations and owners and *)
(* every number of calls.                                                  *)
(***************************************************************************)
EXTENDS MemoryQueue, TLAPS

\* A callback that is not obsolete is due, and none is while a batch is processed.
DueCallbacks ==
    /\ generation \in callbacks => flushWanted \/ deadline = "past"
    /\ processing => timer = 0 /\ generation \notin callbacks

QueueInv == QueueTypeOK /\ NothingForgotten /\ Tombstoned /\ DueCallbacks

\* What an action that arms or cancels a timer does: a new generation makes every
\* callback obsolete, and the timer, if one is armed, is its own.
NewGeneration ==
    /\ generation' = generation + 1 /\ timer' \in {0, generation + 1}
    /\ deadline' \in {"none", "later", "past"} /\ flushWanted' \in BOOLEAN
-----------------------------------------------------------------------------
\* Nothing waits at the start.
LEMMA QueueInvInit == QueueInit => QueueInv
<1>. SUFFICES ASSUME QueueInit PROVE QueueInv
  OBVIOUS
<1>1. CallsOK
  BY CallsAssumption DEF QueueInit, CallsOK
<1>2. TimersOK
  <2>1. flushWanted \in BOOLEAN /\ deadline \in {"none", "later", "past"}
    BY DEF QueueInit
  <2>2. generation \in Nat /\ timer \in {0, generation} /\ callbacks \subseteq 0..generation
    BY DEF QueueInit
  <2>. QED
    BY <2>1, <2>2 DEF TimersOK
<1>3. BatchOK
  BY DEF QueueInit, BatchOK
<1>4. NothingForgotten /\ Tombstoned /\ DueCallbacks
  BY DEF QueueInit, NothingForgotten, Tombstoned, DueCallbacks, Discarded
<1>. QED
  BY <1>1, <1>2, <1>3, <1>4 DEF QueueInv, QueueTypeOK

\* A timer is armed for the new generation, unless a batch is processed.
LEMMA ScheduleArms ==
    ASSUME TimersOK, NEW immediate \in BOOLEAN, NEW busy \in BOOLEAN, Schedule(immediate, busy)
    PROVE  NewGeneration /\ (busy => timer' = 0) /\ (~busy => timer' # 0)
<1>1. flushWanted' \in BOOLEAN
  BY DEF Schedule, TimersOK
<1>2. generation' = generation + 1 /\ timer' = IF busy THEN 0 ELSE generation + 1
  BY DEF Schedule
<1>3. deadline' \in {"none", "later", "past"}
  BY DEF Schedule
<1>. QED
  BY <1>1, <1>2, <1>3 DEF NewGeneration, TimersOK

\* No timer is armed once it was cancelled.
LEMMA CancelDisarms ==
    ASSUME CancelTimer, NoDeadline
    PROVE  NewGeneration /\ timer' = 0
BY DEF CancelTimer, NoDeadline, NewGeneration

\* Every callback is obsolete for a new generation.
LEMMA CallbacksAreOld ==
    ASSUME TimersOK, NewGeneration, callbacks' \subseteq callbacks
    PROVE  TimersOK' /\ generation' \notin callbacks'
<1>1. generation' \in Nat /\ timer' \in {0, generation'}
  BY DEF TimersOK, NewGeneration
<1>2. \A g \in callbacks' : g \in 0..generation /\ g # generation'
  BY DEF TimersOK, NewGeneration
<1>3. callbacks' \subseteq 0..generation'
  BY <1>2 DEF TimersOK, NewGeneration
<1>. QED
  BY <1>1, <1>2, <1>3 DEF TimersOK, NewGeneration

\* A public call is counted.
LEMMA CalledCounts ==
    ASSUME CallsOK, Called
    PROVE  calls' \in 0..MaxCalls
BY CallsAssumption DEF CallsOK, Called

\* A step that leaves the worker alone keeps its part of the type invariant.
LEMMA WorkerUnchanged ==
    ASSUME BatchOK, UNCHANGED workerVars
    PROVE  BatchOK'
BY DEF BatchOK, workerVars
-----------------------------------------------------------------------------
\* An update of an allowed target joins the queue, and a timer is armed.
LEMMA AddStep ==
    ASSUME QueueInv, NEW c \in Targets, NEW now \in BOOLEAN, Add(c, now)
    PROVE  QueueInv'
<1>1. NewGeneration /\ (~processing => timer' # 0) /\ (processing => timer' = 0)
  BY ScheduleArms DEF Add, QueueInv, QueueTypeOK, BatchOK
<1>2. /\ UNCHANGED <<tombstones, callbacks, flushers>> /\ UNCHANGED workerVars
      /\ queued' = queued \cup {c} /\ ~Discarded(c)
  BY DEF Add
<1>3. TimersOK' /\ generation' \notin callbacks'
  BY <1>1, <1>2, CallbacksAreOld DEF QueueInv, QueueTypeOK
<1>4. CallsOK'
  BY <1>2, CalledCounts DEF Add, QueueInv, QueueTypeOK, CallsOK
<1>5. NothingForgotten' /\ DueCallbacks'
  BY <1>1, <1>2, <1>3 DEF DueCallbacks, NothingForgotten, workerVars
<1>6. Tombstoned'
  BY <1>2 DEF QueueInv, Tombstoned, Discarded, workerVars
<1>. QED
  BY <1>2, <1>3, <1>4, <1>5, <1>6, WorkerUnchanged DEF QueueInv, QueueTypeOK

\* A flush is asked for.
LEMMA FlushNowaitStep ==
    ASSUME QueueInv, FlushNowait
    PROVE  QueueInv'
<1>1. /\ NewGeneration /\ (processing => timer' = 0)
      /\ queued = {} \/ processing \/ timer' # 0
  BY ScheduleArms, CancelDisarms DEF FlushNowait, QueueInv, QueueTypeOK, BatchOK
<1>2. UNCHANGED <<queued, tombstones, callbacks, flushers>> /\ UNCHANGED workerVars
  BY DEF FlushNowait
<1>3. TimersOK' /\ generation' \notin callbacks'
  BY <1>1, <1>2, CallbacksAreOld DEF QueueInv, QueueTypeOK
<1>4. CallsOK'
  BY <1>2, CalledCounts DEF FlushNowait, QueueInv, QueueTypeOK, CallsOK
<1>5. NothingForgotten' /\ DueCallbacks'
  BY <1>1, <1>2, <1>3 DEF DueCallbacks, NothingForgotten, workerVars
<1>6. Tombstoned'
  BY <1>2 DEF QueueInv, Tombstoned, Discarded, workerVars
<1>. QED
  BY <1>2, <1>3, <1>4, <1>5, <1>6, WorkerUnchanged DEF QueueInv, QueueTypeOK

\* Deleting a thread empties the queue of it and cancels it in the batch.
LEMMA DiscardStep ==
    ASSUME QueueInv, NEW d \in Conversations, NEW o \in Owners \cup {Anyone}, DiscardThread(d, o)
    PROVE  QueueInv'
<1>1. (NewGeneration /\ timer' = 0 /\ queued' = {}) \/ UNCHANGED timerVars
  BY CancelDisarms DEF DiscardThread
<1>2. /\ UNCHANGED <<callbacks, processing, batch, todo, job, stage, flushers>>
      /\ tombstones' = tombstones \cup {<<d, o>>}
      /\ queued' = {c \in queued : ~Matches(c, d, o)}
      /\ cancelled' = cancelled \cup {c \in batch : Matches(c, d, o)}
  BY DEF DiscardThread
<1>3. TimersOK' /\ (generation' \in callbacks' => UNCHANGED timerVars)
  <2>1. CASE NewGeneration /\ timer' = 0 /\ queued' = {}
    BY <1>2, <2>1, CallbacksAreOld DEF QueueInv, QueueTypeOK
  <2>2. CASE UNCHANGED timerVars
    BY <1>2, <2>2 DEF QueueInv, QueueTypeOK, TimersOK, timerVars
  <2>. QED
    BY <1>1, <2>1, <2>2
<1>4. CallsOK'
  <2>1. calls' \in 0..MaxCalls
    BY CalledCounts DEF DiscardThread, QueueInv, QueueTypeOK
  <2>. QED
    BY <1>2, <2>1 DEF QueueInv, QueueTypeOK, CallsOK
<1>5. BatchOK'
  BY <1>2 DEF QueueInv, QueueTypeOK, BatchOK
<1>6. NothingForgotten' /\ DueCallbacks'
  BY <1>1, <1>2, <1>3 DEF QueueInv, DueCallbacks, NothingForgotten, timerVars
<1>7. Tombstoned'
  <2>1. ASSUME NEW c \in Targets, Discarded(c)', ~Discarded(c) PROVE Matches(c, d, o)
    BY <1>2, <2>1 DEF Discarded, Matches, Targets
  <2>2. ASSUME NEW c \in Targets, Discarded(c)'
        PROVE  c \notin queued' /\ (c \in batch' => c \in cancelled')
    BY <1>2, <2>1, <2>2 DEF QueueInv, Tombstoned
  <2>. QED
    BY <2>2 DEF Tombstoned
<1>. QED
  BY <1>3, <1>4, <1>5, <1>6, <1>7 DEF QueueInv, QueueTypeOK

\* Allowing a thread only removes tombstones.
LEMMA AllowStep ==
    ASSUME QueueInv, NEW d \in Conversations, NEW o \in Owners \cup {Anyone}, AllowThread(d, o)
    PROVE  QueueInv'
<1>1. /\ UNCHANGED <<queued, callbacks, flushers>> /\ UNCHANGED timerVars /\ UNCHANGED workerVars
      /\ tombstones' \subseteq tombstones
  BY DEF AllowThread
<1>2. CallsOK'
  BY <1>1, CalledCounts DEF AllowThread, QueueInv, QueueTypeOK, CallsOK
<1>3. TimersOK' /\ NothingForgotten' /\ DueCallbacks'
  BY <1>1 DEF QueueInv, QueueTypeOK, TimersOK, NothingForgotten, DueCallbacks, timerVars, workerVars
<1>4. Tombstoned'
  BY <1>1 DEF QueueInv, Tombstoned, Discarded, workerVars
<1>. QED
  BY <1>1, <1>2, <1>3, <1>4, WorkerUnchanged DEF QueueInv, QueueTypeOK

\* The first half of flush lets go of the timer, and is counted.
LEMMA FlushBeginsStep ==
    ASSUME QueueInv, FlushBegins
    PROVE  QueueInv'
<1>1. /\ NewGeneration /\ timer' = 0 /\ flushers' = flushers + 1
      /\ UNCHANGED <<queued, tombstones, callbacks>> /\ UNCHANGED workerVars
  BY DEF FlushBegins, CancelTimer, NewGeneration, QueueInv, QueueTypeOK, TimersOK
<1>2. TimersOK' /\ generation' \notin callbacks'
  BY <1>1, CallbacksAreOld DEF QueueInv, QueueTypeOK
<1>3. CallsOK' /\ flushers' > 0
  BY <1>1, CalledCounts DEF FlushBegins, QueueInv, QueueTypeOK, CallsOK
<1>4. NothingForgotten' /\ DueCallbacks'
  BY <1>1, <1>2, <1>3 DEF DueCallbacks, NothingForgotten
<1>5. Tombstoned'
  BY <1>1 DEF QueueInv, Tombstoned, Discarded, workerVars
<1>. QED
  BY <1>1, <1>2, <1>3, <1>4, <1>5, WorkerUnchanged DEF QueueInv, QueueTypeOK
-----------------------------------------------------------------------------
\* The debounce ends; nothing else happens.
LEMMA DeadlineStep ==
    ASSUME QueueInv, DeadlineComes
    PROVE  QueueInv'
<1>1. deadline' = "past" /\ UNCHANGED workerVars
      /\ UNCHANGED <<queued, tombstones, timer, generation, flushWanted, callbacks, flushers, calls>>
  BY DEF DeadlineComes
<1>2. CallsOK' /\ TimersOK'
  BY <1>1 DEF QueueInv, QueueTypeOK, CallsOK, TimersOK
<1>3. NothingForgotten' /\ DueCallbacks' /\ Tombstoned'
  BY <1>1 DEF QueueInv, NothingForgotten, DueCallbacks, Tombstoned, Discarded, workerVars
<1>. QED
  BY <1>1, <1>2, <1>3, WorkerUnchanged DEF QueueInv, QueueTypeOK

\* A timer fires only when it is due, and its callback is not obsolete yet.
LEMMA TimerStepKeeps ==
    ASSUME QueueInv, TimerFires
    PROVE  QueueInv'
<1>1. /\ timer = generation /\ timer' = 0 /\ callbacks' = callbacks \cup {generation}
      /\ flushWanted \/ deadline = "past"
      /\ UNCHANGED <<queued, tombstones, generation, deadline, flushWanted, flushers, calls>>
      /\ UNCHANGED workerVars
  BY DEF TimerFires, QueueInv, QueueTypeOK, TimersOK
<1>2. ~processing
  BY DEF TimerFires, QueueInv, DueCallbacks
<1>3. CallsOK' /\ TimersOK'
  BY <1>1 DEF QueueInv, QueueTypeOK, CallsOK, TimersOK
<1>4. NothingForgotten' /\ DueCallbacks' /\ Tombstoned'
  BY <1>1, <1>2 DEF QueueInv, NothingForgotten, DueCallbacks, Tombstoned, Discarded, workerVars
<1>. QED
  BY <1>1, <1>3, <1>4, WorkerUnchanged DEF QueueInv, QueueTypeOK

\* What waits becomes a batch, or stays for the worker of the batch there is.
LEMMA TakeBatchKeeps ==
    ASSUME QueueInv, TakeBatch, callbacks' \subseteq callbacks, flushers' \in Nat,
           UNCHANGED <<tombstones, calls>>
    PROVE  QueueInv'
<1>1. CASE processing
  <2>1. /\ UNCHANGED <<queued, timer, generation, deadline>> /\ UNCHANGED workerVars
        /\ flushWanted' = (queued # {})
    BY <1>1 DEF TakeBatch
  <2>2. flushWanted' \in BOOLEAN
    BY <2>1
  <2>3. TimersOK' /\ CallsOK'
    BY <2>1, <2>2 DEF QueueInv, QueueTypeOK, TimersOK, CallsOK
  <2>4. NothingForgotten' /\ DueCallbacks'
    BY <1>1, <2>1 DEF QueueInv, NothingForgotten, DueCallbacks, workerVars
  <2>5. Tombstoned'
    BY <2>1 DEF QueueInv, Tombstoned, Discarded, workerVars
  <2>. QED
    BY <2>1, <2>3, <2>4, <2>5, WorkerUnchanged DEF QueueInv, QueueTypeOK
<1>2. CASE ~processing
  <2>1. /\ NewGeneration /\ timer' = 0 /\ queued' = {}
        /\ batch' = queued /\ todo' = queued /\ UNCHANGED <<cancelled, job, stage>>
        /\ processing' = (queued # {})
    BY <1>2, CancelDisarms DEF TakeBatch
  <2>2. TimersOK' /\ generation' \notin callbacks'
    BY <2>1, CallbacksAreOld DEF QueueInv, QueueTypeOK
  <2>3. CallsOK'
    BY <2>1 DEF QueueInv, QueueTypeOK, CallsOK
  <2>4. processing' \in BOOLEAN /\ (~processing' => queued = {})
    BY <2>1
  <2>5. batch = {} /\ queued \subseteq Targets
    BY <1>2 DEF QueueInv, QueueTypeOK, BatchOK, CallsOK
  <2>6. BatchOK'
    BY <2>1, <2>4, <2>5 DEF QueueInv, QueueTypeOK, BatchOK
  <2>7. NothingForgotten' /\ DueCallbacks'
    BY <2>1, <2>2 DEF NothingForgotten, DueCallbacks
  <2>8. Tombstoned'
    BY <2>1 DEF QueueInv, Tombstoned, Discarded
  <2>. QED
    BY <2>2, <2>3, <2>6, <2>7, <2>8 DEF QueueInv, QueueTypeOK
<1>. QED
  BY <1>1, <1>2 DEF QueueInv, QueueTypeOK, BatchOK

\* A callback does nothing when it is obsolete, and takes the queue otherwise.
LEMMA CallbackStep ==
    ASSUME QueueInv, NEW g \in callbacks, CallbackRuns(g)
    PROVE  QueueInv'
<1>1. /\ callbacks' = callbacks \ {g} /\ UNCHANGED <<tombstones, flushers, calls>>
      /\ TakeBatch \/ (g # generation /\ UNCHANGED queued /\ UNCHANGED timerVars /\ UNCHANGED workerVars)
  BY DEF CallbackRuns, Obsolete
<1>2. CASE TakeBatch
  BY <1>1, <1>2, TakeBatchKeeps DEF QueueInv, QueueTypeOK, CallsOK
<1>3. CASE g # generation /\ UNCHANGED queued /\ UNCHANGED timerVars /\ UNCHANGED workerVars
  <2>1. CallsOK' /\ TimersOK'
    BY <1>1, <1>3 DEF QueueInv, QueueTypeOK, CallsOK, TimersOK, timerVars
  <2>2. NothingForgotten' /\ DueCallbacks' /\ Tombstoned'
    BY <1>1, <1>3 DEF QueueInv, NothingForgotten, DueCallbacks, Tombstoned, Discarded, timerVars, workerVars
  <2>. QED
    BY <1>3, <2>1, <2>2, WorkerUnchanged DEF QueueInv, QueueTypeOK
<1>. QED
  BY <1>1, <1>2, <1>3

\* The second half of flush takes the queue.
LEMMA FlushProcessesStep ==
    ASSUME QueueInv, FlushProcesses
    PROVE  QueueInv'
<1>1. flushers' \in Nat
  BY DEF FlushProcesses, QueueInv, QueueTypeOK, CallsOK
<1>. QED
  BY <1>1, TakeBatchKeeps DEF FlushProcesses
-----------------------------------------------------------------------------
\* The worker goes through its batch.
LEMMA JobStep ==
    ASSUME QueueInv, (\E c \in todo : WorkerTakes(c)) \/ ModelAnswers \/ LastCheck \/ Saved
    PROVE  QueueInv'
<1>1. /\ UNCHANGED <<queued, tombstones, timer, generation, deadline, flushWanted, callbacks>>
      /\ UNCHANGED <<processing, batch, cancelled, flushers, calls>>
  BY DEF WorkerTakes, ModelAnswers, LastCheck, Saved, OnlyJob, timerVars
<1>2. /\ todo' \subseteq todo
      /\ \/ \E c \in todo : job' = c /\ stage' = "model"
         \/ UNCHANGED <<job, stage>>
         \/ job' = NoTarget /\ stage' = "idle"
         \/ job' = job /\ job # NoTarget /\ stage' \in {"check", "write"}
  BY DEF WorkerTakes, ModelAnswers, LastCheck, Saved, OnlyJob, JobEnds, QueueInv, QueueTypeOK, BatchOK
<1>3. \A c \in batch : c # NoTarget
  BY DEF QueueInv, QueueTypeOK, BatchOK, Targets, NoTarget
<1>4. BatchOK'
  BY <1>1, <1>2, <1>3 DEF QueueInv, QueueTypeOK, BatchOK
<1>5. CallsOK' /\ TimersOK'
  BY <1>1 DEF QueueInv, QueueTypeOK, CallsOK, TimersOK
<1>6. NothingForgotten' /\ DueCallbacks' /\ Tombstoned'
  BY <1>1 DEF QueueInv, NothingForgotten, DueCallbacks, Tombstoned, Discarded
<1>. QED
  BY <1>4, <1>5, <1>6 DEF QueueInv, QueueTypeOK

\* The worker that ends arms a timer for what was queued meanwhile.
LEMMA WorkerEndsStep ==
    ASSUME QueueInv, WorkerEnds
    PROVE  QueueInv'
<1>1. /\ processing' = FALSE /\ batch' = {} /\ cancelled' = {}
      /\ processing /\ job = NoTarget /\ todo = {}
      /\ UNCHANGED <<queued, tombstones, callbacks, todo, job, stage, flushers, calls>>
  BY DEF WorkerEnds
<1>2. \/ queued = {} /\ UNCHANGED timerVars
      \/ NewGeneration /\ timer' # 0
  <2>1. (flushWanted \/ deadline # "later") \in BOOLEAN
    OBVIOUS
  <2>. QED
    BY <2>1, ScheduleArms DEF WorkerEnds, QueueInv, QueueTypeOK
<1>3. TimersOK' /\ generation' \notin callbacks'
  <2>1. CASE queued = {} /\ UNCHANGED timerVars
    BY <1>1, <2>1 DEF QueueInv, QueueTypeOK, TimersOK, DueCallbacks, timerVars
  <2>2. CASE NewGeneration
    BY <1>1, <2>2, CallbacksAreOld DEF QueueInv, QueueTypeOK
  <2>. QED
    BY <1>2, <2>1, <2>2
<1>4. BatchOK' /\ CallsOK'
  BY <1>1 DEF QueueInv, QueueTypeOK, BatchOK, CallsOK
<1>5. NothingForgotten' /\ DueCallbacks' /\ Tombstoned'
  BY <1>1, <1>2, <1>3 DEF QueueInv, NothingForgotten, DueCallbacks, Tombstoned, Discarded
<1>. QED
  BY <1>3, <1>4, <1>5 DEF QueueInv, QueueTypeOK

\* The invariant is inductive.
LEMMA QueueInvStep == QueueInv /\ [QueueNext]_queueVars => QueueInv'
<1>1. ASSUME QueueInv, PublicCall PROVE QueueInv'
  BY <1>1, AddStep, FlushNowaitStep, DiscardStep, AllowStep, FlushBeginsStep DEF PublicCall
<1>2. ASSUME QueueInv, TimerStep PROVE QueueInv'
  BY <1>2, DeadlineStep, TimerStepKeeps, CallbackStep, FlushProcessesStep DEF TimerStep
<1>3. ASSUME QueueInv, WorkerStep PROVE QueueInv'
  BY <1>3, JobStep, WorkerEndsStep DEF WorkerStep
<1>4. ASSUME QueueInv, UNCHANGED queueVars PROVE QueueInv'
  <2>1. /\ UNCHANGED <<queued, tombstones, callbacks, flushers, calls>>
        /\ UNCHANGED timerVars /\ UNCHANGED workerVars
    BY <1>4 DEF queueVars
  <2>2. CallsOK' /\ TimersOK'
    BY <1>4, <2>1 DEF QueueInv, QueueTypeOK, CallsOK, TimersOK, timerVars
  <2>3. NothingForgotten' /\ DueCallbacks' /\ Tombstoned'
    BY <1>4, <2>1 DEF QueueInv, NothingForgotten, DueCallbacks, Tombstoned, Discarded, timerVars, workerVars
  <2>. QED
    BY <1>4, <2>1, <2>2, <2>3, WorkerUnchanged DEF QueueInv, QueueTypeOK
<1>. QED
  BY <1>1, <1>2, <1>3, <1>4 DEF QueueNext

LEMMA QueueInvAlways == QueueSpec => []QueueInv
BY QueueInvInit, QueueInvStep, PTL DEF QueueSpec
-----------------------------------------------------------------------------
\* The values each variable may have; a batch exists only while one is processed.
\* (queue.py 37-47.)
THEOREM QueueTypeCorrect == QueueSpec => []QueueTypeOK
<1>1. QueueInv => QueueTypeOK
  BY DEF QueueInv
<1>. QED
  BY <1>1, QueueInvAlways, PTL

\* While an update waits there is a timer, a callback that is not obsolete, a flush or
\* a worker that will take it.  (queue.py 204-310.)
THEOREM NothingIsForgotten == QueueSpec => []NothingForgotten
<1>1. QueueInv => NothingForgotten
  BY DEF QueueInv
<1>. QED
  BY <1>1, QueueInvAlways, PTL

\* A deleted thread has no update that waits or is not cancelled.  (queue.py 168-195.)
THEOREM DeletedStaysOut == QueueSpec => []Tombstoned
<1>1. QueueInv => Tombstoned
  BY DEF QueueInv
<1>. QED
  BY <1>1, QueueInvAlways, PTL

\* At most one timer or live callback exists at a time, and none while a batch is
\* processed, so that no second worker is started.  (queue.py 204-246.)
THEOREM OneWayToStart == QueueSpec => [](processing => timer = 0 /\ generation \notin callbacks)
<1>1. QueueInv => (processing => timer = 0 /\ generation \notin callbacks)
  BY DEF QueueInv, DueCallbacks
<1>. QED
  BY <1>1, QueueInvAlways, PTL

\* No timer starts a batch before its debounce is over.  (queue.py 211-236.)
THEOREM BatchesAreDue == QueueSpec => BatchIsDue
<1>. DEFINE Due == ~processing /\ processing' => flushWanted \/ deadline = "past" \/ flushers' < flushers
<1>1. ASSUME QueueInv, QueueNext, ~processing, processing'
      PROVE  flushWanted \/ deadline = "past" \/ flushers' < flushers
  <2>1. CASE PublicCall
    <3>1. UNCHANGED processing
      BY <2>1 DEF PublicCall, Add, DiscardThread, AllowThread, FlushNowait, FlushBegins, workerVars
    <3>. QED
      BY <1>1, <3>1
  <2>2. CASE WorkerStep
    <3>1. processing' = processing \/ ~processing'
      BY <2>2 DEF WorkerStep, WorkerTakes, ModelAnswers, LastCheck, Saved, WorkerEnds, OnlyJob
    <3>. QED
      BY <1>1, <3>1
  <2>3. CASE DeadlineComes \/ TimerFires
    BY <1>1, <2>3 DEF DeadlineComes, TimerFires, workerVars
  <2>4. CASE FlushProcesses
    BY <1>1, <2>4 DEF FlushProcesses, QueueInv, QueueTypeOK, CallsOK
  <2>5. ASSUME NEW g \in callbacks, CallbackRuns(g) PROVE flushWanted \/ deadline = "past"
    BY <1>1, <2>5 DEF CallbackRuns, Obsolete, QueueInv, DueCallbacks, workerVars
  <2>. QED
    BY <1>1, <2>1, <2>2, <2>3, <2>4, <2>5 DEF QueueNext, TimerStep
<1>2. QueueInv /\ [QueueNext]_queueVars => [Due]_queueVars
  BY <1>1
<1>. QED
  BY <1>2, QueueInvAlways, PTL DEF QueueSpec, BatchIsDue
=============================================================================
