---------------------------- MODULE ThreadDeletion ----------------------------
(***************************************************************************)
(* The deletion of a thread: the DELETE route purges its data and has the  *)
(* dispatcher project the deletion into domain stores through the          *)
(* lifecycle journal, before the thread gives up its owner; an operator's  *)
(* replay projects what was left.  Requests and replays interleave at      *)
(* every await, in one process or several, and each may die.               *)
(***************************************************************************)
EXTENDS LifecycleJournal

CONSTANTS Requests,     \* calls of the DELETE route
          Replays,      \* calls of replay_user
          NoThread, NoHandler,
          MaxFaults,    \* failures of a store, the journal or a handler
          MaxCrashes    \* requests or replays that die

ASSUME WritersAssumption ==
    /\ Writers = Requests \cup Replays
    /\ Requests \cap Replays = {}
    /\ NoThread \notin Threads /\ NoHandler \notin Handlers
    /\ MaxFaults \in Nat /\ MaxCrashes \in Nat

VARIABLES
    task,       \* the locals of each request and replay
    kept,       \* what the stores hold of each thread
    active,     \* a run of the thread executes
    projected,  \* deliveries a handler has made in its domain store
    faults, crashes

storeVars == <<kept, active, projected>>
boundVars == <<faults, crashes>>
vars == <<journalVars, task, storeVars, boundVars>>

Stores == {"files", "checkpoints", "meta"}
Over   == {"done", "refused", "failed", "dead"}
PC     == {"idle", "prepare", "files", "checkpoints", "abort", "commit", "dispatch",
           "begin", "handle", "ok", "bad", "reread", "unlink", "next"} \cup Over

\* pc: where it stands; job: the thread it deletes or whose operation it dispatches;
\* left: handlers its dispatch has not come to; cur, gen: the handler it executes and
\* the generation of its attempt; failed: its dispatch has collected a failure;
\* queue: operations a replay still has to dispatch; set_aside: a history of the
\* handlers its dispatch left to somebody else who was executing them.
Task == [pc : PC, job : Threads \cup {NoThread}, left : SUBSET Handlers,
         cur : Handlers \cup {NoHandler}, gen : 0..MaxAttempts, failed : BOOLEAN,
         queue : SUBSET Threads, set_aside : SUBSET Handlers]

\* The locals before the beginning and after the end.
NoLocals(place) == [pc |-> place, job |-> NoThread, left |-> {}, cur |-> NoHandler,
                    gen |-> 0, failed |-> FALSE, queue |-> {}, set_aside |-> {}]

\* w goes on as a says.
Becomes(w, a) == task' = [task EXCEPT ![w] = IF a.pc \in Over THEN NoLocals(a.pc) ELSE a]

Goes(w, to) == Becomes(w, [task[w] EXCEPT !.pc = to])

At(w, place) == task[w].pc = place
Job(w)       == task[w].job
Delivery(w)  == <<task[w].job, task[w].cur>>

Fault   == faults < MaxFaults /\ faults' = faults + 1
NoFault == faults' = faults
-----------------------------------------------------------------------------
(* The DELETE route, up to the commit *)

\* The permission check of the route: the thread has an owner row.
Arrives(w, t) ==
    /\ At(w, "idle") /\ "meta" \in kept[t]
    /\ Becomes(w, [task[w] EXCEPT !.pc = "prepare", !.job = t])
    /\ UNCHANGED <<journalVars, storeVars, boundVars>>

Prepares(w) ==
    /\ At(w, "prepare") /\ Unlocked
    /\ \/ Prepare(Job(w)) /\ NoFault /\ Goes(w, IF Unreadable(Job(w)) THEN "failed" ELSE "files")
       \/ Fault /\ UNCHANGED source /\ Goes(w, "failed")
    /\ UNCHANGED <<attempts, torn, jlock, storeVars, crashes>>

\* Purging a store fails or removes what it has; the owner row is not touched yet.
Purges(w, store, next) ==
    /\ At(w, store)
    /\ \/ kept' = [kept EXCEPT ![Job(w)] = @ \ {store}] /\ NoFault /\ Goes(w, next)
       \/ Fault /\ Goes(w, "abort") /\ UNCHANGED kept
    /\ UNCHANGED <<journalVars, active, projected, crashes>>

PurgesFiles(w) == Purges(w, "files", "checkpoints")

PurgesCheckpoints(w) == Purges(w, "checkpoints", "commit")

\* The intent is aborted, or a failure to do that is logged; the error goes to the client.
Aborts(w) ==
    /\ At(w, "abort") /\ Unlocked
    /\ \/ AbortSource(Job(w)) /\ NoFault
       \/ Fault /\ UNCHANGED source
    /\ Goes(w, "refused")
    /\ UNCHANGED <<attempts, torn, jlock, storeVars, crashes>>

\* _dispatch_durable starts with every handler of the operation.
Dispatching(w, t, place) ==
    [task[w] EXCEPT !.pc = place, !.job = t, !.left = Handlers, !.failed = FALSE,
                    !.set_aside = {}]

\* The outcome of the deletion is published; an outcome that is there already is
\* returned if it is the same, and a conflict, hence a 500, if it is an abort.
Commits(w) ==
    /\ At(w, "commit") /\ Unlocked
    /\ \/ CommitSource(Job(w)) /\ NoFault /\ Becomes(w, Dispatching(w, Job(w), "reread"))
       \/ /\ ~Committable(Job(w)) /\ NoFault /\ UNCHANGED source
          /\ IF source[Job(w)] = "aborted" \/ Unreadable(Job(w))
             THEN Goes(w, "failed")
             ELSE Becomes(w, Dispatching(w, Job(w), "dispatch"))
       \/ Fault /\ Goes(w, "failed") /\ UNCHANGED source
    /\ UNCHANGED <<attempts, torn, jlock, storeVars, crashes>>
-----------------------------------------------------------------------------
(* The dispatcher: _dispatch_durable *)

\* Nothing to do for the handler, or no attempt can be started for it; a fault is a
\* handler that this process does not have, or a failure of begin_attempt.
Passes(w, h) ==
    LET d == <<Job(w), h>>
        passed == [task[w] EXCEPT !.left = @ \ {h}] IN
    /\ At(w, "dispatch") /\ h \in task[w].left /\ Unlocked
    /\ \/ Unbeginnable(d) /\ NoFault /\ Becomes(w, [passed EXCEPT !.failed = TRUE])
       \/ /\ ~Unbeginnable(d) /\ ~MayBegin(d) /\ NoFault
          /\ Becomes(w, [passed EXCEPT !.set_aside = IF Succeeded(d) THEN @ ELSE @ \cup {h}])
       \/ Fault /\ Becomes(w, [passed EXCEPT !.failed = TRUE])
    /\ UNCHANGED <<journalVars, storeVars, crashes>>

Begins(w, h) ==
    LET d == <<Job(w), h>> IN
    /\ At(w, "dispatch") /\ h \in task[w].left /\ Unlocked
    /\ ~Unbeginnable(d) /\ MayBegin(d)
    /\ MakesDirectory(d, w)
    /\ Becomes(w, [task[w] EXCEPT !.pc = "begin", !.left = @ \ {h}, !.cur = h])
    /\ UNCHANGED <<source, attempts, storeVars, boundVars>>

\* Back to the loop over the handlers, with a failure collected or not.
BackToLoop(w, f) ==
    Becomes(w, [task[w] EXCEPT !.pc = "dispatch", !.cur = NoHandler, !.gen = 0,
                               !.failed = @ \/ f])

Starts(w) ==
    /\ At(w, "begin")
    /\ \/ /\ WritesStart(Delivery(w)) /\ NoFault
          /\ Becomes(w, [task[w] EXCEPT !.pc = "handle", !.gen = Len(attempts[Delivery(w)]) + 1])
       \/ Fault /\ RemovesDirectory(Delivery(w)) /\ BackToLoop(w, TRUE) /\ UNCHANGED attempts
    /\ UNCHANGED <<source, storeVars, crashes>>

\* The heartbeat; when the attempt was superseded it stops, which changes nothing.
Renews(w) ==
    /\ At(w, "handle") /\ Unlocked /\ Delivery(w) \notin torn
    /\ Owns(Delivery(w), task[w].gen)
    /\ RenewAttempt(Delivery(w), task[w].gen)
    /\ UNCHANGED <<source, torn, jlock, task, storeVars, boundVars>>

\* The handler ends; one that fails may have projected the deletion before.
Handles(w) ==
    /\ At(w, "handle")
    /\ \/ projected' = projected \cup {Delivery(w)} /\ NoFault /\ Goes(w, "ok")
       \/ /\ Fault /\ Goes(w, "bad")
          /\ projected' \in {projected, projected \cup {Delivery(w)}}
    /\ UNCHANGED <<journalVars, kept, active, crashes>>

\* Mutant: a handler that raised is recorded like one that returned.
OutcomeUnchecked(w) == "succeeded"

Outcome(w) == IF At(w, "ok") THEN "succeeded" ELSE "failed"

\* finish_attempt records the outcome, unless the attempt was superseded or the write
\* fails.  After a handler that raised the dispatch has failed in any case.
Finishes(w) ==
    LET d == Delivery(w)
        fenced == d \notin torn /\ Owns(d, task[w].gen) IN
    /\ task[w].pc \in {"ok", "bad"} /\ Unlocked
    /\ \/ /\ fenced /\ NoFault
          /\ FinishAttempt(d, task[w].gen, Outcome(w))
          /\ IF At(w, "ok") THEN Goes(w, "reread") ELSE BackToLoop(w, TRUE)
       \/ ~fenced /\ NoFault /\ UNCHANGED attempts /\ BackToLoop(w, TRUE)
       \/ Fault /\ UNCHANGED attempts /\ BackToLoop(w, TRUE)
    /\ UNCHANGED <<source, torn, jlock, storeVars, crashes>>

\* commit_source and finish_attempt return get(), which reads without the lock: an
\* attempt directory that is just being made, or was left unfinished, is an error.
Rereads(w) ==
    /\ At(w, "reread")
    /\ IF task[w].cur = NoHandler /\ Unreadable(Job(w))
       THEN Goes(w, "failed")
       ELSE BackToLoop(w, Unreadable(Job(w)))
    /\ UNCHANGED <<journalVars, storeVars, boundVars>>

\* Mutant: the failures of the handlers are only logged.
AfterDispatchAnyway(w) ==
    IF Unreadable(Job(w)) THEN "failed" ELSE IF w \in Replays THEN "next" ELSE "unlink"

\* The last get(), then the failures: a request answers 500, a replay counts the
\* operation as failed and goes on.
AfterDispatch(w) ==
    IF Unreadable(Job(w)) THEN "failed"
    ELSE IF w \in Replays THEN "next"
    ELSE IF task[w].failed THEN "failed" ELSE "unlink"

Concludes(w) ==
    /\ At(w, "dispatch") /\ task[w].left = {}
    /\ Goes(w, AfterDispatch(w))
    /\ UNCHANGED <<journalVars, storeVars, boundVars>>

\* The owner row goes last; a failure to remove it is only logged.
Unlinks(w) ==
    /\ At(w, "unlink")
    /\ \/ kept' = [kept EXCEPT ![Job(w)] = @ \ {"meta"}] /\ NoFault
       \/ Fault /\ UNCHANGED kept
    /\ Goes(w, "done")
    /\ UNCHANGED <<journalVars, active, projected, crashes>>
-----------------------------------------------------------------------------
(* replay_user *)

Replayable(t) == source[t] = "committed" /\ Unfinished(t)

Lists(w) ==
    /\ At(w, "idle")
    /\ IF \E t \in Threads : Unreadable(t)
       THEN Goes(w, "failed")
       ELSE Becomes(w, [task[w] EXCEPT !.pc = "next", !.queue = {t \in Threads : Replayable(t)}])
    /\ UNCHANGED <<journalVars, storeVars, boundVars>>

Picks(w) ==
    /\ At(w, "next")
    /\ \E t \in task[w].queue :
         Becomes(w, [Dispatching(w, t, "dispatch") EXCEPT !.queue = @ \ {t}])
    /\ UNCHANGED <<journalVars, storeVars, boundVars>>

\* The report lists the journal once more.
Reports(w) ==
    /\ At(w, "next") /\ task[w].queue = {}
    /\ Goes(w, IF \E t \in Threads : Unreadable(t) THEN "failed" ELSE "done")
    /\ UNCHANGED <<journalVars, storeVars, boundVars>>
-----------------------------------------------------------------------------
(* The environment *)

\* A request or replay dies, with its process or alone; the lock goes with it, an
\* attempt directory it was making stays.
Dies(w) ==
    /\ task[w].pc \notin Over \cup {"idle"} /\ crashes < MaxCrashes
    /\ crashes' = crashes + 1
    /\ Goes(w, "dead")
    /\ DropsItsLock(w)
    /\ UNCHANGED <<source, attempts, torn, storeVars, faults>>

Expires(d) ==
    /\ LeaseExpires(d)
    /\ UNCHANGED <<source, torn, jlock, task, storeVars, boundVars>>

\* A run that executes while its thread is deleted writes checkpoints until it ends.
RunWrites(t) ==
    /\ active[t] /\ "checkpoints" \notin kept[t]
    /\ kept' = [kept EXCEPT ![t] = @ \cup {"checkpoints"}]
    /\ UNCHANGED <<journalVars, task, active, projected, boundVars>>

RunEnds(t) ==
    /\ active[t]
    /\ active' = [active EXCEPT ![t] = FALSE]
    /\ UNCHANGED <<journalVars, task, kept, projected, boundVars>>

\* A request or replay goes on.
Works(w) ==
    \/ Prepares(w) \/ PurgesFiles(w) \/ PurgesCheckpoints(w) \/ Aborts(w) \/ Commits(w)
    \/ \E h \in Handlers : Passes(w, h) \/ Begins(w, h)
    \/ Starts(w) \/ Handles(w) \/ Finishes(w) \/ Rereads(w) \/ Concludes(w)
    \/ Unlinks(w) \/ Picks(w) \/ Reports(w)

Rests == (\A w \in Writers : task[w].pc \in Over \cup {"idle"}) /\ UNCHANGED vars

Init ==
    /\ JournalInit
    /\ task = [w \in Writers |-> NoLocals("idle")]
    /\ kept = [t \in Threads |-> Stores]
    /\ active \in [Threads -> BOOLEAN]
    /\ projected = {}
    /\ faults = 0
    /\ crashes = 0

Next ==
    \/ \E w \in Requests, t \in Threads : Arrives(w, t)
    \/ \E w \in Replays : Lists(w)
    \/ \E w \in Writers : Works(w) \/ Renews(w) \/ Dies(w)
    \/ \E d \in Deliveries : Expires(d)
    \/ \E t \in Threads : RunWrites(t) \/ RunEnds(t)
    \/ Rests

Spec == Init /\ [][Next]_vars

\* Every request and replay goes on when it can, and handlers end; nobody has to
\* arrive or to renew a lease.
FairSpec == Spec /\ \A w \in Writers : WF_vars(Works(w))
-----------------------------------------------------------------------------
(* Properties *)

ThreadsOK ==
    /\ kept \in [Threads -> SUBSET Stores]
    /\ active \in [Threads -> BOOLEAN]
    /\ projected \in SUBSET Deliveries
    /\ faults \in 0..MaxFaults
    /\ crashes \in 0..MaxCrashes

TypeOK ==
    /\ JournalOK /\ ThreadsOK
    /\ task \in [Writers -> Task]
    /\ \A d \in Deliveries : Len(attempts[d]) <= MaxAttempts

\* "Domain handlers receive only committed events" (ARCHITECTURE.md): nothing is
\* projected of a deletion that was not decided, or was aborted by anyone.
OnlyCommitted == \A d \in projected : source[d[1]] = "committed"

\* An attempt recorded as succeeded was carried out, whoever took over the handler,
\* lost its lease or died in between.
SuccessIsReal == \A d \in Deliveries : Succeeded(d) => d \in projected

\* At most one attempt of a handler holds a lease that is valid.
OneLease ==
    \A d \in Deliveries : \A i, j \in 1..Len(attempts[d]) :
        /\ attempts[d][i].status = "running" /\ attempts[d][i].live
        /\ attempts[d][j].status = "running" /\ attempts[d][j].live
        => i = j

\* "The older worker is fenced from renewing or publishing an outcome": an attempt
\* changes only while it is the newest and has no outcome, and none disappears.
Fenced ==
    [][\A d \in Deliveries : \A i \in 1..Len(attempts[d]) :
         /\ i <= Len(attempts'[d])
         /\ i < Len(attempts[d]) \/ attempts[d][i].status # "running"
            => attempts'[d][i] = attempts[d][i]]_vars

\* "A failed handler leaves thread_meta available for retry" (threads.py): whoever
\* removes the owner row does so after a commit, and every handler has succeeded.  The
\* exception is a handler that somebody else was executing when the dispatch came to it:
\* begin_attempt returned None, and the handler may fail all the same.
OwnerOutlivesProjection ==
    [][\A t \in Threads : "meta" \in kept[t] /\ "meta" \notin kept'[t] =>
         \E w \in Writers :
            /\ task'[w] # task[w] /\ Job(w) = t
            /\ source[t] = "committed"
            /\ \A h \in Handlers : Succeeded(<<t, h>>) \/ h \in task[w].set_aside]_vars

\* A request or replay that has begun ends: no lock is held for ever, no handler is
\* tried for ever.
DispatchEnds ==
    \A w \in Writers : task[w].pc \notin Over \cup {"idle"} ~> task[w].pc \in Over

\* "Failed checkpoint deletion returns 503, aborts the prepared domain lifecycle
\* projection [...] Retry the deletion after recovery" (HARDENING.md): a deletion whose
\* data was purged is finalised, unless somebody interferes or the journal fails just then.
RetryFinalises ==
    [][\A w \in Requests :
         /\ At(w, "commit") /\ task'[w].pc = "failed"
         /\ \A v \in Writers \ {w} : task[v].pc \in Over \cup {"idle"}
         => faults' # faults]_vars

\* "Ownership must outlive every retained checkpoint" (threads.py).
OwnershipOutlivesCheckpoints ==
    \A t \in Threads : "checkpoints" \in kept[t] => "meta" \in kept[t]

Outbox == INSTANCE ProjectionOutbox
    WITH delivered <- {d \in Deliveries : Succeeded(d)}

\* The journal is an outbox: the outcome of a deletion is decided once, and a handler
\* is recorded as done at most once and only after the commit.
ImplementsOutbox == Outbox!Spec
=============================================================================
