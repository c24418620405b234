--------------------------- MODULE LifecycleJournal ---------------------------
(***************************************************************************)
(* FileThreadLifecycleJournal: the files that record the deletion of a     *)
(* thread and its projection into domain stores.  An operation belongs to  *)
(* a thread, a delivery to an operation and a handler.  A mutation holds   *)
(* the file lock of the journal, a read does not.                          *)
(***************************************************************************)
EXTENDS Naturals, Sequences

CONSTANTS Threads, Handlers,
          Writers,      \* who uses the journal, in any process
          Nobody,       \* the lock is free
          MaxAttempts   \* _MAX_ATTEMPTS_PER_HANDLER

ASSUME JournalAssumption == Nobody \notin Writers /\ MaxAttempts \in Nat

VARIABLES
    source,     \* the marker files of each operation; "none": no operation
    attempts,   \* the readable attempts of each delivery, by generation
    torn,       \* deliveries with an attempt directory that has no started.json
    jlock       \* who is inside begin_attempt and holds .lifecycle.lock

journalVars == <<source, attempts, torn, jlock>>

Deliveries == Threads \X Handlers

\* live: the lease has not expired
Attempt == [status : {"running", "succeeded", "failed"}, live : BOOLEAN]

NewAttempt == [status |-> "running", live |-> TRUE]

Unlocked == jlock = Nobody

\* _attempts_for_handler raises for the delivery, and get and list for the operation.
Unreadable(t) == \E h \in Handlers : <<t, h>> \in torn

Succeeded(d) == \E i \in 1..Len(attempts[d]) : attempts[d][i].status = "succeeded"

\* Somebody executes the handler, as far as the leases say.
Held(d) == \E i \in 1..Len(attempts[d]) : attempts[d][i].status = "running" /\ attempts[d][i].live

\* get: "succeeded" and "aborted" are what list(unfinished_only) leaves out.
Unfinished(t) == source[t] = "prepared" \/ \E h \in Handlers : ~Succeeded(<<t, h>>)

\* prepare: an operation that exists is returned as it is, whatever became of it.
Prepare(t) ==
    source' = IF source[t] = "none" THEN [source EXCEPT ![t] = "prepared"] ELSE source

\* Mutant: the abort marker is not looked at.
CommitsAnyway(t) == source[t] \in {"prepared", "aborted"}

Committable(t) == source[t] = "prepared"

CommitSource(t) ==
    /\ Committable(t)
    /\ source' = [source EXCEPT ![t] = "committed"]

\* Mutant: a commit marker that was published meanwhile is not looked at.
AbortsAnyway(t) == TRUE

Abortable(t) == source[t] = "prepared"

AbortSource(t) ==
    source' = IF Abortable(t) THEN [source EXCEPT ![t] = "aborted"] ELSE source

\* Mutant: a live attempt of somebody else does not count.
MayBeginAnyway(d) == ~Succeeded(d)

\* begin_attempt returns None when the handler succeeded or has a live attempt.
MayBegin(d) == ~Succeeded(d) /\ ~Held(d)

\* Mutant: one attempt more than the limit.
FullLate(d) == Len(attempts[d]) > MaxAttempts

Full(d) == Len(attempts[d]) >= MaxAttempts

\* begin_attempt raises: the delivery cannot be read, its operation is not committed,
\* or it has been tried too often without success.
Unbeginnable(d) == d \in torn \/ source[d[1]] # "committed" \/ (~Succeeded(d) /\ Full(d))

\* begin_attempt in two steps, the lock held in between: the directory of the attempt
\* is there before its started.json.
MakesDirectory(d, w) ==
    /\ torn' = torn \cup {d}
    /\ jlock' = w

WritesStart(d) ==
    /\ attempts' = [attempts EXCEPT ![d] = Append(@, NewAttempt)]
    /\ torn' = torn \ {d}
    /\ jlock' = Nobody

RemovesDirectory(d) ==
    /\ torn' = torn \ {d}
    /\ jlock' = Nobody

\* Mutant: an attempt that was superseded still counts.
OwnsAnyway(d, g) == ~Succeeded(d)

\* The fence: only the newest generation renews its lease or publishes an outcome.
Owns(d, g) == g = Len(attempts[d]) /\ ~Succeeded(d)

RenewAttempt(d, g) == attempts' = [attempts EXCEPT ![d][g].live = TRUE]

FinishAttempt(d, g, outcome) == attempts' = [attempts EXCEPT ![d][g].status = outcome]

\* Mutant: the lock file stays locked when its holder dies.
KeepsItsLock(w) == UNCHANGED jlock

\* The operating system releases the lock of a process that ends.
DropsItsLock(w) == jlock' = IF jlock = w THEN Nobody ELSE jlock

\* The clock passes expires_at.
LeaseExpires(d) ==
    \E i \in 1..Len(attempts[d]) :
        /\ attempts[d][i].status = "running" /\ attempts[d][i].live
        /\ attempts' = [attempts EXCEPT ![d][i].live = FALSE]

JournalInit ==
    /\ source = [t \in Threads |-> "none"]
    /\ attempts = [d \in Deliveries |-> <<>>]
    /\ torn = {}
    /\ jlock = Nobody

JournalOK ==
    /\ source \in [Threads -> {"none", "prepared", "committed", "aborted"}]
    /\ attempts \in [Deliveries -> Seq(Attempt)]
    /\ torn \in SUBSET Deliveries
    /\ jlock \in Writers \cup {Nobody}
=============================================================================
