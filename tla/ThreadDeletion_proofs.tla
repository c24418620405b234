------------------------ MODULE ThreadDeletion_proofs ------------------------
(***************************************************************************)
(* Proofs about ThreadDeletion, for every set of threads, handlers,        *)
(* requests and replays, and every number of attempts, faults and deaths.  *)
(*                                                                         *)
(* The invariant comes in two layers.  IInv relates the locals of each     *)
(* request and replay to the journal and the stores; from it follow all    *)
(* the invariants of ThreadDeletion.  Generations, proved on top of it,    *)
(* gives each executing worker an attempt of its own, which the fence and  *)
(* the outbox need.                                                        *)
(***************************************************************************)
EXTENDS ThreadDeletion, TLAPS

Announced == {"files", "checkpoints", "abort", "commit"}
Executing == {"handle", "ok", "bad"}
Looping   == {"dispatch", "begin", "reread"} \cup Executing

\* The handler has succeeded, or the dispatch left it to somebody else.
Covered(a, h) == Succeeded(<<a.job, h>>) \/ h \in a.set_aside

\* What the journal and the stores say of a request or replay with the locals a.
Well(a) ==
    /\ a.pc \in {"prepare", "unlink"} \cup Announced \cup Looping => a.job \in Threads
    /\ a.pc \in Announced => source[a.job] # "none"
    /\ a.pc \in {"unlink"} \cup Looping => source[a.job] = "committed"
    /\ \A t \in a.queue : source[t] = "committed"
    /\ a.pc \in {"begin"} \cup Executing => a.cur \in Handlers
    /\ a.pc = "begin" => MayBegin(<<a.job, a.cur>>) /\ ~Full(<<a.job, a.cur>>)
    /\ a.pc \in Executing => a.gen \in 1..Len(attempts[<<a.job, a.cur>>])
    /\ a.pc = "ok" => <<a.job, a.cur>> \in projected
    /\ a.pc \in Looping /\ ~a.failed =>
         \A h \in Handlers \ a.left :
             Covered(a, h) \/ (a.pc \in {"begin"} \cup Executing /\ h = a.cur)
    /\ a.pc = "unlink" => \A h \in Handlers : Covered(a, h)

Tasks == \A w \in Writers : Well(task[w])

\* The lock is held over two steps by begin_attempt, and by nothing else.
LockHeld ==
    /\ jlock # Nobody => At(jlock, "begin")
    /\ \A w \in Writers : At(w, "begin") => jlock = w

\* Attempts belong to committed deletions, and one that was followed by another has
\* not succeeded and holds no lease.
Trail(d) ==
    /\ attempts[d] # <<>> => source[d[1]] = "committed"
    /\ \A i \in 1..Len(attempts[d]) : i < Len(attempts[d]) =>
         /\ attempts[d][i].status # "succeeded"
         /\ ~(attempts[d][i].status = "running" /\ attempts[d][i].live)

Trails == \A d \in Deliveries : Trail(d)

IInv == /\ TypeOK /\ Tasks /\ LockHeld /\ Trails
        /\ OnlyCommitted /\ SuccessIsReal
-----------------------------------------------------------------------------
(* Sequences of attempts *)

\* A sequence of attempts with one of them replaced ...
LEMMA ChangedAttempt ==
    ASSUME NEW s \in Seq(Attempt), NEW g \in 1..Len(s), NEW r \in Attempt
    PROVE  /\ [s EXCEPT ![g] = r] \in Seq(Attempt)
           /\ Len([s EXCEPT ![g] = r]) = Len(s)
           /\ [s EXCEPT ![g] = r][g] = r
           /\ \A i \in 1..Len(s) : i # g => [s EXCEPT ![g] = r][i] = s[i]
OBVIOUS

\* ... and with one more.
LEMMA AddedAttempt ==
    ASSUME NEW s \in Seq(Attempt)
    PROVE  /\ Append(s, NewAttempt) \in Seq(Attempt)
           /\ Len(Append(s, NewAttempt)) = Len(s) + 1
           /\ Append(s, NewAttempt)[Len(s) + 1] = NewAttempt
           /\ \A i \in 1..Len(s) : Append(s, NewAttempt)[i] = s[i]
BY DEF Attempt, NewAttempt

\* What a step may do to the attempts of a delivery: nothing, a new one, or a change of
\* the newest.
Same(d)  == attempts'[d] = attempts[d]
Added(d) == attempts'[d] = Append(attempts[d], NewAttempt)
Changed(d, g, r) == attempts'[d] = [attempts[d] EXCEPT ![g] = r]

\* What a change of a lease does to the attempts.
LEMMA Renewed ==
    ASSUME TypeOK, NEW d \in Deliveries, NEW g \in 1..Len(attempts[d]), NEW b \in BOOLEAN,
           attempts' = [attempts EXCEPT ![d][g].live = b]
    PROVE  /\ Changed(d, g, [status |-> attempts[d][g].status, live |-> b])
           /\ [status |-> attempts[d][g].status, live |-> b] \in Attempt
           /\ \A e \in Deliveries : e # d => Same(e)
<1>1. attempts[d] \in Seq(Attempt) /\ attempts[d][g] \in Attempt
  BY DEF TypeOK, JournalOK
<1>2. [attempts[d][g] EXCEPT !.live = b] = [status |-> attempts[d][g].status, live |-> b]
  BY <1>1 DEF Attempt
<1>3. attempts'[d] = [attempts[d] EXCEPT ![g] = [attempts[d][g] EXCEPT !.live = b]]
  BY <1>1 DEF TypeOK, JournalOK
<1>. QED
  BY <1>1, <1>2, <1>3 DEF TypeOK, JournalOK, Same, Changed, Attempt

\* What the outcome of an attempt does to the attempts.
LEMMA Finished ==
    ASSUME TypeOK, NEW d \in Deliveries, NEW g \in 1..Len(attempts[d]),
           NEW o \in {"succeeded", "failed"}, FinishAttempt(d, g, o)
    PROVE  /\ Changed(d, g, [status |-> o, live |-> attempts[d][g].live])
           /\ [status |-> o, live |-> attempts[d][g].live] \in Attempt
           /\ \A e \in Deliveries : e # d => Same(e)
<1>1. attempts[d] \in Seq(Attempt) /\ attempts[d][g] \in Attempt
  BY DEF TypeOK, JournalOK
<1>2. [attempts[d][g] EXCEPT !.status = o] = [status |-> o, live |-> attempts[d][g].live]
  BY <1>1 DEF Attempt
<1>3. attempts'[d] = [attempts[d] EXCEPT ![g] = [attempts[d][g] EXCEPT !.status = o]]
  BY <1>1 DEF TypeOK, JournalOK, FinishAttempt
<1>. QED
  BY <1>1, <1>2, <1>3 DEF TypeOK, JournalOK, Same, Changed, Attempt, FinishAttempt
-----------------------------------------------------------------------------
(* The locals of requests and replays *)

\* The locals w is left with when it goes on as a.
LocalsOf(a) == IF a.pc \in Over THEN NoLocals(a.pc) ELSE a

\* What becomes of the locals of whoever makes a step, and of nobody else.
LEMMA Locals ==
    ASSUME TypeOK, NEW w \in Writers, NEW a \in Task, Becomes(w, a)
    PROVE  /\ task' \in [Writers -> Task]
           /\ task'[w] = LocalsOf(a)
           /\ LocalsOf(a).pc = a.pc
           /\ \A v \in Writers : v # w => task'[v] = task[v]
<1>1. LocalsOf(a) \in Task /\ LocalsOf(a).pc = a.pc
  <2>1. a.pc \in PC /\ 0 \in 0..MaxAttempts
    BY JournalAssumption DEF Task
  <2>2. NoLocals(a.pc) \in Task /\ NoLocals(a.pc).pc = a.pc
    BY <2>1 DEF Task, NoLocals
  <2>. QED
    BY <2>2 DEF LocalsOf
<1>2. task' = [task EXCEPT ![w] = LocalsOf(a)]
  BY DEF Becomes, LocalsOf
<1>. QED
  BY <1>1, <1>2 DEF TypeOK

\* Nothing that was decided, tried or carried out is taken back.
Monotone ==
    /\ \A t \in Threads : source[t] # "none" => source'[t] # "none"
    /\ \A t \in Threads : source[t] = "committed" => source'[t] = "committed"
    /\ \A d \in Deliveries : Len(attempts'[d]) >= Len(attempts[d])
    /\ \A d \in Deliveries : Succeeded(d) => Succeeded(d)'
    /\ projected \subseteq projected'

\* A handler that is covered stays covered.
LEMMA CoveredStays ==
    ASSUME Monotone, NEW a \in Task, a.job \in Threads, NEW h \in Handlers, Covered(a, h)
    PROVE  Covered(a, h)'
BY DEF Covered, Monotone, Deliveries

\* What holds of the locals a goes on to hold, except at "begin".
LEMMA WellStays ==
    ASSUME TypeOK, TypeOK', Monotone, NEW a \in Task, Well(a),
           a.pc = "begin" => (MayBegin(<<a.job, a.cur>>) /\ ~Full(<<a.job, a.cur>>))'
    PROVE  Well(a)'
<1>1. /\ (a.pc \in {"prepare", "unlink"} \cup Announced \cup Looping => a.job \in Threads)'
      /\ (a.pc \in {"begin"} \cup Executing => a.cur \in Handlers)'
  BY DEF Well, Announced, Executing, Looping
<1>2. (a.pc \in Announced => source[a.job] # "none")'
  BY DEF Well, Monotone, Announced
<1>3. (a.pc \in {"unlink"} \cup Looping => source[a.job] = "committed")'
  BY DEF Well, Monotone
<1>4. (\A t \in a.queue : source[t] = "committed")'
  BY DEF Well, Monotone, Task
<1>5. (a.pc \in Executing => a.gen \in 1..Len(attempts[<<a.job, a.cur>>]))'
  <2>. SUFFICES ASSUME a.pc \in Executing PROVE a.gen \in 1..Len(attempts'[<<a.job, a.cur>>])
    OBVIOUS
  <2>. DEFINE d == <<a.job, a.cur>>
  <2>1. d \in Deliveries /\ a.gen \in 1..Len(attempts[d])
    BY DEF Well, Deliveries, Looping
  <2>2. Len(attempts[d]) \in Nat /\ Len(attempts'[d]) \in Nat /\ Len(attempts'[d]) >= Len(attempts[d])
    BY <2>1 DEF TypeOK, JournalOK, Monotone
  <2>. QED
    BY <2>1, <2>2
<1>6. (a.pc = "ok" => <<a.job, a.cur>> \in projected)'
  BY DEF Well, Monotone
<1>7. a.job \in Threads => \A h \in Handlers : Covered(a, h) => Covered(a, h)'
  BY CoveredStays
<1>8. (a.pc \in Looping /\ ~a.failed =>
         \A h \in Handlers \ a.left :
             Covered(a, h) \/ (a.pc \in {"begin"} \cup Executing /\ h = a.cur))'
  BY <1>1, <1>7 DEF Well
<1>9. (a.pc = "unlink" => \A h \in Handlers : Covered(a, h))'
  BY <1>1, <1>7 DEF Well
<1>. QED
  BY <1>1, <1>2, <1>3, <1>4, <1>5, <1>6, <1>8, <1>9 DEF Well

\* A step in which w goes on as a keeps Tasks, if it can be said of a and nobody at
\* "begin" is disturbed.
LEMMA TasksStep ==
    ASSUME IInv, TypeOK', Monotone, NEW w \in Writers, NEW a \in Task, Becomes(w, a),
           a.pc \notin Over => Well(a)',
           \A v \in Writers : v # w /\ At(v, "begin") =>
               (MayBegin(Delivery(v)) /\ ~Full(Delivery(v)))' \/ UNCHANGED attempts
    PROVE  Tasks'
<1>. SUFFICES ASSUME NEW v \in Writers PROVE Well(task[v])'
  BY DEF Tasks
<1>1. CASE v = w
  <2>1. task'[v] = LocalsOf(a)
    BY <1>1, Locals DEF IInv
  <2>2. CASE a.pc \in Over
    <3>1. task'[v] = NoLocals(a.pc)
      BY <2>1, <2>2 DEF LocalsOf
    <3>2. task'[v].pc \in Over /\ task'[v].queue = {}
      BY <2>2, <3>1 DEF NoLocals
    <3>. QED
      BY <3>2 DEF Well, Over, Announced, Looping, Executing
  <2>3. CASE a.pc \notin Over
    BY <2>1, <2>3 DEF LocalsOf
  <2>. QED
    BY <2>2, <2>3
<1>2. CASE v # w
  <2>1. task'[v] = task[v] /\ task[v] \in Task /\ Well(task[v])
    BY <1>2, Locals DEF IInv, Tasks, TypeOK
  <2>. DEFINE b == task[v]
  <2>2. ASSUME b.pc = "begin" PROVE (MayBegin(<<b.job, b.cur>>) /\ ~Full(<<b.job, b.cur>>))'
    <3>1. CASE UNCHANGED attempts
      BY <2>1, <2>2, <3>1 DEF Well, MayBegin, Full, Succeeded, Held
    <3>2. CASE (MayBegin(Delivery(v)) /\ ~Full(Delivery(v)))'
      BY <2>1, <3>2 DEF Delivery
    <3>. QED
      BY SMTT(30), <1>2, <2>2, <3>1, <3>2 DEF At
  <2>3. \A c \in Task : c = b => Well(c)'
    <3>. SUFFICES ASSUME NEW c \in Task, c = task[v] PROVE Well(c)'
      OBVIOUS
    <3>1. c.pc = "begin" => (MayBegin(<<c.job, c.cur>>) /\ ~Full(<<c.job, c.cur>>))'
      BY <2>2, <2>1
    <3>2. Well(c)
      BY <2>1
    <3>. QED
      BY <3>1, <3>2, WellStays DEF IInv
  <2>. QED
    BY <2>1, <2>3
<1>. QED
  BY <1>1, <1>2
-----------------------------------------------------------------------------
(* Steps that leave the attempts and the lock alone *)

\* The count of failures stays in its bound.
LEMMA Faults ==
    ASSUME TypeOK, Fault \/ NoFault
    PROVE  faults' \in 0..MaxFaults
BY WritersAssumption DEF TypeOK, ThreadsOK, Fault, NoFault

\* The outcomes of deletions that were decided stay.
Decided ==
    /\ source' \in [Threads -> {"none", "prepared", "committed", "aborted"}]
    /\ \A t \in Threads : source[t] # "none" => source'[t] # "none"
    /\ \A t \in Threads : source[t] = "committed" => source'[t] = "committed"

\* The owner rows and what was projected are left alone.
StoresKept ==
    /\ kept' \in [Threads -> SUBSET Stores]
    /\ \A t \in Threads : "meta" \in kept[t] => "meta" \in kept'[t]
    /\ projected' = projected

\* Steps that only decide deletions keep what was projected in order.
LEMMA StoresStay ==
    ASSUME IInv, Decided, StoresKept, UNCHANGED attempts
    PROVE  OnlyCommitted' /\ projected' \in SUBSET Deliveries
BY DEF IInv, TypeOK, ThreadsOK, Deliveries, OnlyCommitted, Decided, StoresKept

\* A step that touches no attempt, no directory and no lock keeps the invariant, if it
\* keeps what the journal and the stores say of its own locals.
LEMMA Calm ==
    ASSUME IInv, NEW w \in Writers, NEW a \in Task, Becomes(w, a),
           Decided, kept' \in [Threads -> SUBSET Stores],
           projected' \in SUBSET Deliveries, projected \subseteq projected',
           Fault \/ NoFault, UNCHANGED <<attempts, torn, jlock, active, crashes>>,
           ~At(w, "begin"), a.pc # "begin", a.pc \notin Over => Well(a)',
           OnlyCommitted'
    PROVE  IInv'
<1>1. TypeOK'
  <2>1. task' \in [Writers -> Task] /\ faults' \in 0..MaxFaults
    BY Locals, Faults DEF IInv
  <2>. QED
    BY <2>1 DEF IInv, TypeOK, JournalOK, ThreadsOK, Decided
<1>2. Monotone
  <2>1. \A d \in Deliveries : Len(attempts'[d]) >= Len(attempts[d])
    BY DEF IInv, TypeOK, JournalOK
  <2>. QED
    BY <2>1 DEF Monotone, Decided, Succeeded
<1>3. Tasks'
  BY <1>1, <1>2, TasksStep
<1>4. LockHeld'
  <2>1. \A v \in Writers : At(v, "begin")' <=> At(v, "begin")
    BY Locals DEF IInv, At
  <2>. QED
    BY <2>1, JournalAssumption DEF IInv, LockHeld, TypeOK, JournalOK
<1>5. Trails'
  BY DEF IInv, Trails, Trail, Decided, Deliveries
<1>6. SuccessIsReal'
  BY DEF IInv, SuccessIsReal, Succeeded
<1>. QED
  BY <1>1, <1>3, <1>4, <1>5, <1>6 DEF IInv
-----------------------------------------------------------------------------
(* The steps of a request or replay *)

\* The fields of the locals.
LEMMA Fields ==
    ASSUME NEW b \in Task
    PROVE  /\ b.pc \in PC /\ b.job \in Threads \cup {NoThread} /\ b.left \in SUBSET Handlers
           /\ b.cur \in Handlers \cup {NoHandler} /\ b.gen \in 0..MaxAttempts
           /\ b.failed \in BOOLEAN /\ b.queue \in SUBSET Threads
           /\ b.set_aside \in SUBSET Handlers
BY DEF Task

\* w goes on at another place with the locals it has.
LEMMA Going ==
    ASSUME TypeOK, NEW w \in Writers, NEW to \in PC, Goes(w, to)
    PROVE  \E a \in Task :
             /\ Becomes(w, a) /\ a.pc = to /\ a.job = Job(w) /\ a.left = task[w].left
             /\ a.cur = task[w].cur /\ a.gen = task[w].gen /\ a.failed = task[w].failed
             /\ a.queue = task[w].queue /\ a.set_aside = task[w].set_aside
<1>1. task[w] \in Task
  BY DEF TypeOK
<1>2. PICK a : a = [task[w] EXCEPT !.pc = to]
  OBVIOUS
<1>3. /\ a \in Task /\ a.pc = to /\ a.job = task[w].job /\ a.left = task[w].left
      /\ a.cur = task[w].cur /\ a.gen = task[w].gen /\ a.failed = task[w].failed
      /\ a.queue = task[w].queue /\ a.set_aside = task[w].set_aside
  BY <1>1, <1>2 DEF Task
<1>4. Becomes(w, a)
  BY <1>2 DEF Goes
<1>. QED
  BY <1>3, <1>4 DEF Job

\* w goes back to the loop over the handlers.
LEMMA GoingBack ==
    ASSUME TypeOK, NEW w \in Writers, NEW f \in BOOLEAN, BackToLoop(w, f)
    PROVE  \E a \in Task :
             /\ Becomes(w, a) /\ a.pc = "dispatch" /\ a.job = Job(w) /\ a.left = task[w].left
             /\ a.failed = (task[w].failed \/ f) /\ a.queue = task[w].queue
             /\ a.set_aside = task[w].set_aside
<1>1. task[w] \in Task /\ "dispatch" \in PC /\ 0 \in 0..MaxAttempts
  BY JournalAssumption DEF TypeOK, PC
<1>2. PICK g \in BOOLEAN : g = (task[w].failed \/ f)
  BY <1>1, Fields
<1>3. PICK a : a = [task[w] EXCEPT !.pc = "dispatch", !.cur = NoHandler, !.gen = 0,
                                   !.failed = g]
  OBVIOUS
<1>4. /\ a \in Task /\ a.pc = "dispatch" /\ a.job = task[w].job /\ a.left = task[w].left
      /\ a.failed = g /\ a.queue = task[w].queue /\ a.set_aside = task[w].set_aside
  BY <1>1, <1>3 DEF Task
<1>5. Becomes(w, a)
  BY <1>2, <1>3 DEF BackToLoop
<1>. QED
  BY <1>2, <1>4, <1>5 DEF Job
-----------------------------------------------------------------------------
(* The DELETE route, up to the commit *)

\* A request that arrives knows nothing yet.
LEMMA ArrivesSafe ==
    ASSUME IInv, NEW w \in Writers, NEW t \in Threads, Arrives(w, t)
    PROVE  IInv'
<1>1. task[w] \in Task /\ task[w].pc = "idle" /\ Well(task[w])
  BY DEF Arrives, IInv, TypeOK, At, Tasks
<1>2. PICK a : a = [task[w] EXCEPT !.pc = "prepare", !.job = t]
  OBVIOUS
<1>3. a \in Task /\ a.pc = "prepare" /\ a.job = t /\ a.queue = task[w].queue
  BY <1>1, <1>2 DEF Task, PC
<1>4. Becomes(w, a) /\ UNCHANGED <<journalVars, storeVars, boundVars>>
  BY <1>2 DEF Arrives
<1>5. Well(a)'
  BY <1>1, <1>3, <1>4 DEF Well, Announced, Looping, Executing, journalVars
<1>6. Decided /\ StoresKept /\ NoFault
  BY <1>4 DEF IInv, TypeOK, JournalOK, ThreadsOK, Decided, StoresKept, NoFault, journalVars,
              storeVars, boundVars
<1>7. OnlyCommitted' /\ projected' \in SUBSET Deliveries
  BY <1>4, <1>6, StoresStay DEF journalVars
<1>. QED
  BY <1>1, <1>3, <1>4, <1>5, <1>6, <1>7, Calm
     DEF journalVars, storeVars, boundVars, StoresKept, At

\* The intent is there, or the request is over, before anything is purged.
LEMMA PreparesSafe ==
    ASSUME IInv, NEW w \in Writers, Prepares(w)
    PROVE  IInv'
<1>1. /\ task[w] \in Task /\ task[w].pc = "prepare" /\ Well(task[w]) /\ Job(w) \in Threads
      /\ UNCHANGED <<attempts, torn, jlock, storeVars, crashes>> /\ (Fault \/ NoFault)
  BY DEF Prepares, IInv, TypeOK, At, Tasks, Well, Job
<1>2. Decided
  BY <1>1 DEF Prepares, Prepare, IInv, TypeOK, JournalOK, Decided
<1>3. PICK to \in {"failed", "files"} :
        Goes(w, to) /\ (to = "files" => source'[Job(w)] # "none")
  BY <1>1 DEF Prepares, Prepare, IInv, TypeOK, JournalOK
<1>4. PICK a \in Task : Becomes(w, a) /\ a.pc = to /\ a.job = Job(w) /\ a.queue = task[w].queue
  BY <1>3, Going DEF IInv, PC, Over
<1>5. a.pc \notin Over => Well(a)'
  BY <1>1, <1>2, <1>3, <1>4
     DEF Well, Announced, Looping, Executing, Over, Decided, Task
<1>6. StoresKept
  BY <1>1 DEF IInv, TypeOK, ThreadsOK, StoresKept, storeVars
<1>7. OnlyCommitted' /\ projected' \in SUBSET Deliveries
  BY <1>1, <1>2, <1>6, StoresStay
<1>. QED
  BY <1>1, <1>2, <1>3, <1>4, <1>5, <1>6, <1>7, Calm DEF storeVars, StoresKept, At

\* Purging leaves the owner row alone.
LEMMA PurgesSafe ==
    ASSUME IInv, NEW w \in Writers, NEW store \in {"files", "checkpoints"},
           NEW next \in {"checkpoints", "commit"}, Purges(w, store, next)
    PROVE  IInv'
<1>1. /\ task[w] \in Task /\ task[w].pc = store /\ Well(task[w]) /\ Job(w) \in Threads
      /\ UNCHANGED <<journalVars, active, projected, crashes>> /\ (Fault \/ NoFault)
  BY DEF Purges, IInv, TypeOK, At, Tasks, Well, Job, Announced
<1>2. Decided
  BY <1>1 DEF IInv, TypeOK, JournalOK, Decided, journalVars
<1>3. PICK to \in {"abort", "checkpoints", "commit"} : Goes(w, to)
  BY DEF Purges
<1>4. PICK a \in Task : Becomes(w, a) /\ a.pc = to /\ a.job = Job(w) /\ a.queue = task[w].queue
  BY <1>3, Going DEF IInv, PC
<1>5. Well(a)'
  BY <1>1, <1>3, <1>4
     DEF Well, Announced, Looping, Executing, Job, journalVars
<1>6. StoresKept
  BY <1>1 DEF Purges, IInv, TypeOK, ThreadsOK, StoresKept, Stores
<1>7. OnlyCommitted' /\ projected' \in SUBSET Deliveries
  BY <1>1, <1>2, <1>6, StoresStay DEF journalVars
<1>. QED
  BY <1>1, <1>2, <1>3, <1>4, <1>5, <1>6, <1>7, Calm DEF journalVars, StoresKept, At

\* An abort never takes back a commit.
LEMMA AbortsSafe ==
    ASSUME IInv, NEW w \in Writers, Aborts(w)
    PROVE  IInv'
<1>1. /\ task[w] \in Task /\ task[w].pc = "abort" /\ Well(task[w]) /\ Job(w) \in Threads
      /\ UNCHANGED <<attempts, torn, jlock, storeVars, crashes>> /\ (Fault \/ NoFault)
      /\ Goes(w, "refused")
  BY DEF Aborts, IInv, TypeOK, At, Tasks, Well, Job, Announced
<1>2. Decided
  BY <1>1 DEF Aborts, AbortSource, Abortable, IInv, TypeOK, JournalOK, Decided
<1>3. PICK a \in Task : Becomes(w, a) /\ a.pc = "refused"
  BY <1>1, Going DEF IInv, PC, Over
<1>4. StoresKept
  BY <1>1 DEF IInv, TypeOK, ThreadsOK, StoresKept, storeVars
<1>5. OnlyCommitted' /\ projected' \in SUBSET Deliveries
  BY <1>1, <1>2, <1>4, StoresStay
<1>. QED
  BY <1>1, <1>2, <1>3, <1>4, <1>5, Calm DEF storeVars, StoresKept, At, Over

\* A commit never overwrites an abort, and the dispatch that follows it has every
\* handler before it.
LEMMA CommitsSafe ==
    ASSUME IInv, NEW w \in Writers, Commits(w)
    PROVE  IInv'
<1>1. /\ task[w] \in Task /\ task[w].pc = "commit" /\ Well(task[w]) /\ Job(w) \in Threads
      /\ source[Job(w)] # "none" /\ UNCHANGED <<attempts, torn, jlock, storeVars, crashes>>
      /\ (Fault \/ NoFault)
  BY DEF Commits, IInv, TypeOK, At, Tasks, Well, Job, Announced
<1>2. Decided
  BY <1>1 DEF Commits, CommitSource, Committable, IInv, TypeOK, JournalOK, Decided
<1>3. PICK a \in Task :
        /\ Becomes(w, a)
        /\ \/ a.pc = "failed"
           \/ /\ a.pc \in {"reread", "dispatch"} /\ a.job = Job(w) /\ a.left = Handlers
              /\ source'[Job(w)] = "committed" /\ a.queue = task[w].queue
  <2>1. CASE Goes(w, "failed")
    BY <2>1, Going DEF IInv, PC, Over
  <2>2. CASE ~Goes(w, "failed")
    <3>1. PICK place \in {"reread", "dispatch"} :
            Becomes(w, Dispatching(w, Job(w), place)) /\ source'[Job(w)] = "committed"
      BY <1>1, <2>2 DEF Commits, CommitSource, Committable, IInv, TypeOK, JournalOK
    <3>2. PICK a : a = [task[w] EXCEPT !.pc = place, !.job = Job(w), !.left = Handlers,
                                       !.failed = FALSE, !.set_aside = {}]
      OBVIOUS
    <3>3. place \in PC
      BY DEF PC
    <3>4. /\ a \in Task /\ a.pc = place /\ a.job = Job(w) /\ a.left = Handlers
          /\ a.queue = task[w].queue
      BY <1>1, <3>2, <3>3 DEF Task
    <3>5. Becomes(w, a)
      BY <3>1, <3>2 DEF Dispatching
    <3>. QED
      BY <3>1, <3>4, <3>5
  <2>. QED
    BY <2>1, <2>2
<1>4. a.pc \notin Over => Well(a)'
  BY <1>1, <1>2, <1>3 DEF Well, Announced, Looping, Executing, Over, Decided, Task
<1>5. StoresKept
  BY <1>1 DEF IInv, TypeOK, ThreadsOK, StoresKept, storeVars
<1>6. OnlyCommitted' /\ projected' \in SUBSET Deliveries
  BY <1>1, <1>2, <1>5, StoresStay
<1>. QED
  BY <1>1, <1>2, <1>3, <1>4, <1>5, <1>6, Calm DEF storeVars, StoresKept, At
-----------------------------------------------------------------------------
(* The dispatcher *)

\* A handler that is passed over without a failure has succeeded or is set aside.
LEMMA PassesSafe ==
    ASSUME IInv, NEW w \in Writers, NEW h \in Handlers, Passes(w, h)
    PROVE  IInv'
<1>. DEFINE d == <<Job(w), h>>
<1>1. /\ task[w] \in Task /\ task[w].pc = "dispatch" /\ Well(task[w]) /\ Job(w) \in Threads
      /\ h \in task[w].left /\ UNCHANGED <<journalVars, storeVars, crashes>>
      /\ (Fault \/ NoFault)
  BY DEF Passes, IInv, TypeOK, At, Tasks, Well, Job, Looping
<1>2. PICK b : b = [task[w] EXCEPT !.left = task[w].left \ {h}]
  OBVIOUS
<1>3. /\ b \in Task /\ b.pc = "dispatch" /\ b.job = Job(w) /\ b.left = task[w].left \ {h}
      /\ b.queue = task[w].queue /\ b.set_aside = task[w].set_aside
      /\ b.failed = task[w].failed /\ b.failed \in BOOLEAN
  BY <1>1, <1>2 DEF Task, Job
<1>4. PICK a \in Task :
        /\ Becomes(w, a) /\ a.pc = "dispatch" /\ a.job = Job(w) /\ a.left = task[w].left \ {h}
        /\ a.queue = task[w].queue /\ a.failed \in BOOLEAN
        /\ task[w].set_aside \subseteq a.set_aside
        /\ ~a.failed => ~task[w].failed /\ Covered(a, h)
  <2>1. CASE Becomes(w, [b EXCEPT !.failed = TRUE])
    <3>1. PICK a : a = [b EXCEPT !.failed = TRUE]
      OBVIOUS
    <3>2. /\ a \in Task /\ a.pc = "dispatch" /\ a.job = Job(w) /\ a.left = task[w].left \ {h}
          /\ a.queue = task[w].queue /\ a.failed = TRUE /\ a.set_aside = task[w].set_aside
      BY <1>3, <3>1 DEF Task
    <3>3. Becomes(w, a)
      BY <2>1, <3>1
    <3>. QED
      BY <3>2, <3>3
  <2>2. CASE Becomes(w, [b EXCEPT !.set_aside = IF Succeeded(d) THEN @ ELSE @ \cup {h}])
    <3>1. PICK z \in SUBSET Handlers :
            z = IF Succeeded(d) THEN b.set_aside ELSE b.set_aside \cup {h}
      BY <1>3, Fields
    <3>2. PICK a : a = [b EXCEPT !.set_aside = z]
      OBVIOUS
    <3>3. /\ a \in Task /\ a.pc = "dispatch" /\ a.job = Job(w) /\ a.left = task[w].left \ {h}
          /\ a.queue = task[w].queue /\ a.failed = task[w].failed /\ a.set_aside = z
      BY <1>3, <3>2 DEF Task
    <3>4. Becomes(w, a)
      BY <2>2, <3>1, <3>2
    <3>5. Covered(a, h) /\ task[w].set_aside \subseteq a.set_aside
      BY <1>3, <3>1, <3>3 DEF Covered
    <3>. QED
      BY <1>3, <3>3, <3>4, <3>5
  <2>. QED
    BY <1>2, <2>1, <2>2 DEF Passes
<1>5. Well(a)'
  <2>1. ~a.failed => \A g \in Handlers \ a.left : Covered(a, g)
    BY <1>1, <1>4 DEF Well, Looping, Executing, Covered, Job
  <2>2. \A g \in Handlers : Covered(a, g) => Covered(a, g)'
    BY <1>1 DEF Covered, Succeeded, journalVars
  <2>. QED
    BY <1>1, <1>4, <2>1, <2>2 DEF Well, Announced, Looping, Executing, Job, journalVars, storeVars
<1>6. Decided /\ StoresKept
  BY <1>1 DEF IInv, TypeOK, JournalOK, ThreadsOK, Decided, StoresKept, journalVars, storeVars
<1>7. OnlyCommitted' /\ projected' \in SUBSET Deliveries
  BY <1>1, <1>6, StoresStay DEF journalVars
<1>. QED
  BY <1>1, <1>4, <1>5, <1>6, <1>7, Calm DEF journalVars, storeVars, StoresKept, At

\* Reading the journal again changes nothing but the failures.
LEMMA RereadsSafe ==
    ASSUME IInv, NEW w \in Writers, Rereads(w)
    PROVE  IInv'
<1>1. /\ task[w] \in Task /\ task[w].pc = "reread" /\ Well(task[w]) /\ Job(w) \in Threads
      /\ UNCHANGED <<journalVars, storeVars, boundVars>>
  BY DEF Rereads, IInv, TypeOK, At, Tasks, Well, Job, Looping
<1>2. PICK a \in Task :
        /\ Becomes(w, a)
        /\ \/ a.pc = "failed"
           \/ /\ a.pc = "dispatch" /\ a.job = Job(w) /\ a.left = task[w].left
              /\ ~a.failed => ~task[w].failed
              /\ a.queue = task[w].queue /\ a.set_aside = task[w].set_aside
  <2>1. CASE Goes(w, "failed")
    BY <2>1, Going DEF IInv, PC, Over
  <2>2. CASE BackToLoop(w, Unreadable(Job(w)))
    <3>1. Unreadable(Job(w)) \in BOOLEAN /\ TypeOK
      BY DEF Unreadable, IInv
    <3>. QED
      BY <2>2, <3>1, GoingBack
  <2>. QED
    BY <2>1, <2>2 DEF Rereads
<1>3. a.pc \notin Over => Well(a)'
  BY <1>1, <1>2
     DEF Well, Covered, Succeeded, Announced, Looping, Executing, Over, Job, journalVars
<1>4. Decided /\ StoresKept /\ NoFault
  BY <1>1 DEF IInv, TypeOK, JournalOK, ThreadsOK, Decided, StoresKept, NoFault, journalVars,
              storeVars, boundVars
<1>5. OnlyCommitted' /\ projected' \in SUBSET Deliveries
  BY <1>1, <1>4, StoresStay DEF journalVars
<1>. QED
  BY <1>1, <1>2, <1>3, <1>4, <1>5, Calm
     DEF journalVars, storeVars, boundVars, StoresKept, At

\* A dispatch without failures has tried every handler.
LEMMA ConcludesSafe ==
    ASSUME IInv, NEW w \in Writers, Concludes(w)
    PROVE  IInv'
<1>1. /\ task[w] \in Task /\ task[w].pc = "dispatch" /\ Well(task[w]) /\ Job(w) \in Threads
      /\ task[w].left = {} /\ UNCHANGED <<journalVars, storeVars, boundVars>>
  BY DEF Concludes, IInv, TypeOK, At, Tasks, Well, Job, Looping
<1>2. PICK to \in {"failed", "next", "unlink"} :
        Goes(w, to) /\ (to = "unlink" => ~task[w].failed)
  BY DEF Concludes, AfterDispatch
<1>3. PICK a \in Task : /\ Becomes(w, a) /\ a.pc = to /\ a.job = Job(w) /\ a.queue = task[w].queue
                        /\ a.set_aside = task[w].set_aside
  BY <1>2, Going DEF IInv, PC, Over
<1>4. a.pc \notin Over => Well(a)'
  BY <1>1, <1>2, <1>3
     DEF Well, Covered, Succeeded, Announced, Looping, Executing, Over, Job, journalVars
<1>5. Decided /\ StoresKept /\ NoFault
  BY <1>1 DEF IInv, TypeOK, JournalOK, ThreadsOK, Decided, StoresKept, NoFault, journalVars,
              storeVars, boundVars
<1>6. OnlyCommitted' /\ projected' \in SUBSET Deliveries
  BY <1>1, <1>5, StoresStay DEF journalVars
<1>. QED
  BY <1>1, <1>2, <1>3, <1>4, <1>5, <1>6, Calm
     DEF journalVars, storeVars, boundVars, StoresKept, At

\* A handler is executed for a committed deletion only.
LEMMA HandlesSafe ==
    ASSUME IInv, NEW w \in Writers, Handles(w)
    PROVE  IInv'
<1>. DEFINE d == Delivery(w)
<1>1. /\ task[w] \in Task /\ task[w].pc = "handle" /\ Well(task[w]) /\ Job(w) \in Threads
      /\ task[w].cur \in Handlers /\ source[Job(w)] = "committed"
      /\ UNCHANGED <<journalVars, kept, active, crashes>> /\ (Fault \/ NoFault)
  BY DEF Handles, IInv, TypeOK, At, Tasks, Well, Job, Looping, Executing
<1>2. d \in Deliveries /\ d[1] = Job(w)
  BY <1>1 DEF Delivery, Deliveries, Job
<1>3. PICK to \in {"ok", "bad"} : Goes(w, to) /\ (to = "ok" => d \in projected')
  BY DEF Handles
<1>4. projected' \in {projected, projected \cup {d}}
  BY DEF Handles
<1>5. PICK a \in Task : /\ Becomes(w, a) /\ a.pc = to /\ a.job = Job(w) /\ a.queue = task[w].queue
                        /\ a.cur = task[w].cur /\ a.gen = task[w].gen /\ a.left = task[w].left
                        /\ a.failed = task[w].failed /\ a.set_aside = task[w].set_aside
  BY <1>3, Going DEF IInv, PC
<1>6. Well(a)'
  BY <1>1, <1>3, <1>5
     DEF Well, Covered, Succeeded, Announced, Looping, Executing, Job, Delivery, journalVars
<1>7. Decided
  BY <1>1 DEF IInv, TypeOK, JournalOK, Decided, journalVars
<1>8. OnlyCommitted' /\ projected' \in SUBSET Deliveries /\ projected \subseteq projected'
  BY <1>1, <1>2, <1>4 DEF IInv, TypeOK, ThreadsOK, OnlyCommitted, journalVars
<1>9. kept' \in [Threads -> SUBSET Stores]
  BY <1>1 DEF IInv, TypeOK, ThreadsOK, journalVars
<1>. QED
  BY <1>1, <1>3, <1>5, <1>6, <1>7, <1>8, <1>9, Calm DEF journalVars, At

\* Removing the owner row touches nothing the journal says.
LEMMA UnlinksSafe ==
    ASSUME IInv, NEW w \in Writers, Unlinks(w)
    PROVE  IInv'
<1>1. /\ task[w] \in Task /\ task[w].pc = "unlink" /\ Well(task[w]) /\ Job(w) \in Threads
      /\ UNCHANGED <<journalVars, active, projected, crashes>> /\ (Fault \/ NoFault)
      /\ Goes(w, "done") /\ kept' \in {kept, [kept EXCEPT ![Job(w)] = @ \ {"meta"}]}
  BY DEF Unlinks, IInv, TypeOK, At, Tasks, Well, Job
<1>2. PICK a \in Task : Becomes(w, a) /\ a.pc = "done"
  BY <1>1, Going DEF IInv, PC, Over
<1>3. Decided /\ kept' \in [Threads -> SUBSET Stores]
  BY <1>1 DEF IInv, TypeOK, JournalOK, ThreadsOK, Decided, journalVars
<1>4. OnlyCommitted' /\ projected' \in SUBSET Deliveries
  BY <1>1 DEF IInv, TypeOK, ThreadsOK, OnlyCommitted, journalVars
<1>. QED
  BY <1>1, <1>2, <1>3, <1>4, Calm DEF journalVars, At, Over
-----------------------------------------------------------------------------
(* The replay *)

\* What a replay lists is committed, and stays so.
LEMMA ListsSafe ==
    ASSUME IInv, NEW w \in Writers, Lists(w)
    PROVE  IInv'
<1>1. /\ task[w] \in Task /\ task[w].pc = "idle" /\ Well(task[w])
      /\ UNCHANGED <<journalVars, storeVars, boundVars>>
  BY DEF Lists, IInv, TypeOK, At, Tasks
<1>2. PICK a \in Task :
        /\ Becomes(w, a)
        /\ \/ a.pc = "failed"
           \/ a.pc = "next" /\ \A t \in a.queue : source[t] = "committed"
  <2>1. CASE Goes(w, "failed")
    BY <2>1, Going DEF IInv, PC, Over
  <2>2. CASE Becomes(w, [task[w] EXCEPT !.pc = "next",
                                        !.queue = {t \in Threads : Replayable(t)}])
    <3>1. PICK a : a = [task[w] EXCEPT !.pc = "next",
                                       !.queue = {t \in Threads : Replayable(t)}]
      OBVIOUS
    <3>2. {t \in Threads : Replayable(t)} \in SUBSET Threads /\ "next" \in PC
      BY DEF PC
    <3>3. a \in Task /\ a.pc = "next" /\ a.queue = {t \in Threads : Replayable(t)}
      BY <1>1, <3>1, <3>2 DEF Task
    <3>4. Becomes(w, a)
      BY <2>2, <3>1
    <3>. QED
      BY <3>3, <3>4 DEF Replayable
  <2>. QED
    BY <2>1, <2>2 DEF Lists
<1>3. a.pc \notin Over => Well(a)'
  BY <1>1, <1>2 DEF Well, Announced, Looping, Executing, Over, journalVars
<1>4. Decided /\ StoresKept /\ NoFault
  BY <1>1 DEF IInv, TypeOK, JournalOK, ThreadsOK, Decided, StoresKept, NoFault, journalVars,
              storeVars, boundVars
<1>5. OnlyCommitted' /\ projected' \in SUBSET Deliveries
  BY <1>1, <1>4, StoresStay DEF journalVars
<1>. QED
  BY <1>1, <1>2, <1>3, <1>4, <1>5, Calm
     DEF journalVars, storeVars, boundVars, StoresKept, At

\* A replay dispatches what it listed as committed.
LEMMA PicksSafe ==
    ASSUME IInv, NEW w \in Writers, Picks(w)
    PROVE  IInv'
<1>1. /\ task[w] \in Task /\ task[w].pc = "next" /\ Well(task[w])
      /\ UNCHANGED <<journalVars, storeVars, boundVars>>
  BY DEF Picks, IInv, TypeOK, At, Tasks
<1>2. PICK t \in task[w].queue :
        Becomes(w, [Dispatching(w, t, "dispatch") EXCEPT !.queue = @ \ {t}])
  BY DEF Picks
<1>3. t \in Threads /\ source[t] = "committed" /\ "dispatch" \in PC
  BY <1>1, <1>2, Fields DEF Well, PC
<1>4. PICK b : b = [task[w] EXCEPT !.pc = "dispatch", !.job = t, !.left = Handlers,
                                   !.failed = FALSE, !.set_aside = {}]
  OBVIOUS
<1>5. /\ b \in Task /\ b.pc = "dispatch" /\ b.job = t /\ b.left = Handlers
      /\ b.queue = task[w].queue
  BY <1>1, <1>3, <1>4 DEF Task
<1>6. PICK a : a = [b EXCEPT !.queue = b.queue \ {t}]
  OBVIOUS
<1>7. /\ a \in Task /\ a.pc = "dispatch" /\ a.job = t /\ a.left = Handlers
      /\ a.queue \subseteq task[w].queue
  BY <1>5, <1>6 DEF Task
<1>8. Becomes(w, a)
  BY <1>2, <1>4, <1>6 DEF Dispatching
<1>9. Well(a)'
  BY <1>1, <1>3, <1>7 DEF Well, Announced, Looping, Executing, journalVars
<1>10. Decided /\ StoresKept /\ NoFault
  BY <1>1 DEF IInv, TypeOK, JournalOK, ThreadsOK, Decided, StoresKept, NoFault, journalVars,
              storeVars, boundVars
<1>11. OnlyCommitted' /\ projected' \in SUBSET Deliveries
  BY <1>1, <1>10, StoresStay DEF journalVars
<1>. QED
  BY <1>1, <1>7, <1>8, <1>9, <1>10, <1>11, Calm
     DEF journalVars, storeVars, boundVars, StoresKept, At

\* The report of a replay changes nothing.
LEMMA ReportsSafe ==
    ASSUME IInv, NEW w \in Writers, Reports(w)
    PROVE  IInv'
<1>1. /\ task[w] \in Task /\ task[w].pc = "next"
      /\ UNCHANGED <<journalVars, storeVars, boundVars>>
  BY DEF Reports, IInv, TypeOK, At
<1>2. PICK to \in {"failed", "done"} : Goes(w, to)
  BY DEF Reports
<1>3. PICK a \in Task : Becomes(w, a) /\ a.pc = to
  BY <1>2, Going DEF IInv, PC, Over
<1>4. Decided /\ StoresKept /\ NoFault
  BY <1>1 DEF IInv, TypeOK, JournalOK, ThreadsOK, Decided, StoresKept, NoFault, journalVars,
              storeVars, boundVars
<1>5. OnlyCommitted' /\ projected' \in SUBSET Deliveries
  BY <1>1, <1>4, StoresStay DEF journalVars
<1>. QED
  BY <1>1, <1>2, <1>3, <1>4, <1>5, Calm
     DEF journalVars, storeVars, boundVars, StoresKept, At, Over
-----------------------------------------------------------------------------
(* Steps that change the attempts *)

\* A change of the newest attempt keeps the trail, if a success was carried out.
LEMMA ChangedSafe ==
    ASSUME IInv, NEW d \in Deliveries, attempts[d] # <<>>, ~Succeeded(d), NEW r \in Attempt,
           Changed(d, Len(attempts[d]), r), \A e \in Deliveries : e # d => Same(e),
           attempts' = [e \in Deliveries |-> attempts'[e]],
           UNCHANGED <<source, projected>>, r.status = "succeeded" => d \in projected
    PROVE  /\ attempts' \in [Deliveries -> Seq(Attempt)]
           /\ \A e \in Deliveries : Len(attempts'[e]) = Len(attempts[e])
           /\ \A e \in Deliveries : Succeeded(e) => Succeeded(e)'
           /\ Trails' /\ SuccessIsReal'
<1>. DEFINE n == Len(attempts[d])
<1>1. attempts \in [Deliveries -> Seq(Attempt)] /\ attempts[d] \in Seq(Attempt)
  BY DEF IInv, TypeOK, JournalOK
<1>2. n \in 1..Len(attempts[d])
  BY <1>1
<1>3. /\ attempts'[d] \in Seq(Attempt) /\ Len(attempts'[d]) = n /\ attempts'[d][n] = r
      /\ \A i \in 1..n : i # n => attempts'[d][i] = attempts[d][i]
  BY <1>1, <1>2, ChangedAttempt DEF Changed
<1>4. \A e \in Deliveries : attempts'[e] \in Seq(Attempt) /\ Len(attempts'[e]) = Len(attempts[e])
  BY <1>1, <1>3 DEF Same
<1>5. Trail(d)'
  <2>1. source[d[1]] = "committed"
    BY DEF IInv, Trails, Trail
  <2>2. n \in Nat
    BY <1>1
  <2>3. \A i \in 1..n : i < n => i # n
    BY <2>2
  <2>. QED
    BY <1>3, <2>1, <2>3 DEF IInv, Trails, Trail
<1>6. \A e \in Deliveries : e # d => Trail(e)'
  BY DEF IInv, Trails, Trail, Same
<1>7. Succeeded(d)' => d \in projected'
  <2>. SUFFICES ASSUME NEW i \in 1..n, attempts'[d][i].status = "succeeded"
                PROVE  d \in projected
    BY <1>3 DEF Succeeded
  <2>1. CASE i = n
    BY <2>1, <1>3
  <2>2. CASE i # n
    BY <2>2, <1>3 DEF IInv, SuccessIsReal, Succeeded
  <2>. QED
    BY <2>1, <2>2
<1>8. \A e \in Deliveries : e # d => (Succeeded(e)' => e \in projected')
  BY DEF IInv, SuccessIsReal, Succeeded, Same
<1>9. \A e \in Deliveries : Succeeded(e) => Succeeded(e)'
  BY DEF Succeeded, Same
<1>. QED
  BY <1>4, <1>5, <1>6, <1>7, <1>8, <1>9 DEF Trails, SuccessIsReal

\* A new attempt keeps the trail, because nobody holds a lease and nobody succeeded.
LEMMA AddedSafe ==
    ASSUME IInv, NEW d \in Deliveries, MayBegin(d), ~Full(d), source[d[1]] = "committed",
           Added(d), \A e \in Deliveries : e # d => Same(e),
           attempts' = [e \in Deliveries |-> attempts'[e]], UNCHANGED <<source, projected>>
    PROVE  /\ attempts' \in [Deliveries -> Seq(Attempt)]
           /\ \A e \in Deliveries : Len(attempts'[e]) >= Len(attempts[e])
           /\ \A e \in Deliveries : Len(attempts'[e]) <= MaxAttempts
           /\ Len(attempts'[d]) = Len(attempts[d]) + 1
           /\ \A e \in Deliveries : Succeeded(e) => Succeeded(e)'
           /\ Trails' /\ SuccessIsReal'
<1>. DEFINE n == Len(attempts[d])
<1>1. attempts \in [Deliveries -> Seq(Attempt)] /\ attempts[d] \in Seq(Attempt) /\ n \in Nat
  BY DEF IInv, TypeOK, JournalOK
<1>2. /\ attempts'[d] \in Seq(Attempt) /\ Len(attempts'[d]) = n + 1
      /\ attempts'[d][n + 1] = NewAttempt
      /\ \A i \in 1..n : attempts'[d][i] = attempts[d][i]
  BY <1>1, AddedAttempt DEF Added
<1>3. n + 1 <= MaxAttempts
  BY <1>1, JournalAssumption DEF Full
<1>4. \A e \in Deliveries : Len(attempts[e]) \in Nat /\ Len(attempts[e]) <= MaxAttempts
  BY DEF IInv, TypeOK, JournalOK
<1>5. \A e \in Deliveries : /\ attempts'[e] \in Seq(Attempt)
                            /\ Len(attempts'[e]) >= Len(attempts[e])
                            /\ Len(attempts'[e]) <= MaxAttempts
  <2>. SUFFICES ASSUME NEW e \in Deliveries
                PROVE  /\ attempts'[e] \in Seq(Attempt)
                       /\ Len(attempts'[e]) >= Len(attempts[e])
                       /\ Len(attempts'[e]) <= MaxAttempts
    OBVIOUS
  <2>1. CASE e = d
    BY <2>1, <1>1, <1>2, <1>3
  <2>2. CASE e # d
    BY <2>2, <1>1, <1>4 DEF Same
  <2>. QED
    BY <2>1, <2>2
<1>6. \A i \in 1..(n + 1) : i # n + 1 => i \in 1..n
  BY <1>1
<1>7. Trail(d)'
  <2>1. \A i \in 1..n : /\ attempts[d][i].status # "succeeded"
                        /\ ~(attempts[d][i].status = "running" /\ attempts[d][i].live)
    BY DEF MayBegin, Succeeded, Held
  <2>2. \A i \in 1..(n + 1) : i < n + 1 => i \in 1..n
    BY <1>1
  <2>. QED
    BY <1>2, <2>1, <2>2 DEF Trail
<1>8. \A e \in Deliveries : e # d => Trail(e)'
  BY DEF IInv, Trails, Trail, Same
<1>9. ~Succeeded(d)'
  BY <1>2, <1>6 DEF MayBegin, Succeeded, NewAttempt
<1>10. \A e \in Deliveries : e # d => (Succeeded(e)' => e \in projected')
  BY DEF IInv, SuccessIsReal, Succeeded, Same
<1>11. \A e \in Deliveries : Succeeded(e) => Succeeded(e)'
  BY DEF MayBegin, Succeeded, Same
<1>. QED
  BY <1>2, <1>5, <1>7, <1>8, <1>9, <1>10, <1>11 DEF Trails, SuccessIsReal

\* While nobody is inside begin_attempt, no task stands there.
LEMMA NobodyBegins ==
    ASSUME IInv, Unlocked, NEW v \in Writers
    PROVE  ~At(v, "begin")
BY JournalAssumption DEF IInv, LockHeld, Unlocked

\* Taking the lock and making the directory keep the invariant.
LEMMA BeginsSafe ==
    ASSUME IInv, NEW w \in Writers, NEW h \in Handlers, Begins(w, h)
    PROVE  IInv'
<1>. DEFINE d == <<Job(w), h>>
<1>1. /\ task[w] \in Task /\ task[w].pc = "dispatch" /\ Well(task[w]) /\ Job(w) \in Threads
      /\ Unlocked /\ MayBegin(d) /\ ~Full(d)
      /\ torn' = torn \cup {d} /\ jlock' = w
      /\ UNCHANGED <<source, attempts, storeVars, boundVars>>
  BY DEF Begins, MakesDirectory, Unbeginnable, MayBegin, IInv, TypeOK, At, Tasks, Well, Job,
         Looping
<1>2. PICK a : a = [task[w] EXCEPT !.pc = "begin", !.left = task[w].left \ {h}, !.cur = h]
  OBVIOUS
<1>3. /\ a \in Task /\ a.pc = "begin" /\ a.job = Job(w) /\ a.left = task[w].left \ {h}
      /\ a.cur = h /\ a.failed = task[w].failed /\ a.queue = task[w].queue
      /\ a.set_aside = task[w].set_aside
  BY <1>1, <1>2 DEF Task, PC, Job
<1>4. Becomes(w, a)
  BY <1>2 DEF Begins
<1>5. TypeOK'
  <2>1. task' \in [Writers -> Task] /\ d \in Deliveries
    BY <1>1, <1>3, <1>4, Locals DEF IInv, Deliveries
  <2>. QED
    BY <1>1, <2>1 DEF IInv, TypeOK, JournalOK, ThreadsOK, storeVars, boundVars
<1>6. Monotone
  <2>1. \A e \in Deliveries : Len(attempts'[e]) >= Len(attempts[e])
    BY <1>1 DEF IInv, TypeOK, JournalOK
  <2>. QED
    BY <1>1, <2>1 DEF Monotone, Succeeded, storeVars
<1>7. Well(a)'
  <2>1. MayBegin(<<a.job, a.cur>>)' /\ ~Full(<<a.job, a.cur>>)'
    BY <1>1, <1>3 DEF MayBegin, Full, Succeeded, Held
  <2>2. ~a.failed => \A g \in Handlers \ a.left : Covered(a, g) \/ g = a.cur
    BY <1>1, <1>3 DEF Well, Looping, Executing, Covered, Job
  <2>3. \A g \in Handlers : Covered(a, g) => Covered(a, g)'
    BY <1>1 DEF Covered, Succeeded
  <2>. QED
    BY <1>1, <1>3, <2>1, <2>2, <2>3 DEF Well, Announced, Looping, Executing, Job
<1>8. Tasks'
  BY <1>1, <1>3, <1>4, <1>5, <1>6, <1>7, TasksStep
<1>9. LockHeld'
  <2>1. At(w, "begin")' /\ \A v \in Writers : v # w => ~At(v, "begin")'
    BY <1>1, <1>3, <1>4, Locals, NobodyBegins DEF IInv, At
  <2>. QED
    BY <1>1, <2>1 DEF LockHeld
<1>10. Trails' /\ SuccessIsReal'
  BY <1>1 DEF IInv, Trails, Trail, SuccessIsReal, Succeeded, storeVars
<1>11. OnlyCommitted'
  BY <1>1 DEF IInv, OnlyCommitted, storeVars
<1>. QED
  BY <1>5, <1>8, <1>9, <1>10, <1>11 DEF IInv

\* Writing started.json, or giving up, keeps the invariant.
LEMMA StartsSafe ==
    ASSUME IInv, NEW w \in Writers, Starts(w)
    PROVE  IInv'
<1>. DEFINE d == Delivery(w)
<1>1. /\ task[w] \in Task /\ task[w].pc = "begin" /\ Well(task[w]) /\ Job(w) \in Threads
      /\ task[w].cur \in Handlers /\ source[Job(w)] = "committed" /\ MayBegin(d) /\ ~Full(d)
      /\ jlock = w /\ jlock' = Nobody /\ torn' = torn \ {d} /\ (Fault \/ NoFault)
      /\ UNCHANGED <<source, storeVars, crashes>>
  BY DEF Starts, WritesStart, RemovesDirectory, IInv, TypeOK, At, Tasks, Well, Job, Looping,
         LockHeld, Delivery
<1>2. /\ d \in Deliveries /\ d[1] = Job(w) /\ d = <<task[w].job, task[w].cur>>
      /\ attempts[d] \in Seq(Attempt) /\ Len(attempts[d]) \in Nat
  BY <1>1 DEF Delivery, Deliveries, Job, IInv, TypeOK, JournalOK
<1>3. \A v \in Writers : v # w => ~At(v, "begin")
  BY <1>1 DEF IInv, LockHeld
<1>4. OnlyCommitted' /\ projected' = projected /\ kept' = kept /\ active' = active
  BY <1>1 DEF IInv, OnlyCommitted, storeVars
<1>5. ASSUME WritesStart(d), NoFault,
             Becomes(w, [task[w] EXCEPT !.pc = "handle", !.gen = Len(attempts[d]) + 1])
      PROVE  IInv'
  <2>. DEFINE n == Len(attempts[d]) + 1
  <2>1. Added(d) /\ \A e \in Deliveries : e # d => Same(e)
    BY <1>2, <1>5 DEF WritesStart, Added, Same, IInv, TypeOK, JournalOK
  <2>2. attempts' = [e \in Deliveries |-> attempts'[e]]
    BY <1>2, <1>5 DEF WritesStart, IInv, TypeOK, JournalOK
  <2>3. /\ attempts' \in [Deliveries -> Seq(Attempt)]
        /\ \A e \in Deliveries : Len(attempts'[e]) >= Len(attempts[e])
        /\ \A e \in Deliveries : Len(attempts'[e]) <= MaxAttempts
        /\ \A e \in Deliveries : Succeeded(e) => Succeeded(e)'
        /\ Len(attempts'[d]) = n /\ Trails' /\ SuccessIsReal'
    BY <1>1, <1>2, <1>4, <2>1, <2>2, AddedSafe
  <2>4. n \in 0..MaxAttempts
    BY <1>2, <2>3, JournalAssumption
  <2>5. PICK a : a = [task[w] EXCEPT !.pc = "handle", !.gen = n]
    OBVIOUS
  <2>6. /\ a \in Task /\ a.pc = "handle" /\ a.job = Job(w) /\ a.left = task[w].left
        /\ a.queue = task[w].queue /\ a.cur = task[w].cur /\ a.gen = n
        /\ a.failed = task[w].failed /\ a.set_aside = task[w].set_aside
    BY <1>1, <2>4, <2>5 DEF Task, PC, Job
  <2>7. Becomes(w, a)
    BY <1>5, <2>5
  <2>8. TypeOK'
    <3>1. task' \in [Writers -> Task] /\ faults' \in 0..MaxFaults
      BY <1>1, <2>6, <2>7, Locals, Faults DEF IInv
    <3>. QED
      BY <1>1, <1>4, <2>3, <3>1 DEF IInv, TypeOK, JournalOK, ThreadsOK
  <2>9. Monotone
    BY <1>1, <1>4, <2>3 DEF Monotone
  <2>12. Well(a)'
    <3>1. (a.gen \in 1..Len(attempts[<<a.job, a.cur>>]))'
      BY <1>2, <2>3, <2>6 DEF Job
    <3>2. ~a.failed => \A h \in Handlers \ a.left : Covered(a, h) \/ h = a.cur
      BY <1>1, <2>6 DEF Well, Looping, Executing, Covered, Job
    <3>3. \A h \in Handlers : Covered(a, h) => Covered(a, h)'
      BY <1>1, <2>6, <2>9, CoveredStays
    <3>. QED
      BY <1>1, <2>6, <3>1, <3>2, <3>3 DEF Well, Announced, Looping, Executing, Job
  <2>13. Tasks'
    BY <1>3, <2>6, <2>7, <2>8, <2>9, <2>12, TasksStep
  <2>14. LockHeld'
    BY <1>1, <1>3, <2>6, <2>7, Locals DEF IInv, LockHeld, At
  <2>. QED
    BY <1>4, <2>3, <2>8, <2>13, <2>14 DEF IInv
<1>6. ASSUME Fault, UNCHANGED attempts, BackToLoop(w, TRUE)
      PROVE  IInv'
  <2>1. PICK a \in Task :
          /\ Becomes(w, a) /\ a.pc = "dispatch" /\ a.job = Job(w) /\ a.left = task[w].left
          /\ a.failed = TRUE /\ a.queue = task[w].queue
    BY <1>6, GoingBack DEF IInv
  <2>2. TypeOK'
    <3>1. task' \in [Writers -> Task] /\ faults' \in 0..MaxFaults
      BY <1>1, <2>1, Locals, Faults DEF IInv
    <3>. QED
      BY <1>1, <1>4, <1>6, <3>1 DEF IInv, TypeOK, JournalOK, ThreadsOK
  <2>3. Monotone
    BY <1>1, <1>4, <1>6 DEF Monotone, Succeeded, IInv, TypeOK, JournalOK
  <2>4. Well(a)'
    BY <1>1, <2>1 DEF Well, Announced, Looping, Executing, Job
  <2>5. Tasks'
    BY <1>3, <2>1, <2>2, <2>3, <2>4, TasksStep
  <2>6. LockHeld'
    BY <1>1, <1>3, <2>1, Locals DEF IInv, LockHeld, At
  <2>7. Trails' /\ SuccessIsReal'
    BY <1>1, <1>4, <1>6 DEF IInv, Trails, Trail, SuccessIsReal, Succeeded
  <2>. QED
    BY <1>4, <2>2, <2>5, <2>6, <2>7 DEF IInv
<1>. QED
  BY <1>1, <1>5, <1>6 DEF Starts

\* A step that leaves the tasks alone keeps Tasks, if nobody at "begin" is disturbed.
LEMMA TasksStay ==
    ASSUME IInv, TypeOK', Monotone, UNCHANGED task,
           \A v \in Writers : At(v, "begin") => Same(Delivery(v))
    PROVE  Tasks'
<1>. SUFFICES ASSUME NEW v \in Writers PROVE Well(task[v])'
  BY DEF Tasks
<1>. DEFINE b == task[v]
<1>1. b \in Task /\ Well(b)
  BY DEF IInv, Tasks, TypeOK
<1>2. ASSUME b.pc = "begin" PROVE (MayBegin(<<b.job, b.cur>>) /\ ~Full(<<b.job, b.cur>>))'
  BY <1>1, <1>2 DEF Well, At, Same, Delivery, MayBegin, Full, Succeeded, Held
<1>3. \A c \in Task : c = b => Well(c)'
  <2>. SUFFICES ASSUME NEW c \in Task, c = task[v] PROVE Well(c)'
    OBVIOUS
  <2>1. c.pc = "begin" => (MayBegin(<<c.job, c.cur>>) /\ ~Full(<<c.job, c.cur>>))'
    BY <1>2
  <2>2. Well(c)
    BY <1>1
  <2>. QED
    BY <2>1, <2>2, WellStays DEF IInv
<1>. QED
  BY <1>1, <1>3

\* A lease is renewed or expires.
LEMMA LeaseSafe ==
    ASSUME IInv, NEW d \in Deliveries, NEW b \in BOOLEAN, attempts[d] # <<>>,
           attempts' = [attempts EXCEPT ![d][Len(attempts[d])].live = b],
           ~Succeeded(d),
           UNCHANGED <<source, torn, jlock, task, storeVars, boundVars>>,
           \A v \in Writers : At(v, "begin") => Delivery(v) # d /\ Delivery(v) \in Deliveries
    PROVE  IInv'
<1>. DEFINE g == Len(attempts[d])
            r == [status |-> attempts[d][g].status, live |-> b]
<1>1. g \in 1..Len(attempts[d])
  BY DEF IInv, TypeOK, JournalOK
<1>2. /\ Changed(d, g, r) /\ r \in Attempt
      /\ \A e \in Deliveries : e # d => Same(e)
  BY <1>1, Renewed DEF IInv
<1>3. attempts' = [e \in Deliveries |-> attempts'[e]]
  BY DEF IInv, TypeOK, JournalOK
<1>4. r.status # "succeeded"
  BY <1>1 DEF Succeeded
<1>5. /\ attempts' \in [Deliveries -> Seq(Attempt)]
      /\ \A e \in Deliveries : Len(attempts'[e]) = Len(attempts[e])
      /\ \A e \in Deliveries : Succeeded(e) => Succeeded(e)'
      /\ Trails' /\ SuccessIsReal'
  <2>. HIDE DEF r
  <2>. QED
    BY <1>2, <1>3, <1>4, ChangedSafe DEF storeVars
<1>6. TypeOK'
  BY <1>5 DEF IInv, TypeOK, JournalOK, ThreadsOK, storeVars, boundVars
<1>7. Monotone
  BY <1>5 DEF Monotone, IInv, TypeOK, JournalOK, storeVars
<1>8. Tasks'
  BY <1>2, <1>6, <1>7, TasksStay
<1>9. LockHeld'
  BY DEF IInv, LockHeld, At
<1>10. OnlyCommitted'
  BY DEF IInv, OnlyCommitted, storeVars
<1>. QED
  BY <1>5, <1>6, <1>8, <1>9, <1>10 DEF IInv

\* A renewal concerns the newest attempt only.
LEMMA RenewsSafe ==
    ASSUME IInv, NEW w \in Writers, Renews(w)
    PROVE  IInv'
<1>. DEFINE d == Delivery(w)
<1>1. /\ task[w].pc = "handle" /\ Well(task[w]) /\ Unlocked /\ Owns(d, task[w].gen)
      /\ attempts' = [attempts EXCEPT ![d][Len(attempts[d])].live = TRUE]
      /\ UNCHANGED <<source, torn, jlock, task, storeVars, boundVars>>
  BY DEF Renews, RenewAttempt, Owns, IInv, Tasks, At
<1>2. d \in Deliveries /\ Len(attempts[d]) \in 1..Len(attempts[d])
  BY <1>1 DEF Well, Delivery, Deliveries, Looping, Executing, Owns
<1>3. attempts[d] \in Seq(Attempt) /\ attempts[d] # <<>>
  BY <1>2 DEF IInv, TypeOK, JournalOK
<1>4. ~Succeeded(d)
  BY <1>1 DEF Owns
<1>. QED
  BY <1>1, <1>2, <1>3, <1>4, NobodyBegins, LeaseSafe

\* So does the end of a lease: all older ones are over.
LEMMA ExpiresSafe ==
    ASSUME IInv, NEW d \in Deliveries, Expires(d)
    PROVE  IInv'
<1>1. PICK i \in 1..Len(attempts[d]) :
        /\ attempts[d][i].status = "running" /\ attempts[d][i].live
        /\ attempts' = [attempts EXCEPT ![d][i].live = FALSE]
  BY DEF Expires, LeaseExpires
<1>2. UNCHANGED <<source, torn, jlock, task, storeVars, boundVars>>
  BY DEF Expires
<1>3. attempts[d] \in Seq(Attempt)
  BY DEF IInv, TypeOK, JournalOK
<1>4. i = Len(attempts[d]) /\ attempts[d] # <<>> /\ ~Succeeded(d)
  BY <1>1, <1>3 DEF IInv, Trails, Trail, Succeeded
<1>5. \A v \in Writers : At(v, "begin") => Delivery(v) # d /\ Delivery(v) \in Deliveries
  <2>. SUFFICES ASSUME NEW v \in Writers, At(v, "begin")
                PROVE  Delivery(v) # d /\ Delivery(v) \in Deliveries
    OBVIOUS
  <2>1. /\ task[v].job \in Threads /\ task[v].cur \in Handlers
        /\ MayBegin(<<task[v].job, task[v].cur>>)
    BY DEF IInv, Tasks, Well, At, Looping
  <2>2. Held(d)
    BY <1>1 DEF Held
  <2>. QED
    BY <2>1, <2>2 DEF Delivery, Deliveries, MayBegin
<1>. QED
  BY <1>1, <1>2, <1>4, <1>5, LeaseSafe

\* An outcome is published for the newest attempt only, and a success for a handler
\* that was carried out.
LEMMA FinishesSafe ==
    ASSUME IInv, NEW w \in Writers, Finishes(w)
    PROVE  IInv'
<1>. DEFINE d == Delivery(w)
<1>1. /\ task[w] \in Task /\ task[w].pc \in {"ok", "bad"} /\ Well(task[w]) /\ Job(w) \in Threads
      /\ task[w].cur \in Handlers /\ source[Job(w)] = "committed" /\ Unlocked
      /\ d \in Deliveries /\ attempts[d] \in Seq(Attempt)
      /\ task[w].gen \in 1..Len(attempts[d]) /\ (Fault \/ NoFault)
      /\ UNCHANGED <<source, torn, jlock, storeVars, crashes>>
  BY DEF Finishes, IInv, TypeOK, JournalOK, Tasks, Well, Job, Delivery, Deliveries, Looping,
         Executing
<1>2. /\ OnlyCommitted' /\ projected' = projected /\ kept' = kept /\ active' = active
      /\ \A v \in Writers : ~At(v, "begin")
  BY <1>1, NobodyBegins DEF IInv, OnlyCommitted, storeVars
<1>4. PICK a \in Task :
        /\ Becomes(w, a) /\ a.pc \in {"reread", "dispatch"} /\ a.job = Job(w)
        /\ a.left = task[w].left /\ a.queue = task[w].queue
        /\ a.set_aside = task[w].set_aside
        /\ ~a.failed => ~task[w].failed /\ FinishAttempt(d, task[w].gen, "succeeded")
  <2>1. CASE Goes(w, "reread") /\ FinishAttempt(d, task[w].gen, "succeeded")
    BY <2>1, Going DEF IInv, PC
  <2>2. CASE BackToLoop(w, TRUE)
    BY <2>2, GoingBack DEF IInv
  <2>. QED
    BY <2>1, <2>2 DEF Finishes, Outcome
<1>5. /\ attempts' \in [Deliveries -> Seq(Attempt)]
      /\ \A e \in Deliveries : Len(attempts'[e]) = Len(attempts[e])
      /\ \A e \in Deliveries : Succeeded(e) => Succeeded(e)'
      /\ Trails' /\ SuccessIsReal'
  <2>1. CASE Owns(d, task[w].gen) /\ FinishAttempt(d, task[w].gen, Outcome(w))
    <3>. DEFINE n == Len(attempts[d])
                r == [status |-> Outcome(w), live |-> attempts[d][n].live]
    <3>1. task[w].gen = n /\ attempts[d] # <<>> /\ ~Succeeded(d)
      BY <1>1, <2>1 DEF Owns
    <3>2. Outcome(w) \in {"succeeded", "failed"}
      BY DEF Outcome
    <3>3. /\ Changed(d, n, r) /\ r \in Attempt
          /\ \A e \in Deliveries : e # d => Same(e)
      BY <1>1, <2>1, <3>1, <3>2, Finished DEF IInv
    <3>4. attempts' = [e \in Deliveries |-> attempts'[e]]
      BY <2>1 DEF FinishAttempt, IInv, TypeOK, JournalOK
    <3>5. r.status = "succeeded" => d \in projected
      BY <1>1 DEF Outcome, At, Well, Delivery
    <3>. HIDE DEF r
    <3>. QED
      BY <1>1, <1>2, <3>1, <3>3, <3>4, <3>5, ChangedSafe
  <2>2. CASE UNCHANGED attempts
    BY <1>1, <1>2, <2>2 DEF IInv, TypeOK, JournalOK, Trails, Trail, SuccessIsReal, Succeeded
  <2>. QED
    BY <2>1, <2>2 DEF Finishes
<1>6. TypeOK'
  <2>1. task' \in [Writers -> Task] /\ faults' \in 0..MaxFaults
    BY <1>1, <1>4, Locals, Faults DEF IInv
  <2>. QED
    BY <1>1, <1>2, <1>5, <2>1 DEF IInv, TypeOK, JournalOK, ThreadsOK
<1>7. Monotone
  BY <1>1, <1>2, <1>5 DEF Monotone, IInv, TypeOK, JournalOK
<1>8. Well(a)'
  <2>1. ~a.failed => \A h \in Handlers \ a.left : Covered(a, h) \/ h = task[w].cur
    BY <1>1, <1>4 DEF Well, Looping, Executing, Covered, Job
  <2>2. PICK e \in Deliveries, g \in 1..Len(attempts[d]) : e = d /\ g = task[w].gen
    BY <1>1
  <2>3. FinishAttempt(d, task[w].gen, "succeeded") => Succeeded(e)'
    <3>. SUFFICES ASSUME FinishAttempt(e, g, "succeeded") PROVE Succeeded(e)'
      BY <2>2
    <3>. DEFINE r == [status |-> "succeeded", live |-> attempts[e][g].live]
    <3>1. attempts[e] \in Seq(Attempt) /\ g \in 1..Len(attempts[e])
      BY <1>1, <2>2
    <3>2. Changed(e, g, r) /\ r \in Attempt
      BY <3>1, Finished DEF IInv
    <3>3. attempts'[e][g].status = "succeeded" /\ Len(attempts'[e]) = Len(attempts[e])
      BY <3>1, <3>2, ChangedAttempt DEF Changed
    <3>. QED
      BY <3>1, <3>3 DEF Succeeded
  <2>4. \A h \in Handlers : Covered(a, h) => Covered(a, h)'
    BY <1>1, <1>4, <1>7, CoveredStays
  <2>5. ~a.failed => \A h \in Handlers \ a.left : Covered(a, h)'
    <3>. SUFFICES ASSUME ~a.failed, NEW h \in Handlers \ a.left PROVE Covered(a, h)'
      OBVIOUS
    <3>1. CASE Covered(a, h)
      BY <2>4, <3>1
    <3>2. CASE h = task[w].cur
      <4>1. <<a.job, h>> = e
        BY <1>4, <2>2, <3>2 DEF Delivery, Job
      <4>. QED
        BY <1>4, <2>3, <4>1 DEF Covered
    <3>. QED
      BY <2>1, <3>1, <3>2
  <2>. QED
    BY <1>1, <1>4, <2>5 DEF Well, Announced, Looping, Executing, Job
<1>9. Tasks'
  BY <1>2, <1>4, <1>6, <1>7, <1>8, TasksStep
<1>10. LockHeld'
  BY <1>1, <1>2, <1>4, Locals DEF IInv, LockHeld, At, Unlocked
<1>. QED
  BY <1>2, <1>5, <1>6, <1>9, <1>10 DEF IInv
-----------------------------------------------------------------------------
(* The environment *)

\* A death leaves nothing behind but a directory, and the lock is free.
LEMMA DiesSafe ==
    ASSUME IInv, NEW w \in Writers, Dies(w)
    PROVE  IInv'
<1>1. /\ Goes(w, "dead") /\ crashes < MaxCrashes /\ crashes' = crashes + 1
      /\ jlock' = IF jlock = w THEN Nobody ELSE jlock
      /\ UNCHANGED <<source, attempts, torn, storeVars, faults>>
  BY DEF Dies, DropsItsLock
<1>2. PICK a \in Task : Becomes(w, a) /\ a.pc = "dead"
  BY <1>1, Going DEF IInv, PC, Over
<1>3. TypeOK'
  <2>1. task' \in [Writers -> Task]
    BY <1>2, Locals DEF IInv
  <2>2. crashes' \in 0..MaxCrashes
    BY <1>1, WritersAssumption DEF IInv, TypeOK, ThreadsOK
  <2>. QED
    BY <1>1, <2>1, <2>2 DEF IInv, TypeOK, JournalOK, ThreadsOK, storeVars
<1>4. Monotone
  BY <1>1 DEF Monotone, Succeeded, IInv, TypeOK, JournalOK, storeVars
<1>5. Tasks'
  BY <1>1, <1>2, <1>3, <1>4, TasksStep DEF Over
<1>6. LockHeld'
  <2>1. \A v \in Writers : At(v, "begin")' <=> v # w /\ At(v, "begin")
    BY <1>2, Locals DEF IInv, At
  <2>2. jlock # Nobody => jlock \in Writers
    BY DEF IInv, TypeOK, JournalOK
  <2>. QED
    BY <1>1, <2>1, <2>2, JournalAssumption DEF IInv, LockHeld
<1>7. Trails' /\ SuccessIsReal'
  BY <1>1 DEF IInv, Trails, Trail, SuccessIsReal, Succeeded, storeVars
<1>8. OnlyCommitted'
  BY <1>1 DEF IInv, OnlyCommitted, storeVars
<1>. QED
  BY <1>3, <1>5, <1>6, <1>7, <1>8 DEF IInv

\* What a run does to its thread touches neither the journal nor the owner row.
LEMMA ThreadSafe ==
    ASSUME IInv, UNCHANGED <<journalVars, task, projected, boundVars>>,
           kept' \in [Threads -> SUBSET Stores], active' \in [Threads -> BOOLEAN],
           \A t \in Threads : "meta" \in kept[t] => "meta" \in kept'[t]
    PROVE  IInv'
<1>1. TypeOK'
  BY DEF IInv, TypeOK, JournalOK, ThreadsOK, journalVars, boundVars
<1>2. Tasks'
  BY DEF IInv, Tasks, Well, Covered, MayBegin, Full, Succeeded, Held, journalVars
<1>3. LockHeld'
  BY DEF IInv, LockHeld, At, journalVars
<1>4. Trails' /\ SuccessIsReal'
  BY DEF IInv, Trails, Trail, SuccessIsReal, Succeeded, journalVars
<1>5. OnlyCommitted'
  BY DEF IInv, OnlyCommitted, journalVars
<1>. QED
  BY <1>1, <1>2, <1>3, <1>4, <1>5 DEF IInv

\* A run that writes checkpoints of the thread adds no owner row and removes none.
LEMMA RunSafe ==
    ASSUME IInv, NEW t \in Threads, RunWrites(t) \/ RunEnds(t)
    PROVE  IInv'
BY ThreadSafe DEF RunWrites, RunEnds, IInv, TypeOK, ThreadsOK, Stores
-----------------------------------------------------------------------------
(* The invariant *)

\* Nothing is announced, projected or given up at the start.
LEMMA IInvInit == Init => IInv
<1>. SUFFICES ASSUME Init PROVE IInv
  OBVIOUS
<1>1. TypeOK
  <2>1. NoLocals("idle") \in Task
    BY JournalAssumption DEF NoLocals, Task, PC
  <2>. QED
    BY <2>1, JournalAssumption, WritersAssumption
       DEF Init, JournalInit, TypeOK, JournalOK, ThreadsOK, Stores
<1>2. \A w \in Writers : task[w].pc = "idle" /\ task[w].queue = {}
  BY DEF Init, NoLocals
<1>3. Tasks /\ LockHeld
  BY <1>2 DEF Init, JournalInit, Tasks, Well, LockHeld, At, Announced, Looping, Executing
<1>4. Trails /\ SuccessIsReal
  BY DEF Init, JournalInit, Trails, Trail, SuccessIsReal, Succeeded
<1>5. OnlyCommitted
  BY DEF Init, OnlyCommitted
<1>. QED
  BY <1>1, <1>3, <1>4, <1>5 DEF IInv

\* A request or replay that goes on keeps the invariant.
LEMMA WorksSafe ==
    ASSUME IInv, NEW w \in Writers, Works(w)
    PROVE  IInv'
BY PreparesSafe, PurgesSafe, AbortsSafe, CommitsSafe, PassesSafe, BeginsSafe, StartsSafe,
   HandlesSafe, FinishesSafe, RereadsSafe, ConcludesSafe, UnlinksSafe, PicksSafe, ReportsSafe
   DEF Works, PurgesFiles, PurgesCheckpoints

\* Every step keeps the invariant.
LEMMA IInvStep == IInv /\ [Next]_vars => IInv'
<1>. SUFFICES ASSUME IInv, [Next]_vars PROVE IInv'
  OBVIOUS
<1>1. Requests \subseteq Writers /\ Replays \subseteq Writers
  BY WritersAssumption
<1>2. CASE \E w \in Requests, t \in Threads : Arrives(w, t)
  BY <1>1, <1>2, ArrivesSafe
<1>3. CASE \E w \in Replays : Lists(w)
  BY <1>1, <1>3, ListsSafe
<1>4. CASE \E w \in Writers : Works(w) \/ Renews(w) \/ Dies(w)
  BY <1>4, WorksSafe, RenewsSafe, DiesSafe
<1>5. CASE \E d \in Deliveries : Expires(d)
  BY <1>5, ExpiresSafe
<1>6. CASE \E t \in Threads : RunWrites(t) \/ RunEnds(t)
  BY <1>6, RunSafe
<1>7. CASE UNCHANGED vars
  BY <1>7, ThreadSafe DEF vars, storeVars, IInv, TypeOK, ThreadsOK
<1>. QED
  BY <1>2, <1>3, <1>4, <1>5, <1>6, <1>7 DEF Next, Rests

\* Requests, replays, their deaths, expiring leases and runs of the thread keep what the
\* journal and the stores say of each other: no delivery without a commit, no success that
\* was not carried out, no lease but the newest, no dispatch that forgets a handler.
THEOREM Invariance == Spec => []IInv
BY IInvInit, IInvStep, PTL DEF Spec

\* The type invariant, for every configuration.
THEOREM TypeCorrect == Spec => []TypeOK
BY Invariance, PTL DEF IInv

\* No handler projects a deletion that was not committed, whatever aborts, retries and
\* replays do at the same time.
THEOREM CommittedOnly == Spec => []OnlyCommitted
BY Invariance, PTL DEF IInv

\* An attempt recorded as succeeded was carried out.
THEOREM SuccessReal == Spec => []SuccessIsReal
BY Invariance, PTL DEF IInv

\* The owner row goes only when each handler of the committed deletion has succeeded or
\* is left to somebody else who executes it.
THEOREM OwnerLast == Spec => OwnerOutlivesProjection
<1>. DEFINE Projected(t) == \E w \in Writers :
                /\ task'[w] # task[w] /\ Job(w) = t
                /\ source[t] = "committed"
                /\ \A h \in Handlers : Succeeded(<<t, h>>) \/ h \in task[w].set_aside
            Last == \A t \in Threads : "meta" \in kept[t] /\ "meta" \notin kept'[t] =>
                      Projected(t)
<1>1. ASSUME IInv, [Next]_vars, NEW t \in Threads, "meta" \in kept[t], "meta" \notin kept'[t]
      PROVE  Projected(t)
  <2>1. ASSUME NEW w \in Writers, Works(w) \/ Renews(w) \/ Dies(w) PROVE Unlinks(w)
    BY <1>1, <2>1 DEF Works, Prepares, PurgesFiles, PurgesCheckpoints, Purges, Aborts, Commits,
       Passes, Begins, Starts, Handles, Finishes, Rereads, Concludes, Picks, Reports, Renews,
       Dies, storeVars, IInv, TypeOK, ThreadsOK
  <2>2. PICK w \in Writers : Unlinks(w)
    BY <1>1, <2>1 DEF Next, Arrives, Lists, Expires, RunWrites, RunEnds, Rests, vars, storeVars,
       IInv, TypeOK, ThreadsOK
  <2>3. Job(w) = t
    BY <1>1, <2>2 DEF Unlinks, IInv, TypeOK, ThreadsOK
  <2>4. task'[w] # task[w]
    <3>1. PICK a \in Task : Becomes(w, a) /\ a.pc = "done"
      BY <1>1, <2>2, Going DEF Unlinks, IInv, PC, Over
    <3>. QED
      BY <1>1, <2>2, <3>1, Locals DEF Unlinks, At, IInv
  <2>5. Well(task[w]) /\ task[w].pc = "unlink"
    BY <1>1, <2>2 DEF Unlinks, IInv, Tasks, At
  <2>. QED
    BY <2>3, <2>4, <2>5 DEF Well, Covered, Job
<1>2. IInv /\ [Next]_vars => [Last]_vars
  BY <1>1
<1>. QED
  BY <1>2, Invariance, PTL DEF Spec, OwnerOutlivesProjection

\* No two attempts of a handler hold a valid lease: all but the newest are over.
THEOREM OneLeaseAlways == Spec => []OneLease
<1>1. ASSUME IInv PROVE OneLease
  <2>. SUFFICES ASSUME NEW d \in Deliveries,
                       NEW i \in 1..Len(attempts[d]), NEW j \in 1..Len(attempts[d]),
                       attempts[d][i].status = "running" /\ attempts[d][i].live,
                       attempts[d][j].status = "running" /\ attempts[d][j].live
                PROVE  i = j
    BY DEF OneLease
  <2>1. ~(i < Len(attempts[d])) /\ ~(j < Len(attempts[d]))
    BY <1>1 DEF IInv, Trails, Trail
  <2>2. Len(attempts[d]) \in Nat
    BY <1>1 DEF IInv, TypeOK, JournalOK
  <2>. QED
    BY <2>1, <2>2
<1>. QED
  BY <1>1, Invariance, PTL
-----------------------------------------------------------------------------
(* Generations *)

\* Whoever executes a handler has an attempt of its own, which has no outcome yet.
Generations ==
    /\ \A w \in Writers : task[w].pc \in Executing =>
         attempts[Delivery(w)][task[w].gen].status = "running"
    /\ \A v, w \in Writers :
         v # w /\ task[v].pc \in Executing /\ task[w].pc \in Executing /\ Delivery(v) = Delivery(w)
         => task[v].gen # task[w].gen

\* v executes after the step only what it executed before.
Still(v) ==
    task'[v].pc \in Executing =>
      /\ task[v].pc \in Executing
      /\ task'[v].job = task[v].job /\ task'[v].cur = task[v].cur /\ task'[v].gen = task[v].gen

\* Steps in which every executing worker stays where it is, with its attempt as it was.
LEMMA StillGenerations ==
    ASSUME IInv, Generations, \A v \in Writers : Still(v),
           \A v \in Writers : task'[v].pc \in Executing =>
             attempts'[Delivery(v)][task[v].gen].status
               = attempts[Delivery(v)][task[v].gen].status
    PROVE  Generations'
<1>1. \A v \in Writers : task'[v].pc \in Executing =>
        task[v].pc \in Executing /\ Delivery(v)' = Delivery(v) /\ task'[v].gen = task[v].gen
  BY DEF Still, Delivery
<1>. QED
  BY <1>1 DEF Generations

\* Where w stands after it went on.
LEMMA PlaceAfter ==
    ASSUME IInv, NEW w \in Writers
    PROVE  /\ \A to \in PC : Goes(w, to) => task'[w].pc = to
           /\ \A f \in BOOLEAN : BackToLoop(w, f) => task'[w].pc = "dispatch"
<1>1. ASSUME NEW to \in PC, Goes(w, to) PROVE task'[w].pc = to
  <2>1. PICK a \in Task : Becomes(w, a) /\ a.pc = to
    BY <1>1, Going DEF IInv
  <2>. QED
    BY <2>1, Locals DEF IInv
<1>2. ASSUME NEW f \in BOOLEAN, BackToLoop(w, f) PROVE task'[w].pc = "dispatch"
  <2>1. PICK a \in Task : Becomes(w, a) /\ a.pc = "dispatch"
    BY <1>2, GoingBack DEF IInv
  <2>. QED
    BY <2>1, Locals DEF IInv
<1>. QED
  BY <1>1, <1>2

\* The other tasks stay where they are when w goes on.
LEMMA OthersStay ==
    ASSUME IInv, NEW w \in Writers, NEW r, Becomes(w, r)
    PROVE  \A v \in Writers : v # w => task'[v] = task[v]
BY DEF Becomes, IInv, TypeOK

\* A step that touches no attempt keeps them, unless it begins to execute.
LEMMA PlainGenerations ==
    ASSUME IInv, Generations, NEW w \in Writers, NEW r, Becomes(w, r),
           task'[w].pc \notin Executing \/ Still(w), UNCHANGED attempts
    PROVE  Generations'
<1>1. \A v \in Writers : Still(v)
  BY OthersStay DEF Still
<1>2. \A v \in Writers : attempts'[Delivery(v)] = attempts[Delivery(v)]
  OBVIOUS
<1>. QED
  BY <1>1, <1>2, StillGenerations

\* The steps that start no execution and change no attempt.
LEMMA PlainSteps ==
    ASSUME IInv, Generations, NEW w \in Writers,
           \/ \E t \in Threads : Arrives(w, t)
           \/ Prepares(w) \/ PurgesFiles(w) \/ PurgesCheckpoints(w) \/ Aborts(w) \/ Commits(w)
           \/ \E h \in Handlers : Passes(w, h) \/ Begins(w, h)
           \/ Rereads(w) \/ Concludes(w) \/ Unlinks(w) \/ Picks(w) \/ Reports(w)
           \/ Lists(w) \/ Dies(w)
    PROVE  Generations' /\ UNCHANGED attempts
<1>. DEFINE Goal == Generations' /\ UNCHANGED attempts
<1>1. task[w] \in Task
  BY DEF IInv, TypeOK
<1>2. ASSUME NEW to \in PC \ Executing, Goes(w, to), UNCHANGED attempts PROVE Goal
  BY <1>2, PlaceAfter, PlainGenerations DEF Goes
<1>3. ASSUME NEW f \in BOOLEAN, BackToLoop(w, f), UNCHANGED attempts PROVE Goal
  BY <1>3, PlaceAfter, PlainGenerations DEF BackToLoop, Executing
<1>4. ASSUME NEW a \in Task, Becomes(w, a), a.pc \notin Executing, UNCHANGED attempts PROVE Goal
  <2>1. task'[w].pc \notin Executing
    BY <1>4, Locals DEF IInv
  <2>. QED
    BY <1>4, <2>1, PlainGenerations
<1>5. ASSUME NEW t \in Threads, Arrives(w, t) PROVE Goal
  <2>1. PICK a : a = [task[w] EXCEPT !.pc = "prepare", !.job = t]
    OBVIOUS
  <2>2. a \in Task /\ a.pc = "prepare"
    BY <1>1, <2>1 DEF Task, PC
  <2>. QED
    BY <1>4, <1>5, <2>1, <2>2 DEF Arrives, journalVars, Executing
<1>6. ASSUME Commits(w) PROVE Goal
  <2>1. UNCHANGED attempts
    BY <1>6 DEF Commits
  <2>2. CASE Goes(w, "failed")
    BY <1>2, <2>1, <2>2 DEF PC, Over, Executing
  <2>3. CASE ~Goes(w, "failed")
    <3>1. PICK place \in {"reread", "dispatch"} : Becomes(w, Dispatching(w, Job(w), place))
      BY <1>6, <2>3 DEF Commits
    <3>2. PICK a : a = [task[w] EXCEPT !.pc = place, !.job = Job(w), !.left = Handlers,
                                       !.failed = FALSE, !.set_aside = {}]
      OBVIOUS
    <3>3. Job(w) \in Threads /\ place \in PC
      BY <1>6 DEF Commits, IInv, Tasks, Well, At, Announced, Job, PC
    <3>4. a \in Task /\ a.pc = place
      BY <1>1, <3>2, <3>3 DEF Task
    <3>5. Becomes(w, a)
      BY <3>1, <3>2 DEF Dispatching
    <3>. QED
      BY <1>4, <2>1, <3>4, <3>5 DEF Executing
  <2>. QED
    BY <2>2, <2>3
<1>7. ASSUME NEW h \in Handlers, Passes(w, h) PROVE Goal
  <2>1. UNCHANGED attempts /\ task[w].pc = "dispatch"
    BY <1>7 DEF Passes, journalVars, At
  <2>2. PICK b : b = [task[w] EXCEPT !.left = task[w].left \ {h}]
    OBVIOUS
  <2>3. b \in Task /\ b.pc = "dispatch" /\ b.set_aside \in SUBSET Handlers
    BY <1>1, <2>1, <2>2, Fields DEF Task
  <2>4. PICK z \in SUBSET Handlers :
          z = IF Succeeded(<<Job(w), h>>) THEN b.set_aside ELSE b.set_aside \cup {h}
    BY <2>3
  <2>5. PICK a : a = [b EXCEPT !.failed = TRUE]
    OBVIOUS
  <2>6. PICK c : c = [b EXCEPT !.set_aside = z]
    OBVIOUS
  <2>7. a \in Task /\ a.pc = "dispatch" /\ c \in Task /\ c.pc = "dispatch"
    BY <2>3, <2>5, <2>6 DEF Task
  <2>8. Becomes(w, a) \/ Becomes(w, c)
    BY <1>7, <2>2, <2>4, <2>5, <2>6 DEF Passes
  <2>. QED
    BY <1>4, <2>1, <2>7, <2>8 DEF Executing
<1>8. ASSUME NEW h \in Handlers, Begins(w, h) PROVE Goal
  <2>1. PICK a : a = [task[w] EXCEPT !.pc = "begin", !.left = task[w].left \ {h}, !.cur = h]
    OBVIOUS
  <2>2. a \in Task /\ a.pc = "begin"
    BY <1>1, <2>1 DEF Task, PC
  <2>3. Becomes(w, a)
    BY <1>8, <2>1 DEF Begins
  <2>. QED
    BY <1>4, <1>8, <2>2, <2>3 DEF Begins, Executing
<1>9. ASSUME Picks(w) PROVE Goal
  <2>1. PICK t \in task[w].queue :
          Becomes(w, [Dispatching(w, t, "dispatch") EXCEPT !.queue = @ \ {t}])
    BY <1>9 DEF Picks
  <2>2. PICK b : b = [task[w] EXCEPT !.pc = "dispatch", !.job = t, !.left = Handlers,
                                     !.failed = FALSE, !.set_aside = {}]
    OBVIOUS
  <2>3. PICK a : a = [b EXCEPT !.queue = b.queue \ {t}]
    OBVIOUS
  <2>4. t \in Threads /\ "dispatch" \in PC
    BY <1>1, <2>1, Fields DEF PC
  <2>5. b \in Task /\ b.pc = "dispatch"
    BY <1>1, <2>2, <2>4 DEF Task
  <2>6. a \in Task /\ a.pc = "dispatch"
    BY <2>3, <2>5 DEF Task
  <2>7. Becomes(w, a)
    BY <2>1, <2>2, <2>3 DEF Dispatching
  <2>. QED
    BY <1>4, <1>9, <2>6, <2>7 DEF Picks, journalVars, Executing
<1>10. ASSUME Lists(w) PROVE Goal
  <2>1. PICK a : a = [task[w] EXCEPT !.pc = "next",
                                     !.queue = {t \in Threads : Replayable(t)}]
    OBVIOUS
  <2>2. {t \in Threads : Replayable(t)} \in SUBSET Threads /\ "next" \in PC
    BY DEF PC
  <2>3. a \in Task /\ a.pc = "next"
    BY <1>1, <2>1, <2>2 DEF Task
  <2>4. Goes(w, "failed") \/ Becomes(w, a)
    BY <1>10, <2>1 DEF Lists
  <2>. QED
    BY <1>2, <1>4, <1>10, <2>3, <2>4 DEF Lists, journalVars, PC, Over, Executing
<1>11. ASSUME Prepares(w) \/ PurgesFiles(w) \/ PurgesCheckpoints(w) \/ Aborts(w) PROVE Goal
  <2>1. PICK to \in {"files", "checkpoints", "commit", "abort", "refused", "failed"} : Goes(w, to)
    BY <1>11 DEF Prepares, PurgesFiles, PurgesCheckpoints, Purges, Aborts
  <2>. QED
    BY <1>2, <1>11, <2>1
       DEF Prepares, PurgesFiles, PurgesCheckpoints, Purges, Aborts, journalVars, PC, Over,
           Executing
<1>12. ASSUME Rereads(w) PROVE Goal
  <2>1. Unreadable(Job(w)) \in BOOLEAN
    BY DEF Unreadable
  <2>2. Goes(w, "failed") \/ BackToLoop(w, Unreadable(Job(w)))
    BY <1>12 DEF Rereads
  <2>. QED
    BY <1>2, <1>3, <1>12, <2>1, <2>2 DEF Rereads, journalVars, PC, Over, Executing
<1>13. ASSUME Concludes(w) \/ Unlinks(w) \/ Reports(w) \/ Dies(w) PROVE Goal
  <2>1. PICK to \in {"failed", "next", "unlink", "done", "dead"} : Goes(w, to)
    BY <1>13 DEF Concludes, AfterDispatch, Unlinks, Reports, Dies
  <2>. QED
    BY <1>2, <1>13, <2>1 DEF Concludes, Unlinks, Reports, Dies, journalVars, PC, Over, Executing
<1>. QED
  BY <1>5, <1>6, <1>7, <1>8, <1>9, <1>10, <1>11, <1>12, <1>13

\* What a step may do to the attempts: add one to a delivery, or change the newest one
\* of a delivery, which has no outcome yet.
OneAttempt ==
    \E d \in Deliveries :
      /\ \A e \in Deliveries : e # d => Same(e)
      /\ \/ Added(d)
         \/ /\ attempts[d] # <<>> /\ attempts[d][Len(attempts[d])].status = "running"
            /\ \E r \in Attempt : Changed(d, Len(attempts[d]), r)

\* A handler that ends has its attempt still running.
LEMMA HandlesGenerations ==
    ASSUME IInv, Generations, NEW w \in Writers, Handles(w)
    PROVE  Generations' /\ UNCHANGED attempts
<1>1. PICK to \in {"ok", "bad"} : Goes(w, to)
  BY DEF Handles
<1>2. PICK a \in Task : /\ Becomes(w, a) /\ a.pc = to /\ a.job = task[w].job
                        /\ a.cur = task[w].cur /\ a.gen = task[w].gen
  BY <1>1, Going DEF IInv, PC, Job
<1>3. task'[w] = a
  BY <1>2, Locals DEF IInv, LocalsOf, Over
<1>4. Still(w)
  BY <1>2, <1>3 DEF Still, Handles, At, Executing
<1>. QED
  BY <1>2, <1>4, PlainGenerations DEF Handles, journalVars

\* A change of the newest attempt keeps them, if it leaves that attempt running as long
\* as somebody executes it.
LEMMA ChangedGenerations ==
    ASSUME IInv, Generations, NEW d \in Deliveries, attempts[d] # <<>>, NEW r \in Attempt,
           Changed(d, Len(attempts[d]), r), \A e \in Deliveries : e # d => Same(e),
           \A v \in Writers : Still(v),
           \A v \in Writers :
             task'[v].pc \in Executing /\ Delivery(v) = d /\ task[v].gen = Len(attempts[d])
             => r.status = "running"
    PROVE  Generations'
<1>1. attempts[d] \in Seq(Attempt) /\ Len(attempts[d]) \in 1..Len(attempts[d])
  BY DEF IInv, TypeOK, JournalOK
<1>2. /\ attempts'[d][Len(attempts[d])] = r
      /\ \A i \in 1..Len(attempts[d]) : i # Len(attempts[d]) => attempts'[d][i] = attempts[d][i]
  BY <1>1, ChangedAttempt DEF Changed
<1>3. ASSUME NEW v \in Writers, task'[v].pc \in Executing
      PROVE  attempts'[Delivery(v)][task[v].gen].status
               = attempts[Delivery(v)][task[v].gen].status
  <2>1. /\ task[v].pc \in Executing /\ Delivery(v) \in Deliveries
        /\ task[v].gen \in 1..Len(attempts[Delivery(v)])
    BY <1>3 DEF Still, IInv, Tasks, Well, Delivery, Deliveries, Looping
  <2>2. attempts[Delivery(v)][task[v].gen].status = "running"
    BY <2>1 DEF Generations
  <2>3. CASE Delivery(v) # d
    BY <2>1, <2>3 DEF Same
  <2>4. CASE Delivery(v) = d /\ task[v].gen # Len(attempts[d])
    BY <1>2, <2>1, <2>4
  <2>5. CASE Delivery(v) = d /\ task[v].gen = Len(attempts[d])
    BY <1>2, <1>3, <2>2, <2>5
  <2>. QED
    BY <2>3, <2>4, <2>5
<1>. QED
  BY <1>3, StillGenerations

\* A change of a lease leaves the attempt running.
LEMMA LeaseGenerations ==
    ASSUME IInv, Generations, NEW d \in Deliveries, NEW b \in BOOLEAN, attempts[d] # <<>>,
           attempts' = [attempts EXCEPT ![d][Len(attempts[d])].live = b],
           attempts[d][Len(attempts[d])].status = "running", UNCHANGED task
    PROVE  Generations' /\ OneAttempt
<1>. DEFINE g == Len(attempts[d])
            r == [status |-> attempts[d][g].status, live |-> b]
<1>1. g \in 1..Len(attempts[d])
  BY DEF IInv, TypeOK, JournalOK
<1>2. /\ Changed(d, g, r) /\ r \in Attempt
      /\ \A e \in Deliveries : e # d => Same(e)
  BY <1>1, Renewed DEF IInv
<1>3. r.status = "running"
  OBVIOUS
<1>4. \A v \in Writers : Still(v)
  BY DEF Still
<1>. HIDE DEF r
<1>. QED
  BY <1>2, <1>3, <1>4, ChangedGenerations DEF OneAttempt

\* A renewal changes one lease.
LEMMA RenewsGenerations ==
    ASSUME IInv, Generations, NEW w \in Writers, Renews(w)
    PROVE  Generations' /\ OneAttempt
<1>. DEFINE d == Delivery(w)
<1>1. /\ task[w].pc = "handle" /\ Well(task[w]) /\ task[w].gen = Len(attempts[d])
      /\ attempts' = [attempts EXCEPT ![d][Len(attempts[d])].live = TRUE] /\ UNCHANGED task
  BY DEF Renews, RenewAttempt, Owns, IInv, Tasks, At
<1>2. d \in Deliveries /\ Len(attempts[d]) \in 1..Len(attempts[d])
  BY <1>1 DEF Well, Delivery, Deliveries, Looping, Executing
<1>3. attempts[d] \in Seq(Attempt) /\ attempts[d] # <<>>
  BY <1>2 DEF IInv, TypeOK, JournalOK
<1>4. attempts[d][Len(attempts[d])].status = "running"
  BY <1>1 DEF Generations, Executing
<1>. QED
  BY <1>1, <1>2, <1>3, <1>4, LeaseGenerations

\* The end of a lease changes that lease.
LEMMA ExpiresGenerations ==
    ASSUME IInv, Generations, NEW d \in Deliveries, Expires(d)
    PROVE  Generations' /\ OneAttempt
<1>1. PICK i \in 1..Len(attempts[d]) :
        /\ attempts[d][i].status = "running" /\ attempts[d][i].live
        /\ attempts' = [attempts EXCEPT ![d][i].live = FALSE] /\ UNCHANGED task
  BY DEF Expires, LeaseExpires
<1>2. attempts[d] \in Seq(Attempt)
  BY DEF IInv, TypeOK, JournalOK
<1>3. i = Len(attempts[d]) /\ attempts[d] # <<>>
  BY <1>1, <1>2 DEF IInv, Trails, Trail
<1>. QED
  BY <1>1, <1>3, LeaseGenerations

\* An outcome is published by the one worker that executed the attempt.
LEMMA FinishesGenerations ==
    ASSUME IInv, Generations, NEW w \in Writers, Finishes(w)
    PROVE  Generations' /\ (UNCHANGED attempts \/ OneAttempt)
<1>. DEFINE d == Delivery(w)
<1>1. /\ task[w].pc \in {"ok", "bad"} /\ Well(task[w]) /\ d \in Deliveries
      /\ attempts[d] \in Seq(Attempt) /\ task[w].gen \in 1..Len(attempts[d])
  BY DEF Finishes, IInv, TypeOK, JournalOK, Tasks, Well, Delivery, Deliveries, Looping, Executing
<1>2. PICK r : Becomes(w, r)
  BY DEF Finishes, Goes, BackToLoop
<1>3. task'[w].pc \notin Executing
  <2>1. CASE Goes(w, "reread")
    BY <2>1, PlaceAfter DEF PC, Executing
  <2>2. CASE BackToLoop(w, TRUE)
    BY <2>2, PlaceAfter DEF Executing
  <2>. QED
    BY <2>1, <2>2 DEF Finishes
<1>4. CASE UNCHANGED attempts
  BY <1>2, <1>3, <1>4, PlainGenerations
<1>5. CASE Owns(d, task[w].gen) /\ FinishAttempt(d, task[w].gen, Outcome(w))
  <2>. DEFINE n == Len(attempts[d])
              q == [status |-> Outcome(w), live |-> attempts[d][n].live]
  <2>1. task[w].gen = n /\ attempts[d] # <<>>
    BY <1>1, <1>5 DEF Owns
  <2>2. Outcome(w) \in {"succeeded", "failed"}
    BY DEF Outcome
  <2>3. /\ Changed(d, n, q) /\ q \in Attempt
        /\ \A e \in Deliveries : e # d => Same(e)
    BY <1>1, <1>5, <2>1, <2>2, Finished DEF IInv
  <2>. HIDE DEF q
  <2>4. attempts[d][n].status = "running"
    BY <1>1, <2>1 DEF Generations, Executing
  <2>5. \A v \in Writers : Still(v)
    BY <1>2, <1>3, OthersStay DEF Still
  <2>6. \A v \in Writers : task'[v].pc \in Executing /\ Delivery(v) = d => task[v].gen # n
    BY <1>1, <1>3, <2>1, <2>5 DEF Generations, Still, Executing
  <2>7. Generations'
    BY <1>1, <2>1, <2>3, <2>5, <2>6, ChangedGenerations
  <2>. QED
    BY <1>1, <2>1, <2>3, <2>4, <2>7 DEF OneAttempt
<1>. QED
  BY <1>4, <1>5 DEF Finishes

\* A worker that begins to execute has a generation that nobody had before.
LEMMA StartsGenerations ==
    ASSUME IInv, Generations, NEW w \in Writers, Starts(w)
    PROVE  Generations' /\ (UNCHANGED attempts \/ OneAttempt)
<1>. DEFINE d == Delivery(w)
            n == Len(attempts[d]) + 1
<1>1. /\ task[w] \in Task /\ task[w].pc = "begin" /\ d \in Deliveries
      /\ attempts[d] \in Seq(Attempt) /\ Len(attempts[d]) \in Nat /\ ~Full(d)
  BY DEF Starts, IInv, TypeOK, JournalOK, Tasks, Well, At, Delivery, Deliveries, Looping
<1>2. CASE UNCHANGED attempts /\ BackToLoop(w, TRUE)
  BY <1>2, PlaceAfter, PlainGenerations DEF BackToLoop, Executing
<1>3. CASE /\ WritesStart(d)
           /\ Becomes(w, [task[w] EXCEPT !.pc = "handle", !.gen = Len(attempts[d]) + 1])
  <2>1. Added(d) /\ \A e \in Deliveries : e # d => Same(e)
    BY <1>1, <1>3 DEF WritesStart, Added, Same, IInv, TypeOK, JournalOK
  <2>2. /\ attempts'[d][n] = NewAttempt
        /\ \A i \in 1..Len(attempts[d]) : attempts'[d][i] = attempts[d][i]
    BY <1>1, <2>1, AddedAttempt DEF Added
  <2>3. n \in 0..MaxAttempts
    BY <1>1, JournalAssumption DEF Full
  <2>4. PICK a : a = [task[w] EXCEPT !.pc = "handle", !.gen = n]
    OBVIOUS
  <2>5. a \in Task /\ a.pc = "handle" /\ a.job = task[w].job /\ a.cur = task[w].cur /\ a.gen = n
    BY <1>1, <2>3, <2>4 DEF Task, PC
  <2>6. Becomes(w, a)
    BY <1>3, <2>4
  <2>7. task'[w] = a /\ \A v \in Writers : v # w => task'[v] = task[v]
    BY <2>5, <2>6, Locals DEF IInv, LocalsOf, Over
  <2>8. Delivery(w)' = d /\ task'[w].gen = n
    BY <2>5, <2>7 DEF Delivery
  <2>9. ASSUME NEW v \in Writers, v # w, task[v].pc \in Executing
        PROVE  /\ Delivery(v)' = Delivery(v) /\ task'[v].gen = task[v].gen
               /\ attempts'[Delivery(v)][task[v].gen].status = "running"
               /\ Delivery(v) = d => task[v].gen # n
    <3>1. Delivery(v) \in Deliveries /\ task[v].gen \in 1..Len(attempts[Delivery(v)])
      BY <2>9 DEF IInv, Tasks, Well, Delivery, Deliveries, Looping
    <3>2. attempts[Delivery(v)][task[v].gen].status = "running"
      BY <2>9 DEF Generations
    <3>3. attempts'[Delivery(v)][task[v].gen] = attempts[Delivery(v)][task[v].gen]
      <4>1. CASE Delivery(v) = d
        BY <2>2, <3>1, <4>1
      <4>2. CASE Delivery(v) # d
        BY <2>1, <3>1, <4>2 DEF Same
      <4>. QED
        BY <4>1, <4>2
    <3>4. Delivery(v) = d => task[v].gen # n
      BY <1>1, <3>1
    <3>5. Delivery(v)' = Delivery(v) /\ task'[v].gen = task[v].gen
      BY <2>7, <2>9 DEF Delivery
    <3>. QED
      BY <3>2, <3>3, <3>4, <3>5
  <2>10. Generations'
    <3>1. \A v \in Writers : v # w => task'[v].pc = task[v].pc
      BY <2>7
    <3>2. attempts'[d][n].status = "running"
      BY <2>2 DEF NewAttempt
    <3>3. ASSUME NEW v \in Writers, task'[v].pc \in Executing
          PROVE  attempts'[Delivery(v)'][task'[v].gen].status = "running"
      BY <2>8, <2>9, <3>1, <3>2, <3>3
    <3>4. ASSUME NEW u \in Writers, NEW v \in Writers, u # v, task'[u].pc \in Executing,
                 task'[v].pc \in Executing, Delivery(u)' = Delivery(v)'
          PROVE  task'[u].gen # task'[v].gen
      BY <2>8, <2>9, <3>1, <3>4 DEF Generations
    <3>. QED
      BY <3>3, <3>4 DEF Generations
  <2>. QED
    BY <1>1, <2>1, <2>10 DEF OneAttempt
<1>. QED
  BY <1>2, <1>3 DEF Starts

\* Every step keeps the generations apart, and changes the attempts of one delivery.
LEMMA GenerationsStep ==
    ASSUME IInv, Generations, [Next]_vars
    PROVE  Generations' /\ (UNCHANGED attempts \/ OneAttempt)
<1>1. Requests \subseteq Writers /\ Replays \subseteq Writers
  BY WritersAssumption
<1>2. CASE \E w \in Requests, t \in Threads : Arrives(w, t)
  BY <1>1, <1>2, PlainSteps
<1>3. CASE \E w \in Replays : Lists(w)
  BY <1>1, <1>3, PlainSteps
<1>4. ASSUME NEW w \in Writers, Works(w) \/ Renews(w) \/ Dies(w)
      PROVE  Generations' /\ (UNCHANGED attempts \/ OneAttempt)
  BY <1>4, PlainSteps, StartsGenerations, HandlesGenerations, FinishesGenerations,
     RenewsGenerations DEF Works
<1>5. CASE \E d \in Deliveries : Expires(d)
  BY <1>5, ExpiresGenerations
<1>6. CASE UNCHANGED <<attempts, task>>
  <2>1. \A v \in Writers : Still(v) /\ attempts'[Delivery(v)] = attempts[Delivery(v)]
    BY <1>6 DEF Still
  <2>. QED
    BY <1>6, <2>1, StillGenerations
<1>7. CASE (\E t \in Threads : RunWrites(t) \/ RunEnds(t)) \/ UNCHANGED vars
  BY <1>6, <1>7 DEF RunWrites, RunEnds, journalVars, vars
<1>. QED
  BY <1>2, <1>3, <1>4, <1>5, <1>7 DEF Next, Rests

\* Nobody executes a handler at the start.
LEMMA GenerationsInit == Init => Generations
BY DEF Init, NoLocals, Generations, Executing

\* Whoever executes a handler has an attempt of its own, which has no outcome yet: no
\* takeover and no death gives two workers the same generation.
THEOREM OwnGenerations == Spec => []Generations
BY Invariance, GenerationsInit, GenerationsStep, PTL DEF Spec

\* An attempt that was superseded or has an outcome never changes, and none disappears:
\* every step adds an attempt or touches the newest one while it has no outcome.
THEOREM FencedAlways == Spec => Fenced
<1>. DEFINE Guarded == \A d \in Deliveries : \A i \in 1..Len(attempts[d]) :
                         /\ i <= Len(attempts'[d])
                         /\ i < Len(attempts[d]) \/ attempts[d][i].status # "running"
                            => attempts'[d][i] = attempts[d][i]
<1>1. ASSUME IInv, Generations, [Next]_vars PROVE Guarded
  <2>. SUFFICES ASSUME NEW d \in Deliveries, NEW i \in 1..Len(attempts[d])
                PROVE  /\ i <= Len(attempts'[d])
                       /\ i < Len(attempts[d]) \/ attempts[d][i].status # "running"
                          => attempts'[d][i] = attempts[d][i]
    OBVIOUS
  <2>1. attempts[d] \in Seq(Attempt) /\ Len(attempts[d]) \in Nat
    BY <1>1 DEF IInv, TypeOK, JournalOK
  <2>2. CASE Same(d)
    BY <2>1, <2>2 DEF Same
  <2>3. CASE Added(d)
    BY <2>1, <2>3, AddedAttempt DEF Added
  <2>4. ASSUME attempts[d] # <<>>, attempts[d][Len(attempts[d])].status = "running",
               NEW r \in Attempt, Changed(d, Len(attempts[d]), r)
        PROVE  /\ i <= Len(attempts'[d])
               /\ i < Len(attempts[d]) \/ attempts[d][i].status # "running"
                  => attempts'[d][i] = attempts[d][i]
    <3>1. Len(attempts[d]) \in 1..Len(attempts[d])
      BY <2>1, <2>4
    <3>. QED
      BY <2>1, <2>4, <3>1, ChangedAttempt DEF Changed
  <2>. QED
    BY <1>1, <2>2, <2>3, <2>4, GenerationsStep DEF OneAttempt, Same
<1>2. IInv /\ Generations /\ [Next]_vars => [Guarded]_vars
  BY <1>1
<1>. QED
  BY <1>2, Invariance, OwnGenerations, PTL DEF Spec, Fenced
-----------------------------------------------------------------------------
(* The outbox *)

\* A deletion is announced, or its outcome is decided, and no attempt is touched.
Settles ==
    /\ UNCHANGED attempts
    /\ \E t \in Threads :
         \/ source[t] = "none" /\ source' = [source EXCEPT ![t] = "prepared"]
         \/ source[t] = "prepared" /\ source' = [source EXCEPT ![t] = "committed"]
         \/ source[t] = "prepared" /\ source' = [source EXCEPT ![t] = "aborted"]

\* What is known of a deletion is decided once.
LEMMA SourceStep ==
    ASSUME IInv, [Next]_vars
    PROVE  UNCHANGED source \/ Settles
<1>1. ASSUME NEW w \in Writers, Prepares(w) \/ Aborts(w) \/ Commits(w)
      PROVE  UNCHANGED source \/ Settles
  <2>1. Job(w) \in Threads
    BY <1>1 DEF Prepares, Aborts, Commits, IInv, Tasks, Well, At, Job, Announced
  <2>2. source' # source =>
          \/ source[Job(w)] = "none" /\ source' = [source EXCEPT ![Job(w)] = "prepared"]
          \/ source[Job(w)] = "prepared" /\ source' = [source EXCEPT ![Job(w)] = "committed"]
          \/ source[Job(w)] = "prepared" /\ source' = [source EXCEPT ![Job(w)] = "aborted"]
    BY <1>1 DEF Prepares, Prepare, Aborts, AbortSource, Abortable, Commits, CommitSource,
                Committable
  <2>3. UNCHANGED attempts
    BY <1>1 DEF Prepares, Aborts, Commits
  <2>. QED
    BY <2>1, <2>2, <2>3 DEF Settles
<1>2. ASSUME NEW w \in Writers, Works(w), ~(Prepares(w) \/ Aborts(w) \/ Commits(w))
      PROVE  UNCHANGED source
  BY <1>2 DEF Works, PurgesFiles, PurgesCheckpoints, Purges, Passes, Begins, Starts, Handles,
              Finishes, Rereads, Concludes, Unlinks, Picks, Reports, journalVars
<1>3. CASE (\E w \in Requests, t \in Threads : Arrives(w, t)) \/ (\E w \in Replays : Lists(w))
  BY <1>3 DEF Arrives, Lists, journalVars
<1>4. CASE \E w \in Writers : Renews(w) \/ Dies(w)
  BY <1>4 DEF Renews, Dies
<1>5. CASE (\E d \in Deliveries : Expires(d)) \/ (\E t \in Threads : RunWrites(t) \/ RunEnds(t))
  BY <1>5 DEF Expires, RunWrites, RunEnds, journalVars
<1>6. CASE UNCHANGED vars
  BY <1>6 DEF vars, journalVars
<1>. QED
  BY <1>1, <1>2, <1>3, <1>4, <1>5, <1>6 DEF Next, Rests

\* Nothing is announced or delivered at the start.
LEMMA OutboxInit == Init => Outbox!Init
BY DEF Init, JournalInit, Outbox!Init, Succeeded

\* Every step is one of ProjectionOutbox, or changes nothing there.
LEMMA OutboxStep ==
    ASSUME IInv, Generations, [Next]_vars
    PROVE  [Outbox!Next]_(Outbox!vars)
<1>. DEFINE delivered == {d \in Deliveries : Succeeded(d)}
<1>1. CASE UNCHANGED attempts
  <2>1. UNCHANGED delivered
    BY <1>1 DEF Succeeded
  <2>2. CASE UNCHANGED source
    BY <2>1, <2>2 DEF Outbox!vars
  <2>3. CASE Settles
    BY <2>1, <2>3 DEF Settles, Outbox!Next, Outbox!Announce, Outbox!Decide
  <2>. QED
    BY <2>2, <2>3, SourceStep
<1>2. CASE OneAttempt /\ ~UNCHANGED attempts
  <2>1. UNCHANGED source
    BY <1>2, SourceStep DEF Settles
  <2>2. PICK d \in Deliveries :
          /\ \A e \in Deliveries : e # d => Same(e)
          /\ \/ Added(d)
             \/ /\ attempts[d] # <<>> /\ attempts[d][Len(attempts[d])].status = "running"
                /\ \E r \in Attempt : Changed(d, Len(attempts[d]), r)
    BY <1>2 DEF OneAttempt
  <2>. DEFINE n == Len(attempts[d])
  <2>3. attempts[d] \in Seq(Attempt) /\ n \in Nat /\ Trail(d)
    BY DEF IInv, TypeOK, JournalOK, Trails
  <2>4. \A e \in Deliveries : e # d => (Succeeded(e)' <=> Succeeded(e))
    BY <2>2 DEF Same, Succeeded
  <2>5. CASE Succeeded(d)' <=> Succeeded(d)
    <3>1. UNCHANGED delivered
      BY <2>4, <2>5
    <3>. QED
      BY <2>1, <3>1 DEF Outbox!vars
  <2>6. CASE Added(d)
    <3>1. /\ Len(attempts'[d]) = n + 1 /\ attempts'[d][n + 1] = NewAttempt
          /\ \A i \in 1..n : attempts'[d][i] = attempts[d][i]
      BY <2>3, <2>6, AddedAttempt DEF Added
    <3>2. \A i \in 1..(n + 1) : i \in 1..n \/ i = n + 1
      BY <2>3
    <3>3. \A i \in 1..n : i \in 1..(n + 1)
      BY <2>3
    <3>4. Succeeded(d)' <=> Succeeded(d)
      BY <3>1, <3>2, <3>3 DEF Succeeded, NewAttempt
    <3>. QED
      BY <2>5, <3>4
  <2>7. ASSUME attempts[d] # <<>>, attempts[d][n].status = "running",
               ~(Succeeded(d)' <=> Succeeded(d)), NEW r \in Attempt, Changed(d, n, r)
        PROVE  [Outbox!Next]_(Outbox!vars)
    <3>1. ~Succeeded(d)
      <4>1. \A i \in 1..n : i < n \/ i = n
        BY <2>3
      <4>. QED
        BY <2>3, <2>7, <4>1 DEF Trail, Succeeded
    <3>2. delivered' = delivered \cup {d} /\ d \notin delivered
      BY <2>4, <2>7, <3>1
    <3>3. PICK t \in Threads, h \in Handlers : d = <<t, h>>
      BY DEF Deliveries
    <3>4. source[t] = "committed"
      BY <2>3, <2>7, <3>3 DEF Trail
    <3>. QED
      BY <2>1, <3>2, <3>3, <3>4 DEF Outbox!Next, Outbox!Deliver
  <2>. QED
    BY <2>2, <2>5, <2>6, <2>7
<1>. QED
  BY <1>1, <1>2, GenerationsStep

\* The journal implements the outbox, for every number of requests, replays and handlers:
\* one outcome for each deletion, and each handler done at most once, after the commit.
THEOREM OutboxImplemented == Spec => ImplementsOutbox
BY OutboxInit, OutboxStep, Invariance, OwnGenerations, PTL DEF Spec, ImplementsOutbox, Outbox!Spec
=============================================================================
