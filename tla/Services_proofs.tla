-------------------------- MODULE Services_proofs --------------------------
(***************************************************************************)
(* Proofs about the components that share no state: those of ActionStore,  *)
(* for every set of repairs and every number of claims and crashes, those  *)
(* of Subagents, for every set of tasks and every size of the scheduler    *)
(* pool, and that MCServices, which explores the components one at a time, *)
(* implements each of them, so that their theorems hold of it too.         *)
(***************************************************************************)
EXTENDS MCServices, MemoryQueue_proofs, McpSessionPool_proofs, SandboxPool_proofs, StreamBridge_proofs,
        Channels_proofs, TLAPS

(* ActionStore *)

AtWork(r) == repair[r] \in {"claimed", "deciding"}

\* A claim is given to one repair.
ClaimsDiffer == \A r, s \in Repairers : AtWork(r) /\ AtWork(s) /\ held[r] = held[s] => r = s

\* The lease and the claim are not live at once.
LeaseXorClaim == Undecided => ~(LeaseIsLive /\ ClaimIsLive)

ActionInv == ActionTypeOK /\ ClaimsDiffer /\ LeaseXorClaim

Steps == {"idle", "eligible", "claimed", "deciding"}
-----------------------------------------------------------------------------
\* The worker holds the lease at the start.
LEMMA ActionInvInit == ActionInit => ActionInv
<1>. SUFFICES ASSUME ActionInit PROVE ActionInv
  OBVIOUS
<1>1. FilesOK
  <2>1. claimLive \in BOOLEAN
    BY DEF ActionInit
  <2>. QED
    BY <2>1, ActionAssumption DEF ActionInit, FilesOK
<1>2. ClaimsOK
  BY ActionAssumption DEF ActionInit, ClaimsOK, NoClaim
<1>3. ClaimsDiffer /\ LeaseXorClaim
  BY DEF ActionInit, ClaimsDiffer, AtWork, LeaseXorClaim, ClaimIsLive, NoClaim
<1>. QED
  BY <1>1, <1>2, <1>3 DEF ActionInv, ActionTypeOK

\* Distinct claims are all that the second half of LeaseOrClaim needs.
LEMMA ActionInvIsEnough == ActionInv => LeaseOrClaim
BY DEF ActionInv, LeaseOrClaim, LeaseXorClaim, ClaimsDiffer, AtWork, Owns

\* A process dies once more.
LEMMA CrashCounts ==
    ASSUME FilesOK, Crash \/ UNCHANGED crashes
    PROVE  crashes' \in 0..MaxCrashes
BY ActionAssumption DEF FilesOK, Crash

\* An outcome decides the action, whether or not the process dies.
LEMMA OutcomeDecides ==
    ASSUME FilesOK, NEW by \in {"worker", "repair"}, AppendOutcome(by)
    PROVE  /\ ~Undecided' /\ outcome' \in {"none", "worker", "repair"}
           /\ lease' \in {"none", "live", "expired"} /\ crashes' \in 0..MaxCrashes
<1>1. Crash \/ UNCHANGED crashes
  BY DEF AppendOutcome
<1>2. outcome' = by /\ lease' \in {lease, "none"}
  BY DEF AppendOutcome
<1>. QED
  BY <1>1, <1>2, CrashCounts DEF FilesOK, Undecided

\* Removing the claim file, or leaving it.
LEMMA ClaimGone ==
    ASSUME ActionTypeOK, ClaimRemoved \/ UNCHANGED <<claim, claimLive>>, UNCHANGED claimIds
    PROVE  claim' \in 0..claimIds' /\ claimLive' \in BOOLEAN /\ (ClaimIsLive' => ClaimIsLive)
<1>1. CASE ClaimRemoved
  <2>1. claim' = 0 /\ claimLive' = FALSE
    BY <1>1 DEF ClaimRemoved, NoClaim
  <2>2. claimIds' \in Nat
    BY ActionAssumption DEF ActionTypeOK, ClaimsOK
  <2>3. claimLive' \in BOOLEAN
    BY <2>1
  <2>. QED
    BY <2>1, <2>2, <2>3 DEF ClaimIsLive
<1>2. CASE UNCHANGED <<claim, claimLive>>
  BY <1>2 DEF ActionTypeOK, FilesOK, ClaimsOK, ClaimIsLive
<1>. QED
  BY <1>1, <1>2

\* A repair that goes on, or stops, changes no other.
LEMMA RepairGoesOn ==
    ASSUME ClaimsOK, NEW r \in Repairers, NEW pc \in Steps, RepairGoes(r, pc)
    PROVE  /\ repair' \in [Repairers -> Steps]
           /\ repair'[r] = pc /\ \A s \in Repairers : s # r => repair'[s] = repair[s]
BY DEF ClaimsOK, RepairGoes, Steps
-----------------------------------------------------------------------------
\* The worker and time give no claim.
LEMMA WorkerKeeps ==
    ASSUME ActionInv, Renew \/ Finish \/ LeaseExpires \/ ClaimExpires
    PROVE  ActionInv'
<1>1. /\ UNCHANGED <<repair, held, claimIds>>
      /\ UNCHANGED claim \/ (ClaimRemoved /\ Finish)
  BY DEF Renew, Finish, LeaseExpires, ClaimExpires
<1>2. ClaimsDiffer'
  BY <1>1 DEF ActionInv, ClaimsDiffer, AtWork
<1>3. claim' \in 0..claimIds'
  BY <1>1, ClaimGone DEF ActionInv, ActionTypeOK, ClaimsOK
<1>4. ClaimsOK'
  BY <1>1, <1>3 DEF ActionInv, ActionTypeOK, ClaimsOK
<1>5. CASE Renew
  <2>1. FilesOK'
    BY <1>5 DEF Renew, ActionInv, ActionTypeOK, FilesOK
  <2>2. LeaseXorClaim'
    BY <1>5 DEF Renew, WorkerRefused, LeaseXorClaim, ClaimIsLive
  <2>. QED
    BY <1>2, <1>4, <2>1, <2>2 DEF ActionInv, ActionTypeOK
<1>6. CASE Finish
  <2>1. ClaimRemoved /\ UNCHANGED claimIds
    BY <1>6 DEF Finish
  <2>2. claimLive' \in BOOLEAN /\ ~ClaimIsLive'
    BY <2>1 DEF ClaimRemoved, ClaimIsLive
  <2>3. /\ outcome' \in {"none", "worker", "repair"} /\ lease' \in {"none", "live", "expired"}
        /\ crashes' \in 0..MaxCrashes
    BY <1>6, OutcomeDecides, CrashCounts DEF Finish, ActionInv, ActionTypeOK, FilesOK
  <2>. QED
    BY <1>2, <1>4, <2>2, <2>3 DEF ActionInv, ActionTypeOK, FilesOK, LeaseXorClaim
<1>7. CASE LeaseExpires
  <2>1. FilesOK'
    BY <1>7 DEF LeaseExpires, ActionInv, ActionTypeOK, FilesOK
  <2>2. LeaseXorClaim'
    BY <1>7 DEF LeaseExpires, LeaseXorClaim, LeaseIsLive
  <2>. QED
    BY <1>2, <1>4, <2>1, <2>2 DEF ActionInv, ActionTypeOK
<1>8. CASE ClaimExpires
  <2>1. claimLive' = FALSE /\ UNCHANGED <<lease, outcome, crashes>>
    BY <1>8 DEF ClaimExpires
  <2>2. claimLive' \in BOOLEAN /\ ~ClaimIsLive'
    BY <2>1 DEF ClaimIsLive
  <2>. QED
    BY <1>2, <1>4, <2>1, <2>2 DEF ActionInv, ActionTypeOK, FilesOK, LeaseXorClaim
<1>. QED
  BY <1>5, <1>6, <1>7, <1>8

\* A repair that claims gets an id that no other has, while the lease is not live.
LEMMA ClaimKeeps ==
    ASSUME ActionInv, NEW r \in Repairers, ClaimReconciliation(r)
    PROVE  ActionInv'
<1>1. UNCHANGED <<lease, outcome, crashes>>
  BY DEF ClaimReconciliation
<1>2. CASE MayClaim
  <2>1. /\ claimIds < MaxClaims /\ claimIds' = claimIds + 1 /\ claim' = claimIds + 1
        /\ claimLive' = TRUE /\ held' = [held EXCEPT ![r] = claimIds + 1]
        /\ RepairGoes(r, "claimed")
    BY <1>2 DEF ClaimReconciliation
  <2>2. /\ claimIds \in Nat /\ claimIds' \in 0..MaxClaims /\ claim' \in 0..claimIds'
        /\ held' \in [Repairers -> 0..claimIds']
    BY <2>1, ActionAssumption DEF ActionInv, ActionTypeOK, ClaimsOK
  <2>3. ClaimsOK'
    BY <2>1, <2>2, RepairGoesOn DEF ActionInv, ActionTypeOK, ClaimsOK, Steps
  <2>4. claimLive' \in BOOLEAN
    BY <2>1
  <2>5. FilesOK'
    BY <1>1, <2>4 DEF ActionInv, ActionTypeOK, FilesOK
  <2>6. \A s \in Repairers : s # r => held'[s] = held[s] /\ held'[s] # held'[r] /\ (AtWork(s)' <=> AtWork(s))
    BY <2>1, <2>2, RepairGoesOn DEF ActionInv, ActionTypeOK, ClaimsOK, AtWork, Steps
  <2>7. ClaimsDiffer'
    BY <2>6 DEF ActionInv, ClaimsDiffer
  <2>8. LeaseXorClaim'
    BY <1>1, <1>2 DEF MayClaim, Eligible, LeaseXorClaim, LeaseIsLive
  <2>. QED
    BY <2>3, <2>5, <2>7, <2>8 DEF ActionInv, ActionTypeOK
<1>3. CASE ~MayClaim
  <2>1. RepairGoes(r, "idle") /\ UNCHANGED <<claim, claimLive, held, claimIds>>
    BY <1>3 DEF ClaimReconciliation
  <2>2. ClaimsOK' /\ FilesOK'
    BY <1>1, <2>1, RepairGoesOn DEF ActionInv, ActionTypeOK, ClaimsOK, FilesOK, Steps
  <2>3. \A s \in Repairers : AtWork(s)' => AtWork(s)
    BY <2>1, RepairGoesOn DEF ActionInv, ActionTypeOK, AtWork, Steps
  <2>4. ClaimsDiffer' /\ LeaseXorClaim'
    BY <1>1, <2>1, <2>3 DEF ActionInv, ClaimsDiffer, LeaseXorClaim, LeaseIsLive, ClaimIsLive, Undecided
  <2>. QED
    BY <2>2, <2>4 DEF ActionInv, ActionTypeOK
<1>. QED
  BY <1>2, <1>3

\* The other steps of a repair give no claim either.
LEMMA RepairKeeps ==
    ASSUME ActionInv, NEW r \in Repairers,
           FindsEligible(r) \/ ReadsAgain(r) \/ ReleaseReconciliation(r)
             \/ FinishReconciliation(r) \/ RepairDies(r)
    PROVE  ActionInv'
<1>1. /\ UNCHANGED <<held, claimIds>>
      /\ ClaimRemoved \/ UNCHANGED <<claim, claimLive>>
      /\ UNCHANGED <<lease, outcome>> \/ AppendOutcome("repair")
  BY DEF FindsEligible, ReadsAgain, ReleaseReconciliation, FinishReconciliation, RepairDies
<1>2. UNCHANGED crashes \/ Crash
  BY DEF FindsEligible, ReadsAgain, ReleaseReconciliation, FinishReconciliation, RepairDies,
         AppendOutcome
<1>3. \E pc \in Steps : RepairGoes(r, pc) /\ (pc \in {"claimed", "deciding"} => AtWork(r))
  BY DEF FindsEligible, ReadsAgain, ReleaseReconciliation, FinishReconciliation, RepairDies, Steps, AtWork
<1>4. /\ repair' \in [Repairers -> Steps]
      /\ \A s \in Repairers : AtWork(s)' => AtWork(s)
  BY <1>3, RepairGoesOn DEF ActionInv, ActionTypeOK, AtWork
<1>5. ClaimsDiffer'
  BY <1>1, <1>4 DEF ActionInv, ClaimsDiffer
<1>6. claim' \in 0..claimIds' /\ claimLive' \in BOOLEAN /\ (ClaimIsLive' => ClaimIsLive)
  BY <1>1, ClaimGone DEF ActionInv
<1>7. ClaimsOK'
  BY <1>1, <1>4, <1>6 DEF ActionInv, ActionTypeOK, ClaimsOK, Steps
<1>8. CASE UNCHANGED <<lease, outcome>>
  <2>1. FilesOK'
    BY <1>2, <1>6, <1>8, CrashCounts DEF ActionInv, ActionTypeOK, FilesOK
  <2>2. LeaseXorClaim'
    BY <1>6, <1>8 DEF ActionInv, LeaseXorClaim, LeaseIsLive, Undecided
  <2>. QED
    BY <1>5, <1>7, <2>1, <2>2 DEF ActionInv, ActionTypeOK
<1>9. CASE AppendOutcome("repair")
  <2>1. FilesOK' /\ ~Undecided'
    BY <1>6, <1>9, OutcomeDecides DEF ActionInv, ActionTypeOK, FilesOK
  <2>. QED
    BY <1>5, <1>7, <2>1 DEF ActionInv, ActionTypeOK, LeaseXorClaim
<1>. QED
  BY <1>1, <1>8, <1>9

\* The invariant is inductive.
LEMMA ActionInvStep == ActionInv /\ [ActionNext]_actionVars => ActionInv'
<1>1. ASSUME ActionInv, ActionNext PROVE ActionInv'
  BY <1>1, WorkerKeeps, ClaimKeeps, RepairKeeps DEF ActionNext, RepairStep
<1>2. ASSUME ActionInv, UNCHANGED actionVars PROVE ActionInv'
  BY <1>2 DEF actionVars, ActionInv, ActionTypeOK, FilesOK, ClaimsOK, ClaimsDiffer, AtWork,
         LeaseXorClaim, LeaseIsLive, ClaimIsLive, Undecided
<1>. QED
  BY <1>1, <1>2

LEMMA ActionInvAlways == ActionSpec => []ActionInv
BY ActionInvInit, ActionInvStep, PTL DEF ActionSpec
-----------------------------------------------------------------------------
\* The values each variable may have.  (store.py, lease.json and repair_claim.json.)
THEOREM ActionTypeCorrect == ActionSpec => []ActionTypeOK
<1>1. ActionInv => ActionTypeOK
  BY DEF ActionInv
<1>. QED
  BY <1>1, ActionInvAlways, PTL

\* An undecided action is never leased and claimed at once, and one repair at work holds
\* the claim of record, whoever dies and whatever expires.  (store.py 907-938 and
\* 1013-1058.)
THEOREM LeaseExcludesClaim == ActionSpec => []LeaseOrClaim
BY ActionInvAlways, ActionInvIsEnough, PTL
-----------------------------------------------------------------------------
(* Subagents *)

\* What has not begun has left nothing: no report before the tool call polls, and no
\* outcome before a thread of the pool has taken the task up.
Untouched == \A t \in Tasks :
    /\ poller[t] = "none" => reported[t] = "none" /\ scheduler[t] = "none"
    /\ scheduler[t] \in {"none", "queued"} => body[t] = "none"
    /\ poller[t] = "none" => status[t] = "none"

\* The thread of the pool and the tool call find the record they look up: it is removed
\* only once it is settled, and by the tool call itself.  (executor.py 858,
\* task_tool.py 384-389: neither the KeyError nor "disappeared" can happen.)
RecordKept == \A t \in Tasks :
    /\ scheduler[t] = "queued" => t \in records /\ status[t] = "pending"
    /\ poller[t] \in {"polling", "waiting"} => t \in records

SubagentInv == SubagentTypeOK /\ ReportIsFinal /\ Untouched /\ RecordKept
-----------------------------------------------------------------------------
\* No record exists at the start.
LEMMA SubagentInvInit == SubagentInit => SubagentInv
BY DEF SubagentInit, SubagentInv, SubagentTypeOK, ReportIsFinal, Untouched, RecordKept, Unsettled, Settled, Outcomes

\* A late outcome leaves a settled record alone and settles one that is not.
LEMMA FirstOutcomeStays ==
    ASSUME NEW t \in Tasks, NEW o \in Outcomes, SubagentTypeOK, TrySetTerminal(t, o)
    PROVE  /\ status' \in [Tasks -> Unsettled \cup Outcomes]
           /\ \A s \in Tasks : s # t \/ Settled(s) => status'[s] = status[s]
           /\ status'[t] \in Outcomes
BY DEF SubagentTypeOK, TrySetTerminal, Settled, Unsettled, Outcomes

\* The record is removed by its own tool call, and only once it is settled.
LEMMA CleanupIsSafe ==
    ASSUME NEW t \in Tasks, records' = CleanedUp(t), status' = status, SubagentTypeOK
    PROVE  /\ records' \subseteq Tasks
           /\ \A s \in Tasks : s # t \/ ~Settled(s) => (s \in records' <=> s \in records)
           /\ records' \subseteq records
BY DEF CleanedUp, SubagentTypeOK

\* A new task has a record of its own.
LEMMA ExecuteStep ==
    ASSUME SubagentInv, NEW t \in Tasks, ExecuteAsync(t)
    PROVE  SubagentInv'
BY DEF ExecuteAsync, SchedulerGoes, PollerGoes, SubagentInv, SubagentTypeOK, ReportIsFinal,
       Untouched, RecordKept, Unsettled, Outcomes

\* The thread of the pool settles no record that is settled.
LEMMA SchedulerStepKeeps ==
    ASSUME SubagentInv, NEW t \in Tasks, SchedulerStep(t)
    PROVE  SubagentInv'
<1>1. CASE TaskRuns(t)
  <2>1. SubagentTypeOK'
    BY <1>1 DEF TaskRuns, SchedulerGoes, BodyGoes, SubagentInv, SubagentTypeOK, Unsettled, Outcomes
  <2>2. ReportIsFinal'
    BY <1>1 DEF TaskRuns, SubagentInv, SubagentTypeOK, ReportIsFinal, Unsettled, Outcomes
  <2>3. Untouched'
    BY <1>1 DEF TaskRuns, SchedulerGoes, BodyGoes, SubagentInv, SubagentTypeOK, Untouched
  <2>4. RecordKept'
    BY <1>1 DEF TaskRuns, SchedulerGoes, SubagentInv, SubagentTypeOK, RecordKept
  <2>. QED
    BY <2>1, <2>2, <2>3, <2>4 DEF SubagentInv
<1>2. CASE ExecutionEnds(t)
  BY <1>2 DEF ExecutionEnds, SchedulerGoes, SubagentInv, SubagentTypeOK, ReportIsFinal, Untouched,
         RecordKept, Settled
<1>4. CASE ExecutionTimesOut(t)
  BY <1>4 DEF ExecutionTimesOut, SchedulerGoes, SubagentInv, SubagentTypeOK, ReportIsFinal, Untouched,
         RecordKept, Settled
<1>5. CASE CancelsExecution(t)
  BY <1>5 DEF CancelsExecution, SchedulerGoes, BodyGoes, SubagentInv, SubagentTypeOK, ReportIsFinal,
         Untouched, RecordKept, Settled
<1>3. CASE SetsTimedOut(t)
  <2>1. "timed_out" \in Outcomes /\ TrySetTerminal(t, "timed_out")
    BY <1>3 DEF SetsTimedOut, Outcomes
  <2>2. /\ status' \in [Tasks -> Unsettled \cup Outcomes]
        /\ \A s \in Tasks : s # t \/ Settled(s) => status'[s] = status[s]
    BY <2>1, FirstOutcomeStays DEF SubagentInv
  <2>3. scheduler[t] = "expired" /\ poller[t] # "none"
    BY <1>3 DEF SetsTimedOut, SubagentInv, Untouched
  <2>4. SubagentTypeOK'
    BY <1>3, <2>2 DEF SetsTimedOut, SchedulerGoes, SubagentInv, SubagentTypeOK, Unsettled
  <2>5. ReportIsFinal'
    BY <1>3, <2>2 DEF SetsTimedOut, SubagentInv, SubagentTypeOK, ReportIsFinal, Settled
  <2>6. Untouched' /\ RecordKept'
    BY <1>3, <2>2, <2>3 DEF SetsTimedOut, SchedulerGoes, SubagentInv, SubagentTypeOK, Untouched, RecordKept
  <2>. QED
    BY <2>4, <2>5, <2>6 DEF SubagentInv
<1>. QED
  BY <1>1, <1>2, <1>3, <1>4, <1>5 DEF SchedulerStep

\* Neither does the coroutine.
LEMMA BodyStepKeeps ==
    ASSUME SubagentInv, NEW t \in Tasks, BodyStep(t)
    PROVE  SubagentInv'
<1>. DEFINE Settles == \E o \in Outcomes : TrySetTerminal(t, o)
<1>1. Settles \/ UNCHANGED status
  BY DEF BodyStep, Checks, TurnYields, BodyEnds, Outcomes
<1>2. body[t] \in {"check", "turn"} /\ body' \in [Tasks -> {"none", "check", "turn", "done"}]
      /\ \A s \in Tasks : s # t => body'[s] = body[s]
  BY DEF BodyStep, Checks, TurnYields, BodyEnds, BodyGoes, SubagentInv, SubagentTypeOK
<1>3. UNCHANGED <<records, event, scheduler, poller, reported>>
  BY DEF BodyStep, Checks, TurnYields, BodyEnds
<1>4. /\ status' \in [Tasks -> Unsettled \cup Outcomes]
      /\ \A s \in Tasks : s # t \/ Settled(s) => status'[s] = status[s]
  BY <1>1, FirstOutcomeStays DEF SubagentInv, SubagentTypeOK
<1>5. poller[t] # "none" /\ scheduler[t] \notin {"none", "queued"}
  BY <1>2 DEF SubagentInv, Untouched
<1>. QED
  BY <1>2, <1>3, <1>4, <1>5 DEF SubagentInv, SubagentTypeOK, ReportIsFinal, Untouched, RecordKept, Settled

\* A tool call reports what is settled, and asks for cancellation only.
LEMMA PollStepKeeps ==
    ASSUME SubagentInv, NEW t \in Tasks, Polls(t) \/ ParentCancelled(t)
    PROVE  SubagentInv'
<1>1. CASE PollReturns(t)
  <2>1. t \in records /\ Settled(t) /\ records' = CleanedUp(t)
    BY <1>1 DEF PollReturns, SubagentInv, RecordKept
  <2>2. records' = records \ {t} /\ reported' = [reported EXCEPT ![t] = status[t]]
    BY <1>1, <2>1 DEF PollReturns, CleanedUp
  <2>3. /\ poller[t] = "polling" /\ scheduler[t] # "queued" /\ status[t] \in Outcomes
        /\ poller' = [poller EXCEPT ![t] = "done"]
        /\ UNCHANGED <<status, event, scheduler, body>>
    BY <1>1, <2>1 DEF PollReturns, PollerGoes, Settled, SubagentInv, RecordKept, Outcomes
  <2>4. SubagentTypeOK' /\ ReportIsFinal'
    BY <2>2, <2>3 DEF SubagentInv, SubagentTypeOK, ReportIsFinal
  <2>5. Untouched' /\ RecordKept'
    BY <2>2, <2>3 DEF SubagentInv, SubagentTypeOK, Untouched, RecordKept
  <2>. QED
    BY <2>4, <2>5 DEF SubagentInv
<1>2. CASE PollsRunOut(t) \/ ParentCancelled(t)
  <2>1. /\ event' = [event EXCEPT ![t] = @ \/ t \in records] /\ poller[t] = "polling"
        /\ \E pc \in {"deferred", "waiting"} : poller' = [poller EXCEPT ![t] = pc]
        /\ UNCHANGED <<records, status, scheduler, body, reported>>
    BY <1>2 DEF PollsRunOut, ParentCancelled, RequestCancel, PollerGoes
  <2>2. event' \in [Tasks -> BOOLEAN]
    BY <2>1 DEF SubagentInv, SubagentTypeOK
  <2>3. SubagentTypeOK' /\ ReportIsFinal'
    BY <2>1, <2>2 DEF SubagentInv, SubagentTypeOK, ReportIsFinal
  <2>4. Untouched' /\ RecordKept'
    BY <2>1 DEF SubagentInv, SubagentTypeOK, Untouched, RecordKept
  <2>. QED
    BY <2>3, <2>4 DEF SubagentInv
<1>3. CASE StopsWaiting(t) \/ DeferredCleanup(t)
  <2>1. /\ records' = CleanedUp(t) /\ UNCHANGED <<status, event, scheduler, body, reported>>
        /\ poller[t] \in {"waiting", "deferred"}
        /\ PollerGoes(t, "done") \/ PollerGoes(t, "deferred")
    BY <1>3 DEF StopsWaiting, DeferredCleanup
  <2>2. /\ records' \subseteq records
        /\ \A s \in Tasks : s # t \/ ~Settled(s) => (s \in records' <=> s \in records)
    BY <2>1, CleanupIsSafe DEF SubagentInv
  <2>3. ~Settled(t) \/ scheduler[t] # "queued"
    BY DEF SubagentInv, RecordKept, Settled, Outcomes
  <2>4. SubagentTypeOK' /\ ReportIsFinal'
    BY <2>1, <2>2 DEF PollerGoes, SubagentInv, SubagentTypeOK, ReportIsFinal
  <2>5. Untouched' /\ RecordKept'
    BY <2>1, <2>2, <2>3 DEF PollerGoes, SubagentInv, SubagentTypeOK, Untouched, RecordKept
  <2>. QED
    BY <2>4, <2>5 DEF SubagentInv
<1>. QED
  BY <1>1, <1>2, <1>3 DEF Polls

\* The invariant is inductive.
LEMMA SubagentInvStep == SubagentInv /\ [SubagentNext]_subagentVars => SubagentInv'
<1>1. ASSUME SubagentInv, SubagentNext PROVE SubagentInv'
  BY <1>1, ExecuteStep, SchedulerStepKeeps, BodyStepKeeps, PollStepKeeps DEF SubagentNext
<1>2. ASSUME SubagentInv, UNCHANGED subagentVars PROVE SubagentInv'
  BY <1>2 DEF subagentVars, SubagentInv, SubagentTypeOK, ReportIsFinal, Untouched, RecordKept, Settled
<1>. QED
  BY <1>1, <1>2

LEMMA SubagentInvAlways == SubagentSpec => []SubagentInv
BY SubagentInvInit, SubagentInvStep, PTL DEF SubagentSpec
-----------------------------------------------------------------------------
\* The values each variable may have.  (executor.py 53-158, task_tool.py.)
THEOREM SubagentTypeCorrect == SubagentSpec => []SubagentTypeOK
<1>1. SubagentInv => SubagentTypeOK
  BY DEF SubagentInv
<1>. QED
  BY <1>1, SubagentInvAlways, PTL

\* What the tool call reported is and stays the outcome of the task, and its record is
\* gone, however late the timeout, the cancellation and the coroutine come.
\* (executor.py 112-145.)
THEOREM ReportStaysTrue == SubagentSpec => []ReportIsFinal
<1>1. SubagentInv => ReportIsFinal
  BY DEF SubagentInv
<1>. QED
  BY <1>1, SubagentInvAlways, PTL

\* Neither the thread of the pool nor the tool call ever misses the record of its task,
\* although the other may remove it.  (executor.py 858, task_tool.py 384-389.)
THEOREM RecordIsFound == SubagentSpec => []RecordKept
<1>1. SubagentInv => RecordKept
  BY DEF SubagentInv
<1>. QED
  BY <1>1, SubagentInvAlways, PTL

\* No step changes the outcome of a task.  (executor.py 112-145, "late terminal writes
\* must not change status".)
FirstOutcome == \A t \in Tasks : Settled(t) => status'[t] = status[t]

\* An outcome, once set, is never replaced: the first of the timeout, the cancellation
\* and the end of the coroutine decides.  (executor.py 112-145.)
THEOREM OutcomeNeverChanges == SubagentSpec => [][FirstOutcome]_subagentVars
<1>1. ASSUME SubagentInv, SubagentNext, NEW t \in Tasks, Settled(t) PROVE status'[t] = status[t]
  <2>1. PICK u \in Tasks : \/ ExecuteAsync(u) \/ SchedulerStep(u) \/ BodyStep(u)
                           \/ Polls(u) \/ ParentCancelled(u)
    BY <1>1 DEF SubagentNext
  <2>2. CASE ExecuteAsync(u)
    BY <1>1, <2>2 DEF ExecuteAsync, SubagentInv, Untouched, SubagentTypeOK, Settled, Outcomes
  <2>3. CASE \E o \in Outcomes : TrySetTerminal(u, o)
    BY <1>1, <2>3, FirstOutcomeStays DEF SubagentInv
  <2>4. CASE TaskRuns(u)
    BY <1>1, <2>4 DEF TaskRuns, SubagentInv, RecordKept, SubagentTypeOK, Settled, Outcomes
  <2>5. CASE UNCHANGED status
    BY <2>5
  <2>6. SchedulerStep(u) => TaskRuns(u) \/ UNCHANGED status \/ \E o \in Outcomes : TrySetTerminal(u, o)
    BY DEF SchedulerStep, ExecutionEnds, ExecutionTimesOut, SetsTimedOut, CancelsExecution, Outcomes
  <2>7. BodyStep(u) => UNCHANGED status \/ \E o \in Outcomes : TrySetTerminal(u, o)
    BY DEF BodyStep, Checks, TurnYields, BodyEnds, Outcomes
  <2>8. Polls(u) \/ ParentCancelled(u) => UNCHANGED status
    BY DEF Polls, ParentCancelled, PollReturns, PollsRunOut, StopsWaiting, DeferredCleanup
  <2>. QED
    BY <2>1, <2>2, <2>3, <2>4, <2>5, <2>6, <2>7, <2>8
<1>2. SubagentInv /\ [SubagentNext]_subagentVars => [FirstOutcome]_subagentVars
  BY <1>1 DEF FirstOutcome
<1>. QED
  BY <1>2, SubagentInvAlways, PTL DEF SubagentSpec
-----------------------------------------------------------------------------
(* The composition *)

\* Every step is a step of the component that is explored, and leaves the others alone.
THEOREM ServicesImplement ==
    ServicesSpec => /\ QueueSpec /\ PoolSpec /\ SandboxSpec /\ SubagentSpec /\ ActionSpec
                    /\ BridgeSpec /\ ChannelsSpec
<1>1. ServicesInit => /\ QueueInit /\ PoolInit /\ SandboxInit /\ SubagentInit /\ ActionInit
                      /\ BridgeInit /\ ChannelsInit
  BY DEF ServicesInit
<1>2. [ServicesNext]_servicesVars => [QueueNext]_queueVars
  BY DEF ServicesNext, servicesVars, OthersThanPool, OthersThanSandbox, OthersThanSubagent, OthersThanAction,
         OthersThanStream, OthersThanChannels
<1>3. [ServicesNext]_servicesVars => [PoolNext]_poolVars
  BY DEF ServicesNext, servicesVars, OthersThanQueue, OthersThanSandbox, OthersThanSubagent, OthersThanAction,
         OthersThanStream, OthersThanChannels
<1>4. [ServicesNext]_servicesVars => [SandboxNext]_sandboxVars
  BY DEF ServicesNext, servicesVars, OthersThanQueue, OthersThanPool, OthersThanSubagent, OthersThanAction,
         OthersThanStream, OthersThanChannels
<1>5. [ServicesNext]_servicesVars => [SubagentNext]_subagentVars
  BY DEF ServicesNext, servicesVars, OthersThanQueue, OthersThanPool, OthersThanSandbox, OthersThanAction,
         OthersThanStream, OthersThanChannels
<1>6. [ServicesNext]_servicesVars => [ActionNext]_actionVars
  BY DEF ServicesNext, servicesVars, OthersThanQueue, OthersThanPool, OthersThanSandbox, OthersThanSubagent,
         OthersThanStream, OthersThanChannels
<1>7. [ServicesNext]_servicesVars => [BridgeNext]_streamVars
  BY DEF ServicesNext, servicesVars, OthersThanQueue, OthersThanPool, OthersThanSandbox, OthersThanSubagent,
         OthersThanAction, OthersThanChannels
<1>8. [ServicesNext]_servicesVars => [ChannelsNext]_channelVars
  BY DEF ServicesNext, servicesVars, OthersThanQueue, OthersThanPool, OthersThanSandbox, OthersThanSubagent,
         OthersThanAction, OthersThanStream
<1>. QED
  BY <1>1, <1>2, <1>3, <1>4, <1>5, <1>6, <1>7, <1>8, PTL
  DEF ServicesSpec, QueueSpec, PoolSpec, SandboxSpec, SubagentSpec, ActionSpec, BridgeSpec, ChannelsSpec

\* The types of all components.
THEOREM ServicesTypeCorrect == ServicesSpec => []ServicesTypeOK
<1>1. /\ QueueTypeOK /\ PoolTypeOK /\ SandboxTypeOK /\ SubagentTypeOK /\ ActionTypeOK
      /\ BridgeTypeOK /\ ChannelsTypeOK
      => ServicesTypeOK
  BY DEF ServicesTypeOK
<1>. QED
  BY <1>1, ServicesImplement, QueueTypeCorrect, PoolTypeCorrect, SandboxTypeCorrect, SubagentTypeCorrect,
     ActionTypeCorrect, BridgeTypeCorrect, ChannelsTypeCorrect, PTL

\* The safety invariants of the components hold of the run that explores them in turn.
THEOREM ServicesSafe ==
    ServicesSpec => []( /\ NothingForgotten /\ Tombstoned /\ NoLeakedSession /\ RegisteredIsOpen
                        /\ NoOrphanContainer /\ ReportIsFinal /\ LeaseOrClaim /\ NoSilentGap
                        /\ HandledOnce /\ StopIsClean /\ OneThread )
BY ServicesImplement, NothingIsForgotten, DeletedStaysOut, NoSessionLeaks, RegisteredStaysOpen, ContainersAreHeld,
   ReportStaysTrue, LeaseExcludesClaim, GapsAreEvictions, ChannelsHandleOnce, ChannelsStopClean, ChannelsOneThread,
   PTL
=============================================================================
