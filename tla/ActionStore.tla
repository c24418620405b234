---------------------------- MODULE ActionStore ----------------------------
(***************************************************************************)
(* One domain action: its files in FileActionStore (actions/store.py), the *)
(* worker that carries it out under a lease, and the repairs that settle   *)
(* it under a claim when the lease has expired (actions/reconciliation.py).*)
(* Each operation of the store is one step, because the file lock of the   *)
(* store is held for all of it; a process may die inside one, and between  *)
(* any two.  Actions share nothing but that lock.                          *)
(*                                                                         *)
(* A lease and a claim are live until they expire.  Every outcome of a     *)
(* repair differs from every outcome of the worker.                        *)
(***************************************************************************)
EXTENDS Naturals

CONSTANTS Repairers,   \* calls of ActionRepairService.repair
          MaxClaims,   \* bound on the claims made
          MaxCrashes   \* bound on the processes that die inside an operation

ASSUME ActionAssumption == MaxClaims \in Nat /\ MaxCrashes \in Nat

NoClaim == 0

VARIABLES
  lease,      \* lease.json: "none", "live" or "expired"
  claim,      \* claim_id in repair_claim.json
  claimLive,  \* it has not expired
  outcome,    \* outcome.json: "none", "worker" or "repair"
  repair,     \* how far each repair is: "idle", "eligible", "claimed" or "deciding"
  held,       \* claim_id each repair was given
  claimIds,   \* claims made so far
  crashes

actionVars == <<lease, claim, claimLive, outcome, repair, held, claimIds, crashes>>

\* start makes the record and its lease together, by one rename.
ActionInit ==
    /\ lease = "live" /\ claim = NoClaim /\ claimLive = FALSE /\ outcome = "none"
    /\ repair = [r \in Repairers |-> "idle"]
    /\ held = [r \in Repairers |-> NoClaim]
    /\ claimIds = 0 /\ crashes = 0
-----------------------------------------------------------------------------
Undecided == outcome = "none"
LeaseIsLive == lease = "live"
ClaimIsLive == claim # NoClaim /\ claimLive

RepairGoes(r, pc) == repair' = [repair EXCEPT ![r] = pc]
ClaimRemoved == claim' = NoClaim /\ claimLive' = FALSE

Crash == crashes < MaxCrashes /\ crashes' = crashes + 1

\* _append_outcome_unlocked: outcome.json is put in place first, then lease.json and
\* repair_claim.json are removed, and a process that dies between leaves them there.
AppendOutcome(by) ==
    /\ outcome' = by
    /\ \/ lease' = "none" /\ UNCHANGED crashes
       \/ lease' \in {lease, "none"} /\ Crash
-----------------------------------------------------------------------------
(* The worker, which is refused while repair owns the action *)

WorkerRefused == ClaimIsLive

Renew ==
    /\ Undecided /\ ~WorkerRefused
    /\ lease' = "live"
    /\ UNCHANGED <<claim, claimLive, outcome, repair, held, claimIds, crashes>>

\* An expired claim is removed before the outcome is appended.
Finish ==
    /\ Undecided /\ ~WorkerRefused
    /\ ClaimRemoved
    /\ AppendOutcome("worker") \/ (Crash /\ UNCHANGED <<lease, outcome>>)
    /\ UNCHANGED <<repair, held, claimIds>>

LeaseExpires ==
    /\ LeaseIsLive /\ lease' = "expired"
    /\ UNCHANGED <<claim, claimLive, outcome, repair, held, claimIds, crashes>>

ClaimExpires ==
    /\ ClaimIsLive /\ claimLive' = FALSE
    /\ UNCHANGED <<lease, claim, outcome, repair, held, claimIds, crashes>>
-----------------------------------------------------------------------------
(* A repair: the state is read, claimed, read again, decided, and finished *)

\* _reconciliation_state_unlocked is "eligible"
Eligible == Undecided /\ ~LeaseIsLive /\ ~ClaimIsLive

FindsEligible(r) ==
    /\ repair[r] = "idle" /\ Eligible
    /\ RepairGoes(r, "eligible")
    /\ UNCHANGED <<lease, claim, claimLive, outcome, held, claimIds, crashes>>

\* Mutant: the lease is not looked at again.
ClaimsUnclaimed == Undecided /\ ~ClaimIsLive

\* claim_reconciliation, which looks at everything again.
MayClaim == Eligible

ClaimReconciliation(r) ==
    /\ repair[r] = "eligible"
    /\ IF MayClaim
         THEN /\ claimIds < MaxClaims
              /\ claimIds' = claimIds + 1 /\ claim' = claimIds + 1 /\ claimLive' = TRUE
              /\ held' = [held EXCEPT ![r] = claimIds + 1]
              /\ RepairGoes(r, "claimed")
         ELSE RepairGoes(r, "idle") /\ UNCHANGED <<claim, claimLive, held, claimIds>>
    /\ UNCHANGED <<lease, outcome, crashes>>

ReadsAgain(r) ==
    /\ repair[r] = "claimed" /\ Undecided
    /\ RepairGoes(r, "deciding")
    /\ UNCHANGED <<lease, claim, claimLive, outcome, held, claimIds, crashes>>

\* The claim is still the one that was given; its expiry is not looked at.
Owns(r) == claim = held[r] /\ claim # NoClaim

\* The reconciler cannot tell, or raises; or the action was settled before it was asked.
ReleaseReconciliation(r) ==
    /\ repair[r] = "deciding" \/ (repair[r] = "claimed" /\ ~Undecided)
    /\ IF Owns(r) THEN ClaimRemoved ELSE UNCHANGED <<claim, claimLive>>
    /\ RepairGoes(r, "idle")
    /\ UNCHANGED <<lease, outcome, held, claimIds, crashes>>

FinishReconciliation(r) ==
    /\ repair[r] = "deciding"
    /\ Undecided /\ Owns(r)
    /\ AppendOutcome("repair")
    /\ IF crashes' = crashes THEN ClaimRemoved ELSE UNCHANGED <<claim, claimLive>>
    /\ RepairGoes(r, "idle")
    /\ UNCHANGED <<held, claimIds>>

\* The process of a repair dies and leaves its claim.
RepairDies(r) ==
    /\ repair[r] \in {"claimed", "deciding"} /\ Crash
    /\ RepairGoes(r, "idle")
    /\ UNCHANGED <<lease, claim, claimLive, outcome, held, claimIds>>
-----------------------------------------------------------------------------
RepairStep(r) ==
    \/ FindsEligible(r) \/ ClaimReconciliation(r) \/ ReadsAgain(r)
    \/ ReleaseReconciliation(r) \/ FinishReconciliation(r) \/ RepairDies(r)

ActionNext ==
    \/ Renew \/ Finish \/ LeaseExpires \/ ClaimExpires
    \/ \E r \in Repairers : RepairStep(r)

ActionSpec == ActionInit /\ [][ActionNext]_actionVars
-----------------------------------------------------------------------------
FilesOK ==
    /\ lease \in {"none", "live", "expired"} /\ outcome \in {"none", "worker", "repair"}
    /\ claimLive \in BOOLEAN /\ crashes \in 0..MaxCrashes

ClaimsOK ==
    /\ claim \in 0..claimIds /\ claimIds \in 0..MaxClaims
    /\ repair \in [Repairers -> {"idle", "eligible", "claimed", "deciding"}]
    /\ held \in [Repairers -> 0..claimIds]

ActionTypeOK == FilesOK /\ ClaimsOK

\* An action that is not decided is never leased to its worker and claimed by a repair
\* at once, and at most one repair at work holds the claim of record.
\* (store.py 907-938 and 1013-1058, "Atomically claim one expired running Action".)
LeaseOrClaim ==
    /\ Undecided => ~(LeaseIsLive /\ ClaimIsLive)
    /\ \A r, s \in Repairers :
         repair[r] \in {"claimed", "deciding"} /\ repair[s] \in {"claimed", "deciding"}
           /\ Owns(r) /\ Owns(s) => r = s
=============================================================================
