---------------------------- MODULE SandboxPool ----------------------------
(***************************************************************************)
(* The sandboxes of one Gateway process: the maps of AioSandboxProvider    *)
(* (community/aio_sandbox/aio_sandbox_provider.py) and the containers of   *)
(* its backend.  A sandbox id is a hash of user and thread, so a thread    *)
(* names its sandbox, its container, and its acquisition: the thread's     *)
(* lock lets one at a time run.  Acquisitions, releases, the idle checker  *)
(* and containers that die are interleaved; the maps change under one      *)
(* lock, and backends are asked and containers stopped outside it.         *)
(*                                                                         *)
(* _sandboxes, _sandbox_infos, _last_activity and _thread_sandboxes always *)
(* change together and are the one map active.  Health checks that cannot  *)
(* decide count as alive.  Stopping a container may fail, after the maps   *)
(* have forgotten it.  Other processes and shutdown are left out, the warm *)
(* sandbox to evict may be any, and an acquisition that is cancelled       *)
(* earlier than modelled ends its current step in its thread.              *)
(***************************************************************************)
EXTENDS Naturals, FiniteSets

CONSTANTS Threads,
          Reaper,       \* the idle checker's thread
          Replicas,     \* the configured replicas
          MaxInfos,     \* bound on the SandboxInfo objects
          MaxDeaths     \* bound on the containers that die by themselves

ASSUME SandboxAssumption ==
    Reaper \notin Threads /\ Replicas \in Nat /\ MaxInfos \in Nat \ {0} /\ MaxDeaths \in Nat

\* A SandboxInfo object: its identity, and the container that destroy will stop.  One
\* that was discovered has no container id and stops whichever runs under the name.
ByName == 0
Info == [thread : Threads, no : 1..MaxInfos, box : 0..MaxInfos]
None == [thread |-> Reaper, no |-> 0, box |-> ByName]

VARIABLES
  active,      \* the tracked sandbox of each thread
  warm,        \* _warm_pool
  age,         \* of the last activity or release: "fresh", or "stale" past idle_timeout,
               \* and "fresh" when it is not tracked
  container,   \* the container that runs under each thread's name, 0 for none
  acquire,     \* how far the acquisition of each thread is, and the info it has read
  doomed,      \* by whom it is going to be destroyed: infos taken out of the maps
  suspects,    \* active sandboxes the idle checker has yet to verify
  verified,    \* the one it has verified and will destroy
  abandoned,   \* containers that were left behind: the acquisition was cancelled before
               \* they were ready, or a stop failed; not those that were registered since
  made,        \* SandboxInfo objects so far
  deaths

sandboxVars == <<active, warm, age, container, acquire, doomed, suspects, verified, abandoned, made, deaths>>

Idling == [pc |-> "idle", seen |-> None, locked |-> FALSE]
Container(t) == <<t, container[t]>>
NewInfo(t, box) == [thread |-> t, no |-> made + 1, box |-> box]

\* At startup the containers of an earlier process are adopted into the warm pool.
SandboxInit ==
    /\ made \in {0, 1} /\ deaths = 0 /\ abandoned = {} /\ suspects = {} /\ verified = {}
    /\ active = [t \in Threads |-> None]
    /\ container \in [Threads -> {0, made}]
    /\ warm = [t \in Threads |-> IF container[t] = 0 THEN None
                                 ELSE [thread |-> t, no |-> made, box |-> ByName]]
    /\ age = [t \in Threads |-> "fresh"]
    /\ acquire = [t \in Threads |-> Idling]
    /\ doomed = [a \in Threads \cup {Reaper} |-> {}]
-----------------------------------------------------------------------------
(* Acquisition, one layer after the other *)

At(t, pc) == acquire[t].pc = pc /\ doomed[t] = {}
AcquireGoes(t, pc) == acquire' = [acquire EXCEPT ![t].pc = pc, ![t].seen = None]
Looks(t, pc, info) == acquire' = [acquire EXCEPT ![t].pc = pc, ![t].seen = info]
Acquired(t) == acquire' = [acquire EXCEPT ![t] = Idling]
Touch(t) == age' = [age EXCEPT ![t] = "fresh"]
OnlyAcquires == UNCHANGED <<active, warm, age, container, doomed, suspects, verified, made, abandoned, deaths>>

\* Neither reused nor reclaimed: once more under the file lock, then discovery.
NextLayer(t) ==
    acquire' = [acquire EXCEPT ![t] = [pc |-> IF acquire[t].locked THEN "discover" ELSE "reuse",
                                       seen |-> None, locked |-> TRUE]]

Starts(t) == At(t, "idle") /\ AcquireGoes(t, "reuse") /\ OnlyAcquires

\* The map is read, the container is checked without the lock, the map is read again.
ReadsActive(t) ==
    /\ At(t, "reuse")
    /\ IF active[t] = None THEN AcquireGoes(t, "reclaim") ELSE Looks(t, "check", active[t])
    /\ OnlyAcquires

ReusesActive(t) ==
    /\ At(t, "check")
    /\ IF active[t] = None THEN AcquireGoes(t, "reclaim") /\ UNCHANGED age ELSE Touch(t) /\ Acquired(t)
    /\ UNCHANGED <<active, warm, container, doomed, suspects, verified, made, abandoned, deaths>>

ReadsWarm(t) ==
    /\ At(t, "reclaim")
    /\ IF warm[t] = None THEN NextLayer(t) ELSE Looks(t, "recheck", warm[t])
    /\ OnlyAcquires

\* Mutant: the sandbox stays in the warm pool.
ReclaimsCopy(t) ==
    /\ At(t, "recheck")
    /\ IF warm[t] = None
         THEN NextLayer(t) /\ UNCHANGED <<active, age>>
         ELSE active' = [active EXCEPT ![t] = warm[t]] /\ Touch(t) /\ Acquired(t)
    /\ UNCHANGED <<warm, container, doomed, suspects, verified, made, abandoned, deaths>>

Reclaims(t) ==
    /\ At(t, "recheck")
    /\ IF warm[t] = None
         THEN NextLayer(t) /\ UNCHANGED <<active, warm, age>>
         ELSE /\ active' = [active EXCEPT ![t] = warm[t]]
              /\ warm' = [warm EXCEPT ![t] = None]
              /\ Touch(t) /\ Acquired(t)
    /\ UNCHANGED <<container, doomed, suspects, verified, made, abandoned, deaths>>

\* _remove_tracked_sandbox: the active info will be destroyed, or else the warm one.
Removed(t) == IF active[t] # None THEN {active[t]} ELSE {warm[t]} \ {None}
Untrack(a, t) ==
    /\ doomed' = [doomed EXCEPT ![a] = @ \cup Removed(t)]
    /\ active' = [active EXCEPT ![t] = None]
    /\ warm' = [warm EXCEPT ![t] = None]
    /\ Touch(t)

\* _drop_unhealthy_sandbox removes nothing when what was checked was replaced.
StillChecked(t) == acquire[t].seen \in {active[t], warm[t]}

Drops(t) ==
    /\ container[t] = 0
    /\ \/ At(t, "check") /\ AcquireGoes(t, "reclaim")
       \/ At(t, "recheck") /\ NextLayer(t)
    /\ IF StillChecked(t) THEN Untrack(t, t) ELSE UNCHANGED <<active, warm, doomed, age>>
    /\ UNCHANGED <<container, suspects, verified, made, abandoned, deaths>>

Track(t, info) == active' = [active EXCEPT ![t] = info] /\ Touch(t) /\ Acquired(t)

\* A container that runs may not answer in time, and then counts as absent.
Discovers(t) ==
    /\ At(t, "discover")
    /\ \/ AcquireGoes(t, "create") /\ UNCHANGED made
       \/ /\ container[t] # 0 /\ made < MaxInfos /\ made' = made + 1
          /\ Looks(t, "found", NewInfo(t, ByName))
    /\ UNCHANGED <<active, warm, age, container, doomed, suspects, verified, abandoned, deaths>>

\* Discovered, or created and ready; it may be a container that was left behind.
Registers(t) ==
    /\ At(t, "found") \/ At(t, "starting")
    /\ Track(t, acquire[t].seen)
    /\ abandoned' = abandoned \ {Container(t)}
    /\ UNCHANGED <<warm, container, doomed, suspects, verified, made, deaths>>

Tracked(m) == {t \in Threads : m[t] # None}

Full == Cardinality(Tracked(active)) + Cardinality(Tracked(warm)) >= Replicas

\* A full pool evicts a warm sandbox, if there is one; active ones are let alone.
EvictsWarm(t) ==
    /\ At(t, "create")
    /\ Full
    /\ \E u \in Tracked(warm) :
         /\ warm' = [warm EXCEPT ![u] = None]
         /\ doomed' = [doomed EXCEPT ![t] = {warm[u]}]
         /\ Touch(u)
    /\ AcquireGoes(t, "evicted")
    /\ UNCHANGED <<active, container, suspects, verified, made, abandoned, deaths>>

\* The name of a container that runs is taken: it is discovered, or acquire raises.
Creates(t) ==
    /\ At(t, "evicted") \/ (At(t, "create") /\ (~Full \/ Tracked(warm) = {}))
    /\ \/ /\ made < MaxInfos /\ made' = made + 1
          /\ Looks(t, "starting", NewInfo(t, IF container[t] = 0 THEN made + 1 ELSE ByName))
          /\ container' = [container EXCEPT ![t] = IF @ = 0 THEN made + 1 ELSE @]
       \/ container[t] # 0 /\ Acquired(t) /\ UNCHANGED <<made, container>>
    /\ UNCHANGED <<active, warm, age, doomed, suspects, verified, abandoned, deaths>>

\* The container does not become ready, and acquire raises.
NotReady(t) ==
    /\ At(t, "starting")
    /\ doomed' = [doomed EXCEPT ![t] = {acquire[t].seen}]
    /\ Acquired(t)
    /\ UNCHANGED <<active, warm, age, container, suspects, verified, made, abandoned, deaths>>

\* acquire_async is cancelled while it waits for the container: what it has started is
\* neither registered nor destroyed.
AcquireCancelled(t) ==
    /\ At(t, "starting")
    /\ abandoned' = abandoned \cup ({Container(t)} \ {<<t, 0>>})
    /\ Acquired(t)
    /\ UNCHANGED <<active, warm, age, container, doomed, suspects, verified, made, deaths>>
-----------------------------------------------------------------------------
(* get, release and the idle checker *)

Use(t) ==
    /\ active[t] # None /\ Touch(t)
    /\ UNCHANGED <<active, warm, container, acquire, doomed, suspects, verified, made, abandoned, deaths>>

\* Mutant: a release forgets the sandbox.
ParkedNowhere(t) == warm[t]

Parked(t) == IF warm[t] = None THEN active[t] ELSE warm[t]

Release(t) ==
    /\ active[t] # None
    /\ active' = [active EXCEPT ![t] = None]
    /\ warm' = [warm EXCEPT ![t] = Parked(t)]
    /\ Touch(t)
    /\ UNCHANGED <<container, acquire, doomed, suspects, verified, made, abandoned, deaths>>

Stale(m) == {t \in Tracked(m) : age[t] = "stale"}

\* One pass of the checker begins: warm sandboxes leave the pool at once.
Snapshot ==
    /\ suspects = {} /\ verified = {} /\ doomed[Reaper] = {}
    /\ Stale(active) \cup Stale(warm) # {}
    /\ suspects' = Stale(active)
    /\ warm' = [t \in Threads |-> IF t \in Stale(warm) THEN None ELSE warm[t]]
    /\ age' = [t \in Threads |-> IF t \in Stale(warm) THEN "fresh" ELSE age[t]]
    /\ doomed' = [doomed EXCEPT ![Reaper] = {warm[t] : t \in Stale(warm)}]
    /\ UNCHANGED <<active, container, acquire, verified, made, abandoned, deaths>>

Verifies(t) ==
    /\ t \in suspects /\ verified = {}
    /\ suspects' = suspects \ {t}
    /\ verified' = IF t \in Stale(active) THEN {t} ELSE {}
    /\ UNCHANGED <<active, warm, age, container, acquire, doomed, made, abandoned, deaths>>

\* destroy, after the lock of the verification was released.
Reaps(t) ==
    /\ t \in verified
    /\ verified' = {}
    /\ Untrack(Reaper, t)
    /\ UNCHANGED <<container, acquire, suspects, made, abandoned, deaths>>

\* backend.destroy: the container itself, or whichever has its name.
Stops(info, t) == info.thread = t /\ info.box \in {ByName, container[t]}

\* A container that does not stop is logged; nobody knows of it any more.
Destroys(a, info) ==
    LET stopped == {t \in Threads : container[t] # 0 /\ Stops(info, t)} IN
    /\ info \in doomed[a]
    /\ doomed' = [doomed EXCEPT ![a] = @ \ {info}]
    /\ \/ /\ container' = [t \in Threads |-> IF t \in stopped THEN 0 ELSE container[t]]
          /\ UNCHANGED abandoned
       \/ /\ abandoned' = abandoned \cup {Container(t) : t \in stopped}
          /\ UNCHANGED container
    /\ UNCHANGED <<active, warm, age, acquire, suspects, verified, made, deaths>>

TimePasses(t) ==
    /\ age[t] = "fresh" /\ t \in Tracked(active) \cup Tracked(warm)
    /\ age' = [age EXCEPT ![t] = "stale"]
    /\ UNCHANGED <<active, warm, container, acquire, doomed, suspects, verified, made, abandoned, deaths>>

ContainerDies(t) ==
    /\ deaths < MaxDeaths /\ container[t] # 0
    /\ deaths' = deaths + 1
    /\ container' = [container EXCEPT ![t] = 0]
    /\ UNCHANGED <<active, warm, age, acquire, doomed, suspects, verified, abandoned, made>>
-----------------------------------------------------------------------------
AcquireStep(t) ==
    \/ Starts(t) \/ ReadsActive(t) \/ ReusesActive(t) \/ ReadsWarm(t) \/ Reclaims(t) \/ Drops(t)
    \/ Discovers(t) \/ Registers(t) \/ EvictsWarm(t) \/ Creates(t) \/ NotReady(t)
    \/ AcquireCancelled(t)

ReaperStep == Snapshot \/ \E t \in Threads : Verifies(t) \/ Reaps(t)

SandboxNext ==
    \/ \E t \in Threads : AcquireStep(t) \/ Use(t) \/ Release(t) \/ TimePasses(t) \/ ContainerDies(t)
    \/ ReaperStep
    \/ \E a \in Threads \cup {Reaper} : \E info \in doomed[a] : Destroys(a, info)

SandboxSpec == SandboxInit /\ [][SandboxNext]_sandboxVars
-----------------------------------------------------------------------------
AcquirePcs == {"idle", "reuse", "check", "reclaim", "recheck", "discover", "found", "create", "evicted", "starting"}

Mine(t) == {i \in Info : i.thread = t}

MapsOK ==
    /\ active \in [Threads -> Info \cup {None}] /\ warm \in [Threads -> Info \cup {None}]
    /\ \A t \in Threads : {active[t], warm[t]} \subseteq {None} \cup Mine(t)
    /\ \A t \in Threads : active[t] = None \/ warm[t] = None
    /\ age \in [Threads -> {"fresh", "stale"}]

AcquireOK == acquire \in [Threads -> [pc : AcquirePcs, seen : Info \cup {None}, locked : BOOLEAN]]

BackendOK ==
    /\ container \in [Threads -> 0..MaxInfos]
    /\ doomed \in [Threads \cup {Reaper} -> SUBSET Info]
    /\ suspects \subseteq Threads /\ verified \subseteq Threads
    /\ abandoned \subseteq Threads \X (1..MaxInfos)
    /\ made \in 0..MaxInfos /\ deaths \in 0..MaxDeaths

SandboxTypeOK == MapsOK /\ AcquireOK /\ BackendOK

\* What is known of the sandbox of t, and what is going to be destroyed.
Holders(t) ==
    ({active[t], warm[t]} \ {None})
      \cup (IF acquire[t].pc \in {"found", "starting"} THEN {acquire[t].seen} ELSE {})
      \cup UNION {doomed[a] : a \in Threads \cup {Reaper}}

\* No container is left that nobody will stop: each is tracked, about to be registered,
\* or about to be destroyed, except one that a cancelled acquisition or a failed stop has
\* left behind, until it is discovered again.
\* (aio_sandbox_provider.py 234-253, 560-640; local_backend.py 606-618.)
NoOrphanContainer ==
    \A t \in Threads : container[t] # 0 /\ Container(t) \notin abandoned =>
      \E info \in Holders(t) : Stops(info, t)

\* The idle checker destroys no sandbox that was used since it found it idle.
\* (aio_sandbox_provider.py 395-397.)
ReapedIsIdle ==
    [][\A t \in Threads : t \in verified /\ verified' = {} /\ active[t] # None => age[t] = "stale"]_sandboxVars
=============================================================================
