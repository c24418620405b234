------------------------- MODULE SandboxPool_proofs -------------------------
(***************************************************************************)
(* Proofs about SandboxPool, for every set of threads and every number of  *)
(* replicas, sandboxes and containers that die.                            *)
(***************************************************************************)
EXTENDS SandboxPool, TLAPS

PastReuse == {"reclaim", "recheck", "discover", "found", "create", "evicted", "starting"}
PastReclaim == {"discover", "found", "create", "evicted", "starting"}
SeenPcs == {"check", "recheck", "found", "starting"}

\* What an acquisition knows of its thread from the layers it is past: no other
\* acquisition of the thread can have tracked a sandbox, or started a container, meanwhile.
Layer(t) ==
    /\ acquire[t].pc \in SeenPcs => acquire[t].seen \in Mine(t)
    /\ acquire[t].pc = "check" => active[t] \in {None, acquire[t].seen}
    /\ acquire[t].pc \in PastReuse => active[t] = None
    /\ acquire[t].pc = "recheck" => warm[t] \in {None, acquire[t].seen}
    /\ acquire[t].pc \in PastReclaim => warm[t] = None
    /\ acquire[t].pc \in {"found", "starting"} =>
         container[t] = 0 \/ acquire[t].seen.box \in {ByName, container[t]}

Layers == \A t \in Threads : Layer(t)

SandboxInv == SandboxTypeOK /\ Layers /\ NoOrphanContainer

Agents == Threads \cup {Reaper}
-----------------------------------------------------------------------------
\* The empty entry of a map is nobody's sandbox.
LEMMA NoneIsNobody == None \notin Info /\ \A t \in Threads : None \notin Mine(t) /\ ~Stops(None, t)
BY SandboxAssumption DEF None, Info, Mine, Stops

\* Only containers that a former process has left run at the start, and all are warm.
LEMMA SandboxInvInit == SandboxInit => SandboxInv
<1>. SUFFICES ASSUME SandboxInit PROVE SandboxInv
  OBVIOUS
<1>1. made \in 0..MaxInfos /\ container \in [Threads -> 0..MaxInfos]
  BY SandboxAssumption DEF SandboxInit
<1>2. BackendOK
  BY <1>1, SandboxAssumption DEF SandboxInit, BackendOK
<1>3. AcquireOK
  BY DEF SandboxInit, AcquireOK, AcquirePcs, Idling
<1>4. \A t \in Threads : active[t] = None /\ warm[t] \in {None} \cup Mine(t)
  BY <1>1, SandboxAssumption DEF SandboxInit, Mine, Info, ByName
<1>5. active \in [Threads -> {None}] /\ age \in [Threads -> {"fresh"}]
  BY DEF SandboxInit
<1>6. warm = [t \in Threads |-> warm[t]]
  BY DEF SandboxInit
<1>7. MapsOK
  BY <1>4, <1>5, <1>6 DEF MapsOK, Mine
<1>8. Layers
  BY DEF SandboxInit, Layers, Layer, Idling, SeenPcs, PastReuse, PastReclaim
<1>9. NoOrphanContainer
  <2>. SUFFICES ASSUME NEW t \in Threads, container[t] # 0
                PROVE  \E info \in Holders(t) : Stops(info, t)
    BY DEF NoOrphanContainer
  <2>1. warm[t] = [thread |-> t, no |-> made, box |-> ByName]
    BY DEF SandboxInit
  <2>2. Stops(warm[t], t) /\ warm[t] # None
    BY <2>1, NoneIsNobody DEF Stops
  <2>. QED
    BY <2>2 DEF Holders
<1>. QED
  BY <1>2, <1>3, <1>7, <1>8, <1>9 DEF SandboxInv, SandboxTypeOK

\* An acquisition goes on: no other acquisition changes.
LEMMA GoesTo ==
    ASSUME AcquireOK, NEW t \in Threads, NEW pc \in AcquirePcs, AcquireGoes(t, pc)
    PROVE  /\ AcquireOK' /\ acquire'[t].pc = pc
           /\ \A u \in Threads \ {t} : acquire'[u] = acquire[u]
BY DEF AcquireOK, AcquireGoes

LEMMA LooksAt ==
    ASSUME AcquireOK, NEW t \in Threads, NEW pc \in AcquirePcs, NEW info \in Info \cup {None},
           Looks(t, pc, info)
    PROVE  /\ AcquireOK' /\ acquire'[t].pc = pc /\ acquire'[t].seen = info
           /\ \A u \in Threads \ {t} : acquire'[u] = acquire[u]
BY DEF AcquireOK, Looks

LEMMA EndsCall ==
    ASSUME AcquireOK, NEW t \in Threads, Acquired(t)
    PROVE  /\ AcquireOK' /\ acquire'[t].pc = "idle"
           /\ \A u \in Threads \ {t} : acquire'[u] = acquire[u]
<1>1. Idling \in [pc : AcquirePcs, seen : Info \cup {None}, locked : BOOLEAN]
  BY DEF Idling, AcquirePcs
<1>. QED
  BY <1>1 DEF AcquireOK, Acquired, Idling

LEMMA TriesAgain ==
    ASSUME AcquireOK, NEW t \in Threads, NextLayer(t)
    PROVE  /\ AcquireOK' /\ acquire'[t].pc \in {"discover", "reuse"}
           /\ \A u \in Threads \ {t} : acquire'[u] = acquire[u]
BY DEF AcquireOK, NextLayer, AcquirePcs

\* A container whose holders stay is held.
LEMMA HeldStays ==
    ASSUME NoOrphanContainer, NEW u \in Threads, container'[u] = container[u],
           abandoned \subseteq abandoned', Holders(u) \subseteq Holders(u)',
           container'[u] # 0, Container(u)' \notin abandoned'
    PROVE  \E info \in Holders(u)' : Stops(info, u)'
BY DEF NoOrphanContainer, Stops, Container

\* A holder is kept in a map, by the acquisition, or by who will destroy it.
LEMMA HoldersStay ==
    ASSUME NEW u \in Threads, {active[u], warm[u]} \ {None} \subseteq Holders(u)',
           acquire[u].pc \in {"found", "starting"} => acquire[u].seen \in Holders(u)',
           \A a \in Agents : doomed[a] \subseteq doomed'[a]
    PROVE  Holders(u) \subseteq Holders(u)'
BY DEF Holders, Agents

\* Sandboxes that leave the maps while an acquisition is under way change nothing of
\* what it knows.
LEMMA LayerStays ==
    ASSUME NEW u \in Threads, Layer(u), acquire'[u] = acquire[u],
           active'[u] \in {None, active[u]}, warm'[u] \in {None, warm[u]},
           container'[u] \in {0, container[u]}
    PROVE  Layer(u)'
BY DEF Layer, Mine

\* The activity of one thread.
LEMMA Touched ==
    ASSUME MapsOK, NEW t \in Threads, Touch(t) \/ UNCHANGED age
    PROVE  age' \in [Threads -> {"fresh", "stale"}]
BY DEF MapsOK, Touch

\* An acquisition that only looks keeps the invariant when it knows what it claims.
LEMMA OnlyLooks ==
    ASSUME SandboxInv, NEW t \in Threads, acquire[t].pc \notin {"found", "starting"},
           AcquireOK', \A u \in Threads \ {t} : acquire'[u] = acquire[u], Layer(t)',
           age' \in [Threads -> {"fresh", "stale"}], made' \in 0..MaxInfos,
           UNCHANGED <<active, warm, container, doomed, suspects, verified, abandoned, deaths>>
    PROVE  SandboxInv'
<1>1. MapsOK' /\ BackendOK'
  BY DEF SandboxInv, SandboxTypeOK, MapsOK, BackendOK, Mine
<1>2. Layers'
  BY LayerStays DEF SandboxInv, Layers
<1>3. \A u \in Threads : Holders(u) \subseteq Holders(u)'
  BY DEF Holders
<1>4. NoOrphanContainer'
  BY <1>3, HeldStays DEF SandboxInv, NoOrphanContainer
<1>. QED
  BY <1>1, <1>2, <1>4 DEF SandboxInv, SandboxTypeOK
-----------------------------------------------------------------------------
(* Acquisition *)

\* An acquisition starts, and reads the maps.
LEMMA ReadStep ==
    ASSUME SandboxInv, NEW t \in Threads, Starts(t) \/ ReadsActive(t) \/ ReadsWarm(t)
    PROVE  SandboxInv'
<1>. USE DEF SandboxInv, SandboxTypeOK
<1>1. /\ UNCHANGED <<active, warm, age, container, doomed, suspects, verified, made, abandoned, deaths>>
      /\ acquire[t].pc \in {"idle", "reuse", "reclaim"}
  BY DEF Starts, ReadsActive, ReadsWarm, OnlyAcquires, At
<1>2. age' \in [Threads -> {"fresh", "stale"}] /\ made' \in 0..MaxInfos
  BY <1>1 DEF MapsOK, BackendOK
<1>3. active[t] \in {None} \cup Mine(t) /\ warm[t] \in {None} \cup Mine(t)
  BY DEF MapsOK
<1>4. CASE Starts(t)
  <2>1. AcquireOK' /\ acquire'[t].pc = "reuse" /\ \A u \in Threads \ {t} : acquire'[u] = acquire[u]
    BY <1>4, GoesTo DEF Starts, AcquirePcs
  <2>2. Layer(t)'
    BY <2>1 DEF Layer, SeenPcs, PastReuse, PastReclaim
  <2>. QED
    BY <1>1, <1>2, <2>1, <2>2, OnlyLooks
<1>5. CASE ReadsActive(t)
  <2>1. /\ AcquireOK' /\ \A u \in Threads \ {t} : acquire'[u] = acquire[u]
        /\ \/ acquire'[t].pc = "reclaim" /\ active[t] = None
           \/ acquire'[t].pc = "check" /\ acquire'[t].seen = active[t] /\ active[t] # None
    BY <1>3, <1>5, GoesTo, LooksAt DEF ReadsActive, AcquirePcs, Mine
  <2>2. Layer(t)'
    BY <1>1, <1>3, <2>1 DEF Layer, Mine, SeenPcs, PastReuse, PastReclaim
  <2>. QED
    BY <1>1, <1>2, <2>1, <2>2, OnlyLooks
<1>6. CASE ReadsWarm(t)
  <2>1. /\ AcquireOK' /\ \A u \in Threads \ {t} : acquire'[u] = acquire[u]
        /\ \/ acquire'[t].pc \in {"discover", "reuse"} /\ warm[t] = None
           \/ acquire'[t].pc = "recheck" /\ acquire'[t].seen = warm[t] /\ warm[t] # None
    BY <1>3, <1>6, TriesAgain, LooksAt DEF ReadsWarm, AcquirePcs, Mine
  <2>2. active[t] = None
    BY <1>6 DEF ReadsWarm, At, Layers, Layer, PastReuse
  <2>3. Layer(t)'
    BY <1>1, <1>3, <2>1, <2>2 DEF Layer, Mine, SeenPcs, PastReuse, PastReclaim
  <2>. QED
    BY <1>1, <1>2, <2>1, <2>3, OnlyLooks
<1>. QED
  BY <1>4, <1>5, <1>6

\* The sandbox in use is used again, unless it has left the map meanwhile.
LEMMA ReuseStep ==
    ASSUME SandboxInv, NEW t \in Threads, ReusesActive(t)
    PROVE  SandboxInv'
<1>. USE DEF SandboxInv, SandboxTypeOK
<1>1. /\ UNCHANGED <<active, warm, container, doomed, suspects, verified, made, abandoned, deaths>>
      /\ acquire[t].pc = "check" /\ (Touch(t) \/ UNCHANGED age)
  BY DEF ReusesActive, At
<1>2. age' \in [Threads -> {"fresh", "stale"}] /\ made' \in 0..MaxInfos
  BY <1>1, Touched DEF BackendOK
<1>3. /\ AcquireOK' /\ \A u \in Threads \ {t} : acquire'[u] = acquire[u]
      /\ acquire'[t].pc = "idle" \/ (acquire'[t].pc = "reclaim" /\ active[t] = None)
  BY GoesTo, EndsCall DEF ReusesActive, AcquirePcs
<1>4. Layer(t)'
  BY <1>1, <1>3 DEF Layer, SeenPcs, PastReuse, PastReclaim
<1>. QED
  BY <1>1, <1>2, <1>3, <1>4, OnlyLooks

\* Discovery finds the container or not, and registers nothing yet.
LEMMA DiscoverStep ==
    ASSUME SandboxInv, NEW t \in Threads, Discovers(t)
    PROVE  SandboxInv'
<1>. USE DEF SandboxInv, SandboxTypeOK
<1>1. /\ UNCHANGED <<active, warm, age, container, doomed, suspects, verified, abandoned, deaths>>
      /\ acquire[t].pc = "discover"
  BY DEF Discovers, At
<1>2. CASE AcquireGoes(t, "create") /\ UNCHANGED made
  <2>1. AcquireOK' /\ acquire'[t].pc = "create" /\ \A u \in Threads \ {t} : acquire'[u] = acquire[u]
    BY <1>2, GoesTo DEF AcquirePcs
  <2>2. Layer(t)'
    BY <1>1, <2>1 DEF Layers, Layer, SeenPcs, PastReuse, PastReclaim
  <2>. QED
    BY <1>1, <1>2, <2>1, <2>2, OnlyLooks DEF MapsOK, BackendOK
<1>3. CASE made < MaxInfos /\ made' = made + 1 /\ Looks(t, "found", NewInfo(t, ByName))
  <2>1. made' \in 0..MaxInfos /\ NewInfo(t, ByName) \in Mine(t)
    BY <1>3, SandboxAssumption DEF BackendOK, NewInfo, Mine, Info, ByName
  <2>2. /\ AcquireOK' /\ acquire'[t].pc = "found" /\ acquire'[t].seen = NewInfo(t, ByName)
        /\ \A u \in Threads \ {t} : acquire'[u] = acquire[u]
    BY <1>3, <2>1, LooksAt DEF AcquirePcs, Mine
  <2>3. acquire'[t].seen \in Mine(t)
    BY <2>1, <2>2
  <2>4. Layer(t)'
    BY <1>1, <2>2, <2>3 DEF Layers, Layer, SeenPcs, PastReuse, PastReclaim, Mine, NewInfo
  <2>. QED
    BY <1>1, <2>1, <2>2, <2>4, OnlyLooks DEF MapsOK
<1>. QED
  BY <1>2, <1>3 DEF Discovers

\* A step that starts and stops no container need only keep the holders.
LEMMA HoldersSuffice ==
    ASSUME SandboxInv, MapsOK', AcquireOK', BackendOK', Layers', UNCHANGED container,
           abandoned \subseteq abandoned', \A u \in Threads : Holders(u) \subseteq Holders(u)'
    PROVE  SandboxInv'
<1>1. NoOrphanContainer'
  BY HeldStays DEF SandboxInv, NoOrphanContainer
<1>. QED
  BY <1>1 DEF SandboxInv, SandboxTypeOK

\* What was discovered or has become ready is tracked; nothing was tracked before.
LEMMA RegisterStep ==
    ASSUME SandboxInv, NEW t \in Threads, Registers(t)
    PROVE  SandboxInv'
<1>. USE DEF SandboxInv, SandboxTypeOK
<1>. DEFINE info == acquire[t].seen
<1>1. /\ acquire[t].pc \in {"found", "starting"} /\ active' = [active EXCEPT ![t] = info]
      /\ Touch(t) /\ Acquired(t) /\ abandoned' = abandoned \ {Container(t)}
      /\ UNCHANGED <<warm, container, doomed, suspects, verified, made, deaths>>
  BY DEF Registers, At, Track
<1>2. info \in Mine(t) /\ info # None /\ active[t] = None /\ warm[t] = None
  BY <1>1, NoneIsNobody DEF Layers, Layer, SeenPcs, PastReuse, PastReclaim
<1>3. MapsOK'
  <2>1. age' \in [Threads -> {"fresh", "stale"}]
    BY <1>1, Touched
  <2>. QED
    BY <1>1, <1>2, <2>1 DEF MapsOK, Mine
<1>4. BackendOK'
  BY <1>1 DEF BackendOK
<1>5. AcquireOK' /\ acquire'[t].pc = "idle" /\ \A u \in Threads \ {t} : acquire'[u] = acquire[u]
  BY <1>1, EndsCall
<1>6. /\ active'[t] = info
      /\ \A u \in Threads \ {t} : active'[u] = active[u] /\ warm'[u] = warm[u]
  BY <1>1 DEF MapsOK
<1>7. Layers'
  BY <1>1, <1>5, <1>6, LayerStays DEF Layers, Layer, SeenPcs, PastReuse, PastReclaim
<1>8. ASSUME NEW u \in Threads PROVE Holders(u) \subseteq Holders(u)'
  BY <1>1, <1>2, <1>5, <1>6, HoldersStay DEF Holders
<1>9. PICK i \in Mine(t) : i = info
  BY <1>2
<1>10. container[t] # 0 => Stops(i, t)'
  BY <1>1, <1>9 DEF Layers, Layer, Stops, Mine
<1>11. NoOrphanContainer'
  <2>. SUFFICES ASSUME NEW u \in Threads, container'[u] # 0, Container(u)' \notin abandoned'
                PROVE  \E h \in Holders(u)' : Stops(h, u)'
    BY DEF NoOrphanContainer
  <2>1. CASE u = t
    BY <1>1, <1>2, <1>6, <1>9, <1>10, <2>1 DEF Holders
  <2>2. CASE u # t
    BY <1>1, <1>8, <2>2 DEF NoOrphanContainer, Stops, Container
  <2>. QED
    BY <2>1, <2>2
<1>. QED
  BY <1>3, <1>4, <1>5, <1>7, <1>11

\* A warm sandbox becomes the active one; it is in one map all the time.
LEMMA ReclaimStep ==
    ASSUME SandboxInv, NEW t \in Threads, Reclaims(t)
    PROVE  SandboxInv'
<1>. USE DEF SandboxInv, SandboxTypeOK
<1>1. /\ acquire[t].pc = "recheck" /\ active[t] = None
      /\ UNCHANGED <<container, doomed, suspects, verified, made, abandoned, deaths>>
  BY DEF Reclaims, At, Layers, Layer, PastReuse
<1>2. CASE warm[t] = None
  <2>1. NextLayer(t) /\ UNCHANGED <<active, warm, age>>
    BY <1>2 DEF Reclaims
  <2>2. /\ AcquireOK' /\ acquire'[t].pc \in {"discover", "reuse"}
        /\ \A u \in Threads \ {t} : acquire'[u] = acquire[u]
    BY <2>1, TriesAgain
  <2>3. Layer(t)'
    BY <1>1, <1>2, <2>1, <2>2 DEF Layer, SeenPcs, PastReuse, PastReclaim
  <2>. QED
    BY <1>1, <2>1, <2>2, <2>3, OnlyLooks DEF MapsOK, BackendOK
<1>3. CASE warm[t] # None
  <2>1. /\ active' = [active EXCEPT ![t] = warm[t]] /\ warm' = [warm EXCEPT ![t] = None]
        /\ Touch(t) /\ Acquired(t)
    BY <1>3 DEF Reclaims
  <2>2. AcquireOK' /\ acquire'[t].pc = "idle" /\ \A u \in Threads \ {t} : acquire'[u] = acquire[u]
    BY <2>1, EndsCall
  <2>3. MapsOK'
    <3>1. age' \in [Threads -> {"fresh", "stale"}]
      BY <2>1, Touched
    <3>2. active' \in [Threads -> Info \cup {None}] /\ warm' \in [Threads -> Info \cup {None}]
      BY <2>1 DEF MapsOK
    <3>3. active'[t] = warm[t] /\ warm'[t] = None
      BY <2>1 DEF MapsOK
    <3>4. \A u \in Threads \ {t} : active'[u] = active[u] /\ warm'[u] = warm[u]
      BY <2>1 DEF MapsOK
    <3>. QED
      BY <3>1, <3>2, <3>3, <3>4 DEF MapsOK, Mine
  <2>4. BackendOK'
    BY <1>1 DEF BackendOK
  <2>5. /\ active'[t] = warm[t]
        /\ \A u \in Threads \ {t} : active'[u] = active[u] /\ warm'[u] = warm[u]
    BY <2>1 DEF MapsOK
  <2>6. Layers'
    <3>1. Layer(t)'
      BY <2>2 DEF Layer, SeenPcs, PastReuse, PastReclaim
    <3>2. \A u \in Threads \ {t} : Layer(u)'
      BY <1>1, <2>2, <2>5, LayerStays DEF Layers
    <3>. QED
      BY <3>1, <3>2 DEF Layers
  <2>7. ASSUME NEW u \in Threads PROVE Holders(u) \subseteq Holders(u)'
    BY <1>1, <2>2, <2>5, HoldersStay DEF Holders
  <2>. QED
    BY <1>1, <2>2, <2>3, <2>4, <2>6, <2>7, HoldersSuffice
<1>. QED
  BY <1>2, <1>3

\* An evicted sandbox is in the hands of who evicted it.
LEMMA EvictStep ==
    ASSUME SandboxInv, NEW t \in Threads, EvictsWarm(t)
    PROVE  SandboxInv'
<1>. USE DEF SandboxInv, SandboxTypeOK
<1>1. PICK v \in Tracked(warm) :
         /\ warm' = [warm EXCEPT ![v] = None] /\ doomed' = [doomed EXCEPT ![t] = {warm[v]}] /\ Touch(v)
  BY DEF EvictsWarm
<1>2. /\ acquire[t].pc = "create" /\ doomed[t] = {} /\ AcquireGoes(t, "evicted")
      /\ UNCHANGED <<active, container, suspects, verified, made, abandoned, deaths>>
  BY DEF EvictsWarm, At
<1>3. v \in Threads /\ warm[v] # None /\ warm[v] \in Info
  BY DEF Tracked, MapsOK, Mine
<1>4. MapsOK'
  <2>1. age' \in [Threads -> {"fresh", "stale"}]
    BY <1>1, <1>3, Touched
  <2>. QED
    BY <1>1, <1>2, <1>3, <2>1 DEF MapsOK, Mine
<1>5. BackendOK'
  BY <1>1, <1>2, <1>3 DEF BackendOK
<1>6. AcquireOK' /\ acquire'[t].pc = "evicted" /\ \A u \in Threads \ {t} : acquire'[u] = acquire[u]
  BY <1>2, GoesTo DEF AcquirePcs
<1>7. \A u \in Threads : warm'[u] \in {None, warm[u]}
  BY <1>1, <1>3 DEF MapsOK
<1>8. Layer(t)'
  BY <1>2, <1>6, <1>7 DEF Layers, Layer, SeenPcs, PastReuse, PastReclaim
<1>9. Layers'
  BY <1>2, <1>6, <1>7, <1>8, LayerStays DEF Layers
<1>10. doomed'[t] = {warm[v]} /\ \A a \in Agents : doomed[a] \subseteq doomed'[a]
  BY <1>1, <1>2 DEF BackendOK, Agents
<1>11. ASSUME NEW u \in Threads PROVE Holders(u) \subseteq Holders(u)'
  <2>1. {active[u], warm[u]} \ {None} \subseteq Holders(u)'
    BY <1>1, <1>2, <1>3, <1>10 DEF MapsOK, Holders
  <2>2. acquire[u].pc \in {"found", "starting"} => acquire[u].seen \in Holders(u)'
    BY <1>2, <1>6 DEF Holders
  <2>. QED
    BY <1>10, <2>1, <2>2, HoldersStay
<1>. QED
  BY <1>2, <1>4, <1>5, <1>6, <1>9, <1>11, HoldersSuffice

\* What leaves both maps is in the hands of who took it out.
LEMMA UntrackFacts ==
    ASSUME MapsOK, BackendOK, NEW a \in Agents, NEW t \in Threads, Untrack(a, t)
    PROVE  /\ MapsOK' /\ doomed' \in [Agents -> SUBSET Info]
           /\ {active[t], warm[t]} \ {None} \subseteq doomed'[a]
           /\ \A b \in Agents : doomed[b] \subseteq doomed'[b]
           /\ \A u \in Threads \ {t} : active'[u] = active[u] /\ warm'[u] = warm[u]
           /\ active'[t] = None /\ warm'[t] = None
<1>1. age' \in [Threads -> {"fresh", "stale"}]
  BY Touched DEF Untrack
<1>2. /\ active' = [active EXCEPT ![t] = None] /\ warm' = [warm EXCEPT ![t] = None]
      /\ doomed' = [doomed EXCEPT ![a] = @ \cup Removed(t)]
  BY DEF Untrack
<1>3. MapsOK'
  BY <1>1, <1>2 DEF MapsOK, Mine
<1>4. Removed(t) = {active[t], warm[t]} \ {None} /\ Removed(t) \subseteq Info
  BY DEF Removed, MapsOK, Mine
<1>5. doomed' \in [Agents -> SUBSET Info] /\ \A b \in Agents : doomed[b] \subseteq doomed'[b]
  BY <1>2, <1>4 DEF BackendOK, Agents
<1>6. Removed(t) \subseteq doomed'[a]
  BY <1>2 DEF BackendOK, Agents
<1>. QED
  BY <1>2, <1>3, <1>4, <1>5, <1>6 DEF MapsOK

\* A thread whose container is gone loses its entries, if they are the ones checked.
LEMMA DropStep ==
    ASSUME SandboxInv, NEW t \in Threads, Drops(t)
    PROVE  SandboxInv'
<1>. USE DEF SandboxInv, SandboxTypeOK
<1>1. /\ UNCHANGED <<container, suspects, verified, made, abandoned, deaths>>
      /\ \/ acquire[t].pc = "check" /\ AcquireGoes(t, "reclaim")
         \/ acquire[t].pc = "recheck" /\ NextLayer(t)
  BY DEF Drops, At
<1>2. /\ AcquireOK' /\ \A u \in Threads \ {t} : acquire'[u] = acquire[u]
      /\ \/ acquire[t].pc = "check" /\ acquire'[t].pc = "reclaim"
         \/ acquire[t].pc = "recheck" /\ acquire'[t].pc \in {"discover", "reuse"}
  BY <1>1, GoesTo, TriesAgain DEF AcquirePcs
<1>3. CASE StillChecked(t)
  <2>1. Untrack(t, t)
    BY <1>3 DEF Drops
  <2>2. /\ MapsOK' /\ doomed' \in [Agents -> SUBSET Info]
        /\ {active[t], warm[t]} \ {None} \subseteq doomed'[t]
        /\ \A b \in Agents : doomed[b] \subseteq doomed'[b]
        /\ \A u \in Threads \ {t} : active'[u] = active[u] /\ warm'[u] = warm[u]
        /\ active'[t] = None /\ warm'[t] = None
    BY <2>1, UntrackFacts DEF Agents
  <2>3. BackendOK'
    BY <1>1, <2>2 DEF BackendOK, Agents
  <2>4. Layers'
    BY <1>1, <1>2, <2>2, LayerStays DEF Layers, Layer, SeenPcs, PastReuse, PastReclaim
  <2>5. ASSUME NEW u \in Threads PROVE Holders(u) \subseteq Holders(u)'
    <3>1. {active[u], warm[u]} \ {None} \subseteq Holders(u)'
      BY <2>2 DEF Holders
    <3>2. acquire[u].pc \in {"found", "starting"} => acquire[u].seen \in Holders(u)'
      BY <1>2 DEF Holders
    <3>. QED
      BY <2>2, <3>1, <3>2, HoldersStay
  <2>. QED
    BY <1>1, <1>2, <2>2, <2>3, <2>4, <2>5, HoldersSuffice
<1>4. CASE ~StillChecked(t)
  <2>1. UNCHANGED <<active, warm, doomed, age>>
    BY <1>4 DEF Drops
  <2>2. Layer(t)'
    BY <1>1, <1>2, <1>4, <2>1 DEF StillChecked, Layers, Layer, SeenPcs, PastReuse, PastReclaim
  <2>. QED
    BY <1>1, <1>2, <2>1, <2>2, OnlyLooks DEF MapsOK, BackendOK
<1>. QED
  BY <1>3, <1>4

\* A container is started under the name, or the one that has it is found.
LEMMA CreateStep ==
    ASSUME SandboxInv, NEW t \in Threads, Creates(t)
    PROVE  SandboxInv'
<1>. USE DEF SandboxInv, SandboxTypeOK
<1>. DEFINE box == IF container[t] = 0 THEN made + 1 ELSE ByName
<1>1. /\ acquire[t].pc \in {"create", "evicted"}
      /\ UNCHANGED <<active, warm, age, doomed, suspects, verified, abandoned, deaths>>
  BY DEF Creates, At
<1>2. active[t] = None /\ warm[t] = None
  BY <1>1 DEF Layers, Layer, PastReuse, PastReclaim
<1>3. CASE /\ made < MaxInfos /\ made' = made + 1 /\ Looks(t, "starting", NewInfo(t, box))
           /\ container' = [container EXCEPT ![t] = IF @ = 0 THEN made + 1 ELSE @]
  <2>1. made' \in 0..MaxInfos /\ NewInfo(t, box) \in Mine(t)
    BY <1>3, SandboxAssumption DEF BackendOK, NewInfo, Mine, Info, ByName
  <2>2. /\ AcquireOK' /\ acquire'[t].pc = "starting" /\ acquire'[t].seen = NewInfo(t, box)
        /\ \A u \in Threads \ {t} : acquire'[u] = acquire[u]
    BY <1>3, <2>1, LooksAt DEF AcquirePcs, Mine
  <2>3. acquire'[t].seen \in Mine(t)
    BY <2>1, <2>2
  <2>4. Layer(t)'
    <3>1. container'[t] = IF container[t] = 0 THEN made + 1 ELSE container[t]
      BY <1>3 DEF BackendOK
    <3>2. acquire'[t].seen.box = box
      BY <2>2 DEF NewInfo
    <3>. QED
      BY <1>1, <1>2, <2>2, <2>3, <3>1, <3>2 DEF Layer, SeenPcs, PastReuse, PastReclaim, Mine
  <2>5. Layers'
    <3>1. \A u \in Threads \ {t} : container'[u] = container[u]
      BY <1>3 DEF BackendOK
    <3>. QED
      BY <1>1, <2>2, <2>4, <3>1, LayerStays DEF Layers
  <2>6. container' \in [Threads -> 0..MaxInfos]
    BY <1>3, SandboxAssumption DEF BackendOK
  <2>7. MapsOK' /\ BackendOK'
    BY <1>1, <2>1, <2>6 DEF MapsOK, BackendOK, Mine
  <2>8. PICK h \in Mine(t) : h = NewInfo(t, box)
    BY <2>1
  <2>9. \E info \in Holders(t)' : Stops(info, t)'
    <3>1. h \in Holders(t)'
      BY <2>2, <2>8 DEF Holders
    <3>2. h.thread = t /\ h.box = box
      BY <2>8 DEF NewInfo
    <3>3. container'[t] = IF container[t] = 0 THEN made + 1 ELSE container[t]
      BY <1>3 DEF BackendOK
    <3>4. Stops(h, t)'
      BY <3>2, <3>3 DEF Stops
    <3>. QED
      BY <3>1, <3>4
  <2>10. ASSUME NEW u \in Threads \ {t} PROVE container'[u] = container[u] /\ Holders(u) \subseteq Holders(u)'
    BY <1>1, <1>3, <2>2 DEF BackendOK, Holders
  <2>11. NoOrphanContainer'
    BY <1>1, <2>9, <2>10, HeldStays DEF NoOrphanContainer
  <2>. QED
    BY <2>2, <2>5, <2>7, <2>11
<1>4. CASE Acquired(t) /\ UNCHANGED <<made, container>>
  <2>1. AcquireOK' /\ acquire'[t].pc = "idle" /\ \A u \in Threads \ {t} : acquire'[u] = acquire[u]
    BY <1>4, EndsCall
  <2>2. Layer(t)'
    BY <2>1 DEF Layer, SeenPcs, PastReuse, PastReclaim
  <2>. QED
    BY <1>1, <1>4, <2>1, <2>2, OnlyLooks DEF MapsOK, BackendOK
<1>. QED
  BY <1>3, <1>4 DEF Creates

\* A container that is not ready is destroyed by its creator.
LEMMA NotReadyStep ==
    ASSUME SandboxInv, NEW t \in Threads, NotReady(t)
    PROVE  SandboxInv'
<1>. USE DEF SandboxInv, SandboxTypeOK
<1>1. /\ acquire[t].pc = "starting" /\ doomed[t] = {} /\ doomed' = [doomed EXCEPT ![t] = {acquire[t].seen}]
      /\ Acquired(t) /\ UNCHANGED <<active, warm, age, container, suspects, verified, made, abandoned, deaths>>
  BY DEF NotReady, At
<1>2. acquire[t].seen \in Info
  BY <1>1 DEF Layers, Layer, SeenPcs, Mine
<1>3. AcquireOK' /\ acquire'[t].pc = "idle" /\ \A u \in Threads \ {t} : acquire'[u] = acquire[u]
  BY <1>1, EndsCall
<1>4. MapsOK' /\ BackendOK'
  BY <1>1, <1>2 DEF MapsOK, BackendOK, Mine
<1>5. Layers'
  BY <1>1, <1>3, LayerStays DEF Layers, Layer, SeenPcs, PastReuse, PastReclaim
<1>6. doomed'[t] = {acquire[t].seen} /\ \A a \in Agents : doomed[a] \subseteq doomed'[a]
  BY <1>1 DEF BackendOK, Agents
<1>7. ASSUME NEW u \in Threads PROVE Holders(u) \subseteq Holders(u)'
  <2>1. {active[u], warm[u]} \ {None} \subseteq Holders(u)'
    BY <1>1 DEF Holders
  <2>2. acquire[u].pc \in {"found", "starting"} => acquire[u].seen \in Holders(u)'
    BY <1>3, <1>6 DEF Holders
  <2>. QED
    BY <1>6, <2>1, <2>2, HoldersStay
<1>. QED
  BY <1>1, <1>3, <1>4, <1>5, <1>7, HoldersSuffice

\* A cancelled acquisition leaves its container behind, and that one only.
LEMMA CancelStep ==
    ASSUME SandboxInv, NEW t \in Threads, AcquireCancelled(t)
    PROVE  SandboxInv'
<1>. USE DEF SandboxInv, SandboxTypeOK
<1>1. /\ acquire[t].pc = "starting" /\ abandoned' = abandoned \cup ({Container(t)} \ {<<t, 0>>}) /\ Acquired(t)
      /\ UNCHANGED <<active, warm, age, container, doomed, suspects, verified, made, deaths>>
  BY DEF AcquireCancelled, At
<1>2. AcquireOK' /\ acquire'[t].pc = "idle" /\ \A u \in Threads \ {t} : acquire'[u] = acquire[u]
  BY <1>1, EndsCall
<1>3. MapsOK' /\ BackendOK'
  <2>1. abandoned' \subseteq Threads \X (1..MaxInfos)
    <3>1. container[t] \in 0..MaxInfos
      BY DEF BackendOK
    <3>2. {Container(t)} \ {<<t, 0>>} \subseteq Threads \X (1..MaxInfos)
      BY <3>1 DEF Container
    <3>. QED
      BY <1>1, <3>2 DEF BackendOK
  <2>. QED
    BY <1>1, <2>1 DEF MapsOK, BackendOK, Mine
<1>4. Layers'
  BY <1>1, <1>2, LayerStays DEF Layers, Layer, SeenPcs, PastReuse, PastReclaim
<1>5. \A u \in Threads \ {t} : Holders(u) \subseteq Holders(u)'
  BY <1>1, <1>2 DEF Holders
<1>6. container[t] = 0 \/ Container(t)' \in abandoned'
  BY <1>1 DEF Container
<1>7. NoOrphanContainer'
  BY <1>1, <1>5, <1>6, HeldStays DEF NoOrphanContainer
<1>. QED
  BY <1>2, <1>3, <1>4, <1>7
-----------------------------------------------------------------------------
(* get, release, the idle checker and the backend *)

\* Steps that change neither maps nor acquisitions nor containers.
LEMMA QuietStep ==
    ASSUME SandboxInv, NEW t \in Threads, Use(t) \/ TimePasses(t) \/ Verifies(t)
    PROVE  SandboxInv'
<1>. USE DEF SandboxInv, SandboxTypeOK
<1>1. UNCHANGED <<active, warm, container, acquire, doomed, made, abandoned, deaths>>
  BY DEF Use, TimePasses, Verifies
<1>2. age' \in [Threads -> {"fresh", "stale"}] /\ suspects' \subseteq Threads /\ verified' \subseteq Threads
  BY Touched DEF Use, TimePasses, Verifies, MapsOK, BackendOK
<1>3. MapsOK' /\ BackendOK' /\ AcquireOK'
  BY <1>1, <1>2 DEF MapsOK, BackendOK, AcquireOK, Mine
<1>4. Layers'
  BY <1>1, LayerStays DEF Layers
<1>5. \A u \in Threads : Holders(u) \subseteq Holders(u)'
  BY <1>1 DEF Holders
<1>. QED
  BY <1>1, <1>3, <1>4, <1>5, HoldersSuffice

\* A released sandbox goes from one map to the other.
LEMMA ReleaseStep ==
    ASSUME SandboxInv, NEW t \in Threads, Release(t)
    PROVE  SandboxInv'
<1>. USE DEF SandboxInv, SandboxTypeOK
<1>1. /\ active[t] # None /\ active' = [active EXCEPT ![t] = None]
      /\ warm' = [warm EXCEPT ![t] = Parked(t)] /\ Touch(t)
      /\ UNCHANGED <<container, acquire, doomed, suspects, verified, made, abandoned, deaths>>
  BY DEF Release
<1>2. warm[t] = None /\ Parked(t) = active[t]
  BY <1>1 DEF MapsOK, Parked
<1>3. MapsOK'
  <2>1. age' \in [Threads -> {"fresh", "stale"}]
    BY <1>1, Touched
  <2>. QED
    <3>1. warm' = [warm EXCEPT ![t] = active[t]]
      BY <1>1, <1>2
    <3>2. active' \in [Threads -> Info \cup {None}] /\ warm' \in [Threads -> Info \cup {None}]
      BY <1>1, <3>1 DEF MapsOK
    <3>3. ASSUME NEW u \in Threads
          PROVE  /\ {active'[u], warm'[u]} \subseteq {None} \cup Mine(u)
                 /\ active'[u] = None \/ warm'[u] = None
      BY <1>1, <3>1 DEF MapsOK
    <3>. QED
      BY <2>1, <3>2, <3>3 DEF MapsOK, Mine
<1>4. BackendOK' /\ AcquireOK'
  BY <1>1 DEF BackendOK, AcquireOK
<1>5. /\ active'[t] = None /\ warm'[t] = active[t]
      /\ \A u \in Threads \ {t} : active'[u] = active[u] /\ warm'[u] = warm[u]
  BY <1>1, <1>2 DEF MapsOK
<1>6. Layer(t)'
  BY <1>1, <1>5 DEF Layers, Layer, Mine, SeenPcs, PastReuse, PastReclaim
<1>7. Layers'
  BY <1>1, <1>5, <1>6, LayerStays DEF Layers
<1>8. ASSUME NEW u \in Threads PROVE Holders(u) \subseteq Holders(u)'
  BY <1>1, <1>2, <1>5 DEF Holders
<1>. QED
  BY <1>1, <1>3, <1>4, <1>7, <1>8, HoldersSuffice

\* The warm sandboxes that were idle are in the hands of the checker.
LEMMA SnapshotStep ==
    ASSUME SandboxInv, Snapshot
    PROVE  SandboxInv'
<1>. USE DEF SandboxInv, SandboxTypeOK
<1>1. /\ doomed[Reaper] = {} /\ doomed' = [doomed EXCEPT ![Reaper] = {warm[t] : t \in Stale(warm)}]
      /\ warm' = [t \in Threads |-> IF t \in Stale(warm) THEN None ELSE warm[t]]
      /\ age' = [t \in Threads |-> IF t \in Stale(warm) THEN "fresh" ELSE age[t]]
      /\ suspects' = Stale(active)
      /\ UNCHANGED <<active, container, acquire, verified, made, abandoned, deaths>>
  BY DEF Snapshot
<1>2. \A t \in Stale(warm) : t \in Threads /\ warm[t] \in Info
  BY DEF Stale, Tracked, MapsOK
<1>3. MapsOK'
  BY <1>1 DEF MapsOK, Mine
<1>4. Stale(active) \subseteq Threads
  BY DEF Stale, Tracked
<1>5. BackendOK' /\ AcquireOK'
  BY <1>1, <1>2, <1>4 DEF BackendOK, AcquireOK
<1>6. Layers'
  BY <1>1, LayerStays DEF Layers
<1>7. doomed'[Reaper] = {warm[t] : t \in Stale(warm)} /\ \A a \in Agents : doomed[a] \subseteq doomed'[a]
  BY <1>1 DEF BackendOK, Agents
<1>8. ASSUME NEW u \in Threads PROVE Holders(u) \subseteq Holders(u)'
  <2>1. {active[u], warm[u]} \ {None} \subseteq Holders(u)'
    <3>1. CASE u \in Stale(warm)
      BY <1>1, <1>7, <3>1 DEF Holders
    <3>2. CASE u \notin Stale(warm)
      BY <1>1, <3>2 DEF Holders
    <3>. QED
      BY <3>1, <3>2
  <2>2. acquire[u].pc \in {"found", "starting"} => acquire[u].seen \in Holders(u)'
    BY <1>1 DEF Holders
  <2>. QED
    BY <1>7, <2>1, <2>2, HoldersStay
<1>. QED
  BY <1>1, <1>3, <1>5, <1>6, <1>8, HoldersSuffice

\* The checker takes out what it has verified.
LEMMA ReapStep ==
    ASSUME SandboxInv, NEW t \in Threads, Reaps(t)
    PROVE  SandboxInv'
<1>. USE DEF SandboxInv, SandboxTypeOK
<1>1. Untrack(Reaper, t) /\ verified' = {} /\ UNCHANGED <<container, acquire, suspects, made, abandoned, deaths>>
  BY DEF Reaps
<1>2. /\ MapsOK' /\ doomed' \in [Agents -> SUBSET Info]
      /\ {active[t], warm[t]} \ {None} \subseteq doomed'[Reaper]
      /\ \A b \in Agents : doomed[b] \subseteq doomed'[b]
      /\ \A u \in Threads \ {t} : active'[u] = active[u] /\ warm'[u] = warm[u]
      /\ active'[t] = None /\ warm'[t] = None
  BY <1>1, UntrackFacts DEF Agents
<1>3. BackendOK' /\ AcquireOK'
  BY <1>1, <1>2 DEF BackendOK, AcquireOK, Agents
<1>4. Layers'
  BY <1>1, <1>2, LayerStays DEF Layers
<1>5. ASSUME NEW u \in Threads PROVE Holders(u) \subseteq Holders(u)'
  <2>1. {active[u], warm[u]} \ {None} \subseteq Holders(u)'
    BY <1>2 DEF Holders
  <2>2. acquire[u].pc \in {"found", "starting"} => acquire[u].seen \in Holders(u)'
    BY <1>1 DEF Holders
  <2>. QED
    BY <1>2, <2>1, <2>2, HoldersStay
<1>. QED
  BY <1>1, <1>2, <1>3, <1>4, <1>5, HoldersSuffice

\* A container dies; nothing is left to hold.
LEMMA DeathStep ==
    ASSUME SandboxInv, NEW t \in Threads, ContainerDies(t)
    PROVE  SandboxInv'
<1>. USE DEF SandboxInv, SandboxTypeOK
<1>1. /\ container' = [container EXCEPT ![t] = 0] /\ deaths' \in 0..MaxDeaths
      /\ UNCHANGED <<active, warm, age, acquire, doomed, suspects, verified, abandoned, made>>
  BY SandboxAssumption DEF ContainerDies, BackendOK
<1>2. MapsOK' /\ BackendOK' /\ AcquireOK'
  BY <1>1, SandboxAssumption DEF MapsOK, BackendOK, AcquireOK, Mine
<1>3. Layers'
  BY <1>1, LayerStays DEF Layers
<1>4. \A u \in Threads : Holders(u) \subseteq Holders(u)'
  BY <1>1 DEF Holders
<1>5. container'[t] = 0 /\ \A u \in Threads \ {t} : container'[u] = container[u]
  BY <1>1 DEF BackendOK
<1>6. NoOrphanContainer'
  BY <1>1, <1>4, <1>5, HeldStays DEF NoOrphanContainer
<1>. QED
  BY <1>2, <1>3, <1>6

\* What is destroyed stops the container it holds or leaves it behind.
LEMMA DestroyStep ==
    ASSUME SandboxInv, NEW a \in Agents, NEW info \in doomed[a], Destroys(a, info)
    PROVE  SandboxInv'
<1>. USE DEF SandboxInv, SandboxTypeOK
<1>1. /\ doomed' = [doomed EXCEPT ![a] = @ \ {info}]
      /\ UNCHANGED <<active, warm, age, acquire, suspects, verified, made, deaths>>
      /\ abandoned \subseteq abandoned'
  BY DEF Destroys
<1>2. ASSUME NEW u \in Threads
      PROVE  \/ Stops(info, u) /\ container'[u] = 0
             \/ container'[u] = container[u] /\ (container[u] = 0 \/ Container(u) \in abandoned')
             \/ ~Stops(info, u) /\ container'[u] = container[u]
  BY DEF Destroys
<1>3. /\ doomed' \in [Agents -> SUBSET Info] /\ container' \in [Threads -> 0..MaxInfos]
      /\ abandoned' \subseteq Threads \X (1..MaxInfos)
  <2>1. doomed' \in [Agents -> SUBSET Info]
    BY <1>1 DEF BackendOK, Agents
  <2>2. container' \in [Threads -> 0..MaxInfos]
    BY SandboxAssumption DEF Destroys, BackendOK
  <2>3. {Container(t) : t \in {u \in Threads : container[u] # 0 /\ Stops(info, u)}}
          \subseteq Threads \X (1..MaxInfos)
    BY DEF BackendOK, Container
  <2>. QED
    BY <2>1, <2>2, <2>3 DEF Destroys, BackendOK
<1>4. MapsOK' /\ BackendOK' /\ AcquireOK'
  BY <1>1, <1>3 DEF MapsOK, BackendOK, AcquireOK, Mine, Agents
<1>5. Layers'
  BY <1>1, <1>2, LayerStays DEF Layers
<1>6. NoOrphanContainer'
  <2>. SUFFICES ASSUME NEW u \in Threads, container'[u] # 0, Container(u)' \notin abandoned'
                PROVE  \E h \in Holders(u)' : Stops(h, u)'
    BY DEF NoOrphanContainer
  <2>1. ~Stops(info, u) /\ container'[u] = container[u]
    BY <1>2 DEF Container
  <2>2. PICK h \in Holders(u) : Stops(h, u)
    BY <1>1, <2>1 DEF NoOrphanContainer, Container
  <2>3. h # info /\ Stops(h, u)'
    BY <2>1, <2>2 DEF Stops
  <2>4. \A b \in Agents : doomed[b] \ {info} \subseteq doomed'[b]
    BY <1>1 DEF BackendOK, Agents
  <2>5. h \in Holders(u)'
    BY <1>1, <2>2, <2>3, <2>4 DEF Holders, Agents
  <2>. QED
    BY <2>3, <2>5
<1>. QED
  BY <1>4, <1>5, <1>6

\* The invariant is inductive.
LEMMA SandboxInvStep == SandboxInv /\ [SandboxNext]_sandboxVars => SandboxInv'
<1>1. ASSUME SandboxInv, NEW t \in Threads, AcquireStep(t) PROVE SandboxInv'
  BY <1>1, ReadStep, ReuseStep, ReclaimStep, DropStep, DiscoverStep, RegisterStep, EvictStep, CreateStep,
     NotReadyStep, CancelStep DEF AcquireStep
<1>2. ASSUME SandboxInv, NEW t \in Threads, Use(t) \/ Release(t) \/ TimePasses(t) \/ ContainerDies(t)
      PROVE  SandboxInv'
  BY <1>2, QuietStep, ReleaseStep, DeathStep
<1>3. ASSUME SandboxInv, ReaperStep PROVE SandboxInv'
  BY <1>3, SnapshotStep, QuietStep, ReapStep DEF ReaperStep
<1>4. ASSUME SandboxInv, NEW a \in Agents, NEW info \in doomed[a], Destroys(a, info) PROVE SandboxInv'
  BY <1>4, DestroyStep
<1>5. ASSUME SandboxInv, UNCHANGED sandboxVars PROVE SandboxInv'
  <2>1. UNCHANGED <<active, warm, age, container, acquire, doomed, suspects, verified, abandoned, made, deaths>>
    BY <1>5 DEF sandboxVars
  <2>2. MapsOK' /\ BackendOK' /\ AcquireOK'
    BY <1>5, <2>1 DEF SandboxInv, SandboxTypeOK, MapsOK, BackendOK, AcquireOK, Mine
  <2>3. Layers'
    BY <1>5, <2>1, LayerStays DEF SandboxInv, Layers
  <2>4. \A u \in Threads : Holders(u) \subseteq Holders(u)'
    BY <2>1 DEF Holders
  <2>. QED
    BY <1>5, <2>1, <2>2, <2>3, <2>4, HoldersSuffice
<1>. QED
  BY <1>1, <1>2, <1>3, <1>4, <1>5 DEF SandboxNext, Agents

LEMMA SandboxInvAlways == SandboxSpec => []SandboxInv
BY SandboxInvInit, SandboxInvStep, PTL DEF SandboxSpec
-----------------------------------------------------------------------------
\* The values each variable may have, and that no thread has both an active and a warm
\* sandbox.  (aio_sandbox_provider.py 134-147.)
THEOREM SandboxTypeCorrect == SandboxSpec => []SandboxTypeOK
<1>1. SandboxInv => SandboxTypeOK
  BY DEF SandboxInv
<1>. QED
  BY <1>1, SandboxInvAlways, PTL

\* No container is lost between the maps, the acquisitions and those who destroy, but for
\* those that a cancelled acquisition or a failed stop leaves, until they are registered
\* again.  (aio_sandbox_provider.py 251-275, 565-653; local_backend.py 606-618.)
THEOREM ContainersAreHeld == SandboxSpec => []NoOrphanContainer
<1>1. SandboxInv => NoOrphanContainer
  BY DEF SandboxInv
<1>. QED
  BY <1>1, SandboxInvAlways, PTL

\* An acquisition that registers a sandbox replaces none.
NothingReplaced ==
    \A t \in Threads : acquire[t].pc \in {"found", "starting"} => active[t] = None /\ warm[t] = None

\* Whatever is released, reaped or evicted while a thread acquires its sandbox, what it
\* registers in the end replaces no tracked sandbox.  (aio_sandbox_provider.py 565-589,
\* where the maps are written without being read again.)
THEOREM RegistrationReplacesNone == SandboxSpec => []NothingReplaced
<1>1. SandboxInv => NothingReplaced
  BY DEF SandboxInv, Layers, Layer, PastReuse, PastReclaim, NothingReplaced
<1>. QED
  BY <1>1, SandboxInvAlways, PTL
=============================================================================
