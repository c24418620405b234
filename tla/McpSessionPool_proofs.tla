----------------------- MODULE McpSessionPool_proofs -----------------------
(***************************************************************************)
(* Proofs about McpSessionPool, for every set of keys and loops, every     *)
(* size of the registry and every number of calls, closes and              *)
(* cancellations.                                                          *)
(***************************************************************************)
EXTENDS McpSessionPool, TLAPS

Ours == entries \cup inflight

\* An owner that was taken out of the pool, and never comes back.
Out(o) == o \in Calls /\ o \notin Ours /\ call[o].pc # "new"

\* At most one session or creation per key; who is told to end was taken out.
OnePerKey == \A o, p \in Ours : Key(o) = Key(p) => o = p
TakenOut ==
    /\ \A o \in Calls : ToBeTold(o) => Out(o)
    /\ \A c, o \in Calls : Waits(c, o) => Out(o)

\* What is in the pool has been told nothing, unless its own caller unwinds it.
InFlight ==
    /\ entries \cap inflight = {}
    /\ \A o \in inflight :
         call[o].pc \notin {"new", "teardown"} /\ (told[o] = {} \/ call[o].pc = "unwind")
    /\ \A o \in entries : call[o].pc = "done" /\ owner[o] = "open" /\ told[o] = {}

\* The task of an owner and the future it resolves.
Ready(o) ==
    /\ owner[o] \in {"none", "created", "initializing"} => ready[o] = "pending"
    /\ ready[o] = "session" /\ told[o] = {} => owner[o] = "open"
    /\ ready[o] = "failed" => owner[o] \in {"exiting", "gone"}
    /\ call[o].pc = "unwind" => told[o] # {} \/ owner[o] \in {"exiting", "gone"}
    /\ call[o].pc = "new" => owner[o] = "none" /\ told[o] = {}

NotLost(o) ==
    owner[o] \in Live \cup {"created"} =>
      o \in Ours \/ told[o] # {} \/ ToBeTold(o) \/ Abandoned(o)

TasksOK == \A o \in Calls : Ready(o) /\ NotLost(o)

PoolInv == PoolTypeOK /\ OnePerKey /\ TakenOut /\ InFlight /\ TasksOK
-----------------------------------------------------------------------------
\* The pool is empty at the start.
LEMMA PoolInvInit == PoolInit => PoolInv
<1>. SUFFICES ASSUME PoolInit PROVE PoolInv
  OBVIOUS
<1>1. Idle \in Locals
  BY DEF Idle, Locals, Pcs, Ids
<1>2. PoolTypeOK
  BY <1>1, PoolAssumption DEF PoolInit, PoolTypeOK, RegistryOK, OwnersOK
<1>3. \A c \in Calls : call[c].pc = "new" /\ owner[c] = "none" /\ told[c] = {} /\ ready[c] = "pending"
  BY DEF PoolInit, Idle
<1>4. \A o \in Calls : ~ToBeTold(o)
  BY <1>3 DEF PoolInit, ToBeTold
<1>5. entries = {} /\ inflight = {}
  BY DEF PoolInit
<1>6. OnePerKey /\ TakenOut /\ InFlight
  BY <1>3, <1>4, <1>5 DEF OnePerKey, Ours, TakenOut, Waits, InFlight
<1>7. TasksOK
  BY <1>3 DEF TasksOK, Ready, NotLost, Live
<1>. QED
  BY <1>2, <1>6, <1>7 DEF PoolInv

\* Moving the program counter of one call changes nothing else of it.
LEMMA PcMoves ==
    ASSUME call \in [Calls -> Locals], NEW c \in Calls, NEW pc \in Pcs,
           call' = [call EXCEPT ![c].pc = pc]
    PROVE  /\ call' \in [Calls -> Locals]
           /\ call'[c].pc = pc
           /\ \A d \in Calls : d # c => call'[d] = call[d]
           /\ \A d \in Calls : /\ call'[d].key = call[d].key
                               /\ call'[d].until = call[d].until /\ call'[d].evicted = call[d].evicted
BY DEF Locals

\* So does moving it on while an evicted owner ends.
LEMMA EvictionMoves ==
    ASSUME call \in [Calls -> Locals], NEW c \in Calls, NEW pc \in Pcs, NEW u \in Ids,
           NEW left \in SUBSET (Calls \X Kinds),
           call' = [call EXCEPT ![c].evicted = left, ![c].until = u, ![c].pc = pc]
    PROVE  /\ call' \in [Calls -> Locals]
           /\ call'[c].pc = pc /\ call'[c].until = u /\ call'[c].evicted = left
           /\ \A d \in Calls : d # c => call'[d] = call[d]
           /\ \A d \in Calls : call'[d].key = call[d].key
<1>1. call[c] \in Locals
  OBVIOUS
<1>. DEFINE r == [call[c] EXCEPT !.evicted = left, !.until = u, !.pc = pc]
<1>2. /\ r \in Locals
      /\ r.pc = pc /\ r.until = u /\ r.evicted = left /\ r.key = call[c].key
  BY <1>1 DEF Locals
<1>3. call' = [call EXCEPT ![c] = r]
  BY <1>1 DEF Locals
<1>. HIDE DEF r
<1>4. call'[c] = r /\ \A d \in Calls : d # c => call'[d] = call[d]
  BY <1>3
<1>. QED
  BY <1>2, <1>3, <1>4

\* What two steps of the pool have in common: keys stay, nobody calls anew, nothing
\* joins the pool, and who is told from now on was in it.
SettledCall ==
    /\ Ours' \subseteq Ours
    /\ \A o \in Calls : call'[o].key = call[o].key /\ (call'[o].pc = "new" <=> call[o].pc = "new")
    /\ \A o \in Calls : ToBeTold(o)' => ToBeTold(o) \/ (o \in Ours /\ o \notin Ours')
    /\ \A c, o \in Calls : Waits(c, o)' => Waits(c, o) \/ ToBeTold(o)

\* Then what was taken out stays out.
LEMMA SettledCallKeeps ==
    ASSUME PoolInv, SettledCall
    PROVE  OnePerKey' /\ TakenOut'
<1>1. \A o \in Ours : o \in Calls /\ call[o].pc # "new"
  BY DEF PoolInv, PoolTypeOK, RegistryOK, InFlight, Ours
<1>2. OnePerKey'
  BY <1>1 DEF SettledCall, PoolInv, OnePerKey, Key
<1>3. \A o \in Calls : Out(o) => Out(o)'
  BY DEF SettledCall, Out
<1>4. \A o \in Ours : o \notin Ours' => Out(o)'
  BY <1>1 DEF SettledCall, Out
<1>5. \A o \in Calls : ToBeTold(o)' => Out(o)'
  BY <1>3, <1>4 DEF SettledCall, PoolInv, TakenOut
<1>6. \A c, o \in Calls : Waits(c, o)' => Out(o)'
  BY <1>3 DEF SettledCall, PoolInv, TakenOut
<1>. QED
  BY <1>2, <1>5, <1>6 DEF TakenOut

\* What was in the pool and told nothing stays so, and what is lost to the pool is told.
LEMMA TasksKeep ==
    ASSUME PoolInv, SettledCall, UNCHANGED <<owner, ready>>,
           \A o \in Calls : told[o] \subseteq told'[o],
           \A o \in Calls : /\ ToBeTold(o) => ToBeTold(o)' \/ Abandoned(o)' \/ told'[o] # {}
                            /\ Abandoned(o) => Abandoned(o)'
                            /\ o \in Ours /\ o \notin Ours' =>
                                 owner[o] \notin Live \cup {"created"} \/ told'[o] # {} \/ ToBeTold(o)',
           \A o \in Calls : /\ told'[o] # told[o] => call[o].pc # "new"
                            /\ call'[o].pc = "unwind" =>
                                 call[o].pc = "unwind" \/ told'[o] # {} \/ ready[o] = "failed"
    PROVE  TasksOK'
<1>. SUFFICES ASSUME NEW o \in Calls PROVE Ready(o)' /\ NotLost(o)'
  BY DEF TasksOK
<1>1. Ready(o) /\ NotLost(o) /\ (call'[o].pc = "new" <=> call[o].pc = "new")
  BY DEF PoolInv, TasksOK, SettledCall
<1>2. Ready(o)'
  BY <1>1 DEF Ready
<1>3. NotLost(o)'
  BY <1>1 DEF NotLost
<1>. QED
  BY <1>2, <1>3

\* What stays in the pool is as it was, or is unwound by its own caller.
LEMMA InFlightKeeps ==
    ASSUME PoolInv, entries' \subseteq entries, inflight' \subseteq inflight,
           \A o \in entries' : owner'[o] = owner[o] /\ told'[o] = told[o] /\ call'[o].pc = call[o].pc,
           \A o \in inflight' :
              \/ told'[o] = told[o] /\ call'[o].pc = call[o].pc
              \/ told'[o] = told[o] /\ call[o].pc # "unwind" /\ call'[o].pc \notin {"new", "teardown"}
              \/ call'[o].pc = "unwind"
    PROVE  InFlight'
BY DEF PoolInv, InFlight
-----------------------------------------------------------------------------
(* The owner tasks *)

\* A task does nothing to the pool, and one that is registered has nothing to do.
LEMMA OwnerKeeps ==
    ASSUME PoolInv, NEW o \in Calls, OwnerStep(o) \/ Initializes(o)
    PROVE  PoolInv'
<1>1. UNCHANGED <<entries, older, inflight, call, told, ending, posted, closes, cancels>>
  BY DEF OwnerStep, OwnerStarts, OwnerCancelled, OwnerCloses, Exits, Initializes, OnlyOwner
<1>2. OwnersOK
  BY DEF PoolInv, PoolTypeOK
<1>3. /\ owner[o] # "open" \/ told[o] # {}
      /\ owner[o] \notin {"none", "gone"}
      /\ \A p \in Calls : p # o => owner'[p] = owner[p] /\ ready'[p] = ready[p]
  BY <1>2 DEF OwnerStep, OwnerStarts, OwnerCancelled, OwnerCloses, Exits, Initializes, Moves, Resolves,
         OwnersOK, Live
<1>4. OwnersOK' /\ owner'[o] \notin {"none", "created"}
  BY <1>1, <1>2 DEF OwnerStep, OwnerStarts, OwnerCancelled, OwnerCloses, Exits, Initializes, Moves, Resolves,
         OwnersOK, Live
<1>5. PoolTypeOK'
  BY <1>1, <1>4 DEF PoolInv, PoolTypeOK, RegistryOK
<1>6. OnePerKey' /\ TakenOut'
  BY <1>1 DEF PoolInv, OnePerKey, Key, Ours, TakenOut, ToBeTold, Waits, Out
<1>7. o \notin entries
  BY <1>3 DEF PoolInv, InFlight
<1>8. InFlight'
  BY <1>1, <1>3, <1>7 DEF PoolInv, PoolTypeOK, RegistryOK, InFlight
<1>9. Ready(o)'
  <2>1. Ready(o)
    BY DEF PoolInv, TasksOK
  <2>2. CASE OwnerStarts(o)
    BY <1>1, <1>2, <2>1, <2>2 DEF OwnerStarts, Moves, Resolves, OwnersOK, Ready
  <2>3. CASE Initializes(o)
    BY <1>1, <1>2, <2>1, <2>3 DEF Initializes, Moves, Resolves, OwnersOK, Ready
  <2>4. CASE OwnerCancelled(o)
    BY <1>1, <1>2, <2>1, <2>4 DEF OwnerCancelled, Moves, Resolves, OwnersOK, Ready, Live
  <2>5. CASE OwnerCloses(o) \/ Exits(o)
    BY <1>1, <1>2, <2>1, <2>5 DEF OwnerCloses, Exits, Moves, OwnersOK, Ready
  <2>. QED
    BY <2>2, <2>3, <2>4, <2>5 DEF OwnerStep
<1>10. ASSUME owner'[o] \in Live PROVE owner[o] \in Live \cup {"created"}
  BY <1>2, <1>10 DEF OwnerStep, OwnerStarts, OwnerCancelled, OwnerCloses, Exits, Initializes, Moves,
         OwnersOK, Live
<1>11. NotLost(o)'
  BY <1>1, <1>4, <1>10 DEF PoolInv, TasksOK, NotLost, Ours, ToBeTold, Abandoned
<1>12. ASSUME NEW p \in Calls, p # o PROVE Ready(p)' /\ NotLost(p)'
  BY <1>1, <1>3, <1>12 DEF PoolInv, TasksOK, Ready, NotLost, Ours, ToBeTold, Abandoned
<1>13. TasksOK'
  BY <1>9, <1>11, <1>12 DEF TasksOK
<1>. QED
  BY <1>5, <1>6, <1>8, <1>13 DEF PoolInv
-----------------------------------------------------------------------------
(* Telling an owner to end *)

\* An owner that was taken out is told, or its telling is on its way.
LEMMA ToldGrows ==
    ASSUME OwnersOK, NEW o \in Calls, NEW kind \in Kinds,
           told' = [told EXCEPT ![o] = @ \cup Closes(kind)]
    PROVE  /\ told' \in [Calls -> SUBSET Kinds] /\ told'[o] # {}
           /\ \A p \in Calls : told[p] \subseteq told'[p] /\ (p # o => told'[p] = told[p])
BY DEF OwnersOK, Closes, Kinds

\* What a loop runs for another, and what a closer does.
LEMMA DeliveryKeeps ==
    ASSUME PoolInv, NEW o \in Calls, NEW kind \in Kinds, Delivered(o, kind) \/ CloserTells(o, kind)
    PROVE  PoolInv'
<1>0. RegistryOK /\ OwnersOK /\ call \in [Calls -> Locals] /\ TakenOut
  BY DEF PoolInv, PoolTypeOK
<1>1. /\ UNCHANGED <<entries, older, inflight, call, owner, ready, closes, cancels>>
      /\ told' = [told EXCEPT ![o] = @ \cup Closes(kind)]
      /\ posted' \subseteq posted /\ ending' \subseteq ending
      /\ posted \cup ending \subseteq posted' \cup ending' \cup {<<o, kind>>}
      /\ <<o, kind>> \in posted \cup ending
  BY DEF Delivered, CloserTells
<1>2. /\ told' \in [Calls -> SUBSET Kinds] /\ told'[o] # {}
      /\ \A p \in Calls : told[p] \subseteq told'[p] /\ (p # o => told'[p] = told[p])
  BY <1>0, <1>1, ToldGrows
<1>3. Out(o)
  BY <1>0, <1>1 DEF TakenOut, ToBeTold
<1>4. PoolTypeOK'
  BY <1>0, <1>1, <1>2 DEF PoolTypeOK, RegistryOK, OwnersOK
<1>5. SettledCall
  BY <1>1 DEF SettledCall, Ours, ToBeTold, Waits
<1>6. \A p \in Calls : /\ ToBeTold(p) => ToBeTold(p)' \/ told'[p] # {}
                       /\ Abandoned(p) => Abandoned(p)'
  BY <1>1, <1>2 DEF ToBeTold, Abandoned
<1>7. TasksOK'
  BY <1>1, <1>2, <1>3, <1>5, <1>6, TasksKeep DEF Ours, Out
<1>8. InFlight'
  <2>1. \A p \in Ours : told'[p] = told[p] /\ call'[p].pc = call[p].pc
    BY <1>0, <1>1, <1>2, <1>3 DEF Out, Ours, RegistryOK
  <2>2. entries' = entries /\ inflight' = inflight /\ owner' = owner
    BY <1>1
  <2>3. /\ \A p \in entries' : owner'[p] = owner[p] /\ told'[p] = told[p] /\ call'[p].pc = call[p].pc
        /\ \A p \in inflight' : told'[p] = told[p] /\ call'[p].pc = call[p].pc
    BY <2>1, <2>2 DEF Ours
  <2>. QED
    BY <2>2, <2>3, InFlightKeeps
<1>. QED
  BY <1>4, <1>5, <1>7, <1>8, SettledCallKeeps DEF PoolInv

\* A caller tells what it has evicted.
LEMMA EvictsKeeps ==
    ASSUME PoolInv, NEW c \in Calls, Evicts(c)
    PROVE  PoolInv'
<1>a. RegistryOK /\ OwnersOK /\ call \in [Calls -> Locals] /\ TakenOut /\ InFlight
  BY DEF PoolInv, PoolTypeOK
<1>0. PICK e \in call[c].evicted :
        LET waits == Loop(e[1]) = Loop(c) \/ e[2] = "cancel"
            left  == call[c].evicted \ {e}
        IN /\ Tell(e[1], e[2], Loop(c))
           /\ call' = [call EXCEPT ![c].evicted = left, ![c].until = IF waits THEN e[1] ELSE NoCall,
                          ![c].pc = IF waits THEN "until" ELSE AfterEvicting(left, c, call[c].wait)]
  BY DEF Evicts
<1>. DEFINE o     == e[1]
            kind  == e[2]
            left  == call[c].evicted \ {e}
            waits == Loop(o) = Loop(c) \/ kind = "cancel"
            pc    == IF waits THEN "until" ELSE AfterEvicting(left, c, call[c].wait)
            until == IF waits THEN o ELSE NoCall
<1>1. /\ o \in Calls /\ kind \in Kinds /\ e = <<o, kind>> /\ Tell(o, kind, Loop(c))
      /\ call' = [call EXCEPT ![c].evicted = left, ![c].until = until, ![c].pc = pc]
  BY <1>a, <1>0 DEF Locals
<1>2. pc \in Pcs /\ until \in Ids /\ left \in SUBSET (Calls \X Kinds)
      /\ pc \in {"until", "evict", "create", "join"} /\ (left # {} => pc \in {"until", "evict"})
      /\ (pc = "until" => until = o)
  BY <1>a, <1>1 DEF AfterEvicting, Pcs, Ids, Locals
<1>3. /\ call' \in [Calls -> Locals]
      /\ call'[c].pc = pc /\ call'[c].until = until /\ call'[c].evicted = left
      /\ \A d \in Calls : d # c => call'[d] = call[d]
      /\ \A d \in Calls : call'[d].key = call[d].key
  <2>. HIDE DEF pc, until, left, o, kind
  <2>. QED
    BY <1>a, <1>1, <1>2, EvictionMoves
<1>b. \A f \in call[c].evicted : f = e \/ f \in left
  OBVIOUS
<1>d. left \subseteq call[c].evicted
  OBVIOUS
<1>. HIDE DEF pc, until, left, waits, o, kind
<1>4. /\ call[c].pc = "evict" /\ UNCHANGED <<entries, older, inflight, owner, ready, ending, closes, cancels>>
  BY DEF Evicts
<1>c. e \in call[c].evicted /\ e = <<o, kind>> /\ o \in Calls /\ kind \in Kinds
  BY <1>1
<1>5. ToBeTold(o) /\ Out(o)
  BY <1>a, <1>c, <1>4 DEF ToBeTold, TakenOut
<1>6. /\ \/ told' = [told EXCEPT ![o] = @ \cup Closes(kind)] /\ UNCHANGED posted
         \/ posted' = posted \cup {<<o, kind>>} /\ UNCHANGED told
  BY <1>1 DEF Tell
<1>7. /\ told' \in [Calls -> SUBSET Kinds]
      /\ \A p \in Calls : told[p] \subseteq told'[p] /\ (p # o => told'[p] = told[p])
      /\ told'[o] # {} \/ <<o, kind>> \in posted'
      /\ posted \subseteq posted' /\ posted' \subseteq posted \cup {<<o, kind>>}
  <2>1. CASE told' = [told EXCEPT ![o] = @ \cup Closes(kind)] /\ posted' = posted
    BY <1>a, <1>c, <2>1, ToldGrows
  <2>2. CASE posted' = posted \cup {<<o, kind>>} /\ told' = told
    BY <1>a, <2>2 DEF OwnersOK
  <2>. QED
    BY <1>6, <2>1, <2>2
<1>8. PoolTypeOK'
  BY <1>a, <1>c, <1>3, <1>4, <1>7 DEF PoolTypeOK, RegistryOK, OwnersOK
<1>9. SettledCall
  <2>1. \A p \in Calls : ToBeTold(p)' => ToBeTold(p)
    <3>. SUFFICES ASSUME NEW p \in Calls, p # o, ToBeTold(p)' PROVE ToBeTold(p)
      BY <1>5
    <3>1. CASE \E k \in Kinds : <<p, k>> \in (ending \cup posted)'
      BY <1>4, <1>7, <3>1 DEF ToBeTold
    <3>2. CASE \E k \in Kinds, d \in Calls :
                 call'[d].pc \in {"evict", "until"} /\ <<p, k>> \in call'[d].evicted
      <4>1. PICK k \in Kinds, d \in Calls :
                 call'[d].pc \in {"evict", "until"} /\ <<p, k>> \in call'[d].evicted
        BY <3>2
      <4>2. call[d].pc \in {"evict", "until"} /\ <<p, k>> \in call[d].evicted
        BY <1>3, <1>4, <1>d, <4>1
      <4>. QED
        BY <4>2 DEF ToBeTold
    <3>. QED
      BY <3>1, <3>2 DEF ToBeTold
  <2>2. \A d, p \in Calls : Waits(d, p)' => Waits(d, p) \/ ToBeTold(p)
    BY <1>2, <1>3, <1>5 DEF Waits
  <2>3. \A p \in Calls : call'[p].pc = "new" <=> call[p].pc = "new"
    BY <1>2, <1>3, <1>4
  <2>. QED
    BY <1>3, <1>4, <2>1, <2>2, <2>3 DEF SettledCall, Ours
<1>10. \A p \in Calls : /\ ToBeTold(p) => ToBeTold(p)' \/ told'[p] # {}
                        /\ Abandoned(p) => Abandoned(p)'
  <2>1. ASSUME NEW p \in Calls, NEW k \in Kinds, <<p, k>> \in ending \cup posted PROVE ToBeTold(p)'
    BY <1>4, <1>7, <2>1 DEF ToBeTold
  <2>2. ASSUME NEW p \in Calls, NEW k \in Kinds, NEW d \in Calls, call[d].pc \in {"evict", "until"},
               <<p, k>> \in call[d].evicted
        PROVE  ToBeTold(p)' \/ told'[p] # {}
    BY <1>b, <1>c, <1>2, <1>3, <1>4, <1>7, <2>2 DEF ToBeTold
  <2>3. ASSUME NEW p \in Calls, Abandoned(p) PROVE Abandoned(p)'
    BY <1>3, <1>4, <2>3 DEF Abandoned
  <2>. QED
    BY <2>1, <2>2, <2>3 DEF ToBeTold
<1>11. TasksOK'
  BY <1>2, <1>3, <1>4, <1>5, <1>7, <1>9, <1>10, TasksKeep DEF Ours, Out
<1>12. InFlight'
  <2>1. \A p \in Ours : told'[p] = told[p] /\ p \in Calls
    BY <1>a, <1>5, <1>7 DEF Out, Ours, RegistryOK
  <2>2. \A p \in entries : call'[p].pc = call[p].pc
    BY <1>a, <1>3, <1>4, <2>1 DEF InFlight, Ours
  <2>3. \A p \in inflight :
           \/ call'[p].pc = call[p].pc
           \/ call[p].pc # "unwind" /\ call'[p].pc \notin {"new", "teardown"}
    BY <1>2, <1>3, <1>4, <2>1 DEF Ours
  <2>4. entries' = entries /\ inflight' = inflight /\ owner' = owner
    BY <1>4
  <2>5. /\ \A p \in entries' : owner'[p] = owner[p] /\ told'[p] = told[p] /\ call'[p].pc = call[p].pc
        /\ \A p \in inflight' : told'[p] = told[p]
    BY <2>1, <2>2, <2>4 DEF Ours
  <2>. QED
    BY <2>3, <2>4, <2>5, InFlightKeeps
<1>. QED
  BY <1>8, <1>9, <1>11, <1>12, SettledCallKeeps DEF PoolInv

\* What it evicted has ended.
LEMMA EvictedKeeps ==
    ASSUME PoolInv, NEW c \in Calls, Evicted(c)
    PROVE  PoolInv'
<1>1. RegistryOK /\ OwnersOK /\ call \in [Calls -> Locals]
  BY DEF PoolInv, PoolTypeOK
<1>. DEFINE pc == AfterEvicting(call[c].evicted, c, call[c].wait)
<1>2. /\ pc \in {"evict", "create", "join"}
      /\ pc = "evict" \/ call[c].evicted = {}
  BY DEF AfterEvicting
<1>3. /\ call[c].pc = "until"
      /\ call' = [call EXCEPT ![c].pc = pc, ![c].until = NoCall]
      /\ UNCHANGED <<entries, older, inflight, owner, ready, told, ending, posted, closes, cancels>>
  BY DEF Evicted, Waits
<1>. HIDE DEF pc
<1>4. /\ call' \in [Calls -> Locals]
      /\ call'[c].pc = pc /\ call'[c].evicted = call[c].evicted
      /\ \A d \in Calls : d # c => call'[d] = call[d]
      /\ \A d \in Calls : call'[d].key = call[d].key
  <2>. DEFINE r == [call[c] EXCEPT !.pc = pc, !.until = NoCall]
  <2>1. call[c] \in Locals /\ pc \in Pcs /\ NoCall \in Ids
    BY <1>1, <1>2 DEF Pcs, Ids
  <2>2. r \in Locals /\ r.pc = pc /\ r.evicted = call[c].evicted /\ r.key = call[c].key
    BY <2>1 DEF Locals
  <2>3. call' = [call EXCEPT ![c] = r]
    BY <1>3, <2>1 DEF Locals
  <2>. HIDE DEF r
  <2>4. call'[c] = r /\ \A d \in Calls : d # c => call'[d] = call[d]
    BY <1>1, <2>3
  <2>. QED
    BY <1>1, <2>2, <2>3, <2>4
<1>5. PoolTypeOK'
  BY <1>1, <1>3, <1>4 DEF PoolTypeOK, RegistryOK, OwnersOK
<1>6. \A p \in Calls : (ToBeTold(p)' <=> ToBeTold(p)) /\ (Abandoned(p) => Abandoned(p)')
  <2>1. \A d \in Calls : call'[d].evicted = call[d].evicted
    BY <1>4
  <2>2. \A d \in Calls : call[d].evicted # {} =>
           (call'[d].pc \in {"evict", "until"} <=> call[d].pc \in {"evict", "until"})
    BY <1>2, <1>3, <1>4
  <2>3. \A d \in Calls : call[d].pc = "done" => call'[d].pc = "done"
    BY <1>3, <1>4
  <2>4. \A p \in Calls, d \in Calls, kind \in Kinds : <<p, kind>> \in call[d].evicted => call[d].evicted # {}
    OBVIOUS
  <2>5. ending' = ending /\ posted' = posted
    BY <1>3
  <2>6. ASSUME NEW p \in Calls PROVE ToBeTold(p)' <=> ToBeTold(p)
    BY <2>1, <2>2, <2>4, <2>5 DEF ToBeTold
  <2>7. ASSUME NEW p \in Calls, Abandoned(p) PROVE Abandoned(p)'
    BY <2>1, <2>3, <2>7 DEF Abandoned
  <2>. QED
    BY <2>6, <2>7
<1>7. SettledCall
  <2>1. Ours' = Ours
    BY <1>3 DEF Ours
  <2>2. \A o \in Calls : call'[o].key = call[o].key /\ (call'[o].pc = "new" <=> call[o].pc = "new")
    BY <1>2, <1>3, <1>4
  <2>3. \A d, o \in Calls : Waits(d, o)' => Waits(d, o)
    BY <1>2, <1>4 DEF Waits
  <2>. QED
    BY <1>6, <2>1, <2>2, <2>3 DEF SettledCall
<1>8. TasksOK'
  BY <1>2, <1>3, <1>4, <1>6, <1>7, TasksKeep DEF Ours
<1>9. InFlight'
  <2>1. /\ \A o \in entries : call'[o].pc = call[o].pc
        /\ \A o \in inflight :
              \/ call'[o].pc = call[o].pc
              \/ call[o].pc # "unwind" /\ call'[o].pc \notin {"new", "teardown"}
    BY <1>1, <1>2, <1>3, <1>4 DEF RegistryOK, PoolInv, InFlight
  <2>. QED
    BY <1>3, <2>1, InFlightKeeps
<1>. QED
  BY <1>5, <1>7, <1>8, <1>9, SettledCallKeeps DEF PoolInv

\* A closer takes the sessions of some keys out of the registry.
LEMMA CloseKeeps ==
    ASSUME PoolInv, NEW ks \in SUBSET Keys, Close(ks)
    PROVE  PoolInv'
<1>1. RegistryOK /\ OwnersOK /\ call \in [Calls -> Locals]
  BY DEF PoolInv, PoolTypeOK
<1>. DEFINE os == {o \in entries : Key(o) \in ks}
            is == {o \in inflight : Key(o) \in ks}
<1>2. /\ os \subseteq entries /\ entries' = entries \ os /\ older' = Kept(entries \ os)
      /\ is \subseteq inflight /\ inflight' = inflight \ is
      /\ ending' = ending \cup (os \X {"close"}) \cup (is \X {"cancel"})
      /\ UNCHANGED <<call, owner, ready, told, posted, cancels>>
      /\ closes < MaxCloses /\ closes' = closes + 1
  BY DEF Close
<1>. HIDE DEF os, is
<1>3. PoolTypeOK'
  <2>1. closes' \in 0..MaxCloses
    BY <1>1, <1>2, PoolAssumption DEF RegistryOK
  <2>2. older' \subseteq entries' \X entries'
    BY <1>1, <1>2 DEF RegistryOK, Kept
  <2>3. ending' \subseteq Calls \X Kinds /\ entries' \subseteq Calls /\ inflight' \subseteq Calls
    BY <1>1, <1>2 DEF RegistryOK, Kinds
  <2>. QED
    BY <1>1, <1>2, <2>1, <2>2, <2>3 DEF PoolTypeOK, RegistryOK, OwnersOK
<1>4. \A p \in Calls : /\ p \in os \cup is => ToBeTold(p)'
                       /\ ToBeTold(p) => ToBeTold(p)'
                       /\ ToBeTold(p)' => ToBeTold(p) \/ p \in os \cup is
                       /\ Abandoned(p) => Abandoned(p)'
  BY <1>2 DEF ToBeTold, Abandoned, Kinds
<1>5. \A p \in Calls : p \in os \cup is <=> p \in Ours /\ p \notin Ours'
  BY <1>1, <1>2 DEF PoolInv, InFlight, Ours
<1>6. SettledCall
  BY <1>2, <1>4, <1>5 DEF SettledCall, Ours, Waits
<1>7. TasksOK'
  BY <1>2, <1>4, <1>5, <1>6, TasksKeep
<1>8. InFlight'
  BY <1>2, InFlightKeeps
<1>. QED
  BY <1>3, <1>6, <1>7, <1>8, SettledCallKeeps DEF PoolInv
-----------------------------------------------------------------------------
(* Phases 2b to 4 *)

\* A call goes on by itself: it takes at most itself out of the pool, and then its
\* owner is told or already leaves.
LEMMA CallKeeps ==
    ASSUME PoolInv, NEW c \in Calls, NEW pc \in {"done", "unwind", "teardown"},
           call[c].pc \in {"join", "create", "unwind", "teardown"},
           call' = [call EXCEPT ![c].pc = pc],
           UNCHANGED <<entries, older, owner, ready, ending, posted, closes>>,
           cancels' \in 0..MaxCancels,
           inflight' = inflight \/ inflight' = inflight \ {c},
           told' \in [Calls -> SUBSET Kinds],
           \A p \in Calls : told[p] \subseteq told'[p] /\ (p # c => told'[p] = told[p]),
           c \in inflight /\ c \notin inflight' => told'[c] # {} \/ owner[c] \in {"exiting", "gone"},
           c \in inflight' => \/ pc = "unwind"
                              \/ told' = told /\ call[c].pc # "unwind" /\ pc = "done",
           pc = "unwind" => call[c].pc = "unwind" \/ told'[c] # {} \/ ready[c] = "failed"
    PROVE  PoolInv'
<1>1. RegistryOK /\ OwnersOK /\ call \in [Calls -> Locals] /\ c \notin entries
  BY DEF PoolInv, PoolTypeOK, InFlight
<1>2. /\ call' \in [Calls -> Locals]
      /\ call'[c].pc = pc
      /\ \A d \in Calls : d # c => call'[d] = call[d]
      /\ \A d \in Calls : call'[d].key = call[d].key
  BY <1>1, PcMoves DEF Pcs
<1>3. PoolTypeOK'
  BY <1>1, <1>2 DEF PoolTypeOK, RegistryOK, OwnersOK
<1>4. \A p \in Calls : (ToBeTold(p)' <=> ToBeTold(p)) /\ (Abandoned(p) => Abandoned(p)')
  <2>1. \A d \in Calls : \/ call'[d] = call[d]
                         \/ call'[d].pc \notin {"evict", "until"} /\ call[d].pc \notin {"evict", "until", "done"}
    BY <1>2
  <2>2. \A p \in Calls : ToBeTold(p)' <=> ToBeTold(p)
    BY <2>1 DEF ToBeTold
  <2>3. \A p \in Calls : Abandoned(p) => Abandoned(p)'
    BY <2>1 DEF Abandoned
  <2>. QED
    BY <2>2, <2>3
<1>5. SettledCall
  BY <1>2, <1>4 DEF SettledCall, Ours, Waits
<1>6. \A o \in Calls : o \in Ours /\ o \notin Ours' => o = c /\ o \in inflight /\ o \notin inflight'
  BY DEF Ours
<1>7. TasksOK'
  <2>1. \A o \in Calls : o \in Ours /\ o \notin Ours' =>
           owner[o] \notin Live \cup {"created"} \/ told'[o] # {}
    BY <1>6 DEF Live
  <2>2. \A o \in Calls : told'[o] # told[o] => call[o].pc # "new"
    OBVIOUS
  <2>3. \A o \in Calls : call'[o].pc = "unwind" =>
           call[o].pc = "unwind" \/ told'[o] # {} \/ ready[o] = "failed"
    BY <1>2
  <2>. QED
    BY <1>4, <1>5, <2>1, <2>2, <2>3, TasksKeep
<1>8. InFlight'
  <2>1. \A o \in entries : o \in Calls /\ o # c
    BY <1>1 DEF RegistryOK
  <2>2. \A o \in inflight' : o \in Calls /\ o \in inflight
    BY <1>1 DEF RegistryOK
  <2>3. \A o \in entries' : owner'[o] = owner[o] /\ told'[o] = told[o] /\ call'[o].pc = call[o].pc
    BY <1>2, <2>1
  <2>4. \A o \in inflight' :
           \/ told'[o] = told[o] /\ call'[o].pc = call[o].pc
           \/ told'[o] = told[o] /\ call[o].pc # "unwind" /\ call'[o].pc \notin {"new", "teardown"}
           \/ call'[o].pc = "unwind"
    BY <1>2, <2>2
  <2>. QED
    BY <2>3, <2>4, InFlightKeeps
<1>. QED
  BY <1>3, <1>5, <1>7, <1>8, SettledCallKeeps DEF PoolInv

\* The creation is over: it enters the registry, unless it was closed meanwhile.
LEMMA PromotesKeeps ==
    ASSUME PoolInv, NEW c \in Calls, Promotes(c)
    PROVE  PoolInv'
<1>1. RegistryOK /\ OwnersOK /\ call \in [Calls -> Locals] /\ InFlight /\ Ready(c)
  BY DEF PoolInv, PoolTypeOK, TasksOK
<1>2. /\ call[c].pc = "create" /\ ready[c] = "session"
      /\ UNCHANGED <<owner, ready, ending, posted, closes, cancels>>
  BY DEF Promotes
<1>3. CASE c \notin inflight
  <2>1. /\ told' = [told EXCEPT ![c] = @ \cup {"close"}]
        /\ call' = [call EXCEPT ![c].pc = "teardown"]
        /\ UNCHANGED <<entries, older, inflight>>
    BY <1>3 DEF Promotes, StillOurs
  <2>2. /\ told' \in [Calls -> SUBSET Kinds]
        /\ \A p \in Calls : told[p] \subseteq told'[p] /\ (p # c => told'[p] = told[p])
    BY <1>1, <2>1 DEF OwnersOK, Kinds
  <2>3. cancels' \in 0..MaxCancels
    BY <1>1, <1>2 DEF RegistryOK
  <2>. QED
    BY <1>2, <1>3, <2>1, <2>2, <2>3, CallKeeps
<1>4. CASE c \in inflight
  <2>1. /\ inflight' = inflight \ {c} /\ entries' = entries \cup {c} /\ older' = PutLast(c)
        /\ call' = [call EXCEPT ![c].pc = "done"] /\ told' = told
    BY <1>4 DEF Promotes, StillOurs, Returns
  <2>2. /\ call' \in [Calls -> Locals]
        /\ call'[c].pc = "done"
        /\ \A d \in Calls : d # c => call'[d] = call[d]
        /\ \A d \in Calls : call'[d].key = call[d].key
    BY <1>1, <2>1, PcMoves DEF Pcs
  <2>3. told[c] = {} /\ owner[c] = "open"
    BY <1>1, <1>2, <1>4 DEF InFlight, Ready
  <2>4. PoolTypeOK'
    BY <1>1, <1>2, <2>1, <2>2 DEF PoolTypeOK, RegistryOK, OwnersOK, PutLast, Kept
  <2>5. Ours' = Ours
    BY <1>4, <2>1 DEF Ours
  <2>6. \A p \in Calls : (ToBeTold(p)' <=> ToBeTold(p)) /\ (Abandoned(p) => Abandoned(p)')
    BY <1>2, <2>1, <2>2 DEF ToBeTold, Abandoned
  <2>7. SettledCall
    BY <1>2, <2>1, <2>2, <2>5, <2>6 DEF SettledCall, Waits
  <2>8. TasksOK'
    BY <1>2, <2>1, <2>2, <2>5, <2>6, <2>7, TasksKeep
  <2>9. InFlight'
    <3>1. entries' \cap inflight' = {}
      BY <1>1, <2>1 DEF InFlight
    <3>2. \A o \in inflight' : o \in inflight /\ o \in Calls /\ o # c
      BY <1>1, <2>1 DEF RegistryOK
    <3>3. \A o \in inflight' :
             call'[o].pc \notin {"new", "teardown"} /\ (told'[o] = {} \/ call'[o].pc = "unwind")
      BY <1>1, <2>1, <2>2, <3>2 DEF InFlight
    <3>4. \A o \in entries' : o = c \/ (o \in entries /\ o \in Calls /\ o # c)
      BY <1>1, <1>4, <2>1 DEF RegistryOK, InFlight
    <3>5. \A o \in entries' : call'[o].pc = "done" /\ owner'[o] = "open" /\ told'[o] = {}
      BY <1>1, <1>2, <2>1, <2>2, <2>3, <3>4 DEF InFlight
    <3>. QED
      BY <3>1, <3>3, <3>5 DEF InFlight
  <2>. QED
    BY <2>4, <2>7, <2>8, <2>9, SettledCallKeeps DEF PoolInv
<1>. QED
  BY <1>3, <1>4

\* The caller of a creation that failed waits for its owner; a caller that joined, or
\* whose owner is gone, returns.
LEMMA ReturnsKeep ==
    ASSUME PoolInv, NEW c \in Calls, Joined(c) \/ Fails(c) \/ Unwound(c) \/ TornDown(c)
    PROVE  PoolInv'
<1>1. RegistryOK /\ OwnersOK /\ call \in [Calls -> Locals] /\ InFlight /\ Ready(c)
  BY DEF PoolInv, PoolTypeOK, TasksOK
<1>2. /\ UNCHANGED <<entries, older, owner, ready, told, ending, posted, closes>>
      /\ cancels' \in 0..MaxCancels /\ told' \in [Calls -> SUBSET Kinds]
      /\ \A p \in Calls : told[p] \subseteq told'[p] /\ told'[p] = told[p]
  BY <1>1 DEF Joined, Fails, Unwound, TornDown, RegistryOK, OwnersOK
<1>3. CASE Joined(c)
  BY <1>1, <1>2, <1>3, CallKeeps DEF Joined, Returns
<1>4. CASE Fails(c)
  BY <1>1, <1>2, <1>4, CallKeeps DEF Fails
<1>5. CASE Unwound(c)
  BY <1>1, <1>2, <1>5, CallKeeps DEF Unwound, Returns
<1>6. CASE TornDown(c)
  <2>1. c \notin inflight
    BY <1>1, <1>6 DEF TornDown, InFlight
  <2>. QED
    BY <1>1, <1>2, <1>6, <2>1, CallKeeps DEF TornDown, Returns
<1>. QED
  BY <1>3, <1>4, <1>5, <1>6

\* The caller is cancelled at any of its waits.
LEMMA CancelKeeps ==
    ASSUME PoolInv, NEW c \in Calls, CallerCancelled(c)
    PROVE  PoolInv'
<1>1. RegistryOK /\ OwnersOK /\ call \in [Calls -> Locals] /\ InFlight /\ Ready(c) /\ TakenOut
  BY DEF PoolInv, PoolTypeOK, TasksOK
<1>2. /\ UNCHANGED <<entries, older, owner, ready, ending, closes>>
      /\ cancels' \in 0..MaxCancels
  BY <1>1, PoolAssumption DEF CallerCancelled, RegistryOK
<1>3. ASSUME NEW o \in Calls, Waits(c, o), Loop(o) = Loop(c),
             told' = [told EXCEPT ![o] = @ \cup {"cancel"}], UNCHANGED <<call, inflight, posted>>
      PROVE  PoolInv'
  <2>1. /\ told' \in [Calls -> SUBSET Kinds]
        /\ \A p \in Calls : told[p] \subseteq told'[p] /\ (p # o => told'[p] = told[p])
    BY <1>1, <1>3 DEF OwnersOK, Kinds
  <2>2. Out(o)
    BY <1>1, <1>3 DEF TakenOut
  <2>3. PoolTypeOK'
    BY <1>1, <1>2, <1>3, <2>1 DEF PoolTypeOK, RegistryOK, OwnersOK
  <2>4. \A p \in Calls : (ToBeTold(p)' <=> ToBeTold(p)) /\ (Abandoned(p) => Abandoned(p)')
    BY <1>2, <1>3 DEF ToBeTold, Abandoned
  <2>5. SettledCall
    BY <1>2, <1>3, <2>4 DEF SettledCall, Ours, Waits
  <2>6. TasksOK'
    BY <1>2, <1>3, <2>1, <2>2, <2>4, <2>5, TasksKeep DEF Ours, Out
  <2>7. \A p \in entries \cup inflight : told'[p] = told[p]
    BY <1>1, <2>1, <2>2 DEF Out, Ours, RegistryOK
  <2>8. InFlight'
    BY <1>2, <1>3, <2>7, InFlightKeeps
  <2>. QED
    BY <2>3, <2>5, <2>6, <2>8, SettledCallKeeps DEF PoolInv
<1>4. ASSUME NEW o \in Calls, Waits(c, o), GivesUp(c, o), UNCHANGED <<told, inflight>>
      PROVE  PoolInv'
  <2>1. /\ call' \in [Calls -> Locals]
        /\ call[c].pc = "until" /\ call'[c].pc = "done" /\ call[c].evicted \subseteq call'[c].evicted
        /\ \A d \in Calls : d # c => call'[d] = call[d]
        /\ \A d \in Calls : call'[d].key = call[d].key
        /\ posted' \subseteq posted /\ \A e \in posted : e \in posted' \/ e \in call'[c].evicted
    <3>1. CASE Returns(c) /\ UNCHANGED posted
      BY <1>1, <1>4, <3>1, PcMoves DEF Pcs, Returns, Waits
    <3>2. CASE /\ <<o, "cancel">> \in posted /\ posted' = posted \ {<<o, "cancel">>}
               /\ call' = [call EXCEPT ![c].pc = "done", ![c].evicted = @ \cup {<<o, "cancel">>}]
      <4>1. <<o, "cancel">> \in Calls \X Kinds /\ call[c] \in Locals /\ call[c].pc = "until"
        BY <1>1, <1>4 DEF Kinds, Waits
      <4>2. call'[c] = [call[c] EXCEPT !.pc = "done", !.evicted = @ \cup {<<o, "cancel">>}]
        BY <1>1, <3>2
      <4>3. /\ call'[c] \in Locals /\ call'[c].pc = "done" /\ call'[c].key = call[c].key
            /\ call'[c].evicted = call[c].evicted \cup {<<o, "cancel">>}
        <5>. DEFINE e == <<o, "cancel">>
        <5>. HIDE DEF e
        <5>1. e \in Calls \X Kinds
          BY <4>1 DEF e
        <5>2. call'[c] = [call[c] EXCEPT !.pc = "done", !.evicted = @ \cup {e}]
          BY <4>2 DEF e
        <5>. DEFINE es == call[c].evicted \cup {e}
        <5>3. es \in SUBSET (Calls \X Kinds)
          BY <4>1, <5>1 DEF Locals
        <5>4. call'[c] = [call[c] EXCEPT !.pc = "done", !.evicted = es]
          BY <5>2
        <5>5. es = call[c].evicted \cup {<<o, "cancel">>}
          BY DEF e
        <5>. HIDE DEF es
        <5>6. /\ call'[c] \in Locals /\ call'[c].pc = "done"
              /\ call'[c].key = call[c].key /\ call'[c].evicted = es
          BY <4>1, <5>3, <5>4 DEF Locals, Pcs
        <5>. QED
          BY <5>5, <5>6
      <4>4. call' \in [Calls -> Locals] /\ \A d \in Calls : d # c => call'[d] = call[d]
        BY <1>1, <3>2, <4>2, <4>3
      <4>5. \A e \in posted : e \in posted' \/ e \in call'[c].evicted
        BY <3>2, <4>3
      <4>. QED
        BY <3>2, <4>1, <4>3, <4>4, <4>5
    <3>. QED
      BY <1>4, <3>1, <3>2 DEF GivesUp
  <2>2. PoolTypeOK'
    BY <1>1, <1>2, <1>4, <2>1 DEF PoolTypeOK, RegistryOK, OwnersOK
  <2>3. \A p \in Calls : /\ ToBeTold(p)' => ToBeTold(p)
                         /\ ToBeTold(p) => ToBeTold(p)' \/ Abandoned(p)'
                         /\ Abandoned(p) => Abandoned(p)'
    BY <1>2, <1>4, <2>1 DEF ToBeTold, Abandoned
  <2>4. SettledCall
    BY <1>2, <1>4, <2>1, <2>3 DEF SettledCall, Ours, Waits
  <2>5. TasksOK'
    BY <1>2, <1>4, <2>1, <2>3, <2>4, TasksKeep DEF Ours
  <2>6. /\ \A p \in entries : call'[p].pc = call[p].pc
        /\ \A p \in inflight :
              \/ call'[p].pc = call[p].pc
              \/ call[p].pc # "unwind" /\ call'[p].pc \notin {"new", "teardown"}
    BY <1>1, <2>1 DEF RegistryOK, InFlight
  <2>7. InFlight'
    BY <1>2, <1>4, <2>6, InFlightKeeps
  <2>. QED
    BY <2>2, <2>4, <2>5, <2>7, SettledCallKeeps DEF PoolInv
<1>5. CASE call[c].pc = "join" /\ Returns(c) /\ UNCHANGED <<inflight, told, posted>>
  BY <1>1, <1>2, <1>5, CallKeeps DEF Returns, OwnersOK
<1>6. CASE /\ call[c].pc = "create" /\ ready[c] # "failed"
           /\ told' = [told EXCEPT ![c] = Kinds]
           /\ call' = [call EXCEPT ![c].pc = "unwind"] /\ UNCHANGED <<inflight, posted>>
  <2>1. /\ told' \in [Calls -> SUBSET Kinds] /\ told'[c] # {}
        /\ \A p \in Calls : told[p] \subseteq told'[p] /\ (p # c => told'[p] = told[p])
    BY <1>1, <1>6 DEF OwnersOK, Kinds
  <2>. QED
    BY <1>2, <1>6, <2>1, CallKeeps
<1>7. CASE call[c].pc = "unwind" /\ inflight' = inflight \ {c} /\ Returns(c) /\ UNCHANGED <<told, posted>>
  <2>1. told[c] # {} \/ owner[c] \in {"exiting", "gone"}
    BY <1>1, <1>7 DEF Ready
  <2>. QED
    BY <1>1, <1>2, <1>7, <2>1, CallKeeps DEF Returns, OwnersOK
<1>8. CASE /\ call[c].pc = "teardown"
           /\ told' = [told EXCEPT ![c] = @ \cup {"cancel"}] /\ UNCHANGED <<inflight, call, posted>>
  <2>1. /\ told' \in [Calls -> SUBSET Kinds]
        /\ \A p \in Calls : told[p] \subseteq told'[p] /\ (p # c => told'[p] = told[p])
    BY <1>1, <1>8 DEF OwnersOK, Kinds
  <2>2. c \notin inflight
    BY <1>1, <1>8 DEF InFlight
  <2>3. call' = [call EXCEPT ![c].pc = "teardown"]
    BY <1>1, <1>8 DEF Locals
  <2>. QED
    BY <1>2, <1>8, <2>1, <2>2, <2>3, CallKeeps
<1>. QED
  BY <1>3, <1>4, <1>5, <1>6, <1>7, <1>8 DEF CallerCancelled
-----------------------------------------------------------------------------
(* Phase 1 *)

\* A new call changes nothing of the others.
LEMMA CallBegins ==
    ASSUME PoolInv, NEW c \in Calls, call[c].pc = "new", NEW r \in Locals,
           r.pc \notin {"new", "until", "unwind"},
           call' = [call EXCEPT ![c] = r], UNCHANGED <<told, ending, posted>>
    PROVE  /\ call' \in [Calls -> Locals] /\ call'[c] = r
           /\ \A d \in Calls : d # c => call'[d] = call[d]
           /\ \A d, o \in Calls : Waits(d, o)' => Waits(d, o)
           /\ \A o \in Calls : (ToBeTold(o) => ToBeTold(o)') /\ (Abandoned(o) => Abandoned(o)')
           /\ \A o \in Calls : ToBeTold(o)' /\ ~ToBeTold(o) =>
                r.pc = "evict" /\ \E kind \in Kinds : <<o, kind>> \in r.evicted
<1>1. /\ call' \in [Calls -> Locals] /\ call'[c] = r
      /\ \A d \in Calls : d # c => call'[d] = call[d]
  BY DEF PoolInv, PoolTypeOK
<1>2. \A d, o \in Calls : Waits(d, o)' => Waits(d, o)
  BY <1>1 DEF Waits
<1>3. \A o \in Calls : (ToBeTold(o) => ToBeTold(o)') /\ (Abandoned(o) => Abandoned(o)')
  BY <1>1 DEF ToBeTold, Abandoned
<1>4. ASSUME NEW o \in Calls, ToBeTold(o)', ~ToBeTold(o)
      PROVE  r.pc = "evict" /\ \E kind \in Kinds : <<o, kind>> \in r.evicted
  BY <1>1, <1>4 DEF ToBeTold
<1>. QED
  BY <1>1, <1>2, <1>3, <1>4

\* An open session of the caller's loop is handed out.
LEMMA ReusesKeeps ==
    ASSUME PoolInv, NEW c \in Calls, NEW k \in Keys, NEW l \in Loops, call[c].pc = "new",
           Reuses(c, k, l), UNCHANGED <<ready, told, ending, posted, closes, cancels>>
    PROVE  PoolInv'
<1>1. RegistryOK /\ OwnersOK /\ call \in [Calls -> Locals] /\ InFlight
  BY DEF PoolInv, PoolTypeOK
<1>. DEFINE r == [Idle EXCEPT !.pc = "done", !.key = k, !.loop = l]
<1>2. PICK o \in entries :
        /\ older' = PutLast(o) /\ call' = [call EXCEPT ![c] = r]
        /\ UNCHANGED <<entries, inflight, owner>>
  BY DEF Reuses
<1>3. r \in Locals /\ r.pc = "done"
  BY DEF Idle, Locals, Pcs, Ids
<1>. HIDE DEF r
<1>4. /\ call' \in [Calls -> Locals] /\ call'[c] = r
      /\ \A d \in Calls : d # c => call'[d] = call[d]
      /\ \A d, p \in Calls : Waits(d, p)' => Waits(d, p)
      /\ \A p \in Calls : (ToBeTold(p)' <=> ToBeTold(p)) /\ (Abandoned(p) => Abandoned(p)')
  BY <1>2, <1>3, CallBegins
<1>5. PoolTypeOK'
  BY <1>1, <1>2, <1>4 DEF PoolTypeOK, RegistryOK, OwnersOK, PutLast, Kept
<1>6. \A p \in Ours : p \in Calls /\ p # c
  BY <1>1 DEF Ours, RegistryOK, InFlight
<1>7. Ours' = Ours
  BY <1>2 DEF Ours
<1>8. OnePerKey'
  BY <1>4, <1>6, <1>7 DEF PoolInv, OnePerKey, Key
<1>9. TakenOut'
  BY <1>3, <1>4, <1>7 DEF PoolInv, TakenOut, Out
<1>10. InFlight'
  BY <1>1, <1>2, <1>4, <1>6 DEF InFlight, Ours
<1>11. TasksOK'
  BY <1>2, <1>3, <1>4, <1>7 DEF PoolInv, TasksOK, Ready, NotLost
<1>. QED
  BY <1>5, <1>8, <1>9, <1>10, <1>11 DEF PoolInv

\* The caller joins a creation, or begins its own; what it evicts it will tell.
LEMMA JoinsOrCreatesKeeps ==
    ASSUME PoolInv, NEW c \in Calls, NEW k \in Keys, NEW l \in Loops, call[c].pc = "new",
           JoinsOrCreates(c, k, l), UNCHANGED <<ready, told, ending, posted, closes, cancels>>
    PROVE  PoolInv'
<1>1. RegistryOK /\ OwnersOK /\ call \in [Calls -> Locals] /\ InFlight /\ TasksOK /\ TakenOut
  BY DEF PoolInv, PoolTypeOK
<1>. DEFINE here  == {o \in inflight : Key(o) = k /\ Loop(o) = l}
            stale == {o \in inflight : Key(o) = k /\ Loop(o) # l}
            gone  == Foreign(k, l) \cup Oldest(entries \ Foreign(k, l))
            lost  == IF here = {} THEN stale ELSE {}
            tell  == (gone \X {"close"}) \cup (IF here = {} THEN stale \X {"cancel"} ELSE {})
            wait  == IF here = {} THEN c ELSE CHOOSE o \in here : TRUE
            r     == [pc |-> AfterEvicting(tell, c, wait), key |-> k, loop |-> l,
                      evicted |-> tell, until |-> NoCall, wait |-> wait]
<1>2. /\ entries' = entries \ gone /\ older' = Kept(entries \ gone)
      /\ gone \subseteq entries /\ lost \subseteq inflight
      /\ call' = [call EXCEPT ![c] = r]
      /\ \/ inflight' = inflight /\ lost = {} /\ owner' = owner
         \/ inflight' = (inflight \ lost) \cup {c} /\ owner' = [owner EXCEPT ![c] = "created"]
  BY DEF JoinsOrCreates, Foreign, Oldest
<1>3. \A o \in Ours : o \in Calls /\ o # c
  BY <1>1 DEF Ours, RegistryOK, InFlight
<1>4. \A o \in gone \cup lost : \E kind \in Kinds : <<o, kind>> \in tell
  BY DEF Kinds
<1>5. \A o \in Calls, kind \in Kinds : <<o, kind>> \in tell => o \in gone \cup lost
  OBVIOUS
<1>6. r \in Locals /\ r.pc \in {"evict", "create", "join"} /\ (tell # {} => r.pc = "evict")
      /\ r.evicted = tell /\ r.key = k
  <2>1. wait \in Calls
    BY <1>1 DEF RegistryOK
  <2>2. tell \in SUBSET (Calls \X Kinds)
    BY <1>1, <1>2 DEF RegistryOK, Kinds
  <2>. HIDE DEF tell, wait
  <2>. QED
    BY <2>1, <2>2 DEF Locals, Pcs, Ids, AfterEvicting
<1>7. \A o \in Ours' : o # c => o \in Ours /\ (Key(o) # k \/ c \notin Ours')
  <2>1. \A o \in entries' : o \in entries /\ Key(o) # k
    BY <1>2 DEF JoinsOrCreates, Foreign
  <2>2. CASE here # {}
    <3>1. inflight' = inflight
      BY <2>2 DEF JoinsOrCreates
    <3>. QED
      BY <1>3, <2>1, <3>1 DEF Ours
  <2>3. CASE here = {}
    <3>1. inflight' = (inflight \ stale) \cup {c}
      BY <2>3 DEF JoinsOrCreates
    <3>2. \A o \in inflight : o \notin stale => Key(o) # k
      BY <2>3
    <3>. HIDE DEF stale
    <3>. QED
      BY <2>1, <3>1, <3>2 DEF Ours
  <2>. QED
    BY <2>2, <2>3
<1>. HIDE DEF r, tell, gone, lost, here, stale, wait
<1>8. /\ call' \in [Calls -> Locals] /\ call'[c] = r
      /\ \A d \in Calls : d # c => call'[d] = call[d]
      /\ \A d, o \in Calls : Waits(d, o)' => Waits(d, o)
      /\ \A o \in Calls : (ToBeTold(o) => ToBeTold(o)') /\ (Abandoned(o) => Abandoned(o)')
      /\ \A o \in Calls : ToBeTold(o)' => ToBeTold(o) \/ o \in gone \cup lost
  <2>1. \A o \in Calls : ToBeTold(o)' /\ ~ToBeTold(o) =>
           r.pc = "evict" /\ \E kind \in Kinds : <<o, kind>> \in r.evicted
    BY <1>2, <1>6, CallBegins
  <2>2. \A o \in Calls : ToBeTold(o)' => ToBeTold(o) \/ o \in gone \cup lost
    BY <1>5, <1>6, <2>1
  <2>. QED
    BY <1>2, <1>6, <2>2, CallBegins
<1>9. \A o \in gone \cup lost : o \in Ours /\ o \notin Ours' /\ ToBeTold(o)'
  <2>1. \A o \in gone \cup lost : o \in Ours /\ o \notin Ours'
    BY <1>1, <1>2, <1>3 DEF Ours, InFlight
  <2>2. \A o \in gone \cup lost : \E kind \in Kinds : <<o, kind>> \in call'[c].evicted /\ call'[c].pc = "evict"
    BY <1>4, <1>6, <1>8
  <2>. QED
    BY <2>1, <2>2 DEF ToBeTold
<1>10. \A o \in Ours : o \in Ours' \/ o \in gone \cup lost
  BY <1>2 DEF Ours
<1>11. PoolTypeOK'
  BY <1>1, <1>2, <1>8 DEF PoolTypeOK, RegistryOK, OwnersOK, Kept
<1>12. OnePerKey'
  <2>1. \A o \in Calls : o # c => Key(o)' = Key(o)
    BY <1>8 DEF Key
  <2>2. Key(c)' = k
    BY <1>6, <1>8 DEF Key
  <2>. QED
    BY <1>3, <1>7, <2>1, <2>2 DEF PoolInv, OnePerKey
<1>13. TakenOut'
  <2>1. \A o \in Calls : Out(o) => o # c /\ o \notin Ours'
    BY <1>7 DEF Out
  <2>2. \A o \in Calls : Out(o) => Out(o)'
    BY <1>8, <2>1 DEF Out
  <2>3. \A o \in gone \cup lost : Out(o)'
    BY <1>1, <1>3, <1>8, <1>9 DEF Out, Ours, InFlight
  <2>. QED
    BY <1>1, <1>8, <2>2, <2>3 DEF TakenOut
<1>14. InFlight'
  <2>1. told[c] = {} /\ owner[c] = "none"
    BY <1>1 DEF TasksOK, Ready
  <2>2. entries' \cap inflight' = {}
    BY <1>1, <1>2, <1>3 DEF InFlight, Ours
  <2>3. \A o \in inflight' : o = c \/ (o \in inflight /\ o \in Calls /\ o # c)
    BY <1>2, <1>3 DEF Ours
  <2>4. \A o \in inflight' :
           call'[o].pc \notin {"new", "teardown"} /\ (told'[o] = {} \/ call'[o].pc = "unwind")
    BY <1>1, <1>6, <1>8, <2>1, <2>3 DEF InFlight
  <2>5. \A o \in entries' : o \in entries /\ o \in Calls /\ o # c
    BY <1>2, <1>3 DEF Ours
  <2>6. \A o \in entries' : call'[o].pc = "done" /\ owner'[o] = "open" /\ told'[o] = {}
    BY <1>1, <1>2, <1>8, <2>5 DEF InFlight, OwnersOK
  <2>. QED
    BY <2>2, <2>4, <2>6 DEF InFlight
<1>15. TasksOK'
  <2>1. ASSUME NEW o \in Calls, o # c PROVE Ready(o)' /\ NotLost(o)'
    <3>1. Ready(o) /\ NotLost(o) /\ owner'[o] = owner[o] /\ call'[o] = call[o]
      BY <1>1, <1>2, <1>8, <2>1 DEF TasksOK, OwnersOK
    <3>2. Ready(o)'
      BY <3>1 DEF Ready
    <3>3. NotLost(o)'
      BY <1>8, <1>9, <1>10, <3>1 DEF NotLost
    <3>. QED
      BY <3>2, <3>3
  <2>2. /\ owner[c] = "none" /\ ready[c] = "pending" /\ told[c] = {}
        /\ \/ owner'[c] = "none"
           \/ owner'[c] = "created" /\ c \in Ours'
    BY <1>1, <1>2 DEF TasksOK, Ready, OwnersOK, Ours
  <2>3. Ready(c)'
    BY <1>6, <1>8, <2>2 DEF Ready
  <2>4. NotLost(c)'
    BY <2>2 DEF NotLost, Live
  <2>. QED
    BY <2>1, <2>3, <2>4 DEF TasksOK
<1>. QED
  BY <1>11, <1>12, <1>13, <1>14, <1>15 DEF PoolInv
-----------------------------------------------------------------------------
\* And so does the step that changes nothing.
LEMMA StutterKeeps == PoolInv /\ UNCHANGED poolVars => PoolInv'
<1>. SUFFICES ASSUME PoolInv, UNCHANGED poolVars PROVE PoolInv'
  OBVIOUS
<1>1. UNCHANGED <<entries, older, inflight, call, owner, ready, told, ending, posted, closes, cancels>>
  BY DEF poolVars
<1>2. PoolTypeOK'
  BY <1>1 DEF PoolInv, PoolTypeOK, RegistryOK, OwnersOK
<1>3. Ours' = Ours
  BY <1>1 DEF Ours
<1>4. \A o \in Calls : (ToBeTold(o)' <=> ToBeTold(o)) /\ (Abandoned(o)' <=> Abandoned(o))
  BY <1>1 DEF ToBeTold, Abandoned
<1>5. \A c, o \in Calls : Waits(c, o)' <=> Waits(c, o)
  BY <1>1 DEF Waits
<1>6. SettledCall
  BY <1>1, <1>3, <1>4, <1>5 DEF SettledCall
<1>7. TasksOK'
  BY <1>1, <1>3, <1>4, <1>6, TasksKeep
<1>8. InFlight'
  BY <1>1 DEF PoolInv, InFlight
<1>. QED
  BY <1>2, <1>6, <1>7, <1>8, SettledCallKeeps DEF PoolInv

\* Every step keeps the invariant.
LEMMA PoolInvStep == PoolInv /\ [PoolNext]_poolVars => PoolInv'
<1>. SUFFICES ASSUME PoolInv, [PoolNext]_poolVars PROVE PoolInv'
  OBVIOUS
<1>1. CASE UNCHANGED poolVars
  BY <1>1, StutterKeeps
<1>2. ASSUME NEW c \in Calls, NEW k \in Keys, NEW l \in Loops, GetSession(c, k, l) PROVE PoolInv'
  BY <1>2, ReusesKeeps, JoinsOrCreatesKeeps DEF GetSession
<1>3. ASSUME NEW c \in Calls, CallStep(c) \/ CallerCancelled(c) PROVE PoolInv'
  BY <1>3, EvictsKeeps, EvictedKeeps, PromotesKeeps, ReturnsKeep, CancelKeeps DEF CallStep
<1>4. ASSUME NEW o \in Calls, OwnerStep(o) \/ Initializes(o) PROVE PoolInv'
  BY <1>4, OwnerKeeps
<1>5. ASSUME NEW o \in Calls, NEW kind \in Kinds, Delivered(o, kind) \/ CloserTells(o, kind) PROVE PoolInv'
  BY <1>5, DeliveryKeeps
<1>6. ASSUME NEW ks \in SUBSET Keys, Close(ks) PROVE PoolInv'
  BY <1>6, CloseKeeps
<1>. QED
  BY <1>1, <1>2, <1>3, <1>4, <1>5, <1>6 DEF PoolNext

\* The invariant holds throughout.
LEMMA PoolInvAlways == PoolSpec => []PoolInv
<1>. QED
  BY PoolInvInit, PoolInvStep, PTL DEF PoolSpec

\* Every variable has its type, and the order of the registry is one of its entries.
\* (session_pool.py 53-78.)
THEOREM PoolTypeCorrect == PoolSpec => []PoolTypeOK
<1>1. PoolInv => PoolTypeOK
  BY DEF PoolInv
<1>. QED
  BY <1>1, PoolInvAlways, PTL

\* A session that is entered is registered, in flight, told to end or about to be told,
\* for any number of callers, closers and cancellations, but for what a caller that was
\* cancelled between two loops leaves.  (session_pool.py 196-246.)
THEOREM NoSessionLeaks == PoolSpec => []NoLeakedSession
<1>1. PoolInv => NoLeakedSession
  BY DEF PoolInv, TasksOK, NotLost, NoLeakedSession, Ours
<1>. QED
  BY <1>1, PoolInvAlways, PTL

\* What the registry hands out is open, told nothing, and the only session of its key.
\* (session_pool.py 248-263.)
THEOREM RegisteredStaysOpen == PoolSpec => []RegisteredIsOpen
<1>1. PoolInv => RegisteredIsOpen
  BY DEF PoolInv, PoolTypeOK, RegistryOK, OnePerKey, TakenOut, Out, InFlight, RegisteredIsOpen, Ours
<1>. QED
  BY <1>1, PoolInvAlways, PTL
=============================================================================
