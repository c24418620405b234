--------------------------- MODULE Channels_proofs ---------------------------
(***************************************************************************)
(* Proofs about Channels, for every set of conversations and messages, any *)
(* number of deliveries, slots, mishaps and stops.                         *)
(***************************************************************************)
EXTENDS Channels, FiniteSetTheorems, TLAPS

\* Where the handling of a message has no outcome yet.
Unanswered == {"none", "queued", "identity", "slot", "command", "lookup", "missed", "locking", "again",
              "create", "store", "run"}

\* What the place of a handler says of its outcome, of the message it can have, and of its
\* thread.
Place(h) ==
    /\ at[h] \in Unanswered => result[h] = "none"
    /\ at[h] = "rejecting" => result[h] = "refused"
    /\ at[h] = "reply" => result[h] \in {"answered", "refused", "broken"}
    /\ at[h] = "sorry" => result[h] \in {"refused", "failed"}
    /\ at[h] = "parting" => result[h] = "cancelled"
    /\ at[h] \in {"lookup", "missed", "locking", "again"} => ~IsNew(h)
    /\ at[h] = "command" => IsNew(h)
    /\ at[h] = "store" => h \in makers

PlacesFit == \A h \in Handlers : Place(h)

\* A key is there because of somebody, and two handlers share one only after it had lapsed.
KeysHeld == \A h \in Handlers : Claims(h) => message[h] \in recent \cup lapsed
KeysDiffer ==
    \A g, h \in Handlers : g # h /\ message[g] = message[h] /\ Claims(g) /\ Claims(h) => message[h] \in lapsed
KeysClaimed == \A m \in recent : \E h \in Handlers : message[h] = m /\ Claims(h)

\* While a stop drains, whoever is alive has his cancellation before him or says goodbye.
StopsHold ==
    /\ cancelling # {} => manager = "draining"
    /\ manager = "draining" => \A h \in AliveNow \ cancelling : at[h] = "parting"
    /\ manager = "stopped" => AliveNow = {}

\* A lock belongs to a conversation, and to who stands at it.
InLock == {"again", "create", "store"}
LocksFit ==
    /\ \A h \in Handlers : lockOf[h] # Nothing <=> at[h] \in InLock \cup {"locking"} /\ ~IsNew(h)
    /\ \A h \in Handlers : lockOf[h] # Nothing => Chat(lockOf[h]) = Chat(h)
    /\ \A c \in Chats : locks[c] # Nothing => Chat(locks[c]) = c

\* A lock that is known is that of a handler: whoever leaves it forgets it.
LocksUsed == \A c \in Chats : locks[c] # Nothing => \E h \in Handlers : lockOf[h] = locks[c]

\* One handler at most holds a lock, and no more are at work than there are slots.
OneHolder ==
    \A g, h \in Handlers :
        lockOf[g] # Nothing /\ lockOf[g] = lockOf[h] /\ at[g] \in InLock /\ at[h] \in InLock => g = h
SlotsSuffice == Cardinality({h \in Handlers : at[h] \in InSlot}) <= HandlerSlots

\* The chats that create the thread of their conversation, or have created one.
Makes(h) == ~IsNew(h) /\ result[h] # "cancelled" /\ (at[h] = "create" \/ h \in makers)

\* While no error has happened and a conversation has no thread, all that wait for a lock
\* or hold one mean the lock that is known; and one chat at most creates a thread.
NoErrors == \A h \in Handlers : result[h] # "failed"
LockIsKnown ==
    \A h \in Handlers \ cancelling :
        lockOf[h] # Nothing /\ mapping[Chat(h)] = Nothing => locks[Chat(h)] = lockOf[h]
MakersDone == \A h \in Handlers : Makes(h) => at[h] \in {"create", "store"} \/ mapping[Chat(h)] # Nothing
OneMaker == \A g, h \in Handlers : Makes(g) /\ Makes(h) /\ Chat(g) = Chat(h) => g = h
ThreadsFit == NoErrors => LockIsKnown /\ MakersDone /\ OneMaker

KeysOK == KeysHeld /\ KeysDiffer /\ KeysClaimed
ChannelsInv ==
    /\ ChannelsTypeOK /\ PlacesFit /\ KeysOK /\ StopsHold
    /\ LocksFit /\ LocksUsed /\ OneHolder /\ SlotsSuffice /\ ThreadsFit
-----------------------------------------------------------------------------
\* Nothing was delivered at the start.
LEMMA ChannelsInvInit == ChannelsInit => ChannelsInv
<1>. SUFFICES ASSUME ChannelsInit PROVE ChannelsInv
  OBVIOUS
<1>1. ChannelsTypeOK
  BY ChannelsAssumption DEF ChannelsInit, ChannelsTypeOK, Places, Results, AliveNow, Nothing
<1>2. \A h \in Handlers : at[h] = "none" /\ result[h] = "none" /\ lockOf[h] = Nothing
  BY DEF ChannelsInit
<1>3. PlacesFit
  BY <1>2 DEF PlacesFit, Place
<1>4. KeysOK
  BY <1>2 DEF ChannelsInit, KeysOK, KeysHeld, KeysDiffer, KeysClaimed, Claims, Alive, InSlot
<1>5. StopsHold
  BY <1>2 DEF ChannelsInit, StopsHold, AliveNow, Alive, InSlot
<1>6. LocksFit /\ LocksUsed /\ OneHolder
  BY <1>2 DEF ChannelsInit, LocksFit, LocksUsed, OneHolder, InLock
<1>7. ThreadsFit
  BY <1>2 DEF ChannelsInit, ThreadsFit, LockIsKnown, MakersDone, OneMaker, Makes
<1>8. SlotsSuffice
  <2>1. {h \in Handlers : at[h] \in InSlot} = {}
    BY <1>2 DEF InSlot
  <2>. QED
    BY <2>1, FS_EmptySet, ChannelsAssumption DEF SlotsSuffice
<1>. QED
  BY <1>1, <1>3, <1>4, <1>5, <1>6, <1>7, <1>8 DEF ChannelsInv

\* The conversation of a delivery is one.
LEMMA ChatType == ChannelsTypeOK => \A h \in Handlers : Chat(h) \in Chats
BY DEF ChannelsTypeOK, Chat, Messages

\* A handler goes on, with an outcome or without one.
LEMMA GoesOn ==
    ASSUME ChannelsTypeOK, NEW h \in Handlers, NEW p \in Places, Goes(h, p)
    PROVE  /\ at' \in [Handlers -> Places] /\ at'[h] = p
           /\ \A g \in Handlers \ {h} : at'[g] = at[g]
BY DEF ChannelsTypeOK, Goes

LEMMA EndsSo ==
    ASSUME ChannelsTypeOK, NEW h \in Handlers, NEW p \in Places, NEW how \in Results, Ends(h, p, how)
    PROVE  /\ at' \in [Handlers -> Places] /\ at'[h] = p /\ \A g \in Handlers \ {h} : at'[g] = at[g]
           /\ result' \in [Handlers -> Results] /\ result'[h] = how
           /\ \A g \in Handlers \ {h} : result'[g] = result[g]
BY GoesOn DEF ChannelsTypeOK, Ends

\* It lets go of its lock, if it has one, or stores its thread.
LEMMA LetsGo ==
    ASSUME ChannelsTypeOK, NEW h \in Handlers, Unlocks(h)
    PROVE  /\ lockOf' \in [Handlers -> Handlers \cup {Nothing}] /\ lockOf'[h] = Nothing
           /\ \A g \in Handlers \ {h} : lockOf'[g] = lockOf[g]
           /\ locks' \in [Chats -> Handlers \cup {Nothing}]
           /\ \A c \in Chats : \/ locks'[c] = locks[c]
                               \/ c = Chat(h) /\ locks[c] = lockOf[h] /\ locks'[c] = Nothing
BY ChatType DEF ChannelsTypeOK, Unlocks

LEMMA IsMapped ==
    ASSUME ChannelsTypeOK, NEW h \in Handlers, Maps(h)
    PROVE  /\ mapping' \in [Chats -> Handlers \cup {Nothing}] /\ mapping'[Chat(h)] = h
           /\ \A c \in Chats \ {Chat(h)} : mapping'[c] = mapping[c]
BY ChatType DEF ChannelsTypeOK, Maps

\* The steps of a delivery and of its handler.
HandlerStep(h) ==
    Arrives(h) \/ Dispatches(h) \/ HandlerGoes(h) \/ Refuses(h) \/ HandlerFails(h) \/ StreamBreaks(h)

\* What they have in common: they concern this handler, its message and its conversation.
HandlerFrame(h) ==
    /\ UNCHANGED <<manager, message, lapsed, stops>>
    /\ cancelling' = cancelling \ {h} /\ (h \in cancelling => CancelTaken(h))
    /\ at' \in [Handlers -> Places] /\ \A g \in Handlers \ {h} : at'[g] = at[g]
    /\ result' \in [Handlers -> Results] /\ \A g \in Handlers \ {h} : result'[g] = result[g]
    /\ recent' \in {recent, recent \cup {message[h]}, recent \ {message[h]}}
    /\ mapping' \in [Chats -> Handlers \cup {Nothing}]
    /\ \A c \in Chats : mapping'[c] = mapping[c] \/ (mapping'[c] # Nothing /\ c = Chat(h))
    /\ locks' \in [Chats -> Handlers \cup {Nothing}]
    /\ \A c \in Chats \ {Chat(h)} : locks'[c] = locks[c]
    /\ lockOf' \in [Handlers -> Handlers \cup {Nothing}]
    /\ \A g \in Handlers \ {h} : lockOf'[g] = lockOf[g]
    /\ makers \subseteq makers' /\ makers' \subseteq makers \cup {h}
    /\ mishaps' \in 0..MaxMishaps

\* Most steps move the handler on, or end its handling, and leave threads and locks alone.
LEMMA OnwardFrame ==
    ASSUME ChannelsTypeOK, NEW h \in Handlers, h \notin cancelling, NEW p \in Places, NEW how \in Results,
           Ends(h, p, how) \/ (Goes(h, p) /\ UNCHANGED result),
           UNCHANGED <<others, threadVars>>, mishaps' \in {mishaps, mishaps + 1} \cap 0..MaxMishaps,
           recent' \in {recent, recent \cup {message[h]}, recent \ {message[h]}}
    PROVE  HandlerFrame(h)
<1>1. /\ at' \in [Handlers -> Places] /\ \A g \in Handlers \ {h} : at'[g] = at[g]
      /\ result' \in [Handlers -> Results] /\ \A g \in Handlers \ {h} : result'[g] = result[g]
  BY GoesOn, EndsSo DEF ChannelsTypeOK
<1>. QED
  BY <1>1 DEF HandlerFrame, others, threadVars, ChannelsTypeOK

LEMMA HandlerFrames ==
    ASSUME ChannelsTypeOK, NEW h \in Handlers, HandlerStep(h)
    PROVE  HandlerFrame(h)
<1>0. /\ mishaps \in 0..MaxMishaps /\ cancelling \subseteq AliveNow
      /\ result \in [Handlers -> Results] /\ lockOf \in [Handlers -> Handlers \cup {Nothing}]
      /\ mapping \in [Chats -> Handlers \cup {Nothing}] /\ locks \in [Chats -> Handlers \cup {Nothing}]
      /\ h # Nothing /\ Chat(h) \in Chats
  BY ChatType DEF ChannelsTypeOK, Nothing, Handlers
<1>1. {"none", "queued", "done"} \cup Alive \subseteq Places /\ {"none", "queued", "done"} \cap Alive = {}
  BY DEF Places, Alive, InSlot
<1>2. {"slot", "identity", "rejecting", "command", "lookup", "reply", "run", "missed", "locking", "again",
       "create", "store", "sorry", "parting"} \subseteq Alive
  BY DEF Alive, InSlot
<1>3. {"none", "answered", "refused", "broken", "duplicate", "failed", "cancelled"} = Results
  BY DEF Results
<1>4. CASE Arrives(h) \/ Dispatches(h)
  <2>1. h \notin cancelling
    BY <1>0, <1>1, <1>4 DEF Arrives, Dispatches, AliveNow
  <2>2. CASE Arrives(h)
    BY <1>0, <1>1, <1>3, <2>1, <2>2, OnwardFrame DEF Arrives
  <2>3. CASE Dispatches(h)
    BY <1>0, <1>1, <1>2, <1>3, <2>1, <2>3, OnwardFrame DEF Dispatches
  <2>. QED
    BY <1>4, <2>2, <2>3
<1>5. CASE Identified(h) \/ TakesSlot(h) \/ Commands(h)
  BY <1>0, <1>1, <1>2, <1>3, <1>5, OnwardFrame DEF Identified, TakesSlot, Commands, Stands
<1>6. CASE LooksUp(h) \/ TakesLock(h) \/ RunEnds(h) \/ Replies(h) \/ Refuses(h)
  BY <1>0, <1>1, <1>2, <1>3, <1>6, OnwardFrame DEF LooksUp, TakesLock, RunEnds, Replies, Refuses,
        Stands
<1>7. CASE FindsLock(h)
  <2>1. h \notin cancelling /\ UNCHANGED <<result, recent, mapping, makers, mishaps, others>>
    BY <1>7 DEF FindsLock, Stands
  <2>2. at' \in [Handlers -> Places] /\ \A g \in Handlers \ {h} : at'[g] = at[g]
    BY <1>1, <1>2, <1>7, GoesOn DEF FindsLock
  <2>3. /\ locks' \in [Chats -> Handlers \cup {Nothing}]
        /\ \A c \in Chats \ {Chat(h)} : locks'[c] = locks[c]
    BY <1>0, <1>7 DEF FindsLock
  <2>4. /\ lockOf' \in [Handlers -> Handlers \cup {Nothing}]
        /\ \A g \in Handlers \ {h} : lockOf'[g] = lockOf[g]
    BY <1>0, <1>7, <2>3 DEF FindsLock
  <2>. QED
    BY <1>0, <2>1, <2>2, <2>3, <2>4 DEF HandlerFrame, others
<1>8. CASE LooksAgain(h)
  <2>1. h \notin cancelling /\ UNCHANGED <<result, recent, mapping, makers, mishaps, others>>
    BY <1>8 DEF LooksAgain, Stands
  <2>2. (Goes(h, "run") /\ Unlocks(h)) \/ (Goes(h, "create") /\ UNCHANGED <<locks, lockOf>>)
    BY <1>8 DEF LooksAgain
  <2>3. at' \in [Handlers -> Places] /\ \A g \in Handlers \ {h} : at'[g] = at[g]
    BY <1>1, <1>2, <2>2, GoesOn
  <2>4. /\ locks' \in [Chats -> Handlers \cup {Nothing}]
        /\ \A c \in Chats \ {Chat(h)} : locks'[c] = locks[c]
        /\ lockOf' \in [Handlers -> Handlers \cup {Nothing}]
        /\ \A g \in Handlers \ {h} : lockOf'[g] = lockOf[g]
    BY <1>0, <2>2, LetsGo
  <2>. QED
    BY <1>0, <2>1, <2>3, <2>4 DEF HandlerFrame, others
<1>9. CASE CreatesThread(h)
  <2>1. h \notin cancelling /\ UNCHANGED <<result, recent, mapping, locks, lockOf, mishaps, others>>
    BY <1>9 DEF CreatesThread, Stands
  <2>2. at' \in [Handlers -> Places] /\ \A g \in Handlers \ {h} : at'[g] = at[g]
    BY <1>1, <1>2, <1>9, GoesOn DEF CreatesThread
  <2>. QED
    BY <1>0, <1>9, <2>1, <2>2 DEF HandlerFrame, others, CreatesThread
<1>10. CASE Stores(h)
  <2>1. h \notin cancelling /\ UNCHANGED <<recent, makers, mishaps, others>> /\ Maps(h) /\ Unlocks(h)
    BY <1>10 DEF Stores, Stands
  <2>2. Ends(h, "reply", "answered") \/ (Goes(h, "run") /\ UNCHANGED result)
    BY <1>10 DEF Stores
  <2>3. /\ at' \in [Handlers -> Places] /\ \A g \in Handlers \ {h} : at'[g] = at[g]
        /\ result' \in [Handlers -> Results] /\ \A g \in Handlers \ {h} : result'[g] = result[g]
    BY <1>0, <1>1, <1>2, <1>3, <2>2, GoesOn, EndsSo
  <2>. QED
    BY <1>0, <2>1, <2>3, LetsGo, IsMapped DEF HandlerFrame, others
<1>11. CASE HandlerFails(h)
  <2>1. h \notin cancelling /\ UNCHANGED <<mapping, makers, others>> /\ Unlocks(h)
        /\ recent' = recent \ {message[h]} /\ mishaps' \in 0..MaxMishaps
    BY <1>0, <1>11, ChannelsAssumption DEF HandlerFails
  <2>2. /\ at' \in [Handlers -> Places] /\ \A g \in Handlers \ {h} : at'[g] = at[g]
        /\ result' \in [Handlers -> Results] /\ \A g \in Handlers \ {h} : result'[g] = result[g]
    BY <1>1, <1>2, <1>3, <1>11, EndsSo DEF HandlerFails
  <2>. QED
    BY <1>0, <2>1, <2>2, LetsGo DEF HandlerFrame, others
<1>12. CASE CancelTaken(h)
  <2>1. /\ UNCHANGED <<manager, message, lapsed, makers, mishaps, stops>>
        /\ cancelling' = cancelling \ {h} /\ Unlocks(h) /\ (Maps(h) \/ UNCHANGED mapping)
    BY <1>12 DEF CancelTaken
  <2>2. recent' \in {recent, recent \ {message[h]}}
    BY <1>12 DEF CancelTaken, FreedBy
  <2>3. \/ Goes(h, "done") /\ UNCHANGED result
        \/ Ends(h, "done", "cancelled") \/ Ends(h, "parting", "cancelled")
    BY <1>12 DEF CancelTaken
  <2>4. /\ at' \in [Handlers -> Places] /\ \A g \in Handlers \ {h} : at'[g] = at[g]
        /\ result' \in [Handlers -> Results] /\ \A g \in Handlers \ {h} : result'[g] = result[g]
    BY <1>0, <1>1, <1>2, <1>3, <2>3, GoesOn, EndsSo
  <2>. QED
    BY <1>0, <1>12, <2>1, <2>2, <2>4, LetsGo, IsMapped DEF HandlerFrame
<1>13. CASE StreamBreaks(h)
  <2>1. mishaps' \in {mishaps, mishaps + 1} \cap 0..MaxMishaps
    BY <1>0, <1>13, ChannelsAssumption DEF StreamBreaks
  <2>. QED
    BY <1>0, <1>1, <1>2, <1>3, <1>13, <2>1, OnwardFrame DEF StreamBreaks, Stands
<1>. QED
  BY <1>4, <1>5, <1>6, <1>7, <1>8, <1>9, <1>10, <1>11, <1>12, <1>13 DEF HandlerStep, HandlerGoes

\* The same steps by where they take the handler, what becomes of its outcome and of its key.
Keeps(h) == result'[h] = result[h]
SlotIsFree == Cardinality({g \in Handlers : at[g] \in InSlot}) < HandlerSlots
OnwardMove(h) ==
    /\ UNCHANGED <<recent, threadVars>> /\ h \notin cancelling
    /\ \/ at[h] = "none" /\ at'[h] = "queued" /\ Keeps(h)
       \/ at[h] = "queued" /\ at'[h] = "done" /\ result'[h] = "duplicate" /\ message[h] \in recent
       \/ at[h] = "identity" /\ at'[h] = "slot" /\ Keeps(h)
       \/ at[h] = "identity" /\ at'[h] = "rejecting" /\ result'[h] = "refused"
       \/ /\ at[h] = "slot" /\ Keeps(h) /\ SlotIsFree
          /\ (at'[h] = "command" /\ IsNew(h)) \/ (at'[h] = "lookup" /\ ~IsNew(h))
       \/ at[h] = "command" /\ at'[h] = "create" /\ Keeps(h)
       \/ at[h] = "command" /\ at'[h] = "reply" /\ result'[h] = "refused"
       \/ at[h] = "lookup" /\ at'[h] \in {"run", "missed"} /\ Keeps(h)
       \/ /\ at[h] = "locking" /\ at'[h] = "again" /\ Keeps(h)
          /\ \A g \in Handlers : lockOf[g] = lockOf[h] => at[g] \notin InLock
       \/ at[h] = "run" /\ at'[h] = "reply" /\ result'[h] \in {"answered", "refused", "broken"}
       \/ at[h] \in {"command", "lookup", "run"} /\ at'[h] = "sorry" /\ result'[h] = "refused"
       \/ at[h] \in {"reply", "rejecting", "sorry"} /\ at'[h] = "done" /\ Keeps(h)
AcceptMove(h) ==
    /\ at[h] = "queued" /\ at'[h] \in {"slot", "identity"} /\ Keeps(h) /\ manager = "running"
    /\ message[h] \notin recent /\ recent' = recent \cup {message[h]} /\ UNCHANGED threadVars
LockMove(h) ==
    /\ at[h] = "missed" /\ Keeps(h) /\ UNCHANGED <<recent, mapping, makers>> /\ h \notin cancelling
    /\ IF locks[Chat(h)] = Nothing THEN locks'[Chat(h)] = h ELSE UNCHANGED locks
    /\ lockOf'[h] = locks'[Chat(h)]
    /\ \/ at'[h] = "locking"
       \/ at'[h] = "again" /\ \A g \in Handlers : lockOf[g] # lockOf'[h]
LookMove(h) ==
    /\ at[h] = "again" /\ Keeps(h) /\ UNCHANGED <<recent, mapping, makers>> /\ h \notin cancelling
    /\ \/ at'[h] = "run" /\ mapping[Chat(h)] # Nothing /\ Unlocks(h)
       \/ at'[h] = "create" /\ mapping[Chat(h)] = Nothing /\ UNCHANGED <<locks, lockOf>>
CreateMove(h) ==
    /\ at[h] = "create" /\ at'[h] = "store" /\ Keeps(h) /\ makers' = makers \cup {h}
    /\ UNCHANGED <<recent, mapping, locks, lockOf>> /\ h \notin cancelling
StoreMove(h) ==
    /\ at[h] = "store" /\ UNCHANGED <<recent, makers>> /\ Maps(h) /\ Unlocks(h) /\ h \notin cancelling
    /\ \/ IsNew(h) /\ at'[h] = "reply" /\ result'[h] = "answered"
       \/ ~IsNew(h) /\ at'[h] = "run" /\ Keeps(h)
PartMove(h) ==
    /\ at[h] = "parting" /\ at'[h] = "done" /\ Keeps(h) /\ h \notin cancelling
    /\ recent' = recent \ {message[h]} /\ UNCHANGED threadVars
FailMove(h) ==
    /\ at[h] \in Fallible /\ at'[h] = "sorry" /\ result'[h] = "failed" /\ h \notin cancelling
    /\ recent' = recent \ {message[h]} /\ UNCHANGED <<mapping, makers>> /\ Unlocks(h)
CancelMove(h) ==
    /\ h \in cancelling /\ Unlocks(h) /\ UNCHANGED makers
    /\ \/ at[h] = "sorry" /\ at'[h] = "done" /\ Keeps(h) /\ UNCHANGED recent
       \/ /\ at[h] # "sorry" /\ at'[h] = "done" /\ result'[h] = "cancelled"
          /\ recent' = recent \ {message[h]}
       \/ at[h] = "run" /\ at'[h] = "parting" /\ result'[h] = "cancelled" /\ UNCHANGED recent
    /\ UNCHANGED mapping \/ (at[h] = "store" /\ Maps(h))

HandlerMove(h) ==
    \/ OnwardMove(h) \/ AcceptMove(h) \/ LockMove(h) \/ LookMove(h) \/ CreateMove(h) \/ StoreMove(h)
    \/ PartMove(h) \/ FailMove(h) \/ CancelMove(h)

LEMMA HandlerMoves ==
    ASSUME ChannelsTypeOK, NEW h \in Handlers, HandlerStep(h)
    PROVE  HandlerMove(h)
<1>1. {"none", "queued", "done", "slot", "identity", "rejecting", "command", "lookup", "reply", "run",
       "missed", "locking", "again", "create", "store", "sorry", "parting"} \subseteq Places
  BY DEF Places, Alive, InSlot
<1>2. {"none", "answered", "refused", "broken", "duplicate", "failed", "cancelled"} = Results
  BY DEF Results
<1>3. \A p \in Places : Goes(h, p) => at'[h] = p
  BY GoesOn
<1>4. \A p \in Places, how \in Results : Ends(h, p, how) => at'[h] = p /\ result'[h] = how
  BY EndsSo
<1>5. CASE Arrives(h)
  <2>1. h \notin cancelling
    BY <1>5 DEF Arrives, ChannelsTypeOK, AliveNow, Alive, InSlot
  <2>. QED
    BY <1>1, <1>3, <1>5, <2>1 DEF Arrives, OnwardMove, Keeps, HandlerMove
<1>6. CASE Dispatches(h)
  <2>1. h \notin cancelling
    BY <1>6 DEF Dispatches, ChannelsTypeOK, AliveNow, Alive, InSlot
  <2>2. CASE message[h] \in recent
    <3>1. recent' = recent /\ at[h] = "queued" /\ at'[h] = "done" /\ result'[h] = "duplicate" /\ UNCHANGED threadVars
      BY <1>1, <1>2, <1>4, <1>6, <2>2 DEF Dispatches, IsDuplicate
    <3>. QED
      BY <2>1, <2>2, <3>1 DEF OnwardMove, HandlerMove
  <2>3. CASE message[h] \notin recent
    BY <1>1, <1>3, <1>6, <2>3 DEF Dispatches, IsDuplicate, AcceptMove, Keeps, HandlerMove
  <2>. QED
    BY <2>2, <2>3
<1>7. CASE Identified(h) \/ TakesSlot(h) \/ Commands(h) \/ LooksUp(h)
  BY <1>1, <1>2, <1>3, <1>4, <1>7
  DEF Identified, TakesSlot, Commands, LooksUp, Stands, UsesSlot, SlotIsFree, OnwardMove, Keeps,
      HandlerMove
<1>8. CASE TakesLock(h)
  BY <1>1, <1>3, <1>8 DEF TakesLock, Holds, InLock, Stands, OnwardMove, Keeps, HandlerMove
<1>9. CASE RunEnds(h) \/ StreamBreaks(h) \/ Refuses(h)
  BY <1>1, <1>2, <1>4, <1>9 DEF RunEnds, StreamBreaks, Refuses, Stands, OnwardMove, HandlerMove
<1>10. CASE Replies(h)
  BY <1>1, <1>3, <1>10 DEF Replies, OnwardMove, PartMove, Keeps, HandlerMove
<1>11. CASE FindsLock(h)
  <2>1. IF locks[Chat(h)] = Nothing THEN locks'[Chat(h)] = h ELSE UNCHANGED locks
    BY <1>11, ChatType DEF FindsLock, ChannelsTypeOK
  <2>2. lockOf'[h] = locks'[Chat(h)]
    BY <1>11 DEF FindsLock, ChannelsTypeOK
  <2>. QED
    BY <1>1, <1>3, <1>11, <2>1, <2>2 DEF FindsLock, Stands, LockMove, Keeps, HandlerMove
<1>12. CASE LooksAgain(h)
  BY <1>1, <1>3, <1>12 DEF LooksAgain, CreatedMeanwhile, HasThread, Stands, LookMove, Keeps,
        HandlerMove
<1>13. CASE CreatesThread(h)
  BY <1>1, <1>3, <1>13 DEF CreatesThread, Stands, CreateMove, Keeps, HandlerMove
<1>14. CASE Stores(h)
  BY <1>1, <1>2, <1>3, <1>4, <1>14 DEF Stores, Stands, StoreMove, Keeps, HandlerMove
<1>15. CASE HandlerFails(h)
  BY <1>1, <1>2, <1>4, <1>15 DEF HandlerFails, FailMove, HandlerMove
<1>16. CASE CancelTaken(h)
  BY <1>1, <1>2, <1>3, <1>4, <1>16 DEF CancelTaken, FreedBy, CancelMove, Keeps, HandlerMove
<1>. QED
  BY <1>5, <1>6, <1>7, <1>8, <1>9, <1>10, <1>11, <1>12, <1>13, <1>14, <1>15, <1>16
  DEF HandlerStep, HandlerGoes

\* The types hold after a step of a handler.
LEMMA FrameType ==
    ASSUME ChannelsTypeOK, NEW h \in Handlers, HandlerFrame(h)
    PROVE  ChannelsTypeOK'
<1>1. cancelling' \subseteq AliveNow'
  BY DEF ChannelsTypeOK, HandlerFrame, AliveNow
<1>2. recent' \subseteq Messages /\ makers' \subseteq Handlers
  BY DEF ChannelsTypeOK, HandlerFrame
<1>. QED
  BY <1>1, <1>2 DEF ChannelsTypeOK, HandlerFrame

\* A place still fits the outcome of the handler, and the message it is for.
LEMMA PlacesStep ==
    ASSUME ChannelsTypeOK, PlacesFit, NEW h \in Handlers, HandlerFrame(h), HandlerMove(h)
    PROVE  PlacesFit'
<1>1. \A g \in Handlers : (Place(g) /\ at'[g] = at[g] /\ result'[g] = result[g]) => Place(g)'
  BY DEF Place, HandlerFrame, IsNew
<1>. SUFFICES Place(h)'
  BY <1>1 DEF PlacesFit, HandlerFrame
<1>2. Place(h)
  BY DEF PlacesFit
<1>3. UNCHANGED message
  BY DEF HandlerFrame
<1>4. CASE OnwardMove(h)
  BY <1>2, <1>3, <1>4 DEF OnwardMove, Keeps, Place, Unanswered, IsNew
<1>5. CASE AcceptMove(h) \/ LockMove(h) \/ LookMove(h)
  BY <1>2, <1>3, <1>5 DEF AcceptMove, LockMove, LookMove, Keeps, Place, Unanswered, IsNew
<1>6. CASE CreateMove(h) \/ StoreMove(h) \/ PartMove(h)
  BY <1>2, <1>3, <1>6 DEF CreateMove, StoreMove, PartMove, Keeps, Place, Unanswered, IsNew
<1>7. CASE FailMove(h) \/ CancelMove(h)
  BY <1>2, <1>3, <1>7 DEF FailMove, CancelMove, Keeps, Place, Unanswered, IsNew
<1>. QED
  BY <1>4, <1>5, <1>6, <1>7 DEF HandlerMove

\* A handler keeps its claim, makes one on a key that was not there, or gives up both.
KeyMove(h) ==
    \/ (Claims(h)' <=> Claims(h)) /\ recent' = recent
    \/ ~Claims(h) /\ Claims(h)' /\ message[h] \notin recent /\ recent' = recent \cup {message[h]}
    \/ Claims(h) /\ ~Claims(h)' /\ recent' = recent \ {message[h]}

LEMMA KeyMoves ==
    ASSUME ChannelsTypeOK, PlacesFit, NEW h \in Handlers, HandlerFrame(h), HandlerMove(h)
    PROVE  KeyMove(h)
<1>1. Place(h) /\ Place(h)'
  BY PlacesStep DEF PlacesFit
<1>2. CASE OnwardMove(h)
  BY <1>1, <1>2 DEF OnwardMove, Keeps, Place, Unanswered, KeyMove, Claims, Alive, InSlot
<1>3. CASE AcceptMove(h) \/ LockMove(h) \/ LookMove(h)
  BY <1>1, <1>3 DEF AcceptMove, LockMove, LookMove, Keeps, Place, Unanswered, KeyMove, Claims,
        Alive, InSlot
<1>4. CASE CreateMove(h) \/ StoreMove(h) \/ PartMove(h)
  BY <1>1, <1>4 DEF CreateMove, StoreMove, PartMove, Keeps, Place, Unanswered, KeyMove, Claims,
        Alive, InSlot
<1>5. CASE FailMove(h)
  BY <1>1, <1>5 DEF FailMove, Fallible, Place, Unanswered, KeyMove, Claims, Alive, InSlot
<1>6. CASE CancelMove(h)
  <2>1. at[h] \in Alive
    BY <1>6 DEF CancelMove, ChannelsTypeOK, AliveNow
  <2>. QED
    BY <1>1, <1>6, <2>1 DEF CancelMove, Keeps, Place, Unanswered, KeyMove, Claims, Alive, InSlot
<1>. QED
  BY <1>2, <1>3, <1>4, <1>5, <1>6 DEF HandlerMove

LEMMA KeysStep ==
    ASSUME KeysOK, NEW h \in Handlers, HandlerFrame(h), KeyMove(h)
    PROVE  KeysOK'
<1>1. UNCHANGED <<message, lapsed>> /\ \A g \in Handlers \ {h} : Claims(g)' <=> Claims(g)
  BY DEF HandlerFrame, Claims
<1>2. KeysHeld'
  BY <1>1 DEF KeysOK, KeysHeld, KeysDiffer, KeyMove
<1>3. KeysDiffer'
  BY <1>1 DEF KeysOK, KeysHeld, KeysDiffer, KeyMove
<1>4. KeysClaimed'
  <2>1. SUFFICES ASSUME NEW m \in recent' PROVE \E g \in Handlers : message[g] = m /\ Claims(g)'
    BY <1>1 DEF KeysClaimed
  <2>2. CASE m = message[h] /\ Claims(h)'
    BY <2>2
  <2>3. CASE m \in recent /\ ~(m = message[h] /\ Claims(h)')
    <3>1. PICK g \in Handlers : message[g] = m /\ Claims(g)
      BY <2>3 DEF KeysOK, KeysClaimed
    <3>. QED
      BY <1>1, <2>1, <2>3, <3>1 DEF KeyMove
  <2>. QED
    BY <2>1, <2>2, <2>3 DEF KeyMove
<1>. QED
  BY <1>2, <1>3, <1>4 DEF KeysOK

\* A stop finds whom it has cancelled, and nobody else begins.
LEMMA StopsStep ==
    ASSUME ChannelsTypeOK, StopsHold, NEW h \in Handlers, HandlerFrame(h), HandlerMove(h)
    PROVE  StopsHold'
<1>1. UNCHANGED manager /\ cancelling' \subseteq cancelling
  BY DEF HandlerFrame
<1>2. \A g \in Handlers \ {h} :
          (g \in AliveNow' <=> g \in AliveNow) /\ (g \in cancelling' <=> g \in cancelling) /\ at'[g] = at[g]
  BY DEF HandlerFrame, AliveNow
<1>3. h \in AliveNow' => h \in AliveNow \/ manager = "running"
  BY DEF HandlerMove, OnwardMove, AcceptMove, LockMove, LookMove, CreateMove, StoreMove, PartMove,
         FailMove, CancelMove, AliveNow, Alive, InSlot, Fallible, ChannelsTypeOK
<1>4. manager = "draining" /\ h \in AliveNow' => at'[h] = "parting"
  <2>1. manager = "draining" /\ h \in AliveNow' => h \in cancelling \/ at[h] = "parting"
    BY <1>3 DEF StopsHold
  <2>. QED
    BY <2>1 DEF HandlerMove, OnwardMove, AcceptMove, LockMove, LookMove, CreateMove, StoreMove,
         PartMove, FailMove, CancelMove, AliveNow, Alive, InSlot, Fallible
<1>5. manager = "stopped" => AliveNow' = {}
  BY <1>2, <1>3 DEF StopsHold, AliveNow
<1>6. manager = "draining" => \A g \in AliveNow' \ cancelling' : at'[g] = "parting"
  BY <1>2, <1>4 DEF StopsHold, AliveNow
<1>. QED
  BY <1>1, <1>5, <1>6 DEF StopsHold

\* A handler keeps the lock it waits for or holds, finds one, or lets go of it.
AtLock == InLock \cup {"locking"}
LockKept(h) ==
    /\ UNCHANGED <<locks, lockOf>>
    /\ (at'[h] \in AtLock /\ ~IsNew(h)) <=> (at[h] \in AtLock /\ ~IsNew(h))
    /\ at'[h] \in InLock => \/ at[h] \in InLock \/ IsNew(h)
                            \/ \A g \in Handlers : lockOf[g] = lockOf[h] => at[g] \notin InLock
LockLeft(h) == Unlocks(h) /\ at'[h] \notin AtLock

LEMMA LockMoves ==
    ASSUME ChannelsTypeOK, PlacesFit, NEW h \in Handlers, HandlerMove(h)
    PROVE  LockKept(h) \/ LockMove(h) \/ LockLeft(h)
<1>1. Place(h)
  BY DEF PlacesFit
<1>2. CASE OnwardMove(h)
  BY <1>1, <1>2 DEF OnwardMove, Place, LockKept, AtLock, InLock, threadVars
<1>3. CASE AcceptMove(h) \/ CreateMove(h) \/ PartMove(h)
  BY <1>3 DEF AcceptMove, CreateMove, PartMove, LockKept, AtLock, InLock, threadVars
<1>4. CASE LookMove(h)
  BY <1>4 DEF LookMove, LockKept, LockLeft, AtLock, InLock
<1>5. CASE StoreMove(h) \/ FailMove(h) \/ CancelMove(h)
  BY <1>5 DEF StoreMove, FailMove, CancelMove, LockLeft, AtLock, InLock
<1>. QED
  BY <1>2, <1>3, <1>4, <1>5 DEF HandlerMove

LEMMA LocksStep ==
    ASSUME ChannelsTypeOK, PlacesFit, LocksFit, LocksUsed, OneHolder,
           NEW h \in Handlers, HandlerFrame(h), LockKept(h) \/ LockMove(h) \/ LockLeft(h)
    PROVE  LocksFit' /\ LocksUsed' /\ OneHolder'
<1>1. /\ UNCHANGED message /\ \A g : Chat(g)' = Chat(g) /\ IsNew(g)' = IsNew(g)
      /\ \A g \in Handlers \ {h} : at'[g] = at[g] /\ lockOf'[g] = lockOf[g]
      /\ Chat(h) \in Chats /\ h # Nothing /\ Place(h)
  BY ChatType DEF HandlerFrame, Chat, IsNew, Handlers, Nothing, PlacesFit
<1>2. CASE LockKept(h)
  BY <1>1, <1>2 DEF LockKept, LocksFit, LocksUsed, OneHolder, AtLock, InLock
<1>3. CASE LockMove(h)
  <2>1. lockOf'[h] # Nothing /\ lockOf'[h] = locks'[Chat(h)] /\ Chat(lockOf'[h]) = Chat(h)
    BY <1>1, <1>3 DEF LockMove, LocksFit
  <2>2. at'[h] \in AtLock /\ ~IsNew(h) /\ \A g : at'[h] \in InLock => lockOf[g] # lockOf'[h] \/ g \notin Handlers
    BY <1>1, <1>3 DEF LockMove, Place, AtLock, InLock
  <2>3. \A c \in Chats : locks'[c] # Nothing => Chat(locks'[c]) = c
    BY <1>1, <1>3, <2>1 DEF LockMove, LocksFit, HandlerFrame
  <2>4. LocksFit'
    BY <1>1, <2>1, <2>2, <2>3 DEF LocksFit, AtLock
  <2>5. OneHolder'
    BY <1>1, <2>1, <2>2 DEF OneHolder
  <2>6. LocksUsed'
    <3>1. \A c \in Chats \ {Chat(h)} : locks'[c] = locks[c] /\ (locks[c] # Nothing => locks[c] # lockOf[h])
      BY <1>1, <1>3 DEF HandlerFrame, LocksFit, LockMove, Place, InLock
    <3>. QED
      BY <1>1, <2>1, <3>1 DEF LocksUsed
  <2>. QED
    BY <2>4, <2>5, <2>6
<1>4. CASE LockLeft(h)
  <2>1. /\ lockOf'[h] = Nothing /\ at'[h] \notin AtLock
        /\ \A c \in Chats : locks'[c] = locks[c] \/ locks'[c] = Nothing
    BY <1>4, LetsGo DEF LockLeft
  <2>2. LocksFit'
    BY <1>1, <2>1 DEF LocksFit, AtLock
  <2>3. OneHolder'
    BY <1>1, <2>1 DEF OneHolder
  <2>4. LocksUsed'
    <3>1. \A c \in Chats : locks'[c] # Nothing => locks'[c] = locks[c] /\ locks[c] # lockOf[h]
      BY <1>1, <1>4 DEF LockLeft, Unlocks, LocksFit, ChannelsTypeOK
    <3>2. \A c \in Chats : locks'[c] # Nothing => \E g \in Handlers \ {h} : lockOf[g] = locks[c]
      BY <3>1 DEF LocksUsed
    <3>. QED
      BY <1>1, <3>1, <3>2 DEF LocksUsed
  <2>. QED
    BY <2>2, <2>3, <2>4
<1>. QED
  BY <1>2, <1>3, <1>4

\* A handler enters where a slot is free, and the rest are at work already.
LEMMA SlotsStep ==
    ASSUME ChannelsTypeOK, SlotsSuffice, NEW h \in Handlers, HandlerFrame(h), HandlerMove(h)
    PROVE  SlotsSuffice'
<1>. DEFINE S == {g \in Handlers : at[g] \in InSlot}
<1>1. /\ IsFiniteSet(S) /\ IsFiniteSet(S \cup {h})
      /\ Cardinality(S) \in Nat /\ Cardinality(S \cup {h}) <= Cardinality(S) + 1
  <2>1. IsFiniteSet(Handlers)
    <3>. MaxDeliveries \in Int /\ 1 \in Int
      BY ChannelsAssumption
    <3>. QED
      BY FS_Interval DEF Handlers
  <2>2. IsFiniteSet(S)
    <3>. S \subseteq Handlers
      OBVIOUS
    <3>. QED
      BY <2>1, FS_Subset
  <2>. HIDE DEF S
  <2>3. Cardinality(S) \in Nat
    BY <2>2, FS_CardinalityType
  <2>4. IsFiniteSet(S \cup {h}) /\ Cardinality(S \cup {h}) \in {Cardinality(S), Cardinality(S) + 1}
    BY <2>2, FS_AddElement
  <2>. QED
    BY <2>2, <2>3, <2>4
<1>2. S' \subseteq S \cup {h}
  BY DEF HandlerFrame
<1>3. CASE SlotIsFree
  BY <1>1, <1>2, <1>3, FS_Subset, FS_CardinalityType, ChannelsAssumption DEF SlotIsFree,
        SlotsSuffice
<1>4. CASE at'[h] \in InSlot => at[h] \in InSlot
  <2>1. S' \subseteq S
    BY <1>2, <1>4
  <2>. QED
    BY <1>1, <2>1, FS_Subset, FS_CardinalityType, ChannelsAssumption DEF SlotsSuffice
<1>5. SlotIsFree \/ (at'[h] \in InSlot => at[h] \in InSlot)
  BY DEF HandlerMove, OnwardMove, AcceptMove, LockMove, LookMove, CreateMove, StoreMove, PartMove,
         FailMove, CancelMove, InSlot, Fallible
<1>. QED
  BY <1>3, <1>4, <1>5

\* An error is never forgotten.
LEMMA ErrorsStay ==
    ASSUME ChannelsTypeOK, PlacesFit, NEW h \in Handlers, HandlerFrame(h), HandlerMove(h), NoErrors'
    PROVE  NoErrors /\ ~FailMove(h)
<1>1. Place(h) /\ result'[h] # "failed" /\ \A g \in Handlers \ {h} : result[g] # "failed"
  BY DEF PlacesFit, NoErrors, HandlerFrame
<1>2. ~FailMove(h)
  BY <1>1 DEF FailMove
<1>3. result[h] # "failed"
  <2>1. CASE OnwardMove(h)
    BY <1>1, <2>1 DEF OnwardMove, Keeps, Place, Unanswered
  <2>2. CASE AcceptMove(h) \/ LockMove(h) \/ LookMove(h) \/ CreateMove(h) \/ PartMove(h)
    BY <1>1, <2>2 DEF AcceptMove, LockMove, LookMove, CreateMove, PartMove, Keeps
  <2>3. CASE StoreMove(h)
    BY <1>1, <2>3 DEF StoreMove, Place, Unanswered
  <2>4. CASE CancelMove(h)
    <3>1. at[h] \in Alive
      BY <2>4 DEF CancelMove, ChannelsTypeOK, AliveNow
    <3>. QED
      BY <1>1, <2>4, <3>1 DEF CancelMove, Keeps, Place, Unanswered, Alive, InSlot
  <2>. QED
    BY <1>2, <2>1, <2>2, <2>3, <2>4 DEF HandlerMove
<1>. QED
  BY <1>1, <1>2, <1>3 DEF NoErrors

\* Where one handler is cancelled, nobody that a stop has left alone has a lock.
LEMMA AllAreCancelled ==
    ASSUME ChannelsTypeOK, StopsHold, LocksFit, cancelling # {}, NEW g \in Handlers \ cancelling
    PROVE  lockOf[g] = Nothing /\ at[g] \notin InLock
<1>1. at[g] \in InLock \cup {"locking"} => g \in AliveNow /\ at[g] # "parting"
  BY DEF AliveNow, Alive, InSlot, InLock
<1>. QED
  BY <1>1 DEF StopsHold, LocksFit

\* A handler becomes a maker where it has found no thread under the lock.
LEMMA MakesMove ==
    ASSUME ChannelsTypeOK, PlacesFit, NEW h \in Handlers, HandlerFrame(h), HandlerMove(h), Makes(h)'
    PROVE  Makes(h) \/ (LookMove(h) /\ mapping[Chat(h)] = Nothing /\ ~IsNew(h))
<1>1. /\ Place(h) /\ ~IsNew(h) /\ result'[h] # "cancelled" /\ (at'[h] = "create" \/ h \in makers')
      /\ makers' \subseteq makers \cup {h}
  BY DEF PlacesFit, Makes, HandlerFrame, IsNew
<1>2. CASE OnwardMove(h)
  BY <1>1, <1>2 DEF OnwardMove, Keeps, Place, Unanswered, Makes, threadVars
<1>3. CASE AcceptMove(h) \/ LockMove(h) \/ CreateMove(h) \/ StoreMove(h) \/ PartMove(h)
  BY <1>1, <1>3 DEF AcceptMove, LockMove, CreateMove, StoreMove, PartMove, Keeps, Place,
        Unanswered, Makes, threadVars
<1>4. CASE LookMove(h)
  BY <1>1, <1>4 DEF LookMove, Keeps, Makes
<1>5. CASE FailMove(h)
  BY <1>1, <1>5 DEF FailMove, Fallible, Place, Unanswered, Makes
<1>6. CASE CancelMove(h)
  BY <1>1, <1>6 DEF CancelMove, Keeps, Makes
<1>. QED
  BY <1>2, <1>3, <1>4, <1>5, <1>6 DEF HandlerMove

\* While a conversation has no thread, a lock that is let go of is that of a cancelled
\* handler, so that whoever goes on has the lock that is known.
LEMMA LockIsKnownStep ==
    ASSUME ChannelsTypeOK, PlacesFit, StopsHold, LocksFit, LockIsKnown,
           NEW h \in Handlers, HandlerFrame(h), HandlerMove(h), ~FailMove(h)
    PROVE  LockIsKnown'
<1>1. SUFFICES ASSUME NEW g \in Handlers, g \notin cancelling', lockOf'[g] # Nothing, mapping'[Chat(g)] = Nothing
               PROVE  locks'[Chat(g)] = lockOf'[g]
  BY DEF LockIsKnown, HandlerFrame, Chat
<1>2. /\ Chat(g) \in Chats /\ Chat(h) \in Chats /\ h # Nothing /\ mapping[Chat(g)] = Nothing
      /\ cancelling' = cancelling \ {h}
  BY <1>1, ChatType DEF HandlerFrame, Handlers, Nothing
<1>3. CASE CancelMove(h)
  <2>1. lockOf'[h] = Nothing
    BY <1>3, LetsGo DEF CancelMove
  <2>2. g # h /\ lockOf[g] = lockOf'[g] /\ g \notin cancelling
    BY <1>1, <1>2, <2>1 DEF HandlerFrame
  <2>. QED
    BY <1>1, <1>3, <2>2, AllAreCancelled DEF CancelMove
<1>4. CASE StoreMove(h) \/ (LookMove(h) /\ Unlocks(h) /\ mapping[Chat(h)] # Nothing)
  <2>1. lockOf'[h] = Nothing /\ \A c \in Chats : locks'[c] = locks[c] \/ c = Chat(h)
    BY <1>4, LetsGo DEF StoreMove
  <2>2. Chat(g) # Chat(h)
    BY <1>1, <1>2, <1>4, IsMapped DEF StoreMove
  <2>3. g # h
    BY <2>2
  <2>. QED
    BY <1>1, <1>2, <2>1, <2>2, <2>3 DEF HandlerFrame, LockIsKnown
<1>5. CASE LockMove(h)
  <2>1. CASE g = h
    BY <1>5, <2>1 DEF LockMove
  <2>2. CASE g # h
    <3>1. locks[Chat(g)] = lockOf[g] /\ lockOf'[g] = lockOf[g]
      BY <1>1, <1>2, <2>2 DEF HandlerFrame, LockIsKnown
    <3>. QED
      BY <1>1, <1>2, <1>5, <3>1 DEF LockMove, HandlerFrame
  <2>. QED
    BY <2>1, <2>2
<1>6. CASE UNCHANGED <<locks, lockOf>> /\ h \notin cancelling
  BY <1>1, <1>2, <1>6 DEF LockIsKnown
<1>7. h \in cancelling => CancelMove(h)
  BY DEF HandlerMove, OnwardMove, AcceptMove, LockMove, LookMove, CreateMove, StoreMove, PartMove,
         FailMove, ChannelsTypeOK, AliveNow, Alive, InSlot
<1>. QED
  BY <1>3, <1>4, <1>5, <1>6, <1>7
  DEF HandlerMove, OnwardMove, AcceptMove, LookMove, CreateMove, PartMove, threadVars

\* Who is making a thread stands in the lock, or the conversation has one.
LEMMA MakersDoneStep ==
    ASSUME ChannelsTypeOK, PlacesFit, MakersDone, NEW h \in Handlers, HandlerFrame(h), HandlerMove(h), ~FailMove(h)
    PROVE  MakersDone'
<1>1. /\ Chat(h)' = Chat(h) /\ IsNew(h)' = IsNew(h) /\ Place(h) /\ Chat(h) \in Chats /\ h # Nothing
      /\ \A c \in Chats : mapping[c] # Nothing => mapping'[c] # Nothing
  BY ChatType DEF HandlerFrame, Chat, IsNew, PlacesFit, Handlers, Nothing
<1>2. ASSUME NEW g \in Handlers \ {h}, Makes(g)'
      PROVE  at'[g] \in {"create", "store"} \/ mapping'[Chat(g)'] # Nothing
  <2>1. Makes(g) /\ Chat(g) \in Chats /\ at'[g] = at[g] /\ Chat(g)' = Chat(g)
    BY <1>2, ChatType DEF HandlerFrame, Makes, IsNew, Chat
  <2>. QED
    BY <1>1, <2>1 DEF MakersDone
<1>3. ASSUME Makes(h)'
      PROVE  at'[h] \in {"create", "store"} \/ mapping'[Chat(h)'] # Nothing
  <2>1. CASE LookMove(h) /\ mapping[Chat(h)] = Nothing
    BY <2>1 DEF LookMove
  <2>2. CASE Makes(h) /\ mapping[Chat(h)] # Nothing
    BY <1>1, <2>2
  <2>3. CASE Makes(h) /\ at[h] \in {"create", "store"}
    <3>1. CASE CreateMove(h)
      BY <3>1 DEF CreateMove
    <3>2. CASE StoreMove(h)
      BY <1>1, <3>2, IsMapped DEF StoreMove
    <3>3. CASE CancelMove(h)
      BY <1>3, <2>3, <3>3 DEF CancelMove, Makes
    <3>. QED
      BY <2>3, <3>1, <3>2, <3>3 DEF HandlerMove, OnwardMove, AcceptMove, LockMove, LookMove,
            PartMove
  <2>. QED
    BY <1>3, <2>1, <2>2, <2>3, MakesMove DEF MakersDone
<1>. QED
  BY <1>2, <1>3 DEF MakersDone

\* Two chats of a conversation cannot both become makers: the second would find the lock
\* with the first, or its thread.
LEMMA OneMakerStep ==
    ASSUME ChannelsTypeOK, PlacesFit, StopsHold, LocksFit, OneHolder, LockIsKnown, MakersDone, OneMaker,
           NEW h \in Handlers, HandlerFrame(h), HandlerMove(h)
    PROVE  OneMaker'
<1>1. /\ \A g \in Handlers : Chat(g)' = Chat(g) /\ Chat(g) \in Chats
      /\ \A g \in Handlers \ {h} : Makes(g)' => Makes(g)
  BY ChatType DEF HandlerFrame, Makes, IsNew, Chat
<1>2. ASSUME NEW g \in Handlers \ {h}, Makes(g), Chat(g) = Chat(h), Makes(h)'
      PROVE  FALSE
  <2>1. LookMove(h) /\ mapping[Chat(h)] = Nothing /\ ~IsNew(h)
    BY <1>2, MakesMove DEF OneMaker
  <2>2. at[g] \in {"create", "store"} /\ ~IsNew(g)
    BY <1>2, <2>1 DEF MakersDone, Makes
  <2>3. at[h] = "again" /\ h \notin cancelling
    BY <2>1 DEF LookMove
  <2>4. at[g] \in InLock /\ at[h] \in InLock /\ lockOf[g] # Nothing /\ lockOf[h] # Nothing
    BY <2>1, <2>2, <2>3 DEF LocksFit, InLock
  <2>5. g \notin cancelling
    BY <2>3, <2>4, AllAreCancelled
  <2>6. lockOf[g] = lockOf[h]
    BY <1>2, <2>1, <2>3, <2>4, <2>5 DEF LockIsKnown
  <2>. QED
    BY <2>4, <2>6 DEF OneHolder
<1>. QED
  BY <1>1, <1>2 DEF OneMaker

LEMMA ThreadsStep ==
    ASSUME ChannelsTypeOK, PlacesFit, StopsHold, LocksFit, OneHolder, ThreadsFit,
           NEW h \in Handlers, HandlerFrame(h), HandlerMove(h)
    PROVE  ThreadsFit'
BY ErrorsStay, LockIsKnownStep, MakersDoneStep, OneMakerStep DEF ThreadsFit
-----------------------------------------------------------------------------
LEMMA HandlerKeeps ==
    ASSUME ChannelsInv, NEW h \in Handlers, HandlerStep(h)
    PROVE  ChannelsInv'
<1>1. HandlerFrame(h) /\ HandlerMove(h)
  BY HandlerFrames, HandlerMoves DEF ChannelsInv
<1>2. ChannelsTypeOK' /\ PlacesFit'
  BY <1>1, FrameType, PlacesStep DEF ChannelsInv
<1>3. KeysOK'
  BY <1>1, KeyMoves, KeysStep DEF ChannelsInv
<1>4. StopsHold'
  BY <1>1, StopsStep DEF ChannelsInv
<1>5. LocksFit' /\ LocksUsed' /\ OneHolder'
  BY <1>1, LockMoves, LocksStep DEF ChannelsInv
<1>6. ThreadsFit'
  BY <1>1, ThreadsStep DEF ChannelsInv
<1>7. SlotsSuffice'
  BY <1>1, SlotsStep DEF ChannelsInv
<1>. QED
  BY <1>2, <1>3, <1>4, <1>5, <1>6, <1>7 DEF ChannelsInv

\* A key that lapses takes nothing from anybody: its message may be handled again.
LEMMA ExpiryKeeps ==
    ASSUME ChannelsInv, NEW m \in Messages, KeyExpires(m)
    PROVE  ChannelsInv'
<1>1. UNCHANGED <<manager, at, message, result, mapping, locks, lockOf, makers, cancelling, stops>>
  BY DEF KeyExpires, threadVars
<1>2. recent' = recent \ {m} /\ lapsed' = lapsed \cup {m} /\ mishaps < MaxMishaps /\ mishaps' = mishaps + 1
  BY DEF KeyExpires
<1>3. ChannelsTypeOK'
  BY <1>1, <1>2, ChannelsAssumption DEF ChannelsInv, ChannelsTypeOK, AliveNow
<1>4. PlacesFit'
  BY <1>1 DEF ChannelsInv, PlacesFit, Place, IsNew
<1>5. KeysOK'
  BY <1>1, <1>2 DEF ChannelsInv, KeysOK, KeysHeld, KeysDiffer, KeysClaimed, Claims
<1>6. StopsHold' /\ LocksFit' /\ LocksUsed' /\ OneHolder' /\ SlotsSuffice'
  BY <1>1 DEF ChannelsInv, StopsHold, LocksFit, LocksUsed, OneHolder, SlotsSuffice, AliveNow,
        Chat, IsNew
<1>7. ThreadsFit'
  BY <1>1 DEF ChannelsInv, ThreadsFit, NoErrors, LockIsKnown, MakersDone, OneMaker, Makes, Chat,
        IsNew
<1>. QED
  BY <1>3, <1>4, <1>5, <1>6, <1>7 DEF ChannelsInv

\* The manager starts, and stops in three steps, of which one cancels whoever is alive.
LEMMA ManagerKeeps ==
    ASSUME ChannelsInv, StartsManager \/ StopsManager \/ CancelsHandlers \/ Drained \/ UNCHANGED channelVars
    PROVE  ChannelsInv'
<1>1. UNCHANGED <<at, message, result, recent, lapsed, mapping, locks, lockOf, makers, mishaps>>
  BY DEF StartsManager, StopsManager, CancelsHandlers, Drained, channelVars, threadVars
<1>2. /\ manager' \in {"stopped", "running", "stopping", "draining"} /\ stops' \in 0..MaxStops
      /\ cancelling' \subseteq AliveNow /\ cancelling \subseteq cancelling'
  BY ChannelsAssumption
  DEF StartsManager, StopsManager, CancelsHandlers, Drained, channelVars, ChannelsInv,
        ChannelsTypeOK
<1>3. AliveNow' = AliveNow
  BY <1>1 DEF AliveNow
<1>4. ChannelsTypeOK'
  BY <1>1, <1>2, <1>3 DEF ChannelsInv, ChannelsTypeOK
<1>5. PlacesFit' /\ KeysOK'
  BY <1>1 DEF ChannelsInv, PlacesFit, Place, IsNew, KeysOK, KeysHeld, KeysDiffer, KeysClaimed,
        Claims
<1>6. LocksFit' /\ LocksUsed' /\ OneHolder' /\ SlotsSuffice'
  BY <1>1 DEF ChannelsInv, LocksFit, LocksUsed, OneHolder, SlotsSuffice, Chat, IsNew
<1>7. ThreadsFit'
  BY <1>1, <1>2 DEF ChannelsInv, ThreadsFit, NoErrors, LockIsKnown, MakersDone, OneMaker, Makes,
        Chat, IsNew
<1>8. StopsHold'
  BY <1>1, <1>3
  DEF ChannelsInv, ChannelsTypeOK, StopsHold, StartsManager, StopsManager, CancelsHandlers,
        Drained, channelVars
<1>. QED
  BY <1>4, <1>5, <1>6, <1>7, <1>8 DEF ChannelsInv

LEMMA ChannelsInvStep == ChannelsInv /\ [ChannelsNext]_channelVars => ChannelsInv'
BY HandlerKeeps, ExpiryKeeps, ManagerKeeps DEF ChannelsNext, HandlerStep

LEMMA ChannelsInvariant == ChannelsSpec => []ChannelsInv
BY ChannelsInvInit, ChannelsInvStep, PTL DEF ChannelsSpec

\* The types of the manager of the channels.
THEOREM ChannelsTypeCorrect == ChannelsSpec => []ChannelsTypeOK
<1>1. ChannelsInv => ChannelsTypeOK
  BY DEF ChannelsInv
<1>. QED
  BY <1>1, ChannelsInvariant, PTL

\* A redelivered message is not handled twice (manager.py 1041-1069 and 1134-1139): a key
\* is recorded in the step that checks it, and only whoever holds it gives it free.
THEOREM ChannelsHandleOnce == ChannelsSpec => []HandledOnce
<1>1. ChannelsInv => HandledOnce
  BY DEF ChannelsInv, KeysOK, KeysDiffer, Claims, HandledOnce, Accepted
<1>. QED
  BY <1>1, ChannelsInvariant, PTL

\* stop leaves no handler, and no key behind of a message whose handling it broke off
\* (manager.py 956-961 and 1111-1113).
THEOREM ChannelsStopClean == ChannelsSpec => []StopIsClean
<1>1. ChannelsInv => StopIsClean
  <2>. SUFFICES ASSUME ChannelsInv, manager = "stopped" PROVE StopIsClean
    BY DEF StopIsClean
  <2>1. AliveNow = {}
    BY DEF ChannelsInv, StopsHold
  <2>2. \A h \in Handlers : at[h] # "parting"
    BY <2>1 DEF AliveNow, Alive, InSlot
  <2>3. \A h \in Handlers : Claims(h) => Accepted(h)
    BY <2>2 DEF Claims, Accepted
  <2>. QED
    BY <2>1, <2>3 DEF StopIsClean, ChannelsInv, KeysOK, KeysClaimed
<1>. QED
  BY <1>1, ChannelsInvariant, PTL

\* At most one thread is created for a conversation while no handler fails (manager.py
\* 1272), although a lock is forgotten with others waiting for it: by then there is a
\* thread, or its holder was cancelled and so are they all.
THEOREM ChannelsOneThread == ChannelsSpec => []OneThread
<1>1. ChannelsInv => OneThread
  <2>. SUFFICES ASSUME ChannelsInv, NoErrors, NEW c \in Chats PROVE Cardinality(ChatMakers(c)) <= 1
    BY DEF OneThread, NoErrors
  <2>1. \A h \in ChatMakers(c) : h \in Handlers /\ Makes(h) /\ Chat(h) = c
    BY DEF ChatMakers, Makes, ChannelsInv, ChannelsTypeOK
  <2>2. \A g, h \in ChatMakers(c) : g = h
    BY <2>1 DEF ChannelsInv, ThreadsFit, OneMaker
  <2>3. CASE ChatMakers(c) = {}
    BY <2>3, FS_EmptySet
  <2>4. CASE ChatMakers(c) # {}
    <3>1. PICK h \in ChatMakers(c) : TRUE
      BY <2>4
    <3>2. ChatMakers(c) = {h}
      BY <2>2, <3>1
    <3>3. Cardinality({h}) = 1
      BY FS_Singleton
    <3>. QED
      BY <3>2, <3>3
  <2>. QED
    BY <2>3, <2>4
<1>. QED
  BY <1>1, ChannelsInvariant, PTL

\* ... nor do two chats of a conversation create one at the same time before a handler has
\* failed: the overlap that OneCreator denies takes an error first.
THEOREM OneCreatorUntilError == ChannelsSpec => [](NoErrors => OneCreator)
<1>1. ChannelsInv => (NoErrors => OneCreator)
  <2>. SUFFICES ASSUME ChannelsInv, NoErrors, NEW g \in Handlers, NEW h \in Handlers, Chat(g) = Chat(h),
                       {at[g], at[h]} \subseteq {"create", "store"}, ~IsNew(g), ~IsNew(h)
                PROVE  g = h
    BY DEF OneCreator
  <2>1. Makes(g) /\ Makes(h)
    BY DEF ChannelsInv, PlacesFit, Place, Unanswered, Makes
  <2>. QED
    BY <2>1 DEF ChannelsInv, ThreadsFit, OneMaker
<1>. QED
  BY <1>1, ChannelsInvariant, PTL

\* No lock outlives the handlers that use it, so that their dict does not grow with the
\* conversations (manager.py 1278-1289).
THEOREM NoLockIsLeft == ChannelsSpec => []LocksUsed
<1>1. ChannelsInv => LocksUsed
  BY DEF ChannelsInv
<1>. QED
  BY <1>1, ChannelsInvariant, PTL

\* No more messages are handled at once than max_concurrency says, however the handlers end
\* (manager.py 1106).
THEOREM SlotsAreBounded == ChannelsSpec => []SlotsSuffice
<1>1. ChannelsInv => SlotsSuffice
  BY DEF ChannelsInv
<1>. QED
  BY <1>1, ChannelsInvariant, PTL
-----------------------------------------------------------------------------
(* The abstract inbox *)

\* How the step of a handler looks from outside: it begins or is turned away from the queue
\* only, and does not begin again.
InboxMove(h) ==
    /\ at[h] # "done"
    /\ at[h] = "none" => at'[h] = "queued"
    /\ at[h] = "queued" => Claims(h)' \/ (at'[h] = "done" /\ message[h] \in recent)
    /\ at[h] \in Alive => at'[h] \in Alive \cup {"done"}
    /\ Claims(h)' => Claims(h) \/ at[h] = "queued"

LEMMA InboxMoves ==
    ASSUME ChannelsTypeOK, PlacesFit, NEW h \in Handlers, HandlerFrame(h), HandlerMove(h)
    PROVE  InboxMove(h)
<1>. USE DEF InboxMove, Claims, Keeps, Alive, InSlot
<1>1. Place(h)
  BY DEF PlacesFit
<1>2. CASE OnwardMove(h)
  BY <1>1, <1>2 DEF OnwardMove, Place, Unanswered
<1>3. CASE AcceptMove(h)
  BY <1>1, <1>3 DEF AcceptMove, Place, Unanswered
<1>4. CASE LockMove(h) \/ LookMove(h) \/ CreateMove(h) \/ StoreMove(h)
  BY <1>1, <1>4 DEF LockMove, LookMove, CreateMove, StoreMove, Place, Unanswered
<1>5. CASE PartMove(h) \/ FailMove(h)
  BY <1>1, <1>5 DEF PartMove, FailMove, Fallible, Place
<1>6. CASE CancelMove(h)
  <2>1. at[h] \in Alive
    BY <1>6 DEF CancelMove, ChannelsTypeOK, AliveNow
  <2>2. at[h] \notin {"none", "queued", "done"}
    BY <2>1
  <2>3. at'[h] \in Alive \cup {"done"}
    BY <1>6 DEF CancelMove
  <2>4. CASE at[h] = "sorry" /\ at'[h] = "done" /\ Keeps(h)
    BY <2>1, <2>2, <2>3, <2>4
  <2>5. CASE at'[h] = "done" /\ result'[h] = "cancelled"
    BY <2>1, <2>2, <2>3, <2>5
  <2>6. CASE at[h] = "run" /\ at'[h] = "parting"
    BY <1>1, <2>2, <2>3, <2>6 DEF Place, Unanswered
  <2>. QED
    BY <1>6, <2>4, <2>5, <2>6 DEF CancelMove
<1>. QED
  BY <1>2, <1>3, <1>4, <1>5, <1>6 DEF HandlerMove

\* The other handlers are where they were.
LEMMA InboxFrame ==
    ASSUME NEW h \in Handlers, HandlerFrame(h)
    PROVE  /\ UNCHANGED <<message, lapsed>>
           /\ InboxHands' \ {h} = InboxHands \ {h}
           /\ InboxSettled' \ {h} = InboxSettled \ {h}
           /\ InboxLost' \ {h} = InboxLost \ {h}
           /\ InboxPast' \ {h} = InboxPast \ {h}
<1>1. \A g \in Handlers \ {h} :
        at'[g] = at[g] /\ result'[g] = result[g] /\ (Claims(g)' <=> Claims(g))
  BY DEF HandlerFrame, Claims
<1>2. UNCHANGED <<message, lapsed>>
  BY DEF HandlerFrame
<1>3. InboxHands' \ {h} = InboxHands \ {h}
  BY <1>1 DEF InboxHands
<1>4. InboxSettled' \ {h} = InboxSettled \ {h}
  <2>1. \A g \in Handlers \ {h} : g \in InboxHands' <=> g \in InboxHands
    BY <1>3
  <2>2. InboxHands \subseteq Handlers /\ InboxHands' \subseteq Handlers
    BY DEF InboxHands
  <2>. QED
    BY <1>1, <2>1, <2>2 DEF InboxSettled
<1>5. InboxLost' \ {h} = InboxLost \ {h}
  BY <1>1 DEF InboxLost
<1>6. InboxPast' \ {h} = InboxPast \ {h}
  BY <1>1 DEF InboxPast
<1>. QED
  BY <1>2, <1>3, <1>4, <1>5, <1>6

\* A key is there for who has the message or lost it, and who has it has a key or had one.
LEMMA KeyIsHeld ==
    ASSUME KeysOK, NEW m \in recent
    PROVE  Handling!InHands(m) \/ Handling!Lost(m)
BY DEF KeysOK, KeysClaimed, Handling!InHands, InboxHands, Handling!Lost, InboxLost

LEMMA InboxStep ==
    ASSUME ChannelsInv, NEW h \in Handlers, HandlerStep(h)
    PROVE  [Handling!Next]_Handling!vars
<1>1. HandlerFrame(h) /\ HandlerMove(h)
  BY HandlerFrames, HandlerMoves DEF ChannelsInv
<1>2. KeyMove(h) /\ InboxMove(h)
  BY <1>1, KeyMoves, InboxMoves DEF ChannelsInv
<1>3. /\ UNCHANGED <<message, lapsed>>
      /\ InboxHands' \ {h} = InboxHands \ {h}
      /\ InboxSettled' \ {h} = InboxSettled \ {h}
      /\ InboxLost' \ {h} = InboxLost \ {h}
      /\ InboxPast' \ {h} = InboxPast \ {h}
  BY <1>1, InboxFrame
<1>4. at'[h] \in Places /\ at[h] \in Places
  BY <1>1 DEF HandlerFrame, ChannelsInv, ChannelsTypeOK
<1>5. h \notin InboxSettled /\ h \notin InboxLost
  BY <1>2 DEF InboxMove, InboxSettled, InboxLost
<1>6. CASE Claims(h) /\ Claims(h)'
  <2>1. h \in InboxHands /\ h \notin InboxPast /\ h \notin InboxPast'
    BY <1>2, <1>6 DEF InboxMove, InboxHands, InboxPast
  <2>2. UNCHANGED <<message, lapsed, InboxPast>>
    BY <1>3, <2>1
  <2>3. InboxSettled' = InboxSettled \/ InboxSettled' = InboxSettled \cup {h}
    BY <1>3, <1>5
  <2>4. CASE ~(at'[h] = "done" /\ result'[h] = "broken")
    <3>1. h \in InboxHands' /\ h \notin InboxLost'
      BY <1>6, <2>4 DEF InboxHands, InboxLost
    <3>2. InboxHands' = InboxHands /\ InboxLost' = InboxLost
      BY <1>3, <1>5, <2>1, <3>1
    <3>3. CASE InboxSettled' = InboxSettled
      BY <2>2, <3>2, <3>3 DEF Handling!vars
    <3>4. CASE InboxSettled' = InboxSettled \cup {h}
      <4>1. Handling!Settle(h)
        BY <2>1, <2>2, <3>2, <3>4 DEF Handling!Settle
      <4>. QED
        BY <4>1 DEF Handling!Next
    <3>. QED
      BY <2>3, <3>3, <3>4
  <2>5. CASE at'[h] = "done" /\ result'[h] = "broken"
    <3>1. h \notin InboxHands' /\ h \notin InboxSettled' /\ h \in InboxLost'
      BY <2>5 DEF InboxHands, InboxSettled, InboxLost
    <3>2. /\ InboxHands' = InboxHands \ {h} /\ InboxLost' = InboxLost \cup {h}
          /\ InboxSettled' = InboxSettled
      BY <1>3, <1>5, <2>1, <3>1
    <3>3. Handling!Lose(h)
      BY <1>5, <2>1, <2>2, <3>2 DEF Handling!Lose
    <3>. QED
      BY <3>3 DEF Handling!Next
  <2>. QED
    BY <2>4, <2>5
<1>7. CASE ~Claims(h) /\ Claims(h)'
  <2>1. at[h] = "queued" /\ message[h] \notin recent
    BY <1>2, <1>7 DEF KeyMove, InboxMove
  <2>2. at'[h] # "done"
    BY <1>1, <1>7, <2>1 DEF HandlerMove, OnwardMove, AcceptMove, LockMove, LookMove, CreateMove,
          StoreMove, PartMove, FailMove, Fallible, CancelMove, Claims
  <2>3. /\ h \notin InboxHands \cup InboxPast /\ h \in InboxHands'
        /\ h \notin InboxSettled' \cup InboxLost' \cup InboxPast'
    BY <1>7, <2>1, <2>2 DEF InboxHands, InboxSettled, InboxLost, InboxPast, Alive, InSlot
  <2>4. InboxHands' = InboxHands \cup {h} /\ UNCHANGED <<InboxSettled, InboxLost, InboxPast>>
    BY <1>3, <1>5, <2>3
  <2>5. Handling!InHands(message[h]) \/ Handling!Lost(message[h]) => message[h] \in lapsed
    <3>1. \A g \in InboxHands \cup InboxLost : g \in Handlers /\ Claims(g)
      BY DEF InboxHands, InboxLost, Claims
    <3>. QED
      BY <2>1, <3>1 DEF ChannelsInv, KeysOK, KeysHeld, Handling!InHands, Handling!Lost
  <2>6. Handling!Take(h)
    BY <1>3, <1>5, <2>3, <2>4, <2>5 DEF Handling!Take, Handling!Fresh
  <2>. QED
    BY <2>6 DEF Handling!Next
<1>8. CASE Claims(h) /\ ~Claims(h)'
  <2>1. h \in InboxHands /\ h \notin InboxHands' /\ h \notin InboxPast /\ h \notin InboxSettled'
    BY <1>2, <1>8 DEF InboxMove, InboxHands, InboxPast, InboxSettled
  <2>2. at'[h] \in Alive \cup {"done"}
    BY <1>2, <1>8 DEF InboxMove, Claims
  <2>3. h \in InboxPast' /\ h \notin InboxLost'
    BY <1>8, <2>2 DEF InboxPast, InboxLost, Claims
  <2>4. /\ InboxHands' = InboxHands \ {h} /\ InboxPast' = InboxPast \cup {h}
        /\ UNCHANGED <<InboxSettled, InboxLost>>
    BY <1>3, <1>5, <2>1, <2>3
  <2>5. Handling!GiveBack(h)
    BY <1>3, <1>5, <2>1, <2>4 DEF Handling!GiveBack
  <2>. QED
    BY <2>5 DEF Handling!Next
<1>9. CASE ~Claims(h) /\ ~Claims(h)'
  <2>1. /\ h \notin InboxHands \cup InboxHands' \cup InboxSettled \cup InboxSettled'
        /\ h \notin InboxLost'
    BY <1>9 DEF InboxHands, InboxSettled, InboxLost, Claims
  <2>2. UNCHANGED <<InboxHands, InboxSettled, InboxLost>>
    BY <1>3, <1>5, <2>1
  <2>3. CASE at[h] = "queued"
    <3>1. at'[h] = "done" /\ message[h] \in recent
      BY <1>2, <1>9, <2>3 DEF InboxMove
    <3>2. h \notin InboxPast /\ h \in InboxPast'
      BY <1>9, <2>3, <3>1 DEF InboxPast, Alive, InSlot
    <3>3. InboxPast' = InboxPast \cup {h}
      BY <1>3, <3>2
    <3>4. Handling!InHands(message[h]) \/ Handling!Lost(message[h])
      BY <3>1, KeyIsHeld DEF ChannelsInv
    <3>5. Handling!TurnAway(h)
      BY <1>3, <1>5, <2>1, <2>2, <3>2, <3>3, <3>4 DEF Handling!TurnAway, Handling!Fresh
    <3>. QED
      BY <3>5 DEF Handling!Next
  <2>4. CASE at[h] # "queued"
    <3>1. h \in InboxPast <=> h \in InboxPast'
      BY <1>2, <1>4, <1>9, <2>4 DEF InboxMove, InboxPast, Places, Alive, InSlot
    <3>2. InboxPast' = InboxPast
      BY <1>3, <3>1
    <3>. QED
      BY <1>3, <2>2, <3>2 DEF Handling!vars
  <2>. QED
    BY <2>3, <2>4
<1>. QED
  BY <1>6, <1>7, <1>8, <1>9

\* Only a key that is there expires, so that somebody has the message that is forgotten.
LEMMA InboxForgets ==
    ASSUME ChannelsInv, NEW m \in Messages, KeyExpires(m)
    PROVE  [Handling!Next]_Handling!vars
<1>1. UNCHANGED <<message, InboxHands, InboxSettled, InboxLost, InboxPast>>
  BY DEF KeyExpires, InboxHands, InboxSettled, InboxLost, InboxPast, Claims
<1>2. Handling!InHands(m) \/ Handling!Lost(m)
  BY KeyIsHeld DEF KeyExpires, ChannelsInv
<1>3. Handling!Forget(m)
  BY <1>1, <1>2 DEF Handling!Forget, KeyExpires
<1>. QED
  BY <1>3 DEF Handling!Next

\* The manager gives each message to one handler at a time (manager.py 1041-1069 and
\* 1134-1139): its steps are those of the inbox, seen through the places and outcomes of
\* the handlers.
THEOREM InboxImplemented == ChannelsSpec => ImplementsInbox
<1>1. ChannelsInit => Handling!Init
  <2>. SUFFICES ASSUME ChannelsInit PROVE Handling!Init
    OBVIOUS
  <2>1. \A h \in Handlers : at[h] = "none"
    BY DEF ChannelsInit
  <2>2. InboxHands = {} /\ InboxLost = {} /\ InboxPast = {}
    BY <2>1 DEF InboxHands, InboxLost, InboxPast, Claims, Alive, InSlot
  <2>. QED
    BY <2>2 DEF ChannelsInit, Handling!Init, InboxSettled
<1>2. ChannelsInv /\ [ChannelsNext]_channelVars => [Handling!Next]_Handling!vars
  <2>. SUFFICES ASSUME ChannelsInv, [ChannelsNext]_channelVars PROVE [Handling!Next]_Handling!vars
    OBVIOUS
  <2>1. CASE \E h \in Handlers : HandlerStep(h)
    BY <2>1, InboxStep
  <2>2. CASE \E m \in Messages : KeyExpires(m)
    BY <2>2, InboxForgets
  <2>3. CASE StartsManager \/ StopsManager \/ CancelsHandlers \/ Drained \/ UNCHANGED channelVars
    <3>1. UNCHANGED <<at, message, result, lapsed>>
      BY <2>3 DEF StartsManager, StopsManager, CancelsHandlers, Drained, channelVars
    <3>. QED
      BY <3>1 DEF Handling!vars, InboxHands, InboxSettled, InboxLost, InboxPast, Claims
  <2>. QED
    BY <2>1, <2>2, <2>3 DEF ChannelsNext, HandlerStep
<1>. QED
  BY <1>1, <1>2, ChannelsInvariant, PTL DEF ChannelsSpec, ImplementsInbox, Handling!Spec
=============================================================================
