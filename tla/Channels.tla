------------------------------ MODULE Channels ------------------------------
(***************************************************************************)
(* The manager of the messenger channels (app/channels/manager.py): the    *)
(* loop that takes messages from the bus, one handler task per message,    *)
(* the keys that keep a redelivered message from being handled twice, the  *)
(* slots of the handlers, the threads they find or create for their        *)
(* conversations, and the stop that cancels them.  Everything runs on one  *)
(* event loop: a step is the code between two awaits.                      *)
(*                                                                         *)
(* A message is a conversation and an id, which is its dedupe key;         *)
(* messages without one are handled like messages never seen before.  A    *)
(* delivery is a message put on the bus, and its number is also that of    *)
(* its handler and of the thread it creates.  Of the commands /new is      *)
(* modelled: the others answer, or are chats in disguise.  Files, text and *)
(* formatting are left out.                                                *)
(***************************************************************************)
EXTENDS Naturals, FiniteSets

CONSTANTS Chats,          \* conversations
          MessageIds,
          NewIds,         \* the ids of the messages that are the command /new
          MaxDeliveries,  \* bound on the messages put on the bus
          HandlerSlots,   \* max_concurrency
          MaxMishaps,     \* bound on unexpected errors and keys that lapse
          MaxStops        \* bound on the calls of stop

ASSUME ChannelsAssumption ==
    /\ NewIds \subseteq MessageIds /\ HandlerSlots \in Nat \ {0}
    /\ MaxDeliveries \in Nat /\ MaxMishaps \in Nat /\ MaxStops \in Nat

Handlers == 1..MaxDeliveries
Messages == Chats \X MessageIds
Nothing  == 0

VARIABLES
  manager,    \* "stopped", "running", or how far stop is: "stopping", "draining"
  at,         \* the await each handler stands at; "queued" on the bus
  message,    \* the message of each delivery, which never changes
  result,     \* how its handling ended
  recent,     \* _recent_inbound_events
  lapsed,     \* the messages whose key has expired or was pushed out
  mapping,    \* the store: the thread of each conversation
  locks,      \* _thread_create_locks: a lock is named after the handler that made it
  lockOf,     \* the lock each handler waits for or holds
  makers,     \* the handlers that have created a thread
  cancelling, \* the handlers that are cancelled and have not gone on since
  mishaps,
  stops

channelVars == <<manager, at, message, result, recent, lapsed, mapping, locks, lockOf, makers,
                 cancelling, mishaps, stops>>

ChannelsInit ==
    /\ manager = "stopped" /\ mishaps = 0 /\ stops = 0
    /\ at = [h \in Handlers |-> "none"]
    /\ message \in [Handlers -> Messages]
    /\ result = [h \in Handlers |-> "none"]
    /\ recent = {} /\ lapsed = {} /\ cancelling = {} /\ makers = {}
    /\ mapping = [c \in Chats |-> Nothing]
    /\ locks = [c \in Chats |-> Nothing]
    /\ lockOf = [h \in Handlers |-> Nothing]

Chat(h)  == message[h][1]
IsNew(h) == message[h][2] \in NewIds
InSlot   == {"command", "lookup", "missed", "locking", "again", "create", "store", "run", "reply", "parting"}
Alive    == InSlot \cup {"identity", "rejecting", "slot", "sorry"}
AliveNow == {h \in Handlers : at[h] \in Alive}

Goes(h, place) == at' = [at EXCEPT ![h] = place]
Ends(h, place, how) == Goes(h, place) /\ result' = [result EXCEPT ![h] = how]
Stands(h, place) == at[h] = place /\ h \notin cancelling

others     == <<manager, message, lapsed, cancelling, stops>>
threadVars == <<mapping, locks, lockOf, makers>>
-----------------------------------------------------------------------------
(* The bus, the dedupe keys and the dispatch loop *)

Arrives(h) ==
    /\ at[h] = "none" /\ \A g \in 1..(h - 1) : at[g] # "none"
    /\ Goes(h, "queued")
    /\ UNCHANGED <<result, recent, threadVars, mishaps, others>>

\* Mutant: only a message that was answered counts as seen.
WasAnswered(m) == \E h \in Handlers : message[h] = m /\ result[h] = "answered"

IsDuplicate(m) == m \in recent

\* The task takes its first step before anything can cancel it.
Dispatches(h) ==
    /\ manager = "running"
    /\ at[h] = "queued" /\ \A g \in 1..(h - 1) : at[g] # "queued"
    /\ IF IsDuplicate(message[h]) THEN Ends(h, "done", "duplicate")
       ELSE Goes(h, IF IsNew(h) THEN "slot" ELSE "identity") /\ UNCHANGED result
    /\ recent' = recent \cup {message[h]}
    /\ UNCHANGED <<threadVars, mishaps, others>>

\* A key is older than the TTL, or the oldest of too many.
KeyExpires(m) ==
    /\ m \in recent
    /\ mishaps < MaxMishaps /\ mishaps' = mishaps + 1
    /\ recent' = recent \ {m} /\ lapsed' = lapsed \cup {m}
    /\ UNCHANGED <<manager, at, message, result, threadVars, cancelling, stops>>
-----------------------------------------------------------------------------
(* A handler: admission *)

\* A message without a bound identity is rejected before it takes a slot.
Identified(h) ==
    /\ Stands(h, "identity")
    /\ (Goes(h, "slot") /\ UNCHANGED result) \/ Ends(h, "rejecting", "refused")
    /\ UNCHANGED <<recent, threadVars, mishaps, others>>

\* Mutant: a handler that ends early keeps its slot.
KeepsSlot(h) == at[h] \in InSlot \/ result[h] = "refused"

UsesSlot(h) == at[h] \in InSlot

TakesSlot(h) ==
    /\ Stands(h, "slot")
    /\ Cardinality({g \in Handlers : UsesSlot(g)}) < HandlerSlots
    /\ Goes(h, IF IsNew(h) THEN "command" ELSE "lookup")
    /\ UNCHANGED <<result, recent, threadVars, mishaps, others>>

\* /new creates a thread whether or not there is one.
Commands(h) ==
    /\ Stands(h, "command")
    /\ (Goes(h, "create") /\ UNCHANGED result) \/ Ends(h, "reply", "refused")
    /\ UNCHANGED <<recent, threadVars, mishaps, others>>
-----------------------------------------------------------------------------
(* _get_or_create_thread *)

HasThread(h) == mapping[Chat(h)] # Nothing

LooksUp(h) ==
    /\ Stands(h, "lookup")
    /\ Goes(h, IF HasThread(h) THEN "run" ELSE "missed")
    /\ UNCHANGED <<result, recent, threadVars, mishaps, others>>

\* The lock of the conversation, or a new one; a lock nobody uses is taken at once.
FindsLock(h) ==
    /\ Stands(h, "missed")
    /\ locks' = [locks EXCEPT ![Chat(h)] = IF @ = Nothing THEN h ELSE @]
    /\ lockOf' = [lockOf EXCEPT ![h] = locks'[Chat(h)]]
    /\ Goes(h, IF \E g \in Handlers : lockOf[g] = lockOf'[h] THEN "locking" ELSE "again")
    /\ UNCHANGED <<result, recent, mapping, makers, mishaps, others>>

Holds(g, lock) == lockOf[g] = lock /\ at[g] \in {"again", "create", "store"}

\* Whoever waits may be the next: the order of the waiters is left open.
TakesLock(h) ==
    /\ Stands(h, "locking")
    /\ ~\E g \in Handlers : Holds(g, lockOf[h])
    /\ Goes(h, "again")
    /\ UNCHANGED <<result, recent, threadVars, mishaps, others>>

\* The lock is let go of, and forgotten although others may wait for it.
Unlocks(h) ==
    /\ locks' = [locks EXCEPT ![Chat(h)] = IF @ = lockOf[h] THEN Nothing ELSE @]
    /\ lockOf' = [lockOf EXCEPT ![h] = Nothing]

\* Mutant: the mapping is not looked up again.
NotLooked(h) == FALSE

CreatedMeanwhile(h) == HasThread(h)

LooksAgain(h) ==
    /\ Stands(h, "again")
    /\ IF CreatedMeanwhile(h) THEN Goes(h, "run") /\ Unlocks(h) ELSE Goes(h, "create") /\ UNCHANGED <<locks, lockOf>>
    /\ UNCHANGED <<result, recent, mapping, makers, mishaps, others>>

CreatesThread(h) ==
    /\ Stands(h, "create")
    /\ Goes(h, "store") /\ makers' = makers \cup {h}
    /\ UNCHANGED <<result, recent, mapping, locks, lockOf, mishaps, others>>

Maps(h) == mapping' = [mapping EXCEPT ![Chat(h)] = h]

Stores(h) ==
    /\ Stands(h, "store")
    /\ Maps(h)
    /\ IF IsNew(h) THEN Ends(h, "reply", "answered") ELSE Goes(h, "run") /\ UNCHANGED result
    /\ Unlocks(h)
    /\ UNCHANGED <<recent, makers, mishaps, others>>
-----------------------------------------------------------------------------
(* The run, the answer, and what else can happen to a handler *)

\* The thread may be busy.
RunEnds(h) ==
    /\ Stands(h, "run")
    /\ \E how \in {"answered", "refused"} : Ends(h, "reply", how)
    /\ UNCHANGED <<recent, threadVars, mishaps, others>>

\* The error of a stream is kept from the handler: the user is told, and the message stays
\* seen.
StreamBreaks(h) ==
    /\ Stands(h, "run")
    /\ mishaps < MaxMishaps /\ mishaps' = mishaps + 1
    /\ Ends(h, "reply", "broken")
    /\ UNCHANGED <<recent, threadVars, others>>

Replies(h) ==
    /\ at[h] \in {"reply", "rejecting", "sorry", "parting"} /\ h \notin cancelling
    /\ Goes(h, "done")
    /\ recent' = IF at[h] = "parting" THEN recent \ {message[h]} ELSE recent
    /\ UNCHANGED <<result, threadVars, mishaps, others>>

\* (The reply to a command, and that the thread is busy, look the thread up first.)
Fallible == {"identity", "command", "lookup", "again", "create", "store", "run", "reply"}

\* An error of the configuration is told to the user.
Refuses(h) ==
    /\ at[h] \in {"command", "lookup", "run"} /\ h \notin cancelling
    /\ Ends(h, "sorry", "refused")
    /\ UNCHANGED <<recent, threadVars, mishaps, others>>

\* Any other error gives the message free for a redelivery first.
HandlerFails(h) ==
    /\ at[h] \in Fallible /\ h \notin cancelling
    /\ mishaps < MaxMishaps /\ mishaps' = mishaps + 1
    /\ Ends(h, "sorry", "failed")
    /\ recent' = recent \ {message[h]}
    /\ Unlocks(h)
    /\ UNCHANGED <<mapping, makers, others>>

\* Mutant: a cancelled message stays seen.
StaysSeen(h) == recent

FreedBy(h) == recent \ {message[h]}

\* CancelledError is raised at the await where the handler stands; a stream publishes what
\* it has first.  A thread may have been stored by then.
CancelTaken(h) ==
    /\ h \in cancelling /\ cancelling' = cancelling \ {h}
    /\ Unlocks(h)
    /\ IF at[h] = "sorry"
         THEN Goes(h, "done") /\ UNCHANGED <<result, recent>>
         ELSE \/ Ends(h, "done", "cancelled") /\ recent' = FreedBy(h)
              \/ at[h] = "run" /\ Ends(h, "parting", "cancelled") /\ UNCHANGED recent
    /\ (at[h] = "store" /\ Maps(h)) \/ UNCHANGED mapping
    /\ UNCHANGED <<manager, message, lapsed, makers, mishaps, stops>>
-----------------------------------------------------------------------------
(* start and stop *)

StartsManager ==
    /\ manager = "stopped" /\ manager' = "running"
    /\ UNCHANGED <<at, message, result, recent, lapsed, threadVars, cancelling, mishaps, stops>>

\* The dispatch loop is cancelled; what is on the bus stays there.
StopsManager ==
    /\ manager = "running" /\ manager' = "stopping"
    /\ stops < MaxStops /\ stops' = stops + 1
    /\ UNCHANGED <<at, message, result, recent, lapsed, threadVars, cancelling, mishaps>>

CancelsHandlers ==
    /\ manager = "stopping" /\ manager' = "draining"
    /\ cancelling' = AliveNow
    /\ UNCHANGED <<at, message, result, recent, lapsed, threadVars, mishaps, stops>>

Drained ==
    /\ manager = "draining" /\ AliveNow = {}
    /\ manager' = "stopped"
    /\ UNCHANGED <<at, message, result, recent, lapsed, threadVars, cancelling, mishaps, stops>>
-----------------------------------------------------------------------------
HandlerGoes(h) ==
    \/ Identified(h) \/ TakesSlot(h) \/ Commands(h) \/ LooksUp(h) \/ FindsLock(h)
    \/ TakesLock(h) \/ LooksAgain(h) \/ CreatesThread(h) \/ Stores(h) \/ RunEnds(h) \/ Replies(h)
    \/ CancelTaken(h)

ChannelsNext ==
    \/ \E h \in Handlers : Arrives(h) \/ Dispatches(h) \/ HandlerGoes(h) \/ Refuses(h) \/ HandlerFails(h)
                            \/ StreamBreaks(h)
    \/ \E m \in Messages : KeyExpires(m)
    \/ StartsManager \/ StopsManager \/ CancelsHandlers \/ Drained

ChannelsSpec == ChannelsInit /\ [][ChannelsNext]_channelVars
-----------------------------------------------------------------------------
Places == Alive \cup {"none", "queued", "done"}
Results == {"none", "answered", "refused", "broken", "duplicate", "failed", "cancelled"}

ChannelsTypeOK ==
    /\ manager \in {"stopped", "running", "stopping", "draining"}
    /\ at \in [Handlers -> Places] /\ message \in [Handlers -> Messages] /\ result \in [Handlers -> Results]
    /\ recent \subseteq Messages /\ lapsed \subseteq Messages
    /\ mapping \in [Chats -> Handlers \cup {Nothing}] /\ locks \in [Chats -> Handlers \cup {Nothing}]
    /\ lockOf \in [Handlers -> Handlers \cup {Nothing}] /\ makers \subseteq Handlers
    /\ cancelling \subseteq AliveNow
    /\ mishaps \in 0..MaxMishaps /\ stops \in 0..MaxStops

\* A message is handled, or was handled, once: two deliveries of it are both accepted only
\* if the first failed or was cancelled, or its key had lapsed.  (manager.py 1041-1069 and
\* 1134-1139: the key is recorded on receipt and released by whoever fails.  A handler
\* whose stream broke counts as one that accepted.)
Accepted(h) == at[h] \in Alive \cup {"done"} /\ result[h] \notin {"duplicate", "failed", "cancelled"}
HandledOnce ==
    \A g, h \in Handlers : g # h /\ message[g] = message[h] /\ Accepted(g) /\ Accepted(h) => message[h] \in lapsed

\* Once stop has returned no handler is left, and a message whose handler it cancelled can
\* be delivered again.  (manager.py 956-961 and 1111-1113.)
StopIsClean ==
    manager = "stopped" =>
      /\ AliveNow = {}
      /\ \A h \in Handlers : result[h] = "cancelled" /\ message[h] \in recent =>
            \E g \in Handlers : message[g] = message[h] /\ Accepted(g)

ChatMakers(c) == {h \in makers : Chat(h) = c /\ ~IsNew(h) /\ result[h] # "cancelled"}

\* While no error has happened, the chats of a conversation create one thread, although
\* each forgets the lock the others wait for.  (manager.py 1272, "creating at most one
\* thread per conversation".)
OneThread ==
    (\A h \in Handlers : result[h] # "failed") => \A c \in Chats : Cardinality(ChatMakers(c)) <= 1

\* ... and as it is written, with errors: no two chats create a thread for one
\* conversation at the same time.
OneCreator ==
    \A g, h \in Handlers : g # h /\ Chat(g) = Chat(h) /\ {at[g], at[h]} \subseteq {"create", "store"}
                             => IsNew(g) \/ IsNew(h)

\* Every handler ends, whatever slots and locks it has to wait for, and every stop with the
\* last of them: the deliveries are finitely many, so that at some time none is at work.
\* (manager.py 956-983.)
HandlersEnd ==
    AliveNow # {} \/ manager = "stopping" ~> AliveNow = {} /\ manager \in {"running", "stopped"}
-----------------------------------------------------------------------------
\* Whose message it is that the key stands for: a handler that is cancelled keeps it until
\* it has said goodbye.
Claims(h) ==
    /\ at[h] \in Alive \cup {"done"}
    /\ result[h] \notin {"duplicate", "failed", "cancelled"} \/ at[h] = "parting"

InboxHands   == {h \in Handlers : Claims(h) /\ ~(at[h] = "done" /\ result[h] = "broken")}
InboxSettled == {h \in InboxHands : at[h] = "done"}
InboxLost    == {h \in Handlers : at[h] = "done" /\ result[h] = "broken"}
InboxPast    == {h \in Handlers : at[h] \in Alive \cup {"done"} /\ ~Claims(h)}

Handling ==
    INSTANCE Inbox WITH hands <- InboxHands, settled <- InboxSettled, lost <- InboxLost,
                        past <- InboxPast

\* The dedupe keys give a message to one handler at a time: a delivery is dropped only while
\* another handler has the message or after one answered it, whatever fails or is cancelled
\* between the two.  (manager.py 1041-1069, 1074-1077 and 1134-1139.)  The exception has a
\* name, Lose: the error of a stream does not reach the handler (1527-1532), and the message
\* stays seen.
ImplementsInbox == Handling!Spec
=============================================================================
