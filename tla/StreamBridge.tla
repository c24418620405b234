---------------------------- MODULE StreamBridge ----------------------------
(***************************************************************************)
(* MemoryStreamBridge for one run: the bounded event log between the       *)
(* worker that publishes and the SSE connections that subscribe, their     *)
(* reconnections with Last-Event-ID, and the cleanup after the run.        *)
(*                                                                         *)
(* The code under "async with stream.condition" awaits nothing but the     *)
(* condition itself, so a call of publish and one turn of the loop in      *)
(* subscribe are steps.  A subscriber keeps the _RunStream it found, also  *)
(* when cleanup has taken it out of the registry.                          *)
(***************************************************************************)
EXTENDS Integers, Sequences

CONSTANTS Clients,
          MaxSize,      \* queue_maxsize: how many events are retained
          MaxEvents,    \* bound: events of the run
          MaxConnects   \* bound: connections of all clients

ASSUME SizeAssumption == MaxSize \in Nat \ {0}
ASSUME BoundAssumption == MaxEvents \in Nat /\ MaxConnects \in Nat

VARIABLES
    registered, \* the run is in _streams
    newest,     \* number of the newest _RunStream, which is the registered one
    events,     \* _RunStream.events, the retained event ids
    start,      \* _RunStream.start_offset
    ended,      \* _RunStream.ended
    counter,    \* _counters
    producer,   \* the worker: "live", "ended" (publish_end), "released" (cleanup)
    published,  \* how many events the worker has published
    mode,       \* a client is "away", "open" (subscribed) or "done" (it got the end)
    sub,        \* the _RunStream its subscription reads
    next,       \* next_offset of its subscription
    last,       \* the last event id the client has
    got,        \* the numbers of the events it got since it last came without an id
    connects

bridgeVars == <<registered, newest, events, start, ended, counter>>
clientVars == <<mode, sub, next, last, got, connects>>
streamVars == <<bridgeVars, producer, published, clientVars>>

\* At most the one made before cleanup and the one made after it.
Streams == {1, 2}
Numbers == 0 .. MaxEvents - 1
\* An event id; those of origin 0 are malformed or of another run.
EventIds == [origin : {0} \cup Streams, seq : Numbers]
NoId == [origin |-> 0, seq |-> MaxEvents]

\* _get_or_create_stream
Current == IF registered THEN newest ELSE newest + 1
GetsStream ==
    /\ registered' = TRUE
    /\ newest' = Current
Counter == IF registered THEN counter ELSE 0

Overflow(g) == IF Len(events[g]) + 1 > MaxSize THEN Len(events[g]) + 1 - MaxSize ELSE 0

StartAfter(g) == start[g] + Overflow(g)

Publish ==
    LET g == Current
        log == Append(events[g], [origin |-> g, seq |-> Counter]) IN
    /\ producer = "live" /\ published < MaxEvents
    /\ GetsStream
    /\ events' = [events EXCEPT ![g] = SubSeq(log, Overflow(g) + 1, Len(log))]
    /\ start' = [start EXCEPT ![g] = StartAfter(g)]
    /\ counter' = Counter + 1
    /\ published' = published + 1
    /\ UNCHANGED <<ended, producer, clientVars>>

\* Mutant: the end is told to the waiting subscribers but not kept.
KeepsNoEnd(g) == FALSE

Ended(g) == TRUE

PublishEnd ==
    /\ producer = "live"
    /\ GetsStream
    /\ counter' = Counter
    /\ ended' = [ended EXCEPT ![Current] = Ended(Current)]
    /\ producer' = "ended"
    /\ UNCHANGED <<events, start, published, clientVars>>

\* cleanup, a minute after the end of the run
Cleanup ==
    /\ producer = "ended"
    /\ registered' = FALSE
    /\ counter' = 0
    /\ producer' = "released"
    /\ UNCHANGED <<newest, events, start, ended, published, clientVars>>

\* Mutant: the number is trusted although the id is another one.
RetainedByNumber(g, id) == id.seq - start[g] + 1 \in 1 .. Len(events[g])

Retained(g, id) ==
    LET i == id.seq - start[g] + 1 IN
    i \in 1 .. Len(events[g]) /\ events[g][i] = id

\* Mutant: the client resumes at the event it has.
ResolveAtEvent(g, id) == IF Retained(g, id) THEN id.seq ELSE start[g]

\* _resolve_start_offset
Resolve(g, id) == IF Retained(g, id) THEN id.seq + 1 ELSE start[g]

\* A client subscribes: with the last id it has, or with none or one of another run,
\* and then it does not count on what it has got before.
Connects(c, id) ==
    /\ mode[c] = "away" /\ connects < MaxConnects
    /\ GetsStream
    /\ counter' = Counter
    /\ mode' = [mode EXCEPT ![c] = "open"]
    /\ sub' = [sub EXCEPT ![c] = Current]
    /\ next' = [next EXCEPT ![c] = Resolve(Current, id)]
    /\ connects' = connects + 1
    /\ IF id = last[c]
       THEN UNCHANGED <<last, got>>
       ELSE /\ last' = [last EXCEPT ![c] = NoId]
            /\ got' = [got EXCEPT ![c] = <<>>]
    /\ UNCHANGED <<events, start, ended, producer, published>>

\* The subscriber that fell behind what is retained goes on from there.
Caught(c) == IF next[c] < start[sub[c]] THEN start[sub[c]] ELSE next[c]
Index(c)  == Caught(c) - start[sub[c]] + 1

Delivers(c) ==
    LET entry == events[sub[c]][Index(c)] IN
    /\ mode[c] = "open" /\ Index(c) <= Len(events[sub[c]])
    /\ next' = [next EXCEPT ![c] = Caught(c) + 1]
    /\ last' = [last EXCEPT ![c] = entry]
    /\ got' = [got EXCEPT ![c] = Append(@, entry.seq)]
    /\ UNCHANGED <<bridgeVars, producer, published, mode, sub, connects>>

DeliversEnd(c) ==
    /\ mode[c] = "open" /\ Index(c) > Len(events[sub[c]]) /\ ended[sub[c]]
    /\ mode' = [mode EXCEPT ![c] = "done"]
    /\ UNCHANGED <<bridgeVars, producer, published, sub, next, last, got, connects>>

\* The connection breaks; an entry on its way to the client is lost with it.
Disconnects(c) ==
    /\ mode[c] = "open"
    /\ mode' = [mode EXCEPT ![c] = "away"]
    /\ UNCHANGED <<bridgeVars, producer, published, sub, next, last, got, connects>>

BridgeInit ==
    /\ registered = FALSE /\ newest = 0 /\ counter = 0
    /\ events = [g \in Streams |-> <<>>]
    /\ start = [g \in Streams |-> 0]
    /\ ended = [g \in Streams |-> FALSE]
    /\ producer = "live" /\ published = 0
    /\ mode = [c \in Clients |-> "away"]
    /\ sub = [c \in Clients |-> 1]
    /\ next = [c \in Clients |-> 0]
    /\ last = [c \in Clients |-> NoId]
    /\ got = [c \in Clients |-> <<>>]
    /\ connects = 0

ForeignIds == [origin : {0}, seq : Numbers]

BridgeNext ==
    \/ Publish \/ PublishEnd \/ Cleanup
    \/ \E c \in Clients : \E id \in {last[c], NoId} \cup ForeignIds : Connects(c, id)
    \/ \E c \in Clients : Delivers(c) \/ DeliversEnd(c) \/ Disconnects(c)

BridgeSpec == BridgeInit /\ [][BridgeNext]_streamVars

\* The worker calls publish_end on every path; the event loop serves every subscriber.
BridgeFairness ==
    /\ WF_streamVars(PublishEnd)
    /\ WF_streamVars(Cleanup)
    /\ \A c \in Clients : WF_streamVars(Delivers(c) \/ DeliversEnd(c))

BridgeFairSpec == BridgeSpec /\ BridgeFairness
-----------------------------------------------------------------------------
(* Properties *)

BridgeOK ==
    /\ registered \in BOOLEAN
    /\ newest \in 0 .. 2
    /\ events \in [Streams -> Seq(EventIds)]
    /\ \A g \in Streams : Len(events[g]) <= MaxSize
    /\ start \in [Streams -> Nat]
    /\ ended \in [Streams -> BOOLEAN]
    /\ counter \in 0 .. MaxEvents

WorkerOK ==
    /\ producer \in {"live", "ended", "released"}
    /\ published \in 0 .. MaxEvents

ClientsOK ==
    /\ mode \in [Clients -> {"away", "open", "done"}]
    /\ sub \in [Clients -> Streams]
    /\ next \in [Clients -> Nat]
    /\ last \in [Clients -> EventIds \cup {NoId}]
    /\ got \in [Clients -> Seq(Numbers)]
    /\ connects \in 0 .. MaxConnects

BridgeTypeOK == BridgeOK /\ WorkerOK /\ ClientsOK

\* "seq ... equals the event's absolute offset" (_resolve_start_offset): the arithmetic
\* that finds an event by its id is right after every eviction and reconnection.
SeqIsOffset ==
    \A g \in Streams : \A i \in 1 .. Len(events[g]) :
        events[g][i] = [origin |-> g, seq |-> start[g] + i - 1]

Position(c) == IF last[c] = NoId THEN 0 ELSE last[c].seq + 1

\* A client that misses an event before the last one it got lost it to the bound on the
\* retained events and to nothing else, whatever ids it came back with.
NoSilentGap ==
    \A c \in Clients : \A s \in 0 .. Position(c) - 1 :
        (\E i \in 1 .. Len(got[c]) : got[c][i] = s) \/ s < start[1]

Feed == INSTANCE EventFeed
    WITH over <- producer # "live",
         heard <- got,
         done <- [c \in Clients |-> mode[c] = "done"]

\* Over any number of reconnections a client that comes back with the last id it has gets
\* no event twice and none out of order, and the end only after the last event.
ImplementsFeed == Feed!Spec

\* "Yields END_SENTINEL once the producer calls publish_end" (StreamBridge.subscribe), for
\* the connections made before cleanup.
ServedToTheEnd ==
    \A c \in Clients : mode[c] = "open" /\ sub[c] = 1 ~> mode[c] # "open"

\* ... and as it is written, for every connection.
EveryStreamEnds ==
    \A c \in Clients : mode[c] = "open" ~> mode[c] # "open"
=============================================================================
