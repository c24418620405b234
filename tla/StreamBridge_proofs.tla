------------------------ MODULE StreamBridge_proofs ------------------------
(***************************************************************************)
(* Proofs about StreamBridge, for every number of clients, retained        *)
(* events, published events and connections.                               *)
(***************************************************************************)
EXTENDS StreamBridge, TLAPS

\* The stages of the worker and the streams that exist in them.
StreamStages ==
    /\ newest = 0 => ~registered /\ published = 0 /\ producer = "live"
    /\ producer # "released" => (registered <=> newest = 1) /\ newest <= 1
    /\ registered /\ producer # "released" => counter = published
    /\ \A g \in Streams : g > newest => events[g] = <<>> /\ start[g] = 0 /\ ~ended[g]
    /\ events[2] = <<>> /\ start[2] = 0 /\ ~ended[2]
    /\ ended[1] => producer # "live"
    /\ newest <= 2 /\ (newest = 2 => registered)

\* The retained events are the last ones published.
Window ==
    /\ start[1] + Len(events[1]) = published
    /\ published > 0 => events[1] # <<>>

\* What a client has got, and where its subscription reads on.
Positions == \A c \in Clients :
    /\ last[c] = NoId <=> got[c] = <<>>
    /\ got[c] # <<>> => last[c] = [origin |-> 1, seq |-> got[c][Len(got[c])]]
    /\ Position(c) <= published
    /\ mode[c] = "open" => sub[c] <= newest
    /\ mode[c] = "open" /\ sub[c] = 1 => next[c] >= Position(c) /\ next[c] <= published
    /\ mode[c] = "open" /\ sub[c] = 1 =>
         \A s \in Position(c) .. next[c] - 1 : s < start[1]

BridgeInv == BridgeTypeOK /\ StreamStages /\ SeqIsOffset /\ Window /\ Positions /\ NoSilentGap
-----------------------------------------------------------------------------
\* The end of a sequence, element by element.
LEMMA SubSeqTail ==
    ASSUME NEW S, NEW q \in Seq(S), NEW k \in 0 .. Len(q)
    PROVE  /\ SubSeq(q, k + 1, Len(q)) \in Seq(S)
           /\ Len(SubSeq(q, k + 1, Len(q))) = Len(q) - k
           /\ \A i \in 1 .. Len(q) - k : SubSeq(q, k + 1, Len(q))[i] = q[k + i]
OBVIOUS

\* Nothing is published, retained or read at the start.
LEMMA BridgeInvInit == BridgeInit => BridgeInv
<1>. SUFFICES ASSUME BridgeInit PROVE BridgeInv
  OBVIOUS
<1>1. BridgeTypeOK
  <2>1. events \in [Streams -> Seq(EventIds)] /\ \A g \in Streams : Len(events[g]) <= MaxSize
    BY SizeAssumption DEF BridgeInit
  <2>2. got \in [Clients -> Seq(Numbers)] /\ last \in [Clients -> EventIds \cup {NoId}]
    BY DEF BridgeInit
  <2>3. BridgeOK
    <3>1. start \in [Streams -> Nat] /\ ended \in [Streams -> BOOLEAN]
      BY DEF BridgeInit
    <3>2. registered \in BOOLEAN
      BY DEF BridgeInit
    <3>3. newest \in 0 .. 2 /\ counter \in 0 .. MaxEvents
      BY BoundAssumption DEF BridgeInit
    <3>. QED
      BY <2>1, <3>1, <3>2, <3>3 DEF BridgeOK
  <2>4. WorkerOK /\ ClientsOK
    BY <2>2, BoundAssumption DEF BridgeInit, WorkerOK, ClientsOK, Streams
  <2>. QED
    BY <2>3, <2>4 DEF BridgeTypeOK
<1>2. StreamStages /\ SeqIsOffset /\ Window
  BY DEF BridgeInit, StreamStages, SeqIsOffset, Window, Streams
<1>3. Positions /\ NoSilentGap
  BY DEF BridgeInit, Positions, NoSilentGap, Position
<1>. QED
  BY <1>1, <1>2, <1>3 DEF BridgeInv

\* While the worker is at work there is one stream and it counts every event.
LEMMA LiveStream ==
    ASSUME BridgeInv, producer = "live"
    PROVE  Current = 1 /\ Counter = published
BY DEF BridgeInv, BridgeTypeOK, BridgeOK, WorkerOK, ClientsOK, StreamStages, Current, Counter

\* Publishing keeps the invariant: what is evicted is the oldest, and the start moves
\* with it.
LEMMA PublishStep ==
    ASSUME BridgeInv, Publish
    PROVE  BridgeInv'
<1>. DEFINE id == [origin |-> 1, seq |-> published]
            log == Append(events[1], id)
            k == Overflow(1)
<1>1. Current = 1 /\ Counter = published /\ producer = "live" /\ published < MaxEvents
  BY LiveStream DEF Publish
<1>2. id \in EventIds /\ log \in Seq(EventIds) /\ Len(log) = Len(events[1]) + 1 /\ Len(events[1]) \in Nat
  BY <1>1, BoundAssumption DEF BridgeInv, BridgeTypeOK, BridgeOK, WorkerOK, ClientsOK, EventIds, Streams, Numbers
<1>3. /\ k \in 0 .. Len(log) /\ Len(log) - k <= MaxSize /\ Len(log) - k >= 1
  BY <1>2, SizeAssumption DEF BridgeInv, BridgeTypeOK, BridgeOK, WorkerOK, ClientsOK, Overflow, Streams
<1>4. /\ events' = [events EXCEPT ![1] = SubSeq(log, k + 1, Len(log))]
      /\ start' = [start EXCEPT ![1] = start[1] + k]
      /\ newest' = 1 /\ registered' = TRUE
      /\ counter' = published + 1 /\ published' = published + 1
      /\ UNCHANGED <<ended, producer, mode, sub, next, last, got, connects>>
  BY <1>1 DEF Publish, GetsStream, StartAfter, clientVars
<1>5. /\ events'[1] \in Seq(EventIds) /\ Len(events'[1]) = Len(log) - k
      /\ \A i \in 1 .. Len(log) - k : events'[1][i] = log[k + i]
  <2>. HIDE DEF log, k
  <2>1. events'[1] = SubSeq(log, k + 1, Len(log))
    BY <1>4 DEF BridgeInv, BridgeTypeOK, BridgeOK, Streams
  <2>2. log \in Seq(EventIds) /\ k \in 0 .. Len(log)
    BY <1>2, <1>3
  <2>3. /\ SubSeq(log, k + 1, Len(log)) \in Seq(EventIds)
        /\ Len(SubSeq(log, k + 1, Len(log))) = Len(log) - k
        /\ \A i \in 1 .. Len(log) - k : SubSeq(log, k + 1, Len(log))[i] = log[k + i]
    BY <2>2, SubSeqTail, Zenon
  <2>. QED
    BY <2>1, <2>3
<1>6. events'[2] = events[2] /\ start'[2] = start[2] /\ start'[1] = start[1] + k
  BY <1>4 DEF BridgeInv, BridgeTypeOK, BridgeOK, WorkerOK, ClientsOK, Streams
<1>7. BridgeTypeOK'
  <2>1. events' \in [Streams -> Seq(EventIds)] /\ \A g \in Streams : Len(events'[g]) <= MaxSize
    <3>. HIDE DEF log, k
    <3>1. events \in [Streams -> Seq(EventIds)] /\ \A g \in Streams : Len(events[g]) <= MaxSize
      BY DEF BridgeInv, BridgeTypeOK, BridgeOK
    <3>2. events' \in [Streams -> Seq(EventIds)]
      BY <1>4, <1>5, <3>1 DEF Streams
    <3>3. \A g \in Streams : g = 1 \/ events'[g] = events[g]
      BY <1>6 DEF Streams
    <3>. QED
      BY <1>3, <1>5, <3>1, <3>2, <3>3
  <2>2. start' \in [Streams -> Nat]
    <3>1. start \in [Streams -> Nat]
      BY DEF BridgeInv, BridgeTypeOK, BridgeOK
    <3>. QED
      BY <1>2, <1>3, <1>4, <3>1 DEF Streams
  <2>3. published + 1 \in 0 .. MaxEvents
    BY <1>1, BoundAssumption DEF BridgeInv, BridgeTypeOK, BridgeOK, WorkerOK, ClientsOK
  <2>4. BridgeOK'
    <3>1. ended' \in [Streams -> BOOLEAN] /\ registered' \in BOOLEAN
      BY <1>4 DEF BridgeInv, BridgeTypeOK, BridgeOK
    <3>2. newest' \in 0 .. 2 /\ counter' \in 0 .. MaxEvents
      BY <2>3, <1>4
    <3>. QED
      BY <2>1, <2>2, <3>1, <3>2 DEF BridgeOK
  <2>5. WorkerOK'
    BY <2>3, <1>4 DEF BridgeInv, BridgeTypeOK, WorkerOK
  <2>6. ClientsOK'
    BY <1>4 DEF BridgeInv, BridgeTypeOK, ClientsOK
  <2>. QED
    BY <2>4, <2>5, <2>6 DEF BridgeTypeOK
<1>8. StreamStages'
  BY <1>1, <1>4, <1>6 DEF BridgeInv, StreamStages, BridgeTypeOK, BridgeOK, WorkerOK, ClientsOK, Streams
<1>9. start[1] + Len(events[1]) = published
  BY DEF BridgeInv, Window
<1>10. SeqIsOffset'
  <2>1. \A i \in 1 .. Len(log) : log[i] = [origin |-> 1, seq |-> start[1] + i - 1]
    <3>1. events[1] \in Seq(EventIds) /\ start[1] \in Nat
      BY DEF BridgeInv, BridgeTypeOK, BridgeOK, Streams
    <3>2. \A i \in 1 .. Len(events[1]) : events[1][i] = [origin |-> 1, seq |-> start[1] + i - 1]
      BY DEF BridgeInv, SeqIsOffset, Streams
    <3>3. \A i \in 1 .. Len(events[1]) : log[i] = events[1][i]
      BY <3>1
    <3>4. log[Len(events[1]) + 1] = id /\ published = start[1] + (Len(events[1]) + 1) - 1
      BY <1>9, <3>1
    <3>5. \A i \in 1 .. Len(log) : i \in 1 .. Len(events[1]) \/ i = Len(events[1]) + 1
      BY <1>2
    <3>. QED
      BY <3>2, <3>3, <3>4, <3>5
  <2>2. \A i \in 1 .. Len(log) - k : events'[1][i] = [origin |-> 1, seq |-> start'[1] + i - 1]
    <3>. SUFFICES ASSUME NEW i \in 1 .. Len(log) - k
                  PROVE  events'[1][i] = [origin |-> 1, seq |-> start'[1] + i - 1]
      OBVIOUS
    <3>1. k + i \in 1 .. Len(log) /\ start[1] + (k + i) - 1 = (start[1] + k) + i - 1
      <4>1. start[1] \in Nat
        BY DEF BridgeInv, BridgeTypeOK, BridgeOK, Streams
      <4>. HIDE DEF log, k
      <4>2. k \in Nat /\ i \in Nat /\ Len(log) \in Nat /\ 1 <= i /\ i <= Len(log) - k
        BY <1>2, <1>3
      <4>. QED
        BY <4>1, <4>2
    <3>. QED
      BY <1>5, <1>6, <2>1, <3>1
  <2>. QED
    BY <1>5, <1>6, <2>2 DEF BridgeInv, SeqIsOffset, StreamStages, Streams
<1>11. Window'
  <2>. HIDE DEF log, k
  <2>1. Len(events'[1]) = Len(log) - k
    BY <1>5
  <2>2. start[1] \in Nat /\ published \in Nat
    BY DEF BridgeInv, BridgeTypeOK, BridgeOK, WorkerOK, Streams
  <2>3. Len(events'[1]) >= 1
    BY <1>2, <1>3, <2>1
  <2>4. start'[1] + Len(events'[1]) = published + 1
    <3>1. Len(log) = Len(events[1]) + 1 /\ Len(events[1]) \in Nat /\ k \in Int
      BY <1>2, <1>3
    <3>2. start'[1] + Len(events'[1]) = (start[1] + k) + ((Len(events[1]) + 1) - k)
      BY <1>6, <2>1, <3>1
    <3>3. \A a, b \in Nat, j \in Int : (a + j) + ((b + 1) - j) = (a + b) + 1
      OBVIOUS
    <3>4. (start[1] + k) + ((Len(events[1]) + 1) - k) = (start[1] + Len(events[1])) + 1
      BY <2>2, <3>1, <3>3
    <3>. QED
      BY <1>9, <3>2, <3>4
  <2>5. events'[1] # <<>>
    BY <2>3
  <2>. QED
    BY <2>4, <2>5, <1>4 DEF Window
<1>12. start[1] <= start'[1] /\ start[1] \in Nat /\ start'[1] \in Nat /\ published \in Nat
  BY SMTT(30), <1>2, <1>3, <1>6 DEF BridgeInv, BridgeTypeOK, BridgeOK, WorkerOK, ClientsOK, Streams
<1>13. Positions'
  <2>1. \A c \in Clients : Position(c)' = Position(c) /\ Position(c) \in Nat
    BY <1>4 DEF Position, BridgeInv, BridgeTypeOK, BridgeOK, WorkerOK, ClientsOK, EventIds, NoId, Numbers
  <2>. QED
    <3>. SUFFICES ASSUME NEW c \in Clients
                  PROVE  /\ Position(c) <= published + 1
                         /\ mode[c] = "open" /\ sub[c] = 1 =>
                              /\ next[c] >= Position(c) /\ next[c] <= published + 1
                              /\ \A s \in Position(c) .. next[c] - 1 : s < start'[1]
                         /\ mode[c] = "open" => sub[c] <= 1
      BY <2>1, <1>4 DEF Positions, BridgeInv
    <3>1. Position(c) \in Nat /\ next[c] \in Nat
      BY <2>1 DEF BridgeInv, BridgeTypeOK, ClientsOK
    <3>2. newest <= 1 /\ newest \in Nat
      BY <1>1 DEF BridgeInv, StreamStages, BridgeTypeOK, BridgeOK
    <3>3. /\ Position(c) <= published
          /\ mode[c] = "open" => sub[c] <= newest
          /\ mode[c] = "open" /\ sub[c] = 1 =>
               /\ next[c] >= Position(c) /\ next[c] <= published
               /\ \A s \in Position(c) .. next[c] - 1 : s < start[1]
      BY DEF BridgeInv, Positions
    <3>4. sub[c] \in Nat
      BY DEF BridgeInv, BridgeTypeOK, ClientsOK, Streams
    <3>. QED
      BY <1>12, <3>1, <3>2, <3>3, <3>4
<1>14. NoSilentGap'
  BY <1>4, <1>12 DEF NoSilentGap, Position, BridgeInv
<1>. QED
  BY <1>7, <1>8, <1>10, <1>11, <1>13, <1>14 DEF BridgeInv

\* The end of the run and the cleanup change no event.
LEMMA EndStep ==
    ASSUME BridgeInv, PublishEnd \/ Cleanup
    PROVE  BridgeInv'
<1>1. CASE PublishEnd
  <2>1. Current = 1 /\ Counter = published
    BY <1>1, LiveStream DEF PublishEnd
  <2>2. /\ ended' = [ended EXCEPT ![1] = TRUE] /\ newest' = 1 /\ registered' = TRUE
        /\ counter' = published /\ producer = "live" /\ producer' = "ended"
        /\ UNCHANGED <<events, start, published, mode, sub, next, last, got, connects>>
    BY <1>1, <2>1 DEF PublishEnd, GetsStream, Ended, clientVars
  <2>3. BridgeTypeOK' /\ StreamStages'
    BY <2>2 DEF BridgeInv, BridgeTypeOK, BridgeOK, WorkerOK, ClientsOK, StreamStages, Streams
  <2>4. SeqIsOffset' /\ Window'
    BY <2>2 DEF BridgeInv, SeqIsOffset, Window
  <2>5. Positions' /\ NoSilentGap'
    BY <2>2 DEF BridgeInv, Positions, NoSilentGap, Position, StreamStages, BridgeTypeOK, BridgeOK, WorkerOK,
                ClientsOK, Streams
  <2>. QED
    BY <2>3, <2>4, <2>5 DEF BridgeInv
<1>2. CASE Cleanup
  <2>1. BridgeTypeOK'
    <3>1. BridgeOK'
      <4>1. registered' \in BOOLEAN /\ UNCHANGED <<newest, events, start, ended>>
        BY <1>2 DEF Cleanup
      <4>2. counter' \in 0 .. MaxEvents
        BY <1>2, BoundAssumption DEF Cleanup
      <4>. QED
        BY <4>1, <4>2 DEF BridgeInv, BridgeTypeOK, BridgeOK
    <3>2. WorkerOK' /\ ClientsOK'
      BY <1>2 DEF Cleanup, clientVars, BridgeInv, BridgeTypeOK, WorkerOK, ClientsOK
    <3>. QED
      BY <3>1, <3>2 DEF BridgeTypeOK
  <2>4. StreamStages'
    BY <1>2 DEF Cleanup, BridgeInv, BridgeTypeOK, BridgeOK, WorkerOK, ClientsOK, StreamStages
  <2>2. SeqIsOffset' /\ Window'
    BY <1>2 DEF Cleanup, BridgeInv, SeqIsOffset, Window
  <2>3. Positions' /\ NoSilentGap'
    BY <1>2 DEF Cleanup, clientVars, BridgeInv, Positions, NoSilentGap, Position
  <2>. QED
    BY <2>1, <2>4, <2>2, <2>3 DEF BridgeInv
<1>. QED
  BY <1>1, <1>2

\* What a retained id is, and that one which is not retained and was delivered is older.
LEMMA ResolveFacts ==
    ASSUME BridgeInv, NEW c \in Clients
    PROVE  /\ \A id \in {NoId} \cup ForeignIds : ~Retained(1, id)
           /\ Retained(1, last[c]) => last[c].seq + 1 = Position(c)
           /\ ~Retained(1, last[c]) => Position(c) <= start[1]
<1>. DEFINE n == Len(events[1])
<1>1. /\ start[1] \in Nat /\ n \in Nat /\ published \in Nat /\ start[1] + n = published
      /\ \A i \in 1 .. n : events[1][i] = [origin |-> 1, seq |-> start[1] + i - 1]
  BY DEF BridgeInv, BridgeTypeOK, BridgeOK, WorkerOK, Window, SeqIsOffset, Streams
<1>2. \A id \in {NoId} \cup ForeignIds : ~Retained(1, id)
  <2>. SUFFICES ASSUME NEW id \in {NoId} \cup ForeignIds, Retained(1, id) PROVE FALSE
    OBVIOUS
  <2>1. PICK i \in 1 .. n : events[1][i] = id
    BY DEF Retained
  <2>2. id.origin = 1
    <3>1. id = [origin |-> 1, seq |-> start[1] + i - 1]
      BY <1>1, <2>1
    <3>. QED
      BY <3>1
  <2>3. id.origin = 0
    BY DEF NoId, ForeignIds
  <2>. QED
    BY <2>2, <2>3
<1>3. CASE last[c] = NoId
  BY <1>1, <1>2, <1>3 DEF Position
<1>4. CASE last[c] # NoId
  <2>1. last[c] = [origin |-> 1, seq |-> last[c].seq] /\ last[c].seq \in Nat
    BY <1>4 DEF BridgeInv, Positions, BridgeTypeOK, ClientsOK, EventIds, Numbers
  <2>2. Position(c) = last[c].seq + 1 /\ Position(c) <= published
    BY <1>4 DEF Position, BridgeInv, Positions
  <2>3. last[c].seq - start[1] + 1 \in 1 .. n => Retained(1, last[c])
    <3>. SUFFICES ASSUME last[c].seq - start[1] + 1 \in 1 .. n PROVE Retained(1, last[c])
      OBVIOUS
    <3>1. start[1] + (last[c].seq - start[1] + 1) - 1 = last[c].seq
      BY <1>1, <2>1
    <3>2. events[1][last[c].seq - start[1] + 1] = [origin |-> 1, seq |-> last[c].seq]
      BY <1>1, <3>1
    <3>. QED
      BY <2>1, <3>2 DEF Retained
  <2>. HIDE DEF n
  <2>4. ~Retained(1, last[c]) => last[c].seq + 1 <= start[1]
    BY <1>1, <2>1, <2>2, <2>3
  <2>. QED
    BY <1>2, <2>2, <2>4
<1>. QED
  BY <1>3, <1>4

\* Whatever id a client comes back with, its subscription starts at a legal place.
LEMMA ConnectsStep ==
    ASSUME BridgeInv, NEW c \in Clients, NEW id \in {last[c], NoId} \cup ForeignIds, Connects(c, id)
    PROVE  BridgeInv'
<1>1. /\ newest' = Current /\ registered' = TRUE /\ counter' = Counter
      /\ mode' = [mode EXCEPT ![c] = "open"]
      /\ sub' = [sub EXCEPT ![c] = Current]
      /\ next' = [next EXCEPT ![c] = Resolve(Current, id)]
      /\ connects' = connects + 1 /\ connects < MaxConnects
      /\ UNCHANGED <<events, start, ended, producer, published>>
  BY DEF Connects, GetsStream
<1>2. \/ id = last[c] /\ UNCHANGED <<last, got>>
      \/ /\ id # last[c]
         /\ last' = [last EXCEPT ![c] = NoId]
         /\ got' = [got EXCEPT ![c] = <<>>]
  BY DEF Connects
<1>3. /\ Current \in Streams /\ newest <= Current
      /\ producer # "released" => Current = 1 /\ Counter = published
      /\ Counter \in 0 .. MaxEvents
  BY BoundAssumption DEF BridgeInv, BridgeTypeOK, BridgeOK, WorkerOK, StreamStages, Current, Counter, Streams
<1>4. next'[c] \in Nat
  <2>1. id.seq \in Nat
    BY BoundAssumption DEF BridgeInv, BridgeTypeOK, ClientsOK, EventIds, NoId, ForeignIds, Numbers
  <2>. QED
    BY <1>1, <1>3, <2>1 DEF Resolve, BridgeInv, BridgeTypeOK, ClientsOK, BridgeOK
<1>5. BridgeTypeOK'
  <2>1. BridgeOK' /\ WorkerOK'
    <3>1. registered' \in BOOLEAN
      BY <1>1
    <3>2. newest' \in 0 .. 2 /\ counter' \in 0 .. MaxEvents
      BY <1>1, <1>3 DEF Streams
    <3>. QED
      BY <1>1, <3>1, <3>2 DEF BridgeInv, BridgeTypeOK, BridgeOK, WorkerOK
  <2>2. /\ mode' \in [Clients -> {"away", "open", "done"}] /\ sub' \in [Clients -> Streams]
        /\ next' \in [Clients -> Nat]
    BY <1>1, <1>3, <1>4 DEF BridgeInv, BridgeTypeOK, ClientsOK
  <2>3. last' \in [Clients -> EventIds \cup {NoId}] /\ got' \in [Clients -> Seq(Numbers)]
    <3>1. <<>> \in Seq(Numbers)
      OBVIOUS
    <3>2. last \in [Clients -> EventIds \cup {NoId}] /\ got \in [Clients -> Seq(Numbers)]
      BY DEF BridgeInv, BridgeTypeOK, ClientsOK
    <3>3. CASE UNCHANGED <<last, got>>
      BY <3>2, <3>3
    <3>4. CASE /\ last' = [last EXCEPT ![c] = NoId]
               /\ got' = [got EXCEPT ![c] = <<>>]
      <4>. HIDE DEF NoId, EventIds
      <4>1. last' \in [Clients -> EventIds \cup {NoId}]
        BY <3>2, <3>4
      <4>2. got' \in [Clients -> Seq(Numbers)]
        BY <3>1, <3>2, <3>4
      <4>. QED
        BY <4>1, <4>2
    <3>. QED
      BY <1>2, <3>3, <3>4
  <2>4. connects' \in 0 .. MaxConnects
    BY <1>1, BoundAssumption DEF BridgeInv, BridgeTypeOK, ClientsOK
  <2>. QED
    BY <2>1, <2>2, <2>3, <2>4 DEF BridgeTypeOK, ClientsOK
<1>6. StreamStages'
  BY <1>1, <1>3 DEF BridgeInv, StreamStages, BridgeTypeOK, BridgeOK, WorkerOK, Streams
<1>7. SeqIsOffset' /\ Window'
  BY <1>1 DEF BridgeInv, SeqIsOffset, Window
<1>8. \A d \in Clients : d # c =>
        /\ last'[d] = last[d] /\ got'[d] = got[d] /\ mode'[d] = mode[d]
        /\ sub'[d] = sub[d] /\ next'[d] = next[d] /\ Position(d)' = Position(d)
  BY <1>1, <1>2 DEF BridgeInv, BridgeTypeOK, ClientsOK, Position
<1>9. /\ mode'[c] = "open" /\ sub'[c] = Current /\ next'[c] = Resolve(Current, id)
      /\ \/ id = last[c] /\ last'[c] = last[c] /\ got'[c] = got[c]
         \/ id # last[c] /\ last'[c] = NoId /\ got'[c] = <<>>
  BY <1>1, <1>2 DEF BridgeInv, BridgeTypeOK, ClientsOK
<1>10. \/ id = last[c] /\ Position(c)' = Position(c)
       \/ id \in {NoId} \cup ForeignIds /\ Position(c)' = 0
  BY <1>9 DEF Position
<1>11. Position(c) \in Nat /\ Position(c) <= published /\ published \in Nat /\ start[1] \in Nat
  BY DEF Position, BridgeInv, Positions, BridgeTypeOK, BridgeOK, WorkerOK, ClientsOK, EventIds, NoId, Numbers, Streams
<1>12. start[1] <= published
  BY <1>11 DEF BridgeInv, BridgeTypeOK, BridgeOK, Window, Streams
<1>13. Current = 1 => /\ next'[c] >= Position(c)' /\ next'[c] <= published
                      /\ \A s \in Position(c)' .. next'[c] - 1 : s < start[1]
  <2>. SUFFICES ASSUME Current = 1
                PROVE  /\ next'[c] >= Position(c)' /\ next'[c] <= published
                       /\ \A s \in Position(c)' .. next'[c] - 1 : s < start[1]
    OBVIOUS
  <2>1. CASE Retained(1, id)
    <3>1. next'[c] = id.seq + 1 /\ id = last[c] /\ Position(c)' = Position(c)
      BY <1>9, <1>10, <2>1, ResolveFacts DEF Resolve
    <3>2. next'[c] = Position(c)
      BY <2>1, <3>1, ResolveFacts
    <3>. QED
      BY <1>11, <3>1, <3>2
  <2>2. CASE ~Retained(1, id)
    <3>1. next'[c] = start[1]
      BY <1>9, <2>2 DEF Resolve
    <3>2. Position(c)' <= start[1] /\ Position(c)' \in Nat
      BY <1>10, <1>11, <2>2, ResolveFacts
    <3>. QED
      BY <1>11, <1>12, <3>1, <3>2
  <2>. QED
    BY <2>1, <2>2
<1>14. Positions'
  <2>. SUFFICES ASSUME NEW d \in Clients
                PROVE  /\ last'[d] = NoId <=> got'[d] = <<>>
                       /\ got'[d] # <<>> =>
                            last'[d] = [origin |-> 1, seq |-> got'[d][Len(got'[d])]]
                       /\ Position(d)' <= published'
                       /\ mode'[d] = "open" => sub'[d] <= newest'
                       /\ mode'[d] = "open" /\ sub'[d] = 1 =>
                            next'[d] >= Position(d)' /\ next'[d] <= published'
                       /\ mode'[d] = "open" /\ sub'[d] = 1 =>
                            \A s \in Position(d)' .. next'[d] - 1 : s < start'[1]
    BY DEF Positions
  <2>1. CASE d # c
    <3>1. mode[d] = "open" => sub[d] <= newest'
      <4>1. mode[d] = "open" => sub[d] <= newest
        BY DEF BridgeInv, Positions
      <4>2. newest <= newest' /\ newest \in Nat /\ newest' \in Nat
        BY <1>1, <1>3 DEF BridgeInv, BridgeTypeOK, BridgeOK, Streams
      <4>3. sub[d] \in Nat
        <5>1. sub[d] \in Streams
          BY DEF BridgeInv, BridgeTypeOK, ClientsOK
        <5>. QED
          BY <5>1 DEF Streams
      <4>. QED
        BY <4>1, <4>2, <4>3
    <3>. QED
      BY <1>1, <1>8, <2>1, <3>1 DEF BridgeInv, Positions
  <2>2. CASE d = c
    <3>1. last'[c] = NoId <=> got'[c] = <<>>
      BY <1>9 DEF BridgeInv, Positions
    <3>2. got'[c] # <<>> => last'[c] = [origin |-> 1, seq |-> got'[c][Len(got'[c])]]
      BY <1>9 DEF BridgeInv, Positions
    <3>3. Position(c)' <= published' /\ sub'[c] <= newest'
      BY <1>1, <1>3, <1>9, <1>10, <1>11 DEF Streams
    <3>. QED
      BY <1>1, <1>9, <1>13, <2>2, <3>1, <3>2, <3>3
  <2>. QED
    BY <2>1, <2>2
<1>15. NoSilentGap'
  <2>. SUFFICES ASSUME NEW d \in Clients, NEW s \in 0 .. Position(d)' - 1
                PROVE  (\E i \in 1 .. Len(got'[d]) : got'[d][i] = s) \/ s < start'[1]
    BY DEF NoSilentGap
  <2>1. Position(d)' = Position(d) /\ got'[d] = got[d]
    BY <1>8, <1>9, <1>10 DEF Position
  <2>. QED
    BY <1>1, <2>1 DEF BridgeInv, NoSilentGap
<1>. QED
  BY <1>5, <1>6, <1>7, <1>14, <1>15 DEF BridgeInv

\* A delivery is the first event retained at or after the position of the client.
LEMMA DeliversStep ==
    ASSUME BridgeInv, NEW c \in Clients, Delivers(c)
    PROVE  /\ BridgeInv'
           /\ sub[c] = 1 /\ Caught(c) \in Position(c) .. published - 1
           /\ got' = [got EXCEPT ![c] = Append(got[c], Caught(c))]
<1>. DEFINE p == Caught(c)
<1>1. /\ next' = [next EXCEPT ![c] = p + 1]
      /\ last' = [last EXCEPT ![c] = events[sub[c]][Index(c)]]
      /\ got' = [got EXCEPT ![c] = Append(got[c], events[sub[c]][Index(c)].seq)]
      /\ mode[c] = "open" /\ Index(c) <= Len(events[sub[c]])
      /\ UNCHANGED <<registered, newest, events, start, ended, counter>>
      /\ UNCHANGED <<producer, published, mode, sub, connects>>
  BY DEF Delivers, bridgeVars
<1>2. /\ sub[c] \in Streams /\ next[c] \in Nat /\ start[1] \in Nat /\ start[2] \in Nat
      /\ published \in Nat /\ published <= MaxEvents
  BY BoundAssumption DEF BridgeInv, BridgeTypeOK, BridgeOK, WorkerOK, ClientsOK, Streams
<1>3. sub[c] = 1
  <2>1. Len(events[2]) = 0
    BY DEF BridgeInv, StreamStages
  <2>2. sub[c] = 2 => Index(c) \in Int /\ Index(c) >= 1
    BY <1>2 DEF Index, Caught
  <2>3. sub[c] # 2
    <3>. SUFFICES ASSUME sub[c] = 2 PROVE FALSE
      OBVIOUS
    <3>1. Index(c) <= 0
      BY <1>1, <2>1
    <3>. QED
      BY <2>2, <3>1
  <2>. QED
    BY <1>2, <2>3 DEF Streams
<1>4. /\ p \in Nat /\ start[1] <= p /\ next[c] <= p /\ (p = next[c] \/ p = start[1])
      /\ Index(c) = p - start[1] + 1
  BY <1>2, <1>3 DEF Caught, Index
<1>5. start[1] + Len(events[1]) = published /\ Len(events[1]) \in Nat
  BY DEF BridgeInv, Window, BridgeTypeOK, BridgeOK, Streams
<1>6. p <= published - 1 /\ Index(c) \in 1 .. Len(events[1])
  <2>. HIDE DEF p
  <2>1. Index(c) <= Len(events[1])
    BY <1>1, <1>3
  <2>. QED
    BY <1>2, <1>4, <1>5, <2>1
<1>7. events[1][Index(c)] = [origin |-> 1, seq |-> p]
  <2>1. events[1][Index(c)] = [origin |-> 1, seq |-> start[1] + Index(c) - 1]
    BY <1>6 DEF BridgeInv, SeqIsOffset, Streams
  <2>2. start[1] + Index(c) - 1 = p
    <3>. HIDE DEF p
    <3>. QED
      BY <1>2, <1>4
  <2>. QED
    BY <2>1, <2>2
<1>8. /\ Position(c) \in Nat /\ next[c] >= Position(c) /\ next[c] <= published
      /\ \A s \in Position(c) .. next[c] - 1 : s < start[1]
  BY <1>1, <1>3 DEF Position, BridgeInv, Positions, BridgeTypeOK, ClientsOK, EventIds, NoId, Numbers
<1>. HIDE DEF p
<1>9. p \in Position(c) .. published - 1 /\ p \in Numbers
  BY <1>2, <1>4, <1>6, <1>8, BoundAssumption DEF Numbers
<1>10. got[c] \in Seq(Numbers) /\ got' = [got EXCEPT ![c] = Append(got[c], p)]
  BY <1>1, <1>3, <1>7 DEF BridgeInv, BridgeTypeOK, ClientsOK
<1>11. /\ got'[c] = Append(got[c], p) /\ got'[c] \in Seq(Numbers)
       /\ Len(got'[c]) = Len(got[c]) + 1 /\ got'[c][Len(got[c]) + 1] = p
       /\ \A i \in 1 .. Len(got[c]) : got'[c][i] = got[c][i]
       /\ Len(got[c]) \in Nat
  BY <1>9, <1>10 DEF BridgeInv, BridgeTypeOK, ClientsOK
<1>12. last' = [last EXCEPT ![c] = [origin |-> 1, seq |-> p]] /\ last'[c] = [origin |-> 1, seq |-> p]
  BY <1>1, <1>3, <1>7 DEF BridgeInv, BridgeTypeOK, ClientsOK
<1>13. [origin |-> 1, seq |-> p] \in EventIds /\ last'[c] # NoId /\ Position(c)' = p + 1
  BY <1>9, <1>12 DEF EventIds, Streams, NoId, Position
<1>14. next'[c] = p + 1 /\ next' \in [Clients -> Nat]
  BY <1>1, <1>4 DEF BridgeInv, BridgeTypeOK, ClientsOK
<1>15. BridgeTypeOK'
  <2>1. BridgeOK' /\ WorkerOK'
    BY <1>1 DEF BridgeInv, BridgeTypeOK, BridgeOK, WorkerOK
  <2>2. last' \in [Clients -> EventIds \cup {NoId}]
    BY <1>12, <1>13 DEF BridgeInv, BridgeTypeOK, ClientsOK
  <2>3. got' \in [Clients -> Seq(Numbers)]
    BY <1>10, <1>11 DEF BridgeInv, BridgeTypeOK, ClientsOK
  <2>. QED
    BY <1>1, <1>14, <2>1, <2>2, <2>3 DEF BridgeInv, BridgeTypeOK, ClientsOK
<1>16. StreamStages' /\ SeqIsOffset' /\ Window'
  BY <1>1 DEF BridgeInv, StreamStages, SeqIsOffset, Window
<1>17. \A d \in Clients : d # c =>
         /\ last'[d] = last[d] /\ got'[d] = got[d] /\ next'[d] = next[d]
         /\ Position(d)' = Position(d)
  BY <1>1 DEF BridgeInv, BridgeTypeOK, ClientsOK, Position
<1>18. Positions'
  <2>. SUFFICES ASSUME NEW d \in Clients
                PROVE  /\ last'[d] = NoId <=> got'[d] = <<>>
                       /\ got'[d] # <<>> =>
                            last'[d] = [origin |-> 1, seq |-> got'[d][Len(got'[d])]]
                       /\ Position(d)' <= published'
                       /\ mode'[d] = "open" => sub'[d] <= newest'
                       /\ mode'[d] = "open" /\ sub'[d] = 1 =>
                            next'[d] >= Position(d)' /\ next'[d] <= published'
                       /\ mode'[d] = "open" /\ sub'[d] = 1 =>
                            \A s \in Position(d)' .. next'[d] - 1 : s < start'[1]
    BY DEF Positions
  <2>1. CASE d # c
    BY <1>1, <1>17, <2>1 DEF BridgeInv, Positions
  <2>2. CASE d = c
    <3>1. got'[c] # <<>>
      BY <1>11
    <3>2. last'[c] = [origin |-> 1, seq |-> got'[c][Len(got'[c])]]
      BY <1>11, <1>12
    <3>3. Position(c)' <= published' /\ next'[c] >= Position(c)' /\ next'[c] <= published'
      BY <1>1, <1>2, <1>9, <1>13, <1>14
    <3>4. \A s \in Position(c)' .. next'[c] - 1 : s < start'[1]
      BY <1>4, <1>13, <1>14
    <3>5. sub'[c] <= newest'
      BY <1>1 DEF BridgeInv, Positions
    <3>. QED
      BY <1>13, <2>2, <3>1, <3>2, <3>3, <3>4, <3>5
  <2>. QED
    BY <2>1, <2>2
<1>19. NoSilentGap'
  <2>. SUFFICES ASSUME NEW d \in Clients, NEW s \in 0 .. Position(d)' - 1
                PROVE  (\E i \in 1 .. Len(got'[d]) : got'[d][i] = s) \/ s < start'[1]
    BY DEF NoSilentGap
  <2>1. CASE d # c
    BY <1>1, <1>17, <2>1 DEF BridgeInv, NoSilentGap
  <2>2. CASE d = c
    <3>1. s \in Nat /\ s <= p
      BY <1>4, <1>13, <2>2
    <3>2. CASE s = p
      BY <1>11, <2>2, <3>2
    <3>3. CASE s < Position(c)
      <4>1. (\E i \in 1 .. Len(got[c]) : got[c][i] = s) \/ s < start[1]
        BY <1>8, <3>1, <3>3 DEF BridgeInv, NoSilentGap
      <4>. QED
        BY <1>1, <1>11, <2>2, <4>1
    <3>4. CASE Position(c) <= s /\ s < p
      <4>1. s < start[1]
        BY <1>2, <1>4, <1>8, <3>1, <3>4
      <4>. QED
        BY <1>1, <4>1
    <3>. QED
      BY <1>4, <1>8, <3>1, <3>2, <3>3, <3>4
  <2>. QED
    BY <2>1, <2>2
<1>20. BridgeInv'
  BY <1>15, <1>16, <1>18, <1>19 DEF BridgeInv
<1>. QED
  BY <1>3, <1>9, <1>10, <1>20 DEF p

\* The end reaches a client only after the last event.
LEMMA EndComesLast ==
    ASSUME BridgeInv, NEW c \in Clients, DeliversEnd(c)
    PROVE  Position(c) = published /\ producer # "live"
<1>1. mode[c] = "open" /\ Index(c) > Len(events[sub[c]]) /\ ended[sub[c]] /\ sub[c] \in Streams
  BY DEF DeliversEnd, BridgeInv, BridgeTypeOK, ClientsOK
<1>2. sub[c] = 1 /\ producer # "live"
  BY <1>1 DEF BridgeInv, StreamStages, Streams
<1>3. /\ next[c] \in Nat /\ start[1] \in Nat /\ published \in Nat /\ Len(events[1]) \in Nat
      /\ Position(c) \in Nat
  BY DEF BridgeInv, BridgeTypeOK, BridgeOK, WorkerOK, ClientsOK, Streams, Position, EventIds, NoId, Numbers
<1>4. start[1] + Len(events[1]) = published /\ (published > 0 => Len(events[1]) >= 1)
  BY <1>3 DEF BridgeInv, Window, BridgeTypeOK, BridgeOK, Streams
<1>5. /\ next[c] >= Position(c) /\ next[c] <= published
      /\ \A s \in Position(c) .. next[c] - 1 : s < start[1]
  BY <1>1, <1>2 DEF BridgeInv, Positions
<1>6. Caught(c) - start[1] + 1 > Len(events[1]) /\ (Caught(c) = next[c] \/ Caught(c) = start[1])
  BY <1>1, <1>2 DEF Caught, Index
<1>7. CASE published = 0
  BY <1>2, <1>3, <1>5, <1>7
<1>8. CASE published > 0
  <2>1. start[1] <= published - 1
    BY <1>3, <1>4, <1>8
  <2>2. next[c] = published
    BY <1>3, <1>4, <1>5, <1>6, <2>1
  <2>3. ~(Position(c) <= next[c] - 1)
    <3>. SUFFICES ASSUME Position(c) <= next[c] - 1 PROVE FALSE
      OBVIOUS
    <3>1. next[c] - 1 \in Position(c) .. next[c] - 1
      BY <1>3
    <3>. QED
      BY <1>3, <1>5, <2>1, <2>2, <3>1
  <2>. QED
    BY <1>2, <1>3, <1>5, <2>2, <2>3
<1>. QED
  BY <1>3, <1>7, <1>8

\* A client that leaves, with or without the end, keeps what it has.
LEMMA LeavesStep ==
    ASSUME BridgeInv, NEW c \in Clients, DeliversEnd(c) \/ Disconnects(c)
    PROVE  BridgeInv'
<1>1. /\ UNCHANGED <<registered, newest, events, start, ended, counter>>
      /\ UNCHANGED <<producer, published, sub, next, last, got, connects>>
      /\ mode' = [mode EXCEPT ![c] = "done"] \/ mode' = [mode EXCEPT ![c] = "away"]
  BY DEF DeliversEnd, Disconnects, bridgeVars
<1>2. mode' \in [Clients -> {"away", "open", "done"}]
  BY <1>1 DEF BridgeInv, BridgeTypeOK, ClientsOK
<1>3. BridgeTypeOK'
  BY <1>1, <1>2 DEF BridgeInv, BridgeTypeOK, BridgeOK, WorkerOK, ClientsOK
<1>4. StreamStages' /\ SeqIsOffset' /\ Window' /\ NoSilentGap'
  BY <1>1 DEF BridgeInv, StreamStages, SeqIsOffset, Window, NoSilentGap, Position
<1>5. \A d \in Clients : mode'[d] = "open" => mode[d] = "open"
  BY <1>1 DEF BridgeInv, BridgeTypeOK, ClientsOK
<1>6. Positions'
  BY <1>1, <1>5 DEF BridgeInv, Positions, Position
<1>. QED
  BY <1>3, <1>4, <1>6 DEF BridgeInv

\* Every step keeps the invariant.
LEMMA BridgeInvStep == BridgeInv /\ [BridgeNext]_streamVars => BridgeInv'
<1>. SUFFICES ASSUME BridgeInv, [BridgeNext]_streamVars PROVE BridgeInv'
  OBVIOUS
<1>1. CASE Publish
  BY <1>1, PublishStep
<1>2. CASE PublishEnd \/ Cleanup
  BY <1>2, EndStep
<1>3. CASE \E c \in Clients : \E id \in {last[c], NoId} \cup ForeignIds : Connects(c, id)
  BY <1>3, ConnectsStep
<1>4. CASE \E c \in Clients : Delivers(c)
  BY <1>4, DeliversStep
<1>5. CASE \E c \in Clients : DeliversEnd(c) \/ Disconnects(c)
  BY <1>5, LeavesStep
<1>6. CASE UNCHANGED streamVars
  BY <1>6 DEF streamVars, bridgeVars, clientVars, BridgeInv, BridgeTypeOK, BridgeOK, WorkerOK, ClientsOK,
              StreamStages, SeqIsOffset, Window, Positions, NoSilentGap, Position
<1>. QED
  BY <1>1, <1>2, <1>3, <1>4, <1>5, <1>6 DEF BridgeNext
-----------------------------------------------------------------------------
\* The inductive invariant holds throughout: what the streams retain, and where every
\* client and its subscription stand in what was published.
THEOREM BridgeInvariance == BridgeSpec => []BridgeInv
BY BridgeInvInit, BridgeInvStep, PTL DEF BridgeSpec

\* Every variable keeps its type: at most two streams are made for a run, and none retains
\* more than queue_maxsize events.
THEOREM BridgeTypeCorrect == BridgeSpec => []BridgeTypeOK
<1>1. BridgeInv => BridgeTypeOK
  BY DEF BridgeInv
<1>. QED
  BY BridgeInvariance, <1>1, PTL

\* "seq ... equals the event's absolute offset" (_resolve_start_offset), after any number of
\* evictions and reconnections.
THEOREM OffsetsAgree == BridgeSpec => []SeqIsOffset
<1>1. BridgeInv => SeqIsOffset
  BY DEF BridgeInv
<1>. QED
  BY BridgeInvariance, <1>1, PTL

\* subscribe loses an event only to the bound on what is retained.
THEOREM GapsAreEvictions == BridgeSpec => []NoSilentGap
<1>1. BridgeInv => NoSilentGap
  BY DEF BridgeInv
<1>. QED
  BY BridgeInvariance, <1>1, PTL

\* The position of a client is the one the feed computes from what it heard.
LEMMA SamePosition ==
    ASSUME BridgeInv, NEW c \in Clients
    PROVE  Feed!Position(c) = Position(c)
<1>1. CASE got[c] = <<>>
  BY <1>1 DEF Feed!Position, Position, BridgeInv, Positions
<1>2. CASE got[c] # <<>>
  <2>1. last[c] # NoId /\ last[c] = [origin |-> 1, seq |-> got[c][Len(got[c])]]
    BY <1>2 DEF BridgeInv, Positions
  <2>2. last[c].seq = got[c][Len(got[c])]
    BY <2>1
  <2>. QED
    BY <1>2, <2>1, <2>2 DEF Feed!Position, Position
<1>. QED
  BY <1>1, <1>2

\* Every step is one of EventFeed, or changes nothing there.
LEMMA FeedStep == BridgeInv /\ [BridgeNext]_streamVars => [Feed!Next]_Feed!vars
<1>. DEFINE finished == [c \in Clients |-> mode[c] = "done"]
<1>. SUFFICES ASSUME BridgeInv, [BridgeNext]_streamVars PROVE [Feed!Next]_Feed!vars
  OBVIOUS
<1>1. CASE Publish
  <2>1. producer = "live" /\ published' = published + 1 /\ UNCHANGED <<producer, got, mode>>
    BY <1>1 DEF Publish, clientVars
  <2>2. Feed!Publish
    BY <2>1 DEF Feed!Publish
  <2>. QED
    BY <2>2 DEF Feed!Next
<1>2. CASE PublishEnd
  <2>1. producer' = "ended" /\ UNCHANGED <<published, got, mode>>
    BY <1>2 DEF PublishEnd, clientVars
  <2>2. Feed!Close
    BY <2>1 DEF Feed!Close
  <2>. QED
    BY <2>2 DEF Feed!Next
<1>3. CASE Cleanup
  <2>1. producer = "ended" /\ producer' = "released" /\ UNCHANGED <<published, got, mode>>
    BY <1>3 DEF Cleanup, clientVars
  <2>. QED
    BY <2>1 DEF Feed!vars
<1>4. ASSUME NEW c \in Clients, NEW id \in {last[c], NoId} \cup ForeignIds, Connects(c, id)
      PROVE  [Feed!Next]_Feed!vars
  <2>1. /\ mode[c] = "away" /\ mode' = [mode EXCEPT ![c] = "open"]
        /\ UNCHANGED <<producer, published>>
        /\ got' = got \/ got' = [got EXCEPT ![c] = <<>>]
    BY <1>4 DEF Connects
  <2>2. ~finished[c] /\ finished' = finished
    BY <2>1 DEF BridgeInv, BridgeTypeOK, ClientsOK
  <2>3. CASE got' = got
    BY <2>1, <2>2, <2>3 DEF Feed!vars
  <2>4. CASE got' = [got EXCEPT ![c] = <<>>]
    <3>1. Feed!Restart(c)
      BY <2>1, <2>2, <2>4 DEF Feed!Restart
    <3>. QED
      BY <3>1 DEF Feed!Next
  <2>. QED
    BY <2>1, <2>3, <2>4
<1>5. ASSUME NEW c \in Clients, Delivers(c)
      PROVE  [Feed!Next]_Feed!vars
  <2>1. mode[c] = "open" /\ UNCHANGED <<producer, published, mode>>
    BY <1>5 DEF Delivers
  <2>2. /\ Caught(c) \in Feed!Position(c) .. published - 1
        /\ got' = [got EXCEPT ![c] = Append(got[c], Caught(c))]
    BY <1>5, DeliversStep, SamePosition
  <2>3. ~finished[c] /\ finished' = finished
    BY <2>1
  <2>4. Feed!Receive(c)
    BY <2>1, <2>2, <2>3 DEF Feed!Receive
  <2>. QED
    BY <2>4 DEF Feed!Next
<1>6. ASSUME NEW c \in Clients, DeliversEnd(c)
      PROVE  [Feed!Next]_Feed!vars
  <2>1. mode' = [mode EXCEPT ![c] = "done"] /\ UNCHANGED <<producer, published, got>>
    BY <1>6 DEF DeliversEnd
  <2>2. producer # "live" /\ Feed!Position(c) = published
    BY <1>6, EndComesLast, SamePosition
  <2>3. finished' = [finished EXCEPT ![c] = TRUE]
    BY <2>1 DEF BridgeInv, BridgeTypeOK, ClientsOK
  <2>4. Feed!Finish(c)
    BY <2>1, <2>2, <2>3 DEF Feed!Finish
  <2>. QED
    BY <2>4 DEF Feed!Next
<1>7. ASSUME NEW c \in Clients, Disconnects(c)
      PROVE  [Feed!Next]_Feed!vars
  <2>1. /\ mode[c] = "open" /\ mode' = [mode EXCEPT ![c] = "away"]
        /\ UNCHANGED <<producer, published, got>>
    BY <1>7 DEF Disconnects
  <2>2. finished' = finished
    BY <2>1 DEF BridgeInv, BridgeTypeOK, ClientsOK
  <2>. QED
    BY <2>1, <2>2 DEF Feed!vars
<1>8. CASE UNCHANGED streamVars
  BY <1>8 DEF streamVars, clientVars, Feed!vars
<1>. QED
  BY <1>1, <1>2, <1>3, <1>4, <1>5, <1>6, <1>7, <1>8 DEF BridgeNext

\* The stream implements the feed it promises: no client gets an event twice or out of
\* order, and none hears of the end before it has the last event.
THEOREM FeedImplemented == BridgeSpec => ImplementsFeed
<1>1. BridgeInit => Feed!Init
  BY DEF BridgeInit, Feed!Init
<1>. QED
  BY <1>1, BridgeInvariance, FeedStep, PTL DEF BridgeSpec, ImplementsFeed, Feed!Spec
=============================================================================
