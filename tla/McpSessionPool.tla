--------------------------- MODULE McpSessionPool ---------------------------
(***************************************************************************)
(* The pool of MCP sessions (mcp/session_pool.py).  A session is entered,  *)
(* used and left inside one owner task; callers of get_session find it in  *)
(* the registry, join its creation, or create it themselves.  The registry *)
(* changes under one lock; everything between two critical sections is     *)
(* interleaved with other callers, with closers, with the cancellation of  *)
(* the caller and with callers on other event loops.                       *)
(*                                                                         *)
(* An owner is named after the call that created it.  Closing it means to  *)
(* set its event and, for a creation that may hang in initialize, to       *)
(* cancel its task.  What is sent to another loop is delivered later.      *)
(* Loops are never closed here.                                            *)
(***************************************************************************)
EXTENDS Naturals, FiniteSets

CONSTANTS MaxGets,       \* bound on the calls of get_session
          Keys,          \* (server, scope)
          Loops,         \* event loops
          Unset,
          MaxSessions,   \* MAX_SESSIONS
          MaxCloses,     \* bound on the calls of the close operations
          MaxCancels     \* bound on the cancellations of a caller

ASSUME PoolAssumption ==
    /\ Unset \notin Keys \cup Loops /\ MaxSessions \in Nat \ {0}
    /\ MaxGets \in Nat /\ MaxCloses \in Nat /\ MaxCancels \in Nat

Calls  == 1..MaxGets     \* calls of get_session, numbered in the order they take the lock
NoCall == 0

VARIABLES
  entries,    \* _entries: the owners registered
  older,      \* its order: <<o, p>> when p was used or registered after o
  inflight,   \* _inflight: the owners of creations that may be joined
  call,       \* locals of each call of get_session
  owner,      \* _run_session: "none" until the task is made
  ready,      \* its future: "pending", "session" or "failed"
  told,       \* what was done to the task: "close" (the event is set), "cancel"
  ending,     \* <<o, kind>> that a closer has taken from the registry and will tell
  posted,     \* <<o, kind>> on their way to the loop of o
  closes, cancels

poolVars == <<entries, older, inflight, call, owner, ready, told, ending, posted, closes, cancels>>

Key(o)  == call[o].key
Loop(o) == call[o].loop
Kinds   == {"close", "cancel"}
Live    == {"initializing", "open"}

Idle == [pc |-> "new", key |-> Unset, loop |-> Unset, evicted |-> {}, until |-> NoCall, wait |-> NoCall]

PoolInit ==
    /\ entries = {} /\ older = {} /\ inflight = {} /\ ending = {} /\ posted = {}
    /\ call = [c \in Calls |-> Idle]
    /\ owner = [c \in Calls |-> "none"]
    /\ ready = [c \in Calls |-> "pending"]
    /\ told = [c \in Calls |-> {}]
    /\ closes = 0 /\ cancels = 0
-----------------------------------------------------------------------------
(* Phase 1, under the lock *)

\* The order of the entries that stay, and of the entries once o was put last.
Kept(os) == {e \in older : e[1] \in os /\ e[2] \in os}
PutLast(o) == Kept(entries \ {o}) \cup ((entries \ {o}) \X {o})

\* The registered owners a caller on loop l evicts: the one of its key when it belongs
\* to another loop, and the least recently used ones while the registry is full.
Foreign(k, l) == {o \in entries : Key(o) = k /\ Loop(o) # l}
Oldest(os) == {o \in os : Cardinality({p \in os : <<o, p>> \in older}) >= MaxSessions - 1}

Reuses(c, k, l) ==
    \E o \in entries :
      /\ Key(o) = k /\ Loop(o) = l
      /\ older' = PutLast(o)
      /\ call' = [call EXCEPT ![c] = [Idle EXCEPT !.pc = "done", !.key = k, !.loop = l]]
      /\ UNCHANGED <<entries, inflight, owner>>

\* Mutant: what was evicted is forgotten.
AfterForgetting(left, c, o) == IF o = c THEN "create" ELSE "join"

\* Phase 2 is over once everything evicted was told; then the caller waits for the
\* creation it joined, or for its own.
AfterEvicting(left, c, o) == IF left # {} THEN "evict" ELSE IF o = c THEN "create" ELSE "join"

JoinsOrCreates(c, k, l) ==
    LET here  == {o \in inflight : Key(o) = k /\ Loop(o) = l}
        stale == {o \in inflight : Key(o) = k /\ Loop(o) # l}
        kept  == entries \ Foreign(k, l)
        gone  == Foreign(k, l) \cup Oldest(kept)
    IN /\ ~\E o \in entries : Key(o) = k /\ Loop(o) = l
       /\ entries' = entries \ gone /\ older' = Kept(entries \ gone)
       /\ IF here # {}
            THEN UNCHANGED <<inflight, owner>>
            ELSE /\ inflight' = (inflight \ stale) \cup {c}
                 /\ owner' = [owner EXCEPT ![c] = "created"]
       /\ LET tell == (gone \X {"close"}) \cup (IF here = {} THEN stale \X {"cancel"} ELSE {})
              wait == IF here = {} THEN c ELSE CHOOSE o \in here : TRUE
          IN call' = [call EXCEPT ![c] = [pc |-> AfterEvicting(tell, c, wait), key |-> k, loop |-> l,
                                          evicted |-> tell, until |-> NoCall, wait |-> wait]]

GetSession(c, k, l) ==
    /\ call[c].pc = "new"
    /\ \A b \in 1..(c - 1) : call[b].pc # "new"
    /\ Reuses(c, k, l) \/ JoinsOrCreates(c, k, l)
    /\ UNCHANGED <<ready, told, ending, posted, closes, cancels>>
-----------------------------------------------------------------------------
(* Ending a session *)

\* Mutant: a creation is closed like an open session.
ClosesGently(kind) == {"close"}

\* The owner's event is set and, for a creation, its task is cancelled: at once on its
\* own loop, otherwise by a callback that its loop runs later.
Closes(kind) == IF kind = "cancel" THEN Kinds ELSE {"close"}
Tell(o, kind, l) ==
    IF Loop(o) = l
      THEN told' = [told EXCEPT ![o] = @ \cup Closes(kind)] /\ UNCHANGED posted
      ELSE posted' = posted \cup {<<o, kind>>} /\ UNCHANGED told

\* The loop of o runs what was posted to it, which is after the first step of o.
Delivered(o, kind) ==
    /\ <<o, kind>> \in posted
    /\ owner[o] # "created"
    /\ posted' = posted \ {<<o, kind>>}
    /\ told' = [told EXCEPT ![o] = @ \cup Closes(kind)]
    /\ UNCHANGED <<entries, older, inflight, call, owner, ready, ending, closes, cancels>>

\* Phase 2: the evicted owners are told in turn; the caller waits for those of its own
\* loop and for the creations it cancelled.
Evicts(c) ==
    /\ call[c].pc = "evict"
    /\ \E e \in call[c].evicted :
         /\ Tell(e[1], e[2], Loop(c))
         /\ LET waits == Loop(e[1]) = Loop(c) \/ e[2] = "cancel"
                left  == call[c].evicted \ {e}
            IN call' = [call EXCEPT ![c].evicted = left, ![c].until = IF waits THEN e[1] ELSE NoCall,
                          ![c].pc = IF waits THEN "until" ELSE AfterEvicting(left, c, call[c].wait)]
    /\ UNCHANGED <<entries, older, inflight, owner, ready, ending, closes, cancels>>

Waits(c, o) == call[c].pc = "until" /\ call[c].until = o

Evicted(c) ==
    /\ \E o \in Calls : Waits(c, o) /\ owner[o] = "gone"
    /\ call' = [call EXCEPT ![c].pc = AfterEvicting(call[c].evicted, c, call[c].wait), ![c].until = NoCall]
    /\ UNCHANGED <<entries, older, inflight, owner, ready, told, ending, posted, closes, cancels>>

\* close_scope, close_server, close_all and close_all_sync: the keys leave the registry
\* under the lock, then their owners are told one after the other, on their own loop or
\* through a callback.
Close(ks) ==
    LET os == {o \in entries : Key(o) \in ks}
        is == {o \in inflight : Key(o) \in ks}
    IN /\ closes < MaxCloses /\ closes' = closes + 1
       /\ os \cup is # {}
       /\ entries' = entries \ os /\ older' = Kept(entries \ os)
       /\ inflight' = inflight \ is
       /\ ending' = ending \cup (os \X {"close"}) \cup (is \X {"cancel"})
       /\ UNCHANGED <<call, owner, ready, told, posted, cancels>>

CloserTells(o, kind) ==
    /\ <<o, kind>> \in ending
    /\ ending' = ending \ {<<o, kind>>}
    /\ told' = [told EXCEPT ![o] = @ \cup Closes(kind)]
    /\ UNCHANGED <<entries, older, inflight, call, owner, ready, posted, closes, cancels>>
-----------------------------------------------------------------------------
(* Phases 2b to 4 *)

Returns(c) == call' = [call EXCEPT ![c].pc = "done"]

Joined(c) ==
    /\ call[c].pc = "join" /\ ready[call[c].wait] # "pending"
    /\ Returns(c)
    /\ UNCHANGED <<entries, older, inflight, owner, ready, told, ending, posted, closes, cancels>>

\* Mutant: the record is not looked at again.
AlwaysOurs(c) == TRUE

\* Our record is still the one of the key: nobody closed the session meanwhile.
StillOurs(c) == c \in inflight

Promotes(c) ==
    /\ call[c].pc = "create" /\ ready[c] = "session"
    /\ IF StillOurs(c)
         THEN /\ inflight' = inflight \ {c}
              /\ entries' = entries \cup {c} /\ older' = PutLast(c)
              /\ Returns(c)
              /\ UNCHANGED told
         ELSE /\ told' = [told EXCEPT ![c] = @ \cup {"close"}]
              /\ call' = [call EXCEPT ![c].pc = "teardown"]
              /\ UNCHANGED <<entries, older, inflight>>
    /\ UNCHANGED <<owner, ready, ending, posted, closes, cancels>>

\* The owner reported a failure and is already leaving: it is not cancelled.
Fails(c) ==
    /\ call[c].pc = "create" /\ ready[c] = "failed"
    /\ call' = [call EXCEPT ![c].pc = "unwind"]
    /\ UNCHANGED <<entries, older, inflight, owner, ready, told, ending, posted, closes, cancels>>

Unwound(c) ==
    /\ call[c].pc = "unwind" /\ owner[c] = "gone"
    /\ inflight' = inflight \ {c}
    /\ Returns(c)
    /\ UNCHANGED <<entries, older, owner, ready, told, ending, posted, closes, cancels>>

TornDown(c) ==
    /\ call[c].pc = "teardown" /\ owner[c] = "gone"
    /\ Returns(c)
    /\ UNCHANGED <<entries, older, inflight, owner, ready, told, ending, posted, closes, cancels>>

\* A caller that is cancelled while it waits for another loop gives up, and leaves what it
\* has not told yet and its own creation.  What it sent there may be cancelled with it.
GivesUp(c, o) ==
    \/ Returns(c) /\ UNCHANGED posted
    \/ /\ <<o, "cancel">> \in posted /\ posted' = posted \ {<<o, "cancel">>}
       /\ call' = [call EXCEPT ![c].pc = "done", ![c].evicted = @ \cup {<<o, "cancel">>}]

\* The task that called get_session is cancelled.  Waiting for an evicted owner of its
\* own loop, it passes the cancellation on to it and goes on.
CallerCancelled(c) ==
    /\ cancels < MaxCancels /\ cancels' = cancels + 1
    /\ \/ \E o \in Calls : /\ Waits(c, o)
                           /\ IF Loop(o) = Loop(c)
                                THEN told' = [told EXCEPT ![o] = @ \cup {"cancel"}] /\ UNCHANGED <<call, posted>>
                                ELSE GivesUp(c, o) /\ UNCHANGED told
                           /\ UNCHANGED inflight
       \/ /\ call[c].pc = "join" /\ Returns(c)
          /\ UNCHANGED <<inflight, told, posted>>
       \/ /\ call[c].pc = "create" /\ ready[c] # "failed"
          /\ told' = [told EXCEPT ![c] = Kinds]
          /\ call' = [call EXCEPT ![c].pc = "unwind"]
          /\ UNCHANGED <<inflight, posted>>
       \/ /\ call[c].pc = "unwind"
          /\ inflight' = inflight \ {c} /\ Returns(c) /\ UNCHANGED <<told, posted>>
       \/ /\ call[c].pc = "teardown"
          /\ told' = [told EXCEPT ![c] = @ \cup {"cancel"}]
          /\ UNCHANGED <<inflight, call, posted>>
    /\ UNCHANGED <<entries, older, owner, ready, ending, closes>>
-----------------------------------------------------------------------------
(* _run_session *)

Resolves(o, r) == ready' = [ready EXCEPT ![o] = IF @ = "pending" THEN r ELSE @]
Moves(o, s) == owner' = [owner EXCEPT ![o] = s]
OnlyOwner == UNCHANGED <<entries, older, inflight, call, told, ending, posted, closes, cancels>>

\* The first step of the task, up to the connection of the transport.  A task that is
\* cancelled before it never runs its body, and its future stays pending.
OwnerStarts(o) ==
    /\ owner[o] = "created"
    /\ \/ "cancel" \in told[o] /\ Moves(o, "gone") /\ UNCHANGED ready
       \/ "cancel" \notin told[o] /\ Moves(o, "initializing") /\ UNCHANGED ready
       \/ "cancel" \notin told[o] /\ Moves(o, "gone") /\ Resolves(o, "failed")
    /\ OnlyOwner

\* The server answers initialize, or fails to.
Initializes(o) == /\ owner[o] = "initializing"
                  /\ \/ Moves(o, "open") /\ Resolves(o, "session")
                     \/ Moves(o, "exiting") /\ Resolves(o, "failed")
                  /\ OnlyOwner

OwnerCancelled(o) ==
    /\ "cancel" \in told[o]
    /\ owner[o] \in Live /\ Moves(o, "exiting")
    /\ Resolves(o, "failed") /\ OnlyOwner

OwnerCloses(o) == /\ owner[o] = "open" /\ "close" \in told[o]
                  /\ Moves(o, "exiting") /\ UNCHANGED ready /\ OnlyOwner

Exits(o) == owner[o] = "exiting" /\ Moves(o, "gone") /\ UNCHANGED ready /\ OnlyOwner
-----------------------------------------------------------------------------
CallStep(c) == \/ Evicts(c) \/ Evicted(c)
               \/ Joined(c) \/ Promotes(c) \/ Fails(c) \/ Unwound(c) \/ TornDown(c)

OwnerStep(o) == OwnerStarts(o) \/ OwnerCancelled(o) \/ OwnerCloses(o) \/ Exits(o)

PoolNext ==
    \/ \E c \in Calls, k \in Keys, l \in Loops : GetSession(c, k, l)
    \/ \E c \in Calls : CallStep(c) \/ CallerCancelled(c)
    \/ \E o \in Calls : OwnerStep(o) \/ Initializes(o)
    \/ \E o \in Calls, kind \in Kinds : Delivered(o, kind) \/ CloserTells(o, kind)
    \/ \E ks \in SUBSET Keys : Close(ks)

PoolSpec == PoolInit /\ [][PoolNext]_poolVars
-----------------------------------------------------------------------------
Pcs == {"new", "evict", "create", "join", "unwind", "teardown", "done", "until"}

Ids == Calls \cup {NoCall}
Locals == [pc : Pcs, key : Keys \cup {Unset}, loop : Loops \cup {Unset},
           evicted : SUBSET (Calls \X Kinds), until : Ids, wait : Ids]

RegistryOK ==
    /\ entries \subseteq Calls /\ older \subseteq entries \X entries /\ inflight \subseteq Calls
    /\ ending \subseteq Calls \X Kinds /\ posted \subseteq Calls \X Kinds
    /\ closes \in 0..MaxCloses /\ cancels \in 0..MaxCancels

OwnersOK ==
    /\ owner \in [Calls -> {"none", "created", "exiting", "gone"} \cup Live]
    /\ ready \in [Calls -> {"pending", "session", "failed"}]
    /\ told \in [Calls -> SUBSET Kinds]

PoolTypeOK == RegistryOK /\ OwnersOK /\ call \in [Calls -> Locals]

\* Somebody has taken o from the registry and will tell it to end.
ToBeTold(o) == \E kind \in Kinds :
                 \/ <<o, kind>> \in ending \cup posted
                 \/ \E c \in Calls : call[c].pc \in {"evict", "until"} /\ <<o, kind>> \in call[c].evicted

\* Somebody had taken o from the registry, and was cancelled before o was told to end.
Abandoned(o) == \E c \in Calls, kind \in Kinds : call[c].pc = "done" /\ <<o, kind>> \in call[c].evicted

\* A session that is entered can always be found by those who must end it: it is
\* registered, in flight, told to end or about to be told.  The one exception is a caller
\* that is cancelled while it waits for another loop, and leaves what it has not told.
\* (session_pool.py 196-246, "guarantees we never leak a session or owner task".)
NoLeakedSession ==
    \A o \in Calls : owner[o] \in Live =>
      o \in entries \cup inflight \/ told[o] # {} \/ ToBeTold(o) \/ Abandoned(o)

\* What the registry hands out is open, nobody has told it to end, and it is the only
\* session of its key: a session closed during its creation is never registered.
\* (session_pool.py 236-252, "must NOT resurrect".)
RegisteredIsOpen ==
    /\ \A o \in entries : owner[o] = "open" /\ told[o] = {} /\ ~ToBeTold(o)
    /\ \A o, p \in entries : Key(o) = Key(p) => o = p

\* An owner that was taken from the registry is told to end and does end, even when its
\* server never answers; again but for a caller that is cancelled.
\* (session_pool.py 285-302, "it must be cancelled".)
ToldEnds == \A o \in Calls : told[o] # {} \/ ToBeTold(o) ~> owner[o] = "gone" \/ Abandoned(o)
=============================================================================
