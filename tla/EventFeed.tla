----------------------------- MODULE EventFeed -----------------------------
(***************************************************************************)
(* What the stream of a run promises its clients: the events are numbered  *)
(* in the order they were published, a client receives them in that order, *)
(* none twice, perhaps not all of them, and hears of the end of the stream *)
(* only when the last event has reached it.  A client that gives up its    *)
(* position starts again anywhere.                                         *)
(***************************************************************************)
EXTENDS Integers, Sequences

CONSTANT Clients

VARIABLES
    published,  \* the number of events published
    over,       \* nothing more will be published
    heard,      \* the numbers of the events a client received since it last started
    done        \* the client heard of the end

vars == <<published, over, heard, done>>

TypeOK ==
    /\ published \in Nat
    /\ over \in BOOLEAN
    /\ heard \in [Clients -> Seq(Nat)]
    /\ done \in [Clients -> BOOLEAN]

Init ==
    /\ published = 0
    /\ over = FALSE
    /\ heard = [c \in Clients |-> <<>>]
    /\ done = [c \in Clients |-> FALSE]

Publish ==
    /\ ~over
    /\ published' = published + 1
    /\ UNCHANGED <<over, heard, done>>

Close ==
    /\ over' = TRUE
    /\ UNCHANGED <<published, heard, done>>

\* The number after the last one a client received.
Position(c) == IF heard[c] = <<>> THEN 0 ELSE heard[c][Len(heard[c])] + 1

Receive(c) ==
    /\ ~done[c]
    /\ \E s \in Position(c) .. published - 1 : heard' = [heard EXCEPT ![c] = Append(@, s)]
    /\ UNCHANGED <<published, over, done>>

Restart(c) ==
    /\ ~done[c]
    /\ heard' = [heard EXCEPT ![c] = <<>>]
    /\ UNCHANGED <<published, over, done>>

Finish(c) ==
    /\ over /\ Position(c) = published
    /\ done' = [done EXCEPT ![c] = TRUE]
    /\ UNCHANGED <<published, over, heard>>

Next ==
    \/ Publish
    \/ Close
    \/ \E c \in Clients : Receive(c) \/ Restart(c) \/ Finish(c)

Spec == Init /\ [][Next]_vars
=============================================================================
