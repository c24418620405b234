------------------------------- MODULE Inbox --------------------------------
(***************************************************************************)
(* What the manager of the channels promises about redelivered messages:   *)
(* a message is in the hands of one handler, of two only when it has been  *)
(* forgotten meanwhile; a delivery is turned away only while somebody has  *)
(* the message, or lost it; and what is settled is not given back.  Losing *)
(* a message is no promise but the exception to it, and a step of its own. *)
(***************************************************************************)
CONSTANTS Handlers, Messages

VARIABLES
    message,  \* the message each handler is for
    hands,    \* the handlers that have taken their message
    settled,  \* those of them that are through with it
    lost,     \* the handlers that failed without giving their message back
    past,     \* the handlers that were turned away or gave their message back
    lapsed    \* the messages that have been forgotten

vars == <<message, hands, settled, lost, past, lapsed>>

TypeOK ==
    /\ message \in [Handlers -> Messages]
    /\ hands \subseteq Handlers /\ past \subseteq Handlers \ hands
    /\ settled \subseteq hands
    /\ lost \subseteq Handlers \ (hands \cup past)
    /\ lapsed \subseteq Messages

Init ==
    /\ message \in [Handlers -> Messages]
    /\ hands = {} /\ settled = {} /\ lost = {} /\ past = {} /\ lapsed = {}

InHands(m) == \E h \in hands : message[h] = m
Lost(m)    == \E h \in lost : message[h] = m

Fresh(h) == h \notin hands \cup lost \cup past

Take(h) ==
    /\ Fresh(h)
    /\ InHands(message[h]) \/ Lost(message[h]) => message[h] \in lapsed
    /\ hands' = hands \cup {h}
    /\ UNCHANGED <<message, settled, lost, past, lapsed>>

TurnAway(h) ==
    /\ Fresh(h)
    /\ InHands(message[h]) \/ Lost(message[h])
    /\ past' = past \cup {h}
    /\ UNCHANGED <<message, hands, settled, lost, lapsed>>

GiveBack(h) ==
    /\ h \in hands \ settled
    /\ hands' = hands \ {h} /\ past' = past \cup {h}
    /\ UNCHANGED <<message, settled, lost, lapsed>>

Settle(h) ==
    /\ h \in hands
    /\ settled' = settled \cup {h}
    /\ UNCHANGED <<message, hands, lost, past, lapsed>>

Lose(h) ==
    /\ h \in hands \ settled
    /\ hands' = hands \ {h} /\ lost' = lost \cup {h}
    /\ UNCHANGED <<message, settled, past, lapsed>>

Forget(m) ==
    /\ InHands(m) \/ Lost(m)
    /\ lapsed' = lapsed \cup {m}
    /\ UNCHANGED <<message, hands, settled, lost, past>>

Next ==
    \/ \E h \in Handlers : Take(h) \/ TurnAway(h) \/ GiveBack(h) \/ Settle(h) \/ Lose(h)
    \/ \E m \in Messages : Forget(m)

Spec == Init /\ [][Next]_vars
=============================================================================
