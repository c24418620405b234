--------------------------- MODULE ProjectionOutbox ---------------------------
(***************************************************************************)
(* What the thread lifecycle journal promises: a change of a thread is     *)
(* announced before it is made, its outcome is decided once, and each      *)
(* domain handler has its delivery recorded at most once, only after the   *)
(* change was committed.                                                   *)
(***************************************************************************)
CONSTANTS Threads, Handlers

VARIABLES
    source,     \* what is known of the change of each thread
    delivered   \* the deliveries <<thread, handler>> recorded as successful

vars == <<source, delivered>>

Init ==
    /\ source = [t \in Threads |-> "none"]
    /\ delivered = {}

Announce(t) ==
    /\ source[t] = "none"
    /\ source' = [source EXCEPT ![t] = "prepared"]
    /\ UNCHANGED delivered

Decide(t, outcome) ==
    /\ source[t] = "prepared"
    /\ source' = [source EXCEPT ![t] = outcome]
    /\ UNCHANGED delivered

Deliver(t, h) ==
    /\ source[t] = "committed"
    /\ <<t, h>> \notin delivered
    /\ delivered' = delivered \cup {<<t, h>>}
    /\ UNCHANGED source

Next ==
    \E t \in Threads :
        \/ Announce(t)
        \/ \E outcome \in {"committed", "aborted"} : Decide(t, outcome)
        \/ \E h \in Handlers : Deliver(t, h)

Spec == Init /\ [][Next]_vars
=============================================================================
