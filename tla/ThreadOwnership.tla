--------------------------- MODULE ThreadOwnership ---------------------------
(***************************************************************************)
(* What the run subsystem promises of one conversation thread.             *)
(*                                                                         *)
(* content[t] is the set of runs whose output the latest checkpoint of the *)
(* thread carries.  A thread has at most one owner; only the owner adds    *)
(* its own output, only the owner takes its own output back, and nobody    *)
(* touches the output of another run.  The process may die at any time,    *)
(* which ends every ownership and leaves the content as it is.             *)
(***************************************************************************)
CONSTANTS Threads, Runs, NoRun

VARIABLES owner, content

vars == <<owner, content>>

TypeOK ==
    /\ owner \in [Threads -> Runs \cup {NoRun}]
    /\ content \in [Threads -> SUBSET Runs]

Init ==
    /\ owner = [t \in Threads |-> NoRun]
    /\ content = [t \in Threads |-> {}]

Acquire(t, r) ==
    /\ owner[t] = NoRun
    /\ owner' = [owner EXCEPT ![t] = r]
    /\ UNCHANGED content

Extend(t) ==
    /\ owner[t] # NoRun
    /\ content' = [content EXCEPT ![t] = @ \cup {owner[t]}]
    /\ UNCHANGED owner

Undo(t) ==
    /\ owner[t] # NoRun
    /\ content' = [content EXCEPT ![t] = @ \ {owner[t]}]
    /\ UNCHANGED owner

Release(t) ==
    /\ owner[t] # NoRun
    /\ owner' = [owner EXCEPT ![t] = NoRun]
    /\ UNCHANGED content

Die ==
    /\ owner' = [t \in Threads |-> NoRun]
    /\ UNCHANGED content

Next ==
    \/ \E t \in Threads :
         \/ \E r \in Runs : Acquire(t, r)
         \/ Extend(t)
         \/ Undo(t)
         \/ Release(t)
    \/ Die

Spec == Init /\ [][Next]_vars
=============================================================================
