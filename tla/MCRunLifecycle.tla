--------------------------- MODULE MCRunLifecycle ---------------------------
EXTENDS RunLifecycle, TLC
CONSTANTS t1, t2, r1, r2, r3
OneThread == [r \in Runs |-> t1]
TwoThreads == [r \in Runs |-> IF r = r3 THEN t2 ELSE t1]
Symmetric == Permutations(Runs)
Pairwise == Permutations({r1, r2})
\* The run of the other thread is there to take the registry lock: it is not cancelled,
\* and its task goes no further than its first step.
Bystander == strategy[r3] = "reject" /\ ~abort[r3] /\ pc[r3] \in {"none", "start"}
=============================================================================
