\* Two runs of one thread and one of another, one failure.
SPECIFICATION Spec
CONSTANTS
  t1 = t1
  t2 = t2
  r1 = r1
  r2 = r2
  r3 = r3
  Threads = {t1, t2}
  Runs = {r1, r2, r3}
  ThreadOf <- TwoThreads
  NoRun = NoRun
  MaxFaults = 1
  MaxRestarts = 0
SYMMETRY Pairwise
CONSTRAINT Bystander
INVARIANT NoOwnerlessRun
PROPERTY ImplementsOwnership
