\* Three runs of one thread, one failure, no restart.
SPECIFICATION Spec
CONSTANTS
  t1 = t1
  t2 = t2
  r1 = r1
  r2 = r2
  r3 = r3
  Threads = {t1}
  Runs = {r1, r2, r3}
  ThreadOf <- OneThread
  NoRun = NoRun
  MaxFaults = 1
  MaxRestarts = 0
SYMMETRY Symmetric
INVARIANTS
  TypeOK
  OneWriter
  SnapshotFaithful
  AbortedNeverSucceeds
  ReplacementSettled
PROPERTIES
  FinalizerUndisturbed
  StatusForward
