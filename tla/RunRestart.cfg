\* Two runs of one thread, no failure, one restart, with fairness.
SPECIFICATION FairSpec
CONSTANTS
  t1 = t1
  t2 = t2
  r1 = r1
  r2 = r2
  r3 = r3
  Threads = {t1}
  Runs = {r1, r2}
  ThreadOf <- OneThread
  NoRun = NoRun
  MaxFaults = 0
  MaxRestarts = 1
INVARIANTS
  RowsSettle
  SuccessKept
PROPERTIES
  RequestsAnswered
  TasksEnd
