SPECIFICATION FairSpec
CONSTANTS
  t1 = t1
  t2 = t2
  r1 = r1
  r2 = r2
  r3 = r3
  Threads = {t1}
  Runs = {r1, r2}
  ThreadOf <- OneThread
  NoRun = NoRun
  MaxFaults = 0
  MaxRestarts = 0
PROPERTY StreamsEnd
