\* One pass of the idle checker against the acquisitions of two threads.
SPECIFICATION SandboxSpec
CONSTANTS
  Threads = {s1, s2}
  Reaper = Reaper
  Replicas = 1
  MaxInfos = 2
  MaxDeaths = 0
PROPERTY ReapedIsIdle
CHECK_DEADLOCK FALSE
