SPECIFICATION ServicesSpec
CONSTANTS
  Conversations = {t1, t2}
  Owners = {u1}
  Anyone = Anyone
  MaxCalls = 4
  MaxGets = 2
  Keys = {k1, k2}
  Loops = {l1, l2}
  Unset = Unset
  MaxSessions = 1
  MaxCloses = 2
  MaxCancels = 1
  Threads = {s1, s2}
  Reaper = Reaper
  Replicas = 1
  MaxInfos = 2
  MaxDeaths = 1
  Tasks = {c1, c2}
  Slots = 1
  Repairers = {r1, r2}
  MaxClaims = 3
  MaxCrashes = 2
  Clients = {v1, v2}
  MaxSize = 2
  MaxEvents = 4
  MaxConnects = 4
  Chats = {a1}
  MessageIds = {1, 2, 3}
  NewIds = {3}
  MaxDeliveries = 3
  HandlerSlots = 2
  MaxMishaps = 1
  MaxStops = 1
INVARIANTS ServicesTypeOK NothingForgotten Tombstoned NoLeakedSession RegisteredIsOpen NoOrphanContainer ReportIsFinal LeaseOrClaim
INVARIANTS NoSilentGap StopIsClean OneThread
PROPERTIES BatchIsDue QueueDrains ToldEnds SubagentsEnd ImplementsFeed ServedToTheEnd ImplementsInbox HandlersEnd
CONSTRAINT FirstCall
CHECK_DEADLOCK FALSE
