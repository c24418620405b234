\* One client that joins after cleanup.
SPECIFICATION BridgeFairSpec
CONSTANTS
  Clients = {v1}
  MaxSize = 2
  MaxEvents = 1
  MaxConnects = 1
\* A run whose clients are gone is over.
CHECK_DEADLOCK FALSE
PROPERTY EveryStreamEnds
