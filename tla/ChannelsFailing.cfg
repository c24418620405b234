\* Three chats of one conversation and one error.
SPECIFICATION ChannelsSpec
CONSTANTS
  Chats = {a1}
  MessageIds = {1, 2, 3}
  NewIds = {}
  MaxDeliveries = 3
  HandlerSlots = 3
  MaxMishaps = 1
  MaxStops = 0
\* A stopped manager to which nothing is sent may stay so.
CHECK_DEADLOCK FALSE
INVARIANT OneCreator
