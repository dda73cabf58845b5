SPECIFICATION FairSpec
CONSTANTS
  Items = {1, 2, 3, 4, 5, 6, 7}
  ChannelOf <- ChannelByItem
  Alarms = {}
  Unwanted = {}
  Forced = {3}
  Modes = {{}, {"quiet"}, {"off", "events off"}}
  MaxCalls = 2
  Loads = {{1}, {2, 4}, {3}, {5}, {6, 7}}
  MaxRestarts = 1
INVARIANTS TypeOK OncePerAlert
PROPERTIES  QueueDrains
CHECK_DEADLOCK FALSE
