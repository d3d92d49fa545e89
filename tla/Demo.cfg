CONSTANTS
  Null = Null
  Me = Me
  Other = Other
  Slots = {c1, c2}
  MaxStreams = 3
  TIMEOUT = 2
  POLLS = 2
  INTERVAL = 1
  LAG = 1
  Worlds <- DemoWorlds
  MAX_SCAN = 2
  MaxRows = 2
  MaxAsked = 2
  MaxMounts <- Mounts
SYMMETRY Alike
SPECIFICATION DemoSpec
INVARIANTS
  TimeoutIsFinal
  BusyMeansWorking
  OnePollerPerMount
