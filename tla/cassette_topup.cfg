SPECIFICATION Spec
CONSTANTS
  None = None
  Failed = Failed
  k1 = k1
  k2 = k2
  Keys = {k1}
  ChannelOf <- TwoChannels
  Malformed = {}
  Answers = {a}
  Clients = {c1}
  MaxRetries = 1
  UsedModes = {"auto"}
  MaxSessions = 2
  MaxFaults = 0
PROPERTIES
  RecordingsKept
CHECK_DEADLOCK FALSE
