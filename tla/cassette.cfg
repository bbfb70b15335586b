SPECIFICATION Spec
CONSTANTS
  None = None
  Failed = Failed
  k1 = k1
  k2 = k2
  Keys = {k1, k2}
  ChannelOf <- TwoChannels
  Answers = {a, m}
  Malformed = {m}
  Clients = {c1, c2}
  MaxRetries = 1
  UsedModes = {"record", "replay", "auto"}
  MaxSessions = 2
  MaxFaults = 1
INVARIANTS
  CleanMeansSaved
  ReplayGivesRecorded
PROPERTIES
  RequestsEnd
CHECK_DEADLOCK FALSE
