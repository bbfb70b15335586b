SPECIFICATION ChannelsSpec
CONSTANTS
  Heartbeat = 3
  Cooldown = 2
  Crises = {"food"}
  Objectives = {0}
  Prosperities = {0}
  MaxDeaths = 1
  EnvironmentInterval = 3
  PolicyInterval = 3
  ColonyInterval = 2
  PlanStall = 3
  EvalInterval = 2
  Configs <- AllWired
  RunModes = {"llm", "fallback"}
  Outcomes = {"raises", "malformed", "valid"}
  MaxRequests = 11
INVARIANTS
  ChannelsTypeOK
  StatsAddUp
  DecisionsFresh
  NewsAnswered
CHECK_DEADLOCK FALSE
