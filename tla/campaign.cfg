SPECIFICATION CampaignSpec
CONSTANTS
  c1 = c1
  c2 = c2
  c3 = c3
  Cells = {c1, c2, c3}
  ModelOf <- TwoModels
  Unset = "unset"
  Priors = {"unset", "large"}
  MaxConcurrent = 2
  Plugins = 1
  MaxStarts = 2
  MaxFaults = 2
INVARIANTS RightModel EnvRestored ReportedIsThere
PROPERTIES CampaignEnds
