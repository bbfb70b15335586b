SPECIFICATION Spec
CONSTANTS
  None = None
  Cap <- SmallCaps
  Duration = 2
  Cooldown = 1
  Intensities = {1000}
  Pins <- PinDepot
  Scenes <- BareOrFull
  MaxEvents = 2
  BaseInterval = 2
  BootInterval = 5
  BootstrapWindow = 2
  DirectorIntensity = 1000
  SeasonWeights <- SmallWeights
  SeasonLength <- ShortSeasons
  WeatherSpans <- SmallSpans
  MaxTime = 5
INVARIANTS
  ResolvedDropped
CHECK_DEADLOCK FALSE
