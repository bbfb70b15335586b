------------------------------ MODULE Weather -------------------------------
(***************************************************************************)
(* The seasons and the weather they bring (world/weather.py).  Only        *)
(* differences of sim-time are compared, so a season has an age and the    *)
(* weather a time that is left to it, in ticks.  The intensity and the     *)
(* factor of a step cost follow from the type; transition_progress, which  *)
(* nothing reads, is left out.                                             *)
(***************************************************************************)
EXTENDS Integers

CONSTANTS
  SeasonWeights,  \* per season: the weight of each weather
  SeasonLength,   \* per season: duration_sec
  WeatherSpans    \* per weather: the durations that may be drawn

Weathers == {"clear", "rain", "storm"}

Seasons == 1 .. 4   \* spring, summer, autumn, winter

ASSUME WeatherAssumption ==
  /\ SeasonWeights \in [Seasons -> [Weathers -> Nat]]
  /\ SeasonLength \in [Seasons -> Nat \ {0}]
  /\ WeatherSpans \in [Weathers -> SUBSET (Nat \ {0})]
  /\ \A w \in Weathers : WeatherSpans[w] # {}

VARIABLE
  sky  \* WeatherState: type, season, age of the season, left to the weather

\* Before the first tick the season and the weather have begun at no time;
\* the tick takes its own time for both, so that the weather is due at once.
WeatherInit == sky = [type |-> "clear", season |-> 1, age |-> 0, left |-> 0]

\* A weather without weight is not drawn (but by a roll of exactly 0, which is
\* left out); without any weight, it stays clear.
Drawn(season) ==
  LET likely == {w \in Weathers : SeasonWeights[season][w] > 0}
  IN  IF likely = {} THEN {"clear"} ELSE likely

\* One season a tick at most; the next one starts at the time of the tick.
InSeason(s) ==
  IF s.age >= SeasonLength[s.season]
  THEN [s EXCEPT !.season = (@ % 4) + 1, !.age = 0]
  ELSE s

\* What a tick may make of the sky: the weather goes on while there is time
\* left to it, into a new season if need be, and the next one is drawn with
\* the weights of the season that has begun.
NextSkies ==
  LET s == InSeason(sky)
  IN  IF s.left > 0
      THEN {s}
      ELSE UNION {{[s EXCEPT !.type = w, !.left = d] : d \in WeatherSpans[w]} :
                    w \in Drawn(s.season)}

\* The time between two ticks.
SkyLater ==
  [sky EXCEPT !.age = @ + 1, !.left = IF @ > 0 THEN @ - 1 ELSE 0]

=============================================================================
