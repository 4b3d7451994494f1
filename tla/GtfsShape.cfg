SPECIFICATION Spec
CONSTANTS
  NumHops = 3
  Gaps = {1, 2}
  HopCosts = {0, 1, 3}
  MaxPoints = 2
  Departures = {3530, 3540, 3655}
  Interpolate = {TRUE, FALSE}
  Wrap = 1000000
  NaNValues = {0, 500000}
INVARIANTS PointsIncrease StopsOnShape TimesInOrder DwellKept
