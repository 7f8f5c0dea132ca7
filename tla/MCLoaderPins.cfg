\* Three loaders on one device, one more on another; two pin the statistics map
\* by name and one reuses maps.
CONSTANTS
  l1 = l1  l2 = l2  l3 = l3  l4 = l4  d1 = d1  d2 = d2
  Loaders = {l1, l2, l3, l4}
  Dev <- MCDev
  MapNames = {ctx, temp, stats}
  Stats = stats
  PinByName = {l1, l3}
  ReuseMaps = {l3}
SPECIFICATION Spec
INVARIANT ExitStatusTruthful
CHECK_DEADLOCK FALSE
