\* One load of the object of packet-solutions.
CONSTANTS
  l1 = l1  l2 = l2  l3 = l3  l4 = l4  d1 = d1  d2 = d2
  Loaders = {l1}
  Dev <- MCDev
  MapNames = {ctx, temp, stats}
  Stats = stats
  PinByName = {l1}
  ReuseMaps = {}
SPECIFICATION Spec
INVARIANT AttachedIsExported
CHECK_DEADLOCK FALSE
