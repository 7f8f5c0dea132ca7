CONSTANTS
  Shells = {p, q}
  Names = {a, b}
  None = None
  MaxCommands = 3
  MaxKills = 1
SYMMETRY Symmetry
SPECIFICATION Spec
INVARIANTS PrefixesDistinct AllOrNothing NoLitter
CHECK_DEADLOCK FALSE
