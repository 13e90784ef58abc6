SPECIFICATION Spec
PROPERTIES
  AllReleased
INVARIANTS
  Barrier
CONSTANTS
  NrCores = 4
  SelSize = 4
  MaxHarts = 6
  MainEnds = {"wake", "jump", "spin"}
