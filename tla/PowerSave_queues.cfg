SPECIFICATION Spec
CONSTANTS
  Stations = {a}
  Group = g
  MaxPs = 2
  MaxMcast = 1
  MaxFrames = 4
  Rmw = {"whole", "torn"}
INVARIANTS TypeOK Announced InOrder NoLeak
PROPERTY HeldLeaves
