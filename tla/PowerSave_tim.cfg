SPECIFICATION Spec
CONSTANTS
  Stations = {a, b}
  Group = g
  MaxPs = 2
  MaxMcast = 1
  MaxFrames = 2
  Rmw = {"torn"}
INVARIANT TimMarks
