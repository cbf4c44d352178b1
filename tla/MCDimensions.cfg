SPECIFICATION Spec
CONSTANTS
  MaxScenes = 2
  MaxSize = 1
  MaxTime = 2
  Button <- MCButton
  Place = {here, there}
SYMMETRY
  PlaceSymmetry
INVARIANT
  DimensionsPositive
