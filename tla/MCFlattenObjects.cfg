CONSTANTS
  v1 = v1
  v2 = v2
  NoValue = NoValue
  Uninit = Uninit
  Values <- MCValues
  CAP = 3
  BitmapSize = 4
  Ids = {0, 1, 2, 3}
SPECIFICATION Spec
INVARIANT CountMatches
PROPERTY ImplementsMap
