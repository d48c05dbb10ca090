CONSTANTS
  SIZE = 3
  W = 4
  Profile = "release"
SPECIFICATION Spec
INVARIANT EachIndexOnce
