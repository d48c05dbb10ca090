CONSTANTS
  UStackTop = 1073741824
  Auxvs <- MCAuxvs
  ArgSeqs <- MCLists
  EnvSeqs <- MCLists

SPECIFICATION Spec


INVARIANT SpAligned
