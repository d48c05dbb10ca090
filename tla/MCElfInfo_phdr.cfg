CONSTANTS
  Elfs <- MCElfs
  Biases <- MCBiases
  NoBias = NoBias
  InterpBase = 262144
  UspaceBase = 4096
  PageSize = 4096
SPECIFICATION Spec



INVARIANT PhdrIsAddress
