CONSTANTS
  Elfs <- MCElfs
  Biases <- MCBiases
  NoBias = NoBias
  InterpBase = 262144
  UspaceBase = 4096
  PageSize = 4096
  UStackTop = 1073741824
  ArgSeqs <- MCArgs
  EnvSeqs <- MCEnvs
SPECIFICATION Spec
INVARIANT DynParseAsSpecified
INVARIANT AbiLayout
