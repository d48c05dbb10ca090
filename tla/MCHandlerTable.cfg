CONSTANTS
  c1 = c1
  c2 = c2
  h1 = h1
  h2 = h2
  NoHandler = NoHandler
  Cpus <- MCCpus
  Handlers <- MCHandlers
  N = 2
  Idx = {0, 1, 2}

SPECIFICATION Spec
INVARIANT TypeOK
PROPERTY Linearizable
