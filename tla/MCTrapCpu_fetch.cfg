CONSTANTS
  b = b
  u1 = u1
  u2 = u2
  NoStack = NoStack
  Tasks <- MCTasks
  Boot = b
  UTasks <- MCUTasks
  PgRoot <- MCPgRootThreads
  TlsOf <- MCTlsOf
  TLS = TRUE
  Pages <- MCPages
  Perm <- MCPerm
  MaxPc = 4
  MaxDepth = 2

SPECIFICATION Spec

INVARIANT FetchFaultNeedsExecute
