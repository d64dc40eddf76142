CONSTANTS
  t1 = t1
  t2 = t2
  Threads <- MCThreads
  Owner = t1
  Allowed <- MCAllowed
  StackEnd = 6
  Guaranteed = 3
  Limits <- MCLimits
  Watch <- MCWatch
  Data <- MCData
  Image <- MCImage
  Worlds <- MCWorlds
  Protects <- MCProtects
  Word = 2
SPECIFICATION Spec
INVARIANTS HostExact   StackGuarded
PROPERTIES FirstWriteCaught
