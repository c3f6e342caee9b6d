SPECIFICATION FairSpec
CONSTANTS
  g = g
  a1 = a1
  a2 = a2
  b1 = b1
  b2 = b2
  b3 = b3
  c2 = c2
  t1 = t1
  t2 = t2
  Block <- MCBlock
  Genesis = g
  Prev <- MCPrev
  Proof <- MCProof
  Address <- MCAddress
  Malformed = {c2}
  Invalid = {b2}
  Thread = {t1}
  None = None
  Settings <- MCSettings
INVARIANTS CheckBlockIndex BestChainActive ActiveChainValid DiskRecoverable
PROPERTIES ActivationEnds
CHECK_DEADLOCK FALSE
