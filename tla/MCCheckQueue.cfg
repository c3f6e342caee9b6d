SPECIFICATION Spec
CONSTANTS
  Worker = {w1, w2}
  Master = m
  Check = {c1, c2, c3, c4}
  Good = {c1, c2, c3}
  BatchSize = 2
INVARIANTS VerdictRight IdleBetweenBlocks
PROPERTIES WaitReturns WorkersTakeAll
