SPECIFICATION Spec
CONSTANTS
  c0 = c0
  parent = parent
  child = child
  rival = rival
  side = side
  join = join
  free = free
  tail = tail
  g = g
  e1 = e1
  e2 = e2
  b1 = b1
  b2 = b2
  a1 = a1
  Tx <- MCTx
  Coinbase = {c0}
  Ins <- MCIns
  Outs = 3
  Fee <- MCFee
  LockTime <- MCLockTime
  Relative <- MCRelative
  SequenceFinal = {free}
  Replaceable = {parent}
  Block <- MCBlock
  Txs <- MCTxs
  Prev <- MCPrev
  FirstChain <- MCFirstChain
  Maturity = 2
  MinFee = 2
  AncestorLimit = 3
  DescendantLimit = 3
  PoolLimit = 3
  MaxReplaced = 2
  Delta = {3}
  MaxDeltas = 2
  Reorg = "unspent"
  Prioritise = "leaf"
INVARIANTS InputsAvailable TotalsRight EntriesMinable LimitsHold
PROPERTIES ReplacementsPay
CHECK_DEADLOCK FALSE
