SPECIFICATION Spec
CONSTANTS
  Txid = {t1, t2}
  Pruned = pruned
  Coins = {pruned, c1, c2}
  Block = {b1, b2}
  NullHash = nullHash
  NoEntry = noEntry
INVARIANTS FlagsCoherent
PROPERTY StoreSpec
