CONSTANTS
  k1 = k1
  k2 = k2
  v1 = v1
  Keys = {k1, k2}
  Vals = {v1}
  NoVal = NoVal
  Junk = Junk
  KeyLen <- MCKeyLen
  ValLen <- MCValLen
  TornLens = {1, 14}
  FsyncDrops = {}
  MaxEntries = 3
SPECIFICATION WalSpec
INVARIANT PromisesKept
