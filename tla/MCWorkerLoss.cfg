CONSTANTS
  k1 = k1
  k2 = k2
  v1 = v1
  c1 = c1
  c2 = c2
  Keys = {k1}
  Vals = {v1}
  NoVal = NoVal
  Junk = Junk
  KeyLen <- MCKeyLen
  ValLen <- MCValLen
  TornLens = {1}
  FsyncDrops = {TRUE, FALSE}
  MaxEntries = 4
  Clients = {c1}
  NoOne = NoOne
  FsyncInterval = 2
  MaxQueueSize = 1
  U32Max = 30
SPECIFICATION Spec
INVARIANT LossWindow
