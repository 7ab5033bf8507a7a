CONSTANTS
  k1 = k1
  k2 = k2
  v1 = v1
  Keys = {k1, k2}
  Vals = {v1}
  NoVal = NoVal
  Junk = Junk
  KeyLen <- MCKeyLen
  ValLen <- MCValLen
  TornLens = {1, 14}
  FsyncDrops = {TRUE, FALSE}
  MaxEntries = 3
SPECIFICATION WalFairSpec
INVARIANT WalTypeOK
INVARIANT RecoveredIndex
INVARIANT CleanAfterInit
INVARIANT TrackedLength
INVARIANT SoundPromisesKept
PROPERTY DiscardsOnlyBehindJunk
PROPERTY RecoveryEnds
