CONSTANTS
  d = d
  a = a
  b = b
  Names = {d, a, b}
  Default = d
  c1 = c1
  c2 = c2
  Conns = {c1, c2}
  w1 = w1
  w2 = w2
  w3 = w3
  Workers = {w1, w2, w3}
  i1 = i1
  i2 = i2
  i3 = i3
  Inodes = {i1, i2, i3}
  None = None
SPECIFICATION Spec
INVARIANT WaitsForClientsOnly
INVARIANT SingleOwner
INVARIANT HandlesAreLive
INVARIANT DroppedIsGone
INVARIANT StoppedClean
PROPERTY NoLostUpdate
PROPERTY CreatedEmpty
SYMMETRY ConnSymmetry
