CONSTANTS
  d = d
  a = a
  Names = {d, a}
  Default = d
  c1 = c1
  c2 = c2
  Conns = {c1, c2}
  w1 = w1
  w2 = w2
  Workers = {w1, w2}
  i1 = i1
  i2 = i2
  Inodes = {i1, i2}
  None = None
SPECIFICATION FairSpec
PROPERTY WorkersAreTasks
PROPERTY AdminEnds
PROPERTY ShutdownEnds
