SPECIFICATION FairSpec
CONSTANTS
  Admins = {a1, a2}
  Requests <- MCNone
  Keys = {k1}
  Inodes = {i1, i2}
  Writes = {x1}
  Modes <- MCBothModes
  EnvKey = NoKey
  Days <- MCStopped
  a1 = a1
  a2 = a2
  q1 = q1
  q2 = q2
  k1 = k1
  k2 = k2
  i1 = i1
  i2 = i2
  i3 = i3
  i4 = i4
  x1 = x1
  x2 = x2
  NoKey = NoKey
  NoFile = NoFile
  NoInode = NoInode
CHECK_DEADLOCK FALSE
PROPERTIES
  UnlockOpens
