\* Two versions of the credentials, three changes by others.
SPECIFICATION FairSpec
CONSTANTS
  Versions = {1, 2}
  Inodes = {i1, i2, i3}
  MaxChanges = 3
  NoInode = NoInode
INVARIANTS TypeOK OnlyVettedIsSent
PROPERTY RotationHeals
