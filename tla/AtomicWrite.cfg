SPECIFICATION FairSpec
CONSTANTS
  Proc = {p1, p2}
  Name = {a, b}
  Value = {v1, v2}
  Inode = {i1, i2, i3, i4, i5, i6}
  None = None
  Exclusive = {a}
  MaxWrites = 3
  MaxCrashes = 1
INVARIANT TypeOK
INVARIANT TargetsWhole
INVARIANT LinksDistinct
PROPERTY WritesEnd
PROPERTY ImplementsStore
CHECK_DEADLOCK FALSE
