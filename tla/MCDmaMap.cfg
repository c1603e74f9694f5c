SPECIFICATION Spec
CONSTANTS
  b1 = b1
  b2 = b2
  b3 = b3
  disk = disk
  part = part
  Users = {disk, part}
  Blocks = {b1, b2, b3}
  Regions <- TwoRegions
  Addresses <- TwoAddresses
  Memories <- AnyMemory
  Lengths = {1, 2}
  MaxRefcnt = 4
SYMMETRY Symmetry
INVARIANTS MapsMirror RefcntIsHolders HeldIsMapped OnlyHeldStaysMapped
