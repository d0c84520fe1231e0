CONSTANTS
  Client = {c1, c2}
  BufferCount = 4
  MaxSample = 6
SPECIFICATION FairSpec
INVARIANTS TypeOK SkipsOnlyTheKnown
PROPERTIES NeverBack Mirrored
