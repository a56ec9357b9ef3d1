CONSTANTS
  s1 = s1
  s2 = s2
  s3 = s3
  SegId = {s1, s2, s3}
  INITIAL_SIZE = 3
  EXPAND_SIZE = 3
  MAX_BUFFERS = 8
  LOW_WATERMARK = 1
  HIGH_WATERMARK = 4
  MaxRefs = 2
SPECIFICATION Spec
INVARIANTS
  NoUseAfterFree
  FreeIffUnheld
  SegmentAccounting
PROPERTIES
  ShrinkIsRight
