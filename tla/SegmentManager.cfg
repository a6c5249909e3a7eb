SPECIFICATION Spec
CONSTANTS
  r1 = r1  r2 = r2  r3 = r3  r4 = r4
  Records = {r1, r2, r3, r4}
  Size <- MCSize
  SegmentSize = 3
  NoOne = NoOne
INVARIANTS NoSegmentWasted
PROPERTIES AppendsReturn
