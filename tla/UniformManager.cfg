SPECIFICATION Spec
CONSTANTS
  Records = {r1, r2, r3, r4, r5}
  Size <- MCSize
  SegmentSize = 5
  NoOne = NoOne
SYMMETRY MCSymmetry
INVARIANTS RolloverOnlyWhenFull
