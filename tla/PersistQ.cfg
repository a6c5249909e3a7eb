SPECIFICATION Spec
CONSTANTS
  r1 = r1  r2 = r2  r3 = r3  r4 = r4
  Records = {r1, r2, r3, r4}
  Size <- MCSize
  Partitions = {1, 2}
  Partition <- MCPartition
  SegmentSize = 2
  MaxSegs = 3
  MaxRestarts = 1
  Zero = Zero
  NoOne = NoOne
INVARIANTS StoredIntact OffsetsDense FirstSegmentReadsBack SegmentsAreUsed
PROPERTIES AppendsReturn
