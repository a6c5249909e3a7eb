SPECIFICATION Spec
CONSTANTS
  s1 = s1  s2 = s2  r4 = r4
  Records = {r1, r2, r3, r4}
  Stored = {r4}
  SegmentOf <- MCSegmentOf
  Candidates <- MCCandidates
  Capacity = 2
  TargetSize = 2
  MinUsed = 2
  MaxPerRun = 1
  Calls = {c1}
  Target <- MCTarget
  Worker = w
  MaxFaults = 1
  Empty = Empty
  Bad = Bad
CHECK_DEADLOCK FALSE
INVARIANTS CompactionInv CompleteCopy
PROPERTIES JobsEndUnlessStuck
