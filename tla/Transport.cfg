SPECIFICATION Spec
CONSTANTS
  c1 = c1
  Clients = {c1, c2}
  Kind <- MCKind
  MaxCalls <- MCMaxCalls
  MaxConns = 3
  None = None
CHECK_DEADLOCK FALSE
INVARIANTS StreamInv OwnResponse
PROPERTIES AbandonedNeverRecovers CallsAndTasksEnd
