SPECIFICATION Spec
CONSTANTS
  Records = {r1, r2, r3, r4}
  Size <- MCSize
  MaxSize = 5
  Readers = {t1}
  IndexEnabled = TRUE
  Zero = Zero
INVARIANTS ReservationsDisjoint WrittenIntact ReadAfterAck NumbersAndIndexAgree
PROPERTIES ImplementsLog
