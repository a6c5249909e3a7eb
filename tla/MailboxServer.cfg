SPECIFICATION ServerSpec
CONSTANTS
  alice = alice  bob = bob
  Addresses = {alice, bob}
  Dir <- MCOwnDir
  Handles = {m1, p1, k1, h1}
  Messages = {m1, m2}
  From <- MCFrom
  To <- MCTo
  ReplyTo <- MCReplyTo
  None = None
  Sends = {m1}
  Polls = {p1}
  Peeks = {k1}
  Mbox <- MCMbox
  Garbled = {k1}
  Protocols = {"Tcp", "Udp"}
  MaxFaults = 1
CHECK_DEADLOCK FALSE
INVARIANTS ServerInv OwnMessagesOnce FifoForSequentialSends ConsumptionsAccounted
PROPERTIES TcpProgress
