SPECIFICATION ProcessorSpec
CONSTANTS
  p = p  o = o  r1 = r1  r2 = r2  h1 = h1  h2 = h2
  m1 = m1  m2 = m2  e1 = e1  e2 = e2  u = u  all = all
  Addresses = {p, o}
  Dir <- MCOwnDir
  Handles = {r1, r2, h1, h2}
  Messages = {m1, m2, e1, e2}
  From <- MCFrom
  To <- MCTo
  ReplyTo <- MCReplyTo
  None = None
  Regs = {r1, r2}
  At <- MCAt
  Outcomes <- MCOutcomes
  Out <- MCOut
  Stops = {u, all}
  Target <- MCTarget
  Home <- MCHome
CHECK_DEADLOCK FALSE
INVARIANTS ProcessorInv
PROPERTIES ManagerProgress LastMessageProcessed
