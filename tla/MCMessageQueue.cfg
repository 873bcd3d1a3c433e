CONSTANTS
  MaxDV = 12
  Default <- DefaultDef
  Nested = {2}
  MaxCount = 2
  DVSize = 1
  IndexSize = 1
  LeafSize = 1
  SIZE_ULONG = 2
  DSStaticSize = 2
  POOL_MAX_SIZE = 14
  mailbox = mailbox
  empty = empty
  text = text
  Queues = {mailbox}
  MESSAGES_PER_QUEUE <- DepthDef
  Message = {empty, text}
  Length <- LengthDef
  NoMessage = NoMessage
SPECIFICATION Spec
INVARIANTS MemMgrVerified ArraysDisjoint VectorsOwned
PROPERTIES ImplementsFifo
CHECK_DEADLOCK FALSE
