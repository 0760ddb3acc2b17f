SPECIFICATION FairSpec
CONSTANTS
  Urls = {start, hello}
  Handled = {start}
  Slots = {a, b}
  Peers = {0, 1, 2}
  Calls = 2
  MaxMessages = 3
INVARIANTS
  TypeOK
  SessionsAreOpen
  ReplyIsOwn
PROPERTY
  SendReqReturns
