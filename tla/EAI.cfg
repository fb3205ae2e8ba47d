SPECIFICATION FairSpec
CONSTANTS
  app = app
  helper = helper
  reader = reader
  NoThread = NoThread
  Callers <- MCCallers
  Reader = reader
  CommandsOf <- MCCommandsOf
  MaxCalls = 3
  MaxClients = 2
  MaxEvents = 1
  BufferSize = 2
CHECK_DEADLOCK FALSE
INVARIANTS
  TypeOK
  NeverAnothersReply
  EventFindsListener
PROPERTIES
  ImplementsService
  AnsweredOrLost
