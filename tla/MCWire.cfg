CONSTANTS
  MessageSize = 5
  SocketSize = 6
  RecvSize = 3
  MaxWritePending = 14
  MaxReadAccum = 12
  MaxSent = 7
SPECIFICATION FairSpec
INVARIANTS
  TypeOK
  NeverDesynced
PROPERTIES
  ImplementsChannel
  AllDelivered
