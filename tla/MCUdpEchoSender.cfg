CONSTANTS
  A = A
  B = B
  NoIp = NoIp
  Clients <- TwoClients
  Ports = {1234, 7}
  ECHO_PORT = 1234
  Payloads <- MCPayloads
  Depth = 2
  RxSlots = 2
  MaxTries = 2
SPECIFICATION FairSpec
INVARIANT ReplyToSender
