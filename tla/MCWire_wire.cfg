CONSTANTS
  Size <- const_Size
  WS_RECV_BUF = 4
  SendBuf = 3
  MaxFrames = 3
  MaxSaid = 2
  MaxPosts = 2
  MayFail = TRUE
  Urls = {"ws", "other", "bad"}
CHECK_DEADLOCK FALSE
SPECIFICATION Spec
INVARIANTS InOrder UpInStep PostSound
PROPERTIES Delivered
