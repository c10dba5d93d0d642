CONSTANTS
  InitialSize = 2
  Growth = 2
  Limit = 4
  MaxStream = 6
  MaxMessages = 3
SPECIFICATION FairSession
CHECK_DEADLOCK FALSE
INVARIANTS SessionTypeOK RoomToRead CutAgrees OwnReply NoneOverdue
PROPERTIES StreamSpec Called Ends
