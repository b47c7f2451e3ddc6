SPECIFICATION Spec
CONSTANTS
  Chats = {c1, c2}
  NoChat = NoChat
  Limit = 1
  MaxMessages = 2
  MaxFetches = 2
SYMMETRY ChatSymmetry
INVARIANTS
  TypeOK
  NoRepeats
  OnlyActiveChat
  ReceivedIsShown
  PreviewIsFresh
