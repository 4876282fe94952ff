SPECIFICATION FairSpec
CONSTANTS
  MaxPrompts = 7
  ContinueAfter = 6
PROPERTIES
  EndChatEnds
