SPECIFICATION FairSpec
CONSTANTS
  Updates = {u1, u2, u3}
PROPERTIES
  LogicDoneAnswered
