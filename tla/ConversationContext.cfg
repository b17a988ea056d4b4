SPECIFICATION ContextSpec
CONSTANTS
  NMsgs = 3
  Users = {u1, u2}
  Bot = Bot
  MaxClears = 1
INVARIANT NothingForgotten
INVARIANT AnswerInPlace
INVARIANT OwnContinuation
PROPERTY ClearSparesOthers
CHECK_DEADLOCK FALSE
