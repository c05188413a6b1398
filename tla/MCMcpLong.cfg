SPECIFICATION Spec
CONSTANTS
  Letters = {"x"}
  MaxLen = 2
  MaxRows = 3
  Heights = {1, 2}
  Refused <- MCRefused
  MaxAsks = 3
  Texts = {"", "x", "("}
  BadTexts = {"("}
  MaxEvents = 3
  SpuriousWakeups = TRUE
  Scripts <- MCLongScripts
  Unfinished = {0, 2, 4}
  MaxLineBytes = 2
  MaxRead = 3
CHECK_DEADLOCK FALSE
INVARIANT OneAnswerEach
