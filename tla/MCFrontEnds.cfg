SPECIFICATION Spec
CONSTANTS
  Letters = {"x"}
  MaxLen = 2
  MaxRows = 3
  Heights = {1, 2}
  Refused <- MCRefused
  MaxAsks = 3
  Texts = {"", "x", "("}
  BadTexts = {"("}
  MaxEvents = 3
  SpuriousWakeups = TRUE
  Scripts <- MCScripts
  Unfinished = {0, 2, 4}
  MaxLineBytes = 2
  MaxRead = 3
INVARIANT OneAnswerEach
PROPERTY TuiCatchesUp
PROPERTY GuiCatchesUp
PROPERTY SelectionInView
PROPERTY TuiQuitEnds
CHECK_DEADLOCK FALSE
