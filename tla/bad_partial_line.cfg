SPECIFICATION Spec
CONSTANTS
  Methods = {"GET", "PUT"}
  Lines <- LineSymbols
  PathChars = {"/", "a"}
  Blanks = {}
  Forbidden = {}
  PathMax = 3
  FilenameMax = 1
  BadLines <- BadLineSymbols
  Lengths <- LengthSymbols
  Chunked = "chunked"
  Sizes <- SizeSymbols
  Data = {"d"}
  NoMethod = NoMethod
  Dialogues <- MCDialogues
  Habits = {"lockstep", "pipelined"}
  GetMethod = "GET"
  Failures = {}
PROPERTIES HooksWaitForState
CHECK_DEADLOCK FALSE
