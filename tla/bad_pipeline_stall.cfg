SPECIFICATION FairSpec
CONSTANTS
  Methods = {"GET", "PUT"}
  Lines <- LineSymbols
  PathChars = {"/", " ", ":", "a", "bb"}
  Blanks = {" "}
  Forbidden = {":"}
  PathMax = 10
  FilenameMax = 3
  BadLines <- BadLineSymbols
  Lengths <- LengthSymbols
  Chunked = "chunked"
  Sizes <- SizeSymbols
  Data = {"d", "other"}
  NoMethod = "none"
  Dialogues <- TwoPlain
  Habits = {"pipelined"}
PROPERTIES PipelinedTaken
CHECK_DEADLOCK FALSE
