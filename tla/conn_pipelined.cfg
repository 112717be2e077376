SPECIFICATION FairSpec
CONSTANTS
  Conns = {c1}
  NumHooks = 2
  Methods = {"GET", "POST"}
  NoMethod = NoMethod
  HookMethod <- GetSecond
  Pipelining = TRUE
  Failures = {"EOF", "TIMEOUT"}
  Replies <- AnyReply
  Writes <- SpeakBeforeClose
  Attaches <- AttachOnInit
INVARIANTS TypeOK TopHookPaired NeverStranded NothingLost
PROPERTIES ClosingIsFinal SessionStartsClean ImplementsProtocol ClosingEnds
CHECK_DEADLOCK FALSE
