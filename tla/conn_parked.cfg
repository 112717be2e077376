SPECIFICATION Spec
CONSTANTS
  Conns = {c1, c2}
  NumHooks = 1
  Methods = {}
  NoMethod = NoMethod
  HookMethod <- OneHook
  Pipelining = FALSE
  Failures = {"EOF", "TIMEOUT", "WRITE_ERROR"}
  Replies <- AnyReply
  Writes <- SpeakBeforeClose
  Attaches <- AttachNever
PROPERTIES ParkedIsSilent
CHECK_DEADLOCK FALSE
