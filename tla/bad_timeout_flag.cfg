SPECIFICATION Spec
CONSTANTS
  Conns = {c1}
  NumHooks = 1
  Methods = {}
  NoMethod = NoMethod
  HookMethod <- OneHook
  Pipelining = TRUE
  Failures = {"EOF", "TIMEOUT"}
  Replies <- AnyReply
  Writes <- SpeakBeforeClose
  Attaches <- AttachNever
PROPERTIES TimeoutIsTold
CHECK_DEADLOCK FALSE
