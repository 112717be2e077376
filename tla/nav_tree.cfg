SPECIFICATION Spec
CONSTANTS
  index = index
  header = header
  listing = listing
  conn = conn
  loop = loop
  line = line
  NoHash = NoHash
  NoLink = NoLink
  Tree <- MCTree
  Lazy <- MCLazy
  Link <- MCLink
  IndexPage = index
  Urls <- MCUrls
  LineHashes = {line}
  Chunk <- MCChunk
  Entry <- MCEntry
  MaxRequests = 2
  MaxQueue = 1
INVARIANTS TypeOK BuiltOnce SyncIsStored FollowsTarget IconTells PollsWithReason OneSelected
CHECK_DEADLOCK FALSE
