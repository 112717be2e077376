SPECIFICATION FairSpec
CONSTANTS
  Settings <- SafeSettings
  MaxConns = 2
  MaxStarts = 2
INVARIANTS TypeOK BaseOutlivesLoop NotifyExists StoppedIsRestartable ChannelReleased NoUseAfterFree
PROPERTIES StartReturns StopReturns
CHECK_DEADLOCK FALSE
