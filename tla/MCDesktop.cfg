CONSTANT MaxCalls = 3
SPECIFICATION DesktopSpec
INVARIANT NoDeadUrl
CHECK_DEADLOCK FALSE
