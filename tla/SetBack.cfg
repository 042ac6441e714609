\* As Controller.cfg with fewer requests and a longer clock: commands are
\* stamped 0, 1 or 2, and are from the future when the clock is set back.
CONSTANTS
    main = main
    ws1 = ws1
    sender = sender
    Console = main
    Connections = {ws1}
    Sender = sender
    Moves = {"drive"}
    ConsoleTypes = {"drive"}
    ClientCodes = {"drive"}
    NIdle = 1
    NIgnition = 1
    NWait = 1
    NStart = 2
    NAfter = 1
    NStopNeutral = 1
    NStopIgnition = 1
    HoldTime = 1
    PollsEachFrame = TRUE
    MaxClock = 3
    MaxRequests = 2
    MaxCount = 1
SPECIFICATION InUseSpec
PROPERTIES ReleasedAfterSetBacks
