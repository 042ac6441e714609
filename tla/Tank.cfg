\* The page, one connection thread and the sender.
CONSTANTS
    main = main
    ws1 = ws1
    sender = sender
    Console = main
    Connections = {ws1}
    Sender = sender
    Moves = {"drive"}
    ConsoleTypes = {}
    ClientCodes = {"drive"}
    NIdle = 1
    NIgnition = 1
    NWait = 1
    NStart = 2
    NAfter = 1
    NStopNeutral = 1
    NStopIgnition = 1
    HoldTime = 0
    PollsEachFrame = TRUE
    MaxClock = 0
    MaxRequests = 4
    MaxCount = 0
    MaxClicks = 4
SPECIFICATION FairTankSpec
INVARIANTS PageAgrees ButtonTellsTruth
PROPERTIES PageAnswered
CONSTRAINT NothingLost
