\* A client that starts, stops and drives, one that only connects; the sensor poller sends as well.
CONSTANTS
    main = main
    ws1 = ws1
    ws2 = ws2
    sender = sender
    sensors = sensors
    Null = Null
    Console = main
    Connections = {ws1, ws2}
    Sender = sender
    Poller = sensors
    Moves = {"drive"}
    ConsoleTypes = {}
    ClientCodes = {"drive"}
    NIdle = 1
    NIgnition = 1
    NWait = 1
    NStart = 1
    NAfter = 1
    NStopNeutral = 1
    NStopIgnition = 1
    HoldTime = 0
    PollsEachFrame = TRUE
    MaxClock = 0
    MaxRequests = 2
    MaxCount = 0
    PoolSize = 2
    MaxFrames = 1
    MaxParts = 2
SPECIFICATION FairDispatchSpec
CONSTRAINT SecondIsSilent
INVARIANTS LocksInOrder
PROPERTIES CommandsReturn
