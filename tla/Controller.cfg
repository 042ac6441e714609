\* The console and one connection: drive commands, starts, stops and exit.
\* Polling loops run at least once per frame.
CONSTANTS
    main = main
    ws1 = ws1
    sender = sender
    Console = main
    Connections = {ws1}
    Sender = sender
    Moves = {"drive"}
    ConsoleTypes = {"drive"}
    ClientCodes = {"drive"}
    NIdle = 1
    NIgnition = 1
    NWait = 1
    NStart = 2
    NAfter = 1
    NStopNeutral = 1
    NStopIgnition = 1
    HoldTime = 1
    PollsEachFrame = TRUE
    MaxClock = 1
    MaxRequests = 3
    MaxCount = 1
SPECIFICATION InUseSpec
INVARIANTS TypeOK PopNonEmpty ClientsKnowEngine EngineOffAtExit
PROPERTIES EngineSwitchesAfterIgnition ImplementsLink CallsCarriedOut
