\* Line: Controller.cpp in units of 100 us, with sleeps up to a third longer.
\* RTController: two handlers. Singleton: three threads, three objects.
\* Frames sent and objects made are bounded, and a request without a query may
\* end the older program: then nothing happens any more.
CONSTANTS
    Header = 6
    Half = 3
    Gap = 40
    SaidGap = 40
    Jitter = 1
    Width = 5
    Words <- MCWords
    MaxSent = 3
    Main = main
    h1 = h1
    h2 = h2
    Handlers = {h1, h2}
    Commands <- MCCommands
    Garbage <- MCGarbage
    NIdle = 2
    NIgnition = 1
    NWait = 2
    MaxSets = 2
    Threads = {"console", "sender", "client"}
    MaxObjects = 3
SPECIFICATION PartsSpec
INVARIANTS HeaderStandsOut FramesRead ObeysOneClient OneObject
PROPERTIES LastIsObeyed ReturnsObject
CHECK_DEADLOCK FALSE
