\* Handshakes only, and no signal; clients may stall in the middle of a frame.
\* One thread for two clients: the second waits until the first has left.
CONSTANTS
    main = main
    sender = sender
    sensors = sensors
    ws1 = ws1
    ws2 = ws2
    Null = Null
    Senders = {sender}
    Connections = {ws1, ws2}
    Main = main
    PoolSize = 1
    PlainRequests = FALSE
    Signals = FALSE
    Pings = FALSE
    MaxFrames = 1
    MaxParts = 2
SPECIFICATION FairSpec
PROPERTIES SendsReturn ClientsServed
