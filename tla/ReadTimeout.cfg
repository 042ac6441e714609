\* One handshake, no PING, no signal: the shortest way to a read that times out.
CONSTANTS
    main = main
    sender = sender
    sensors = sensors
    ws1 = ws1
    ws2 = ws2
    Null = Null
    Senders = {sender}
    Connections = {ws1}
    Main = main
    PoolSize = 1
    PlainRequests = FALSE
    Signals = FALSE
    Pings = FALSE
    MaxFrames = 1
    MaxParts = 1
SPECIFICATION FairSpec
PROPERTIES FailedReadCloses
