\* Clients come, leave and send; plain requests and signals arrive.
CONSTANTS
    main = main
    sender = sender
    sensors = sensors
    ws1 = ws1
    ws2 = ws2
    Null = Null
    Senders = {sender, sensors}
    Connections = {ws1, ws2}
    Main = main
    PoolSize = 2
    PlainRequests = TRUE
    Signals = TRUE
    Pings = TRUE
    MaxFrames = 1
    MaxParts = 1
SYMMETRY MCSymmetry
SPECIFICATION Spec
INVARIANTS LockHolders NewestServed SafeWhileServing WholeFrames
