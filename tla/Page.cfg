\* 40 ms and 24 ms in units of 8 ms; a stick sends a turn and a drive command.
\* The copies of a button and the frames of an engine sequence are scaled down
\* from 10 to 50 and from 61 to 511: a click is more than a tick's worth of
\* commands and a sequence more than a click, and the theorem WaitIsBounded
\* takes them as they are. The recoil button is pressed on and
\* off three times; of the two ranges that are told one is long.
CONSTANTS
    Tick = 5
    FrameTime = 3
    Overrun = 1
    PerTick = 2
    Copies = {10}
    Counts = {2}
    EngineFrames = {14}
    MaxPushed = 24
    MaxLate = 5
    Ranges = {near, far}
    Wide = {far}
    MaxEngaged = 3
SPECIFICATION PageSpec
INVARIANTS WaitBounded ClearWhenSecured
PROPERTIES Drains AlertBlinks
