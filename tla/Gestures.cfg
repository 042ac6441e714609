\* Two sticks and the log panel, two fingers and a mouse.
CONSTANTS
    turrel = turrel
    move = move
    log = log
    Elsewhere = elsewhere
    None = none
    f1 = f1
    f2 = f2
    Sticks = {turrel, move}
    Panel = log
    Fingers = {f1, f2}
    MouseEvents = TRUE
SYMMETRY Symmetry
VIEW View
SPECIFICATION Spec
INVARIANTS RestWhenUntouched PushedByDrag HoldFindsSession SessionEnds
