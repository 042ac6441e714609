\* Every command of the constructor and of a JSON text; pushes of the sticks
\* up to 62 pixels each way: inside the rim, on it and past it.
CONSTANTS
    JsonSpeeds <- MCJsonSpeeds
    Reach = 62
    Pads = {"move", "turrel"}
SPECIFICATION FramesSpec
INVARIANTS
    FramesCheck
    SpecialFramesReserved
    FrameMeansCommand
    AgreesWithTable
    FramesFollowPush
    HarderNeverSlower
    LeftMirrorsRight
