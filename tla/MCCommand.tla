------------------------------ MODULE MCCommand ------------------------------
(***************************************************************************)
(* Model checking of Command: a reference decoder of the frames, and the   *)
(* table of known frames that RTController.c and HengLong_Test.cpp send.   *)
(***************************************************************************)
EXTENDS Command

(* The speeds 0..3 and 7 of the enumeration Speed, and one past its end.    *)
MCJsonSpeeds == {0, 1, 2, 3, 7, 8}

-----------------------------------------------------------------------------
(* A reference decoder, which shares nothing with the encoder: it reads the *)
(* fields of a frame as numbers.                                            *)

Weight(w, bit, value) == IF bit \in w THEN value ELSE 0

Number(w, low) == Weight(w, low, 1) + Weight(w, low + 1, 2)
                                    + Weight(w, low + 2, 4)

Decode(w) ==
    LET turn == Number(w, 8) + Weight(w, 11, 8)
    IN  [drive  |-> IF 22 \in w THEN <<"Backward", Number(w, 19)>>
                                ELSE <<"Forward", 7 - Number(w, 19)>>,
         turn   |-> IF 12 \in w THEN <<"Right", turn - 7>>
                    ELSE IF turn = 15 THEN <<"None", 0>>
                    ELSE <<"Left", 7 - turn>>,
         turret |-> <<15 \in w, 16 \in w>>,
         weapon |-> <<17 \in w, 14 \in w, 6 \in w, 13 \in w>>]

(* A direction that is neither drives ahead, the faster the lower its speed.*)
Meaning(c) ==
    [drive  |-> IF c.direction = "Other" THEN <<"Forward", 7 - (c.dirspeed % 8)>>
                ELSE <<c.direction, c.dirspeed % 8>>,
     turn   |-> IF c.rotation = "None" THEN <<"None", 0>>
                ELSE <<c.rotation, c.rotspeed % 8>>,
     turret |-> <<c.turrelRotation = "Left", c.turrelRotation = "Right">>,
     weapon |-> <<c.fire, c.canonElevation, c.gun, c.recoil>>]

(* The frame of a combined command decodes to all of its parts: the fields  *)
(* do not overlap, the 0x700 that is added to a right turn never carries    *)
(* into the next field, and the checksum damages none.                      *)
FrameMeansCommand ==
    ~IsSpecial(command) => \A f \in frames : Decode(f) = Meaning(command)

-----------------------------------------------------------------------------
(* "Heng Long tank bit-codes": every row of the tables at RTController.c:59 *)
(* and HengLong_Test.cpp:58, in the bits 0..23 of its frame.                *)

Pure == [Blank EXCEPT !.external = TRUE]

(* left_ and right_; fwd_ and rev_, whose slow frame the tables differ on.  *)
Row(way, slow, fast) == [way |-> way, slow |-> slow, fast |-> fast]

TurnRows == {Row("Left",  {22, 10, 9, 3},        {22, 4}),
             Row("Right", {22, 12, 11, 8, 5, 4}, {22, 12, 11, 10, 9, 5, 3, 2})}

DriveRows ==
    {Row("Forward",  {21, 11, 10, 9, 8, 5, 4, 2},      {11, 10, 9, 8, 5, 4, 3, 2}),
     Row("Forward",  {21, 19, 11, 10, 9, 8, 4, 2},     {11, 10, 9, 8, 5, 4, 3, 2}),
     Row("Backward", {22, 20, 19, 11, 10, 9, 8, 3},    {22, 21, 20, 19, 11, 10, 9, 8}),
     Row("Backward", {22, 20, 11, 10, 9, 8, 5, 3},     {22, 21, 20, 19, 11, 10, 9, 8})}

TurnsAs(way, w) == SetRotation(Pure, way, Decode(w).turn[2])
DrivesAs(way, w) == SetDirection(Pure, way, Decode(w).drive[2])

(* The commands that a frame of the tables is for, as far as the encoder    *)
(* agrees. The names slow and fast are the tables' own: their speeds are    *)
(* those that a receiver reads off the frame.                               *)
KnownFrames ==
    {<<TurnsAs(r.way, r.slow), r.slow>> : r \in TurnRows}
    \cup {<<TurnsAs(r.way, r.fast), r.fast>> : r \in TurnRows}
    \cup {<<DrivesAs(r.way, r.slow), r.slow>> : r \in DriveRows}
    \cup {<<DrivesAs(r.way, r.fast), r.fast>> : r \in DriveRows}
    \cup {<<[Pure EXCEPT !.turrelRotation = "Left"],
                                          {22, 15, 11, 10, 9, 8, 3, 2}>>,
          <<[Pure EXCEPT !.turrelRotation = "Right"],
                                          {22, 16, 11, 10, 9, 8, 5, 3}>>,
          <<[Pure EXCEPT !.canonElevation = TRUE],
                                          {22, 14, 11, 10, 9, 8, 5, 4, 3, 2}>>,
          <<InitCommand("idle"),          {22, 12, 9, 4, 3, 2}>>,
          <<InitCommand("ignition"),      {22, 12, 9, 7, 4, 2}>>,
          <<InitCommand("neutral"),       {21, 20, 19, 18, 11, 10, 9, 8}>>}

KnownCommands == {row[1] : row \in KnownFrames}

(* The rows that the encoder contradicts: fire, machine_gun and recoil of   *)
(* both tables, and the neutral of HengLong_Test.cpp:61.                    *)
FireRow == {22, 18, 13, 11, 10, 9, 8, 5, 4, 2}          \* 0xFE442F34
GunRow == {22, 18, 11, 10, 9, 8, 6, 5, 4, 3}            \* 0xFE440F78
RecoilRow == {22, 17, 11, 10, 9, 8, 5, 2}               \* 0xFE420F24
NeutralRow == {21, 20, 19, 11, 10, 9, 8}                \* 0xFE380F00

Bare(c) == [c EXCEPT !.cmd = Unassigned]

(* In both tables, fast is faster than slow. *)
TableInOrder ==
    /\ \A r \in TurnRows : Decode(r.slow).turn[2] < Decode(r.fast).turn[2]
    /\ \A r \in DriveRows : Decode(r.slow).drive[2] < Decode(r.fast).drive[2]

(* Where the encoder agrees with the two older programs' tables it does so  *)
(* bit for bit, checksum included: the driving, turret and engine rows each *)
(* come from the command whose speed the decoder reads off them, and fast   *)
(* is faster than slow. Of the four other rows, those of fire and of the    *)
(* machine gun and the second neutral are the frame of no command at all,   *)
(* so that GetCmd sends none of them by accident, and what the tables call  *)
(* recoil is sent only by a command that fires the cannon (GetCmd, CRC).    *)
AgreesWithTable ==
    /\ TableInOrder
    /\ \A f \in frames :
        /\ Bare(command) \in KnownCommands
              => <<Bare(command), f>> \in KnownFrames
        /\ f \notin {FireRow, GunRow, NeutralRow}
        /\ f = RecoilRow => command.fire

(* What GetCmd is to send for a weapon is the frame that the tables give    *)
(* for it: 0xFE442F34 for Fire, 0xFE440F78 for Gun and 0xFE420F24 for       *)
(* Recoil (RTController.c:73, 75, 76; HengLong_Test.cpp:75, 76, 77).        *)
WeaponRows == [fire |-> FireRow, machine_gun |-> GunRow, recoil |-> RecoilRow]

WeaponsAgreeWithTable ==
    \A weapon \in DOMAIN WeaponRows :
        Bare(command) = InitCommand(weapon) => frames \subseteq {WeaponRows[weapon]}
=============================================================================
