------------------------------- MODULE Command -------------------------------
(***************************************************************************)
(* The Command class (src/RaspiTank/Command.cpp, Command.h): how a         *)
(* command, built by the program from a CmdType or by a client from a JSON *)
(* object, becomes the 32-bit frame that is sent to the Heng Long board.   *)
(*                                                                         *)
(* The first byte of every frame is the constant preamble 0xFE, so a frame *)
(* is represented by the set of the bits among 0..23 that are raised:      *)
(* "cmd |= mask" is set union, 0xFE000000 is the empty set.                *)
(***************************************************************************)
EXTENDS Integers

CONSTANT JsonSpeeds   \* the values of "dirspeed" and "rotspeed" a client sends

ASSUME JsonSpeedsAssumption == JsonSpeeds \subseteq Int

(* "Other" is every integer that the enumeration does not name: ParseJSON   *)
(* casts what a client sends. A Rotation it does not name acts as None.     *)
Directions == {"Forward", "Backward", "Other"}
Rotations == {"None", "Left", "Right"}

(* The CmdType values that a constructor is called with. *)
CmdTypes == {"idle", "ignition", "neutral", "left_slow", "left_fast",
             "right_slow", "right_fast", "fwd_slow", "fwd_fast", "back_slow",
             "back_fast", "turret_left", "turret_right", "canon_elev",
             "machine_gun", "fire", "engine_start", "engine_stop", "recoil"}

(* Bit k of the two's complement representation of n, for a small n. *)
BitOf(n, k) == CASE k = 0 -> n % 2 = 1
                 [] k = 1 -> (n \div 2) % 2 = 1
                 [] k = 2 -> (n \div 4) % 2 = 1
                 [] k = 3 -> (n \div 8) % 2 = 1

(* The low four bits of n, shifted left by low. *)
Shifted(n, low) == {low + k : k \in {j \in 0..3 : BitOf(n, j)}}

Unassigned  == {}                          \* 0xFE000000
IdleCmd     == {22, 12, 9, 4, 3, 2}        \* 0xFE40121C
IgnitionCmd == {22, 12, 9, 7, 4, 2}        \* 0xFE401294
NeutralCmd  == {21, 20, 19, 18, 11, 10, 9, 8}    \* 0xFE3C0F00

-----------------------------------------------------------------------------
(* Building a command. *)

Clamp(speed) == IF speed < 0 THEN 0 ELSE IF speed > 7 THEN 7 ELSE speed

SetDirection(c, dir, speed) ==
    [c EXCEPT !.direction = dir, !.dirspeed = Clamp(speed)]

SetRotation(c, rot, speed) ==
    [c EXCEPT !.rotation = rot, !.rotspeed = Clamp(speed)]

Blank == [idle |-> FALSE, ignition |-> FALSE, neutral |-> FALSE,
          direction |-> "Backward", dirspeed |-> 0,
          rotation |-> "None", rotspeed |-> 0, turrelRotation |-> "None",
          canonElevation |-> FALSE, fire |-> FALSE, gun |-> FALSE,
          recoil |-> FALSE, engineStart |-> FALSE, engineStop |-> FALSE,
          external |-> FALSE, cmd |-> Unassigned]

(* Command::Init: an engine command also carries the frame that goes on air *)
(* with it: neutral for engine_start, idle for engine_stop.                 *)
InitCommand(cmdtype) ==
    CASE cmdtype = "idle"         -> [Blank EXCEPT !.idle = TRUE]
      [] cmdtype = "ignition"     -> [Blank EXCEPT !.ignition = TRUE]
      [] cmdtype = "neutral"      -> [Blank EXCEPT !.neutral = TRUE]
      [] cmdtype = "left_slow"    -> SetRotation(Blank, "Left", 1)
      [] cmdtype = "left_fast"    -> SetRotation(Blank, "Left", 6)
      [] cmdtype = "right_slow"   -> SetRotation(Blank, "Right", 1)
      [] cmdtype = "right_fast"   -> SetRotation(Blank, "Right", 6)
      [] cmdtype = "fwd_slow"     -> SetDirection(Blank, "Forward", 1)
      [] cmdtype = "fwd_fast"     -> SetDirection(Blank, "Forward", 6)
      [] cmdtype = "back_slow"    -> SetDirection(Blank, "Backward", 1)
      [] cmdtype = "back_fast"    -> SetDirection(Blank, "Backward", 6)
      [] cmdtype = "turret_left"  -> [Blank EXCEPT !.turrelRotation = "Left"]
      [] cmdtype = "turret_right" -> [Blank EXCEPT !.turrelRotation = "Right"]
      [] cmdtype = "canon_elev"   -> [Blank EXCEPT !.canonElevation = TRUE]
      [] cmdtype = "machine_gun"  -> [Blank EXCEPT !.gun = TRUE]
      [] cmdtype = "fire"         -> [Blank EXCEPT !.fire = TRUE]
      [] cmdtype = "recoil"       -> [Blank EXCEPT !.recoil = TRUE]
      [] cmdtype = "engine_start" -> [Blank EXCEPT !.engineStart = TRUE,
                                                   !.neutral = TRUE]
      [] cmdtype = "engine_stop"  -> [Blank EXCEPT !.engineStop = TRUE,
                                                   !.idle = TRUE]
      [] OTHER                    -> Blank

(* A client's JSON object: every key the web client writes, each present.   *)
JsonObjects == [idle : BOOLEAN, ignition : BOOLEAN, neutral : BOOLEAN,
                direction : Directions, dirspeed : JsonSpeeds,
                rotation : Rotations, rotspeed : JsonSpeeds,
                turrelRotation : Rotations, canonElevation : BOOLEAN,
                fire : BOOLEAN, gun : BOOLEAN, recoil : BOOLEAN,
                engineStart : BOOLEAN, engineStop : BOOLEAN]

(* Command::ParseJSON: the keys in the order the web client writes them, so *)
(* "engineStart" and "engineStop" come after "neutral" and "idle". A key    *)
(* that another client leaves out leaves its field uninitialised: such a    *)
(* command is some other member of JsonObjects. Speeds are not clamped.     *)
ParseJSON(j) ==
    [Blank EXCEPT !.idle = j.idle \/ j.engineStop,
                  !.ignition = j.ignition,
                  !.neutral = j.neutral \/ j.engineStart,
                  !.direction = j.direction, !.dirspeed = j.dirspeed,
                  !.rotation = j.rotation, !.rotspeed = j.rotspeed,
                  !.turrelRotation = j.turrelRotation,
                  !.canonElevation = j.canonElevation,
                  !.fire = j.fire, !.gun = j.gun, !.recoil = j.recoil,
                  !.engineStart = j.engineStart, !.engineStop = j.engineStop,
                  !.external = TRUE]

-----------------------------------------------------------------------------
(* Encoding a command. *)

Xor(a, b) == a # b

(* Bit i of the XOR of the four nibbles 23-20 .. 11-8 and of bits 7-6. *)
CrcBit(w, i) == Xor(i + 20 \in w, Xor(i + 16 \in w,
                Xor(i + 12 \in w, Xor(i + 8 \in w, i < 2 /\ i + 6 \in w))))

(* Variant: the checksum is XOR-ed into the frame.                          *)
CRCToggled(w) == LET crc == {i + 2 : i \in {j \in 0..3 : CrcBit(w, j)}}
                 IN  (w \ crc) \cup (crc \ w)

(* Command::CRC: the checksum is OR-ed into bits 5-2. *)
CRC(w) == w \cup {i + 2 : i \in {j \in 0..3 : CrcBit(w, j)}}

(* Variant: a forward speed is not inverted. *)
DriveBitsPlain(c) == (IF c.direction = "Backward" THEN {22} ELSE {})
                         \cup Shifted(c.dirspeed % 8, 19)

(* Only Backward raises bit 22; only Forward inverts the speed. *)
DriveBits(c) ==
    CASE c.direction = "Backward" -> {22} \cup Shifted(c.dirspeed % 8, 19)
      [] c.direction = "Forward"  -> Shifted(7 - (c.dirspeed % 8), 19)
      [] OTHER                    -> Shifted(c.dirspeed % 8, 19)

(* Variant: 0x700 is not added to a right turn. *)
RotationBitsNoOffset(c) ==
    CASE c.rotation = "Left"  -> Shifted(7 - (c.rotspeed % 8), 8)
      [] c.rotation = "Right" -> {12} \cup Shifted(c.rotspeed % 8, 8)
      [] OTHER                -> {8, 9, 10, 11}

RotationBits(c) ==
    CASE c.rotation = "Left"  -> Shifted(7 - (c.rotspeed % 8), 8)
      [] c.rotation = "Right" -> {12} \cup Shifted((c.rotspeed % 8) + 7, 8)
      [] OTHER                -> {8, 9, 10, 11}

TurretBits(c) == CASE c.turrelRotation = "Right" -> {16}
                   [] c.turrelRotation = "Left"  -> {15}
                   [] OTHER                      -> {}

(* Variant: the recoil raises the bit of the elevation. *)
WeaponBitsShared(c) == (IF c.fire THEN {17} ELSE {}) \cup
                       (IF c.gun THEN {6} ELSE {}) \cup
                       (IF c.canonElevation \/ c.recoil THEN {14} ELSE {})

WeaponBits(c) == (IF c.fire THEN {17} ELSE {}) \cup
                 (IF c.canonElevation THEN {14} ELSE {}) \cup
                 (IF c.gun THEN {6} ELSE {}) \cup
                 (IF c.recoil THEN {13} ELSE {})

Payload(c) == DriveBits(c) \cup RotationBits(c) \cup TurretBits(c)
                           \cup WeaponBits(c)

IsSpecial(c) == c.idle \/ c.ignition \/ c.neutral

(* The frame Command::GetCmd returns. *)
GetCmd(c) == IF c.cmd # Unassigned THEN CRC(c.cmd)
             ELSE IF c.idle        THEN IdleCmd
             ELSE IF c.ignition    THEN IgnitionCmd
             ELSE IF c.neutral     THEN NeutralCmd
             ELSE CRC(Payload(c))

(* What GetCmd leaves in the field cmd: a special frame is not stored. *)
CmdAfterGet(c) == IF c.cmd = Unassigned /\ IsSpecial(c) THEN Unassigned
                  ELSE GetCmd(c)

-----------------------------------------------------------------------------
(* The life of one Command object: it is built, then asked for its frame,   *)
(* possibly several times. The constructors from a ready-made code          *)
(* (Command(int), Command(int, string)) are called nowhere and left out.    *)

VARIABLES command,   \* the object
          frames     \* the set of frames it has returned

vars == <<command, frames>>

Init == /\ command \in {InitCommand(t) : t \in CmdTypes}
                       \cup {ParseJSON(j) : j \in JsonObjects}
        /\ frames = {}

Encode == /\ frames' = frames \cup {GetCmd(command)}
          /\ command' = [command EXCEPT !.cmd = CmdAfterGet(command)]

Next == Encode

Spec == Init /\ [][Next]_vars

-----------------------------------------------------------------------------
(* What a receiver of the frame can rely on. *)

(* The board's checksum test: in each of the four columns, the bits of the  *)
(* nibbles, of bits 7-6 and of the checksum XOR to zero.                    *)
ChecksumOK(w) ==
    \A i \in 0..3 :
        Xor(Xor(Xor(i + 2 \in w, i <= 1 /\ i + 6 \in w), i + 8 \in w),
            Xor(i + 12 \in w, Xor(i + 16 \in w, i + 20 \in w))) = FALSE

(* A command has one frame, however often it is asked for it, and the frame *)
(* carries its own checksum: although GetCmd stores its result in the field *)
(* it builds the frame from, and CRC, applied again, only raises bits.      *)
FramesCheck == \A f, g \in frames : f = g /\ ChecksumOK(f)

(* The frames that start and stop the tank's engine or stop its motion are  *)
(* reserved: no combination of driving, turret and weapon fields encodes to *)
(* one of them, so a driving command can never switch the engine. And the   *)
(* value that GetCmd and CommandSender read as "no command yet" is the      *)
(* frame of full speed ahead with a full turn to the left, and of what a    *)
(* client sends with an unnamed direction, speed 0 and that turn: nothing   *)
(* else.                                                                    *)
SpecialFramesReserved ==
    \A f \in frames :
        /\ f = IdleCmd => command.idle
        /\ f = IgnitionCmd => command.ignition
        /\ f = NeutralCmd => command.neutral
        /\ f = Unassigned =>
             /\ \/ command.direction = "Forward" /\ command.dirspeed % 8 = 7
                \/ command.direction = "Other" /\ command.dirspeed % 8 = 0
             /\ command.rotation = "Left" /\ command.rotspeed % 8 = 7
             /\ command.turrelRotation = "None"
             /\ ~(command.fire \/ command.gun \/ command.recoil
                               \/ command.canonElevation)
=============================================================================
