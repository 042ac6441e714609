----------------------------- MODULE Frames_proofs -----------------------------
(***************************************************************************)
(* Proofs about the frames: those of every command, for any speeds a       *)
(* client sends, and those of every push of a stick, however far.          *)
(***************************************************************************)
EXTENDS MCFrames, Sequences, TLAPS

-----------------------------------------------------------------------------
(* COMMAND: the bits of a frame.                                            *)

LEMMA BitOfIs ==
    ASSUME NEW n
    PROVE  /\ BitOf(n, 0) <=> (n % 2 = 1)
           /\ BitOf(n, 1) <=> ((n \div 2) % 2 = 1)
           /\ BitOf(n, 2) <=> ((n \div 4) % 2 = 1)
           /\ BitOf(n, 3) <=> ((n \div 8) % 2 = 1)
<1>1. 0 # 1 /\ 0 # 2 /\ 0 # 3 /\ 1 # 2 /\ 1 # 3 /\ 2 # 3
  OBVIOUS
<1> QED BY Zenon, <1>1 DEF BitOf

(* The bits of a number below 16, as a set and as a sum.                    *)
LEMMA BitsAddUp ==
    ASSUME NEW n \in 0..15
    PROVE  /\ n <= 7 => ~BitOf(n, 3)
           /\ (IF BitOf(n, 0) THEN 1 ELSE 0) + (IF BitOf(n, 1) THEN 2 ELSE 0)
              + (IF BitOf(n, 2) THEN 4 ELSE 0) + (IF BitOf(n, 3) THEN 8 ELSE 0) = n
<1>1. /\ BitOf(n, 0) <=> (n % 2 = 1)
      /\ BitOf(n, 1) <=> ((n \div 2) % 2 = 1)
      /\ BitOf(n, 2) <=> ((n \div 4) % 2 = 1)
      /\ BitOf(n, 3) <=> ((n \div 8) % 2 = 1)
  BY BitOfIs
<1>4. \/ n = 0 \/ n = 1 \/ n = 2 \/ n = 3 \/ n = 4 \/ n = 5 \/ n = 6 \/ n = 7
      \/ n = 8 \/ n = 9 \/ n = 10 \/ n = 11 \/ n = 12 \/ n = 13 \/ n = 14 \/ n = 15
  OBVIOUS
<1>5. n <= 7 => ~BitOf(n, 3)
  BY <1>1, <1>4
<1>6. (IF BitOf(n, 0) THEN 1 ELSE 0) + (IF BitOf(n, 1) THEN 2 ELSE 0)
      + (IF BitOf(n, 2) THEN 4 ELSE 0) + (IF BitOf(n, 3) THEN 8 ELSE 0) = n
  BY <1>1, <1>4
<1> QED BY <1>5, <1>6

LEMMA BitsShifted ==
    ASSUME NEW n, NEW low \in Nat, NEW b \in Int
    PROVE  b \in Shifted(n, low) <=> b - low \in 0..3 /\ BitOf(n, b - low)
<1>1. ASSUME b \in Shifted(n, low) PROVE b - low \in 0..3 /\ BitOf(n, b - low)
  <2>1. PICK k \in 0..3 : BitOf(n, k) /\ b = low + k
    BY <1>1 DEF Shifted
  <2>2. b - low = k
    BY <2>1
  <2> QED BY <2>1, <2>2
<1>2. ASSUME b - low \in 0..3, BitOf(n, b - low) PROVE b \in Shifted(n, low)
  <2>1. b = low + (b - low)
    OBVIOUS
  <2> QED BY <1>2, <2>1 DEF Shifted
<1> QED BY <1>1, <1>2

LEMMA SpeedsFit == \A speed \in Int : speed % 8 \in 0..7
OBVIOUS

(* A command before it is asked for its frame.                              *)
Fresh == [idle : BOOLEAN, ignition : BOOLEAN, neutral : BOOLEAN,
          direction : Directions, dirspeed : Int,
          rotation : Rotations, rotspeed : Int, turrelRotation : Rotations,
          canonElevation : BOOLEAN, fire : BOOLEAN, gun : BOOLEAN,
          recoil : BOOLEAN, engineStart : BOOLEAN, engineStop : BOOLEAN,
          external : BOOLEAN, cmd : {Unassigned}]

(* The numbers that the speeds become in a frame.                           *)
Drive(c) == IF c.direction = "Forward" THEN 7 - (c.dirspeed % 8) ELSE c.dirspeed % 8
Turn(c) == IF c.rotation = "Left" THEN 7 - (c.rotspeed % 8)
           ELSE IF c.rotation = "Right" THEN (c.rotspeed % 8) + 7 ELSE 15

LEMMA NumbersFit ==
    ASSUME NEW c \in Fresh
    PROVE  /\ Drive(c) \in 0..7 /\ Turn(c) \in 0..15
           /\ c.rotation = "Left" => Turn(c) <= 7
           /\ c.rotation = "Right" => Turn(c) \in 7..14
<1>1. c.dirspeed % 8 \in 0..7 /\ c.rotspeed % 8 \in 0..7
  BY SpeedsFit DEF Fresh
<1> QED BY <1>1 DEF Drive, Turn

LEMMA DriveRaises ==
    ASSUME NEW c \in Fresh, NEW b \in Int
    PROVE  b \in DriveBits(c) <=> \/ (b = 22 /\ c.direction = "Backward")
                                   \/ (b \in 19..21 /\ BitOf(Drive(c), b - 19))
<1> DEFINE d == Drive(c)
<1>1. DriveBits(c) = (IF c.direction = "Backward" THEN {22} ELSE {}) \cup Shifted(d, 19)
  <2>1. /\ c.direction = "Backward" => DriveBits(c) = {22} \cup Shifted(c.dirspeed % 8, 19)
        /\ c.direction = "Forward" => DriveBits(c) = Shifted(7 - (c.dirspeed % 8), 19)
        /\ c.direction = "Other" => DriveBits(c) = Shifted(c.dirspeed % 8, 19)
    BY Zenon DEF DriveBits
  <2>2. c.direction \in {"Backward", "Forward", "Other"}
    BY DEF Fresh, Directions
  <2>3. /\ c.direction = "Forward" => d = 7 - (c.dirspeed % 8)
        /\ c.direction # "Forward" => d = c.dirspeed % 8
    BY DEF Drive
  <2> HIDE DEF d
  <2> QED BY <2>1, <2>2, <2>3
<1>2. d \in 0..7
  BY NumbersFit
<1> HIDE DEF d
<1>3. b \in Shifted(d, 19) <=> b - 19 \in 0..3 /\ BitOf(d, b - 19)
  BY BitsShifted
<1>4. ~BitOf(d, 3)
  BY <1>2, BitsAddUp
<1>5. b - 19 \in 0..3 => b \in 19..21 \/ b - 19 = 3
  OBVIOUS
<1>6. b \in 19..21 => b - 19 \in 0..3
  OBVIOUS
<1>7. b \in Shifted(d, 19) <=> b \in 19..21 /\ BitOf(d, b - 19)
  BY <1>3, <1>4, <1>5, <1>6
<1> QED BY <1>1, <1>7 DEF d

LEMMA RotationRaises ==
    ASSUME NEW c \in Fresh, NEW b \in Int
    PROVE  b \in RotationBits(c) <=> \/ (b = 12 /\ c.rotation = "Right")
                                      \/ (b \in 8..11 /\ BitOf(Turn(c), b - 8))
<1> DEFINE t == Turn(c)
<1>1. c.rotation \in {"Left", "Right", "None"}
  BY DEF Fresh, Rotations
<1>2. b - 8 \in 0..3 <=> b \in 8..11
  OBVIOUS
<1>3. b \in Shifted(t, 8) <=> b - 8 \in 0..3 /\ BitOf(t, b - 8)
  BY BitsShifted
<1>4. CASE c.rotation = "Left"
  <2>1. RotationBits(c) = Shifted(t, 8)
    BY Zenon, <1>4 DEF RotationBits, Turn
  <2> QED BY <1>2, <1>3, <1>4, <2>1
<1>5. CASE c.rotation = "Right"
  <2>1. t = (c.rotspeed % 8) + 7
    BY <1>5 DEF Turn
  <2>2. RotationBits(c) = {12} \cup Shifted((c.rotspeed % 8) + 7, 8)
    BY Zenon, <1>5 DEF RotationBits
  <2>3. b \in RotationBits(c) <=> b = 12 \/ b \in Shifted(t, 8)
    BY <2>1, <2>2
  <2> HIDE DEF t
  <2>4. b \in RotationBits(c) <=> b = 12 \/ (b \in 8..11 /\ BitOf(t, b - 8))
    BY <1>2, <1>3, <2>3
  <2> QED BY <1>5, <2>4 DEF t
<1>6. CASE c.rotation = "None"
  <2>1. t = 15
    BY <1>6 DEF Turn
  <2>5. RotationBits(c) = {8, 9, 10, 11}
    BY Zenon, <1>6 DEF RotationBits
  <2>2. /\ BitOf(15, 0) /\ BitOf(15, 1) /\ BitOf(15, 2) /\ BitOf(15, 3)
    BY BitsAddUp
  <2>3. \A k \in 0..3 : k = 0 \/ k = 1 \/ k = 2 \/ k = 3
    OBVIOUS
  <2>4. b \in 8..11 => BitOf(t, b - 8)
    BY <1>2, <2>1, <2>2, <2>3
  <2> QED BY <1>6, <2>1, <2>4, <2>5
<1> QED BY <1>1, <1>4, <1>5, <1>6

LEMMA TurretRaises ==
    ASSUME NEW c \in Fresh, NEW b \in Int
    PROVE  b \in TurretBits(c) <=> \/ (b = 16 /\ c.turrelRotation = "Right")
                                    \/ (b = 15 /\ c.turrelRotation = "Left")
<1>1. c.turrelRotation \in {"Left", "Right", "None"}
  BY DEF Fresh, Rotations
<1>2. /\ c.turrelRotation = "Right" => TurretBits(c) = {16}
      /\ c.turrelRotation = "Left" => TurretBits(c) = {15}
      /\ c.turrelRotation = "None" => TurretBits(c) = {}
  BY Zenon DEF TurretBits
<1> QED BY <1>1, <1>2

(* Whether a command raises a bit of its frame, but for the checksum.       *)
Raises(c, b) ==
    \/ (b = 22 /\ c.direction = "Backward")
    \/ (b \in 19..21 /\ BitOf(Drive(c), b - 19))
    \/ (b = 17 /\ c.fire)
    \/ (b = 16 /\ c.turrelRotation = "Right")
    \/ (b = 15 /\ c.turrelRotation = "Left")
    \/ (b = 14 /\ c.canonElevation)
    \/ (b = 13 /\ c.recoil)
    \/ (b = 12 /\ c.rotation = "Right")
    \/ (b \in 8..11 /\ BitOf(Turn(c), b - 8))
    \/ (b = 6 /\ c.gun)

LEMMA PayloadRaises ==
    ASSUME NEW c \in Fresh, NEW b \in Int
    PROVE  b \in Payload(c) <=> Raises(c, b)
<1>1. b \in WeaponBits(c) <=> \/ (b = 17 /\ c.fire)
                               \/ (b = 14 /\ c.canonElevation)
                               \/ (b = 13 /\ c.recoil)
                               \/ (b = 6 /\ c.gun)
  BY DEF WeaponBits
<1>2. b \in Payload(c) <=> \/ b \in DriveBits(c) \/ b \in RotationBits(c)
                            \/ b \in TurretBits(c) \/ b \in WeaponBits(c)
  BY DEF Payload
<1> QED
  BY <1>1, <1>2, DriveRaises, RotationRaises, TurretRaises, Zenon DEF Raises

-----------------------------------------------------------------------------
(* The checksum.                                                            *)

LEMMA CRCRaises ==
    ASSUME NEW w, NEW b \in Int
    PROVE  b \in CRC(w) <=> b \in w \/ (b \in 2..5 /\ CrcBit(w, b - 2))
<1>1. ASSUME NEW k \in {j \in 0..3 : CrcBit(w, j)}, b = k + 2
      PROVE  b \in 2..5 /\ CrcBit(w, b - 2)
  <2>1. b - 2 = k
    BY <1>1
  <2> QED BY <1>1, <2>1
<1>2. ASSUME b \in 2..5, CrcBit(w, b - 2)
      PROVE  b \in {k + 2 : k \in {j \in 0..3 : CrcBit(w, j)}}
  <2>1. b - 2 \in 0..3 /\ b = (b - 2) + 2
    BY <1>2
  <2> QED BY <1>2, <2>1
<1> QED BY <1>1, <1>2 DEF CRC

LEMMA CRCTypes == \A w \in SUBSET Int : CRC(w) \in SUBSET Int
<1> SUFFICES ASSUME NEW w \in SUBSET Int, NEW b \in CRC(w) PROVE b \in Int
  OBVIOUS
<1>1. b \in w \/ b \in 2..5
  BY DEF CRC
<1>2. b \in 2..5 => b \in Int
  OBVIOUS
<1> QED BY <1>1, <1>2, Zenon

(* The checksum is over other bits than those it is OR-ed into,             *)
LEMMA SameChecksum ==
    ASSUME NEW v, NEW w, \A b \in Int : b \notin 2..5 => (b \in v <=> b \in w)
    PROVE  \A k \in 0..3 : CrcBit(v, k) <=> CrcBit(w, k)
<1> SUFFICES ASSUME NEW k \in 0..3 PROVE CrcBit(v, k) <=> CrcBit(w, k)
  OBVIOUS
<1>1. /\ k + 20 \in v <=> k + 20 \in w
      /\ k + 16 \in v <=> k + 16 \in w
      /\ k + 12 \in v <=> k + 12 \in w
      /\ k + 8 \in v <=> k + 8 \in w
      /\ k + 6 \in v <=> k + 6 \in w
  OBVIOUS
<1> QED BY <1>1 DEF CrcBit, Xor

(* so to apply it again changes nothing, although GetCmd does,              *)
LEMMA CRCTwice == ASSUME NEW w \in SUBSET Int PROVE CRC(CRC(w)) = CRC(w)
<1>1. \A b \in Int : b \in CRC(w) <=> b \in w \/ (b \in 2..5 /\ CrcBit(w, b - 2))
  BY CRCRaises
<1>2. \A k \in 0..3 : CrcBit(CRC(w), k) <=> CrcBit(w, k)
  BY <1>1, SameChecksum
<1>3. \A b \in Int : b \in CRC(CRC(w)) <=> b \in CRC(w)
  <2> SUFFICES ASSUME NEW b \in Int PROVE b \in CRC(CRC(w)) <=> b \in CRC(w)
    OBVIOUS
  <2>1. b \in CRC(CRC(w)) <=> \/ b \in CRC(w)
                                 \/ (b \in 2..5 /\ CrcBit(CRC(w), b - 2))
    BY CRCRaises
  <2>2. b \in 2..5 => b - 2 \in 0..3
    OBVIOUS
  <2> QED BY <1>1, <1>2, <2>1, <2>2
<1>4. CRC(w) \in SUBSET Int /\ CRC(CRC(w)) \in SUBSET Int
  BY CRCTypes
<1> QED BY <1>3, <1>4

(* and a frame without bits of its own there has the right checksum.        *)
LEMMA ChecksumIsCrc ==
    ASSUME NEW f
    PROVE  ChecksumOK(f) <=> \A k \in 0..3 : k + 2 \in f <=> CrcBit(f, k)
<1> SUFFICES ASSUME NEW k \in 0..3
             PROVE  (Xor(Xor(Xor(k + 2 \in f, k <= 1 /\ k + 6 \in f), k + 8 \in f),
                           Xor(k + 12 \in f, Xor(k + 16 \in f, k + 20 \in f))) = FALSE)
                    <=> (k + 2 \in f <=> CrcBit(f, k))
  BY Zenon DEF ChecksumOK
<1>1. k < 2 <=> k <= 1
  OBVIOUS
<1> QED BY <1>1 DEF CrcBit, Xor

LEMMA CRCIsRight ==
    ASSUME NEW w \in SUBSET Int, \A b \in 2..5 : b \notin w
    PROVE  ChecksumOK(CRC(w))
<1> DEFINE f == CRC(w)
<1>1. \A b \in Int : b \in f <=> b \in w \/ (b \in 2..5 /\ CrcBit(w, b - 2))
  BY CRCRaises
<1> HIDE DEF f
<1>2. \A k \in 0..3 : CrcBit(f, k) <=> CrcBit(w, k)
  BY <1>1, SameChecksum
<1>3. \A k \in 0..3 : k + 2 \in 2..5 /\ (k + 2) - 2 = k
  OBVIOUS
<1>4. \A k \in 0..3 : k + 2 \in f <=> CrcBit(f, k)
  BY <1>1, <1>2, <1>3
<1>5. ChecksumOK(f)
  BY <1>4, ChecksumIsCrc
<1> QED BY <1>5 DEF f

-----------------------------------------------------------------------------
(* The commands that there are.                                             *)

LEMMA BlankIsFresh == Blank \in Fresh
BY DEF Blank, Fresh, Directions, Rotations

LEMMA FlagsFresh ==
    ASSUME NEW c \in Fresh, NEW x \in BOOLEAN, NEW y \in BOOLEAN
    PROVE  /\ [c EXCEPT !.idle = x] \in Fresh
           /\ [c EXCEPT !.ignition = x] \in Fresh
           /\ [c EXCEPT !.neutral = x] \in Fresh
           /\ [c EXCEPT !.canonElevation = x] \in Fresh
           /\ [c EXCEPT !.gun = x] \in Fresh
           /\ [c EXCEPT !.fire = x] \in Fresh
           /\ [c EXCEPT !.recoil = x] \in Fresh
           /\ [c EXCEPT !.engineStart = x, !.neutral = y] \in Fresh
           /\ [c EXCEPT !.engineStop = x, !.idle = y] \in Fresh
BY DEF Fresh

LEMMA DrivesFresh ==
    ASSUME NEW c \in Fresh, NEW speed \in Int,
           NEW d \in Directions, NEW r \in Rotations
    PROVE  /\ SetDirection(c, d, speed) \in Fresh
           /\ SetRotation(c, r, speed) \in Fresh
           /\ [c EXCEPT !.turrelRotation = r] \in Fresh
<1>1. Clamp(speed) \in Int
  BY DEF Clamp
<1> QED BY <1>1 DEF Fresh, SetDirection, SetRotation

(* Command::Init,                                                           *)
LEMMA InitIsFresh == \A t \in CmdTypes : InitCommand(t) \in Fresh
<1> DEFINE B == Blank
           T == TRUE
<1>0. B \in Fresh /\ T \in BOOLEAN
  BY BlankIsFresh
<1>1. /\ InitCommand("idle") = [B EXCEPT !.idle = T]
      /\ InitCommand("ignition") = [B EXCEPT !.ignition = T]
      /\ InitCommand("neutral") = [B EXCEPT !.neutral = T]
      /\ InitCommand("canon_elev") = [B EXCEPT !.canonElevation = T]
      /\ InitCommand("machine_gun") = [B EXCEPT !.gun = T]
      /\ InitCommand("fire") = [B EXCEPT !.fire = T]
      /\ InitCommand("recoil") = [B EXCEPT !.recoil = T]
      /\ InitCommand("engine_start") = [B EXCEPT !.engineStart = T, !.neutral = T]
      /\ InitCommand("engine_stop") = [B EXCEPT !.engineStop = T, !.idle = T]
  BY Zenon DEF InitCommand
<1>2. /\ InitCommand("left_slow") = SetRotation(B, "Left", 1)
      /\ InitCommand("left_fast") = SetRotation(B, "Left", 6)
      /\ InitCommand("right_slow") = SetRotation(B, "Right", 1)
      /\ InitCommand("right_fast") = SetRotation(B, "Right", 6)
      /\ InitCommand("turret_left") = [B EXCEPT !.turrelRotation = "Left"]
      /\ InitCommand("turret_right") = [B EXCEPT !.turrelRotation = "Right"]
  BY Zenon DEF InitCommand
<1>3. /\ InitCommand("fwd_slow") = SetDirection(B, "Forward", 1)
      /\ InitCommand("fwd_fast") = SetDirection(B, "Forward", 6)
      /\ InitCommand("back_slow") = SetDirection(B, "Backward", 1)
      /\ InitCommand("back_fast") = SetDirection(B, "Backward", 6)
  BY Zenon DEF InitCommand
<1> HIDE DEF B, T
<1>4. "Left" \in Rotations /\ "Right" \in Rotations
      /\ "Forward" \in Directions /\ "Backward" \in Directions
  BY DEF Rotations, Directions
<1>9. /\ [B EXCEPT !.idle = T] \in Fresh /\ [B EXCEPT !.ignition = T] \in Fresh
      /\ [B EXCEPT !.neutral = T] \in Fresh /\ [B EXCEPT !.canonElevation = T] \in Fresh
      /\ [B EXCEPT !.gun = T] \in Fresh /\ [B EXCEPT !.fire = T] \in Fresh
      /\ [B EXCEPT !.recoil = T] \in Fresh
      /\ [B EXCEPT !.engineStart = T, !.neutral = T] \in Fresh
      /\ [B EXCEPT !.engineStop = T, !.idle = T] \in Fresh
  BY <1>0, FlagsFresh
<1>5. \A t \in {"idle", "ignition", "neutral", "canon_elev", "machine_gun", "fire",
                "recoil", "engine_start", "engine_stop"} : InitCommand(t) \in Fresh
  BY <1>1, <1>9, Zenon
<1>6. \A speed \in Int : /\ SetRotation(B, "Left", speed) \in Fresh
                         /\ SetRotation(B, "Right", speed) \in Fresh
                         /\ SetDirection(B, "Forward", speed) \in Fresh
                         /\ SetDirection(B, "Backward", speed) \in Fresh
                         /\ [B EXCEPT !.turrelRotation = "Left"] \in Fresh
                         /\ [B EXCEPT !.turrelRotation = "Right"] \in Fresh
  BY <1>0, <1>4, DrivesFresh
<1>7. 1 \in Int /\ 6 \in Int
  OBVIOUS
<1>a. /\ SetRotation(B, "Left", 1) \in Fresh /\ SetRotation(B, "Left", 6) \in Fresh
      /\ SetRotation(B, "Right", 1) \in Fresh /\ SetRotation(B, "Right", 6) \in Fresh
      /\ SetDirection(B, "Forward", 1) \in Fresh
      /\ SetDirection(B, "Forward", 6) \in Fresh
      /\ SetDirection(B, "Backward", 1) \in Fresh
      /\ SetDirection(B, "Backward", 6) \in Fresh
      /\ [B EXCEPT !.turrelRotation = "Left"] \in Fresh
      /\ [B EXCEPT !.turrelRotation = "Right"] \in Fresh
  BY <1>6, <1>7, Zenon
<1>8. \A t \in {"left_slow", "left_fast", "right_slow", "right_fast", "turret_left",
                "turret_right", "fwd_slow", "fwd_fast", "back_slow", "back_fast"} :
         InitCommand(t) \in Fresh
  BY <1>2, <1>3, <1>a, Zenon
<1> QED BY <1>5, <1>8 DEF CmdTypes

(* The JSON objects with any speeds.                                        *)
AnyJson == [idle : BOOLEAN, ignition : BOOLEAN, neutral : BOOLEAN,
            direction : Directions, dirspeed : Int,
            rotation : Rotations, rotspeed : Int,
            turrelRotation : Rotations, canonElevation : BOOLEAN,
            fire : BOOLEAN, gun : BOOLEAN, recoil : BOOLEAN,
            engineStart : BOOLEAN, engineStop : BOOLEAN]

LEMMA JsonIsAny == JsonObjects \subseteq AnyJson
BY JsonSpeedsAssumption DEF JsonObjects, AnyJson

(* and Command::ParseJSON.                                                  *)
LEMMA ParsedIsFresh == \A j \in AnyJson : ParseJSON(j) \in Fresh
<1> SUFFICES ASSUME NEW j \in AnyJson PROVE ParseJSON(j) \in Fresh
  OBVIOUS
<1> DEFINE B == Blank
           x == j.idle \/ j.engineStop
           y == j.neutral \/ j.engineStart
           z == TRUE
           P == [B EXCEPT !.idle = x, !.ignition = j.ignition, !.neutral = y,
                          !.direction = j.direction, !.dirspeed = j.dirspeed,
                          !.rotation = j.rotation, !.rotspeed = j.rotspeed,
                          !.turrelRotation = j.turrelRotation,
                          !.canonElevation = j.canonElevation,
                          !.fire = j.fire, !.gun = j.gun, !.recoil = j.recoil,
                          !.engineStart = j.engineStart, !.engineStop = j.engineStop,
                          !.external = z]
<1>1. ParseJSON(j) = P
  BY Zenon DEF ParseJSON
<1>2. B \in Fresh /\ x \in BOOLEAN /\ y \in BOOLEAN /\ z \in BOOLEAN
  BY BlankIsFresh
<1>3. /\ j.ignition \in BOOLEAN /\ j.canonElevation \in BOOLEAN /\ j.fire \in BOOLEAN
      /\ j.gun \in BOOLEAN /\ j.recoil \in BOOLEAN /\ j.engineStart \in BOOLEAN
      /\ j.engineStop \in BOOLEAN /\ j.direction \in Directions
      /\ j.rotation \in Rotations /\ j.turrelRotation \in Rotations
      /\ j.dirspeed \in Int /\ j.rotspeed \in Int
  BY DEF AnyJson
<1> HIDE DEF B, x, y, z
<1>4. P \in Fresh
  BY <1>2, <1>3 DEF Fresh
<1> QED BY <1>1, <1>4

-----------------------------------------------------------------------------
(* A command and its frame.                                                 *)

LEMMA ShiftedTypes == \A low \in Nat : \A n : Shifted(n, low) \in SUBSET Int
<1> SUFFICES ASSUME NEW low \in Nat, NEW n, NEW b \in Shifted(n, low) PROVE b \in Int
  OBVIOUS
<1>1. PICK k \in 0..3 : b = low + k
  BY DEF Shifted
<1> QED BY <1>1

LEMMA PayloadBits ==
    ASSUME NEW c \in Fresh
    PROVE  /\ Payload(c) \in SUBSET Int
           /\ \A b \in 2..5 : b \notin Payload(c)
<1>1. /\ \A n : Shifted(n, 19) \in SUBSET Int /\ Shifted(n, 8) \in SUBSET Int
      /\ {22} \in SUBSET Int /\ {12} \in SUBSET Int /\ {8, 9, 10, 11} \in SUBSET Int
      /\ {15} \in SUBSET Int /\ {16} \in SUBSET Int /\ {} \in SUBSET Int
      /\ {17} \in SUBSET Int /\ {14} \in SUBSET Int /\ {13} \in SUBSET Int
      /\ {6} \in SUBSET Int
  BY ShiftedTypes
<1>2. DriveBits(c) \in SUBSET Int
  <2>1. /\ c.direction = "Backward" => DriveBits(c) = {22} \cup Shifted(c.dirspeed % 8, 19)
        /\ c.direction = "Forward" => DriveBits(c) = Shifted(7 - (c.dirspeed % 8), 19)
        /\ c.direction = "Other" => DriveBits(c) = Shifted(c.dirspeed % 8, 19)
    BY Zenon DEF DriveBits
  <2>2. c.direction \in {"Backward", "Forward", "Other"}
    BY DEF Fresh, Directions
  <2> QED BY <1>1, <2>1, <2>2, Zenon
<1>3. RotationBits(c) \in SUBSET Int
  <2>1. /\ c.rotation = "Left" => RotationBits(c) = Shifted(7 - (c.rotspeed % 8), 8)
        /\ c.rotation = "Right" => RotationBits(c)
                                     = {12} \cup Shifted((c.rotspeed % 8) + 7, 8)
        /\ c.rotation = "None" => RotationBits(c) = {8, 9, 10, 11}
    BY Zenon DEF RotationBits
  <2>2. c.rotation \in {"Left", "Right", "None"}
    BY DEF Fresh, Rotations
  <2> QED BY <1>1, <2>1, <2>2, Zenon
<1>4. TurretBits(c) \in SUBSET Int
  <2>1. c.turrelRotation \in {"Left", "Right", "None"}
    BY DEF Fresh, Rotations
  <2>2. /\ c.turrelRotation = "Right" => TurretBits(c) = {16}
        /\ c.turrelRotation = "Left" => TurretBits(c) = {15}
        /\ c.turrelRotation = "None" => TurretBits(c) = {}
    BY Zenon DEF TurretBits
  <2> QED BY <1>1, <2>1, <2>2, Zenon
<1>5. WeaponBits(c) \in SUBSET Int
  BY DEF WeaponBits
<1>6. Payload(c) \in SUBSET Int
  BY <1>2, <1>3, <1>4, <1>5, Zenon DEF Payload
<1>7. ASSUME NEW b \in 2..5 PROVE ~Raises(c, b)
  BY DEF Raises
<1>8. ASSUME NEW b \in 2..5 PROVE b \notin Payload(c)
  BY <1>7, PayloadRaises
<1> QED BY <1>6, <1>8

LEMMA FrameBits ==
    ASSUME NEW c \in Fresh, NEW b \in Int, b \notin 2..5
    PROVE  b \in CRC(Payload(c)) <=> Raises(c, b)
BY CRCRaises, PayloadRaises

(* The bits tell the numbers.                                               *)
LEMMA FrameNumbers ==
    ASSUME NEW c \in Fresh
    PROVE  LET f == CRC(Payload(c)) IN
           /\ Number(f, 19) = Drive(c)
           /\ Number(f, 8) + Weight(f, 11, 8) = Turn(c)
<1> DEFINE f == CRC(Payload(c))
           d == Drive(c)
           t == Turn(c)
<1>1. \A b \in 8..22 : b \in f <=> Raises(c, b)
  BY FrameBits
<1>2. /\ 19 - 19 = 0 /\ 20 - 19 = 1 /\ 21 - 19 = 2
      /\ 8 - 8 = 0 /\ 9 - 8 = 1 /\ 10 - 8 = 2 /\ 11 - 8 = 3
  OBVIOUS
<1>3. /\ 19 \in f <=> BitOf(d, 0)
      /\ 20 \in f <=> BitOf(d, 1)
      /\ 21 \in f <=> BitOf(d, 2)
  BY <1>1, <1>2 DEF Raises
<1>4. /\ 8 \in f <=> BitOf(t, 0)
      /\ 9 \in f <=> BitOf(t, 1)
      /\ 10 \in f <=> BitOf(t, 2)
      /\ 11 \in f <=> BitOf(t, 3)
  BY <1>1, <1>2 DEF Raises
<1>5. d \in 0..7 /\ t \in 0..15
  BY NumbersFit
<1> HIDE DEF f, d, t
<1>6. /\ 19 + 1 = 20 /\ 19 + 2 = 21 /\ 8 + 1 = 9 /\ 8 + 2 = 10
  OBVIOUS
<1>7. Number(f, 19) = d
  BY <1>3, <1>5, <1>6, BitsAddUp DEF Number, Weight
<1>8. Number(f, 8) + Weight(f, 11, 8) = t
  BY <1>4, <1>5, <1>6, BitsAddUp DEF Number, Weight
<1> QED BY <1>7, <1>8 DEF f, d, t

(* The reference decoder reads the parts of the command off its frame.      *)
LEMMA DecodesTo ==
    ASSUME NEW c \in Fresh
    PROVE  Decode(CRC(Payload(c))) = Meaning(c)
<1> DEFINE f == CRC(Payload(c))
           d == Drive(c)
           t == Turn(c)
           x == c.dirspeed % 8
           y == c.rotspeed % 8
<1>1. \A b \in 6..22 : b \in f <=> Raises(c, b)
  BY FrameBits
<1>2. Number(f, 19) = d /\ Number(f, 8) + Weight(f, 11, 8) = t
  BY FrameNumbers
<1>3. x \in 0..7 /\ y \in 0..7
  BY SpeedsFit DEF Fresh
<1>4. /\ 22 \in f <=> c.direction = "Backward"
      /\ 12 \in f <=> c.rotation = "Right"
      /\ 15 \in f <=> c.turrelRotation = "Left"
      /\ 16 \in f <=> c.turrelRotation = "Right"
      /\ 17 \in f <=> c.fire
      /\ 14 \in f <=> c.canonElevation
      /\ 6 \in f <=> c.gun
      /\ 13 \in f <=> c.recoil
  BY <1>1 DEF Raises
<1>5. /\ c.direction \in {"Forward", "Backward", "Other"}
      /\ c.rotation \in {"Left", "Right", "None"}
      /\ c.fire \in BOOLEAN /\ c.canonElevation \in BOOLEAN /\ c.gun \in BOOLEAN
      /\ c.recoil \in BOOLEAN
  BY DEF Fresh, Directions, Rotations
<1>6. /\ (15 \in f) = (c.turrelRotation = "Left")
      /\ (16 \in f) = (c.turrelRotation = "Right")
  BY <1>4
<1>7. /\ (17 \in f) = c.fire /\ (14 \in f) = c.canonElevation
      /\ (6 \in f) = c.gun /\ (13 \in f) = c.recoil
  BY <1>4, <1>5
<1>8. /\ d = IF c.direction = "Forward" THEN 7 - x ELSE x
      /\ t = IF c.rotation = "Left" THEN 7 - y
            ELSE IF c.rotation = "Right" THEN y + 7 ELSE 15
  BY DEF Drive, Turn
<1> HIDE DEF f, d, t, x, y
<1>9. (IF 22 \in f THEN <<"Backward", Number(f, 19)>> ELSE <<"Forward", 7 - Number(f, 19)>>)
      = IF c.direction = "Other" THEN <<"Forward", 7 - x>> ELSE <<c.direction, x>>
  <2>1. CASE c.direction = "Backward"
    BY <1>2, <1>4, <1>8, <2>1
  <2>2. CASE c.direction = "Forward"
    <3>1. 7 - (7 - x) = x
      BY <1>3
    <3> QED BY <1>2, <1>4, <1>8, <2>2, <3>1
  <2>3. CASE c.direction = "Other"
    BY <1>2, <1>4, <1>8, <2>3
  <2> QED BY <1>5, <2>1, <2>2, <2>3
<1>10. (IF 12 \in f THEN <<"Right", t - 7>>
        ELSE IF t = 15 THEN <<"None", 0>> ELSE <<"Left", 7 - t>>)
       = IF c.rotation = "None" THEN <<"None", 0>> ELSE <<c.rotation, y>>
  <2>1. CASE c.rotation = "Right"
    <3>1. t - 7 = y
      BY <1>3, <1>8, <2>1
    <3> QED BY <1>4, <2>1, <3>1
  <2>2. CASE c.rotation = "Left"
    <3>1. 7 - t = y /\ t # 15
      BY <1>3, <1>8, <2>2
    <3> QED BY <1>4, <2>2, <3>1
  <2>3. CASE c.rotation = "None"
    BY <1>4, <1>8, <2>3
  <2> QED BY <1>5, <2>1, <2>2, <2>3
<1>13. /\ <<15 \in f, 16 \in f>> = <<c.turrelRotation = "Left", c.turrelRotation = "Right">>
       /\ <<17 \in f, 14 \in f, 6 \in f, 13 \in f>>
          = <<c.fire, c.canonElevation, c.gun, c.recoil>>
  BY <1>6, <1>7, Zenon
<1> DEFINE fd == IF 22 \in f THEN <<"Backward", Number(f, 19)>>
                             ELSE <<"Forward", 7 - Number(f, 19)>>
           ft == IF 12 \in f THEN <<"Right", t - 7>>
                 ELSE IF t = 15 THEN <<"None", 0>> ELSE <<"Left", 7 - t>>
           fu == <<15 \in f, 16 \in f>>
           fw == <<17 \in f, 14 \in f, 6 \in f, 13 \in f>>
           cd == IF c.direction = "Other" THEN <<"Forward", 7 - x>> ELSE <<c.direction, x>>
           ct == IF c.rotation = "None" THEN <<"None", 0>> ELSE <<c.rotation, y>>
           cu == <<c.turrelRotation = "Left", c.turrelRotation = "Right">>
           cw == <<c.fire, c.canonElevation, c.gun, c.recoil>>
<1>11. Decode(f) = [drive |-> fd, turn |-> ft, turret |-> fu, weapon |-> fw]
  BY <1>2, Zenon DEF Decode
<1>12. Meaning(c) = [drive |-> cd, turn |-> ct, turret |-> cu, weapon |-> cw]
  BY Zenon DEF Meaning, x, y
<1>14. fd = cd /\ ft = ct /\ fu = cu /\ fw = cw
  BY <1>9, <1>10, <1>13, Zenon
<1> HIDE DEF fd, ft, fu, fw, cd, ct, cu, cw
<1>15. Decode(f) = Meaning(c)
  BY <1>11, <1>12, <1>14
<1> QED BY <1>15 DEF f

-----------------------------------------------------------------------------
(* The life of a command.                                                   *)

(* Fields other than cmd are those of the command that was built, cmd is    *)
(* its frame at most, and there is no other frame.                          *)
BuiltAs(b) == /\ frames \subseteq {GetCmd(b)}
              /\ \/ command = b
                 \/ ~IsSpecial(b) /\ command = [b EXCEPT !.cmd = CRC(Payload(b))]

CommandInv == \E b \in Fresh : BuiltAs(b)

LEMMA FrameOf ==
    ASSUME NEW b \in Fresh
    PROVE  /\ ~IsSpecial(b) => GetCmd(b) = CRC(Payload(b))
           /\ IsSpecial(b) =>
                 \/ b.idle /\ GetCmd(b) = IdleCmd
                 \/ b.ignition /\ GetCmd(b) = IgnitionCmd
                 \/ b.neutral /\ GetCmd(b) = NeutralCmd
<1>1. b.cmd = Unassigned /\ b.idle \in BOOLEAN /\ b.ignition \in BOOLEAN
      /\ b.neutral \in BOOLEAN
  BY DEF Fresh
<1> DEFINE P == CRC(Payload(b))
<1>2. GetCmd(b) = IF b.idle THEN IdleCmd
                    ELSE IF b.ignition THEN IgnitionCmd
                    ELSE IF b.neutral THEN NeutralCmd ELSE P
  BY <1>1, Zenon DEF GetCmd
<1> HIDE DEF P
<1> QED BY <1>1, <1>2 DEF IsSpecial, P

LEMMA KeptFrame ==
    ASSUME NEW b \in Fresh
    PROVE  /\ [b EXCEPT !.cmd = Unassigned] = b
           /\ \A w : /\ [b EXCEPT !.cmd = w].cmd = w
                     /\ [[b EXCEPT !.cmd = w] EXCEPT !.cmd = w] = [b EXCEPT !.cmd = w]
BY DEF Fresh

LEMMA CommandInit == Init => CommandInv
<1> SUFFICES ASSUME Init PROVE CommandInv
  OBVIOUS
<1>1. command \in Fresh
  BY InitIsFresh, ParsedIsFresh, JsonIsAny DEF Init
<1>2. frames \subseteq {GetCmd(command)}
  BY DEF Init
<1> QED BY <1>1, <1>2 DEF CommandInv, BuiltAs

LEMMA CommandStep == CommandInv /\ [Next]_vars => CommandInv'
<1> SUFFICES ASSUME CommandInv, [Next]_vars PROVE CommandInv'
  OBVIOUS
<1>1. PICK b \in Fresh : BuiltAs(b)
  BY DEF CommandInv
<1> DEFINE P == CRC(Payload(b))
<1>2. CASE Encode
  <2>1. /\ frames' = frames \cup {GetCmd(command)}
        /\ command' = [command EXCEPT !.cmd = CmdAfterGet(command)]
    BY <1>2 DEF Encode
  <2>2. CASE command = b
    <3>1. frames' \subseteq {GetCmd(b)}
      BY <1>1, <2>1, <2>2 DEF BuiltAs
    <3>2. CASE IsSpecial(b)
      <4>1. CmdAfterGet(b) = Unassigned
        BY <3>2 DEF CmdAfterGet, Fresh
      <4>2. command' = b
        BY <2>1, <2>2, <4>1, KeptFrame
      <4> QED BY <3>1, <4>2 DEF CommandInv, BuiltAs
    <3>3. CASE ~IsSpecial(b)
      <4>1. CmdAfterGet(b) = P
        BY <3>3, FrameOf DEF CmdAfterGet
      <4>2. command' = [b EXCEPT !.cmd = P]
        BY <2>1, <2>2, <4>1
      <4> QED BY <3>1, <3>3, <4>2 DEF CommandInv, BuiltAs
    <3> QED BY <3>2, <3>3
  <2>3. CASE command # b
    <3>1. ~IsSpecial(b) /\ command = [b EXCEPT !.cmd = P]
      BY <1>1, <2>3 DEF BuiltAs
    <3>2. P # Unassigned
      BY <2>3, <3>1, KeptFrame
    <3>3. command.cmd = P
      BY <3>1, KeptFrame
    <3>4. CRC(P) = P
      BY PayloadBits, CRCTwice
    <3>5. GetCmd(command) = P
      BY <3>2, <3>3, <3>4 DEF GetCmd
    <3>6. CmdAfterGet(command) = P
      BY <3>2, <3>3, <3>5 DEF CmdAfterGet
    <3>7. command' = [b EXCEPT !.cmd = P]
      BY <2>1, <3>1, <3>6, KeptFrame
    <3>8. frames' \subseteq {GetCmd(b)}
      BY <1>1, <2>1, <3>1, <3>5, FrameOf DEF BuiltAs
    <3> QED BY <3>1, <3>7, <3>8 DEF CommandInv, BuiltAs
  <2> QED BY <2>2, <2>3
<1>3. CASE UNCHANGED vars
  BY <1>1, <1>3 DEF vars, CommandInv, BuiltAs
<1> QED BY <1>2, <1>3 DEF Next

(* A command has one frame, with its checksum, however often it is asked    *)
(* for it (GetCmd, CRC).                                                    *)
THEOREM OneFrameWithChecksum == Spec => []FramesCheck
<1>1. CommandInv => FramesCheck
  <2> SUFFICES ASSUME NEW b \in Fresh, BuiltAs(b) PROVE FramesCheck
    BY DEF CommandInv
  <2>1. \A f \in frames : f = GetCmd(b)
    BY DEF BuiltAs
  <2>2. ChecksumOK(CRC(Payload(b)))
    BY PayloadBits, CRCIsRight
  <2>k. \A k \in 0..3 : k = 0 \/ k = 1 \/ k = 2 \/ k = 3
    OBVIOUS
  <2>3. ChecksumOK(IdleCmd)
    <3>1. \A k \in 0..3 : k + 2 \in IdleCmd <=> CrcBit(IdleCmd, k)
      BY <2>k DEF CrcBit, Xor, IdleCmd
    <3> QED BY <3>1, ChecksumIsCrc
  <2>4. ChecksumOK(IgnitionCmd)
    <3>1. \A k \in 0..3 : k + 2 \in IgnitionCmd <=> CrcBit(IgnitionCmd, k)
      BY <2>k DEF CrcBit, Xor, IgnitionCmd
    <3> QED BY <3>1, ChecksumIsCrc
  <2>5. ChecksumOK(NeutralCmd)
    <3>1. \A k \in 0..3 : k + 2 \in NeutralCmd <=> CrcBit(NeutralCmd, k)
      BY <2>k DEF CrcBit, Xor, NeutralCmd
    <3> QED BY <3>1, ChecksumIsCrc
  <2>6. ChecksumOK(GetCmd(b))
    BY <2>2, <2>3, <2>4, <2>5, FrameOf
  <2> QED BY <2>1, <2>6 DEF FramesCheck
<1> QED BY <1>1, CommandInit, CommandStep, PTL DEF Spec

(* The frame of a combined command decodes to all of its parts (GetCmd).    *)
THEOREM FrameSaysCommand == Spec => []FrameMeansCommand
<1>1. CommandInv => FrameMeansCommand
  <2> SUFFICES ASSUME NEW b \in Fresh, BuiltAs(b), ~IsSpecial(command), NEW f \in frames
               PROVE  Decode(f) = Meaning(command)
    BY DEF CommandInv, FrameMeansCommand
  <2>1. \E w : command = [b EXCEPT !.cmd = w]
    BY KeptFrame DEF BuiltAs
  <2>2. Meaning(command) = Meaning(b)
    BY <2>1 DEF Meaning, Fresh
  <2>3. ~IsSpecial(b)
    BY <2>1 DEF IsSpecial, Fresh
  <2>4. f = CRC(Payload(b))
    BY <2>3, FrameOf DEF BuiltAs
  <2> QED BY <2>2, <2>4, DecodesTo
<1> QED BY <1>1, CommandInit, CommandStep, PTL DEF Spec

LEMMA SameButCmd ==
    ASSUME NEW b \in Fresh, BuiltAs(b)
    PROVE  /\ [command EXCEPT !.cmd = Unassigned] = b
           /\ command.idle = b.idle /\ command.ignition = b.ignition
           /\ command.neutral = b.neutral
           /\ command.direction = b.direction /\ command.dirspeed = b.dirspeed
           /\ command.rotation = b.rotation /\ command.rotspeed = b.rotspeed
           /\ command.turrelRotation = b.turrelRotation
           /\ command.fire = b.fire /\ command.gun = b.gun
           /\ command.recoil = b.recoil /\ command.canonElevation = b.canonElevation
<1>1. PICK w : command = [b EXCEPT !.cmd = w]
  BY KeptFrame DEF BuiltAs
<1>2. command = [idle |-> b.idle, ignition |-> b.ignition, neutral |-> b.neutral,
          direction |-> b.direction, dirspeed |-> b.dirspeed,
          rotation |-> b.rotation, rotspeed |-> b.rotspeed, turrelRotation |-> b.turrelRotation,
          canonElevation |-> b.canonElevation, fire |-> b.fire, gun |-> b.gun,
          recoil |-> b.recoil, engineStart |-> b.engineStart, engineStop |-> b.engineStop,
          external |-> b.external, cmd |-> w]
  BY <1>1 DEF Fresh
<1>3. [command EXCEPT !.cmd = Unassigned] = b
  BY <1>1 DEF Fresh
<1> QED BY <1>2, <1>3, Zenon

(* The frames that are not built from parts have bits that no part has, or, *)
(* for idle, a turn that no command makes;                                  *)
LEMMA PartsMakeNoEngineFrame ==
    ASSUME NEW c \in Fresh
    PROVE  CRC(Payload(c)) \notin {IdleCmd, IgnitionCmd, NeutralCmd}
<1> DEFINE f == CRC(Payload(c))
<1>1. 7 \notin f /\ 18 \notin f
  BY FrameBits DEF Raises
<1>2. 7 \in IgnitionCmd /\ 18 \in NeutralCmd
  BY DEF IgnitionCmd, NeutralCmd
<1>3. ASSUME f = IdleCmd PROVE FALSE
  <2>1. Number(f, 8) + Weight(f, 11, 8) = 2
    BY <1>3 DEF Number, Weight, IdleCmd
  <2>2. Turn(c) = 2
    BY <2>1, FrameNumbers
  <2>3. 12 \in f
    BY <1>3 DEF IdleCmd
  <2>4. c.rotation = "Right"
    BY <2>3, FrameBits DEF Raises
  <2> QED BY <2>2, <2>4, NumbersFit
<1> QED BY <1>1, <1>2, <1>3

(* and only full speed ahead with a full turn to the left has no bits, or   *)
(* what an unnamed direction makes of it.                                   *)
LEMMA NoBits ==
    ASSUME NEW c \in Fresh, CRC(Payload(c)) = {}
    PROVE  /\ \/ c.direction = "Forward" /\ c.dirspeed % 8 = 7
              \/ c.direction = "Other" /\ c.dirspeed % 8 = 0
           /\ c.rotation = "Left" /\ c.rotspeed % 8 = 7
           /\ c.turrelRotation = "None"
           /\ ~(c.fire \/ c.gun \/ c.recoil \/ c.canonElevation)
<1>1. \A b \in 6..22 : ~Raises(c, b)
  BY FrameBits
<1>2. /\ c.direction # "Backward" /\ c.rotation # "Right"
      /\ c.turrelRotation # "Right" /\ c.turrelRotation # "Left"
      /\ ~c.fire /\ ~c.gun /\ ~c.recoil /\ ~c.canonElevation
  BY <1>1 DEF Raises
<1>3. Drive(c) = 0 /\ Turn(c) = 0
  BY FrameNumbers DEF Number, Weight
<1>4. c.dirspeed % 8 \in 0..7 /\ c.rotspeed % 8 \in 0..7
  BY SpeedsFit DEF Fresh
<1>5. (c.direction = "Forward" \/ c.direction = "Other") /\ c.turrelRotation = "None"
      /\ (c.rotation = "Left" \/ c.rotation = "None")
  BY <1>2 DEF Fresh, Directions, Rotations
<1> QED BY <1>2, <1>3, <1>4, <1>5 DEF Drive, Turn

(* The engine frames, and the value that stands for "no command yet", are   *)
(* those of the commands that mean them (GetCmd, CommandSender).            *)
THEOREM EngineFramesReserved == Spec => []SpecialFramesReserved
<1>1. CommandInv => SpecialFramesReserved
  <2> SUFFICES ASSUME NEW b \in Fresh, BuiltAs(b), NEW f \in frames
               PROVE  /\ f = IdleCmd => b.idle
                      /\ f = IgnitionCmd => b.ignition
                      /\ f = NeutralCmd => b.neutral
                      /\ f = Unassigned =>
                           /\ \/ b.direction = "Forward" /\ b.dirspeed % 8 = 7
                              \/ b.direction = "Other" /\ b.dirspeed % 8 = 0
                           /\ b.rotation = "Left" /\ b.rotspeed % 8 = 7
                           /\ b.turrelRotation = "None"
                           /\ ~(b.fire \/ b.gun \/ b.recoil \/ b.canonElevation)
    BY SameButCmd DEF CommandInv, SpecialFramesReserved
  <2>1. f = GetCmd(b)
    BY DEF BuiltAs
  <2>2. /\ 18 \in NeutralCmd /\ 18 \notin IgnitionCmd /\ 18 \notin IdleCmd
        /\ 7 \in IgnitionCmd /\ 7 \notin IdleCmd /\ 12 \in IdleCmd
        /\ Unassigned = {}
    BY DEF NeutralCmd, IgnitionCmd, IdleCmd, Unassigned
  <2>3. CASE IsSpecial(b)
    BY <2>1, <2>2, <2>3, FrameOf
  <2>4. CASE ~IsSpecial(b)
    BY <2>1, <2>2, <2>4, FrameOf, PartsMakeNoEngineFrame, NoBits
  <2> QED BY <2>3, <2>4
<1> QED BY <1>1, CommandInit, CommandStep, PTL DEF Spec

-----------------------------------------------------------------------------
(* The table of the older programs.                                         *)

(* A frame with the numbers and flags of a command, the right checksum and  *)
(* no bit besides is the frame of the command.                              *)
LEMMA OnlyFrame ==
    ASSUME NEW c \in Fresh, NEW r \in SUBSET ((2..22) \ {7, 18}), ChecksumOK(r),
           Number(r, 19) = Drive(c), Number(r, 8) + Weight(r, 11, 8) = Turn(c),
           22 \in r <=> c.direction = "Backward",
           12 \in r <=> c.rotation = "Right",
           15 \in r <=> c.turrelRotation = "Left",
           16 \in r <=> c.turrelRotation = "Right",
           17 \in r <=> c.fire, 14 \in r <=> c.canonElevation,
           6 \in r <=> c.gun, 13 \in r <=> c.recoil
    PROVE  CRC(Payload(c)) = r
<1> DEFINE f == CRC(Payload(c))
<1>1. \A b \in Int : b \notin 2..5 => (b \in f <=> Raises(c, b))
  BY FrameBits
<1>2. Number(f, 19) = Drive(c) /\ Number(f, 8) + Weight(f, 11, 8) = Turn(c)
  BY FrameNumbers
<1>3. ChecksumOK(f) /\ f \in SUBSET Int
  BY PayloadBits, CRCIsRight, CRCTypes
<1>4. \A b \in {6, 12, 13, 14, 15, 16, 17, 22} : b \in f <=> b \in r
  BY <1>1 DEF Raises
<1>5. 7 \notin f /\ 18 \notin f
  BY <1>1 DEF Raises
<1>6. ASSUME NEW b \in Int, ~(b \in 2..22) PROVE b \notin f
  BY <1>1, <1>6 DEF Raises
<1> HIDE DEF f
<1>7. /\ 19 \in f <=> 19 \in r
      /\ 20 \in f <=> 20 \in r
      /\ 21 \in f <=> 21 \in r
  <2>1. 19 + 1 = 20 /\ 19 + 2 = 21
    OBVIOUS
  <2> QED BY <1>2, <2>1 DEF Number, Weight
<1>8. /\ 8 \in f <=> 8 \in r
      /\ 9 \in f <=> 9 \in r
      /\ 10 \in f <=> 10 \in r
      /\ 11 \in f <=> 11 \in r
  <2>1. 8 + 1 = 9 /\ 8 + 2 = 10
    OBVIOUS
  <2> QED BY <1>2, <2>1 DEF Number, Weight
<1>9. \A b \in 6..22 : b \in f <=> b \in r
  BY <1>4, <1>5, <1>7, <1>8
<1>10. \A b \in Int : b \notin 2..5 => (b \in f <=> b \in r)
  BY <1>6, <1>9
<1>11. \A k \in 0..3 : CrcBit(f, k) <=> CrcBit(r, k)
  BY <1>10, SameChecksum
<1>12. \A k \in 0..3 : k + 2 \in f <=> k + 2 \in r
  BY <1>3, <1>11, ChecksumIsCrc
<1>13. \A b \in 2..5 : b \in f <=> b \in r
  <2>1. \A b \in 2..5 : b - 2 \in 0..3 /\ (b - 2) + 2 = b
    OBVIOUS
  <2> QED BY <1>12, <2>1
<1>14. \A b \in Int : b \in f <=> b \in r
  BY <1>10, <1>13
<1>15. r \in SUBSET Int
  OBVIOUS
<1>16. f = r
  BY <1>3, <1>14, <1>15
<1> QED BY <1>16 DEF f

LEMMA PureIsFresh ==
    /\ Pure \in Fresh
    /\ ~IsSpecial(Pure)
    /\ Pure.direction = "Backward" /\ Pure.dirspeed = 0
    /\ Pure.rotation = "None" /\ Pure.rotspeed = 0
    /\ Pure.turrelRotation = "None"
    /\ ~Pure.canonElevation /\ ~Pure.fire /\ ~Pure.gun /\ ~Pure.recoil
<1> DEFINE T == TRUE
           F == FALSE
           P == [idle |-> F, ignition |-> F, neutral |-> F,
                 direction |-> "Backward", dirspeed |-> 0,
                 rotation |-> "None", rotspeed |-> 0, turrelRotation |-> "None",
                 canonElevation |-> F, fire |-> F, gun |-> F,
                 recoil |-> F, engineStart |-> F, engineStop |-> F,
                 external |-> F, cmd |-> Unassigned]
<1>1. Pure = [P EXCEPT !.external = T]
  BY Zenon DEF Pure, Blank
<1>2. T \in BOOLEAN /\ F \in BOOLEAN /\ ~F
  OBVIOUS
<1> HIDE DEF T, F
<1>3. [P EXCEPT !.external = T] \in Fresh
  BY <1>2 DEF Fresh, Directions, Rotations
<1>4. /\ Pure.direction = "Backward" /\ Pure.dirspeed = 0
      /\ Pure.rotation = "None" /\ Pure.rotspeed = 0
      /\ Pure.turrelRotation = "None"
  BY <1>1
<1>5. /\ Pure.canonElevation = F /\ Pure.fire = F /\ Pure.gun = F
      /\ Pure.recoil = F /\ Pure.idle = F /\ Pure.ignition = F
      /\ Pure.neutral = F
  BY <1>1
<1> QED BY <1>1, <1>2, <1>3, <1>4, <1>5 DEF IsSpecial

LEMMA PureTurns ==
    ASSUME NEW rot \in {"Left", "Right"}, NEW speed \in 0..7,
           NEW r \in SUBSET ({2, 3, 4, 5, 8, 9, 10, 11, 12, 22}), ChecksumOK(r),
           22 \in r, 12 \in r <=> rot = "Right",
           Number(r, 8) + Weight(r, 11, 8)
              = IF rot = "Left" THEN 7 - speed ELSE speed + 7
    PROVE  GetCmd(SetRotation(Pure, rot, speed)) = r
<1> DEFINE c == SetRotation(Pure, rot, speed)
<1>1. Clamp(speed) = speed /\ speed % 8 = speed
  BY DEF Clamp
<1>2. c = [Pure EXCEPT !.rotation = rot, !.rotspeed = speed]
  BY <1>1 DEF SetRotation
<1> HIDE DEF c
<1>a. c \in Fresh
  <2>1. Pure \in Fresh /\ speed \in Int /\ rot \in Rotations
    BY PureIsFresh DEF Rotations
  <2>2. \E z \in Directions : TRUE
    BY DEF Directions
  <2> QED BY <2>1, <2>2, DrivesFresh DEF c
<1>b. Pure \in Fresh
  BY PureIsFresh
<1>c. /\ c.idle = Pure.idle /\ c.ignition = Pure.ignition /\ c.neutral = Pure.neutral
      /\ c.direction = Pure.direction /\ c.dirspeed = Pure.dirspeed
      /\ c.rotation = rot /\ c.rotspeed = speed
      /\ c.turrelRotation = Pure.turrelRotation
      /\ c.canonElevation = Pure.canonElevation /\ c.fire = Pure.fire
      /\ c.gun = Pure.gun /\ c.recoil = Pure.recoil
  BY <1>2, <1>b DEF Fresh
<1>3. /\ c \in Fresh /\ ~IsSpecial(c)
      /\ c.direction = "Backward" /\ c.dirspeed = 0
      /\ c.rotation = rot /\ c.rotspeed = speed
      /\ c.turrelRotation = "None"
      /\ ~c.canonElevation /\ ~c.fire /\ ~c.gun /\ ~c.recoil
  BY <1>a, <1>c, PureIsFresh, Zenon DEF IsSpecial
<1>4. Drive(c) = 0 /\ Turn(c) = IF rot = "Left" THEN 7 - speed ELSE speed + 7
  BY <1>1, <1>3 DEF Drive, Turn
<1>5. Number(r, 19) = 0
  BY DEF Number, Weight
<1>6. r \in SUBSET ((2..22) \ {7, 18})
      /\ 15 \notin r /\ 16 \notin r /\ 17 \notin r /\ 14 \notin r /\ 6 \notin r /\ 13 \notin r
  OBVIOUS
<1>7. CRC(Payload(c)) = r
  BY <1>3, <1>4, <1>5, <1>6, OnlyFrame
<1> QED BY <1>3, <1>7, FrameOf DEF c

LEMMA PureDrives ==
    ASSUME NEW dir \in {"Forward", "Backward"}, NEW speed \in 0..7,
           NEW r \in SUBSET ({2, 3, 4, 5, 8, 9, 10, 11, 19, 20, 21, 22}), ChecksumOK(r),
           8 \in r, 9 \in r, 10 \in r, 11 \in r,
           22 \in r <=> dir = "Backward",
           Number(r, 19) = IF dir = "Backward" THEN speed ELSE 7 - speed
    PROVE  GetCmd(SetDirection(Pure, dir, speed)) = r
<1> DEFINE c == SetDirection(Pure, dir, speed)
<1>1. Clamp(speed) = speed /\ speed % 8 = speed
  BY DEF Clamp
<1>2. c = [Pure EXCEPT !.direction = dir, !.dirspeed = speed]
  BY <1>1 DEF SetDirection
<1> HIDE DEF c
<1>a. c \in Fresh
  <2>1. Pure \in Fresh /\ speed \in Int /\ dir \in Directions
    BY PureIsFresh DEF Directions
  <2>2. \E z \in Rotations : TRUE
    BY DEF Rotations
  <2> QED BY <2>1, <2>2, DrivesFresh DEF c
<1>b. Pure \in Fresh
  BY PureIsFresh
<1>c. /\ c.idle = Pure.idle /\ c.ignition = Pure.ignition /\ c.neutral = Pure.neutral
      /\ c.direction = dir /\ c.dirspeed = speed
      /\ c.rotation = Pure.rotation /\ c.rotspeed = Pure.rotspeed
      /\ c.turrelRotation = Pure.turrelRotation
      /\ c.canonElevation = Pure.canonElevation /\ c.fire = Pure.fire
      /\ c.gun = Pure.gun /\ c.recoil = Pure.recoil
  BY <1>2, <1>b DEF Fresh
<1>3. /\ c \in Fresh /\ ~IsSpecial(c)
      /\ c.direction = dir /\ c.dirspeed = speed
      /\ c.rotation = "None" /\ c.rotspeed = 0
      /\ c.turrelRotation = "None"
      /\ ~c.canonElevation /\ ~c.fire /\ ~c.gun /\ ~c.recoil
  BY <1>a, <1>c, PureIsFresh, Zenon DEF IsSpecial
<1>4. Turn(c) = 15 /\ Drive(c) = IF dir = "Backward" THEN speed ELSE 7 - speed
  BY <1>1, <1>3, dir \in {"Forward", "Backward"} DEF Drive, Turn
<1>5. Number(r, 8) + Weight(r, 11, 8) = 15
  BY DEF Number, Weight
<1>6. r \in SUBSET ((2..22) \ {7, 18}) /\ 12 \notin r
      /\ 15 \notin r /\ 16 \notin r /\ 17 \notin r /\ 14 \notin r /\ 6 \notin r /\ 13 \notin r
  OBVIOUS
<1>7. CRC(Payload(c)) = r
  BY <1>3, <1>4, <1>5, <1>6, OnlyFrame
<1> QED BY <1>3, <1>7, FrameOf DEF c

LEMMA PureTurrets ==
    ASSUME NEW c \in Fresh, ~IsSpecial(c), c.direction = "Backward", c.dirspeed = 0,
           c.rotation = "None", ~c.fire, ~c.gun, ~c.recoil,
           NEW r \in SUBSET ({2, 3, 4, 5, 8, 9, 10, 11, 14, 15, 16, 22}), ChecksumOK(r),
           8 \in r, 9 \in r, 10 \in r, 11 \in r, 22 \in r,
           15 \in r <=> c.turrelRotation = "Left",
           16 \in r <=> c.turrelRotation = "Right",
           14 \in r <=> c.canonElevation
    PROVE  GetCmd(c) = r
<1>4. Turn(c) = 15 /\ Drive(c) = 0
  BY DEF Drive, Turn
<1>5. Number(r, 8) + Weight(r, 11, 8) = 15 /\ Number(r, 19) = 0
  BY DEF Number, Weight
<1>6. r \in SUBSET ((2..22) \ {7, 18}) /\ 12 \notin r
      /\ 17 \notin r /\ 6 \notin r /\ 13 \notin r
  OBVIOUS
<1>7. CRC(Payload(c)) = r
  BY <1>4, <1>5, <1>6, OnlyFrame
<1> QED BY <1>7, FrameOf

(* The checksum, column by column. *)
LEMMA FourColumns ==
    ASSUME NEW f,
           2 \in f <=> CrcBit(f, 0), 3 \in f <=> CrcBit(f, 1),
           4 \in f <=> CrcBit(f, 2), 5 \in f <=> CrcBit(f, 3)
    PROVE  ChecksumOK(f)
<1>1. \A k \in 0..3 : k = 0 \/ k = 1 \/ k = 2 \/ k = 3
  OBVIOUS
<1>2. \A k \in 0..3 : k + 2 \in f <=> CrcBit(f, k)
  BY <1>1
<1> QED BY <1>2, ChecksumIsCrc

(* The drive frames of the table,                                           *)
LEMMA TableDrives ==
    /\ GetCmd(SetDirection(Pure, "Forward", 3)) = {21, 11, 10, 9, 8, 5, 4, 2}
    /\ GetCmd(SetDirection(Pure, "Forward", 2)) = {21, 19, 11, 10, 9, 8, 4, 2}
    /\ GetCmd(SetDirection(Pure, "Forward", 7)) = {11, 10, 9, 8, 5, 4, 3, 2}
    /\ GetCmd(SetDirection(Pure, "Backward", 3)) = {22, 20, 19, 11, 10, 9, 8, 3}
    /\ GetCmd(SetDirection(Pure, "Backward", 2)) = {22, 20, 11, 10, 9, 8, 5, 3}
    /\ GetCmd(SetDirection(Pure, "Backward", 7)) = {22, 21, 20, 19, 11, 10, 9, 8}
<1> DEFINE r1 == {21, 11, 10, 9, 8, 5, 4, 2}
           r2 == {21, 19, 11, 10, 9, 8, 4, 2}
           r3 == {11, 10, 9, 8, 5, 4, 3, 2}
           r4 == {22, 20, 19, 11, 10, 9, 8, 3}
           r5 == {22, 20, 11, 10, 9, 8, 5, 3}
           r6 == {22, 21, 20, 19, 11, 10, 9, 8}
<1>1. GetCmd(SetDirection(Pure, "Forward", 3)) = r1
  <2>1. ChecksumOK(r1)
    BY FourColumns DEF CrcBit, Xor
  <2>2. /\ r1 \in SUBSET {2, 3, 4, 5, 8, 9, 10, 11, 19, 20, 21, 22} /\ 3 \in 0..7
        /\ 8 \in r1 /\ 9 \in r1 /\ 10 \in r1 /\ 11 \in r1 /\ 22 \notin r1
        /\ Number(r1, 19) = 4 /\ 7 - 3 = 4
    BY DEF Number, Weight
  <2> HIDE DEF r1
  <2> QED BY <2>1, <2>2, PureDrives
<1>2. GetCmd(SetDirection(Pure, "Forward", 2)) = r2
  <2>1. ChecksumOK(r2)
    BY FourColumns DEF CrcBit, Xor
  <2>2. /\ r2 \in SUBSET {2, 3, 4, 5, 8, 9, 10, 11, 19, 20, 21, 22} /\ 2 \in 0..7
        /\ 8 \in r2 /\ 9 \in r2 /\ 10 \in r2 /\ 11 \in r2 /\ 22 \notin r2
        /\ Number(r2, 19) = 5 /\ 7 - 2 = 5
    BY DEF Number, Weight
  <2> HIDE DEF r2
  <2> QED BY <2>1, <2>2, PureDrives
<1>3. GetCmd(SetDirection(Pure, "Forward", 7)) = r3
  <2>1. ChecksumOK(r3)
    BY FourColumns DEF CrcBit, Xor
  <2>2. /\ r3 \in SUBSET {2, 3, 4, 5, 8, 9, 10, 11, 19, 20, 21, 22} /\ 7 \in 0..7
        /\ 8 \in r3 /\ 9 \in r3 /\ 10 \in r3 /\ 11 \in r3 /\ 22 \notin r3
        /\ Number(r3, 19) = 0 /\ 7 - 7 = 0
    BY DEF Number, Weight
  <2> HIDE DEF r3
  <2> QED BY <2>1, <2>2, PureDrives
<1>4. GetCmd(SetDirection(Pure, "Backward", 3)) = r4
  <2>1. ChecksumOK(r4)
    BY FourColumns DEF CrcBit, Xor
  <2>2. /\ r4 \in SUBSET {2, 3, 4, 5, 8, 9, 10, 11, 19, 20, 21, 22} /\ 3 \in 0..7
        /\ 8 \in r4 /\ 9 \in r4 /\ 10 \in r4 /\ 11 \in r4 /\ 22 \in r4
        /\ Number(r4, 19) = 3 /\ 7 - 3 = 4
    BY DEF Number, Weight
  <2> HIDE DEF r4
  <2> QED BY <2>1, <2>2, PureDrives
<1>5. GetCmd(SetDirection(Pure, "Backward", 2)) = r5
  <2>1. ChecksumOK(r5)
    BY FourColumns DEF CrcBit, Xor
  <2>2. /\ r5 \in SUBSET {2, 3, 4, 5, 8, 9, 10, 11, 19, 20, 21, 22} /\ 2 \in 0..7
        /\ 8 \in r5 /\ 9 \in r5 /\ 10 \in r5 /\ 11 \in r5 /\ 22 \in r5
        /\ Number(r5, 19) = 2 /\ 7 - 2 = 5
    BY DEF Number, Weight
  <2> HIDE DEF r5
  <2> QED BY <2>1, <2>2, PureDrives
<1>6. GetCmd(SetDirection(Pure, "Backward", 7)) = r6
  <2>1. ChecksumOK(r6)
    BY FourColumns DEF CrcBit, Xor
  <2>2. /\ r6 \in SUBSET {2, 3, 4, 5, 8, 9, 10, 11, 19, 20, 21, 22} /\ 7 \in 0..7
        /\ 8 \in r6 /\ 9 \in r6 /\ 10 \in r6 /\ 11 \in r6 /\ 22 \in r6
        /\ Number(r6, 19) = 7 /\ 7 - 7 = 0
    BY DEF Number, Weight
  <2> HIDE DEF r6
  <2> QED BY <2>1, <2>2, PureDrives
<1> QED BY <1>1, <1>2, <1>3, <1>4, <1>5, <1>6

(* those that turn,                                                         *)
LEMMA TableTurns ==
    /\ GetCmd(SetRotation(Pure, "Left", 1)) = {22, 10, 9, 3}
    /\ GetCmd(SetRotation(Pure, "Left", 7)) = {22, 4}
    /\ GetCmd(SetRotation(Pure, "Right", 2)) = {22, 12, 11, 8, 5, 4}
    /\ GetCmd(SetRotation(Pure, "Right", 7)) = {22, 12, 11, 10, 9, 5, 3, 2}
<1> DEFINE r1 == {22, 10, 9, 3}
           r2 == {22, 4}
           r3 == {22, 12, 11, 8, 5, 4}
           r4 == {22, 12, 11, 10, 9, 5, 3, 2}
<1>1. GetCmd(SetRotation(Pure, "Left", 1)) = r1
  <2>1. ChecksumOK(r1)
    BY FourColumns DEF CrcBit, Xor
  <2>2. /\ r1 \in SUBSET {2, 3, 4, 5, 8, 9, 10, 11, 12, 22} /\ 1 \in 0..7
        /\ 22 \in r1 /\ 12 \notin r1
        /\ Number(r1, 8) + Weight(r1, 11, 8) = 6 /\ 7 - 1 = 6
    BY DEF Number, Weight
  <2> HIDE DEF r1
  <2> QED BY <2>1, <2>2, PureTurns
<1>2. GetCmd(SetRotation(Pure, "Left", 7)) = r2
  <2>1. ChecksumOK(r2)
    BY FourColumns DEF CrcBit, Xor
  <2>2. /\ r2 \in SUBSET {2, 3, 4, 5, 8, 9, 10, 11, 12, 22} /\ 7 \in 0..7
        /\ 22 \in r2 /\ 12 \notin r2
        /\ Number(r2, 8) + Weight(r2, 11, 8) = 0 /\ 7 - 7 = 0
    BY DEF Number, Weight
  <2> HIDE DEF r2
  <2> QED BY <2>1, <2>2, PureTurns
<1>3. GetCmd(SetRotation(Pure, "Right", 2)) = r3
  <2>1. ChecksumOK(r3)
    BY FourColumns DEF CrcBit, Xor
  <2>2. /\ r3 \in SUBSET {2, 3, 4, 5, 8, 9, 10, 11, 12, 22} /\ 2 \in 0..7
        /\ 22 \in r3 /\ 12 \in r3
        /\ Number(r3, 8) + Weight(r3, 11, 8) = 9 /\ 2 + 7 = 9
    BY DEF Number, Weight
  <2> HIDE DEF r3
  <2> QED BY <2>1, <2>2, PureTurns
<1>4. GetCmd(SetRotation(Pure, "Right", 7)) = r4
  <2>1. ChecksumOK(r4)
    BY FourColumns DEF CrcBit, Xor
  <2>2. /\ r4 \in SUBSET {2, 3, 4, 5, 8, 9, 10, 11, 12, 22} /\ 7 \in 0..7
        /\ 22 \in r4 /\ 12 \in r4
        /\ Number(r4, 8) + Weight(r4, 11, 8) = 14 /\ 7 + 7 = 14
    BY DEF Number, Weight
  <2> HIDE DEF r4
  <2> QED BY <2>1, <2>2, PureTurns
<1> QED BY <1>1, <1>2, <1>3, <1>4

(* and those of the turret.                                                 *)
LEMMA TableTurrets ==
    /\ GetCmd([Pure EXCEPT !.turrelRotation = "Left"])
          = {22, 15, 11, 10, 9, 8, 3, 2}
    /\ GetCmd([Pure EXCEPT !.turrelRotation = "Right"])
          = {22, 16, 11, 10, 9, 8, 5, 3}
    /\ GetCmd([Pure EXCEPT !.canonElevation = TRUE])
          = {22, 14, 11, 10, 9, 8, 5, 4, 3, 2}
<1> DEFINE T == TRUE
           c1 == [Pure EXCEPT !.turrelRotation = "Left"]
           c2 == [Pure EXCEPT !.turrelRotation = "Right"]
           c3 == [Pure EXCEPT !.canonElevation = T]
           r1 == {22, 15, 11, 10, 9, 8, 3, 2}
           r2 == {22, 16, 11, 10, 9, 8, 5, 3}
           r3 == {22, 14, 11, 10, 9, 8, 5, 4, 3, 2}
<1>0. /\ T \in BOOLEAN /\ T
      /\ Pure \in Fresh
  BY PureIsFresh
<1> HIDE DEF T
<1>1. c1 \in Fresh /\ c2 \in Fresh /\ c3 \in Fresh
  <2>1. c1 \in Fresh
    BY <1>0 DEF Fresh, Rotations
  <2>2. c2 \in Fresh
    BY <1>0 DEF Fresh, Rotations
  <2>3. c3 \in Fresh
    BY <1>0, FlagsFresh
  <2> QED BY <2>1, <2>2, <2>3
<1>2. \A c \in {c1, c2, c3} :
        /\ c.idle = Pure.idle /\ c.ignition = Pure.ignition /\ c.neutral = Pure.neutral
        /\ c.direction = Pure.direction /\ c.dirspeed = Pure.dirspeed
        /\ c.rotation = Pure.rotation
        /\ c.fire = Pure.fire /\ c.gun = Pure.gun /\ c.recoil = Pure.recoil
  BY <1>0 DEF Fresh
<1>3. /\ c1.turrelRotation = "Left" /\ c1.canonElevation = Pure.canonElevation
      /\ c2.turrelRotation = "Right" /\ c2.canonElevation = Pure.canonElevation
      /\ c3.turrelRotation = Pure.turrelRotation /\ c3.canonElevation = T
  BY <1>0 DEF Fresh
<1> HIDE DEF c1, c2, c3
<1>4. \A c \in {c1, c2, c3} :
        /\ c \in Fresh /\ ~IsSpecial(c) /\ c.direction = "Backward" /\ c.dirspeed = 0
        /\ c.rotation = "None" /\ ~c.fire /\ ~c.gun /\ ~c.recoil
  <2> SUFFICES ASSUME NEW c \in {c1, c2, c3}
               PROVE  /\ c \in Fresh /\ ~IsSpecial(c) /\ c.direction = "Backward"
                      /\ c.dirspeed = 0
                      /\ c.rotation = "None" /\ ~c.fire /\ ~c.gun /\ ~c.recoil
    OBVIOUS
  <2>1. c \in Fresh
    BY <1>1
  <2> QED BY <1>2, <2>1, PureIsFresh, Zenon DEF IsSpecial
<1>5. /\ ~c1.canonElevation /\ ~c2.canonElevation /\ c3.canonElevation
      /\ c1.turrelRotation = "Left" /\ c2.turrelRotation = "Right"
      /\ c3.turrelRotation = "None"
  BY <1>0, <1>3, PureIsFresh, Zenon
<1>6. ChecksumOK(r1) /\ ChecksumOK(r2) /\ ChecksumOK(r3)
  BY FourColumns DEF CrcBit, Xor
<1>7. \A r \in {r1, r2, r3} :
        /\ r \in SUBSET {2, 3, 4, 5, 8, 9, 10, 11, 14, 15, 16, 22}
        /\ 8 \in r /\ 9 \in r /\ 10 \in r /\ 11 \in r /\ 22 \in r
  OBVIOUS
<1>8. /\ 15 \in r1 /\ 16 \notin r1 /\ 14 \notin r1
      /\ 15 \notin r2 /\ 16 \in r2 /\ 14 \notin r2
      /\ 15 \notin r3 /\ 16 \notin r3 /\ 14 \in r3
  OBVIOUS
<1> HIDE DEF r1, r2, r3
<1>9. GetCmd(c1) = r1
  BY <1>4, <1>5, <1>6, <1>7, <1>8, PureTurrets
<1>10. GetCmd(c2) = r2
  BY <1>4, <1>5, <1>6, <1>7, <1>8, PureTurrets
<1>11. GetCmd(c3) = r3
  BY <1>4, <1>5, <1>6, <1>7, <1>8, PureTurrets
<1> QED BY <1>9, <1>10, <1>11, Zenon DEF c1, c2, c3, r1, r2, r3, T

(* The speeds that the decoder reads off a frame.                           *)
LEMMA SpeedsReadOff ==
    ASSUME NEW w, NEW n \in Int, NEW t \in Int,
           Number(w, 19) = n, Number(w, 8) + Weight(w, 11, 8) = t
    PROVE  /\ 22 \in w => Decode(w).drive[2] = n
           /\ 22 \notin w => Decode(w).drive[2] = 7 - n
           /\ 12 \in w => Decode(w).turn[2] = t - 7
           /\ 12 \notin w /\ t # 15 => Decode(w).turn[2] = 7 - t
<1> DEFINE d == IF 22 \in w THEN <<"Backward", n>> ELSE <<"Forward", 7 - n>>
           u == IF 12 \in w THEN <<"Right", t - 7>>
                ELSE IF t = 15 THEN <<"None", 0>> ELSE <<"Left", 7 - t>>
           v == <<15 \in w, 16 \in w>>
           x == <<17 \in w, 14 \in w, 6 \in w, 13 \in w>>
<1>1. Decode(w) = [drive |-> d, turn |-> u, turret |-> v, weapon |-> x]
  BY Zenon DEF Decode
<1>2. /\ 22 \in w => d[2] = n
      /\ 22 \notin w => d[2] = 7 - n
      /\ 12 \in w => u[2] = t - 7
      /\ 12 \notin w /\ t # 15 => u[2] = 7 - t
  OBVIOUS
<1> HIDE DEF d, u, v, x
<1>3. Decode(w).drive = d /\ Decode(w).turn = u
  BY <1>1
<1> QED BY <1>2, <1>3

(* The table in full, with those speeds.                                    *)
LEMMA TableSpeeds ==
    /\ Decode({22, 10, 9, 3}).turn[2] = 1
    /\ Decode({22, 4}).turn[2] = 7
    /\ Decode({22, 12, 11, 8, 5, 4}).turn[2] = 2
    /\ Decode({22, 12, 11, 10, 9, 5, 3, 2}).turn[2] = 7
    /\ Decode({21, 11, 10, 9, 8, 5, 4, 2}).drive[2] = 3
    /\ Decode({21, 19, 11, 10, 9, 8, 4, 2}).drive[2] = 2
    /\ Decode({11, 10, 9, 8, 5, 4, 3, 2}).drive[2] = 7
    /\ Decode({22, 20, 19, 11, 10, 9, 8, 3}).drive[2] = 3
    /\ Decode({22, 20, 11, 10, 9, 8, 5, 3}).drive[2] = 2
    /\ Decode({22, 21, 20, 19, 11, 10, 9, 8}).drive[2] = 7
<1>1. Decode({22, 10, 9, 3}).turn[2] = 1
  <2> DEFINE r == {22, 10, 9, 3}
  <2>1. Number(r, 19) = 0 /\ Number(r, 8) + Weight(r, 11, 8) = 6 /\ 12 \notin r
    BY DEF Number, Weight
  <2> HIDE DEF r
  <2>2. Decode(r).turn[2] = 1
    BY <2>1, SpeedsReadOff
  <2> QED BY <2>2 DEF r
<1>2. Decode({22, 4}).turn[2] = 7
  <2> DEFINE r == {22, 4}
  <2>1. Number(r, 19) = 0 /\ Number(r, 8) + Weight(r, 11, 8) = 0 /\ 12 \notin r
    BY DEF Number, Weight
  <2> HIDE DEF r
  <2>2. Decode(r).turn[2] = 7
    BY <2>1, SpeedsReadOff
  <2> QED BY <2>2 DEF r
<1>3. Decode({22, 12, 11, 8, 5, 4}).turn[2] = 2
  <2> DEFINE r == {22, 12, 11, 8, 5, 4}
  <2>1. Number(r, 19) = 0 /\ Number(r, 8) + Weight(r, 11, 8) = 9 /\ 12 \in r
    BY DEF Number, Weight
  <2> HIDE DEF r
  <2>2. Decode(r).turn[2] = 2
    BY <2>1, SpeedsReadOff
  <2> QED BY <2>2 DEF r
<1>4. Decode({22, 12, 11, 10, 9, 5, 3, 2}).turn[2] = 7
  <2> DEFINE r == {22, 12, 11, 10, 9, 5, 3, 2}
  <2>1. Number(r, 19) = 0 /\ Number(r, 8) + Weight(r, 11, 8) = 14 /\ 12 \in r
    BY DEF Number, Weight
  <2> HIDE DEF r
  <2>2. Decode(r).turn[2] = 7
    BY <2>1, SpeedsReadOff
  <2> QED BY <2>2 DEF r
<1>5. Decode({21, 11, 10, 9, 8, 5, 4, 2}).drive[2] = 3
  <2> DEFINE r == {21, 11, 10, 9, 8, 5, 4, 2}
  <2>1. Number(r, 19) = 4 /\ Number(r, 8) + Weight(r, 11, 8) = 15 /\ 22 \notin r
    BY DEF Number, Weight
  <2> HIDE DEF r
  <2>2. Decode(r).drive[2] = 3
    BY <2>1, SpeedsReadOff
  <2> QED BY <2>2 DEF r
<1>6. Decode({21, 19, 11, 10, 9, 8, 4, 2}).drive[2] = 2
  <2> DEFINE r == {21, 19, 11, 10, 9, 8, 4, 2}
  <2>1. Number(r, 19) = 5 /\ Number(r, 8) + Weight(r, 11, 8) = 15 /\ 22 \notin r
    BY DEF Number, Weight
  <2> HIDE DEF r
  <2>2. Decode(r).drive[2] = 2
    BY <2>1, SpeedsReadOff
  <2> QED BY <2>2 DEF r
<1>7. Decode({11, 10, 9, 8, 5, 4, 3, 2}).drive[2] = 7
  <2> DEFINE r == {11, 10, 9, 8, 5, 4, 3, 2}
  <2>1. Number(r, 19) = 0 /\ Number(r, 8) + Weight(r, 11, 8) = 15 /\ 22 \notin r
    BY DEF Number, Weight
  <2> HIDE DEF r
  <2>2. Decode(r).drive[2] = 7
    BY <2>1, SpeedsReadOff
  <2> QED BY <2>2 DEF r
<1>8. Decode({22, 20, 19, 11, 10, 9, 8, 3}).drive[2] = 3
  <2> DEFINE r == {22, 20, 19, 11, 10, 9, 8, 3}
  <2>1. Number(r, 19) = 3 /\ Number(r, 8) + Weight(r, 11, 8) = 15 /\ 22 \in r
    BY DEF Number, Weight
  <2> HIDE DEF r
  <2>2. Decode(r).drive[2] = 3
    BY <2>1, SpeedsReadOff
  <2> QED BY <2>2 DEF r
<1>9. Decode({22, 20, 11, 10, 9, 8, 5, 3}).drive[2] = 2
  <2> DEFINE r == {22, 20, 11, 10, 9, 8, 5, 3}
  <2>1. Number(r, 19) = 2 /\ Number(r, 8) + Weight(r, 11, 8) = 15 /\ 22 \in r
    BY DEF Number, Weight
  <2> HIDE DEF r
  <2>2. Decode(r).drive[2] = 2
    BY <2>1, SpeedsReadOff
  <2> QED BY <2>2 DEF r
<1>10. Decode({22, 21, 20, 19, 11, 10, 9, 8}).drive[2] = 7
  <2> DEFINE r == {22, 21, 20, 19, 11, 10, 9, 8}
  <2>1. Number(r, 19) = 7 /\ Number(r, 8) + Weight(r, 11, 8) = 15 /\ 22 \in r
    BY DEF Number, Weight
  <2> HIDE DEF r
  <2>2. Decode(r).drive[2] = 7
    BY <2>1, SpeedsReadOff
  <2> QED BY <2>2 DEF r
<1> QED BY <1>1, <1>2, <1>3, <1>4, <1>5, <1>6, <1>7, <1>8, <1>9, <1>10, Zenon

(* The rows of the engine.                                                  *)
LEMMA EngineRowsAreSent ==
    /\ GetCmd(InitCommand("idle")) = IdleCmd
    /\ GetCmd(InitCommand("ignition")) = IgnitionCmd
    /\ GetCmd(InitCommand("neutral")) = NeutralCmd
<1> DEFINE T == TRUE
           F == FALSE
           B == Blank
           c1 == [B EXCEPT !.idle = T]
           c2 == [B EXCEPT !.ignition = T]
           c3 == [B EXCEPT !.neutral = T]
<1>0. /\ T \in BOOLEAN /\ B \in Fresh
      /\ B.idle = F /\ B.ignition = F /\ B.neutral = F
  BY BlankIsFresh DEF Blank
<1>1. /\ InitCommand("idle") = c1 /\ InitCommand("ignition") = c2
      /\ InitCommand("neutral") = c3
  BY Zenon DEF InitCommand
<1>t. T /\ ~F
  OBVIOUS
<1> HIDE DEF T, F, B
<1>2. /\ c1.idle = T
      /\ c2.idle = F /\ c2.ignition = T
      /\ c3.idle = F /\ c3.ignition = F /\ c3.neutral = T
      /\ c1.cmd = Unassigned /\ c2.cmd = Unassigned /\ c3.cmd = Unassigned
  BY <1>0 DEF Fresh
<1> HIDE DEF c1, c2, c3
<1>3. GetCmd(c1) = IdleCmd /\ GetCmd(c2) = IgnitionCmd /\ GetCmd(c3) = NeutralCmd
  BY <1>2, <1>t, Zenon DEF GetCmd
<1> QED BY <1>1, <1>3

(* The rows that turn and drive, one by one.                                *)
LEMMA RowsAre ==
    /\ \A t \in TurnRows :
          \/ t.way = "Left" /\ t.slow = {22, 10, 9, 3} /\ t.fast = {22, 4}
          \/ /\ t.way = "Right" /\ t.slow = {22, 12, 11, 8, 5, 4}
             /\ t.fast = {22, 12, 11, 10, 9, 5, 3, 2}
    /\ \A d \in DriveRows :
          \/ /\ d.way = "Forward" /\ d.slow = {21, 11, 10, 9, 8, 5, 4, 2}
             /\ d.fast = {11, 10, 9, 8, 5, 4, 3, 2}
          \/ /\ d.way = "Forward" /\ d.slow = {21, 19, 11, 10, 9, 8, 4, 2}
             /\ d.fast = {11, 10, 9, 8, 5, 4, 3, 2}
          \/ /\ d.way = "Backward" /\ d.slow = {22, 20, 19, 11, 10, 9, 8, 3}
             /\ d.fast = {22, 21, 20, 19, 11, 10, 9, 8}
          \/ /\ d.way = "Backward" /\ d.slow = {22, 20, 11, 10, 9, 8, 5, 3}
             /\ d.fast = {22, 21, 20, 19, 11, 10, 9, 8}
<1> DEFINE a1 == {22, 10, 9, 3}
           a2 == {22, 4}
           a3 == {22, 12, 11, 8, 5, 4}
           a4 == {22, 12, 11, 10, 9, 5, 3, 2}
           b1 == {21, 11, 10, 9, 8, 5, 4, 2}
           b2 == {21, 19, 11, 10, 9, 8, 4, 2}
           b3 == {11, 10, 9, 8, 5, 4, 3, 2}
           b4 == {22, 20, 19, 11, 10, 9, 8, 3}
           b5 == {22, 20, 11, 10, 9, 8, 5, 3}
           b6 == {22, 21, 20, 19, 11, 10, 9, 8}
<1>1. TurnRows = {Row("Left", a1, a2), Row("Right", a3, a4)}
  BY Zenon DEF TurnRows
<1>2. DriveRows = {Row("Forward", b1, b3), Row("Forward", b2, b3),
                   Row("Backward", b4, b6), Row("Backward", b5, b6)}
  BY Zenon DEF DriveRows
<1> HIDE DEF a1, a2, a3, a4, b1, b2, b3, b4, b5, b6
<1>3. \A t \in TurnRows : \/ t.way = "Left" /\ t.slow = a1 /\ t.fast = a2
                          \/ t.way = "Right" /\ t.slow = a3 /\ t.fast = a4
  BY <1>1 DEF Row
<1>4. \A d \in DriveRows : \/ d.way = "Forward" /\ d.slow = b1 /\ d.fast = b3
                           \/ d.way = "Forward" /\ d.slow = b2 /\ d.fast = b3
                           \/ d.way = "Backward" /\ d.slow = b4 /\ d.fast = b6
                           \/ d.way = "Backward" /\ d.slow = b5 /\ d.fast = b6
  BY <1>2 DEF Row
<1> QED BY <1>3, <1>4, Zenon DEF a1, a2, a3, a4, b1, b2, b3, b4, b5, b6

(* The frames of the rows that the encoder agrees with.                     *)
LEMMA KnownFramesAreSent == \A row \in KnownFrames : GetCmd(row[1]) = row[2]
<1> DEFINE a1 == {22, 10, 9, 3}
           a2 == {22, 4}
           a3 == {22, 12, 11, 8, 5, 4}
           a4 == {22, 12, 11, 10, 9, 5, 3, 2}
           b1 == {21, 11, 10, 9, 8, 5, 4, 2}
           b2 == {21, 19, 11, 10, 9, 8, 4, 2}
           b3 == {11, 10, 9, 8, 5, 4, 3, 2}
           b4 == {22, 20, 19, 11, 10, 9, 8, 3}
           b5 == {22, 20, 11, 10, 9, 8, 5, 3}
           b6 == {22, 21, 20, 19, 11, 10, 9, 8}
           Sent(c, w) == GetCmd(c) = w
<1>1. /\ Sent(TurnsAs("Left", a1), a1) /\ Sent(TurnsAs("Left", a2), a2)
      /\ Sent(TurnsAs("Right", a3), a3) /\ Sent(TurnsAs("Right", a4), a4)
  BY TableTurns, TableSpeeds, Zenon DEF TurnsAs
<1>2. /\ Sent(DrivesAs("Forward", b1), b1) /\ Sent(DrivesAs("Forward", b2), b2)
      /\ Sent(DrivesAs("Forward", b3), b3) /\ Sent(DrivesAs("Backward", b4), b4)
      /\ Sent(DrivesAs("Backward", b5), b5) /\ Sent(DrivesAs("Backward", b6), b6)
  BY TableDrives, TableSpeeds, Zenon DEF DrivesAs
<1>3. /\ \A t \in TurnRows : \/ t.way = "Left" /\ t.slow = a1 /\ t.fast = a2
                             \/ t.way = "Right" /\ t.slow = a3 /\ t.fast = a4
      /\ \A d \in DriveRows : \/ d.way = "Forward" /\ d.slow = b1 /\ d.fast = b3
                              \/ d.way = "Forward" /\ d.slow = b2 /\ d.fast = b3
                              \/ d.way = "Backward" /\ d.slow = b4 /\ d.fast = b6
                              \/ d.way = "Backward" /\ d.slow = b5 /\ d.fast = b6
  BY RowsAre, Zenon
<1> HIDE DEF a1, a2, a3, a4, b1, b2, b3, b4, b5, b6
<1>4. \A t \in TurnRows : Sent(TurnsAs(t.way, t.slow), t.slow)
                         /\ Sent(TurnsAs(t.way, t.fast), t.fast)
  BY <1>1, <1>3, Zenon
<1>5. \A d \in DriveRows : Sent(DrivesAs(d.way, d.slow), d.slow)
                          /\ Sent(DrivesAs(d.way, d.fast), d.fast)
  BY <1>2, <1>3, Zenon
<1>6. /\ Sent([Pure EXCEPT !.turrelRotation = "Left"], {22, 15, 11, 10, 9, 8, 3, 2})
      /\ Sent([Pure EXCEPT !.turrelRotation = "Right"], {22, 16, 11, 10, 9, 8, 5, 3})
      /\ Sent([Pure EXCEPT !.canonElevation = TRUE], {22, 14, 11, 10, 9, 8, 5, 4, 3, 2})
  BY TableTurrets, Zenon
<1>7. /\ Sent(InitCommand("idle"), IdleCmd) /\ Sent(InitCommand("ignition"), IgnitionCmd)
      /\ Sent(InitCommand("neutral"), NeutralCmd)
  BY EngineRowsAreSent
<1> DEFINE e1 == [Pure EXCEPT !.turrelRotation = "Left"]
           e2 == [Pure EXCEPT !.turrelRotation = "Right"]
           e3 == [Pure EXCEPT !.canonElevation = TRUE]
           r1 == {22, 15, 11, 10, 9, 8, 3, 2}
           r2 == {22, 16, 11, 10, 9, 8, 5, 3}
           r3 == {22, 14, 11, 10, 9, 8, 5, 4, 3, 2}
           k1 == InitCommand("idle")
           k2 == InitCommand("ignition")
           k3 == InitCommand("neutral")
<1>8. KnownFrames =
        {<<TurnsAs(t.way, t.slow), t.slow>> : t \in TurnRows}
        \cup {<<TurnsAs(t.way, t.fast), t.fast>> : t \in TurnRows}
        \cup {<<DrivesAs(d.way, d.slow), d.slow>> : d \in DriveRows}
        \cup {<<DrivesAs(d.way, d.fast), d.fast>> : d \in DriveRows}
        \cup {<<e1, r1>>, <<e2, r2>>, <<e3, r3>>,
              <<k1, IdleCmd>>, <<k2, IgnitionCmd>>, <<k3, NeutralCmd>>}
  BY Zenon DEF KnownFrames, IdleCmd, IgnitionCmd, NeutralCmd
<1> HIDE DEF e1, e2, e3, r1, r2, r3, k1, k2, k3
<1>9. /\ Sent(e1, r1) /\ Sent(e2, r2) /\ Sent(e3, r3)
      /\ Sent(k1, IdleCmd) /\ Sent(k2, IgnitionCmd) /\ Sent(k3, NeutralCmd)
  BY <1>6, <1>7, Zenon DEF e1, e2, e3, r1, r2, r3, k1, k2, k3
<1> QED BY <1>4, <1>5, <1>8, <1>9

(* The disputed rows: no combination of parts makes the frame of the        *)
(* tables' fire or machine gun or the second neutral, and only fire makes   *)
(* what they call recoil.                                                   *)
LEMMA DisputedRows ==
    ASSUME NEW b \in Fresh
    PROVE  /\ GetCmd(b) \notin {FireRow, GunRow, NeutralRow}
           /\ GetCmd(b) = RecoilRow => b.fire
<1> DEFINE f == GetCmd(b)
<1>1. /\ 18 \in FireRow /\ 18 \in GunRow /\ 22 \in FireRow /\ 22 \in GunRow
      /\ 12 \notin NeutralRow /\ 18 \notin NeutralRow /\ 17 \in RecoilRow
  BY DEF FireRow, GunRow, NeutralRow, RecoilRow
<1>2. /\ 18 \notin IdleCmd /\ 18 \notin IgnitionCmd /\ 22 \notin NeutralCmd
      /\ 12 \in IdleCmd /\ 12 \in IgnitionCmd /\ 18 \in NeutralCmd
      /\ 17 \notin IdleCmd /\ 17 \notin IgnitionCmd /\ 17 \notin NeutralCmd
  BY DEF IdleCmd, IgnitionCmd, NeutralCmd
<1>3. CASE IsSpecial(b)
  BY <1>1, <1>2, <1>3, FrameOf
<1>4. CASE ~IsSpecial(b)
  <2>1. f = CRC(Payload(b))
    BY <1>4, FrameOf
  <2>2. 18 \notin f /\ (17 \in f => b.fire)
    BY <2>1, FrameBits DEF Raises
  <2>3. ChecksumOK(f)
    BY <2>1, PayloadBits, CRCIsRight
  <2>4. ~ChecksumOK(NeutralRow)
    <3>1. CrcBit(NeutralRow, 2) /\ 2 + 2 \notin NeutralRow
      BY DEF CrcBit, Xor, NeutralRow
    <3>2. 2 \in 0..3
      OBVIOUS
    <3> QED BY <3>1, <3>2, ChecksumIsCrc
  <2> QED BY <1>1, <2>2, <2>3, <2>4
<1> QED BY <1>3, <1>4

(* Every row of the older programs' tables is what GetCmd and CRC make of   *)
(* the command that its frame is read as, bit for bit, or is one of the     *)
(* four that no such command is sent as.                                    *)
THEOREM TableIsFollowed == Spec => []AgreesWithTable
<1>1. TableInOrder
  <2>3. ASSUME NEW t \in TurnRows
        PROVE  \/ Decode(t.slow).turn[2] = 1 /\ Decode(t.fast).turn[2] = 7
               \/ Decode(t.slow).turn[2] = 2 /\ Decode(t.fast).turn[2] = 7
    BY RowsAre, TableSpeeds, Zenon
  <2>4. ASSUME NEW d \in DriveRows
        PROVE  \/ Decode(d.slow).drive[2] = 3 /\ Decode(d.fast).drive[2] = 7
               \/ Decode(d.slow).drive[2] = 2 /\ Decode(d.fast).drive[2] = 7
    BY RowsAre, TableSpeeds, Zenon
  <2>5. \A t \in TurnRows : Decode(t.slow).turn[2] < Decode(t.fast).turn[2]
    BY <2>3
  <2>6. \A d \in DriveRows : Decode(d.slow).drive[2] < Decode(d.fast).drive[2]
    BY <2>4
  <2> QED BY <2>5, <2>6 DEF TableInOrder
<1>2. CommandInv => AgreesWithTable
  <2> SUFFICES ASSUME NEW b \in Fresh, BuiltAs(b), NEW f \in frames
               PROVE  /\ Bare(command) \in KnownCommands => <<Bare(command), f>> \in KnownFrames
                      /\ f \notin {FireRow, GunRow, NeutralRow}
                      /\ f = RecoilRow => command.fire
    BY <1>1 DEF CommandInv, AgreesWithTable
  <2>1. f = GetCmd(b)
    BY DEF BuiltAs
  <2>2. Bare(command) = b /\ command.fire = b.fire
    BY SameButCmd DEF Bare
  <2>3. ASSUME b \in KnownCommands PROVE <<b, f>> \in KnownFrames
    <3>1. PICK row \in KnownFrames : b = row[1]
      BY <2>3, Zenon DEF KnownCommands
    <3>2. row[2] = f
      BY <2>1, <3>1, KnownFramesAreSent
    <3>3. row = <<row[1], row[2]>>
      BY <3>1 DEF KnownFrames
    <3> QED BY <3>1, <3>2, <3>3
  <2> QED BY <2>1, <2>2, <2>3, DisputedRows
<1> QED BY <1>2, CommandInit, CommandStep, PTL DEF Spec

-----------------------------------------------------------------------------
(* STICKS: how far a push goes.                                             *)

LEMMA PixelsAre ==
    /\ S!Pixels(15) = 9 /\ S!Pixels(20) = 12 /\ S!Pixels(35) = 21
    /\ S!Pixels(50) = 30 /\ S!Pixels(80) = 48
BY DEF S!Pixels

(* What is above a percentage is at least it, and on that side.             *)
LEMMA AboveIsAtLeast ==
    ASSUME NEW p \in Int \X Int, NEW c \in Int, NEW k \in {15, 20, 35, 50, 80}
    PROVE  /\ S!Above(p, c, k) => S!AtLeast(p, c, k)
           /\ S!AtLeast(p, c, k) => c > 0
<1> DEFINE n == S!Pixels(k)
           a == 3600 * c * c
           b == n * n * S!Square(p)
<1>1. n \in Nat /\ n > 0
  BY PixelsAre
<1>2. S!Square(p) \in Int
  BY DEF S!Square
<1> HIDE DEF n
<1>3. a \in Int /\ b \in Int
  BY <1>1, <1>2
<1> HIDE DEF a, b
<1>4. /\ S!Above(p, c, k) <=> IF S!AtLimit(p) THEN c > 0 /\ a > b ELSE c > n
      /\ S!AtLeast(p, c, k) <=> IF S!AtLimit(p) THEN c > 0 /\ a >= b ELSE c >= n
  BY DEF S!Above, S!AtLeast, a, b, n
<1> QED BY <1>1, <1>3, <1>4

(* Only the length of the push counts.                                      *)
LEMMA MirrorIsAsFar ==
    ASSUME NEW x \in Int, NEW y \in Int
    PROVE  /\ \A c, k : /\ S!Above(<<-x, y>>, c, k) <=> S!Above(<<x, y>>, c, k)
                        /\ S!AtLeast(<<-x, y>>, c, k) <=> S!AtLeast(<<x, y>>, c, k)
           /\ \A c, k, l : S!Between(<<-x, y>>, c, k, l) <=> S!Between(<<x, y>>, c, k, l)
<1>1. S!Square(<<-x, y>>) = S!Square(<<x, y>>)
  BY DEF S!Square
<1>2. S!AtLimit(<<-x, y>>) <=> S!AtLimit(<<x, y>>)
  BY <1>1 DEF S!AtLimit
<1>3. ASSUME NEW c, NEW k
      PROVE  /\ S!Above(<<-x, y>>, c, k) <=> S!Above(<<x, y>>, c, k)
             /\ S!AtLeast(<<-x, y>>, c, k) <=> S!AtLeast(<<x, y>>, c, k)
  <2> DEFINE n == S!Pixels(k) * S!Pixels(k)
             above(s) == 3600 * c * c > n * s
             least(s) == 3600 * c * c >= n * s
  <2>1. \A p : /\ S!Above(p, c, k) <=> IF S!AtLimit(p) THEN c > 0 /\ above(S!Square(p))
                                                       ELSE c > S!Pixels(k)
               /\ S!AtLeast(p, c, k) <=> IF S!AtLimit(p) THEN c > 0 /\ least(S!Square(p))
                                                         ELSE c >= S!Pixels(k)
    BY Zenon DEF S!Above, S!AtLeast
  <2> HIDE DEF above, least
  <2> QED BY <1>1, <1>2, <2>1
<1> QED BY <1>3 DEF S!Between

-----------------------------------------------------------------------------
(* What the thresholds make of a push.                                      *)

(* The sideways commands.                                                   *)
LEMMA TurnsAre ==
    ASSUME NEW p \in Int \X Int
    PROVE  \/ /\ S!Turns(p) = <<>>
              /\ ~S!Between(p, p[1], 15, 50) /\ ~S!Between(p, p[1], 50, 80)
              /\ ~S!Between(p, -p[1], 15, 50) /\ ~S!Between(p, -p[1], 50, 80)
           \/ /\ S!Turns(p) = S!Turn(2, 1)
              /\ p[1] > 0 /\ S!Between(p, p[1], 15, 50)
           \/ /\ S!Turns(p) = S!Turn(2, 2)
              /\ p[1] > 0 /\ S!Between(p, p[1], 50, 80)
           \/ /\ S!Turns(p) = S!Turn(1, IF S!Above(p, -p[1], 20) THEN 1 ELSE 0)
              /\ p[1] < 0 /\ S!Between(p, -p[1], 15, 50)
           \/ /\ S!Turns(p) = S!Turn(1, 2)
              /\ p[1] < 0 /\ S!Between(p, -p[1], 50, 80)
<1> DEFINE A == S!Between(p, p[1], 15, 50)
           B == S!Between(p, p[1], 50, 80)
           D == S!Between(p, -p[1], 15, 50)
           E == S!Between(p, -p[1], 50, 80)
           slow == S!Turn(1, IF S!Above(p, -p[1], 20) THEN 1 ELSE 0)
<1>1. p[1] \in Int /\ -p[1] \in Int
  OBVIOUS
<1>2. /\ A => p[1] > 0 /\ ~B
      /\ B => p[1] > 0
      /\ D => -p[1] > 0 /\ ~E
      /\ E => -p[1] > 0
  BY <1>1, AboveIsAtLeast DEF S!Between
<1>3. S!Turns(p) = CASE A -> S!Turn(2, 1) [] B -> S!Turn(2, 2) [] D -> slow
                     [] E -> S!Turn(1, 2) [] OTHER -> <<>>
  BY Zenon DEF S!Turns
<1>4. ~(A /\ D) /\ ~(A /\ E) /\ ~(B /\ D) /\ ~(B /\ E)
  BY <1>1, <1>2
<1> HIDE DEF A, B, D, E, slow
<1>5. /\ A => S!Turns(p) = S!Turn(2, 1)
      /\ B => S!Turns(p) = S!Turn(2, 2)
      /\ D => S!Turns(p) = slow
      /\ E => S!Turns(p) = S!Turn(1, 2)
      /\ ~A /\ ~B /\ ~D /\ ~E => S!Turns(p) = <<>>
  BY <1>2, <1>3, <1>4, Zenon
<1>6. -p[1] > 0 => p[1] < 0
  BY <1>1
<1> QED BY <1>2, <1>5, <1>6, Zenon DEF A, B, D, E, slow

(* The commands along the tank.                                             *)
LEMMA DrivesAre ==
    ASSUME NEW p \in Int \X Int
    PROVE  \/ /\ S!Drives(p) = <<>>
              /\ ~S!Between(p, -p[2], 15, 35) /\ ~S!Above(p, -p[2], 35)
              /\ ~S!Between(p, p[2], 15, 35) /\ ~S!Above(p, p[2], 35)
           \/ S!Drives(p) = S!Go(0, 2) /\ p[2] < 0 /\ S!Between(p, -p[2], 15, 35)
           \/ S!Drives(p) = S!Go(0, 3) /\ p[2] < 0 /\ S!Above(p, -p[2], 35)
           \/ S!Drives(p) = S!Go(1, 2) /\ p[2] > 0 /\ S!Between(p, p[2], 15, 35)
           \/ S!Drives(p) = S!Go(1, 3) /\ p[2] > 0 /\ S!Above(p, p[2], 35)
<1> DEFINE A == S!Between(p, -p[2], 15, 35)
           B == S!Above(p, -p[2], 35)
           D == S!Between(p, p[2], 15, 35)
           E == S!Above(p, p[2], 35)
<1>1. p[2] \in Int /\ -p[2] \in Int
  OBVIOUS
<1>2. /\ A => -p[2] > 0 /\ ~B
      /\ B => -p[2] > 0
      /\ D => p[2] > 0 /\ ~E
      /\ E => p[2] > 0
  BY <1>1, AboveIsAtLeast DEF S!Between
<1>3. S!Drives(p) = CASE A -> S!Go(0, 2) [] B -> S!Go(0, 3) [] D -> S!Go(1, 2)
                      [] E -> S!Go(1, 3) [] OTHER -> <<>>
  BY Zenon DEF S!Drives
<1>4. ~(A /\ D) /\ ~(A /\ E) /\ ~(B /\ D) /\ ~(B /\ E)
  BY <1>1, <1>2
<1> HIDE DEF A, B, D, E
<1>5. /\ A => S!Drives(p) = S!Go(0, 2)
      /\ B => S!Drives(p) = S!Go(0, 3)
      /\ D => S!Drives(p) = S!Go(1, 2)
      /\ E => S!Drives(p) = S!Go(1, 3)
      /\ ~A /\ ~B /\ ~D /\ ~E => S!Drives(p) = <<>>
  BY <1>2, <1>3, <1>4, Zenon
<1>6. -p[2] > 0 => p[2] < 0
  BY <1>1
<1> QED BY <1>2, <1>5, <1>6, Zenon DEF A, B, D, E

-----------------------------------------------------------------------------
(* A harder push.                                                           *)

(* A pixel further is further above, even where the rim begins to limit the *)
(* push between the two.                                                    *)
LEMMA FurtherIsAbove ==
    ASSUME NEW p \in Int \X Int, NEW q \in Int \X Int, NEW c \in Int, NEW k \in {15, 35},
           q[1] = p[1],
           (p[2] = c /\ q[2] = c + 1) \/ (p[2] = -c /\ q[2] = -(c + 1)),
           S!Above(p, c, k)
    PROVE  S!Above(q, c + 1, k)
<1> DEFINE n == S!Pixels(k)
           a == c * c
           b == p[1] * p[1]
           m == n * n
<1>1. (n = 9 /\ m = 81) \/ (n = 21 /\ m = 441)
  BY PixelsAre
<1>2. c > 0
  BY AboveIsAtLeast
<1>3. b \in Int /\ b >= 0 /\ a \in Int /\ a >= 0
  <2>1. \A i \in Int : i * i \in Int /\ i * i >= 0
    OBVIOUS
  <2> QED BY <2>1
<1>4. p[2] * p[2] = a /\ q[2] * q[2] = a + 2 * c + 1
  OBVIOUS
<1>5. S!Square(p) = a + b /\ S!Square(q) = a + b + 2 * c + 1
  BY <1>3, <1>4 DEF S!Square
<1>6. /\ 3600 * c * c = 3600 * a
      /\ 3600 * (c + 1) * (c + 1) = 3600 * a + 7200 * c + 3600
  OBVIOUS
<1>7. /\ S!Above(p, c, k) <=> IF S!AtLimit(p) THEN c > 0 /\ 3600 * c * c > m * S!Square(p)
                                              ELSE c > n
      /\ S!Above(q, c + 1, k)
           <=> IF S!AtLimit(q) THEN c + 1 > 0 /\ 3600 * (c + 1) * (c + 1) > m * S!Square(q)
               ELSE c + 1 > n
  BY DEF S!Above
<1>8. /\ S!AtLimit(p) <=> 4 * (a + b) >= 14161
      /\ S!AtLimit(q) <=> 4 * (a + b + 2 * c + 1) >= 14161
  BY <1>5 DEF S!AtLimit
<1>9. c > n => (n = 9 => a >= 100) /\ (n = 21 => a >= 484)
  <2>1. \A i \in Int : (i > 9 => i * i >= 100) /\ (i > 21 => i * i >= 484)
    OBVIOUS
  <2> QED BY <2>1
<1> HIDE DEF n, m, a, b
<1>10. CASE S!AtLimit(p)
  <2>1. 3600 * a > m * (a + b)
    BY <1>5, <1>6, <1>7, <1>10
  <2>2. S!AtLimit(q)
    BY <1>2, <1>3, <1>8, <1>10
  <2>3. 3600 * a + 7200 * c + 3600 > m * (a + b + 2 * c + 1)
    BY <1>1, <1>2, <1>3, <2>1
  <2> QED BY <1>2, <1>5, <1>6, <1>7, <2>2, <2>3
<1>11. CASE ~S!AtLimit(p)
  <2>1. c > n
    BY <1>7, <1>11
  <2>2. CASE S!AtLimit(q)
    <3>1. 3600 * a + 7200 * c + 3600 > m * (a + b + 2 * c + 1)
      BY <1>1, <1>2, <1>3, <1>8, <1>9, <1>11, <2>1
    <3> QED BY <1>2, <1>5, <1>6, <1>7, <2>2, <3>1
  <2>3. CASE ~S!AtLimit(q)
    <3>1. c + 1 > n
      BY <1>1, <2>1
    <3> QED BY <1>7, <2>3, <3>1
  <2> QED BY <2>2, <2>3
<1> QED BY <1>10, <1>11

LEMMA DriveSpeedIs ==
    ASSUME NEW p \in Int \X Int, NEW c \in Int, c > 0, p[2] \in {c, -c}
    PROVE  /\ S!Above(p, c, 35) => S!DriveSpeed(p) = 3
           /\ S!Between(p, c, 15, 35) => S!DriveSpeed(p) = 2
           /\ ~S!Above(p, c, 35) /\ ~S!Between(p, c, 15, 35) => S!DriveSpeed(p) = 0
<1>1. /\ S!Go(0, 2) # <<>> /\ S!Go(0, 2)[1].dirspeed = 2
      /\ S!Go(1, 2) # <<>> /\ S!Go(1, 2)[1].dirspeed = 2
      /\ S!Go(0, 3) # <<>> /\ S!Go(0, 3)[1].dirspeed = 3
      /\ S!Go(1, 3) # <<>> /\ S!Go(1, 3)[1].dirspeed = 3
  BY DEF S!Go, S!Blank
<1>2. /\ S!Drives(p) = <<>> => S!DriveSpeed(p) = 0
      /\ S!Drives(p) \in {S!Go(0, 2), S!Go(1, 2)} => S!DriveSpeed(p) = 2
      /\ S!Drives(p) \in {S!Go(0, 3), S!Go(1, 3)} => S!DriveSpeed(p) = 3
  BY <1>1 DEF S!DriveSpeed
<1>3. -(-c) = c /\ (p[2] > 0 => p[2] = c) /\ (p[2] < 0 => -p[2] = c)
  OBVIOUS
<1>4. S!Between(p, c, 15, 35) => ~S!Above(p, c, 35)
  BY AboveIsAtLeast DEF S!Between
<1> QED BY <1>2, <1>3, <1>4, DrivesAre

-----------------------------------------------------------------------------
(* The pushes, and what the last Update sent for the last one it saw.       *)
StickInv == /\ pad \in Pads
            /\ input \in S!Points /\ point \in S!Points
            /\ sent = S!Commands(point)

LEMMA PointsAre ==
    /\ S!Centre \in S!Points
    /\ S!Points \subseteq Int \X Int
BY SticksAssumption DEF S!Centre, S!Points

LEMMA CentreIsStill == S!Commands(S!Centre) = <<>>
<1> DEFINE p == S!Centre
<1>1. p \in Int \X Int /\ p[1] = 0 /\ p[2] = 0
  BY DEF S!Centre
<1>2. \A n \in Int : ~(n > 0) /\ ~(n < 0) => -n \in Int /\ ~(-n > 0)
  OBVIOUS
<1>3. p[1] \in Int /\ p[2] \in Int /\ ~(p[1] > 0) /\ ~(p[1] < 0)
      /\ ~(p[2] > 0) /\ ~(p[2] < 0)
  BY <1>1
<1> HIDE DEF p
<1>9. S!Turns(p) = <<>> /\ S!Drives(p) = <<>>
  BY <1>1, <1>3, TurnsAre, DrivesAre, Zenon
<1>4. ~S!Above(p, p[1], 50) /\ ~S!Above(p, -p[1], 50)
      /\ ~S!Above(p, p[2], 50) /\ ~S!Above(p, -p[2], 50)
  <2>1. \A c \in Int : S!Above(p, c, 50) => c > 0
    BY <1>1, AboveIsAtLeast
  <2> QED BY <1>2, <1>3, <2>1, Zenon
<1>5. S!UpdateMoveGmPd(p) = <<>>
  BY <1>9 DEF S!UpdateMoveGmPd
<1>6. S!UpdateTurrelGmPd(p) = <<>> \o <<>>
  BY <1>4, Zenon DEF S!UpdateTurrelGmPd
<1>7. S!UpdateTurrelGmPd(p) = <<>>
  BY <1>6
<1> QED BY <1>5, <1>7 DEF S!Commands, p

LEMMA StickInit == S!Init => StickInv
BY PointsAre, CentreIsStill DEF S!Init, StickInv

LEMMA StickStep == StickInv /\ [S!Next]_S!vars => StickInv'
<1> SUFFICES ASSUME StickInv, [S!Next]_S!vars PROVE StickInv'
  OBVIOUS
<1>1. CASE \E p \in IF active THEN S!Near(input) \cap S!Points ELSE S!Points : S!DragTo(p)
  <2>1. input' \in S!Points /\ pad' = pad /\ point' = point /\ sent' = sent
    BY <1>1 DEF S!DragTo
  <2> QED BY <2>1 DEF StickInv, S!Commands
<1>2. CASE S!DragEnd
  BY <1>2, PointsAre DEF S!DragEnd, StickInv, S!Commands
<1>3. CASE S!Update
  <2>1. point' \in S!Points
    BY <1>3, PointsAre DEF S!Update, StickInv
  <2>2. pad' = pad /\ sent' = S!Commands(point') /\ input' = input
    BY <1>3 DEF S!Update
  <2>3. sent' = (S!Commands(point))'
    BY <1>3, Zenon DEF S!Update, S!Commands
  <2> QED BY <2>1, <2>2, <2>3 DEF StickInv
<1>4. CASE UNCHANGED S!vars
  BY <1>4 DEF S!vars, StickInv, S!Commands
<1> QED BY <1>1, <1>2, <1>3, <1>4 DEF S!Next

(* A push a pixel further along the tank never drives it slower, but at the *)
(* very pixel of 35 per cent, however far the finger goes (UpdateMoveGmPd,  *)
(* Stick.update).                                                           *)
THEOREM HarderIsNeverSlower == S!Spec => []HarderNeverSlower
<1>1. StickInv => HarderNeverSlower
  <2> SUFFICES ASSUME StickInv PROVE S!HarderNeverSlower
    BY DEF HarderNeverSlower
  <2> DEFINE p == point
             q == S!Further(point)
  <2>1. p \in Int \X Int /\ p[1] \in Int /\ p[2] \in Int
    BY PointsAre DEF StickInv
  <2>2. CASE p[2] = 0
    <3>1. p = <<p[1], p[2]>> /\ S!Sign(p[2]) = 0 /\ p[2] + 0 = p[2]
      BY <2>1, <2>2 DEF S!Sign
    <3>2. q = p
      BY <3>1 DEF S!Further
    <3>3. p[2] \in {0}
      BY <2>2
    <3>4. S!DriveSpeed(p) \in Int
      <4>1. S!Drives(p) = <<>>
        BY <2>1, <2>2, DrivesAre
      <4> QED BY <4>1 DEF S!DriveSpeed
    <3> QED BY <3>2, <3>4 DEF S!HarderNeverSlower
  <2>3. CASE p[2] # 0
    <3>1. PICK c \in Int : /\ c > 0
                           /\ \/ p[2] = c /\ S!Sign(p[2]) = 1
                              \/ p[2] = -c /\ S!Sign(p[2]) = -1
      <4>1. CASE p[2] > 0
        BY <2>1, <4>1 DEF S!Sign
      <4>2. CASE p[2] < 0
        <5>1. -p[2] \in Int /\ -p[2] > 0 /\ p[2] = -(-p[2]) /\ ~(p[2] > 0)
          BY <2>1, <4>2
        <5>2. S!Sign(p[2]) = -1
          BY <4>2, <5>1 DEF S!Sign
        <5> QED BY <5>1, <5>2
      <4> QED BY <2>1, <2>3, <4>1, <4>2
    <3>2. /\ q \in Int \X Int /\ q[1] = p[1]
          /\ (p[2] = c /\ q[2] = c + 1) \/ (p[2] = -c /\ q[2] = -(c + 1))
      BY <2>1, <3>1 DEF S!Further
    <3>3. /\ c + 1 \in Int /\ c + 1 > 0 /\ p[2] \in {c, -c}
          /\ q[2] \in {c + 1, -(c + 1)} /\ c + 1 \in {q[2], -q[2]}
      BY <3>1, <3>2
    <3>4. /\ S!Above(p, c, 35) => S!Above(q, c + 1, 35)
          /\ S!Above(p, c, 15) => S!Above(q, c + 1, 15)
      BY <2>1, <3>2, FurtherIsAbove
    <3>5. /\ S!Above(p, c, 35) => S!DriveSpeed(p) = 3
          /\ S!Between(p, c, 15, 35) => S!DriveSpeed(p) = 2
          /\ ~S!Above(p, c, 35) /\ ~S!Between(p, c, 15, 35) => S!DriveSpeed(p) = 0
      BY <2>1, <3>1, <3>3, DriveSpeedIs
    <3>6. /\ S!Above(q, c + 1, 35) => S!DriveSpeed(q) = 3
          /\ S!Between(q, c + 1, 15, 35) => S!DriveSpeed(q) = 2
          /\ ~S!Above(q, c + 1, 35) /\ ~S!Between(q, c + 1, 15, 35) => S!DriveSpeed(q) = 0
      BY <3>2, <3>3, DriveSpeedIs
    <3>7. CASE S!AtLeast(q, c + 1, 35) /\ ~S!Above(q, c + 1, 35)
      BY <3>3, <3>7 DEF S!HarderNeverSlower
    <3>8. CASE ~S!AtLeast(q, c + 1, 35) \/ S!Above(q, c + 1, 35)
      <4> HIDE DEF p, q
      <4>1. S!Above(q, c + 1, 15) => S!DriveSpeed(q) \in {2, 3}
        BY <3>6, <3>8 DEF S!Between
      <4>2. S!DriveSpeed(q) \in {0, 2, 3}
        BY <3>6
      <4>3. S!DriveSpeed(p) \in {0, 2, 3}
            /\ (S!DriveSpeed(p) = 2 => S!Above(p, c, 15))
            /\ (S!DriveSpeed(p) = 3 => S!Above(p, c, 35))
        BY <3>5 DEF S!Between
      <4>4. S!DriveSpeed(q) >= S!DriveSpeed(p)
        BY <3>4, <3>6, <4>1, <4>2, <4>3
      <4> QED BY <4>4 DEF S!HarderNeverSlower, p, q
    <3> QED BY <3>7, <3>8
  <2> QED BY <2>2, <2>3
<1> QED BY <1>1, StickInit, StickStep, PTL DEF S!Spec

-----------------------------------------------------------------------------
(* Left and right.                                                          *)

(* The page's commands. *)
Orders == [direction : {0, 1}, dirspeed : 0..3, rotation : {0, 1, 2}, rotspeed : 0..3,
           turrelRotation : {0, 1, 2}, canonElevation : BOOLEAN]

(* The commands of the sticks, one by one. *)
LEMMA OrdersAre ==
    /\ \A rot \in {1, 2}, speed \in 0..3 :
          \E o \in Orders :
             /\ S!Turn(rot, speed) = <<o>>
             /\ o.direction = 0 /\ o.dirspeed = 0 /\ o.rotation = rot
             /\ o.rotspeed = speed /\ o.turrelRotation = 0 /\ ~o.canonElevation
    /\ \A dir \in {0, 1}, speed \in 0..3 :
          \E o \in Orders :
             /\ S!Go(dir, speed) = <<o>>
             /\ o.direction = dir /\ o.dirspeed = speed /\ o.rotation = 0
             /\ o.rotspeed = 0 /\ o.turrelRotation = 0 /\ ~o.canonElevation
    /\ \A rot \in {1, 2} :
          \E o \in Orders :
             /\ <<[S!Blank EXCEPT !.turrelRotation = rot]>> = <<o>>
             /\ o.direction = 0 /\ o.dirspeed = 0 /\ o.rotation = 0
             /\ o.rotspeed = 0 /\ o.turrelRotation = rot /\ ~o.canonElevation
    /\ \E o \in Orders :
          /\ <<[S!Blank EXCEPT !.canonElevation = TRUE]>> = <<o>>
          /\ o.direction = 0 /\ o.dirspeed = 0 /\ o.rotation = 0
          /\ o.rotspeed = 0 /\ o.turrelRotation = 0 /\ o.canonElevation
<1> DEFINE F == FALSE
           T == TRUE
           B == [direction |-> 0, dirspeed |-> 0, rotation |-> 0, rotspeed |-> 0,
                 turrelRotation |-> 0, canonElevation |-> F]
<1>1. S!Blank = B
  BY Zenon DEF S!Blank
<1>2. F \in BOOLEAN /\ ~F /\ T \in BOOLEAN /\ T /\ 0 \in 0..3
  OBVIOUS
<1> HIDE DEF F, T
<1>3. ASSUME NEW rot \in {1, 2}, NEW speed \in 0..3
      PROVE  \E o \in Orders :
             /\ S!Turn(rot, speed) = <<o>>
             /\ o.direction = 0 /\ o.dirspeed = 0 /\ o.rotation = rot
             /\ o.rotspeed = speed /\ o.turrelRotation = 0 /\ ~o.canonElevation
  <2> DEFINE o == [B EXCEPT !.rotation = rot, !.rotspeed = speed]
  <2>1. S!Turn(rot, speed) = <<o>>
    BY <1>1, Zenon DEF S!Turn
  <2>2. o \in Orders /\ ~o.canonElevation
    BY <1>2 DEF Orders
  <2>3. /\ o.direction = 0 /\ o.dirspeed = 0 /\ o.rotation = rot
        /\ o.rotspeed = speed /\ o.turrelRotation = 0
    OBVIOUS
  <2> HIDE DEF o
  <2> QED BY <2>1, <2>2, <2>3
<1>4. ASSUME NEW dir \in {0, 1}, NEW speed \in 0..3
      PROVE  \E o \in Orders :
             /\ S!Go(dir, speed) = <<o>>
             /\ o.direction = dir /\ o.dirspeed = speed /\ o.rotation = 0
             /\ o.rotspeed = 0 /\ o.turrelRotation = 0 /\ ~o.canonElevation
  <2> DEFINE o == [B EXCEPT !.direction = dir, !.dirspeed = speed]
  <2>1. S!Go(dir, speed) = <<o>>
    BY <1>1, Zenon DEF S!Go
  <2>2. o \in Orders /\ ~o.canonElevation
    BY <1>2 DEF Orders
  <2>3. /\ o.direction = dir /\ o.dirspeed = speed /\ o.rotation = 0
        /\ o.rotspeed = 0 /\ o.turrelRotation = 0
    OBVIOUS
  <2> HIDE DEF o
  <2> QED BY <2>1, <2>2, <2>3
<1>5. ASSUME NEW rot \in {1, 2}
      PROVE  \E o \in Orders :
             /\ <<[S!Blank EXCEPT !.turrelRotation = rot]>> = <<o>>
             /\ o.direction = 0 /\ o.dirspeed = 0 /\ o.rotation = 0
             /\ o.rotspeed = 0 /\ o.turrelRotation = rot /\ ~o.canonElevation
  <2> DEFINE o == [B EXCEPT !.turrelRotation = rot]
  <2>1. <<[S!Blank EXCEPT !.turrelRotation = rot]>> = <<o>>
    BY <1>1, Zenon
  <2>2. o \in Orders /\ ~o.canonElevation
    BY <1>2 DEF Orders
  <2>3. /\ o.direction = 0 /\ o.dirspeed = 0 /\ o.rotation = 0
        /\ o.rotspeed = 0 /\ o.turrelRotation = rot
    OBVIOUS
  <2> HIDE DEF o
  <2> QED BY <2>1, <2>2, <2>3
<1>6. \E o \in Orders :
          /\ <<[S!Blank EXCEPT !.canonElevation = T]>> = <<o>>
          /\ o.direction = 0 /\ o.dirspeed = 0 /\ o.rotation = 0
          /\ o.rotspeed = 0 /\ o.turrelRotation = 0 /\ o.canonElevation
  <2> DEFINE o == [B EXCEPT !.canonElevation = T]
  <2>1. <<[S!Blank EXCEPT !.canonElevation = T]>> = <<o>>
    BY <1>1, Zenon
  <2>2. o \in Orders /\ o.canonElevation
    BY <1>2 DEF Orders
  <2>3. /\ o.direction = 0 /\ o.dirspeed = 0 /\ o.rotation = 0
        /\ o.rotspeed = 0 /\ o.turrelRotation = 0
    OBVIOUS
  <2> HIDE DEF o
  <2> QED BY <2>1, <2>2, <2>3
<1> QED BY <1>3, <1>4, <1>5, <1>6, Zenon DEF T

(* A command and the one of the mirror image. *)
Mirror(o, l) ==
    /\ l.rotation = S!OtherSide(o.rotation)
    /\ l.turrelRotation = S!OtherSide(o.turrelRotation)
    /\ o.rotspeed - l.rotspeed \in {0, 1}
    /\ [l EXCEPT !.rotation = 0, !.rotspeed = 0, !.turrelRotation = 0]
       = [o EXCEPT !.rotation = 0, !.rotspeed = 0, !.turrelRotation = 0]

Mirrored(right, left) ==
    /\ right \in Seq(Orders) /\ left \in Seq(Orders)
    /\ Len(left) = Len(right)
    /\ \A i \in 1..Len(right) : Mirror(right[i], left[i])

LEMMA OtherSides == S!OtherSide(0) = 0 /\ S!OtherSide(1) = 2 /\ S!OtherSide(2) = 1
<1>1. 0 # 1 /\ 0 # 2 /\ 1 # 2
  OBVIOUS
<1> QED BY <1>1, Zenon DEF S!OtherSide

LEMMA MirrorIs ==
    ASSUME NEW o \in Orders, NEW l \in Orders,
           l.rotation = S!OtherSide(o.rotation),
           l.turrelRotation = S!OtherSide(o.turrelRotation),
           o.rotspeed - l.rotspeed \in {0, 1},
           l.direction = o.direction, l.dirspeed = o.dirspeed,
           l.canonElevation <=> o.canonElevation
    PROVE  Mirror(o, l) /\ Mirrored(<<o>>, <<l>>)
<1>1. [l EXCEPT !.rotation = 0, !.rotspeed = 0, !.turrelRotation = 0]
      = [o EXCEPT !.rotation = 0, !.rotspeed = 0, !.turrelRotation = 0]
  <2>1. l.canonElevation = o.canonElevation
    BY DEF Orders
  <2> QED BY <2>1 DEF Orders
<1>2. Mirror(o, l)
  BY <1>1 DEF Mirror
<1> QED BY <1>2 DEF Mirrored

LEMMA MirroredNone == Mirrored(<<>>, <<>>)
BY DEF Mirrored

LEMMA MirroredBoth ==
    ASSUME NEW a, NEW b, NEW c, NEW d, Mirrored(a, b), Mirrored(c, d)
    PROVE  Mirrored(a \o c, b \o d)
<1>1. /\ a \in Seq(Orders) /\ b \in Seq(Orders) /\ c \in Seq(Orders) /\ d \in Seq(Orders)
      /\ Len(b) = Len(a) /\ Len(d) = Len(c)
      /\ \A i \in 1..Len(a) : Mirror(a[i], b[i])
      /\ \A i \in 1..Len(c) : Mirror(c[i], d[i])
  BY DEF Mirrored
<1>2. /\ a \o c \in Seq(Orders) /\ b \o d \in Seq(Orders)
      /\ Len(a \o c) = Len(a) + Len(c) /\ Len(b \o d) = Len(a \o c)
  BY <1>1
<1>3. ASSUME NEW i \in 1..Len(a \o c) PROVE Mirror((a \o c)[i], (b \o d)[i])
  <2>1. CASE i <= Len(a)
    <3>1. i \in 1..Len(a) /\ (a \o c)[i] = a[i] /\ (b \o d)[i] = b[i]
      BY <1>1, <1>2, <2>1
    <3> QED BY <1>1, <3>1
  <2>2. CASE ~(i <= Len(a))
    <3>1. i - Len(a) \in 1..Len(c)
          /\ (a \o c)[i] = c[i - Len(a)] /\ (b \o d)[i] = d[i - Len(a)]
      BY <1>1, <1>2, <2>2
    <3> QED BY <1>1, <3>1
  <2> QED BY <2>1, <2>2
<1> QED BY <1>2, <1>3 DEF Mirrored

LEMMA TurnsMirrored ==
    ASSUME NEW x \in Int, NEW y \in Int, x > 0
    PROVE  Mirrored(S!Turns(<<x, y>>), S!Turns(<<-x, y>>))
<1> DEFINE p == <<x, y>>
           m == <<-x, y>>
           far == IF S!Above(m, -m[1], 20) THEN 1 ELSE 0
<1>1. p \in Int \X Int /\ m \in Int \X Int
      /\ p[1] = x /\ m[1] = -x /\ -m[1] = x /\ ~(x < 0) /\ ~(m[1] > 0)
  OBVIOUS
<1>2. /\ S!Between(m, x, 15, 50) <=> S!Between(p, x, 15, 50)
      /\ S!Between(m, x, 50, 80) <=> S!Between(p, x, 50, 80)
  BY MirrorIsAsFar
<1>3. ~(S!Between(p, x, 15, 50) /\ S!Between(p, x, 50, 80))
  BY <1>1, AboveIsAtLeast DEF S!Between
<1>4. far \in {0, 1}
  OBVIOUS
<1> HIDE DEF p, m, far
<1>5. \/ S!Turns(p) = <<>> /\ S!Turns(m) = <<>>
      \/ S!Turns(p) = S!Turn(2, 1) /\ S!Turns(m) = S!Turn(1, far)
      \/ S!Turns(p) = S!Turn(2, 2) /\ S!Turns(m) = S!Turn(1, 2)
  <2>1. \/ /\ S!Turns(p) = <<>>
           /\ ~S!Between(p, x, 15, 50) /\ ~S!Between(p, x, 50, 80)
        \/ S!Turns(p) = S!Turn(2, 1) /\ S!Between(p, x, 15, 50)
        \/ S!Turns(p) = S!Turn(2, 2) /\ S!Between(p, x, 50, 80)
    BY <1>1, TurnsAre
  <2>2. \/ /\ S!Turns(m) = <<>>
           /\ ~S!Between(m, x, 15, 50) /\ ~S!Between(m, x, 50, 80)
        \/ S!Turns(m) = S!Turn(1, far) /\ S!Between(m, x, 15, 50)
        \/ S!Turns(m) = S!Turn(1, 2) /\ S!Between(m, x, 50, 80)
    BY <1>1, TurnsAre DEF far
  <2> QED BY <1>2, <1>3, <2>1, <2>2, Zenon
<1>6. ASSUME NEW s \in 0..3, NEW t \in 0..3, s - t \in {0, 1}
      PROVE  Mirrored(S!Turn(2, s), S!Turn(1, t))
  <2>1. PICK o \in Orders :
             /\ S!Turn(2, s) = <<o>>
             /\ o.direction = 0 /\ o.dirspeed = 0 /\ o.rotation = 2
             /\ o.rotspeed = s /\ o.turrelRotation = 0 /\ ~o.canonElevation
    BY OrdersAre
  <2>2. PICK l \in Orders :
             /\ S!Turn(1, t) = <<l>>
             /\ l.direction = 0 /\ l.dirspeed = 0 /\ l.rotation = 1
             /\ l.rotspeed = t /\ l.turrelRotation = 0 /\ ~l.canonElevation
    BY OrdersAre
  <2>3. Mirrored(<<o>>, <<l>>)
    BY <1>6, <2>1, <2>2, MirrorIs, OtherSides
  <2> QED BY <2>1, <2>2, <2>3
<1>7. Mirrored(S!Turns(p), S!Turns(m))
  <2>1. Mirrored(S!Turn(2, 1), S!Turn(1, far))
    BY <1>4, <1>6
  <2>2. Mirrored(S!Turn(2, 2), S!Turn(1, 2))
    BY <1>6
  <2> QED BY <1>5, <2>1, <2>2, MirroredNone
<1> QED BY <1>7 DEF p, m

LEMMA GoMirrored ==
    ASSUME NEW dir \in {0, 1}, NEW speed \in 0..3
    PROVE  Mirrored(S!Go(dir, speed), S!Go(dir, speed))
<1>1. PICK o \in Orders :
           /\ S!Go(dir, speed) = <<o>>
           /\ o.direction = dir /\ o.dirspeed = speed /\ o.rotation = 0
           /\ o.rotspeed = 0 /\ o.turrelRotation = 0 /\ ~o.canonElevation
  BY OrdersAre
<1>2. Mirrored(<<o>>, <<o>>)
  BY <1>1, MirrorIs, OtherSides
<1> QED BY <1>1, <1>2

LEMMA DrivesMirrored ==
    ASSUME NEW x \in Int, NEW y \in Int
    PROVE  Mirrored(S!Drives(<<x, y>>), S!Drives(<<-x, y>>))
<1> DEFINE p == <<x, y>>
           m == <<-x, y>>
<1>1. p \in Int \X Int /\ m \in Int \X Int /\ p[2] = y /\ m[2] = y /\ -y \in Int
  OBVIOUS
<1>2. /\ \A c, k : S!Above(m, c, k) <=> S!Above(p, c, k)
      /\ \A c, k, l : S!Between(m, c, k, l) <=> S!Between(p, c, k, l)
  BY MirrorIsAsFar, Zenon
<1>3. \A c \in Int : S!Between(p, c, 15, 35) => ~S!Above(p, c, 35)
  BY <1>1, AboveIsAtLeast DEF S!Between
<1>4. ~(y > 0 /\ y < 0)
  OBVIOUS
<1> HIDE DEF p, m
<1>5. S!Drives(m) = S!Drives(p)
  <2>1. \/ /\ S!Drives(p) = <<>>
           /\ ~S!Between(p, -y, 15, 35) /\ ~S!Above(p, -y, 35)
           /\ ~S!Between(p, y, 15, 35) /\ ~S!Above(p, y, 35)
        \/ S!Drives(p) = S!Go(0, 2) /\ y < 0 /\ S!Between(p, -y, 15, 35)
        \/ S!Drives(p) = S!Go(0, 3) /\ y < 0 /\ S!Above(p, -y, 35)
        \/ S!Drives(p) = S!Go(1, 2) /\ y > 0 /\ S!Between(p, y, 15, 35)
        \/ S!Drives(p) = S!Go(1, 3) /\ y > 0 /\ S!Above(p, y, 35)
    BY <1>1, DrivesAre
  <2>2. \/ /\ S!Drives(m) = <<>>
           /\ ~S!Between(p, -y, 15, 35) /\ ~S!Above(p, -y, 35)
           /\ ~S!Between(p, y, 15, 35) /\ ~S!Above(p, y, 35)
        \/ S!Drives(m) = S!Go(0, 2) /\ y < 0 /\ S!Between(p, -y, 15, 35)
        \/ S!Drives(m) = S!Go(0, 3) /\ y < 0 /\ S!Above(p, -y, 35)
        \/ S!Drives(m) = S!Go(1, 2) /\ y > 0 /\ S!Between(p, y, 15, 35)
        \/ S!Drives(m) = S!Go(1, 3) /\ y > 0 /\ S!Above(p, y, 35)
    BY <1>1, <1>2, DrivesAre
  <2> QED BY <1>1, <1>3, <1>4, <2>1, <2>2
<1>6. S!Drives(p) \in {<<>>, S!Go(0, 2), S!Go(0, 3), S!Go(1, 2), S!Go(1, 3)}
  BY <1>1, DrivesAre
<1>7. Mirrored(S!Drives(p), S!Drives(p))
  BY <1>6, MirroredNone, GoMirrored
<1> QED BY <1>5, <1>7 DEF p, m

LEMMA TurretsMirrored ==
    ASSUME NEW x \in Int, NEW y \in Int, x > 0
    PROVE  Mirrored(S!UpdateTurrelGmPd(<<x, y>>), S!UpdateTurrelGmPd(<<-x, y>>))
<1> DEFINE p == <<x, y>>
           m == <<-x, y>>
           r == <<[S!Blank EXCEPT !.turrelRotation = 2]>>
           l == <<[S!Blank EXCEPT !.turrelRotation = 1]>>
           e == <<[S!Blank EXCEPT !.canonElevation = TRUE]>>
           side(q) == CASE S!Above(q, q[1], 50) -> r
                        [] S!Above(q, -q[1], 50) -> l
                        [] OTHER -> <<>>
           up(q) == IF S!Above(q, q[2], 50) \/ S!Above(q, -q[2], 50) THEN e ELSE <<>>
<1>1. p \in Int \X Int /\ m \in Int \X Int /\ p[1] = x /\ p[2] = y
      /\ m[1] = -x /\ m[2] = y /\ -m[1] = x /\ -x \in Int /\ ~(-x > 0)
  OBVIOUS
<1>2. \A c, k : S!Above(m, c, k) <=> S!Above(p, c, k)
  BY MirrorIsAsFar, Zenon
<1>3. ~S!Above(p, -x, 50)
  BY <1>1, AboveIsAtLeast
<1>4. /\ S!UpdateTurrelGmPd(p) = side(p) \o up(p)
      /\ S!UpdateTurrelGmPd(m) = side(m) \o up(m)
  BY Zenon DEF S!UpdateTurrelGmPd
<1>5. Mirrored(r, l)
  <2>1. PICK o \in Orders :
           /\ r = <<o>>
           /\ o.direction = 0 /\ o.dirspeed = 0 /\ o.rotation = 0
           /\ o.rotspeed = 0 /\ o.turrelRotation = 2 /\ ~o.canonElevation
    BY OrdersAre
  <2>2. PICK n \in Orders :
           /\ l = <<n>>
           /\ n.direction = 0 /\ n.dirspeed = 0 /\ n.rotation = 0
           /\ n.rotspeed = 0 /\ n.turrelRotation = 1 /\ ~n.canonElevation
    BY OrdersAre
  <2>3. Mirrored(<<o>>, <<n>>)
    BY <2>1, <2>2, MirrorIs, OtherSides
  <2> QED BY <2>1, <2>2, <2>3
<1>6. Mirrored(e, e)
  <2>1. PICK o \in Orders :
           /\ e = <<o>>
           /\ o.direction = 0 /\ o.dirspeed = 0 /\ o.rotation = 0
           /\ o.rotspeed = 0 /\ o.turrelRotation = 0 /\ o.canonElevation
    BY OrdersAre, Zenon
  <2> HIDE DEF e
  <2>2. Mirrored(<<o>>, <<o>>)
    BY <2>1, MirrorIs, OtherSides
  <2> QED BY <2>1, <2>2
<1> HIDE DEF p, m, r, l, e
<1>7. Mirrored(side(p), side(m))
  <2>1. S!Above(p, x, 50) => side(p) = r /\ side(m) = l
    BY <1>1, <1>2, <1>3, Zenon
  <2>2. ~S!Above(p, x, 50) => side(p) = <<>> /\ side(m) = <<>>
    BY <1>1, <1>2, <1>3, Zenon
  <2> HIDE DEF side
  <2> QED BY <1>5, <2>1, <2>2, MirroredNone
<1>8. up(m) = up(p) /\ up(p) \in {e, <<>>}
  BY <1>1, <1>2
<1> HIDE DEF side, up
<1>9. Mirrored(up(p), up(m))
  BY <1>6, <1>8, MirroredNone
<1>10. Mirrored(side(p) \o up(p), side(m) \o up(m))
  BY <1>7, <1>9, MirroredBoth
<1> QED BY <1>4, <1>10 DEF p, m

(* Left and right are mirror images but for the speed of a slow turn, for   *)
(* every push (UpdateMoveGmPd, UpdateTurrelGmPd).                           *)
THEOREM LeftIsMirrorOfRight == S!Spec => []LeftMirrorsRight
<1>1. StickInv => LeftMirrorsRight
  <2> SUFFICES ASSUME StickInv, point[1] > 0 PROVE S!LeftMirrorsRight
    BY DEF LeftMirrorsRight, S!LeftMirrorsRight
  <2> DEFINE x == point[1]
             y == point[2]
             left == S!Commands(<<-x, y>>)
  <2>1. point = <<x, y>> /\ x \in Int /\ y \in Int /\ x > 0
    BY PointsAre DEF StickInv
  <2> HIDE DEF x, y
  <2>2. Mirrored(S!UpdateMoveGmPd(<<x, y>>), S!UpdateMoveGmPd(<<-x, y>>))
    <3>1. /\ Mirrored(S!Turns(<<x, y>>), S!Turns(<<-x, y>>))
          /\ Mirrored(S!Drives(<<x, y>>), S!Drives(<<-x, y>>))
      BY <2>1, TurnsMirrored, DrivesMirrored
    <3> QED BY <3>1, MirroredBoth DEF S!UpdateMoveGmPd
  <2>3. Mirrored(S!UpdateTurrelGmPd(<<x, y>>), S!UpdateTurrelGmPd(<<-x, y>>))
    BY <2>1, TurretsMirrored
  <2>4. Mirrored(S!Commands(<<x, y>>), left)
    BY <2>2, <2>3 DEF S!Commands
  <2>5. Mirrored(sent, left)
    BY <2>1, <2>4 DEF StickInv
  <2> HIDE DEF left
  <2>6. DOMAIN sent = 1..Len(sent)
    BY <2>5 DEF Mirrored
  <2>7. /\ Len(left) = Len(sent)
        /\ \A i \in DOMAIN sent : Mirror(sent[i], left[i])
    BY <2>5, <2>6 DEF Mirrored
  <2> QED BY <2>7, Zenon DEF S!LeftMirrorsRight, Mirror, left, x, y
<1> QED BY <1>1, StickInit, StickStep, PTL DEF S!Spec

-----------------------------------------------------------------------------
(* What the tank does on a stick's commands.                                *)

(* The server of the sticks is the one of the commands. *)
LEMMA ServerReads ==
    /\ S!Server!Unassigned = Unassigned /\ S!Server!IdleCmd = IdleCmd
    /\ S!Server!IgnitionCmd = IgnitionCmd /\ S!Server!NeutralCmd = NeutralCmd
    /\ \A j : S!Server!ParseJSON(j) = ParseJSON(j)
    /\ \A w : S!Server!Decode(w) = Decode(w)
    /\ \A c : S!Server!GetCmd(c) = GetCmd(c)
<1>1. /\ S!Server!Unassigned = Unassigned /\ S!Server!IdleCmd = IdleCmd
      /\ S!Server!IgnitionCmd = IgnitionCmd /\ S!Server!NeutralCmd = NeutralCmd
  BY Zenon DEF S!Server!Unassigned, Unassigned, S!Server!IdleCmd, IdleCmd,
               S!Server!IgnitionCmd, IgnitionCmd, S!Server!NeutralCmd, NeutralCmd
<1>2. \A j : S!Server!ParseJSON(j) = ParseJSON(j)
  <2>1. S!Server!Blank = Blank
    BY <1>1, Zenon DEF S!Server!Blank, Blank
  <2> QED BY <2>1, Zenon DEF S!Server!ParseJSON, ParseJSON
<1>3. \A w : S!Server!Decode(w) = Decode(w)
  BY Zenon DEF S!Server!Decode, Decode, S!Server!Number, Number, S!Server!Weight, Weight
<1>4. \A w : S!Server!CRC(w) = CRC(w)
  BY Zenon DEF S!Server!CRC, CRC, S!Server!CrcBit, CrcBit, S!Server!Xor, Xor
<1>5. \A c : S!Server!Payload(c) = Payload(c)
  <2>1. \A n, k : S!Server!Shifted(n, k) = Shifted(n, k)
    BY Zenon DEF S!Server!Shifted, Shifted, S!Server!BitOf, BitOf
  <2>2. \A c : S!Server!DriveBits(c) = DriveBits(c)
    BY <2>1, Zenon DEF S!Server!DriveBits, DriveBits
  <2>3. \A c : S!Server!RotationBits(c) = RotationBits(c)
    BY <2>1, Zenon DEF S!Server!RotationBits, RotationBits
  <2>4. \A c : S!Server!TurretBits(c) = TurretBits(c)
    BY Zenon DEF S!Server!TurretBits, TurretBits
  <2>5. \A c : S!Server!WeaponBits(c) = WeaponBits(c)
    BY Zenon DEF S!Server!WeaponBits, WeaponBits
  <2> QED BY <2>2, <2>3, <2>4, <2>5, Zenon DEF S!Server!Payload, Payload
<1>6. \A c : S!Server!GetCmd(c) = GetCmd(c)
  BY <1>1, <1>4, <1>5, Zenon DEF S!Server!GetCmd, GetCmd
<1> QED BY <1>1, <1>2, <1>3, <1>6, Zenon

(* What the server reads of a command of the page, *)
LEMMA OrderIsRead ==
    ASSUME NEW o \in Orders
    PROVE  LET k == ParseJSON(S!ToJSON(o)) IN
           /\ k \in Fresh /\ ~IsSpecial(k) /\ ~k.fire /\ ~k.gun /\ ~k.recoil
           /\ k.canonElevation <=> o.canonElevation
           /\ k.direction = (IF o.direction = 0 THEN "Forward" ELSE "Backward")
           /\ k.dirspeed = o.dirspeed
           /\ k.rotation = S!Rotation(o.rotation)
           /\ k.turrelRotation = S!Rotation(o.turrelRotation)
<1> DEFINE F == FALSE
           T == TRUE
           d == IF o.direction = 0 THEN "Forward" ELSE "Backward"
           r == S!Rotation(o.rotation)
           t == S!Rotation(o.turrelRotation)
           j == [idle |-> F, ignition |-> F, neutral |-> F,
                 direction |-> d, dirspeed |-> o.dirspeed,
                 rotation |-> r, rotspeed |-> o.rotspeed, turrelRotation |-> t,
                 canonElevation |-> o.canonElevation,
                 fire |-> F, gun |-> F, recoil |-> F, engineStart |-> F, engineStop |-> F]
           k == ParseJSON(j)
<1>1. S!ToJSON(o) = j
  BY Zenon DEF S!ToJSON
<1>2. F \in BOOLEAN /\ ~F
  OBVIOUS
<1>3. d \in Directions
  BY DEF Directions
<1>4. r \in Rotations /\ t \in Rotations
  <2>1. \A n \in {0, 1, 2} : S!Rotation(n) \in Rotations
    <3>1. 0 # 1 /\ 0 # 2 /\ 1 # 2
      OBVIOUS
    <3>2. S!Rotation(0) = "None" /\ S!Rotation(1) = "Left" /\ S!Rotation(2) = "Right"
      BY <3>1, Zenon DEF S!Rotation
    <3> QED BY <3>2 DEF Rotations
  <2> QED BY <2>1 DEF Orders
<1> HIDE DEF F, d, r, t
<1>5. j \in AnyJson
  BY <1>2, <1>3, <1>4 DEF AnyJson, Orders
<1>6. k \in Fresh
  BY <1>5, ParsedIsFresh
<1>7. /\ j.direction = d /\ j.dirspeed = o.dirspeed /\ j.rotation = r
      /\ j.turrelRotation = t /\ j.idle = F /\ j.ignition = F /\ j.neutral = F
      /\ j.fire = F /\ j.gun = F /\ j.recoil = F
      /\ j.canonElevation = o.canonElevation
      /\ j.engineStart = F /\ j.engineStop = F
  OBVIOUS
<1> HIDE DEF j
<1>8. /\ k.direction = d /\ k.dirspeed = o.dirspeed
      /\ k.rotation = r /\ k.turrelRotation = t
      /\ ~k.fire /\ ~k.gun /\ ~k.recoil /\ ~k.idle /\ ~k.ignition /\ ~k.neutral
      /\ k.canonElevation = o.canonElevation
  <2> DEFINE x == j.idle \/ j.engineStop
             y == j.neutral \/ j.engineStart
             z == TRUE
             P == [Blank EXCEPT !.idle = x, !.ignition = j.ignition, !.neutral = y,
                          !.direction = j.direction, !.dirspeed = j.dirspeed,
                          !.rotation = j.rotation, !.rotspeed = j.rotspeed,
                          !.turrelRotation = j.turrelRotation,
                          !.canonElevation = j.canonElevation,
                          !.fire = j.fire, !.gun = j.gun, !.recoil = j.recoil,
                          !.engineStart = j.engineStart, !.engineStop = j.engineStop,
                          !.external = z]
  <2>1. k = P
    BY Zenon DEF ParseJSON
  <2>2. ~x /\ ~y
    BY <1>2, <1>7, Zenon
  <2>3. Blank \in Fresh
    BY BlankIsFresh
  <2> HIDE DEF x, y, z
  <2>4. /\ P.direction = j.direction /\ P.dirspeed = j.dirspeed
        /\ P.rotation = j.rotation /\ P.turrelRotation = j.turrelRotation
        /\ P.fire = j.fire /\ P.gun = j.gun /\ P.recoil = j.recoil
        /\ P.canonElevation = j.canonElevation
        /\ P.idle = x /\ P.ignition = j.ignition
        /\ P.neutral = y
    BY <2>3 DEF Fresh
  <2> HIDE DEF P
  <2> QED BY <1>2, <1>7, <2>1, <2>2, <2>4, Zenon
<1> HIDE DEF k
<1>9. ~IsSpecial(k)
  BY <1>8, Zenon DEF IsSpecial
<1> QED BY <1>1, <1>6, <1>8, <1>9, Zenon DEF d, r, t, k

(* and what the tank does on its frame.                                     *)
LEMMA OrderMoves ==
    ASSUME NEW o \in Orders
    PROVE  LET w == S!Frame(o) IN
           /\ w \notin {Unassigned, IdleCmd, IgnitionCmd, NeutralCmd}
           /\ S!Along(w) = IF o.dirspeed = 0 THEN 0 ELSE IF o.direction = 0 THEN -1 ELSE 1
           /\ S!Across(w) = IF o.rotation = 1 THEN -1 ELSE IF o.rotation = 2 THEN 1 ELSE 0
           /\ S!Turret(w) = IF o.turrelRotation = 1 THEN -1
                            ELSE IF o.turrelRotation = 2 THEN 1 ELSE 0
           /\ ~S!Server!Decode(w).weapon[1] /\ ~S!Server!Decode(w).weapon[3]
           /\ ~S!Server!Decode(w).weapon[4]
           /\ S!Server!Decode(w).weapon[2] <=> o.canonElevation
<1> DEFINE k == ParseJSON(S!ToJSON(o))
           w == S!Frame(o)
           D == S!Server!Decode(w)
<1>1. w = GetCmd(k)
  BY ServerReads DEF S!Frame
<1>2. /\ k \in Fresh /\ ~IsSpecial(k) /\ ~k.fire /\ ~k.gun /\ ~k.recoil
      /\ k.canonElevation <=> o.canonElevation
      /\ k.direction = (IF o.direction = 0 THEN "Forward" ELSE "Backward")
      /\ k.dirspeed = o.dirspeed
      /\ k.rotation = S!Rotation(o.rotation)
      /\ k.turrelRotation = S!Rotation(o.turrelRotation)
  BY OrderIsRead
<1> HIDE DEF k, w
<1>3. w = CRC(Payload(k))
  BY <1>1, <1>2, FrameOf
<1>4. D = Meaning(k)
  BY <1>2, <1>3, ServerReads, DecodesTo
<1>5. o.dirspeed % 8 = o.dirspeed /\ o.dirspeed # 7
  BY DEF Orders
<1>6. w \notin {Unassigned, IdleCmd, IgnitionCmd, NeutralCmd}
  BY <1>2, <1>3, <1>5, PartsMakeNoEngineFrame, NoBits DEF Unassigned
<1> DEFINE e == k.dirspeed % 8
           ct == IF k.rotation = "None" THEN <<"None", 0>> ELSE <<k.rotation, k.rotspeed % 8>>
           lt == k.turrelRotation = "Left"
           rt == k.turrelRotation = "Right"
           fi == k.fire
           gu == k.gun
           ca == k.canonElevation
           re == k.recoil
           dv == IF k.direction = "Other" THEN <<"Forward", 7 - e>> ELSE <<k.direction, e>>
<1>7. D = [drive |-> dv, turn |-> ct,
           turret |-> <<lt, rt>>, weapon |-> <<fi, ca, gu, re>>]
  BY <1>4, Zenon DEF Meaning
<1>d. dv = <<k.direction, e>>
  <2>1. k.direction # "Other"
    BY <1>2
  <2> QED BY <2>1, Zenon
<1>8. /\ lt \in BOOLEAN /\ rt \in BOOLEAN /\ ~fi /\ ~gu /\ ~re
      /\ ca <=> o.canonElevation
  BY <1>2, Zenon
<1> HIDE DEF D, lt, rt, fi, gu, ca, re, dv
<1>9. /\ D.drive[1] = k.direction /\ D.drive[2] = e /\ D.turn = ct
      /\ D.turret[1] = lt /\ D.turret[2] = rt
      /\ D.weapon[1] = fi /\ D.weapon[2] = ca /\ D.weapon[3] = gu /\ D.weapon[4] = re
  BY <1>7, <1>d
<1>10. ct[1] = k.rotation
  OBVIOUS
<1>11. S!Rotation(0) = "None" /\ S!Rotation(1) = "Left" /\ S!Rotation(2) = "Right"
  <2>1. 0 # 1 /\ 0 # 2 /\ 1 # 2
    OBVIOUS
  <2> QED BY <2>1, Zenon DEF S!Rotation
<1>12. o.direction \in {0, 1} /\ o.rotation \in {0, 1, 2} /\ o.turrelRotation \in {0, 1, 2}
  BY DEF Orders
<1>13. S!Along(w) = IF o.dirspeed = 0 THEN 0 ELSE IF o.direction = 0 THEN -1 ELSE 1
  <2>1. S!Along(w) = IF D.drive[2] = 0 THEN 0 ELSE IF D.drive[1] = "Forward" THEN -1 ELSE 1
    BY Zenon DEF S!Along, D
  <2> QED BY <1>2, <1>5, <1>9, <1>12, <2>1
<1>14. S!Across(w) = IF o.rotation = 1 THEN -1 ELSE IF o.rotation = 2 THEN 1 ELSE 0
  <2> DEFINE q == D.turn[1]
  <2>1. S!Across(w) = CASE q = "Left" -> -1 [] q = "Right" -> 1 [] q = "None" -> 0
    BY Zenon DEF S!Across, D
  <2>2. q = k.rotation
    BY <1>9, <1>10
  <2> HIDE DEF q
  <2>3. "Left" # "Right" /\ "Left" # "None" /\ "Right" # "None"
    OBVIOUS
  <2>4. /\ q = "Left" => S!Across(w) = -1
        /\ q = "Right" => S!Across(w) = 1
        /\ q = "None" => S!Across(w) = 0
    BY <2>1, <2>3, Zenon
  <2>5. 1 # 2 /\ 0 # 1 /\ 0 # 2
    OBVIOUS
  <2> QED BY <1>2, <1>11, <1>12, <2>2, <2>4, <2>5
<1>15. S!Turret(w) = IF o.turrelRotation = 1 THEN -1 ELSE IF o.turrelRotation = 2 THEN 1 ELSE 0
  <2>1. S!Turret(w) = IF D.turret[1] THEN -1 ELSE IF D.turret[2] THEN 1 ELSE 0
    BY Zenon DEF S!Turret, D
  <2>2. S!Turret(w) = IF lt THEN -1 ELSE IF rt THEN 1 ELSE 0
    BY <1>9, <2>1, Zenon
  <2>3. 1 # 2 /\ 0 # 1 /\ 0 # 2
    OBVIOUS
  <2>4. /\ lt <=> k.turrelRotation = "Left"
        /\ rt <=> k.turrelRotation = "Right"
    BY DEF lt, rt
  <2> QED BY <1>2, <1>11, <1>12, <2>2, <2>3, <2>4
<1>16. /\ ~D.weapon[1] /\ ~D.weapon[3] /\ ~D.weapon[4]
       /\ D.weapon[2] <=> o.canonElevation
  BY <1>8, <1>9, Zenon
<1> QED BY <1>6, <1>13, <1>14, <1>15, <1>16, Zenon DEF D, w

(* The commands that do what a push of a stick asks for, or nothing. *)
AlongOf(o) == IF o.dirspeed = 0 THEN 0 ELSE IF o.direction = 0 THEN -1 ELSE 1
SideOf(n) == IF n = 1 THEN -1 ELSE IF n = 2 THEN 1 ELSE 0

Asked(stick, p) ==
    {o \in Orders :
       /\ AlongOf(o) \in {0, IF stick = "move" THEN S!Sign(p[2]) ELSE 0}
       /\ SideOf(o.rotation) \in {0, IF stick = "move" THEN S!Sign(p[1]) ELSE 0}
       /\ SideOf(o.turrelRotation) \in {0, IF stick = "turrel" THEN S!Sign(p[1]) ELSE 0}
       /\ o.canonElevation => stick = "turrel" /\ p[2] # 0}

LEMMA Signs ==
    ASSUME NEW n \in Int
    PROVE  /\ n > 0 => S!Sign(n) = 1
           /\ n < 0 => S!Sign(n) = -1
BY DEF S!Sign

LEMMA MoveAsked ==
    ASSUME NEW p \in Int \X Int
    PROVE  S!UpdateMoveGmPd(p) \in Seq(Asked("move", p))
<1> DEFINE A == Asked("move", p)
<1>1. p[1] \in Int /\ p[2] \in Int
  OBVIOUS
<1>2. <<>> \in Seq(A) /\ \A o \in A : <<o>> \in Seq(A)
  OBVIOUS
<1>3. ASSUME NEW rot \in {1, 2}, NEW speed \in 0..3,
             (rot = 1 /\ p[1] < 0) \/ (rot = 2 /\ p[1] > 0)
      PROVE  S!Turn(rot, speed) \in Seq(A)
  <2>1. PICK o \in Orders :
             /\ S!Turn(rot, speed) = <<o>>
             /\ o.direction = 0 /\ o.dirspeed = 0 /\ o.rotation = rot
             /\ o.rotspeed = speed /\ o.turrelRotation = 0 /\ ~o.canonElevation
    BY OrdersAre
  <2>2. AlongOf(o) = 0 /\ SideOf(o.turrelRotation) = 0
        /\ SideOf(o.rotation) = S!Sign(p[1])
    BY <1>1, <1>3, <2>1, Signs DEF AlongOf, SideOf
  <2>3. o \in A
    BY <2>1, <2>2 DEF Asked
  <2> HIDE DEF A
  <2> QED BY <1>2, <2>1, <2>3
<1>4. ASSUME NEW dir \in {0, 1}, NEW speed \in {2, 3},
             (dir = 0 /\ p[2] < 0) \/ (dir = 1 /\ p[2] > 0)
      PROVE  S!Go(dir, speed) \in Seq(A)
  <2>0. speed \in 0..3
    OBVIOUS
  <2>1. PICK o \in Orders :
             /\ S!Go(dir, speed) = <<o>>
             /\ o.direction = dir /\ o.dirspeed = speed /\ o.rotation = 0
             /\ o.rotspeed = 0 /\ o.turrelRotation = 0 /\ ~o.canonElevation
    BY <2>0, OrdersAre
  <2>2. AlongOf(o) = S!Sign(p[2]) /\ SideOf(o.turrelRotation) = 0
        /\ SideOf(o.rotation) = 0
    BY <1>1, <1>4, <2>1, Signs DEF AlongOf, SideOf
  <2>3. o \in A
    BY <2>1, <2>2 DEF Asked
  <2> HIDE DEF A
  <2> QED BY <1>2, <2>1, <2>3
<1> HIDE DEF A
<1>5. S!Turns(p) \in Seq(A)
  <2> DEFINE far == IF S!Above(p, -p[1], 20) THEN 1 ELSE 0
  <2>1. far \in 0..3
    OBVIOUS
  <2>2. \/ S!Turns(p) = <<>>
        \/ S!Turns(p) = S!Turn(2, 1) /\ p[1] > 0
        \/ S!Turns(p) = S!Turn(2, 2) /\ p[1] > 0
        \/ S!Turns(p) = S!Turn(1, far) /\ p[1] < 0
        \/ S!Turns(p) = S!Turn(1, 2) /\ p[1] < 0
    BY TurnsAre, Zenon
  <2> HIDE DEF far
  <2>3. 1 \in 0..3 /\ 2 \in 0..3
    OBVIOUS
  <2>4. p[1] > 0 => S!Turn(2, 1) \in Seq(A) /\ S!Turn(2, 2) \in Seq(A)
    BY <1>3, <2>3
  <2>5. p[1] < 0 => S!Turn(1, far) \in Seq(A) /\ S!Turn(1, 2) \in Seq(A)
    BY <1>3, <2>1, <2>3
  <2> QED BY <1>2, <2>2, <2>4, <2>5, Zenon
<1>6. S!Drives(p) \in Seq(A)
  <2>1. \/ S!Drives(p) = <<>>
        \/ S!Drives(p) = S!Go(0, 2) /\ p[2] < 0
        \/ S!Drives(p) = S!Go(0, 3) /\ p[2] < 0
        \/ S!Drives(p) = S!Go(1, 2) /\ p[2] > 0
        \/ S!Drives(p) = S!Go(1, 3) /\ p[2] > 0
    BY DrivesAre, Zenon
  <2> QED BY <1>2, <1>4, <2>1
<1> QED BY <1>5, <1>6 DEF S!UpdateMoveGmPd, A

LEMMA TurretAsked ==
    ASSUME NEW p \in Int \X Int
    PROVE  S!UpdateTurrelGmPd(p) \in Seq(Asked("turrel", p))
<1> DEFINE A == Asked("turrel", p)
           r == <<[S!Blank EXCEPT !.turrelRotation = 2]>>
           l == <<[S!Blank EXCEPT !.turrelRotation = 1]>>
           e == <<[S!Blank EXCEPT !.canonElevation = TRUE]>>
           a == S!Above(p, p[1], 50)
           b == S!Above(p, -p[1], 50)
           side == CASE a -> r [] b -> l [] OTHER -> <<>>
           c == S!Above(p, p[2], 50) \/ S!Above(p, -p[2], 50)
           up == IF c THEN e ELSE <<>>
<1>1. p[1] \in Int /\ -p[1] \in Int /\ (-p[1] > 0 => p[1] < 0) /\ ~(p[1] > 0 /\ p[1] < 0)
  OBVIOUS
<1>2. (a => p[1] > 0) /\ (b => p[1] < 0)
  BY <1>1, AboveIsAtLeast
<1>3. <<>> \in Seq(A) /\ \A o \in A : <<o>> \in Seq(A)
  OBVIOUS
<1>4. S!UpdateTurrelGmPd(p) = side \o up
  BY Zenon DEF S!UpdateTurrelGmPd
<1>5. a => r \in Seq(A)
  <2> SUFFICES ASSUME a PROVE r \in Seq(A)
    OBVIOUS
  <2>1. PICK o \in Orders :
           /\ r = <<o>>
           /\ o.direction = 0 /\ o.dirspeed = 0 /\ o.rotation = 0
           /\ o.rotspeed = 0 /\ o.turrelRotation = 2 /\ ~o.canonElevation
    BY OrdersAre
  <2>2. AlongOf(o) = 0 /\ SideOf(o.rotation) = 0
        /\ SideOf(o.turrelRotation) = S!Sign(p[1])
    BY <1>1, <1>2, <2>1, Signs DEF AlongOf, SideOf
  <2>3. o \in A
    BY <2>1, <2>2 DEF Asked
  <2> HIDE DEF A, r
  <2> QED BY <1>3, <2>1, <2>3
<1>6. b => l \in Seq(A)
  <2> SUFFICES ASSUME b PROVE l \in Seq(A)
    OBVIOUS
  <2>1. PICK o \in Orders :
           /\ l = <<o>>
           /\ o.direction = 0 /\ o.dirspeed = 0 /\ o.rotation = 0
           /\ o.rotspeed = 0 /\ o.turrelRotation = 1 /\ ~o.canonElevation
    BY OrdersAre
  <2>2. AlongOf(o) = 0 /\ SideOf(o.rotation) = 0
        /\ SideOf(o.turrelRotation) = S!Sign(p[1])
    BY <1>1, <1>2, <2>1, Signs DEF AlongOf, SideOf
  <2>3. o \in A
    BY <2>1, <2>2 DEF Asked
  <2> HIDE DEF A, l
  <2> QED BY <1>3, <2>1, <2>3
<1>7. ASSUME p[2] # 0 PROVE e \in Seq(A)
  <2>1. PICK o \in Orders :
           /\ e = <<o>>
           /\ o.direction = 0 /\ o.dirspeed = 0 /\ o.rotation = 0
           /\ o.rotspeed = 0 /\ o.turrelRotation = 0 /\ o.canonElevation
    BY OrdersAre, Zenon
  <2> HIDE DEF e
  <2>2. AlongOf(o) = 0 /\ SideOf(o.rotation) = 0 /\ SideOf(o.turrelRotation) = 0
    BY <2>1 DEF AlongOf, SideOf
  <2>3. o \in A
    BY <1>7, <2>1, <2>2 DEF Asked
  <2> HIDE DEF A
  <2> QED BY <1>3, <2>1, <2>3
<1>c. c => p[2] # 0
  <2>1. p[2] \in Int /\ -p[2] \in Int /\ (-p[2] > 0 => p[2] # 0) /\ (p[2] > 0 => p[2] # 0)
    OBVIOUS
  <2> QED BY <2>1, AboveIsAtLeast
<1> HIDE DEF A, r, l, e, a, b, c
<1>8. side \in Seq(A)
  <2>1. ~(a /\ b)
    BY <1>1, <1>2
  <2>2. (a => side = r) /\ (b => side = l) /\ (~a /\ ~b => side = <<>>)
    BY <2>1, Zenon
  <2> HIDE DEF side
  <2> QED BY <1>3, <1>5, <1>6, <2>2
<1>9. up \in Seq(A)
  BY <1>3, <1>7, <1>c
<1> HIDE DEF side, up
<1>10. side \o up \in Seq(A)
  BY <1>8, <1>9
<1> QED BY <1>4, <1>10 DEF A

(* Every command of a stick moves the tank the way the stick is pushed, the *)
(* one stick its tracks and the other its turret and cannon, and is no      *)
(* engine frame and no shot (Command.js, ParseJSON, GetCmd).                *)
THEOREM FramesAreAsPushed == S!Spec => []FramesFollowPush
<1>1. StickInv => FramesFollowPush
  <2> SUFFICES ASSUME StickInv, NEW i \in DOMAIN sent
               PROVE  LET w == S!Frame(sent[i]) IN
                      /\ w \notin {S!Server!Unassigned, S!Server!IdleCmd,
                                   S!Server!IgnitionCmd, S!Server!NeutralCmd}
                      /\ S!Along(w) \in {0, IF pad = "move" THEN S!Sign(point[2]) ELSE 0}
                      /\ S!Across(w) \in {0, IF pad = "move" THEN S!Sign(point[1]) ELSE 0}
                      /\ S!Turret(w) \in {0, IF pad = "turrel" THEN S!Sign(point[1]) ELSE 0}
                      /\ ~S!Server!Decode(w).weapon[1] /\ ~S!Server!Decode(w).weapon[3]
                      /\ ~S!Server!Decode(w).weapon[4]
                      /\ S!Server!Decode(w).weapon[2] => pad = "turrel" /\ point[2] # 0
    BY Zenon DEF FramesFollowPush, S!FramesFollowPush
  <2>1. point \in Int \X Int /\ (pad = "move" \/ pad = "turrel")
    BY PointsAre, SticksAssumption DEF StickInv
  <2>2. sent \in Seq(Asked(pad, point))
    <3>1. CASE pad = "move"
      BY <2>1, <3>1, MoveAsked DEF StickInv, S!Commands
    <3>2. CASE pad = "turrel"
      BY <2>1, <3>2, TurretAsked DEF StickInv, S!Commands
    <3> QED BY <2>1, <3>1, <3>2
  <2>3. sent[i] \in Asked(pad, point)
    BY <2>2
  <2> DEFINE o == sent[i]
             w == S!Frame(o)
  <2> HIDE DEF o
  <2>4. /\ o \in Orders
        /\ AlongOf(o) \in {0, IF pad = "move" THEN S!Sign(point[2]) ELSE 0}
        /\ SideOf(o.rotation) \in {0, IF pad = "move" THEN S!Sign(point[1]) ELSE 0}
        /\ SideOf(o.turrelRotation)
              \in {0, IF pad = "turrel" THEN S!Sign(point[1]) ELSE 0}
        /\ o.canonElevation => pad = "turrel" /\ point[2] # 0
    BY <2>3 DEF Asked, o
  <2>5. /\ w \notin {Unassigned, IdleCmd, IgnitionCmd, NeutralCmd}
        /\ S!Along(w) = AlongOf(o) /\ S!Across(w) = SideOf(o.rotation)
        /\ S!Turret(w) = SideOf(o.turrelRotation)
        /\ ~S!Server!Decode(w).weapon[1] /\ ~S!Server!Decode(w).weapon[3]
        /\ ~S!Server!Decode(w).weapon[4]
        /\ S!Server!Decode(w).weapon[2] <=> o.canonElevation
    BY <2>4, OrderMoves, Zenon DEF AlongOf, SideOf
  <2> HIDE DEF w
  <2>6. /\ S!Server!Unassigned = Unassigned /\ S!Server!IdleCmd = IdleCmd
        /\ S!Server!IgnitionCmd = IgnitionCmd /\ S!Server!NeutralCmd = NeutralCmd
    BY ServerReads
  <2>7. /\ w \notin {S!Server!Unassigned, S!Server!IdleCmd,
                     S!Server!IgnitionCmd, S!Server!NeutralCmd}
        /\ S!Along(w) \in {0, IF pad = "move" THEN S!Sign(point[2]) ELSE 0}
        /\ S!Across(w) \in {0, IF pad = "move" THEN S!Sign(point[1]) ELSE 0}
        /\ S!Turret(w) \in {0, IF pad = "turrel" THEN S!Sign(point[1]) ELSE 0}
        /\ ~S!Server!Decode(w).weapon[1] /\ ~S!Server!Decode(w).weapon[3]
        /\ ~S!Server!Decode(w).weapon[4]
        /\ S!Server!Decode(w).weapon[2] => pad = "turrel" /\ point[2] # 0
    BY <2>4, <2>5, <2>6, Zenon
  <2> QED BY <2>7, Zenon DEF w, o
<1> QED BY <1>1, StickInit, StickStep, PTL DEF S!Spec

-----------------------------------------------------------------------------
(* A behaviour of FramesSpec (MCFrames) follows the specification of the     *)
(* commands and that of the sticks.                                         *)
THEOREM BothAreFollowed == FramesSpec => Spec /\ S!Spec
<1>1. FramesInit => Init /\ S!Init
  <2>1. ASSUME command = InitCommand("idle"), frames = {} PROVE Init
    BY <2>1 DEF Init, CmdTypes
  <2> QED BY <2>1, Zenon DEF FramesInit
<1>2. [FramesNext]_<<part, vars, stickVars>> => [Next]_vars /\ [S!Next]_S!vars
  BY DEF FramesNext, Follow, vars, stickVars, S!vars
<1> QED BY <1>1, <1>2, PTL DEF FramesSpec, Spec, S!Spec

(* All of it, for that specification: frames of the commands (GetCmd, CRC)  *)
(* and of the pushes (Update).                                              *)
THEOREM FramesAreRight ==
    FramesSpec => [](/\ FramesCheck /\ SpecialFramesReserved
                     /\ FrameMeansCommand /\ AgreesWithTable
                     /\ FramesFollowPush /\ HarderNeverSlower /\ LeftMirrorsRight)
BY BothAreFollowed, OneFrameWithChecksum, EngineFramesReserved, FrameSaysCommand,
   TableIsFollowed, FramesAreAsPushed, HarderIsNeverSlower, LeftIsMirrorOfRight, PTL
=============================================================================
