-------------------------------- MODULE Sticks --------------------------------
(***************************************************************************)
(* From the push of a stick to the frames of the tank: Stick.update and    *)
(* GamePad.Update (src/WebUI/Scripts/stick.js, Gamepad.js), the thresholds *)
(* of UpdateMoveGmPd and UpdateTurrelGmPd (WebUI.js) and the page's        *)
(* Command object (Command.js), read by the server's Command class.        *)
(*                                                                         *)
(* A push is a point <<x, y>> in whole pixels from the centre of the stick.*)
(* A percentage is one of the radius of 60 pixels; comparisons are made in *)
(* squares, so they are exact on the rim as well (the code's sine and      *)
(* cosine may fall on either side of an exact tie there).                  *)
(***************************************************************************)
EXTENDS Integers, Sequences

CONSTANTS Reach,    \* bound: how far from the centre a finger drags, in pixels
          Pads      \* the sticks: "move" and "turrel"

Points == (-Reach..Reach) \X (-Reach..Reach)
Centre == <<0, 0>>

VARIABLES pad,      \* the stick
          active,   \* Stick.active
          input,    \* Stick.input, from the centre, before the rim limits it
          point,    \* GamePad.point: the push of the last Update
          sent      \* the commands that the last Update sent

vars == <<pad, active, input, point, sent>>

Server == INSTANCE MCCommand
          WITH JsonSpeeds <- 0..7, command <- 0, frames <- {}

-----------------------------------------------------------------------------
(* Stick.update: a push that rounds to the radius or more is drawn back to  *)
(* the rim, in the same direction.                                          *)
Square(p) == p[1] * p[1] + p[2] * p[2]
AtLimit(p) == 4 * Square(p) >= 119 * 119

(* Coordinate c of push p is above, or at least, a percentage of the radius.*)
(* Percentages are multiples of five, so in pixels they are whole numbers.  *)
Pixels(percent) == (3 * percent) \div 5

Above(p, c, percent) ==
    IF AtLimit(p)
    THEN c > 0 /\ 3600 * c * c > Pixels(percent) * Pixels(percent) * Square(p)
    ELSE c > Pixels(percent)

AtLeast(p, c, percent) ==
    IF AtLimit(p)
    THEN c > 0 /\ 3600 * c * c >= Pixels(percent) * Pixels(percent) * Square(p)
    ELSE c >= Pixels(percent)

Between(p, c, low, high) == Above(p, c, low) /\ ~AtLeast(p, c, high)

-----------------------------------------------------------------------------
(* The page's Command, and what the server reads of its JSON text: the      *)
(* numbers of the enumerations of Command.h.                                *)
Blank == [direction |-> 0, dirspeed |-> 0, rotation |-> 0, rotspeed |-> 0,
          turrelRotation |-> 0, canonElevation |-> FALSE]

Rotation(n) == CASE n = 0 -> "None" [] n = 1 -> "Left" [] n = 2 -> "Right"

ToJSON(c) ==
    [idle |-> FALSE, ignition |-> FALSE, neutral |-> FALSE,
     direction |-> IF c.direction = 0 THEN "Forward" ELSE "Backward",
     dirspeed |-> c.dirspeed,
     rotation |-> Rotation(c.rotation), rotspeed |-> c.rotspeed,
     turrelRotation |-> Rotation(c.turrelRotation),
     canonElevation |-> c.canonElevation,
     fire |-> FALSE, gun |-> FALSE, recoil |-> FALSE,
     engineStart |-> FALSE, engineStop |-> FALSE]

Frame(c) == Server!GetCmd(Server!ParseJSON(ToJSON(c)))

Turn(rot, speed) == <<[Blank EXCEPT !.rotation = rot, !.rotspeed = speed]>>
Go(dir, speed) == <<[Blank EXCEPT !.direction = dir, !.dirspeed = speed]>>

(* The sideways part of UpdateMoveGmPd. The slow speed to the left is       *)
(* |round(X / 40)|, which is 0 up to 20 per cent; a push of 80 per cent or  *)
(* more, or of exactly 50, is in none of the four ranges.                   *)
Turns(p) ==
    CASE Between(p, p[1], 15, 50)  -> Turn(2, 1)
      [] Between(p, p[1], 50, 80)  -> Turn(2, 2)
      [] Between(p, -p[1], 15, 50) -> Turn(1, IF Above(p, -p[1], 20) THEN 1 ELSE 0)
      [] Between(p, -p[1], 50, 80) -> Turn(1, 2)
      [] OTHER                     -> <<>>

(* Variants: the reverse is slower for a hard push; the two directions are  *)
(* the wrong way round, as the server's default Backward invites.           *)
DrivesSwapped(p) ==
    CASE Between(p, -p[2], 15, 35) -> Go(0, 2)
      [] Above(p, -p[2], 35)       -> Go(0, 3)
      [] Between(p, p[2], 15, 35)  -> Go(1, 3)
      [] Above(p, p[2], 35)        -> Go(1, 2)
      [] OTHER                     -> <<>>

DrivesMirrored(p) ==
    CASE Between(p, -p[2], 15, 35) -> Go(1, 2)
      [] Above(p, -p[2], 35)       -> Go(1, 3)
      [] Between(p, p[2], 15, 35)  -> Go(0, 2)
      [] Above(p, p[2], 35)        -> Go(0, 3)
      [] OTHER                     -> <<>>

(* The part along the tank: pushing the stick away, up the screen, is ahead.*)
Drives(p) ==
    CASE Between(p, -p[2], 15, 35) -> Go(0, 2)
      [] Above(p, -p[2], 35)       -> Go(0, 3)
      [] Between(p, p[2], 15, 35)  -> Go(1, 2)
      [] Above(p, p[2], 35)        -> Go(1, 3)
      [] OTHER                     -> <<>>

UpdateMoveGmPd(p) == Turns(p) \o Drives(p)

UpdateTurrelGmPd(p) ==
    (CASE Above(p, p[1], 50)  -> <<[Blank EXCEPT !.turrelRotation = 2]>>
       [] Above(p, -p[1], 50) -> <<[Blank EXCEPT !.turrelRotation = 1]>>
       [] OTHER               -> <<>>)
    \o (IF Above(p, p[2], 50) \/ Above(p, -p[2], 50)
        THEN <<[Blank EXCEPT !.canonElevation = TRUE]>> ELSE <<>>)

(* Variant: the range of a slow turn to the right misses its upper half. *)
CommandsLopsided(p) ==
    IF pad = "move" /\ Between(p, p[1], 30, 50) THEN Drives(p)
    ELSE IF pad = "move" THEN UpdateMoveGmPd(p) ELSE UpdateTurrelGmPd(p)

Commands(p) == IF pad = "move" THEN UpdateMoveGmPd(p) ELSE UpdateTurrelGmPd(p)

-----------------------------------------------------------------------------
Init == /\ pad \in Pads
        /\ active = FALSE
        /\ input = Centre
        /\ point = Centre
        /\ sent = <<>>

(* A drag starts anywhere and goes on pixel by pixel; between two of its    *)
(* events there is an Update, for only the last one before it counts.       *)
Near(p) == {<<p[1] + d, p[2]>> : d \in {-1, 1}} \cup {<<p[1], p[2] + d>> : d \in {-1, 1}}

DragTo(p) == /\ point = input
             /\ active' = TRUE
             /\ input' = p
             /\ UNCHANGED <<pad, point, sent>>

DragEnd == /\ active' = FALSE
           /\ input' = Centre
           /\ UNCHANGED <<pad, point, sent>>

(* The canvas, 256 pixels wide, never limits a push within the rim.         *)
Update == /\ point' = IF active THEN input ELSE Centre
          /\ sent' = Commands(point')
          /\ UNCHANGED <<pad, active, input>>

Next == \/ \E p \in IF active THEN Near(input) \cap Points ELSE Points : DragTo(p)
        \/ DragEnd
        \/ Update

Spec == Init /\ [][Next]_vars

-----------------------------------------------------------------------------
Sign(n) == IF n > 0 THEN 1 ELSE IF n < 0 THEN -1 ELSE 0

(* What the tank does on a frame, as the reference decoder reads it: the    *)
(* motion along and across, and that of the turret.                         *)
Along(w) == LET d == Server!Decode(w).drive
            IN  IF d[2] = 0 THEN 0 ELSE IF d[1] = "Forward" THEN -1 ELSE 1

Across(w) == LET d == Server!Decode(w).turn[1]
             IN  CASE d = "Left" -> -1 [] d = "Right" -> 1 [] d = "None" -> 0

Turret(w) == LET d == Server!Decode(w).turret
             IN  IF d[1] THEN -1 ELSE IF d[2] THEN 1 ELSE 0

(* Every command of a stick, written as numbers by the page and read as     *)
(* enumerations by the server, moves the tank the way the stick is pushed:  *)
(* the move stick neither the turret nor the cannon, the other no track.    *)
(* None is read as an engine frame or as "no command", none fires and none  *)
(* recoils (Command.js toJSON, ParseJSON, GetCmd).                          *)
FramesFollowPush ==
    \A i \in DOMAIN sent : LET w == Frame(sent[i]) IN
        /\ w \notin {Server!Unassigned, Server!IdleCmd, Server!IgnitionCmd,
                     Server!NeutralCmd}
        /\ Along(w) \in {0, IF pad = "move" THEN Sign(point[2]) ELSE 0}
        /\ Across(w) \in {0, IF pad = "move" THEN Sign(point[1]) ELSE 0}
        /\ Turret(w) \in {0, IF pad = "turrel" THEN Sign(point[1]) ELSE 0}
        /\ LET weapon == Server!Decode(w).weapon
           IN  /\ ~weapon[1] /\ ~weapon[3] /\ ~weapon[4]
               /\ weapon[2] => pad = "turrel" /\ point[2] # 0

(* A push a pixel further along the tank never drives it slower, but at the *)
(* very pixel of 35 per cent, which is in neither range (UpdateMoveGmPd).   *)
DriveSpeed(p) == LET d == Drives(p) IN IF d = <<>> THEN 0 ELSE d[1].dirspeed
Further(p) == <<p[1], p[2] + Sign(p[2])>>
HarderNeverSlower ==
    \/ \E c \in {Further(point)[2], -Further(point)[2]} :
          /\ AtLeast(Further(point), c, 35)
          /\ ~Above(Further(point), c, 35)
    \/ DriveSpeed(Further(point)) >= DriveSpeed(point)

(* Left and right are mirror images: a push and its mirror image send the   *)
(* same commands but for the side, and turns that differ by one speed at    *)
(* most, the left one never the faster (UpdateMoveGmPd, UpdateTurrelGmPd).  *)
OtherSide(n) == CASE n = 0 -> 0 [] n = 1 -> 2 [] n = 2 -> 1
LeftMirrorsRight ==
    LET left == Commands(<<-point[1], point[2]>>)
    IN  point[1] > 0 =>
           /\ Len(left) = Len(sent)
           /\ \A i \in DOMAIN sent :
                /\ left[i].rotation = OtherSide(sent[i].rotation)
                /\ left[i].turrelRotation = OtherSide(sent[i].turrelRotation)
                /\ sent[i].rotspeed - left[i].rotspeed \in {0, 1}
                /\ [left[i] EXCEPT !.rotation = 0, !.rotspeed = 0,
                                   !.turrelRotation = 0]
                   = [sent[i] EXCEPT !.rotation = 0, !.rotspeed = 0,
                                     !.turrelRotation = 0]
=============================================================================
