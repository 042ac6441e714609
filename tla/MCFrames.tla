------------------------------- MODULE MCFrames -------------------------------
(***************************************************************************)
(* Model checking of the frames: those of every command there can be       *)
(* (MCCommand), and those of the commands that the sticks send (Sticks).   *)
(* They share no variable, so a behaviour follows one of the two.          *)
(***************************************************************************)
EXTENDS MCCommand

CONSTANTS Reach, Pads

ASSUME SticksAssumption == Reach \in Nat /\ Pads \subseteq {"move", "turrel"}

VARIABLES part,     \* the part that the behaviour follows
          pad, active, input, point, sent

S == INSTANCE Sticks

stickVars == <<pad, active, input, point, sent>>

FramesInit == \/ /\ part = "commands"
                 /\ Init
                 /\ S!Init /\ pad = "move"
              \/ /\ part = "sticks"
                 /\ command = InitCommand("idle") /\ frames = {}
                 /\ S!Init

Follow(p) == part = p /\ UNCHANGED part

FramesNext == \/ Follow("commands") /\ Next /\ UNCHANGED stickVars
              \/ Follow("sticks") /\ S!Next /\ UNCHANGED vars

FramesSpec == FramesInit /\ [][FramesNext]_<<part, vars, stickVars>>

-----------------------------------------------------------------------------
(* The properties of Sticks; those of Command have their own names here.    *)
FramesFollowPush == S!FramesFollowPush
HarderNeverSlower == S!HarderNeverSlower
LeftMirrorsRight == S!LeftMirrorsRight
=============================================================================
