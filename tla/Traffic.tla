------------------------------- MODULE Traffic -------------------------------
(***************************************************************************)
(* The rate at which commands come in against the rate at which the tank   *)
(* can be told them. The two sticks report every 40 ms (Gamepad.js), a     *)
(* weapon button sends 10, 40 or 50 copies at once (WebUI.js, SendCmd),    *)
(* the console pushes as many as the user types, and a start or a stop of  *)
(* the engine 511 or 61; the sender's queue (Controller.cpp) has no limit, *)
(* a frame takes 24 ms on air or longer, and nothing overtakes. While the  *)
(* connection thread is in AddCmd, the page's commands stay in the socket. *)
(*                                                                         *)
(* Time is counted in units of 8 ms. The code between two sleeps takes     *)
(* none: the real queue is no shorter.                                     *)
(***************************************************************************)
EXTENDS Integers

CONSTANTS
    Tick,         \* from one Update to the next
    FrameTime,    \* what a frame takes on air
    Overrun,      \* by how much its sleeps overrun at most
    PerTick,      \* the most commands that one Update sends
    Copies,       \* the copies that the weapon buttons send
    Counts,       \* the frame counts typed at the console
    EngineFrames, \* the frames that start and stop the engine
    MaxPushed,    \* bound: commands but the sticks' since the line was last free
    MaxLate       \* bound: delay gathered since the line was last free

ASSUME TrafficAssumption ==
    /\ Tick \in Nat \ {0}
    /\ FrameTime \in Nat \ {0}
    /\ Overrun \in Nat
    /\ PerTick \in Nat
    /\ Copies \subseteq Nat
    /\ Counts \subseteq Nat
    /\ EngineFrames \subseteq Nat
    /\ MaxPushed \in Nat
    /\ MaxLate \in Nat

VARIABLES
    toTick,     \* time until the next Update
    onAir,      \* time until the frame on air is over
    backlog,    \* length of cmdQueue
    held,       \* does the connection thread leave the socket unread?
    buffered,   \* commands in the socket
    pushed,     \* history: commands but the sticks' since the line was free
    late        \* history: time that the sticks' commands have lost since then

socket == <<held, buffered>>
vars == <<toTick, onAir, backlog, socket, pushed, late>>

Init == /\ toTick = Tick
        /\ onAir = 0
        /\ backlog = 0
        /\ held = FALSE
        /\ buffered = 0
        /\ pushed = 0
        /\ late = 0

(* The histories. *)
Push(n) == pushed' = pushed + n /\ pushed' <= MaxPushed
Lose(d) == late' = late + d /\ late' <= MaxLate

(* What the page sends is pushed, or waits in the socket.                   *)
Receive(n) == IF held THEN buffered' = buffered + n /\ UNCHANGED <<backlog, held>>
              ELSE backlog' = backlog + n /\ UNCHANGED socket

Excess(n) == IF FrameTime * n > Tick THEN FrameTime * n - Tick ELSE 0

(* The Updates of both sticks, of which one at most is pushed. *)
Update == /\ toTick = 0
          /\ \E n \in 0..PerTick : Receive(n) /\ Lose(Excess(n))
          /\ toTick' = Tick
          /\ UNCHANGED <<onAir, pushed>>

Click == /\ \E n \in Copies : Receive(n) /\ Push(n)
         /\ UNCHANGED <<toTick, onAir, late>>

(* main, which shares the queue. *)
Console == /\ \E n \in Counts : backlog' = backlog + n /\ Push(n)
           /\ UNCHANGED <<toTick, onAir, socket, late>>

(* StartEngine or StopEngine, which the console or the connection thread    *)
(* calls: the caller waits there until the engine has switched, and longer. *)
Engine == /\ \E n \in EngineFrames : backlog' = backlog + n /\ Push(n)
          /\ \/ UNCHANGED held
             \/ ~held /\ held' = TRUE
          /\ UNCHANGED <<toTick, onAir, buffered, late>>

(* The connection thread waits for a lock, or the network delivers nothing; *)
(* then what has gathered is read in one go, up to a command that makes the *)
(* thread wait again.                                                       *)
Hold == /\ ~held
        /\ held' = TRUE
        /\ UNCHANGED <<toTick, onAir, backlog, buffered, pushed, late>>

Release == /\ held
           /\ \E n \in 0..buffered : /\ backlog' = backlog + n
                                     /\ buffered' = buffered - n
                                     /\ n = buffered => held' = FALSE
                                     /\ n < buffered => UNCHANGED held
           /\ UNCHANGED <<toTick, onAir, pushed, late>>

(* Variant: the command stays in the queue. *)
SendKept == /\ onAir = 0
            /\ backlog > 0
            /\ \E d \in 0..Overrun : onAir' = FrameTime + d /\ Lose(d)
            /\ UNCHANGED <<toTick, backlog, socket, pushed>>

(* CommandSender takes the next command and SendCode keeps it for a frame.  *)
Send == /\ onAir = 0
        /\ backlog > 0
        /\ backlog' = backlog - 1
        /\ \E d \in 0..Overrun : onAir' = FrameTime + d /\ Lose(d)
        /\ UNCHANGED <<toTick, socket, pushed>>

(* With an empty queue it repeats a command or sends neutral: the line is   *)
(* free, unless the socket holds commands that might be on air instead.     *)
Fill == /\ onAir = 0
        /\ backlog = 0
        /\ \E d \in 0..Overrun :
              /\ onAir' = FrameTime + d
              /\ IF buffered = 0 THEN late' = d /\ late' <= MaxLate
                                 ELSE Lose(FrameTime + d)
        /\ pushed' = IF buffered = 0 THEN 0 ELSE pushed
        /\ UNCHANGED <<toTick, backlog, socket>>

(* Time passes when nothing is due; with the engine off an empty queue      *)
(* sends nothing.                                                           *)
Pass == /\ toTick > 0
        /\ onAir > 0 \/ backlog = 0
        /\ toTick' = toTick - 1
        /\ onAir' = IF onAir > 0 THEN onAir - 1 ELSE 0
        /\ Lose(IF onAir = 0 /\ buffered > 0 THEN 1 ELSE 0)
        /\ UNCHANGED <<backlog, socket, pushed>>

Next == \/ Update \/ Click \/ Console \/ Engine \/ Hold \/ Release
        \/ Send \/ Fill \/ Pass

Spec == Init /\ [][Next]_vars

(* The interval timer, the sender and the clock go on; a thread that waits  *)
(* returns.                                                                 *)
Fairly == Update \/ Send \/ Fill \/ Pass
FairSpec == Spec /\ WF_vars(Fairly) /\ WF_vars(Release)

-----------------------------------------------------------------------------
TypeOK == /\ toTick \in 0..Tick
          /\ onAir \in 0..FrameTime + Overrun
          /\ backlog \in Nat
          /\ held \in BOOLEAN
          /\ buffered \in Nat /\ (buffered > 0 => held)
          /\ pushed \in Nat
          /\ late \in Nat

(* How long the line takes for all that it was asked to send.               *)
Wait == FrameTime * (backlog + buffered) + onAir

(* A command waits for one frame and until the next Update at most, and     *)
(* longer only by the frames that the buttons, the console and the engine   *)
(* sequences put before it since the line was last free, and by the time    *)
(* lost since then: the excess of a diagonal push (8 ms for every 40 ms it  *)
(* lasts), the overrun of frames, and the time that the line spent without  *)
(* the commands that StartEngine, a lock or the network kept in the socket. *)
(* A straight push alone adds nothing, however long it lasts: once the      *)
(* commands that were held back are read, the line catches up with them     *)
(* (GamePad.Update, SendCmd, AddCmd, StartEngine, CommandSender, SendCode). *)
WaitBounded == Wait <= FrameTime + FrameTime * pushed + late + toTick

(* Once nobody clicks, types or switches the engine any more and no time is *)
(* lost, queue and socket drain although a straight push goes on sending a  *)
(* command each Update, and although commands are held back now and then.   *)
Quiet == pushed' <= pushed /\ late' <= late
Drains == (<>[][Quiet]_vars) => []<>(backlog + buffered <= 1)
=============================================================================
