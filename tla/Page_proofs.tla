----------------------------- MODULE Page_proofs -----------------------------
(***************************************************************************)
(* The bound on the wait in the queue, for every rate of the page and of   *)
(* the line, and the picture of the engaged tank, for every number of      *)
(* clicks.                                                                 *)
(***************************************************************************)
EXTENDS MCPage, TLAPS, FiniteSetTheorems

(* A frame more, or n, is FrameTime, or FrameTime * n, more time. *)
LEMMA MoreFrames == ASSUME NEW a \in Nat, NEW b \in Nat, NEW c \in Nat
                    PROVE  /\ a * (b + c) = a * b + a * c
                           /\ a * b \in Nat
                           /\ b > 0 => a * (b - 1) = a * b - a
BY SMT

(* What an Update sends keeps the line busy until the next Update, or       *)
(* longer by its excess.                                                    *)
LEMMA ExcessCovers == ASSUME NEW n \in Nat
                      PROVE  /\ Excess(n) \in Nat
                             /\ FrameTime * n <= Tick + Excess(n)
<1>1. FrameTime * n \in Nat  BY MoreFrames, TrafficAssumption
<1> QED  BY <1>1, TrafficAssumption DEF Excess

(* The variables keep their types (Traffic.tla, every action). *)
THEOREM TrafficTypes == Spec => []TypeOK
<1>1. Init => TypeOK
    <2> SUFFICES ASSUME Init PROVE TypeOK
        OBVIOUS
    <2>1. held \in BOOLEAN
        BY Zenon DEF Init
    <2> QED  BY <2>1, TrafficAssumption DEF Init, TypeOK
<1>2. TypeOK /\ [Next]_vars => TypeOK'
    <2> SUFFICES ASSUME TypeOK, [Next]_vars PROVE TypeOK'
        OBVIOUS
    <2> USE TrafficAssumption DEF TypeOK, socket, Receive, Push, Lose
    <2>1. CASE Update
        <3>1. PICK n \in 0..PerTick : Receive(n) /\ Lose(Excess(n))
            BY <2>1 DEF Update
        <3>2. n \in Nat /\ Excess(n) \in Nat  BY ExcessCovers
        <3> QED  BY <2>1, <3>1, <3>2 DEF Update
    <2>2. CASE Click
        <3>1. PICK n \in Copies : Receive(n) /\ Push(n)
            BY <2>2 DEF Click
        <3>2. n \in Nat  OBVIOUS
        <3> QED  BY <2>2, <3>1, <3>2 DEF Click
    <2>3. CASE Console
        <3>1. PICK n \in Counts : backlog' = backlog + n /\ Push(n)
            BY <2>3 DEF Console
        <3>2. n \in Nat  OBVIOUS
        <3> QED  BY <2>3, <3>1, <3>2 DEF Console
    <2>4. CASE Engine
        <3>1. PICK n \in EngineFrames : backlog' = backlog + n /\ Push(n)
            BY <2>4 DEF Engine
        <3>2. n \in Nat  OBVIOUS
        <3>3. held' \in BOOLEAN /\ (held => held')
            <4>1. held \in BOOLEAN  OBVIOUS
            <4>2. CASE UNCHANGED held
                BY <4>1, <4>2, Zenon
            <4>3. CASE ~held /\ held' = TRUE
                BY <4>3, Zenon
            <4> QED  BY <2>4, <4>2, <4>3, Zenon DEF Engine
        <3> QED  BY <2>4, <3>1, <3>2, <3>3 DEF Engine
    <2>5. CASE Hold
        BY <2>5 DEF Hold
    <2>6. CASE Release
        <3>1. PICK n \in 0..buffered : /\ backlog' = backlog + n
                                       /\ buffered' = buffered - n
                                       /\ n = buffered => held' = FALSE
                                       /\ n < buffered => UNCHANGED held
            BY <2>6 DEF Release
        <3>2. CASE n = buffered
            <4>1. held' \in BOOLEAN
                BY <3>1, <3>2, Zenon
            <4> QED  BY <2>6, <3>1, <3>2, <4>1 DEF Release
        <3>3. CASE n < buffered
            <4>1. held /\ held' = held
                BY <2>6, <3>1, <3>3 DEF Release
            <4>2. held' \in BOOLEAN /\ held'
                BY <4>1, Zenon
            <4> QED  BY <2>6, <3>1, <4>2 DEF Release
        <3> QED  BY <3>1, <3>2, <3>3
    <2>7. CASE Send
        BY <2>7 DEF Send
    <2>8. CASE Fill
        BY <2>8 DEF Fill
    <2>9. CASE Pass
        BY <2>9 DEF Pass
    <2>10. CASE UNCHANGED vars
        BY <2>10 DEF vars
    <2> QED  BY <2>1, <2>2, <2>3, <2>4, <2>5, <2>6, <2>7, <2>8, <2>9, <2>10
             DEF Next
<1> QED  BY <1>1, <1>2, PTL DEF Spec

(* What is received waits, in the queue or in the socket.                   *)
LEMMA ReceivedWaits ==
    ASSUME TypeOK, NEW n \in Nat, Receive(n)
    PROVE  /\ FrameTime * (backlog + buffered)' =
                  FrameTime * (backlog + buffered) + FrameTime * n
           /\ FrameTime * n \in Nat
<1>1. /\ FrameTime \in Nat /\ backlog + buffered \in Nat
      /\ (backlog + buffered)' = (backlog + buffered) + n
    BY TrafficAssumption DEF TypeOK, Receive, socket
<1> QED  BY <1>1, MoreFrames

(* So is what main or an engine sequence pushes, behind the sticks' back.   *)
LEMMA PushedWaits ==
    ASSUME TypeOK, NEW n \in Nat, Push(n),
           (backlog + buffered)' = (backlog + buffered) + n,
           onAir' = onAir, toTick' = toTick, late' = late,
           WaitBounded
    PROVE  WaitBounded'
<1>1. /\ FrameTime \in Nat /\ toTick \in Nat /\ onAir \in Nat
      /\ backlog + buffered \in Nat /\ pushed \in Nat /\ late \in Nat
    BY TrafficAssumption DEF TypeOK
<1>2. /\ FrameTime * (backlog + buffered)' =
            FrameTime * (backlog + buffered) + FrameTime * n
      /\ FrameTime * pushed' = FrameTime * pushed + FrameTime * n
      /\ FrameTime * (backlog + buffered) \in Nat
      /\ FrameTime * pushed \in Nat /\ FrameTime * n \in Nat
    BY <1>1, MoreFrames DEF Push
<1> QED  BY <1>1, <1>2 DEF WaitBounded, Wait

(* A command waits no longer than a frame, the time to the next Update, the *)
(* frames that buttons, console and engine sequences pushed and the time    *)
(* lost since the line was free. The bound is inductive: time passing       *)
(* lowers both sides, an Update raises the left one by FrameTime * n and    *)
(* the right one by Tick + Excess(n), a push raises both by as much, and    *)
(* what is kept in the socket counts wherever it waits.                     *)
THEOREM WaitIsBounded == Spec => []WaitBounded
<1>1. Init => WaitBounded
    <2>1. FrameTime * 0 = 0  BY TrafficAssumption
    <2> QED  BY <2>1, TrafficAssumption DEF Init, WaitBounded, Wait
<1>2. TypeOK /\ WaitBounded /\ [Next]_vars => WaitBounded'
    <2> SUFFICES ASSUME TypeOK, WaitBounded, [Next]_vars PROVE WaitBounded'
        OBVIOUS
    <2>t. /\ FrameTime \in Nat /\ Tick \in Nat /\ Overrun \in Nat
          /\ toTick \in Nat /\ onAir \in Nat /\ backlog \in Nat
          /\ buffered \in Nat /\ pushed \in Nat /\ late \in Nat
        BY TrafficAssumption DEF TypeOK
    <2>w. /\ FrameTime * (backlog + buffered) \in Nat
          /\ FrameTime * pushed \in Nat
          /\ FrameTime * (backlog + buffered) + onAir
                <= FrameTime + FrameTime * pushed + late + toTick
        BY <2>t, MoreFrames DEF WaitBounded, Wait
    <2>0. FrameTime * 0 = 0  BY <2>t
    <2>1. CASE Update
        <3>1. PICK n \in 0..PerTick : Receive(n) /\ Lose(Excess(n))
            BY <2>1 DEF Update
        <3>2. n \in Nat  BY TrafficAssumption
        <3>3. /\ Excess(n) \in Nat
              /\ FrameTime * n <= Tick + Excess(n)
            BY <3>2, ExcessCovers
        <3>4. /\ FrameTime * (backlog + buffered)' =
                    FrameTime * (backlog + buffered) + FrameTime * n
              /\ FrameTime * n \in Nat
            BY <3>1, <3>2, ReceivedWaits
        <3>5. /\ toTick = 0 /\ toTick' = Tick /\ onAir' = onAir
              /\ pushed' = pushed /\ late' = late + Excess(n)
            BY <2>1, <3>1 DEF Update, Lose
        <3>6. FrameTime * (backlog + buffered)' + onAir'
                 <= FrameTime + FrameTime * pushed' + late' + toTick'
            BY <2>t, <2>w, <3>3, <3>4, <3>5
        <3> QED  BY <3>6 DEF WaitBounded, Wait
    <2>2. CASE Click
        <3>1. PICK n \in Copies : Receive(n) /\ Push(n)
            BY <2>2 DEF Click
        <3>2. n \in Nat /\ (backlog + buffered)' = (backlog + buffered) + n
            BY <3>1, <2>t, TrafficAssumption DEF Receive, socket
        <3> QED  BY <2>2, <3>1, <3>2, PushedWaits DEF Click
    <2>3. CASE Console
        <3>1. PICK n \in Counts : backlog' = backlog + n /\ Push(n)
            BY <2>3 DEF Console
        <3>2. n \in Nat /\ (backlog + buffered)' = (backlog + buffered) + n
            BY <2>3, <3>1, <2>t, TrafficAssumption DEF Console, socket
        <3> QED  BY <2>3, <3>1, <3>2, PushedWaits DEF Console
    <2>4. CASE Engine
        <3>1. PICK n \in EngineFrames : backlog' = backlog + n /\ Push(n)
            BY <2>4 DEF Engine
        <3>2. n \in Nat /\ (backlog + buffered)' = (backlog + buffered) + n
            BY <2>4, <3>1, <2>t, TrafficAssumption DEF Engine
        <3> QED  BY <2>4, <3>1, <3>2, PushedWaits DEF Engine
    <2>5. CASE Hold \/ Release
        <3>1. /\ (backlog + buffered)' = backlog + buffered
              /\ UNCHANGED <<toTick, onAir, pushed, late>>
            BY <2>5, <2>t DEF Hold, Release
        <3> QED  BY <3>1 DEF WaitBounded, Wait
    <2>7. CASE Send
        <3>1. PICK d \in 0..Overrun : onAir' = FrameTime + d /\ Lose(d)
            BY <2>7 DEF Send
        <3>2. /\ onAir = 0 /\ backlog > 0
              /\ (backlog + buffered)' = (backlog + buffered) - 1
              /\ toTick' = toTick /\ pushed' = pushed /\ late' = late + d
            BY <2>7, <2>t, <3>1 DEF Send, socket, Lose
        <3>3. FrameTime * (backlog + buffered)' =
                 FrameTime * (backlog + buffered) - FrameTime
            BY <2>t, <3>2, MoreFrames
        <3>4. FrameTime * (backlog + buffered)' + onAir'
                 <= FrameTime + FrameTime * pushed' + late' + toTick'
            BY <2>t, <2>w, <3>1, <3>2, <3>3, TrafficAssumption
        <3> QED  BY <3>4 DEF WaitBounded, Wait
    <2>8. CASE Fill
        <3>1. /\ onAir = 0 /\ backlog' = backlog /\ buffered' = buffered
              /\ backlog = 0 /\ toTick' = toTick
            BY <2>8 DEF Fill, socket
        <3>2. CASE buffered = 0
            <4>1. PICK d \in 0..Overrun : onAir' = FrameTime + d /\ late' = d
                BY <2>8, <3>2 DEF Fill
            <4>2. /\ FrameTime * (backlog + buffered)' = 0
                  /\ FrameTime * pushed' = 0
                BY <2>0, <2>8, <3>1, <3>2 DEF Fill
            <4>3. FrameTime * (backlog + buffered)' + onAir'
                     <= FrameTime + FrameTime * pushed' + late' + toTick'
                BY <2>t, <3>1, <4>1, <4>2
            <4> QED  BY <4>3 DEF WaitBounded, Wait
        <3>3. CASE buffered # 0
            <4>1. PICK d \in 0..Overrun : /\ onAir' = FrameTime + d
                                          /\ Lose(FrameTime + d)
                BY <2>8, <3>3 DEF Fill
            <4>2. /\ late' = late + FrameTime + d /\ pushed' = pushed
                  /\ (backlog + buffered)' = backlog + buffered
                BY <2>8, <2>t, <3>1, <3>3, <4>1 DEF Fill, Lose
            <4>3. FrameTime * (backlog + buffered)' + onAir'
                     <= FrameTime + FrameTime * pushed' + late' + toTick'
                BY <2>t, <2>w, <3>1, <4>1, <4>2
            <4> QED  BY <4>3 DEF WaitBounded, Wait
        <3> QED  BY <3>2, <3>3
    <2>9. CASE Pass
        <3>1. /\ toTick > 0 /\ toTick' = toTick - 1
              /\ onAir > 0 \/ backlog = 0
              /\ onAir' = IF onAir > 0 THEN onAir - 1 ELSE 0
              /\ late' = late + IF onAir = 0 /\ buffered > 0 THEN 1 ELSE 0
              /\ pushed' = pushed /\ (backlog + buffered)' = backlog + buffered
            BY <2>9 DEF Pass, socket, Lose
        <3>2. CASE onAir > 0
            <4>1. FrameTime * (backlog + buffered)' + onAir'
                     <= FrameTime + FrameTime * pushed' + late' + toTick'
                BY <2>t, <2>w, <3>1, <3>2
            <4> QED  BY <4>1 DEF WaitBounded, Wait
        <3>3. CASE onAir = 0 /\ buffered > 0
            <4>1. FrameTime * (backlog + buffered)' + onAir'
                     <= FrameTime + FrameTime * pushed' + late' + toTick'
                BY <2>t, <2>w, <3>1, <3>3
            <4> QED  BY <4>1 DEF WaitBounded, Wait
        <3>4. CASE onAir = 0 /\ buffered = 0
            <4>1. FrameTime * (backlog + buffered)' = 0
                BY <2>0, <2>t, <3>1, <3>4
            <4>2. FrameTime * (backlog + buffered)' + onAir'
                     <= FrameTime + FrameTime * pushed' + late' + toTick'
                BY <2>t, <2>w, <3>1, <3>4, <4>1
            <4> QED  BY <4>2 DEF WaitBounded, Wait
        <3> QED  BY <2>t, <3>2, <3>3, <3>4
    <2>10. CASE UNCHANGED vars
        BY <2>10 DEF vars, socket, WaitBounded, Wait
    <2> QED  BY <2>1, <2>2, <2>3, <2>4, <2>5, <2>7, <2>8, <2>9, <2>10 DEF Next
<1> QED  BY <1>1, <1>2, TrafficTypes, PTL DEF Spec
-----------------------------------------------------------------------------
(* The picture over the camera.                                             *)

Pictures == [reticule : Int, alert : BOOLEAN, range : Ranges \cup {O!None, O!Cut}]

DrawingTypes ==
    /\ reticuleNum \in Int
    /\ sensors \in Ranges \cup {O!None}
    /\ show \in BOOLEAN
    /\ canvas \in Pictures

(* The intervals that were started last are those that run, if any: their   *)
(* numbers tell how often the tank was engaged.                             *)
TimersCount ==
    /\ engaged \in 0..MaxEngaged
    /\ recoil => /\ engaged > 0
                 /\ alertsTimer = 2 * engaged - 1
                 /\ rangeTimer = 2 * engaged
    /\ running = IF recoil THEN {alertsTimer, rangeTimer} ELSE {}

(* The picture and the knob show the reticule that is selected, or nothing. *)
PictureFollows ==
    /\ knob = reticuleNum
    /\ canvas.reticule = reticuleNum
    /\ ~recoil => canvas = O!Blank

OInv == DrawingTypes /\ recoil \in BOOLEAN /\ TimersCount /\ PictureFollows

LEMMA BlankPicture == O!Blank \in Pictures /\ O!Blank.reticule = 0
<1>1. FALSE \in BOOLEAN /\ 0 \in Int /\ O!None \in Ranges \cup {O!None, O!Cut}
    OBVIOUS
<1> QED  BY <1>1 DEF O!Blank, Pictures

(* The invariant holds before the tank is engaged. *)
LEMMA InitOInv == O!Init => OInv
<1> SUFFICES ASSUME O!Init PROVE OInv
    OBVIOUS
<1>0. /\ reticuleNum = 0 /\ knob = 0 /\ sensors = O!None /\ canvas = O!Blank
      /\ show \in BOOLEAN /\ 0 \in Int
    BY DEF O!Init
<1>1. DrawingTypes /\ PictureFollows
    BY <1>0, BlankPicture DEF DrawingTypes, PictureFollows
<1>2. recoil \in BOOLEAN /\ ~recoil
    BY DEF O!Init
<1>3. TimersCount
    BY <1>2, EngagedAssumption DEF O!Init, TimersCount
<1> QED  BY <1>1, <1>2, <1>3 DEF OInv

(* Without an interval that runs, nothing draws. *)
LEMMA TimersOfKind ==
    ASSUME OInv
    PROVE  /\ recoil => O!Alerts = {alertsTimer} /\ O!RangeInfos = {rangeTimer}
           /\ ~recoil => O!Alerts = {} /\ O!RangeInfos = {}
<1>1. CASE recoil
    <2>1. /\ running = {2 * engaged - 1, 2 * engaged}
          /\ engaged \in Nat /\ engaged - 1 \in 0..MaxEngaged
        BY <1>1, EngagedAssumption DEF OInv, TimersCount
    <2>2. 2 * engaged - 1 = 2 * (engaged - 1) + 1
        BY <2>1
    <2>3. \A n \in 0..MaxEngaged : 2 * engaged # 2 * n + 1
        BY <2>1, EngagedAssumption
    <2>4. O!Alerts = {2 * engaged - 1}
        BY <2>1, <2>2, <2>3 DEF O!Alerts
    <2>5. O!RangeInfos = {2 * engaged}
        BY <2>1, <2>4 DEF O!RangeInfos
    <2> QED  BY <1>1, <2>4, <2>5 DEF OInv, TimersCount
<1>2. CASE ~recoil
    BY <1>2 DEF OInv, TimersCount, O!Alerts, O!RangeInfos
<1> QED  BY <1>1, <1>2

(* What ShowReticule leaves is a picture, of the reticule that is selected. *)
LEMMA ShownIsPicture ==
    ASSUME DrawingTypes, NEW num \in Int, O!ShowReticule(num, canvas)
    PROVE  /\ reticuleNum' = num /\ knob' = num
           /\ canvas' \in Pictures /\ canvas'.reticule = num
<1>1. PICK r \in Ranges \cup {O!None, O!Cut} :
         canvas' = [canvas EXCEPT !.reticule = num, !.range = r]
    BY DEF DrawingTypes, Pictures, O!ShowReticule
<1> QED  BY <1>1 DEF DrawingTypes, Pictures, O!ShowReticule

(* Every step of the page preserves it. *)
LEMMA StepOInv == OInv /\ [O!Next]_overlayVars => OInv'
<1> SUFFICES ASSUME OInv, [O!Next]_overlayVars PROVE OInv'
    OBVIOUS
<1> USE DEF OInv, DrawingTypes, TimersCount, PictureFollows, Pictures
<1>1. CASE O!ClickRecoil
    <2>1. CASE recoil
        <3>1. /\ ~recoil' /\ recoil' \in BOOLEAN /\ engaged' = engaged
              /\ running' = {}
            BY <1>1, <2>1 DEF O!ClickRecoil, O!StopTimers
        <3>2. /\ reticuleNum' = 0 /\ knob' = 0 /\ UNCHANGED <<sensors, show>>
              /\ canvas' = [O!Blank EXCEPT !.reticule = 0,
                                           !.range = IF @ \in Wide THEN O!Cut ELSE @]
            BY <1>1, <2>1 DEF O!ClickRecoil, O!ShowReticule
        <3>3. canvas' = O!Blank /\ canvas'.reticule = 0
            BY <3>2, EngagedAssumption DEF O!Blank, O!None
        <3>4. DrawingTypes' /\ PictureFollows'
            BY <3>1, <3>2, <3>3, BlankPicture
        <3> QED  BY <3>1, <3>4
    <2>2. CASE ~recoil
        <3>1. /\ engaged < MaxEngaged /\ recoil'
              /\ engaged' = engaged + 1
              /\ alertsTimer' = 2 * engaged + 1 /\ rangeTimer' = 2 * engaged + 2
              /\ running' = running \cup {alertsTimer', rangeTimer'}
            BY <1>1, <2>2 DEF O!ClickRecoil, O!StartTimers
        <3>2. TimersCount'
            BY <2>2, <3>1, EngagedAssumption
        <3>3. O!ShowReticule(-1, canvas) /\ sensors' = sensors /\ show' = TRUE
            BY <1>1, <2>2, Zenon DEF O!ClickRecoil
        <3>4. DrawingTypes'
            BY <3>3, ShownIsPicture
        <3>5. PictureFollows'
            BY <3>1, <3>3, ShownIsPicture
        <3> QED  BY <3>1, <3>2, <3>4, <3>5
    <2> QED  BY <2>1, <2>2
<1>2. CASE O!ClickReticule \/ O!ContextMenu
    <2>1. PICK num \in Int : O!ShowReticule(num, canvas)
        BY <1>2 DEF O!ClickReticule, O!ContextMenu
    <2> QED
        BY <1>2, <2>1 DEF O!ClickReticule, O!ContextMenu, O!ShowReticule, O!timers
<1>3. CASE O!DrawAlerts \/ O!DrawRangeInfo
    <2>1. recoil
        BY <1>3, TimersOfKind DEF O!DrawAlerts, O!DrawRangeInfo
    <2> QED
        BY <1>3, <2>1 DEF O!DrawAlerts, O!DrawRangeInfo, O!timers
<1>4. CASE O!RequestCmd
    BY <1>4 DEF O!RequestCmd, O!timers
<1>5. CASE UNCHANGED overlayVars
    BY <1>5 DEF overlayVars
<1> QED  BY <1>1, <1>2, <1>3, <1>4, <1>5 DEF O!Next

(* A secured tank has a clear view and nothing that will draw on it, an     *)
(* engaged one an interval of each kind, however often and however fast the *)
(* buttons are clicked (ClickRecoil, ShowReticule).                         *)
THEOREM ViewIsClear == PageSpec => []ClearWhenSecured
<1>1. PageInit => OInv
    BY InitOInv DEF PageInit
<1>2. [PageNext]_pageVars => [O!Next]_overlayVars
    BY DEF PageNext, pageVars
<1>3. OInv => ClearWhenSecured
    <2> SUFFICES ASSUME OInv PROVE ClearWhenSecured
        OBVIOUS
    <2>1. \A t : O!Cardinality({t}) = 1
        BY FS_Singleton DEF O!Cardinality, Cardinality
    <2>2. O!Cardinality({alertsTimer}) = 1 /\ O!Cardinality({rangeTimer}) = 1
        BY <2>1
    <2>3. CASE recoil
        BY <2>2, <2>3, TimersOfKind
           DEF OInv, PictureFollows, ClearWhenSecured, O!ClearWhenSecured
    <2>4. CASE ~recoil
        BY <2>4, BlankPicture
           DEF OInv, TimersCount, PictureFollows, ClearWhenSecured,
               O!ClearWhenSecured
    <2> QED  BY <2>3, <2>4
<1> QED  BY <1>1, <1>2, <1>3, StepOInv, PTL DEF PageSpec

(* The bound on the wait holds of the page as it is checked, too.           *)
COROLLARY PageWaitIsBounded == PageSpec => []WaitBounded
<1>1. [PageNext]_pageVars => [Next]_vars
    BY DEF PageNext, pageVars
<1> QED  BY <1>1, WaitIsBounded, PTL DEF PageSpec, PageInit, Spec
=============================================================================
