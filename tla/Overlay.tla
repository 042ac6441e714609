-------------------------------- MODULE Overlay --------------------------------
(***************************************************************************)
(* What the web page draws over the picture of the camera once the tank is *)
(* engaged (src/WebUI/Scripts/WebUI.js): the reticule that its knob        *)
(* selects, a blinking alert and the range that the sensors last told,     *)
(* each drawn by a click or by an interval of its own on one canvas.       *)
(***************************************************************************)
EXTENDS Integers, FiniteSets

CONSTANTS Ranges,       \* what the sensors tell
          Wide,         \* those whose text reaches under the reticule
          MaxEngaged    \* bound: times the tank is engaged

None == "none"
Cut == "cut"      \* the left part of a range

VARIABLES
    recoil,         \* is the tank engaged?
    reticuleNum,    \* the reticule that is selected, 0 for none
    knob,           \* the rotation of its knob, in steps of 60 degrees
    show,           \* will the alert be shown next time?
    alertsTimer, rangeTimer,    \* the numbers of intervals, 0 at first
    running,        \* the intervals that run
    engaged,        \* how often the tank was engaged
    sensors,        \* the range last told, None at first
    canvas          \* what is drawn on it

vars == <<recoil, reticuleNum, knob, show, alertsTimer, rangeTimer, running,
          engaged, sensors, canvas>>
timers == <<alertsTimer, rangeTimer, running, engaged>>

Blank == [reticule |-> 0, alert |-> FALSE, range |-> None]

Init == /\ recoil = FALSE
        /\ reticuleNum = 0
        /\ knob = 0
        /\ show = TRUE
        /\ alertsTimer = 0 /\ rangeTimer = 0 /\ running = {}
        /\ engaged = 0
        /\ sensors = None
        /\ canvas = Blank

(* The knob turns, and the place of the old picture is drawn anew. It is    *)
(* cleared down to the lower right corner of the canvas, so the end of a    *)
(* long range goes with it; the alert is above.                             *)
ShowReticule(num, on) ==
    /\ reticuleNum' = num
    /\ knob' = num
    /\ canvas' = [on EXCEPT !.reticule = num,
                            !.range = IF @ \in Wide THEN Cut ELSE @]

(* setInterval, twice.                                                      *)
StartTimers == /\ engaged' = engaged + 1
               /\ alertsTimer' = 2 * engaged + 1
               /\ rangeTimer' = 2 * engaged + 2
               /\ running' = running \cup {alertsTimer', rangeTimer'}

(* Variant: one of the intervals is forgotten. *)
StopAlerts == /\ running' = running \ {alertsTimer}
              /\ UNCHANGED <<alertsTimer, rangeTimer, engaged>>

StopTimers == /\ running' = running \ {alertsTimer, rangeTimer}
              /\ UNCHANGED <<alertsTimer, rangeTimer, engaged>>

(* The button that engages the tank and secures it.                         *)
ClickRecoil ==
    /\ recoil' = ~recoil
    /\ IF recoil
       THEN /\ StopTimers
            /\ UNCHANGED show
            /\ ShowReticule(0, Blank)
       ELSE /\ engaged < MaxEngaged
            /\ StartTimers
            /\ show' = TRUE
            /\ ShowReticule(-1, canvas)
    /\ UNCHANGED sensors

(* The knob: it does nothing unless the tank is engaged.                    *)
ClickReticule ==
    /\ recoil
    /\ ShowReticule(IF reticuleNum > -2 THEN reticuleNum - 1 ELSE 2, canvas)
    /\ UNCHANGED <<recoil, show, timers, sensors>>

ContextMenu ==
    /\ recoil
    /\ ShowReticule(IF reticuleNum < 2 THEN reticuleNum + 1 ELSE -2, canvas)
    /\ UNCHANGED <<recoil, show, timers, sensors>>

Alerts == running \cap {2 * n + 1 : n \in 0..MaxEngaged}
RangeInfos == running \ Alerts

(* Variant: what it returns is not kept. *)
DrawAlertsUnkept ==
    /\ Alerts # {}
    /\ canvas' = [canvas EXCEPT !.alert = show]
    /\ UNCHANGED <<recoil, reticuleNum, knob, show, timers, sensors>>

DrawAlerts == /\ Alerts # {}
              /\ canvas' = [canvas EXCEPT !.alert = show]
              /\ show' = ~show
              /\ UNCHANGED <<recoil, reticuleNum, knob, timers, sensors>>

DrawRangeInfo == /\ RangeInfos # {}
                 /\ sensors # None
                 /\ canvas' = [canvas EXCEPT !.range = sensors]
                 /\ UNCHANGED <<recoil, reticuleNum, knob, show, timers, sensors>>

(* RequestCmd, for a SENSORS message.                                       *)
RequestCmd == /\ sensors' \in Ranges
              /\ UNCHANGED <<recoil, reticuleNum, knob, show, timers, canvas>>

Next == \/ ClickRecoil \/ ClickReticule \/ ContextMenu
        \/ DrawAlerts \/ DrawRangeInfo \/ RequestCmd

Spec == Init /\ [][Next]_vars

(* The interval of the alert runs. *)
FairSpec == Spec /\ WF_vars(DrawAlerts)

-----------------------------------------------------------------------------
(* A secured tank has a clear view and nothing that will draw on it; an     *)
(* engaged one has one interval of each kind, so that the alert, when the   *)
(* operator toggles the button at any time, blinks as it should, and the    *)
(* picture and the knob show the reticule that is selected.                 *)
ClearWhenSecured ==
    IF recoil THEN /\ Cardinality(Alerts) = 1 /\ Cardinality(RangeInfos) = 1
                   /\ canvas.reticule = reticuleNum /\ knob = reticuleNum
    ELSE running = {} /\ canvas = Blank /\ reticuleNum = 0 /\ knob = 0

(* An alert goes on blinking while the tank is engaged. *)
AlertBlinks == /\ recoil ~> (canvas.alert \/ ~recoil)
               /\ canvas.alert ~> ~canvas.alert
==============================================================================
