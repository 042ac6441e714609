-------------------------------- MODULE WebUI --------------------------------
(***************************************************************************)
(* The engine panel of the web page (src/WebUI/Scripts/WebUI.js) and its   *)
(* socket (WebSocketMng.js): what the operator clicks, what the page       *)
(* believes of the engine and shows on the start button, the commands on   *)
(* their way to the server and the messages on their way back.             *)
(***************************************************************************)
EXTENDS Integers, Sequences

CONSTANTS
    Drives,     \* what the sticks and the weapon buttons send
    MaxClicks   \* bound: clicks of the operator

VARIABLES
    engineState,    \* what the page believes: "stop", "warmup" or "start"
    picture,        \* what the start button shows
    repaints,       \* timeouts that will show "warmup", 100 ms after a click
    warmupTimer,    \* the state the interval timer waits for, or "none"
    socket,         \* "connecting", "open" or "closed"
    uplink,         \* commands sent and not yet read by the server
    downlink,       \* messages sent by the server and not yet received
    lost,           \* history: was a command or a message lost?
    clicks

panelVars == <<engineState, picture, repaints, warmupTimer>>
netVars == <<socket, uplink, downlink>>
vars == <<engineState, picture, repaints, warmupTimer, socket, uplink,
          downlink, lost, clicks>>

Init == /\ engineState = "stop"
        /\ picture = "off"
        /\ repaints = 0
        /\ warmupTimer = "none"
        /\ socket = "connecting"
        /\ uplink = <<>>
        /\ downlink = <<>>
        /\ lost = FALSE
        /\ clicks = 0

-----------------------------------------------------------------------------
(* SendCmd drops the command silently unless the socket is open. (Weapon    *)
(* buttons send 10 to 50 copies of theirs: here one.)                       *)
SendCmd(cmd) == /\ uplink' = IF socket = "open" THEN Append(uplink, cmd)
                                                ELSE uplink
                /\ lost' = (lost \/ socket # "open")
                /\ clicks < MaxClicks
                /\ clicks' = clicks + 1
                /\ UNCHANGED <<socket, downlink>>

(* The start button: a click while the page waits does nothing. *)
ClickStart ==
    /\ \E asked \in {"start", "stop"} :
          /\ engineState = IF asked = "start" THEN "stop" ELSE "start"
          /\ SendCmd(asked)
          /\ warmupTimer' = asked
    /\ engineState' = "warmup"
    /\ picture' = "pressed"
    /\ repaints' = repaints + 1

(* Variant: the button only changes its looks. *)
ClickEmergencyUnsent == /\ engineState' = "stop"
                        /\ picture' = "off"
                        /\ warmupTimer' = "none"
                        /\ clicks < MaxClicks
                        /\ clicks' = clicks + 1
                        /\ UNCHANGED <<repaints, netVars, lost>>

(* Variant: the button leaves the timer of an earlier click running. *)
ClickEmergencyTimed == /\ engineState' = "stop"
                       /\ picture' = "off"
                       /\ SendCmd("stop")
                       /\ UNCHANGED <<repaints, warmupTimer>>

(* The emergency button cancels the interval timer, but no repaint. *)
ClickEmergency == /\ engineState' = "stop"
                  /\ picture' = "off"
                  /\ warmupTimer' = "none"
                  /\ SendCmd("stop")
                  /\ UNCHANGED repaints

Drive == /\ \E cmd \in Drives : SendCmd(cmd)
         /\ UNCHANGED panelVars

Repaint == /\ repaints > 0
           /\ repaints' = repaints - 1
           /\ picture' = "warmup"
           /\ UNCHANGED <<engineState, warmupTimer, netVars, lost, clicks>>

(* The interval timer finds the state it waits for, a second and more after *)
(* the click: repaints are over.                                            *)
TimerFires == /\ repaints = 0
              /\ warmupTimer # "none"
              /\ engineState = warmupTimer
              /\ picture' = IF warmupTimer = "start" THEN "on" ELSE "off"
              /\ warmupTimer' = "none"
              /\ UNCHANGED <<engineState, repaints, netVars, lost, clicks>>

(* RequestCmd, for an ENGINE_STATUS message. *)
RequestCmd == /\ downlink # <<>>
              /\ engineState' = Head(downlink)
              /\ downlink' = Tail(downlink)
              /\ UNCHANGED <<picture, repaints, warmupTimer, socket, uplink, lost,
                             clicks>>

-----------------------------------------------------------------------------
(* The socket is connected. *)
Open == /\ socket = "connecting"
        /\ socket' = "open"
        /\ UNCHANGED <<panelVars, uplink, downlink, lost, clicks>>

(* The connection is lost, and what is under way with it. After an error    *)
(* the page connects again; after a mere close it does not.                 *)
Disconnect == /\ socket = "open"
              /\ socket' \in {"connecting", "closed"}
              /\ uplink' = <<>>
              /\ downlink' = <<>>
              /\ lost' = TRUE
              /\ UNCHANGED <<panelVars, clicks>>

(* The page is loaded anew: it believes that the engine is off. *)
Reload == /\ engineState' = "stop"
          /\ picture' = "off"
          /\ repaints' = 0
          /\ warmupTimer' = "none"
          /\ socket' = "connecting"
          /\ uplink' = <<>>
          /\ downlink' = <<>>
          /\ lost' = TRUE
          /\ UNCHANGED clicks

Click == ClickStart \/ ClickEmergency \/ Drive

Page == RequestCmd \/ Repaint \/ TimerFires

Next == Click \/ Page \/ Open \/ Disconnect \/ Reload

=============================================================================
