-------------------------------- MODULE Tank --------------------------------
(***************************************************************************)
(* The web page and the Controller together. The commands of the page      *)
(* reach the Controller through a connection thread, which serves one      *)
(* command after the other and blocks in StartEngine and StopEngine; the   *)
(* status messages of CommandSender reach the page that connected last.    *)
(* Nobody uses the console.                                                *)
(***************************************************************************)
EXTENDS Controller

CONSTANT MaxClicks

ASSUME ClicksAssumption == /\ MaxClicks \in Nat
                           /\ ClientCodes \cap {"start", "stop"} = {}

VARIABLES
    engineState, picture, repaints, warmupTimer, pageSocket, uplink, downlink,
    lost, clicks,
    line        \* the thread that serves the page's connection

UI == INSTANCE WebUI WITH Drives <- ClientCodes, socket <- pageSocket

uiVars == <<engineState, picture, repaints, warmupTimer, pageSocket, uplink,
            downlink, lost, clicks>>
tankVars == <<vars, uiVars, line>>

TankInit == Init /\ UI!Init /\ line \in Connections

-----------------------------------------------------------------------------
(* OnMessage hands the next command to AddCmd. *)
Serve == /\ uplink # <<>>
         /\ LET command == Head(uplink) IN
              CASE command = "start" -> StartEngine(line)
                [] command = "stop"  -> StopEngine(line)
                [] OTHER -> Ask(line, "add", <<External(command, now)>>)
         /\ uplink' = Tail(uplink)
         /\ UNCHANGED <<engineState, picture, repaints, warmupTimer, pageSocket,
                        downlink, lost, clicks, line>>

(* SendMsg writes to the open connection, if there is one. *)
ReportToPage == /\ Report
                /\ downlink' = IF pageSocket = "open"
                               THEN Append(downlink, status') ELSE downlink
                /\ lost' = (lost \/ pageSocket # "open")
                /\ UNCHANGED <<engineState, picture, repaints, warmupTimer,
                               pageSocket, uplink, clicks, line>>

(* A new connection is served by a thread that is not in a call. *)
Connect == /\ UI!Open
           /\ \E c \in Connections : pc[c] = "ready" /\ line' = c
           /\ UNCHANGED vars

PageStep == /\ UI!Click \/ UI!Page \/ UI!Disconnect \/ UI!Reload
            /\ UNCHANGED <<vars, line>>

SilentStep == \/ Check
              \/ PeekNonEmpty
              \/ PeekEmpty
              \/ AcquireToPop
              \/ Pop
              \/ ReleaseAfterPop
              \/ SendCode

TankNext == \/ PageStep
            \/ Connect
            \/ Serve
            \/ ReportToPage
            \/ SilentStep /\ UNCHANGED <<uiVars, line>>
            \/ /\ \E c \in Connections : CallerStep(c)
               /\ UNCHANGED <<uiVars, line>>
            \/ Stay /\ UNCHANGED <<uiVars, line>>

TankSpec == TankInit /\ [][TankNext]_tankVars

(* The threads run, the page handles its events and its timer. Nothing      *)
(* obliges the operator to click.                                           *)
TankFairness ==
    /\ WF_tankVars(ReportToPage \/ (SilentStep /\ UNCHANGED <<uiVars, line>>))
    /\ WF_tankVars(Serve)
    /\ WF_tankVars(UI!RequestCmd /\ UNCHANGED <<vars, line>>)
    /\ WF_tankVars((UI!Repaint \/ UI!TimerFires) /\ UNCHANGED <<vars, line>>)
    /\ \A c \in Connections :
          WF_tankVars(CallerStep(c) /\ UNCHANGED <<uiVars, line>>)

FairTankSpec == TankSpec /\ TankFairness

-----------------------------------------------------------------------------
(* Nothing is under way between the page and the tank. *)
AtRest == /\ uplink = <<>> /\ downlink = <<>>
          /\ cmdQueue = <<>> /\ spc # "report"
          /\ \A c \in Connections : pc[c] = "ready"

(* When nothing is under way and nothing was lost, the page believes what   *)
(* CommandSender holds, whatever was clicked in which state: late and       *)
(* repeated status messages never have the last word.                       *)
PageAgrees ==
    AtRest /\ ~lost => engineState = IF engineStarted THEN "start" ELSE "stop"

(* Under the same conditions, a button that shows "on" or "off" tells the   *)
(* truth: in particular, "off" after an emergency stop, and also while the  *)
(* interval timer still runs. (It may show "warmup" for ever: the emergency *)
(* button cancels no repaint.)                                              *)
ButtonTellsTruth ==
    AtRest /\ ~lost
       => /\ picture = "on" => engineStarted
          /\ picture = "off" => ~engineStarted

(* The page never waits for ever, unless something was lost. *)
PageAnswered ==
    (engineState = "warmup") ~> (engineState # "warmup" \/ lost \/ Halted)
=============================================================================
