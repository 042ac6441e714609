-------------------------------- MODULE MCPage --------------------------------
(***************************************************************************)
(* Model checking of two parts of the web page: the traffic of commands it *)
(* makes (Traffic) and the picture it draws (Overlay). They share nothing, *)
(* so a behaviour follows one of them: whatever the other does in between, *)
(* the one goes on as it does alone.                                       *)
(***************************************************************************)
EXTENDS Traffic

CONSTANTS Ranges, Wide, MaxEngaged

ASSUME EngagedAssumption ==
    /\ MaxEngaged \in Nat
    /\ Wide \subseteq Ranges
    /\ "none" \notin Wide

VARIABLES part,     \* the part that the behaviour follows
          recoil, reticuleNum, knob, show, alertsTimer, rangeTimer, running,
          engaged, sensors, canvas

O == INSTANCE Overlay

overlayVars == <<recoil, reticuleNum, knob, show, alertsTimer, rangeTimer,
                 running, engaged, sensors, canvas>>
pageVars == <<part, vars, overlayVars>>

PageInit == part \in {"traffic", "overlay"} /\ Init /\ O!Init

Follow(p) == part = p /\ UNCHANGED part

PageNext == \/ Follow("traffic") /\ Next /\ UNCHANGED overlayVars
            \/ Follow("overlay") /\ O!Next /\ UNCHANGED vars

PageSpec == /\ PageInit /\ [][PageNext]_pageVars
            /\ WF_vars(Follow("traffic") /\ Fairly)
            /\ WF_vars(Follow("traffic") /\ Release)
            /\ WF_overlayVars(Follow("overlay") /\ O!DrawAlerts)

-----------------------------------------------------------------------------
(* The properties of Overlay; those of Traffic have their own names here.   *)
ClearWhenSecured == O!ClearWhenSecured
AlertBlinks == O!AlertBlinks
=============================================================================
