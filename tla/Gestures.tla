------------------------------- MODULE Gestures -------------------------------
(***************************************************************************)
(* The touch and mouse events of the page, from the browser to the sticks: *)
(* the listeners, the detection session and the gestures of hammer.js 1.0.6*)
(* (src/WebUI/Scripts/hammer.js; the page loads a build of the same code)  *)
(* and the handlers of Gamepad.js. All elements share one session and one  *)
(* "triggered" flag per gesture.                                           *)
(***************************************************************************)
EXTENDS Integers, FiniteSets

CONSTANTS
    Sticks,       \* the canvases of the two sticks
    Panel,        \* the log panel
    Elsewhere,    \* the rest of the page, which no hammer instance covers
    None,         \* no element, no session
    Fingers,
    MouseEvents   \* not NO_MOUSEEVENTS: false on phones and tablets

Elements == Sticks \cup {Panel}
Places == Elements \cup {Elsewhere}

ASSUME GesturesAssumption == None \notin Places /\ IsFiniteSet(Fingers)

VARIABLES
    finger,     \* where each finger touched the page, or None
    mouse,      \* "up", "down", or "echo": pressed by the browser itself
    echo,       \* the place where it will press it after a tap, or None
    flags,      \* enable_detect, touch_triggered, touches of last_move_event
    current,    \* detection.current: element, gesture, touches at its start
    lastTap,    \* detection.previous: its element if it was a tap, or None
    gestures,   \* Drag.triggered, Transform.triggered, Hold.timer
    fired,      \* the events that the last step triggered on an element
    stick,      \* Stick.enabled and Stick.active
    missed,     \* history: the browser never told the release of the button
    swept       \* history: sticks active when all fingers left at once

hammerVars == <<flags, current, lastTap, gestures, fired, stick>>
vars == <<finger, mouse, echo, hammerVars, missed, swept>>

Down(f) == {x \in Fingers : f[x] # None}
Touched == Down(finger) # {} \/ mouse # "up"

NoFlags == [enabled |-> FALSE, touch |-> FALSE, last |-> 0]
NoSession == [on |-> None, name |-> "", touches |-> 0]
Nothing == [on |-> None, events |-> {}]
Idle == [enabled |-> FALSE, active |-> FALSE]

Init == /\ finger = [f \in Fingers |-> None]
        /\ mouse = "up"
        /\ echo = None
        /\ flags = NoFlags
        /\ current = NoSession
        /\ lastTap = None
        /\ gestures = [drag |-> FALSE, transform |-> FALSE, timer |-> FALSE]
        /\ fired = Nothing
        /\ stick = [s \in Sticks |-> Idle]
        /\ missed = FALSE
        /\ swept = {}

-----------------------------------------------------------------------------
(* The handlers that a GamePad binds to the events of its canvas. *)
React(s, e) ==
    CASE e = "touch"     -> [s EXCEPT !.enabled = TRUE]
      [] e = "release"   -> [s EXCEPT !.enabled = FALSE]
      [] e = "dragstart" -> [s EXCEPT !.active = @ \/ s.enabled]
      [] e = "dragend"   -> [s EXCEPT !.active = FALSE]
      [] OTHER           -> s

(* The gestures. A handler maps the detection g, a record of the session's  *)
(* name, the flags of the gestures, the events triggered so far and the     *)
(* stick that the session is on, to the detection after event ev: its type, *)
(* touches, distance from the start, and whether it turned (scale or        *)
(* rotation past the thresholds), was fast, was a brief touch that stayed   *)
(* where it was, soon after the last one, or was a cancellation. An event   *)
(* that is triggered is handled at once.                                    *)
Fire(g, e) == [g EXCEPT !.events = @ \cup {e}, !.stick = React(@, e)]

Touch(g, ev) == IF ev.type = "start" THEN Fire(g, "touch") ELSE g

(* Variant: only a move clears the timer. *)
HoldOnEnd(g, ev) ==
    CASE ev.type = "start" -> [g EXCEPT !.name = "hold", !.timer = TRUE]
      [] ev.type = "move"  -> [g EXCEPT !.timer = @ /\ ev.distance <= 1]
      [] OTHER -> g

Hold(g, ev) ==
    CASE ev.type = "start" -> [g EXCEPT !.name = "hold", !.timer = TRUE]
      [] ev.type = "move"  -> [g EXCEPT !.timer = @ /\ ev.distance <= 1]
      [] ev.type = "end"   -> [g EXCEPT !.timer = FALSE]

(* The limit on touches is never reached: it asks for too few and too many. *)
Swipe(g, ev) == IF ev.type = "end" /\ ev.fast THEN Fire(g, "swipe") ELSE g

Transform(g, ev) ==
    LET begun == IF g.transform THEN g ELSE Fire(g, "transformstart")
    IN  IF g.name # "transform" /\ g.transform
        THEN [Fire(g, "transformend") EXCEPT !.transform = FALSE]
        ELSE IF ev.touches < 2 THEN g
        ELSE
        CASE ev.type = "start" -> [g EXCEPT !.transform = FALSE]
          [] ev.type = "move" ->
                IF ev.turned
                THEN [Fire(begun, "transform")
                         EXCEPT !.name = "transform", !.transform = TRUE]
                ELSE g
          [] ev.type = "end" ->
                [IF g.transform THEN Fire(g, "transformend") ELSE g
                    EXCEPT !.transform = FALSE]

(* Variant: another gesture takes over and the drag is only forgotten. *)
DragForgotten(g, ev) ==
    IF g.name # "drag" /\ g.drag THEN [g EXCEPT !.drag = FALSE]
    ELSE IF ev.touches > 1 THEN g
    ELSE
    CASE ev.type = "start" -> [g EXCEPT !.drag = FALSE]
      [] ev.type = "move" ->
            IF ev.distance < 10 /\ g.name # "drag" THEN g
            ELSE [IF g.drag THEN Fire(g, "drag")
                            ELSE Fire(Fire(g, "dragstart"), "drag")
                     EXCEPT !.name = "drag", !.drag = TRUE]
      [] OTHER -> [IF g.drag THEN Fire(g, "dragend") ELSE g EXCEPT !.drag = FALSE]

(* Another gesture that takes over ends the drag, on the element of the     *)
(* session that runs by then; with two touches nothing else happens, so the *)
(* end of a session does not end a drag that two fingers leave at once.     *)
Drag(g, ev) ==
    LET begun == IF g.drag THEN g ELSE Fire(g, "dragstart")
    IN  IF g.name # "drag" /\ g.drag
        THEN [Fire(g, "dragend") EXCEPT !.drag = FALSE]
        ELSE IF ev.touches > 1 THEN g
        ELSE
        CASE ev.type = "start" -> [g EXCEPT !.drag = FALSE]
          [] ev.type = "move" ->
                IF ev.distance < 10 /\ g.name # "drag" THEN g
                ELSE [Fire(begun, "drag") EXCEPT !.name = "drag", !.drag = TRUE]
          [] ev.type = "end" ->
                [IF g.drag THEN Fire(g, "dragend") ELSE g EXCEPT !.drag = FALSE]

(* A tap that follows another, wherever that was, is a double tap as well.  *)
Tap(g, ev) ==
    LET double == lastTap # None /\ ev.soon
        twice  == IF double THEN Fire(g, "doubletap") ELSE g
    IN  IF ev.type = "end" /\ ~ev.cancelled /\ ev.brief
        THEN [Fire(twice, "tap") EXCEPT !.name = "tap"]
        ELSE g

Release(g, ev) == IF ev.type = "end" THEN Fire(g, "release") ELSE g

(* The gestures in the order of their index. *)
Handlers(g, ev) ==
    Release(Tap(Drag(Transform(Swipe(Hold(Touch(g, ev), ev), ev), ev), ev), ev), ev)

(* Variant: the session goes on, unless the touch that ends is the last one.*)
StopsAtLast(ev) == ev.type = "end" /\ ev.touches = 1

(* The test "!touches.length - 1" stops the session at the end of any number*)
(* of touches but none.                                                     *)
Stops(ev) == ev.type = "end" /\ ev.touches >= 1

(* detection.detect in session c. When the number of touches changes, scale *)
(* and rotation count from here.                                            *)
Detect(c, ev) ==
    LET turned == ev.turned /\ c.touches = ev.touches /\ ev.touches >= 2
        g0 == [name |-> c.name, drag |-> gestures.drag,
               transform |-> gestures.transform, timer |-> gestures.timer,
               events |-> {},
               stick |-> IF c.on \in Sticks THEN stick[c.on] ELSE Idle]
        g  == Handlers(g0, [ev EXCEPT !.turned = turned])
        after == [on |-> c.on, name |-> g.name, touches |-> ev.touches]
    IN  /\ current' = IF Stops(ev) THEN NoSession ELSE after
        /\ lastTap' = IF ~Stops(ev) THEN lastTap
                       ELSE IF g.name = "tap" THEN c.on ELSE None
        /\ gestures' = [drag |-> g.drag, transform |-> g.transform,
                        timer |-> g.timer]
        /\ fired' = [on |-> c.on, events |-> g.events]
        /\ stick' = [s \in Sticks |-> IF s = c.on THEN g.stick ELSE stick[s]]

NotDetected == fired' = Nothing /\ UNCHANGED <<current, lastTap, gestures, stick>>

-----------------------------------------------------------------------------
(* The listeners: of the start on each element, of the rest on the document.*)
Measures(type, touches, cancelled) ==
    {ev \in [type : {type}, touches : {touches}, cancelled : {cancelled},
             distance : {0, 5, 15}, turned : BOOLEAN, fast : BOOLEAN,
             brief : BOOLEAN, soon : BOOLEAN] :
        /\ type # "move" => ev.distance = 0 /\ ~ev.turned
        /\ type # "end" => ~ev.fast /\ ~ev.brief
        /\ ev.soon => ev.brief}

(* The handler that onTouch binds, for an event of a touch or of a pressed  *)
(* button, with count touches left on the page: without any the event is an *)
(* end, and the gestures see the touches of the event before it.            *)
Heard(source, type, count, on) ==
    LET type2 == IF count = 0 THEN "end"
                 ELSE IF type = "start" THEN "start" ELSE "move"
        touches == IF count > 0 THEN count
                   ELSE IF flags.last > 0 THEN flags.last
                   ELSE IF source = "mouse" THEN 1 ELSE 0
        session == IF type2 = "start"
                   THEN [on |-> on, name |-> "", touches |-> touches]
                   ELSE current
    IN  /\ flags' = IF count = 0 THEN NoFlags
                    ELSE [enabled |-> TRUE, touch |-> source = "touch",
                          last |-> count]
        /\ IF (type2 = "start") = (current = NoSession)
           THEN \E ev \in Measures(type2, touches, type = "cancel") :
                   Detect(session, ev)
           ELSE NotDetected

Unheard == NotDetected /\ UNCHANGED flags

(* What the listeners do is over when the next event comes. *)
Noted == /\ missed' = (missed /\ current' # NoSession)
         /\ swept' = swept \ {s \in Sticks : fired'.on = s
                                  /\ "dragend" \in fired'.events}

TouchStart(f, p) ==
    /\ finger[f] = None
    /\ finger' = [finger EXCEPT ![f] = p]
    /\ IF p = Elsewhere THEN Unheard
       ELSE Heard("touch", "start", Cardinality(Down(finger')), p)
    /\ UNCHANGED <<mouse, echo>>
    /\ Noted

TouchMove ==
    /\ Down(finger) # {}
    /\ Heard("touch", "move", Cardinality(Down(finger)), None)
    /\ UNCHANGED <<finger, mouse, echo>>
    /\ Noted

(* Fingers leave the page, or the browser takes the touch away. After a tap *)
(* it presses and releases the mouse at the place, unless the page prevented*)
(* that: the sticks do.                                                     *)
TouchEnd(lifted, type) ==
    /\ lifted # {} /\ lifted \subseteq Down(finger)
    /\ finger' = [f \in Fingers |-> IF f \in lifted THEN None ELSE finger[f]]
    /\ Heard("touch", type, Cardinality(Down(finger')), None)
    /\ echo' \in {None} \cup
                 {p \in Places \ Sticks :
                     /\ MouseEvents /\ type = "end" /\ mouse = "up"
                     /\ Down(finger') = {}
                     /\ \E f \in lifted : lifted = {f} /\ finger[f] = p}
    /\ missed' = (missed /\ current' # NoSession)
    /\ swept' = (swept \cup {s \in Sticks : /\ Down(finger') = {}
                                            /\ Cardinality(lifted) > 1
                                            /\ stick'[s].active})
                 \ {s \in Sticks : fired'.on = s
                                  /\ "dragend" \in fired'.events}
    /\ UNCHANGED mouse

(* While touches are heard, the mouse is not. *)
MouseDown(by, p) ==
    /\ MouseEvents
    /\ mouse = "up"
    /\ by = "echo" => p = echo
    /\ mouse' = by
    /\ echo' = IF by = "echo" THEN None ELSE echo
    /\ IF flags.touch \/ p = Elsewhere THEN Unheard
       ELSE Heard("mouse", "start", 1, p)
    /\ UNCHANGED finger
    /\ Noted

MouseMove == /\ MouseEvents
             /\ ~flags.touch
             /\ mouse = "down"
             /\ Heard("mouse", "move", 1, None)
             /\ UNCHANGED <<finger, mouse, echo>>
             /\ Noted

(* A move with no button pressed only resets the flags. *)
MouseHover == /\ MouseEvents
              /\ ~flags.touch
              /\ mouse = "up"
              /\ flags' = NoFlags
              /\ NotDetected
              /\ UNCHANGED <<finger, mouse, echo>>
              /\ Noted

MouseUp == /\ mouse # "up"
           /\ mouse' = "up"
           /\ IF flags.touch THEN Unheard
              ELSE Heard("mouse", "end", 0, None)
           /\ UNCHANGED <<finger, echo>>
           /\ Noted

(* The button is released where the page is not told of it. *)
MouseUpLost == /\ mouse = "down"
               /\ mouse' = "up"
               /\ missed' = (current # NoSession)
               /\ UNCHANGED <<finger, echo, hammerVars, swept>>

(* The callback of the hold timer reads the name of the current session.    *)
HoldTimeout == /\ gestures.timer
               /\ gestures' = [gestures EXCEPT !.timer = FALSE]
               /\ fired' = IF current.name = "hold"
                           THEN [on |-> current.on, events |-> {"hold"}]
                           ELSE Nothing
               /\ UNCHANGED <<finger, mouse, echo, flags, current, lastTap,
                              stick, missed, swept>>

Fingering == \/ \E f \in Fingers, p \in Places : TouchStart(f, p)
             \/ TouchMove
             \/ \E lifted \in SUBSET Fingers, type \in {"end", "cancel"} :
                   TouchEnd(lifted, type)

Mousing == \/ \E p \in Places, by \in {"down", "echo"} : MouseDown(by, p)
           \/ MouseMove \/ MouseHover \/ MouseUp \/ MouseUpLost

Next == Fingering \/ Mousing \/ HoldTimeout

Spec == Init /\ [][Next]_vars

-----------------------------------------------------------------------------
(* A stick is at rest when nothing touches the page, except after a lost    *)
(* release of the button or after two fingers left the page at once         *)
(* (Drag.handler, Gamepad.js dragend).                                      *)
RestWhenUntouched ==
    ~Touched /\ ~missed => \A s \in Sticks : stick[s].active => s \in swept

(* One stick at most is pushed, and it is the one of the session, which     *)
(* drags: a gesture that takes over, or a second finger, never leaves the   *)
(* first stick pushed behind it.                                            *)
PushedByDrag ==
    \A s \in Sticks : stick[s].active =>
        \/ s \in swept
        \/ current.on = s /\ current.name = "drag" /\ gestures.drag

(* The hold timer finds a session when it fires: its callback does not check*)
(* (holdGesture, setTimeout).                                               *)
HoldFindsSession == gestures.timer => current # NoSession

(* A session ends with the last touch: none is left to swallow the start of *)
(* the next one (detect, stopDetect), but after a lost release.             *)
SessionEnds == current # NoSession => Touched \/ missed
=============================================================================
