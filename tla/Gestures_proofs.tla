---------------------------- MODULE Gestures_proofs ----------------------------
(***************************************************************************)
(* Proofs about Gestures, for any number of sticks and fingers, with and   *)
(* without a mouse.                                                        *)
(***************************************************************************)
EXTENDS Gestures, FiniteSetTheorems, TLAPS

Names == {"", "hold", "transform", "drag", "tap"}

StickStates == [enabled : BOOLEAN, active : BOOLEAN]

GestureTypes ==
    /\ finger \in [Fingers -> Places \cup {None}]
    /\ mouse \in {"up", "down", "echo"}
    /\ flags \in [enabled : BOOLEAN, touch : BOOLEAN, last : Nat]
    /\ current \in [on : Elements \cup {None}, name : Names, touches : Nat]
    /\ gestures \in [drag : BOOLEAN, transform : BOOLEAN, timer : BOOLEAN]
    /\ stick \in [Sticks -> StickStates]
    /\ missed \in BOOLEAN
    /\ swept \subseteq Sticks

(* last_move_event counts fingers that are still there, or the mouse. *)
LastCounts == IF flags.touch THEN /\ flags.last >= 1
                                  /\ flags.last <= Cardinality(Down(finger))
                             ELSE flags.last <= 1

(* A session belongs to fingers that are heard, or to a pressed button.     *)
SessionHeld == current.on # None /\ ~missed => flags.touch \/ mouse # "up"

NoneIsNoSession == current.on = None => current = NoSession

TimerInSession == gestures.timer => current.on # None

GInv == /\ GestureTypes
        /\ LastCounts
        /\ SessionHeld
        /\ NoneIsNoSession
        /\ TimerInSession
        /\ PushedByDrag

-----------------------------------------------------------------------------
(* The gestures, in one event.                                              *)

EventNames == {"touch", "hold", "swipe", "transformstart", "transform",
               "transformend", "dragstart", "drag", "dragend", "doubletap", "tap",
               "release"}

Detection == [name : Names, drag : BOOLEAN, transform : BOOLEAN, timer : BOOLEAN,
              events : SUBSET EventNames, stick : StickStates]

Events == [type : {"start", "move", "end"}, touches : Nat, cancelled : BOOLEAN,
           distance : Nat, turned : BOOLEAN, fast : BOOLEAN, brief : BOOLEAN,
           soon : BOOLEAN]

(* What all gestures but the drag leave alone. *)
DragAside(g, h) == /\ h \in Detection
                   /\ h.stick.active = g.stick.active
                   /\ h.drag = g.drag
                   /\ "dragend" \in h.events <=> "dragend" \in g.events

(* A stick that is pushed, is pushed by the drag of its session.            *)
Pushed(g) == g.stick.active => g.name = "drag" /\ g.drag

(* An event that a gesture triggers moves a stick only if it is of a drag.  *)
LEMMA FireAside ==
  ASSUME NEW g \in Detection, NEW e \in EventNames \ {"dragstart", "dragend"}
  PROVE  /\ DragAside(g, Fire(g, e))
         /\ Fire(g, e).name = g.name /\ Fire(g, e).timer = g.timer
         /\ Fire(g, e).transform = g.transform
  <1>1. /\ g.stick \in StickStates /\ g.events \in SUBSET EventNames
    BY DEF Detection
  <1>2. /\ React(g.stick, e) \in StickStates
        /\ React(g.stick, e).active = g.stick.active
    <2>1. CASE e = "touch"
      BY <1>1, <2>1 DEF React, StickStates
    <2>2. CASE e = "release"
      BY <1>1, <2>2 DEF React, StickStates
    <2>3. CASE e \notin {"touch", "release"}
      BY <1>1, <2>3 DEF React, StickStates
    <2> QED
      BY <2>1, <2>2, <2>3
  <1>3. g.events \cup {e} \in SUBSET EventNames
    BY <1>1
  <1> QED
    BY <1>2, <1>3 DEF Fire, DragAside, Detection

(* The events of a drag. *)
LEMMA FireDrag ==
  ASSUME NEW g \in Detection, NEW e \in {"dragstart", "dragend"}
  PROVE  /\ Fire(g, e) \in Detection
         /\ Fire(g, e).name = g.name /\ Fire(g, e).timer = g.timer
         /\ Fire(g, e).drag = g.drag
         /\ Fire(g, e).events = g.events \cup {e}
         /\ e = "dragend" => ~Fire(g, e).stick.active
  <1>1. /\ g.stick \in StickStates /\ g.events \in SUBSET EventNames
    BY DEF Detection
  <1>2. /\ React(g.stick, e) \in StickStates
        /\ e = "dragend" => ~React(g.stick, e).active
    <2>1. CASE e = "dragstart"
      BY <1>1, <2>1 DEF React, StickStates
    <2>2. CASE e = "dragend"
      BY <1>1, <2>2 DEF React, StickStates
    <2> QED
      BY <2>1, <2>2
  <1>3. g.events \cup {e} \in SUBSET EventNames
    BY <1>1 DEF EventNames
  <1> QED
    BY <1>2, <1>3 DEF Fire, Detection

LEMMA TouchAside ==
  ASSUME NEW g \in Detection, NEW ev \in Events
  PROVE  /\ DragAside(g, Touch(g, ev))
         /\ Touch(g, ev).name = g.name /\ Touch(g, ev).timer = g.timer
  BY FireAside DEF Touch, DragAside, EventNames

LEMMA HoldAside ==
  ASSUME NEW g \in Detection, NEW ev \in Events
  PROVE  /\ DragAside(g, Hold(g, ev))
         /\ ev.type # "start" => Hold(g, ev).name = g.name
         /\ Hold(g, ev).timer => ev.type = "start" \/ (ev.type = "move" /\ g.timer)
  <1>1. CASE ev.type = "start"
    BY <1>1 DEF Hold, DragAside, Detection, Names
  <1>2. CASE ev.type = "move"
    BY <1>2 DEF Hold, DragAside, Detection, Events
  <1>3. CASE ev.type = "end"
    BY <1>3 DEF Hold, DragAside, Detection
  <1> QED
    BY <1>1, <1>2, <1>3 DEF Events

LEMMA SwipeAside ==
  ASSUME NEW g \in Detection, NEW ev \in Events
  PROVE  /\ DragAside(g, Swipe(g, ev))
         /\ Swipe(g, ev).name = g.name /\ Swipe(g, ev).timer = g.timer
  BY FireAside DEF Swipe, DragAside, EventNames

(* A transformation may take over the session, but only as it moves.        *)
LEMMA TransformAside ==
  ASSUME NEW g \in Detection, NEW ev \in Events
  PROVE  /\ DragAside(g, Transform(g, ev))
         /\ ev.type # "move" => Transform(g, ev).name = g.name
         /\ Transform(g, ev).name \in {g.name, "transform"}
         /\ Transform(g, ev).timer = g.timer
  <1> DEFINE begun == IF g.transform THEN g ELSE Fire(g, "transformstart")
             ended == Fire(g, "transformend")
             ends == IF g.transform THEN ended ELSE g
  <1>1. /\ DragAside(g, begun) /\ begun.name = g.name /\ begun.timer = g.timer
        /\ DragAside(g, ended) /\ ended.name = g.name /\ ended.timer = g.timer
    BY FireAside DEF EventNames, DragAside
  <1>2. DragAside(g, ends) /\ ends.name = g.name /\ ends.timer = g.timer
    BY <1>1 DEF DragAside
  <1>3. /\ DragAside(g, Fire(begun, "transform"))
        /\ Fire(begun, "transform").timer = g.timer
    BY <1>1, FireAside DEF EventNames, DragAside
  <1> DEFINE turns == Fire(begun, "transform")
  <1>4. \A h \in Detection : DragAside(g, h) =>
           /\ DragAside(g, [h EXCEPT !.transform = FALSE])
           /\ [h EXCEPT !.transform = FALSE].name = h.name
           /\ [h EXCEPT !.transform = FALSE].timer = h.timer
    BY DEF DragAside, Detection
  <1>5. LET t == [turns EXCEPT !.name = "transform", !.transform = TRUE]
        IN  DragAside(g, t) /\ t.name = "transform" /\ t.timer = g.timer
    BY <1>3 DEF DragAside, Detection, Names
  <1>6. /\ ended \in Detection /\ ends \in Detection /\ DragAside(g, g)
    BY <1>1, <1>2 DEF DragAside
  <1>7. Transform(g, ev) =
           IF g.name # "transform" /\ g.transform
           THEN [ended EXCEPT !.transform = FALSE]
           ELSE IF ev.touches < 2 THEN g
           ELSE CASE ev.type = "start" -> [g EXCEPT !.transform = FALSE]
                  [] ev.type = "move" ->
                        IF ev.turned
                        THEN [turns EXCEPT !.name = "transform", !.transform = TRUE]
                        ELSE g
                  [] ev.type = "end" -> [ends EXCEPT !.transform = FALSE]
    BY DEF Transform
  <1> HIDE DEF begun, ended, ends, turns
  <1>8. CASE g.name # "transform" /\ g.transform
    BY <1>1, <1>4, <1>6, <1>7, <1>8
  <1>9. CASE ~(g.name # "transform" /\ g.transform) /\ ev.touches < 2
    BY <1>6, <1>7, <1>9
  <1>10. CASE ~(g.name # "transform" /\ g.transform) /\ ~(ev.touches < 2)
    <2>1. CASE ev.type = "start"
      BY <1>4, <1>6, <1>7, <1>10, <2>1
    <2>2. CASE ev.type = "move"
      BY <1>5, <1>6, <1>7, <1>10, <2>2
    <2>3. CASE ev.type = "end"
      BY <1>2, <1>4, <1>6, <1>7, <1>10, <2>3
    <2> QED
      BY <2>1, <2>2, <2>3 DEF Events
  <1> QED
    BY <1>8, <1>9, <1>10

LEMMA TapAside ==
  ASSUME NEW g \in Detection, NEW ev \in Events
  PROVE  /\ DragAside(g, Tap(g, ev))
         /\ ev.type # "end" => Tap(g, ev) = g
         /\ Tap(g, ev).timer = g.timer
  <1> DEFINE twice == IF lastTap # None /\ ev.soon THEN Fire(g, "doubletap") ELSE g
  <1>1. DragAside(g, twice) /\ twice.timer = g.timer
    BY FireAside DEF DragAside, EventNames
  <1>2. DragAside(g, Fire(twice, "tap")) /\ Fire(twice, "tap").timer = g.timer
    BY <1>1, FireAside DEF DragAside, EventNames
  <1>3. LET t == [Fire(twice, "tap") EXCEPT !.name = "tap"]
        IN  DragAside(g, t) /\ t.timer = g.timer
    BY <1>2 DEF DragAside, Detection, Names
  <1>4. DragAside(g, g)
    BY DEF DragAside
  <1>5. Tap(g, ev) = IF ev.type = "end" /\ ~ev.cancelled /\ ev.brief
                     THEN [Fire(twice, "tap") EXCEPT !.name = "tap"] ELSE g
    BY DEF Tap
  <1> HIDE DEF twice
  <1> QED
    BY <1>3, <1>4, <1>5

LEMMA ReleaseAside ==
  ASSUME NEW g \in Detection, NEW ev \in Events
  PROVE  /\ DragAside(g, Release(g, ev))
         /\ Release(g, ev).name = g.name /\ Release(g, ev).timer = g.timer
  BY FireAside DEF Release, DragAside, EventNames
(* The drag: the end of a drag releases the stick, whichever gesture took   *)
(* over; a move that leaves it pushed is one of the drag; and the end of a  *)
(* single touch releases it.                                                *)
LEMMA DragEffect ==
  ASSUME NEW g \in Detection, NEW ev \in Events, "dragend" \notin g.events
  PROVE  LET h == Drag(g, ev)
         IN  /\ h \in Detection
             /\ h.timer = g.timer
             /\ "dragend" \in h.events => ~h.stick.active
             /\ ev.type = "start" /\ h.stick.active => g.stick.active
             /\ ev.type = "move" /\ (g.stick.active => g.drag) => Pushed(h)
             /\ ev.type = "end" /\ ev.touches <= 1 /\ (g.stick.active => g.drag)
                   => ~h.stick.active
  <1> DEFINE begun == IF g.drag THEN g ELSE Fire(g, "dragstart")
             ended == Fire(g, "dragend")
             drags == Fire(begun, "drag")
             over == [ended EXCEPT !.drag = FALSE]
             moved == [drags EXCEPT !.name = "drag", !.drag = TRUE]
             h == Drag(g, ev)
  <1>1. begun \in Detection /\ begun.timer = g.timer /\ "dragend" \notin begun.events
    BY FireDrag
  <1>2. drags \in Detection /\ drags.timer = g.timer /\ "dragend" \notin drags.events
    BY <1>1, FireAside DEF DragAside, EventNames
  <1>3. /\ moved \in Detection /\ moved.timer = g.timer
        /\ "dragend" \notin moved.events /\ Pushed(moved)
    BY <1>2 DEF Detection, Names, Pushed
  <1>4. /\ ended \in Detection /\ ended.timer = g.timer /\ ~ended.stick.active
    BY FireDrag
  <1>5. /\ over \in Detection /\ over.timer = g.timer /\ ~over.stick.active
    BY <1>4 DEF Detection
  <1>6. h = IF g.name # "drag" /\ g.drag THEN over
            ELSE IF ev.touches > 1 THEN g
            ELSE CASE ev.type = "start" -> [g EXCEPT !.drag = FALSE]
                   [] ev.type = "move" ->
                         IF ev.distance < 10 /\ g.name # "drag" THEN g ELSE moved
                   [] ev.type = "end" ->
                         [IF g.drag THEN ended ELSE g EXCEPT !.drag = FALSE]
    BY DEF Drag
  <1>7. ev.touches \in Nat
    BY DEF Events
  <1> HIDE DEF begun, ended, drags, over, moved, h
  <1>8. CASE g.name # "drag" /\ g.drag
    BY <1>5, <1>6, <1>8 DEF Pushed, h
  <1>9. CASE ~(g.name # "drag" /\ g.drag) /\ ev.touches > 1
    <2>1. h = g
      BY <1>6, <1>9
    <2> QED
      BY <1>7, <1>9, <2>1 DEF Pushed, h
  <1>10. CASE ~(g.name # "drag" /\ g.drag) /\ ~(ev.touches > 1)
    <2>1. CASE ev.type = "start"
      <3>1. h = [g EXCEPT !.drag = FALSE]
        BY <1>6, <1>10, <2>1
      <3> QED
        BY <2>1, <3>1 DEF Detection, h
    <2>2. CASE ev.type = "move"
      <3>1. h = IF ev.distance < 10 /\ g.name # "drag" THEN g ELSE moved
        BY <1>6, <1>10, <2>2
      <3>2. CASE h = g
        BY <1>10, <2>2, <3>2 DEF Pushed, h
      <3>3. CASE h = moved
        BY <1>3, <2>2, <3>3 DEF h
      <3> QED
        BY <3>1, <3>2, <3>3
    <2>3. CASE ev.type = "end"
      <3>1. h = [IF g.drag THEN ended ELSE g EXCEPT !.drag = FALSE]
        BY <1>6, <1>10, <2>3
      <3>2. CASE g.drag
        <4>1. h = over
          BY <3>1, <3>2 DEF over
        <4> QED
          BY <1>5, <2>3, <4>1 DEF h
      <3>3. CASE ~g.drag
        <4>1. h = [g EXCEPT !.drag = FALSE]
          BY <3>1, <3>3
        <4> QED
          BY <2>3, <3>3, <4>1 DEF Detection, h
      <3> QED
        BY <3>2, <3>3
    <2> QED
      BY <2>1, <2>2, <2>3 DEF Events
  <1> QED
    BY <1>8, <1>9, <1>10

(* All the gestures, one after the other. *)
LEMMA HandlersEffect ==
  ASSUME NEW g \in Detection, NEW ev \in Events, g.events = {}
  PROVE  LET h == Handlers(g, ev)
         IN  /\ h \in Detection
             /\ h.timer => ev.type = "start" \/ (ev.type = "move" /\ g.timer)
             /\ "dragend" \in h.events => ~h.stick.active
             /\ ev.type = "start" /\ h.stick.active => g.stick.active
             /\ ev.type = "move" /\ (g.stick.active => g.drag) => Pushed(h)
             /\ ev.type = "end" /\ ev.touches <= 1 /\ (g.stick.active => g.drag)
                   => ~h.stick.active
  <1> DEFINE g1 == Touch(g, ev)
             g2 == Hold(g1, ev)
             g3 == Swipe(g2, ev)
             g4 == Transform(g3, ev)
             g5 == Drag(g4, ev)
             g6 == Tap(g5, ev)
             h == Release(g6, ev)
  <1>1. g1 \in Detection /\ DragAside(g, g1) /\ g1.timer = g.timer
    BY TouchAside DEF DragAside
  <1>2. /\ g2 \in Detection /\ DragAside(g1, g2)
        /\ g2.timer => ev.type = "start" \/ (ev.type = "move" /\ g1.timer)
    BY <1>1, HoldAside DEF DragAside
  <1>3. g3 \in Detection /\ DragAside(g2, g3) /\ g3.timer = g2.timer
    BY <1>2, SwipeAside DEF DragAside
  <1>4. g4 \in Detection /\ DragAside(g3, g4) /\ g4.timer = g3.timer
    BY <1>3, TransformAside DEF DragAside
  <1>5. /\ "dragend" \notin g4.events
        /\ g4.stick.active = g.stick.active /\ g4.drag = g.drag
    BY <1>1, <1>2, <1>3, <1>4 DEF DragAside
  <1>6. /\ g5 \in Detection /\ g5.timer = g4.timer
        /\ "dragend" \in g5.events => ~g5.stick.active
        /\ ev.type = "start" /\ g5.stick.active => g4.stick.active
        /\ ev.type = "move" /\ (g4.stick.active => g4.drag) => Pushed(g5)
        /\ ev.type = "end" /\ ev.touches <= 1 /\ (g4.stick.active => g4.drag)
              => ~g5.stick.active
    BY <1>4, <1>5, DragEffect
  <1>7. /\ g6 \in Detection /\ DragAside(g5, g6) /\ g6.timer = g5.timer
        /\ ev.type # "end" => g6 = g5
    BY <1>6, TapAside DEF DragAside
  <1>8. /\ h \in Detection /\ DragAside(g6, h) /\ h.timer = g6.timer
        /\ h.name = g6.name
    BY <1>7, ReleaseAside DEF DragAside
  <1>9. Handlers(g, ev) = h
    BY DEF Handlers
  <1> HIDE DEF g1, g2, g3, g4, g5, g6, h
  <1>10. h.timer => ev.type = "start" \/ (ev.type = "move" /\ g.timer)
    BY <1>1, <1>2, <1>3, <1>4, <1>6, <1>7, <1>8
  <1>11. /\ "dragend" \in h.events <=> "dragend" \in g5.events
         /\ h.stick.active = g5.stick.active /\ h.drag = g5.drag
    BY <1>7, <1>8 DEF DragAside
  <1>12. ev.type = "move" => h.name = g5.name
    BY <1>7, <1>8
  <1>13. ev.type = "move" /\ (g.stick.active => g.drag) => Pushed(h)
    BY <1>5, <1>6, <1>11, <1>12 DEF Pushed
  <1> QED
    BY <1>5, <1>6, <1>8, <1>9, <1>10, <1>11, <1>13

-----------------------------------------------------------------------------
(* One event, detected in a session c.                                      *)

Sessions == [on : Elements, name : Names, touches : Nat]

Released(s) == fired'.on = s /\ "dragend" \in fired'.events

LEMMA DetectEffect ==
  ASSUME GestureTypes, NEW c \in Sessions, NEW ev \in Events, Detect(c, ev)
  PROVE  /\ current' \in [on : Elements \cup {None}, name : Names, touches : Nat]
         /\ gestures' \in [drag : BOOLEAN, transform : BOOLEAN, timer : BOOLEAN]
         /\ stick' \in [Sticks -> StickStates]
         /\ current' = NoSession \/ current'.on = c.on
         /\ ev.type = "end" /\ ev.touches >= 1 => current' = NoSession
         /\ gestures'.timer => /\ ev.type = "start" \/ gestures.timer
                               /\ current'.on = c.on
         /\ \A s \in Sticks :
               /\ Released(s) => ~stick'[s].active
               /\ s # c.on => stick'[s] = stick[s] /\ ~Released(s)
               /\ ev.type = "start" /\ stick'[s].active => stick[s].active
               /\ /\ s = c.on /\ ev.type = "move" /\ (stick[s].active => gestures.drag)
                  /\ stick'[s].active
                  => current'.on = s /\ current'.name = "drag" /\ gestures'.drag
               /\ /\ s = c.on /\ ev.type = "end" /\ ev.touches <= 1
                  /\ stick[s].active => gestures.drag
                  => ~stick'[s].active
  <1> DEFINE turned == ev.turned /\ c.touches = ev.touches /\ ev.touches >= 2
             e == [ev EXCEPT !.turned = turned]
             g0 == [name |-> c.name, drag |-> gestures.drag,
                    transform |-> gestures.transform, timer |-> gestures.timer,
                    events |-> {},
                    stick |-> IF c.on \in Sticks THEN stick[c.on] ELSE Idle]
             h == Handlers(g0, e)
  <1>1. e \in Events /\ e.type = ev.type /\ e.touches = ev.touches
    BY DEF Events
  <1>2. /\ g0 \in Detection /\ g0.events = {} /\ g0.drag = gestures.drag
        /\ g0.timer = gestures.timer
        /\ g0.stick = IF c.on \in Sticks THEN stick[c.on] ELSE Idle
    <2>1. Idle \in StickStates
      BY DEF Idle, StickStates
    <2>2. (IF c.on \in Sticks THEN stick[c.on] ELSE Idle) \in StickStates
      BY <2>1 DEF GestureTypes
    <2>3. /\ c.name \in Names /\ gestures.drag \in BOOLEAN
          /\ gestures.transform \in BOOLEAN /\ gestures.timer \in BOOLEAN
      BY DEF GestureTypes, Sessions
    <2> QED
      BY <2>2, <2>3 DEF Detection
  <1>3. /\ current' = IF Stops(ev) THEN NoSession
                      ELSE [on |-> c.on, name |-> h.name, touches |-> ev.touches]
        /\ gestures' = [drag |-> h.drag, transform |-> h.transform, timer |-> h.timer]
        /\ fired' = [on |-> c.on, events |-> h.events]
        /\ stick' = [s \in Sticks |-> IF s = c.on THEN h.stick ELSE stick[s]]
    BY DEF Detect
  <1> HIDE DEF e, g0, h
  <1>4. /\ h \in Detection
        /\ h.timer => e.type = "start" \/ (e.type = "move" /\ g0.timer)
        /\ "dragend" \in h.events => ~h.stick.active
        /\ e.type = "start" /\ h.stick.active => g0.stick.active
        /\ e.type = "move" /\ (g0.stick.active => g0.drag) => Pushed(h)
        /\ e.type = "end" /\ e.touches <= 1 /\ (g0.stick.active => g0.drag)
              => ~h.stick.active
    BY <1>1, <1>2, HandlersEffect DEF h
  <1>5. /\ Stops(ev) <=> ev.type = "end" /\ ev.touches >= 1
        /\ c.on \in Elements /\ ev.touches \in Nat
    BY DEF Stops, Sessions, Events
  <1>6. current' \in [on : Elements \cup {None}, name : Names, touches : Nat]
    BY <1>3, <1>4, <1>5 DEF Detection, NoSession, Names
  <1>7. gestures' \in [drag : BOOLEAN, transform : BOOLEAN, timer : BOOLEAN]
    BY <1>3, <1>4 DEF Detection
  <1>8. stick' \in [Sticks -> StickStates]
    BY <1>3, <1>4 DEF Detection, GestureTypes
  <1>9. /\ current' = NoSession \/ (current'.on = c.on /\ current'.name = h.name)
        /\ Stops(ev) => current' = NoSession
        /\ ~Stops(ev) => current'.on = c.on /\ current'.name = h.name
        /\ gestures'.drag = h.drag /\ gestures'.timer = h.timer
        /\ fired'.on = c.on /\ fired'.events = h.events
    BY <1>3
  <1>10. ASSUME gestures'.timer
         PROVE  (ev.type = "start" \/ gestures.timer) /\ current'.on = c.on
    <2>1. ev.type = "start" \/ (ev.type = "move" /\ gestures.timer)
      BY <1>1, <1>2, <1>4, <1>9, <1>10
    <2> QED
      BY <1>5, <1>9, <2>1
  <1>11. ASSUME NEW s \in Sticks
         PROVE  /\ Released(s) => ~stick'[s].active
                /\ s # c.on => stick'[s] = stick[s] /\ ~Released(s)
                /\ ev.type = "start" /\ stick'[s].active => stick[s].active
                /\ /\ s = c.on /\ ev.type = "move"
                   /\ stick[s].active => gestures.drag
                   /\ stick'[s].active
                   => current'.on = s /\ current'.name = "drag" /\ gestures'.drag
                /\ /\ s = c.on /\ ev.type = "end" /\ ev.touches <= 1
                   /\ stick[s].active => gestures.drag
                   => ~stick'[s].active
    <2>1. stick'[s] = IF s = c.on THEN h.stick ELSE stick[s]
      BY <1>3
    <2>2. s = c.on => g0.stick = stick[s]
      BY <1>2
    <2>3. Released(s) => s = c.on /\ ~h.stick.active
      BY <1>4, <1>9 DEF Released
    <2>4. ev.type = "move" => ~Stops(ev)
      BY <1>5
    <2>5. CASE s # c.on
      BY <2>1, <2>3, <2>5
    <2>6. CASE s = c.on
      <3>1. Released(s) => ~stick'[s].active
        BY <2>1, <2>3, <2>6
      <3>2. ev.type = "start" /\ stick'[s].active => stick[s].active
        BY <1>1, <1>4, <2>1, <2>2, <2>6
      <3>3. ev.type = "move" /\ (stick[s].active => gestures.drag) /\ stick'[s].active
               => current'.on = s /\ current'.name = "drag" /\ gestures'.drag
        BY <1>1, <1>2, <1>4, <1>9, <2>1, <2>2, <2>4, <2>6 DEF Pushed
      <3>4. ev.type = "end" /\ ev.touches <= 1 /\ (stick[s].active => gestures.drag)
               => ~stick'[s].active
        BY <1>1, <1>2, <1>4, <2>1, <2>2, <2>6
      <3> QED
        BY <2>6, <3>1, <3>2, <3>3, <3>4
    <2> QED
      BY <2>5, <2>6
  <1> QED
    BY <1>5, <1>6, <1>7, <1>8, <1>9, <1>10, <1>11
-----------------------------------------------------------------------------
(* One event, heard by the listeners. *)

LEMMA MeasuresType ==
  ASSUME NEW type \in {"start", "move", "end"}, NEW touches \in Nat,
         NEW cancelled \in BOOLEAN, NEW ev \in Measures(type, touches, cancelled)
  PROVE  ev \in Events /\ ev.type = type /\ ev.touches = touches
  BY DEF Measures, Events

(* What the gestures see of an event: a touch or press, a move or an end,   *)
(* and with how many touches.                                               *)
Seen(type, count) == IF count = 0 THEN "end"
                     ELSE IF type = "start" THEN "start" ELSE "move"

TouchesSeen(source, count) == IF count > 0 THEN count
                              ELSE IF flags.last > 0 THEN flags.last
                              ELSE IF source = "mouse" THEN 1 ELSE 0

(* Who is pushed after an event is pushed by the drag of its session, or    *)
(* was swept before, or is left pushed by several touches that end at once. *)
StillPushed(count, touches) ==
    \A s \in Sticks :
        /\ Released(s) => ~stick'[s].active
        /\ stick'[s].active => \/ s \in swept
                               \/ /\ current'.on = s /\ current'.name = "drag"
                                  /\ gestures'.drag
                               \/ count = 0 /\ touches > 1

(* Each event keeps the types, the timer within the session, and the sticks *)
(* pushed by their session; it ends the session if nothing touches the page.*)
LEMMA HeardEffect ==
  ASSUME GInv, NEW source \in {"touch", "mouse"},
         NEW type \in {"start", "move", "end", "cancel"},
         NEW count \in Nat, NEW on,
         type = "start" => on \in Elements,
         Heard(source, type, count, on)
  PROVE  /\ flags' \in [enabled : BOOLEAN, touch : BOOLEAN, last : Nat]
         /\ flags'.touch <=> count > 0 /\ source = "touch"
         /\ flags'.last = count
         /\ current' \in [on : Elements \cup {None}, name : Names, touches : Nat]
         /\ gestures' \in [drag : BOOLEAN, transform : BOOLEAN, timer : BOOLEAN]
         /\ stick' \in [Sticks -> StickStates]
         /\ NoneIsNoSession' /\ TimerInSession'
         /\ current'.on # None => current.on # None \/ Seen(type, count) = "start"
         /\ count = 0 /\ TouchesSeen(source, count) >= 1 => current'.on = None
         /\ StillPushed(count, TouchesSeen(source, count))
  <1> DEFINE type2 == Seen(type, count)
             touches == TouchesSeen(source, count)
             session == IF type2 = "start"
                        THEN [on |-> on, name |-> "", touches |-> touches]
                        ELSE current
  <1>0. /\ GestureTypes /\ NoneIsNoSession /\ TimerInSession /\ PushedByDrag
        /\ None \notin Elements
    BY GesturesAssumption DEF GInv, Places
  <1>1. type2 \in {"start", "move", "end"} /\ touches \in Nat
    BY <1>0 DEF Seen, TouchesSeen, GestureTypes
  <1>2. /\ flags' = IF count = 0 THEN NoFlags
                    ELSE [enabled |-> TRUE, touch |-> source = "touch",
                          last |-> count]
        /\ IF (type2 = "start") = (current = NoSession)
           THEN \E ev \in Measures(type2, touches, type = "cancel") :
                   Detect(session, ev)
           ELSE NotDetected
    BY DEF Heard, Seen, TouchesSeen
  <1>3. count = 0 <=> type2 = "end"
    BY DEF Seen
  <1>f. /\ flags' \in [enabled : BOOLEAN, touch : BOOLEAN, last : Nat]
        /\ flags'.touch <=> count > 0 /\ source = "touch"
        /\ flags'.last = count
    <2> DEFINE touched == source = "touch"
    <2>0. /\ flags' = IF count = 0 THEN NoFlags
                      ELSE [enabled |-> TRUE, touch |-> touched, last |-> count]
          /\ touched \in BOOLEAN
      BY <1>2
    <2> HIDE DEF touched
    <2>1. /\ flags' \in [enabled : BOOLEAN, touch : BOOLEAN, last : Nat]
          /\ flags'.touch <=> count > 0 /\ touched
          /\ flags'.last = count
      BY <2>0 DEF NoFlags
    <2> QED
      BY <2>1 DEF touched
  <1>4. NoSession.on = None /\ (current = NoSession <=> current.on = None)
    <2>1. NoSession.on = None
      BY DEF NoSession
    <2> QED
      BY <1>0, <2>1 DEF NoneIsNoSession
  <1> HIDE DEF type2, touches, session
  <1>5. CASE (type2 = "start") # (current = NoSession)
    <2>1. /\ fired'.on = None /\ UNCHANGED <<current, gestures, stick>>
          /\ fired'.events = {}
      BY <1>2, <1>5 DEF NotDetected, Nothing
    <2>2. type2 = "end" => current.on = None
      BY <1>4, <1>5
    <2>3. StillPushed(count, touches)
      BY <1>0, <2>1 DEF StillPushed, Released, PushedByDrag
    <2>4. NoneIsNoSession' /\ TimerInSession'
      BY <1>0, <2>1 DEF NoneIsNoSession, TimerInSession, NoSession
    <2> QED
      BY <1>0, <1>f, <1>3, <2>1, <2>2, <2>3, <2>4 DEF GestureTypes, type2, touches
  <1>6. CASE (type2 = "start") = (current = NoSession)
    <2>1. PICK ev \in Measures(type2, touches, type = "cancel") : Detect(session, ev)
      BY <1>2, <1>6
    <2>2. ev \in Events /\ ev.type = type2 /\ ev.touches = touches
      <3> DEFINE cancelled == type = "cancel"
      <3>1. cancelled \in BOOLEAN /\ ev \in Measures(type2, touches, cancelled)
        OBVIOUS
      <3> HIDE DEF cancelled
      <3> QED
        BY <1>1, <3>1, MeasuresType
    <2>3. /\ session \in Sessions
          /\ type2 # "start" => session.on = current.on
      <3>1. CASE type2 = "start"
        <4>1. type = "start"
          BY <3>1 DEF type2, Seen
        <4> QED
          BY <1>1, <3>1, <4>1 DEF session, Sessions, Names
      <3>2. CASE type2 # "start"
        BY <1>0, <1>4, <1>6, <3>2 DEF session, Sessions, GestureTypes
      <3> QED
        BY <3>1, <3>2
    <2>5. /\ current' \in [on : Elements \cup {None}, name : Names, touches : Nat]
          /\ gestures' \in [drag : BOOLEAN, transform : BOOLEAN, timer : BOOLEAN]
          /\ stick' \in [Sticks -> StickStates]
          /\ current' = NoSession \/ current'.on = session.on
          /\ type2 = "end" /\ touches >= 1 => current' = NoSession
          /\ gestures'.timer => /\ type2 = "start" \/ gestures.timer
                                /\ current'.on = session.on
      BY <1>0, <2>1, <2>2, <2>3, DetectEffect
    <2>6. session.on \in Elements /\ session.on # None
      BY <1>0, <2>3 DEF Sessions
    <2>7. NoneIsNoSession' /\ TimerInSession'
      BY <2>5, <2>6 DEF NoneIsNoSession, TimerInSession, NoSession
    <2>8. current'.on # None => current.on # None \/ type2 = "start"
      BY <1>4, <1>6
    <2>9. count = 0 /\ touches >= 1 => current'.on = None
      BY <1>3, <1>4, <2>5
    <2>10. ASSUME NEW s \in Sticks
           PROVE  /\ Released(s) => ~stick'[s].active
                  /\ stick'[s].active =>
                        \/ s \in swept
                        \/ /\ current'.on = s /\ current'.name = "drag"
                           /\ gestures'.drag
                        \/ count = 0 /\ touches > 1
      <3>1. /\ Released(s) => ~stick'[s].active
            /\ s # session.on => stick'[s] = stick[s] /\ ~Released(s)
            /\ type2 = "start" /\ stick'[s].active => stick[s].active
            /\ /\ s = session.on /\ type2 = "move" /\ (stick[s].active => gestures.drag)
               /\ stick'[s].active
               => current'.on = s /\ current'.name = "drag" /\ gestures'.drag
            /\ /\ s = session.on /\ type2 = "end" /\ touches <= 1
               /\ stick[s].active => gestures.drag
               => ~stick'[s].active
        BY <1>0, <2>1, <2>2, <2>3, DetectEffect
      <3>2. stick[s].active => \/ s \in swept
                               \/ /\ current.on = s /\ gestures.drag
        BY <1>0 DEF PushedByDrag
      <3>3. s \notin swept => (stick[s].active => gestures.drag)
        BY <3>2
      <3>4. ASSUME stick'[s].active, s \notin swept
            PROVE  \/ current'.on = s /\ current'.name = "drag" /\ gestures'.drag
                   \/ count = 0 /\ touches > 1
        <4>1. CASE type2 = "start"
          <5>1. current.on = None
            BY <1>4, <1>6, <4>1
          <5>2. s # None
            BY <1>0 DEF Elements
          <5> QED
            BY <3>1, <3>2, <3>4, <4>1, <5>1, <5>2
        <4>2. CASE type2 # "start" /\ s # session.on
          BY <2>3, <3>1, <3>2, <3>4, <4>2
        <4>3. CASE type2 = "move" /\ s = session.on
          BY <3>1, <3>3, <3>4, <4>3
        <4>4. CASE type2 = "end" /\ s = session.on
          BY <1>1, <1>3, <3>1, <3>3, <3>4, <4>4
        <4> QED
          BY <1>1, <4>1, <4>2, <4>3, <4>4
      <3> QED
        BY <3>1, <3>4
    <2>11. StillPushed(count, touches)
      BY <2>10 DEF StillPushed
    <2> QED
      BY <1>f, <2>5, <2>7, <2>8, <2>9, <2>11 DEF type2, touches
  <1> QED
    BY <1>5, <1>6
-----------------------------------------------------------------------------
(* No session is on no element. *)
LEMMA NoSessionIsOnNone == NoSession.on = None
  BY DEF NoSession

(* Fingers are counted. *)
LEMMA DownCounts ==
  ASSUME NEW f
  PROVE  /\ IsFiniteSet(Down(f)) /\ Cardinality(Down(f)) \in Nat
         /\ Cardinality(Down(f)) = 0 <=> Down(f) = {}
  <1>1. Down(f) \subseteq Fingers
    BY DEF Down
  <1>2. IsFiniteSet(Down(f))
    BY <1>1, GesturesAssumption, FS_Subset
  <1> QED
    BY <1>2, FS_CardinalityType, FS_EmptySet

LEMMA InitGInv == Init => GInv
  <1> SUFFICES ASSUME Init PROVE GInv
    OBVIOUS
  <1>1. GestureTypes
    <2>1. Idle \in StickStates
      BY DEF Idle, StickStates
    <2>2. stick \in [Sticks -> StickStates]
      BY <2>1 DEF Init
    <2>3. finger \in [Fingers -> Places \cup {None}]
      BY DEF Init
    <2> QED
      BY <2>2, <2>3 DEF Init, GestureTypes, NoFlags, NoSession, Names
  <1>2. LastCounts
    BY DEF Init, LastCounts, NoFlags
  <1>3. SessionHeld /\ NoneIsNoSession /\ TimerInSession
    BY DEF Init, SessionHeld, NoneIsNoSession, TimerInSession, NoSession
  <1>4. PushedByDrag
    BY DEF Init, PushedByDrag, Idle
  <1> QED
    BY <1>1, <1>2, <1>3, <1>4 DEF GInv

(* What follows an event that touches or leaves the page, or that the mouse *)
(* makes, heard or not, where swept only loses the sticks that are released.*)
LEMMA NotedInv ==
  ASSUME GInv, Noted
  PROVE  /\ missed' \in BOOLEAN /\ swept' \subseteq Sticks
         /\ \A s \in swept : s \in swept' \/ Released(s)
         /\ current'.on # None /\ ~missed' /\ NoneIsNoSession'
               => ~missed
  <1>1. missed \in BOOLEAN /\ swept \subseteq Sticks
    BY DEF GInv, GestureTypes
  <1>2. missed' = (missed /\ current' # NoSession)
    BY DEF Noted
  <1>3. current'.on # None => current' # NoSession
    BY NoSessionIsOnNone
  <1> QED
    BY <1>1, <1>2, <1>3 DEF Noted, Released

(* An event that no listener hears, or that none detects, changes nothing.  *)
LEMMA UnheardEffect ==
  ASSUME GInv, NotDetected
  PROVE  /\ UNCHANGED <<current, gestures, stick>>
         /\ \A s \in Sticks : ~Released(s)
         /\ NoneIsNoSession' /\ TimerInSession'
         /\ \A n, t : StillPushed(n, t)
  <1>1. UNCHANGED <<current, gestures, stick>> /\ fired'.events = {}
    BY DEF NotDetected, Nothing
  <1> QED
    BY <1>1 DEF GInv, NoneIsNoSession, TimerInSession, NoSession, StillPushed,
                Released, PushedByDrag

(* Steps after which no stick is pushed but by its session or as it was.    *)
LEMMA PushedAgain ==
  ASSUME GInv, NEW n, NEW t, StillPushed(n, t), ~(n = 0 /\ t > 1),
         \A s \in swept : s \in swept' \/ Released(s)
  PROVE  PushedByDrag'
  <1>1. ASSUME NEW s \in Sticks, stick'[s].active
        PROVE  \/ s \in swept'
               \/ current'.on = s /\ current'.name = "drag" /\ gestures'.drag
    BY <1>1 DEF StillPushed
  <1> QED
    BY <1>1 DEF PushedByDrag

-----------------------------------------------------------------------------
(* Fingers. *)

LEMMA TouchStartInv ==
  ASSUME GInv, NEW f \in Fingers, NEW p \in Places, TouchStart(f, p)
  PROVE  GInv'
  <1> DEFINE count == Cardinality(Down(finger'))
  <1>0. /\ GestureTypes /\ LastCounts /\ SessionHeld
        /\ finger[f] = None /\ finger' = [finger EXCEPT ![f] = p]
        /\ UNCHANGED mouse /\ Noted
        /\ p # None
    BY GesturesAssumption DEF GInv, TouchStart
  <1>1. /\ finger' \in [Fingers -> Places \cup {None}]
        /\ Down(finger) \subseteq Down(finger') /\ f \in Down(finger')
    BY <1>0 DEF GestureTypes, Down
  <1>2. count \in Nat /\ count >= 1
        /\ Cardinality(Down(finger)) \in Nat /\ Cardinality(Down(finger)) <= count
    <2>1. /\ IsFiniteSet(Down(finger')) /\ count \in Nat
          /\ count = 0 <=> Down(finger') = {}
          /\ Cardinality(Down(finger)) \in Nat
      BY DownCounts
    <2>2. Cardinality(Down(finger)) <= Cardinality(Down(finger'))
      BY <1>1, <2>1, FS_Subset
    <2> QED
      BY <1>1, <2>1, <2>2
  <1> HIDE DEF count
  <1>3. /\ missed' \in BOOLEAN /\ swept' \subseteq Sticks
        /\ \A s \in swept : s \in swept' \/ Released(s)
        /\ current'.on # None /\ ~missed' /\ NoneIsNoSession' => ~missed
    BY <1>0, NotedInv
  <1>4. CASE p = Elsewhere
    <2>1. NotDetected /\ UNCHANGED flags
      BY <1>4 DEF TouchStart, Unheard
    <2>2. /\ UNCHANGED <<current, gestures, stick>>
          /\ NoneIsNoSession' /\ TimerInSession' /\ StillPushed(1, 1)
      BY <2>1, UnheardEffect
    <2>3. GestureTypes'
      BY <1>0, <1>1, <1>3, <2>1, <2>2 DEF GestureTypes
    <2>4. LastCounts'
      <3>1. flags.last \in Nat
        BY <1>0 DEF GestureTypes
      <3> QED
        BY <1>0, <1>2, <2>1, <3>1 DEF LastCounts, count
    <2>5. SessionHeld'
      BY <1>0, <1>3, <2>1, <2>2 DEF SessionHeld
    <2>6. PushedByDrag'
      BY <1>3, <2>2, PushedAgain
    <2> QED
      BY <2>2, <2>3, <2>4, <2>5, <2>6 DEF GInv
  <1>5. CASE p # Elsewhere
    <2>1. Heard("touch", "start", count, p) /\ p \in Elements
      BY <1>5 DEF TouchStart, Places, count
    <2>2. /\ flags' \in [enabled : BOOLEAN, touch : BOOLEAN, last : Nat]
          /\ flags'.touch /\ flags'.last = count
          /\ current' \in [on : Elements \cup {None}, name : Names, touches : Nat]
          /\ gestures' \in [drag : BOOLEAN, transform : BOOLEAN, timer : BOOLEAN]
          /\ stick' \in [Sticks -> StickStates]
          /\ NoneIsNoSession' /\ TimerInSession'
          /\ StillPushed(count, TouchesSeen("touch", count))
      BY <1>2, <2>1, HeardEffect
    <2>4. GestureTypes'
      BY <1>0, <1>1, <1>2, <1>3, <2>2 DEF GestureTypes
    <2>5. LastCounts' /\ SessionHeld'
      BY <1>2, <2>2 DEF LastCounts, SessionHeld, count
    <2>6. PushedByDrag'
      BY <1>2, <1>3, <2>2, PushedAgain
    <2> QED
      BY <2>2, <2>4, <2>5, <2>6 DEF GInv
  <1> QED
    BY <1>4, <1>5

LEMMA TouchMoveInv == ASSUME GInv, TouchMove PROVE GInv'
  <1> DEFINE count == Cardinality(Down(finger))
  <1>0. /\ GestureTypes /\ Noted /\ UNCHANGED <<finger, mouse>>
        /\ Heard("touch", "move", count, None)
    BY DEF GInv, TouchMove
  <1>1. count \in Nat /\ count >= 1
    BY DownCounts DEF TouchMove
  <1>2. Down(finger') = Down(finger)
    BY <1>0
  <1> HIDE DEF count
  <1>3. /\ missed' \in BOOLEAN /\ swept' \subseteq Sticks
        /\ \A s \in swept : s \in swept' \/ Released(s)
    BY <1>0, NotedInv
  <1>4. /\ flags' \in [enabled : BOOLEAN, touch : BOOLEAN, last : Nat]
        /\ flags'.touch /\ flags'.last = count
        /\ current' \in [on : Elements \cup {None}, name : Names, touches : Nat]
        /\ gestures' \in [drag : BOOLEAN, transform : BOOLEAN, timer : BOOLEAN]
        /\ stick' \in [Sticks -> StickStates]
        /\ NoneIsNoSession' /\ TimerInSession'
        /\ StillPushed(count, TouchesSeen("touch", count))
    BY <1>0, <1>1, HeardEffect
  <1>6. GestureTypes'
    BY <1>0, <1>1, <1>3, <1>4 DEF GestureTypes
  <1>7. LastCounts' /\ SessionHeld'
    BY <1>1, <1>2, <1>4 DEF LastCounts, SessionHeld, count
  <1>8. PushedByDrag'
    BY <1>1, <1>3, <1>4, PushedAgain
  <1> QED
    BY <1>4, <1>6, <1>7, <1>8 DEF GInv

(* The last touches leave: the session ends, and a drag that several of     *)
(* them leave at once is swept.                                             *)
LEMMA TouchEndInv ==
  ASSUME GInv, NEW lifted \in SUBSET Fingers, NEW type \in {"end", "cancel"},
         TouchEnd(lifted, type)
  PROVE  GInv'
  <1> DEFINE count == Cardinality(Down(finger'))
             touches == TouchesSeen("touch", count)
  <1>0. /\ GestureTypes /\ LastCounts /\ SessionHeld /\ UNCHANGED mouse
        /\ lifted # {} /\ lifted \subseteq Down(finger)
        /\ finger' = [f \in Fingers |-> IF f \in lifted THEN None ELSE finger[f]]
        /\ Heard("touch", type, count, None)
        /\ missed' = (missed /\ current' # NoSession)
    BY DEF GInv, TouchEnd
  <1>1. count \in Nat /\ (count = 0 <=> Down(finger') = {})
    BY DownCounts
  <1>2. /\ finger' \in [Fingers -> Places \cup {None}]
        /\ Down(finger') = {} => lifted = Down(finger)
    BY <1>0 DEF GestureTypes, Down
  <1>3. /\ missed' \in BOOLEAN /\ swept' \subseteq Sticks
        /\ \A s \in Sticks : s \in swept' <=>
              /\ ~Released(s)
              /\ \/ s \in swept
                 \/ /\ Down(finger') = {} /\ Cardinality(lifted) > 1
                    /\ stick'[s].active
    BY <1>0 DEF GestureTypes, TouchEnd, Released
  <1> HIDE DEF count, touches
  <1>4. /\ flags' \in [enabled : BOOLEAN, touch : BOOLEAN, last : Nat]
        /\ flags'.touch <=> count > 0
        /\ flags'.last = count
        /\ current' \in [on : Elements \cup {None}, name : Names, touches : Nat]
        /\ gestures' \in [drag : BOOLEAN, transform : BOOLEAN, timer : BOOLEAN]
        /\ stick' \in [Sticks -> StickStates]
        /\ NoneIsNoSession' /\ TimerInSession'
        /\ current'.on # None => current.on # None
        /\ count = 0 /\ touches >= 1 => current'.on = None
        /\ StillPushed(count, touches)
    <2>1. Seen(type, count) # "start"
      BY DEF Seen
    <2> QED
      BY <1>0, <1>1, <2>1, HeardEffect DEF touches
  <1>5. /\ flags.last \in Nat
        /\ count = 0 => touches = flags.last
    BY <1>0 DEF GestureTypes, TouchesSeen, touches
  <1>6. GestureTypes'
    BY <1>0, <1>1, <1>2, <1>3, <1>4 DEF GestureTypes
  <1>7. LastCounts'
    BY <1>1, <1>4 DEF LastCounts, count
  <1>8. SessionHeld'
    <2>1. CASE count = 0
      <3> SUFFICES ASSUME current'.on # None, ~missed', mouse' = "up" PROVE FALSE
        BY DEF SessionHeld
      <3>1. current' # NoSession
        BY NoSessionIsOnNone
      <3>2. ~missed /\ current.on # None /\ mouse = "up"
        BY <1>0, <1>4, <3>1
      <3>3. flags.touch
        BY <1>0, <3>2 DEF SessionHeld
      <3>4. touches >= 1
        BY <1>0, <1>5, <2>1, <3>3 DEF LastCounts
      <3> QED
        BY <1>4, <2>1, <3>4
    <2>2. CASE count # 0
      BY <1>1, <1>4, <2>2 DEF SessionHeld
    <2> QED
      BY <2>1, <2>2
  <1>9. PushedByDrag'
    <2>1. count = 0 /\ touches > 1 => Down(finger') = {} /\ Cardinality(lifted) > 1
      <3> SUFFICES ASSUME count = 0, touches > 1
                   PROVE  Down(finger') = {} /\ Cardinality(lifted) > 1
        OBVIOUS
      <3>1. flags.last > 1 /\ Down(finger') = {} /\ lifted = Down(finger)
        BY <1>1, <1>2, <1>5
      <3>2. Cardinality(Down(finger)) \in Nat
        BY DownCounts
      <3>3. flags.last <= Cardinality(Down(finger))
        BY <1>0, <1>5, <3>1 DEF LastCounts
      <3> QED
        BY <1>5, <3>1, <3>2, <3>3
    <2>2. ASSUME NEW s \in Sticks, stick'[s].active
          PROVE  \/ s \in swept'
                 \/ current'.on = s /\ current'.name = "drag" /\ gestures'.drag
      <3>1. ~Released(s)
        BY <1>4, <2>2 DEF StillPushed
      <3>2. \/ s \in swept
            \/ current'.on = s /\ current'.name = "drag" /\ gestures'.drag
            \/ count = 0 /\ touches > 1
        BY <1>4, <2>2 DEF StillPushed
      <3> QED
        BY <1>3, <2>1, <2>2, <3>1, <3>2
    <2> QED
      BY <2>2 DEF PushedByDrag
  <1> QED
    BY <1>4, <1>6, <1>7, <1>8, <1>9 DEF GInv
-----------------------------------------------------------------------------
(* The mouse. *)

(* Where the listeners hear nothing, or hear the mouse, while the fingers   *)
(* stay where they are.                                                     *)
LEMMA MouseInv ==
  ASSUME GInv, Noted, UNCHANGED finger, mouse' \in {"up", "down", "echo"},
         \/ Unheard
         \/ flags' = NoFlags /\ NotDetected /\ ~flags.touch
         \/ /\ ~flags.touch
            /\ \/ \E p \in Elements : Heard("mouse", "start", 1, p)
               \/ Heard("mouse", "move", 1, None)
               \/ Heard("mouse", "end", 0, None)
  PROVE  /\ GestureTypes' /\ LastCounts' /\ NoneIsNoSession' /\ TimerInSession'
         /\ PushedByDrag'
  <1>0. /\ GestureTypes /\ LastCounts /\ flags.last \in Nat
        /\ Down(finger') = Down(finger)
    BY DEF GInv, GestureTypes
  <1>1. /\ missed' \in BOOLEAN /\ swept' \subseteq Sticks
        /\ \A s \in swept : s \in swept' \/ Released(s)
    BY NotedInv
  <1>2. CASE NotDetected /\ (flags' = flags \/ (flags' = NoFlags /\ ~flags.touch))
    <2>1. /\ UNCHANGED <<current, gestures, stick>>
          /\ NoneIsNoSession' /\ TimerInSession' /\ StillPushed(1, 1)
      BY <1>2, UnheardEffect
    <2>2. flags' \in [enabled : BOOLEAN, touch : BOOLEAN, last : Nat]
      <3>1. NoFlags \in [enabled : BOOLEAN, touch : BOOLEAN, last : Nat]
        BY DEF NoFlags
      <3>2. flags' = flags \/ flags' = NoFlags
        BY <1>2
      <3> QED
        BY <1>0, <3>1, <3>2 DEF GestureTypes
    <2>3. GestureTypes'
      BY <1>0, <1>1, <2>1, <2>2 DEF GestureTypes
    <2>4. LastCounts'
      BY <1>0, <1>2 DEF LastCounts, NoFlags
    <2>5. PushedByDrag'
      BY <1>1, <2>1, PushedAgain
    <2> QED
      BY <2>1, <2>3, <2>4, <2>5
  <1>3. ASSUME NEW type \in {"start", "move", "end", "cancel"}, NEW count \in {0, 1},
               NEW on, type = "start" => on \in Elements, ~flags.touch,
               Heard("mouse", type, count, on)
        PROVE  /\ GestureTypes' /\ LastCounts' /\ NoneIsNoSession'
               /\ TimerInSession' /\ PushedByDrag'
    <2> DEFINE touches == TouchesSeen("mouse", count)
    <2>1. touches \in Nat /\ touches <= 1
      BY <1>0, <1>3 DEF TouchesSeen, LastCounts
    <2> HIDE DEF touches
    <2>2. /\ flags' \in [enabled : BOOLEAN, touch : BOOLEAN, last : Nat]
          /\ ~flags'.touch /\ flags'.last = count
          /\ current' \in [on : Elements \cup {None}, name : Names, touches : Nat]
          /\ gestures' \in [drag : BOOLEAN, transform : BOOLEAN, timer : BOOLEAN]
          /\ stick' \in [Sticks -> StickStates]
          /\ NoneIsNoSession' /\ TimerInSession'
          /\ StillPushed(count, touches)
      BY <1>3, HeardEffect DEF touches
    <2>3. GestureTypes'
      BY <1>0, <1>1, <2>2 DEF GestureTypes
    <2>4. LastCounts'
      BY <1>3, <2>2 DEF LastCounts
    <2>5. PushedByDrag'
      BY <1>1, <2>1, <2>2, PushedAgain
    <2> QED
      BY <2>2, <2>3, <2>4, <2>5
  <1>4. CASE ~flags.touch /\ \E p \in Elements : Heard("mouse", "start", 1, p)
    BY <1>3, <1>4
  <1>5. CASE ~flags.touch /\ Heard("mouse", "move", 1, None)
    BY <1>3, <1>5
  <1>6. CASE ~flags.touch /\ Heard("mouse", "end", 0, None)
    BY <1>3, <1>6
  <1>7. CASE Unheard
    <2>1. NotDetected /\ flags' = flags
      BY <1>7 DEF Unheard
    <2> QED
      BY <1>2, <2>1
  <1>8. CASE flags' = NoFlags /\ NotDetected /\ ~flags.touch
    BY <1>2, <1>8
  <1> QED
    BY <1>4, <1>5, <1>6, <1>7, <1>8

LEMMA MouseDownInv ==
  ASSUME GInv, NEW by \in {"down", "echo"}, NEW p \in Places, MouseDown(by, p)
  PROVE  GInv'
  <1>1. /\ Noted /\ UNCHANGED finger /\ mouse' = by
        /\ \/ Unheard
           \/ /\ ~flags.touch
              /\ \E e \in Elements : Heard("mouse", "start", 1, e)
    BY DEF MouseDown, Places
  <1>2. SessionHeld'
    BY <1>1 DEF SessionHeld
  <1> QED
    BY <1>1, <1>2, MouseInv DEF GInv

LEMMA MouseMoveInv == ASSUME GInv, MouseMove PROVE GInv'
  <1>1. /\ Noted /\ UNCHANGED <<finger, mouse>> /\ mouse = "down" /\ ~flags.touch
        /\ Heard("mouse", "move", 1, None)
    BY DEF MouseMove
  <1>2. SessionHeld'
    BY <1>1 DEF SessionHeld
  <1> QED
    BY <1>1, <1>2, MouseInv DEF GInv

(* While the page believes in no touch and no button is pressed, no session *)
(* runs, unless a release was missed: nothing is forgotten.                 *)
LEMMA MouseHoverInv == ASSUME GInv, MouseHover PROVE GInv'
  <1>1. /\ Noted /\ UNCHANGED <<finger, mouse>> /\ mouse = "up" /\ ~flags.touch
        /\ flags' = NoFlags /\ NotDetected
    BY DEF MouseHover
  <1>2. current' = current /\ NoneIsNoSession'
    BY <1>1, UnheardEffect
  <1>3. SessionHeld'
    <2>1. current'.on # None /\ ~missed' => ~missed
      BY <1>1, <1>2, NotedInv
    <2> QED
      BY <1>1, <1>2, <2>1 DEF GInv, SessionHeld
  <1> QED
    BY <1>1, <1>3, MouseInv DEF GInv

LEMMA MouseUpInv == ASSUME GInv, MouseUp PROVE GInv'
  <1>1. /\ Noted /\ UNCHANGED finger /\ mouse' = "up"
        /\ \/ flags.touch /\ Unheard
           \/ ~flags.touch /\ Heard("mouse", "end", 0, None)
    BY DEF MouseUp
  <1>2. /\ GestureTypes' /\ LastCounts' /\ NoneIsNoSession' /\ TimerInSession'
        /\ PushedByDrag'
    BY <1>1, MouseInv
  <1>3. SessionHeld'
    <2>1. CASE flags.touch /\ Unheard
      BY <2>1 DEF SessionHeld, Unheard
    <2>2. CASE ~flags.touch /\ Heard("mouse", "end", 0, None)
      <3>1. TouchesSeen("mouse", 0) >= 1
        BY DEF TouchesSeen, GInv, GestureTypes
      <3>2. current'.on = None
        BY <2>2, <3>1, HeardEffect
      <3> QED
        BY <3>2 DEF SessionHeld
    <2> QED
      BY <1>1, <2>1, <2>2
  <1> QED
    BY <1>2, <1>3 DEF GInv

(* A release that the page is not told of is noted. *)
LEMMA MouseUpLostInv == ASSUME GInv, MouseUpLost PROVE GInv'
  <1>1. /\ UNCHANGED <<finger, flags, current, gestures, stick, swept>>
        /\ mouse' = "up" /\ missed' = (current # NoSession)
    BY DEF MouseUpLost, hammerVars
  <1>2. GestureTypes'
    BY <1>1 DEF GInv, GestureTypes
  <1>3. LastCounts'
    BY <1>1 DEF GInv, LastCounts
  <1>4. SessionHeld'
    BY <1>1, NoSessionIsOnNone DEF SessionHeld
  <1>5. NoneIsNoSession' /\ TimerInSession' /\ PushedByDrag'
    BY <1>1 DEF GInv, NoneIsNoSession, NoSession, TimerInSession, PushedByDrag
  <1> QED
    BY <1>2, <1>3, <1>4, <1>5 DEF GInv

-----------------------------------------------------------------------------
LEMMA HoldTimeoutInv == ASSUME GInv, HoldTimeout PROVE GInv'
  <1>1. /\ UNCHANGED <<finger, mouse, flags, current, stick, missed, swept>>
        /\ gestures' = [gestures EXCEPT !.timer = FALSE]
    BY DEF HoldTimeout
  <1>2. /\ gestures' \in [drag : BOOLEAN, transform : BOOLEAN, timer : BOOLEAN]
        /\ ~gestures'.timer /\ gestures'.drag = gestures.drag
    BY <1>1 DEF GInv, GestureTypes
  <1>3. GestureTypes'
    BY <1>1, <1>2 DEF GInv, GestureTypes
  <1>4. LastCounts' /\ SessionHeld'
    BY <1>1 DEF GInv, LastCounts, SessionHeld
  <1>5. NoneIsNoSession' /\ TimerInSession' /\ PushedByDrag'
    BY <1>1, <1>2 DEF GInv, NoneIsNoSession, NoSession, TimerInSession, PushedByDrag
  <1> QED
    BY <1>3, <1>4, <1>5 DEF GInv

LEMMA StutterGInv == ASSUME GInv, UNCHANGED vars PROVE GInv'
  <1>1. UNCHANGED <<finger, mouse, flags, current, gestures, stick, missed, swept>>
    BY DEF vars, hammerVars
  <1>2. GestureTypes' /\ LastCounts' /\ SessionHeld'
    BY <1>1 DEF GInv, GestureTypes, LastCounts, SessionHeld
  <1>3. NoneIsNoSession' /\ TimerInSession' /\ PushedByDrag'
    BY <1>1 DEF GInv, NoneIsNoSession, NoSession, TimerInSession, PushedByDrag
  <1> QED
    BY <1>2, <1>3 DEF GInv

LEMMA StepGInv == GInv /\ [Next]_vars => GInv'
  <1> SUFFICES ASSUME GInv, [Next]_vars PROVE GInv'
    OBVIOUS
  <1>1. CASE Fingering
    BY <1>1, TouchStartInv, TouchMoveInv, TouchEndInv DEF Fingering
  <1>2. CASE Mousing
    BY <1>2, MouseDownInv, MouseMoveInv, MouseHoverInv, MouseUpInv, MouseUpLostInv
       DEF Mousing
  <1> QED
    BY <1>1, <1>2, HoldTimeoutInv, StutterGInv DEF Next

LEMMA GesturesInvariance == Spec => []GInv
  <1> QED
    BY InitGInv, StepGInv, PTL DEF Spec

-----------------------------------------------------------------------------
(* One stick at most is pushed, and it is the one of the session, which     *)
(* drags, but for sticks that two fingers left at once: a gesture that      *)
(* takes over never leaves a stick pushed behind it (Drag.handler).         *)
THEOREM OnlyTheDragPushes == Spec => []PushedByDrag
  <1>1. GInv => PushedByDrag
    BY DEF GInv
  <1> QED
    BY <1>1, GesturesInvariance, PTL

(* A session ends with the last touch, however touches, mouse events and    *)
(* those that the browser makes of a tap follow each other (onTouch,        *)
(* detect, stopDetect).                                                     *)
THEOREM SessionsEnd == Spec => []SessionEnds
  <1>1. ASSUME GInv PROVE SessionEnds
    <2> SUFFICES ASSUME current # NoSession, ~missed PROVE Touched
      BY DEF SessionEnds
    <2>1. flags.touch \/ mouse # "up"
      BY <1>1 DEF GInv, SessionHeld, NoneIsNoSession
    <2>2. flags.touch => Down(finger) # {}
      <3>1. flags.touch => /\ flags.last \in Nat /\ flags.last >= 1
                           /\ flags.last <= Cardinality(Down(finger))
        BY <1>1 DEF GInv, GestureTypes, LastCounts
      <3> QED
        BY <3>1, DownCounts
    <2> QED
      BY <2>1, <2>2 DEF Touched
  <1> QED
    BY <1>1, GesturesInvariance, PTL

(* The callback of the hold timer, which does not check, finds a session    *)
(* (Hold.handler, setTimeout).                                              *)
THEOREM HoldIsInSession == Spec => []HoldFindsSession
  <1>1. GInv => HoldFindsSession
    BY NoSessionIsOnNone DEF GInv, TimerInSession, HoldFindsSession
  <1> QED
    BY <1>1, GesturesInvariance, PTL

(* A stick is at rest when nothing touches the page, except after a lost    *)
(* release of the button or after several fingers left the page at once:    *)
(* so the tank stops when the operator lets go (Drag.handler, dragend).     *)
THEOREM LetGoIsRest == Spec => []RestWhenUntouched
  <1>1. ASSUME PushedByDrag, SessionEnds PROVE RestWhenUntouched
    <2> SUFFICES ASSUME ~Touched, ~missed, NEW s \in Sticks, stick[s].active
                 PROVE  s \in swept
      BY DEF RestWhenUntouched
    <2>1. current = NoSession
      BY <1>1 DEF SessionEnds
    <2>2. current.on # s
      BY <2>1, NoSessionIsOnNone, GesturesAssumption DEF Places, Elements
    <2> QED
      BY <1>1, <2>2 DEF PushedByDrag
  <1> QED
    BY <1>1, OnlyTheDragPushes, SessionsEnd, PTL
================================================================================
