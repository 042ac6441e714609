------------------------------ MODULE MCGestures ------------------------------
(***************************************************************************)
(* Instances of Gestures: two sticks that differ in nothing, the log panel,*)
(* two fingers, and a mouse or none.                                       *)
(***************************************************************************)
EXTENDS Gestures, TLC

CONSTANTS turrel, move, log, f1, f2

Symmetry == Permutations({turrel, move}) \cup Permutations({f1, f2})

(* No guard reads the events that the last step triggered. *)
View == <<finger, mouse, echo, flags, current, lastTap, gestures, stick,
          missed, swept>>
=============================================================================
