-------------------------- MODULE MCWebSocketServer --------------------------
(***************************************************************************)
(* Small instances of WebSocketServer: the command sender and the sensor   *)
(* poller, and two clients, which are interchangeable.                     *)
(***************************************************************************)
EXTENDS WebSocketServer, TLC

CONSTANTS main, sender, sensors, ws1, ws2

MCSymmetry == Permutations({ws1, ws2})
                \cup Permutations({sender, sensors})
=============================================================================
