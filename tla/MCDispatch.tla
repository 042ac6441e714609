------------------------------ MODULE MCDispatch ------------------------------
(***************************************************************************)
(* A small instance of Dispatch: a client that commands, one that connects *)
(* and replaces it but says nothing, and the sensor poller.                *)
(***************************************************************************)
EXTENDS Dispatch

CONSTANTS main, ws1, ws2, sender, sensors

(* The second client waits behind nobody, sends nothing, and stays once it  *)
(* has connected.                                                           *)
SecondIsSilent == /\ behind[ws2] = Null
                  /\ sent[ws2] = 0
                  /\ ws2 \notin faulty
                  /\ wspc[ws2] # "idle" => online[ws2]
===============================================================================
