---------------------------- MODULE ControllerInUse ----------------------------
(***************************************************************************)
(* The Controller in use: the wall clock, from which CommandSender takes   *)
(* the age of a client's command, may be set back while the tank drives,   *)
(* and "exit" at the console meets clients that start and stop the engine. *)
(***************************************************************************)
EXTENDS Controller

VARIABLE startWaits     \* history: a start waited for an engine that was off,
                        \* at some moment after Dispose was called

SetBack == /\ alive
           /\ \E time \in Times : time < now /\ now' = time
           /\ UNCHANGED <<engineStarted, StopThread, requests, alive,
                          senderVars, callerVars, queueVars>>

(* Dispose was called; it waits for the engine or is about to end all.      *)
Exiting == op[Console] = "dispose" \/ pc[Console] = "kill"

(* A start is asked for, or its engine_start waits while the engine is off. *)
StartWaits == \/ \E c \in Connections : op[c] = "start" /\ pc[c] \in {"lock", "push"}
              \/ ~engineStarted /\ \E i \in DOMAIN cmdQueue : cmdQueue[i].engineStart

InUseVars == <<vars, startWaits>>

InUseInit == Init /\ startWaits = FALSE

InUseNext == /\ SetBack \/ Next
             /\ startWaits' = (startWaits \/ (Exiting' /\ StartWaits'))

(* The clock may be set back at any time, and runs on. *)
InUseSpec == InUseInit /\ [][InUseNext]_InUseVars /\ Fairness

(* When the operators fall silent, the tank is not driven for ever, also    *)
(* when the clock is set back meanwhile, unless it is again and again: a    *)
(* command is repeated until the clock has caught up (MayRepeat).           *)
ReleasedAfterSetBacks == <>[][now' >= now]_vars => TankIsReleased

(* When the process ends the engine is off, whatever clients asked for      *)
(* before, unless a start waited while Dispose did its work: an engine that *)
(* Dispose sees running is stopped, and was not started again behind it     *)
(* (Dispose, StopEngine).                                                   *)
EngineOffAtExit == ~alive => ~engineStarted \/ startWaits
=============================================================================
