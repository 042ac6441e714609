-------------------------------- MODULE Dispatch --------------------------------
(***************************************************************************)
(* The web socket server and the Controller together: the threads that     *)
(* serve connections read a command under wsLock and hand it to AddCmd,    *)
(* which takes queueLock; CommandSender sends its status messages, under   *)
(* wsLock, while it holds queueLock; the sensor poller sends its own. The  *)
(* console is not used, no signal and no plain request arrives, no client  *)
(* sends a PING (whose answer takes no lock), and the clock, which decides *)
(* about repeated frames only, stands still.                               *)
(***************************************************************************)
EXTENDS Controller

CONSTANTS Poller,       \* the thread of UpdateSensors
          PoolSize, Null, MaxFrames, MaxParts   \* as in WebSocketServer

ASSUME PollerAssumption ==
    /\ Poller \notin Callers \cup {Sender}
    /\ Null \notin Callers \cup {Sender, Poller}

VARIABLES wsLock, ws, accepted, socket, halfSent, handler, behind, online, sent,
          left, payload, faulty, pinged, listening, stopped,
          wspc          \* where each thread is in the web socket server

Server == INSTANCE WebSocketServer WITH
              Senders <- {Sender, Poller}, Main <- Console, pc <- wspc,
              PlainRequests <- FALSE, Signals <- FALSE, Pings <- FALSE

serverVars == <<wsLock, ws, accepted, socket, halfSent, handler, behind, online,
                sent, left, payload, faulty, pinged, listening, stopped, wspc>>
controllerVars == <<now, cmdQueue, queueLock, engineStarted, StopThread, pc, op,
                    block, pushed, spc, curTime, cmd, lastExternalCmd,
                    lastCmdTime, air, status, requests>>
dispatchVars == <<vars, serverVars>>

DispatchInit == Init /\ Server!Init

-----------------------------------------------------------------------------
(* OnMessage: what it has read is handed to AddCmd, if it parses ...        *)
OnCommand(c) ==
    /\ Server!Read(c)
    /\ IF wspc'[c] = "command"
       THEN ClientAdd(c) \/ StartEngine(c) \/ StopEngine(c)
       ELSE UNCHANGED controllerVars

(* ... and AddCmd returns. *)
CommandAdded(c) == /\ Server!Handled(c)
                   /\ pc[c] = "ready"
                   /\ UNCHANGED controllerVars

(* CommandSender calls SendMsg while it holds queueLock. Without a client   *)
(* it sends nothing.                                                        *)
ReportUnheard == ws = Null /\ wspc[Sender] = "idle" /\ Report
                           /\ UNCHANGED serverVars

Reporting == /\ spc = "report"
             /\ \/ Server!TestSocket(Sender)
                \/ Server!LockToSend(Sender)
                \/ Server!WriteHeader(Sender)
                \/ Server!WritePayload(Sender)
             /\ UNCHANGED controllerVars

Reported == Server!UnlockSent(Sender) /\ Report

SenderOwnStep == \/ Check
                 \/ PeekNonEmpty
                 \/ PeekEmpty
                 \/ AcquireToPop
                 \/ Pop
                 \/ ReleaseAfterPop
                 \/ SendCode

ConnectionStep(c) == \/ Server!Connecting(c)
                     \/ Server!LockToRead(c)
                     \/ Server!ReadFails(c)
                     \/ Server!PollAgain(c)
                     \/ Server!Close(c)

Resting == \/ Server!Stay /\ UNCHANGED vars
           \/ Stay /\ UNCHANGED serverVars

DispatchNext ==
    \/ \E c \in Connections :
          \/ OnCommand(c)
          \/ CommandAdded(c)
          \/ CallerStep(c) /\ UNCHANGED serverVars
          \/ (ConnectionStep(c) \/ Server!Client(c)) /\ UNCHANGED controllerVars
    \/ ReportUnheard
    \/ Reporting
    \/ Reported
    \/ SenderOwnStep /\ UNCHANGED serverVars
    \/ Server!SendMsg(Poller) /\ UNCHANGED controllerVars
    \/ Resting

DispatchSpec == DispatchInit /\ [][DispatchNext]_dispatchVars

(* Threads run; who waits for wsLock gets it when it is free over and over  *)
(* again.                                                                   *)
DispatchFairness ==
    /\ \A c \in Connections :
          /\ WF_dispatchVars(OnCommand(c) \/ CommandAdded(c))
          /\ WF_dispatchVars(CallerStep(c) /\ UNCHANGED serverVars)
          /\ WF_dispatchVars(ConnectionStep(c) /\ UNCHANGED controllerVars)
          /\ SF_dispatchVars((Server!LockToConnect(c) \/ Server!LockToRead(c))
                                /\ UNCHANGED controllerVars)
    /\ WF_dispatchVars(\/ ReportUnheard \/ Reporting \/ Reported
                       \/ SenderOwnStep /\ UNCHANGED serverVars)
    /\ SF_dispatchVars(Server!LockToSend(Sender) /\ UNCHANGED controllerVars)
    /\ WF_dispatchVars(Server!SendMsg(Poller) /\ UNCHANGED controllerVars)

FairDispatchSpec == DispatchSpec /\ DispatchFairness

-----------------------------------------------------------------------------
(* Nobody waits for queueLock, or holds it, who holds wsLock, but for       *)
(* CommandSender: so the two locks are never taken in both orders, and no   *)
(* client's command meets a status message in a deadlock (OnMessage, AddCmd,*)
(* CommandSender, SendMsg).                                                 *)
LocksInOrder ==
    /\ \A c \in Connections : wsLock = c => pc[c] = "ready"
    /\ wsLock = Sender => queueLock = Sender

(* A command that reached OnMessage is read and handed to AddCmd, and the   *)
(* call returns, though the sender may hold queueLock and wait for wsLock,  *)
(* and a start or stop waits for the whole sequence to be sent.             *)
CommandsReturn ==
    \A c \in Connections :
        wspc[c] \in {"message", "read", "command"} ~>
            (wspc[c] \in {"poll", "ending", "closed"} \/ Halted)
=============================================================================
