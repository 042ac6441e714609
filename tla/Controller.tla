----------------------------- MODULE Controller -----------------------------
(***************************************************************************)
(* The Controller (src/RaspiTank/Controller.cpp) and the threads that call *)
(* it: the console loop of main() and the web socket server's connection   *)
(* threads add commands to cmdQueue under queueLock; the real-time thread  *)
(* CommandSender takes them off, or fills the silence, and sends frames.   *)
(*                                                                         *)
(* A frame is abstracted to its code (module Command computes the bits).   *)
(* The wall clock advances in ticks; HoldTime ticks are the 50 ms of       *)
(* CommandSender.                                                          *)
(***************************************************************************)
EXTENDS Integers, Sequences

CONSTANTS
    Console,        \* the main thread, which reads the console
    Connections,    \* the threads that serve web socket connections
    Sender,         \* the CommandSender thread
    Moves,          \* the codes of the driving, turret and weapon frames
    ConsoleTypes,   \* the command types typed at the console
    ClientCodes,    \* the codes of the commands that clients send
    NIdle, NIgnition, NWait, NStart, NAfter,   \* lengths in StartEngine
    NStopNeutral, NStopIgnition,               \* lengths in StopEngine
    HoldTime,       \* how long a client's last command is repeated
    PollsEachFrame  \* do waiting callers poll at least once per frame?

CONSTANTS           \* bounds of the model
    MaxClock,       \* the clock stops here
    MaxRequests,    \* requests in a behaviour
    MaxCount        \* repetitions asked for at the console

Callers == Connections \cup {Console}
Free == "free"      \* queueLock when no thread holds it

Codes == {"idle", "ignition", "neutral", "unassigned"} \cup Moves
CmdTypes == {"idle", "ignition", "neutral", "engine_start", "engine_stop"}
                \cup Moves
Times == 0..MaxClock

ASSUME ThreadsAssumption ==
    /\ Console \notin Connections
    /\ Sender \notin Callers
    /\ Free \notin Callers \cup {Sender}

ASSUME CodesAssumption ==
    /\ Moves \cap {"idle", "ignition", "neutral", "unassigned", "none",
                   "engine_start", "engine_stop"} = {}
    /\ ConsoleTypes \subseteq CmdTypes
    /\ ClientCodes \subseteq Codes

ASSUME LengthsAssumption ==
    /\ {NIdle, NIgnition, NWait, NStart, NAfter} \subseteq Nat \ {0}
    /\ {NStopNeutral, NStopIgnition} \subseteq Nat \ {0}

ASSUME BoundsAssumption ==
    /\ {HoldTime, MaxClock, MaxRequests, MaxCount} \subseteq Nat
    /\ PollsEachFrame \in BOOLEAN

-----------------------------------------------------------------------------
(* Commands. The time of a command that the program itself creates is never *)
(* read, and is 0 here.                                                     *)

Command == [code : Codes, external : BOOLEAN, engineStart : BOOLEAN,
            engineStop : BOOLEAN, time : Times]

(* Variant: engine_start and engine_stop set no frame of their own. *)
CodeOfTypeItself(cmdtype) == cmdtype

CodeOf(cmdtype) == CASE cmdtype = "engine_start" -> "neutral"
                     [] cmdtype = "engine_stop"  -> "idle"
                     [] OTHER                    -> cmdtype

Local(cmdtype) == [code |-> CodeOf(cmdtype), external |-> FALSE,
                   engineStart |-> cmdtype = "engine_start",
                   engineStop |-> cmdtype = "engine_stop", time |-> 0]

External(code, time) == [code |-> code, external |-> TRUE,
                         engineStart |-> FALSE, engineStop |-> FALSE,
                         time |-> time]

Repeated(cmdtype, n) == [i \in 1..n |-> Local(cmdtype)]

(* Variant: the frames that tell the sender of the start are forgotten. *)
StartBlockUntold == Repeated("idle", NIdle) \o Repeated("ignition", NIgnition)
                    \o Repeated("neutral", NWait)

StartBlock == Repeated("idle", NIdle) \o Repeated("ignition", NIgnition)
              \o Repeated("neutral", NWait) \o Repeated("ignition", 1)
              \o Repeated("engine_start", NStart)
              \o Repeated("neutral", NAfter)

StopBlock == Repeated("neutral", NStopNeutral)
             \o Repeated("ignition", NStopIgnition)
             \o Repeated("engine_stop", 1)

-----------------------------------------------------------------------------
VARIABLES
    now,            \* the wall clock
    cmdQueue,       \* the commands to be sent
    queueLock,      \* the thread that holds the mutex, or Free
    engineStarted,
    StopThread,     \* never assigned before the process ends
    pc,             \* where each caller is
    op,             \* what each caller was asked to do
    block,          \* the commands it adds
    pushed,         \* how many of them it has pushed
    spc,            \* where the sender is
    curTime,        \* the clock as the sender last read it
    cmd,            \* the frame the sender is about to send
    lastExternalCmd, lastCmdTime,   \* the command the sender may repeat
    air,            \* the last frame sent, "none" at first
    status,         \* the last ENGINE_STATUS message, "none" at first
    requests,       \* requests so far
    alive           \* is the process running?

callerVars == <<pc, op, block, pushed>>
queueVars == <<cmdQueue, queueLock>>
envVars == <<now, StopThread, requests, alive>>
memVars == <<cmd, lastExternalCmd, lastCmdTime>>
outVars == <<air, status>>
senderVars == <<spc, curTime, cmd, lastExternalCmd, lastCmdTime, air, status>>
vars == <<now, cmdQueue, queueLock, engineStarted, StopThread, pc, op, block,
          pushed, spc, curTime, cmd, lastExternalCmd, lastCmdTime, air,
          status, requests, alive>>

(* StopThread and the sender's lastCmdTime are not initialised by the code. *)
Init == /\ now = 0
        /\ cmdQueue = <<>>
        /\ queueLock = Free
        /\ engineStarted = FALSE
        /\ StopThread \in BOOLEAN
        /\ pc = [c \in Callers |-> "ready"]
        /\ op = [c \in Callers |-> "none"]
        /\ block = [c \in Callers |-> <<>>]
        /\ pushed = [c \in Callers |-> 0]
        /\ spc = "check"
        /\ curTime = 0
        /\ cmd = "none"
        /\ lastExternalCmd = "unassigned"
        /\ lastCmdTime \in Times
        /\ air = "none"
        /\ status = "none"
        /\ requests = 0
        /\ alive = TRUE

-----------------------------------------------------------------------------
(* Variant: the mutex excludes nobody. *)
NoExclusion == TRUE

QueueIsFree == queueLock = Free

-----------------------------------------------------------------------------
(* The callers. *)

Ask(c, what, commands) ==
    /\ alive
    /\ pc[c] = "ready"
    /\ requests < MaxRequests
    /\ pc' = [pc EXCEPT ![c] = "lock"]
    /\ op' = [op EXCEPT ![c] = what]
    /\ block' = [block EXCEPT ![c] = commands]
    /\ requests' = requests + 1
    /\ UNCHANGED <<now, engineStarted, StopThread, pushed, alive, senderVars,
                   queueVars>>

(* The operator types a command type and a count. *)
ConsoleAdd == \E t \in ConsoleTypes, n \in 0..MaxCount :
                 Ask(Console, "add", Repeated(t, n))

(* A client's command arrives. Bound: late enough before the clock stops    *)
(* for its hold time to run out.                                            *)
ClientAdd(c) == /\ now + HoldTime <= MaxClock
                /\ \E code \in ClientCodes :
                      Ask(c, "add", <<External(code, now)>>)

StartEngine(c) == Ask(c, "start", StartBlock)

StopEngine(c) == Ask(c, "stop", StopBlock)

(* Variant: the process ends without a look at the engine. *)
DisposeAtOnce == /\ alive
                 /\ pc[Console] = "ready"
                 /\ pc' = [pc EXCEPT ![Console] = "kill"]
                 /\ UNCHANGED <<engineStarted, op, block, pushed, senderVars,
                                queueVars, envVars>>

(* "exit" at the console: Dispose stops an engine that it sees running.     *)
Dispose == \/ /\ engineStarted
              /\ Ask(Console, "dispose", StopBlock)
           \/ /\ alive
              /\ pc[Console] = "ready"
              /\ ~engineStarted
              /\ pc' = [pc EXCEPT ![Console] = "kill"]
              /\ UNCHANGED <<engineStarted, op, block, pushed, senderVars,
                             queueVars, envVars>>

AcquireQueue(c) ==
    /\ alive
    /\ pc[c] = "lock"
    /\ QueueIsFree
    /\ queueLock' = c
    /\ pc' = [pc EXCEPT ![c] = "push"]
    /\ UNCHANGED <<cmdQueue, engineStarted, op, block, pushed, senderVars,
                   envVars>>

Pushing(c) == pc[c] = "push" /\ pushed[c] < Len(block[c])

(* Variant: the engine frames of a sequence are added under a lock of their *)
(* own.                                                                     *)
PushRelocking(c) ==
    /\ alive
    /\ Pushing(c)
    /\ cmdQueue' = Append(cmdQueue, block[c][pushed[c] + 1])
    /\ pushed' = [pushed EXCEPT ![c] = @ + 1]
    /\ IF pushed[c] + 1 < Len(block[c]) /\ block[c][pushed[c] + 2].engineStart
       THEN /\ queueLock' = Free
            /\ pc' = [pc EXCEPT ![c] = "lock"]
       ELSE UNCHANGED <<queueLock, pc>>
    /\ UNCHANGED <<engineStarted, op, block, senderVars, envVars>>

Push(c) ==
    /\ alive
    /\ Pushing(c)
    /\ cmdQueue' = Append(cmdQueue, block[c][pushed[c] + 1])
    /\ pushed' = [pushed EXCEPT ![c] = @ + 1]
    /\ UNCHANGED <<queueLock, engineStarted, pc, op, block, senderVars,
                   envVars>>

(* AddCmd returns to its caller; StartEngine and StopEngine go on to wait.  *)
ReleaseQueue(c) ==
    /\ alive
    /\ pc[c] = "push"
    /\ pushed[c] = Len(block[c])
    /\ queueLock' = Free
    /\ block' = [block EXCEPT ![c] = <<>>]
    /\ pushed' = [pushed EXCEPT ![c] = 0]
    /\ IF op[c] = "add"
       THEN /\ pc' = [pc EXCEPT ![c] = "ready"]
            /\ op' = [op EXCEPT ![c] = "none"]
       ELSE /\ pc' = [pc EXCEPT ![c] = "wait"]
            /\ UNCHANGED op
    /\ UNCHANGED <<cmdQueue, engineStarted, senderVars, envVars>>

(* The condition on which a caller leaves its polling loop. *)
SeesEngine(c) == /\ pc[c] = "wait"
                 /\ engineStarted = (op[c] = "start")

Return(c) ==
    /\ alive
    /\ SeesEngine(c)
    /\ pc' = [pc EXCEPT ![c] = IF op[c] = "dispose" THEN "kill" ELSE "ready"]
    /\ op' = [op EXCEPT ![c] = "none"]
    /\ UNCHANGED <<engineStarted, block, pushed, senderVars, queueVars,
                   envVars>>

(* Dispose deletes the web socket server while its listener thread can      *)
(* still be joined: ~thread calls std::terminate and the process ends here, *)
(* before the assignment of StopThread.                                     *)
Kill ==
    /\ alive
    /\ pc[Console] = "kill"
    /\ alive' = FALSE
    /\ UNCHANGED <<now, engineStarted, StopThread, requests, senderVars,
                   callerVars, queueVars>>

-----------------------------------------------------------------------------
(* The sender. *)

(* The top of the loop: StopThread is tested and the clock read.            *)
Check ==
    /\ alive
    /\ spc = "check"
    /\ IF StopThread THEN /\ spc' = "exited"
                          /\ UNCHANGED curTime
                     ELSE /\ spc' = "peek"
                          /\ curTime' = now
    /\ UNCHANGED <<engineStarted, callerVars, queueVars, envVars, memVars,
                   outVars>>

(* empty() is called without the lock. While a push is under way the read   *)
(* may already see its effect.                                              *)
PushUnderWay == \E c \in Callers : Pushing(c)

SeesCommand == cmdQueue # <<>> \/ PushUnderWay

PeekNonEmpty ==
    /\ alive
    /\ spc = "peek"
    /\ SeesCommand
    /\ spc' = "lock"
    /\ UNCHANGED <<engineStarted, curTime, callerVars, queueVars, envVars,
                   memVars, outVars>>

(* Variant: the age of the command is ignored. *)
MayRepeatForEver == lastExternalCmd # "unassigned"

MayRepeat == /\ curTime - lastCmdTime < HoldTime
             /\ lastExternalCmd # "unassigned"

PeekEmpty ==
    /\ alive
    /\ spc = "peek"
    /\ cmdQueue = <<>>
    /\ CASE MayRepeat ->
              /\ cmd' = lastExternalCmd
              /\ spc' = "send"
              /\ UNCHANGED lastExternalCmd
         [] ~MayRepeat /\ engineStarted ->
              /\ cmd' = "neutral"
              /\ lastExternalCmd' = "unassigned"
              /\ spc' = "send"
         [] OTHER ->
              /\ spc' = "check"
              /\ UNCHANGED <<cmd, lastExternalCmd>>
    /\ UNCHANGED <<engineStarted, curTime, lastCmdTime, callerVars,
                   queueVars, envVars, outVars>>

AcquireToPop ==
    /\ alive
    /\ spc = "lock"
    /\ QueueIsFree
    /\ queueLock' = Sender
    /\ spc' = "pop"
    /\ UNCHANGED <<cmdQueue, engineStarted, curTime, callerVars, envVars,
                   memVars, outVars>>

(* A command from a client becomes the one to repeat, a command of the      *)
(* program cancels it. Variant: it does not.                                *)
StillRepeating(c) == IF c.external THEN c.code ELSE lastExternalCmd

ToRepeat(c) == IF c.external THEN c.code ELSE "unassigned"

(* Variant: only starts are told to the client. *)
IsStartFrame(c) == c.engineStart

IsEngineFrame(c) == c.engineStart \/ c.engineStop

(* front() and pop(), and what the command says of the engine. *)
Pop ==
    /\ alive
    /\ spc = "pop"
    /\ LET c == Head(cmdQueue) IN
         /\ cmd' = c.code
         /\ lastExternalCmd' = ToRepeat(c)
         /\ lastCmdTime' = IF c.external THEN c.time ELSE lastCmdTime
         /\ spc' = IF IsEngineFrame(c) THEN "report" ELSE "unlock"
         /\ engineStarted' = (c.engineStart \/ (engineStarted /\ ~c.engineStop))
    /\ cmdQueue' = Tail(cmdQueue)
    /\ UNCHANGED <<queueLock, curTime, callerVars, envVars, outVars>>

(* SendMsg("ENGINE_STATUS", ...), called while the queue is locked. *)
Report ==
    /\ alive
    /\ spc = "report"
    /\ status' = IF engineStarted THEN "start" ELSE "stop"
    /\ spc' = "unlock"
    /\ UNCHANGED <<engineStarted, curTime, air, callerVars, queueVars,
                   envVars, memVars>>

(* Variant: an early way out that forgets the lock. *)
LeaveLocked ==
    /\ alive
    /\ spc = "unlock"
    /\ spc' = "send"
    /\ UNCHANGED <<engineStarted, curTime, callerVars, queueVars, envVars,
                   memVars, outVars>>

ReleaseAfterPop ==
    /\ alive
    /\ spc = "unlock"
    /\ queueLock' = Free
    /\ spc' = "send"
    /\ UNCHANGED <<cmdQueue, engineStarted, curTime, callerVars, envVars,
                   memVars, outVars>>

(* SendCode takes 24 ms, most of it asleep, and a waiting caller polls      *)
(* every 10 ms: with PollsEachFrame, one that sees the state of the engine  *)
(* it waits for returns before the frame is over.                           *)
SendCode ==
    /\ alive
    /\ spc = "send"
    /\ PollsEachFrame => \A c \in Callers : ~SeesEngine(c)
    /\ air' = cmd
    /\ spc' = "check"
    /\ UNCHANGED <<engineStarted, curTime, status, callerVars, queueVars,
                   envVars, memVars>>

-----------------------------------------------------------------------------
Tick == /\ alive
        /\ now < MaxClock
        /\ now' = now + 1
        /\ UNCHANGED <<engineStarted, StopThread, requests, alive,
                       senderVars, callerVars, queueVars>>

Halted == ~alive \/ spc = "exited"

Stay == Halted /\ UNCHANGED vars

SenderStep == \/ Check
              \/ PeekNonEmpty
              \/ PeekEmpty
              \/ AcquireToPop
              \/ Pop
              \/ Report
              \/ ReleaseAfterPop
              \/ SendCode

CallerStep(c) == \/ AcquireQueue(c)
                 \/ Push(c)
                 \/ ReleaseQueue(c)
                 \/ Return(c)

Request == \/ ConsoleAdd
           \/ \E c \in Connections : ClientAdd(c)
           \/ \E c \in Callers : StartEngine(c) \/ StopEngine(c)
           \/ Dispose

Next == \/ SenderStep
        \/ \E c \in Callers : CallerStep(c)
        \/ Request
        \/ Kill
        \/ Tick
        \/ Stay

Spec == Init /\ [][Next]_vars

(* The threads run and the clock advances; nothing obliges an operator to   *)
(* ask for anything.                                                        *)
Fairness == /\ WF_vars(SenderStep)
            /\ \A c \in Callers : WF_vars(CallerStep(c))
            /\ WF_vars(Kill)
            /\ WF_vars(Tick)

-----------------------------------------------------------------------------
(* Properties. *)

TypeOK ==
    /\ now \in Times
    /\ cmdQueue \in Seq(Command)
    /\ queueLock \in Callers \cup {Sender, Free}
    /\ engineStarted \in BOOLEAN
    /\ StopThread \in BOOLEAN
    /\ pc \in [Callers -> {"ready", "lock", "push", "wait", "kill"}]
    /\ op \in [Callers -> {"none", "add", "start", "stop", "dispose"}]
    /\ block \in [Callers -> Seq(Command)]
    /\ pushed \in [Callers -> Nat]
    /\ spc \in {"check", "peek", "lock", "pop", "report", "unlock", "send",
                "exited"}
    /\ curTime \in Times
    /\ cmd \in Codes \cup {"none"}
    /\ lastExternalCmd \in Codes
    /\ lastCmdTime \in Times
    /\ air \in Codes \cup {"none"}
    /\ status \in {"none", "start", "stop"}
    /\ requests \in 0..MaxRequests
    /\ alive \in BOOLEAN

(* front() and pop() are never called on an empty queue, although empty()   *)
(* was tested before the lock was taken, and may have been tested while     *)
(* another thread was pushing.                                              *)
PopNonEmpty == spc = "pop" => cmdQueue # <<>>

(* The thread in a critical section of cmdQueue is the one that holds the   *)
(* mutex, so no two are: only it modifies the queue.                        *)
HoldsQueue(t) == IF t = Sender THEN spc \in {"pop", "report", "unlock"}
                               ELSE pc[t] = "push"

LockHolders == \A t \in Callers \cup {Sender} : HoldsQueue(t) <=> queueLock = t

(* A non-empty queue that the sender saw, or a push that it saw under way,  *)
(* is still there when it gets the lock: nobody else removes commands.      *)
WillPop == spc = "lock" => cmdQueue # <<>> \/ PushUnderWay

(* The engine flag, which the callers of StartEngine and StopEngine wait    *)
(* on, changes only right after an ignition frame went on air: no command   *)
(* of another thread ever comes between the last ignition frame of a        *)
(* sequence and its engine_start or engine_stop frame. (Of programs and     *)
(* operators that do not send raw engine frames from the console.)          *)
EngineSwitchesAfterIgnition ==
    [][engineStarted' # engineStarted => air = "ignition"]_vars

(* What clients were last told of the engine is what CommandSender holds,   *)
(* except between its assignment and its message.                           *)
ClientsKnowEngine ==
    spc # "report" => IF engineStarted THEN status = "start"
                                       ELSE status \in {"none", "stop"}

-----------------------------------------------------------------------------
(* Every block is added at once and sent without a break, in order, exactly *)
(* once; repeated and neutral frames only fill silences.                    *)

(* The commands that a caller still holding the lock has pushed are not yet *)
(* submitted.                                                               *)
Submitted == IF queueLock \in Callers
             THEN SubSeq(cmdQueue, 1, Len(cmdQueue) - pushed[queueLock])
             ELSE cmdQueue

Link == INSTANCE CommandLink WITH
            Block <- {Repeated(t, n) : t \in ConsoleTypes, n \in 0..MaxCount}
                \cup {<<External(code, t)>> : code \in ClientCodes, t \in Times}
                \cup {StartBlock, StopBlock},
            NoFrame <- "none",
            backlog <- Submitted,
            engine <- engineStarted,
            repeatable <- IF lastExternalCmd = "unassigned" THEN "none"
                          ELSE lastExternalCmd,
            owed <- IF spc \in {"report", "unlock", "send"} THEN cmd
                    ELSE "none"

ImplementsLink == Link!Spec

-----------------------------------------------------------------------------
(* Liveness. *)

(* Every call of AddCmd, StartEngine and StopEngine returns, also when      *)
(* starts and stops of several threads are queued one behind the other, and *)
(* whatever they queue is sent.                                             *)
CallsCarriedOut ==
    /\ \A c \in Callers : pc[c] # "ready" ~> (pc[c] = "ready" \/ Halted)
    /\ (cmdQueue # <<>>) ~> (cmdQueue = <<>> \/ Halted)

(* When the operators fall silent, the tank is not driven for ever: from    *)
(* some moment on, only neutral frames are sent, or none.                   *)
TankIsReleased == <>[](alive /\ spc = "send" => cmd = "neutral")
=============================================================================
