----------------------------- MODULE System_proofs -----------------------------
(***************************************************************************)
(* Proofs about the Controller, alone and together with its neighbours,    *)
(* for any number of threads, clicks and commands, any lengths of the      *)
(* engine sequences and any bounds.                                        *)
(*                                                                         *)
(* Controller and ControllerInUse: the queue, the engine's flag, and what  *)
(* CommandLink promises.                                                   *)
(*                                                                         *)
(* Dispatch: cmdQueue's mutex and that of the web socket server are never  *)
(* taken in both orders.                                                   *)
(*                                                                         *)
(* Tank: as long as nothing is lost, the page believes what CommandSender  *)
(* holds and its button tells the truth, once nothing is under way.        *)
(***************************************************************************)
EXTENDS Dispatch, Tank, ControllerInUse, TLAPS

-----------------------------------------------------------------------------
(* CONTROLLER: the callers and CommandSender.                               *)

(* The inductive invariant: the head of the queue that Pop reads is a       *)
(* command only because the queue is not empty, which rests on the queue    *)
(* being modified by the holder of the lock alone.                          *)
IInv == TypeOK /\ LockHolders /\ WillPop /\ PopNonEmpty

-----------------------------------------------------------------------------
(* The blocks of commands that the callers add. *)

(* A command that the program creates is a command. *)
LEMMA LocalType == ASSUME NEW t \in CmdTypes PROVE Local(t) \in Command
  BY CodesAssumption, BoundsAssumption
     DEF Local, Command, CmdTypes, CodeOf, Codes, Times

(* A client's command, read while the clock runs, is a command. *)
LEMMA ExternalType ==
  ASSUME NEW code \in ClientCodes, NEW time \in Times
  PROVE  External(code, time) \in Command
  BY CodesAssumption DEF External, Command

(* AddCmd with a count adds a sequence of commands. *)
LEMMA RepeatedType ==
  ASSUME NEW t \in CmdTypes, NEW n \in Nat
  PROVE  Repeated(t, n) \in Seq(Command)
  <1>1. \A i \in 1..n : Local(t) \in Command
    BY LocalType
  <1> QED
    BY <1>1 DEF Repeated

(* StartEngine and StopEngine add sequences of commands. *)
LEMMA BlocksType == StartBlock \in Seq(Command) /\ StopBlock \in Seq(Command)
  <1>1. {"idle", "ignition", "neutral", "engine_start", "engine_stop"}
          \subseteq CmdTypes
    BY DEF CmdTypes
  <1>0. /\ {NIdle, NIgnition, NWait, NStart, NAfter} \subseteq Nat
        /\ {NStopNeutral, NStopIgnition} \subseteq Nat
    BY LengthsAssumption
  <1>2. /\ Repeated("idle", NIdle) \in Seq(Command)
        /\ Repeated("ignition", NIgnition) \in Seq(Command)
        /\ Repeated("neutral", NWait) \in Seq(Command)
        /\ Repeated("ignition", 1) \in Seq(Command)
        /\ Repeated("engine_start", NStart) \in Seq(Command)
        /\ Repeated("neutral", NAfter) \in Seq(Command)
    BY <1>0, <1>1, RepeatedType
  <1>3. /\ Repeated("neutral", NStopNeutral) \in Seq(Command)
        /\ Repeated("ignition", NStopIgnition) \in Seq(Command)
        /\ Repeated("engine_stop", 1) \in Seq(Command)
    BY <1>0, <1>1, RepeatedType
  <1>4. StartBlock \in Seq(Command)
    BY <1>2 DEF StartBlock
  <1>5. StopBlock \in Seq(Command)
    BY <1>3 DEF StopBlock
  <1> QED
    BY <1>4, <1>5

-----------------------------------------------------------------------------
(* The invariant holds initially. *)
LEMMA InitIInv == Init => IInv
  <1> SUFFICES ASSUME Init PROVE IInv
    OBVIOUS
  <1>1. TypeOK
    <2>1. <<>> \in Seq(Command)
      OBVIOUS
    <2>2. 0 \in Times /\ 0 \in 0..MaxRequests
      BY BoundsAssumption DEF Times
    <2> QED
      BY <2>1, <2>2 DEF Init, TypeOK, Codes
  <1>2. LockHolders
    BY ThreadsAssumption DEF Init, LockHolders, HoldsQueue
  <1>3. WillPop /\ PopNonEmpty
    BY DEF Init, WillPop, PopNonEmpty
  <1> QED
    BY <1>1, <1>2, <1>3 DEF IInv

-----------------------------------------------------------------------------
(* Every step preserves it. *)

(* A request moves one caller from "ready" to "lock" with a block of        *)
(* commands; queue, lock and sender stay as they are.                       *)
LEMMA AskIInv ==
  ASSUME IInv, NEW c \in Callers, NEW what \in {"add", "start", "stop", "dispose"},
         NEW commands \in Seq(Command), Ask(c, what, commands)
  PROVE  IInv'
  <1>0. /\ pc' \in [Callers -> {"ready", "lock", "push", "wait", "kill"}]
        /\ op' \in [Callers -> {"none", "add", "start", "stop", "dispose"}]
        /\ block' \in [Callers -> Seq(Command)]
        /\ requests' \in 0..MaxRequests
    BY BoundsAssumption DEF IInv, TypeOK, Ask
  <1>1. TypeOK'
    BY <1>0 DEF IInv, TypeOK, Ask, senderVars, queueVars
  <1>2. LockHolders'
    BY DEF IInv, TypeOK, LockHolders, HoldsQueue, Ask, senderVars, queueVars, Callers
  <1>3. WillPop'
    BY DEF IInv, TypeOK, WillPop, PushUnderWay, Pushing, Ask, senderVars, queueVars
  <1>4. PopNonEmpty'
    BY DEF IInv, PopNonEmpty, Ask, senderVars, queueVars
  <1> QED
    BY <1>1, <1>2, <1>3, <1>4 DEF IInv

(* The requests of operators, and the end of the process. *)
LEMMA RequestIInv == ASSUME IInv, Request \/ Kill \/ Tick \/ Stay PROVE IInv'
  <1>1. CASE ConsoleAdd
    <2>1. PICK t \in ConsoleTypes, n \in 0..MaxCount :
             Ask(Console, "add", Repeated(t, n))
      BY <1>1 DEF ConsoleAdd
    <2>2. Repeated(t, n) \in Seq(Command)
      BY RepeatedType, CodesAssumption, BoundsAssumption
    <2> QED
      BY <2>1, <2>2, AskIInv DEF Callers
  <1>2. ASSUME NEW c \in Connections, ClientAdd(c) PROVE IInv'
    <2>1. PICK code \in ClientCodes : Ask(c, "add", <<External(code, now)>>)
      BY <1>2 DEF ClientAdd
    <2>2. <<External(code, now)>> \in Seq(Command)
      BY ExternalType DEF IInv, TypeOK
    <2> QED
      BY <2>1, <2>2, AskIInv DEF Callers
  <1>3. ASSUME NEW c \in Callers, StartEngine(c) \/ StopEngine(c) PROVE IInv'
    BY <1>3, BlocksType, AskIInv DEF StartEngine, StopEngine
  <1>4. CASE Dispose
    <2>1. CASE Ask(Console, "dispose", StopBlock)
      BY <2>1, BlocksType, AskIInv DEF Callers
    <2>2. CASE /\ pc[Console] = "ready"
               /\ pc' = [pc EXCEPT ![Console] = "kill"]
               /\ UNCHANGED <<engineStarted, op, block, pushed, senderVars,
                              queueVars, envVars>>
      <3>0. pc' \in [Callers -> {"ready", "lock", "push", "wait", "kill"}]
        BY <2>2 DEF IInv, TypeOK
      <3>1. TypeOK'
        BY <2>2, <3>0 DEF IInv, TypeOK, senderVars, queueVars, envVars
      <3>2. LockHolders'
        BY <2>2 DEF IInv, TypeOK, LockHolders, HoldsQueue, senderVars, queueVars, Callers
      <3>3. WillPop' /\ PopNonEmpty'
        BY <2>2 DEF IInv, TypeOK, WillPop, PopNonEmpty, PushUnderWay, Pushing,
                    senderVars, queueVars
      <3> QED
        BY <3>1, <3>2, <3>3 DEF IInv
    <2> QED
      BY <1>4, <2>1, <2>2 DEF Dispose
  <1>5. CASE Kill \/ Stay
    <2>1. /\ UNCHANGED <<callerVars, queueVars, senderVars, now, StopThread>>
          /\ UNCHANGED <<engineStarted, requests>>
          /\ alive' \in BOOLEAN
      BY <1>5 DEF Kill, Stay, vars, callerVars, queueVars, senderVars, IInv, TypeOK
    <2>2. TypeOK'
      BY <2>1 DEF IInv, TypeOK, callerVars, queueVars, senderVars
    <2>3. LockHolders'
      BY <2>1 DEF IInv, LockHolders, HoldsQueue, callerVars, queueVars, senderVars
    <2>4. WillPop' /\ PopNonEmpty'
      BY <2>1 DEF IInv, WillPop, PopNonEmpty, PushUnderWay, Pushing,
                  callerVars, queueVars, senderVars
    <2> QED
      BY <2>2, <2>3, <2>4 DEF IInv
  <1>6. CASE Tick
    <2>1. now' \in Times
      BY <1>6, BoundsAssumption DEF Tick, IInv, TypeOK, Times
    <2>2. TypeOK'
      BY <1>6, <2>1 DEF IInv, TypeOK, Tick, callerVars, queueVars, senderVars
    <2>3. LockHolders'
      BY <1>6 DEF IInv, LockHolders, HoldsQueue, Tick, callerVars, queueVars,
                  senderVars
    <2>4. WillPop' /\ PopNonEmpty'
      BY <1>6 DEF IInv, WillPop, PopNonEmpty, PushUnderWay, Pushing, Tick,
                  callerVars, queueVars, senderVars
    <2> QED
      BY <2>2, <2>3, <2>4 DEF IInv
  <1> QED
    BY <1>1, <1>2, <1>3, <1>4, <1>5, <1>6 DEF Request

(* A caller's step: only AcquireQueue takes the lock, only Push modifies    *)
(* the queue, only ReleaseQueue gives the lock back.                        *)
LEMMA CallerIInv ==
  ASSUME IInv, NEW c \in Callers, CallerStep(c)
  PROVE  IInv'
  <1>0. c # Sender /\ Free # c /\ Free # Sender
    BY ThreadsAssumption
  <1>1. CASE AcquireQueue(c)
    <2>0. /\ pc' \in [Callers -> {"ready", "lock", "push", "wait", "kill"}]
          /\ queueLock' \in Callers \cup {Sender, Free}
      BY <1>1 DEF IInv, TypeOK, AcquireQueue
    <2>1. TypeOK'
      BY <1>1, <2>0 DEF IInv, TypeOK, AcquireQueue, senderVars, envVars
    <2>2. LockHolders'
      BY <1>0, <1>1, ThreadsAssumption
         DEF IInv, TypeOK, LockHolders, HoldsQueue, AcquireQueue,
             QueueIsFree, senderVars
    <2>3. WillPop' /\ PopNonEmpty'
      BY <1>1 DEF IInv, TypeOK, WillPop, PopNonEmpty, PushUnderWay, Pushing,
                  AcquireQueue, senderVars
    <2> QED
      BY <2>1, <2>2, <2>3 DEF IInv
  <1>2. CASE Push(c)
    <2>1. block[c][pushed[c] + 1] \in Command
      BY <1>2 DEF IInv, TypeOK, Push, Pushing
    <2>2. cmdQueue' \in Seq(Command) /\ cmdQueue' # <<>>
      BY <1>2, <2>1 DEF IInv, TypeOK, Push
    <2>0. pushed' \in [Callers -> Nat]
      BY <1>2 DEF IInv, TypeOK, Push
    <2>3. TypeOK'
      BY <1>2, <2>0, <2>2 DEF IInv, TypeOK, Push, senderVars, envVars
    <2>4. LockHolders'
      BY <1>2 DEF IInv, TypeOK, LockHolders, HoldsQueue, Push, senderVars
    <2>5. WillPop' /\ PopNonEmpty'
      BY <2>2 DEF WillPop, PopNonEmpty
    <2> QED
      BY <2>3, <2>4, <2>5 DEF IInv
  <1>3. CASE ReleaseQueue(c)
    <2>1. TypeOK'
      <3>1. block' \in [Callers -> Seq(Command)] /\ pushed' \in [Callers -> Nat]
        BY <1>3 DEF IInv, TypeOK, ReleaseQueue
      <3>2. /\ pc' \in [Callers -> {"ready", "lock", "push", "wait", "kill"}]
            /\ op' \in [Callers -> {"none", "add", "start", "stop", "dispose"}]
        BY <1>3 DEF IInv, TypeOK, ReleaseQueue
      <3> QED
        BY <1>3, <3>1, <3>2 DEF IInv, TypeOK, ReleaseQueue, senderVars, envVars
    <2>2. LockHolders'
      BY <1>0, <1>3, ThreadsAssumption
         DEF IInv, TypeOK, LockHolders, HoldsQueue, ReleaseQueue, senderVars
    <2>3. \A d \in Callers : d # c => (Pushing(d)' <=> Pushing(d))
      BY <1>3 DEF IInv, TypeOK, Pushing, ReleaseQueue
    <2>4. ~Pushing(c)
      BY <1>3 DEF IInv, TypeOK, Pushing, ReleaseQueue
    <2>5. WillPop' /\ PopNonEmpty'
      BY <1>3, <2>3, <2>4 DEF IInv, WillPop, PopNonEmpty, PushUnderWay,
                              ReleaseQueue, senderVars
    <2> QED
      BY <2>1, <2>2, <2>5 DEF IInv
  <1>4. CASE Return(c)
    <2>0. /\ pc' \in [Callers -> {"ready", "lock", "push", "wait", "kill"}]
          /\ op' \in [Callers -> {"none", "add", "start", "stop", "dispose"}]
      BY <1>4 DEF IInv, TypeOK, Return
    <2>1. TypeOK'
      BY <1>4, <2>0 DEF IInv, TypeOK, Return, senderVars, queueVars, envVars
    <2>2. LockHolders'
      BY <1>0, <1>4 DEF IInv, TypeOK, LockHolders, HoldsQueue, Return,
                        SeesEngine, senderVars, queueVars
    <2>3. WillPop' /\ PopNonEmpty'
      BY <1>4 DEF IInv, TypeOK, WillPop, PopNonEmpty, PushUnderWay, Pushing,
                  Return, SeesEngine, senderVars, queueVars
    <2> QED
      BY <2>1, <2>2, <2>3 DEF IInv
  <1> QED
    BY <1>1, <1>2, <1>3, <1>4 DEF CallerStep

(* A step of the sender that touches neither the queue nor the lock and     *)
(* does not enter or leave a critical section.                              *)
LEMMA OutsideIInv ==
  ASSUME IInv, UNCHANGED <<callerVars, queueVars, StopThread>>, TypeOK',
         spc \notin {"lock", "pop", "report", "unlock"},
         spc' \in {"check", "peek", "send", "exited"}
  PROVE  IInv'
  <1>1. LockHolders'
    BY DEF IInv, LockHolders, HoldsQueue, callerVars, queueVars
  <1>2. WillPop' /\ PopNonEmpty'
    BY DEF WillPop, PopNonEmpty
  <1> QED
    BY <1>1, <1>2 DEF IInv

(* A step of the sender. *)
LEMMA SenderIInv == ASSUME IInv, SenderStep PROVE IInv'
  <1>0. Sender \notin Callers /\ Free \notin Callers /\ Free # Sender
    BY ThreadsAssumption
  <1>1. CASE Check
    <2>1. TypeOK'
      BY <1>1 DEF IInv, TypeOK, Check, callerVars, queueVars, envVars, memVars, outVars
    <2> QED
      BY <1>1, <2>1, OutsideIInv DEF Check, envVars
  <1>2. CASE PeekNonEmpty
    <2>1. TypeOK'
      BY <1>2 DEF IInv, TypeOK, PeekNonEmpty, callerVars, queueVars, envVars,
                  memVars, outVars
    <2>2. LockHolders'
      BY <1>2 DEF IInv, LockHolders, HoldsQueue, PeekNonEmpty, callerVars, queueVars
    <2>3. WillPop' /\ PopNonEmpty'
      BY <1>2 DEF WillPop, PopNonEmpty, PushUnderWay, Pushing, PeekNonEmpty,
                  SeesCommand, callerVars, queueVars
    <2> QED
      BY <2>1, <2>2, <2>3 DEF IInv
  <1>3. CASE PeekEmpty
    <2>1. "neutral" \in Codes /\ "unassigned" \in Codes
      BY DEF Codes
    <2>2. /\ cmd' \in Codes \cup {"none"}
          /\ lastExternalCmd' \in Codes
          /\ spc' \in {"check", "send"}
      BY <1>3, <2>1 DEF IInv, TypeOK, PeekEmpty
    <2>3. TypeOK'
      BY <1>3, <2>2 DEF IInv, TypeOK, PeekEmpty, callerVars, queueVars, envVars, outVars
    <2> QED
      BY <1>3, <2>2, <2>3, OutsideIInv DEF PeekEmpty, envVars
  <1>4. CASE AcquireToPop
    <2>1. TypeOK'
      BY <1>4 DEF IInv, TypeOK, AcquireToPop, callerVars, envVars, memVars, outVars
    <2>2. LockHolders'
      BY <1>0, <1>4 DEF IInv, LockHolders, HoldsQueue, AcquireToPop,
                        QueueIsFree, callerVars
    <2>3. ~PushUnderWay
      BY <1>0, <1>4 DEF IInv, LockHolders, HoldsQueue, PushUnderWay,
                        Pushing, AcquireToPop, QueueIsFree
    <2>4. WillPop' /\ PopNonEmpty'
      BY <1>4, <2>3 DEF IInv, WillPop, PopNonEmpty, AcquireToPop
    <2> QED
      BY <2>1, <2>2, <2>4 DEF IInv
  <1>5. CASE Pop
    <2>1. Head(cmdQueue) \in Command /\ Tail(cmdQueue) \in Seq(Command)
      BY <1>5 DEF IInv, TypeOK, PopNonEmpty, Pop
    <2>2. /\ cmd' \in Codes /\ lastExternalCmd' \in Codes /\ lastCmdTime' \in Times
          /\ engineStarted' \in BOOLEAN
          /\ spc' \in {"report", "unlock"}
      BY <1>5, <2>1 DEF IInv, TypeOK, Pop, ToRepeat, Command, Codes
    <2>3. TypeOK'
      BY <1>5, <2>1, <2>2 DEF IInv, TypeOK, Pop, callerVars, envVars, outVars
    <2>4. LockHolders'
      BY <1>5, <2>2 DEF IInv, LockHolders, HoldsQueue, Pop, callerVars
    <2>5. WillPop' /\ PopNonEmpty'
      BY <2>2 DEF WillPop, PopNonEmpty
    <2> QED
      BY <2>3, <2>4, <2>5 DEF IInv
  <1>6. CASE Report
    <2>1. TypeOK'
      BY <1>6 DEF IInv, TypeOK, Report, callerVars, queueVars, envVars, memVars
    <2>2. LockHolders' /\ WillPop' /\ PopNonEmpty'
      BY <1>6 DEF IInv, LockHolders, HoldsQueue, WillPop, PopNonEmpty, Report,
                  callerVars, queueVars
    <2> QED
      BY <2>1, <2>2 DEF IInv
  <1>7. CASE ReleaseAfterPop
    <2>1. TypeOK'
      BY <1>7 DEF IInv, TypeOK, ReleaseAfterPop, callerVars, envVars, memVars, outVars
    <2>2. LockHolders'
      BY <1>0, <1>7 DEF IInv, LockHolders, HoldsQueue, ReleaseAfterPop, callerVars
    <2>3. WillPop' /\ PopNonEmpty'
      BY <1>7 DEF WillPop, PopNonEmpty, ReleaseAfterPop
    <2> QED
      BY <2>1, <2>2, <2>3 DEF IInv
  <1>8. CASE SendCode
    <2>1. TypeOK'
      BY <1>8 DEF IInv, TypeOK, SendCode, callerVars, queueVars, envVars, memVars
    <2> QED
      BY <1>8, <2>1, OutsideIInv DEF SendCode, envVars
  <1> QED
    BY <1>1, <1>2, <1>3, <1>4, <1>5, <1>6, <1>7, <1>8 DEF SenderStep

-----------------------------------------------------------------------------
(* Every step preserves the invariant. *)
LEMMA StepIInv == IInv /\ [Next]_vars => IInv'
  <1> SUFFICES ASSUME IInv, [Next]_vars PROVE IInv'
    OBVIOUS
  <1>1. CASE SenderStep
    BY <1>1, SenderIInv
  <1>2. ASSUME NEW c \in Callers, CallerStep(c) PROVE IInv'
    BY <1>2, CallerIInv
  <1>3. CASE Request \/ Kill \/ Tick \/ Stay
    BY <1>3, RequestIInv
  <1>4. CASE UNCHANGED vars
    BY <1>4 DEF IInv, TypeOK, LockHolders, HoldsQueue, WillPop, PopNonEmpty,
                PushUnderWay, Pushing, vars
  <1> QED
    BY <1>1, <1>2, <1>3, <1>4 DEF Next

(* Every reachable state satisfies the inductive invariant. *)
THEOREM Invariance == Spec => []IInv
  BY InitIInv, StepIInv, PTL DEF Spec

(* Every variable keeps its type. *)
THEOREM TypeCorrect == Spec => []TypeOK
  BY Invariance, PTL DEF IInv

(* CommandSender never pops an empty queue. *)
THEOREM PopsNonEmpty == Spec => []PopNonEmpty
  BY Invariance, PTL DEF IInv

(* What the sender saw without the lock is still there when it gets it. *)
THEOREM SeenIsPopped == Spec => []WillPop
  BY Invariance, PTL DEF IInv

(* The critical sections of cmdQueue exclude each other. *)
THEOREM MutualExclusion == Spec => []LockHolders
  BY Invariance, PTL DEF IInv

-----------------------------------------------------------------------------
(***************************************************************************)
(* The engine flag only switches right after an ignition frame, and the    *)
(* last status message tells it.                                           *)
(***************************************************************************)
(* What may come before command c in the queue: an engine command follows   *)
(* an ignition frame, or repeats a start.                                   *)
MayFollow(b, c) == /\ c.engineStart => b.code = "ignition" \/ b.engineStart
                   /\ c.engineStop => b.code = "ignition"

Chained(s) == \A i \in 1..Len(s) - 1 : MayFollow(s[i], s[i + 1])

Plain(s) == \A i \in 1..Len(s) : ~IsEngineFrame(s[i])

(* A block that a caller adds begins with no engine command. *)
Block(s) == Chained(s) /\ (s # <<>> => ~IsEngineFrame(s[1]))

BlocksChained == \A c \in Callers : Block(block[c])

QueueChained == Chained(cmdQueue)

(* Until a caller that pushes releases the lock, the last command in the    *)
(* queue is the one it pushed last: the next follows it.                    *)
PushesFollow ==
    \A c \in Callers :
        /\ pc[c] # "push" => pushed[c] = 0
        /\ pushed[c] > 0 => /\ cmdQueue # <<>>
                            /\ pushed[c] <= Len(block[c])
                            /\ cmdQueue[Len(cmdQueue)] = block[c][pushed[c]]

(* The last frame that is on air when the head of the queue is taken.       *)
LastFrame == IF spc \in {"report", "unlock", "send"} THEN cmd ELSE air

HeadFollows ==
    cmdQueue # <<>> =>
        /\ cmdQueue[1].engineStart => LastFrame = "ignition" \/ engineStarted
        /\ cmdQueue[1].engineStop => LastFrame = "ignition"

EInv == /\ BlocksChained
        /\ QueueChained
        /\ PushesFollow
        /\ HeadFollows

-----------------------------------------------------------------------------
(* The blocks. *)

(* A repeated command is the same command everywhere. *)
LEMMA RepeatedValue ==
  ASSUME NEW t \in CmdTypes, NEW n \in Nat
  PROVE  /\ Repeated(t, n) \in Seq(Command)
         /\ Len(Repeated(t, n)) = n
         /\ \A i \in 1..n : Repeated(t, n)[i] = Local(t)
  <1>1. Repeated(t, n) \in Seq(Command)
    BY RepeatedType
  <1>2. DOMAIN Repeated(t, n) = 1..n
    BY DEF Repeated
  <1>3. Len(Repeated(t, n)) = n
    BY <1>1, <1>2
  <1>4. \A i \in 1..n : Repeated(t, n)[i] = Local(t)
    BY DEF Repeated
  <1> QED
    BY <1>1, <1>3, <1>4

(* Frames of the engine sequences. *)
LEMMA LocalFrames ==
  /\ \A t \in {"idle", "ignition", "neutral"} : ~IsEngineFrame(Local(t))
  /\ Local("ignition").code = "ignition"
  /\ Local("engine_start").engineStart /\ ~Local("engine_start").engineStop
  /\ Local("engine_stop").engineStop /\ ~Local("engine_stop").engineStart
  BY DEF Local, IsEngineFrame, CodeOf

(* Plain commands are chained, whatever stands before them. *)
LEMMA PlainChained ==
  ASSUME NEW s \in Seq(Command), Plain(s)
  PROVE  Block(s)
  <1>1. \A i \in 1..Len(s) - 1 : MayFollow(s[i], s[i + 1])
    BY DEF Plain, MayFollow, IsEngineFrame
  <1>2. s # <<>> => ~IsEngineFrame(s[1])
    BY DEF Plain
  <1> QED
    BY <1>1, <1>2 DEF Block, Chained

(* Chained sequences are concatenated where one may follow the other. *)
LEMMA ConcatChained ==
  ASSUME NEW s \in Seq(Command), NEW t \in Seq(Command), Block(s), Chained(t),
         s # <<>>, t # <<>>, MayFollow(s[Len(s)], t[1])
  PROVE  /\ s \o t \in Seq(Command)
         /\ Block(s \o t)
         /\ s \o t # <<>>
         /\ (s \o t)[Len(s \o t)] = t[Len(t)]
  <1> DEFINE u == s \o t
  <1>1. u \in Seq(Command) /\ Len(u) = Len(s) + Len(t)
    OBVIOUS
  <1>2. Len(s) \in Nat \ {0} /\ Len(t) \in Nat \ {0}
    OBVIOUS
  <1>3. \A i \in 1..Len(s) : u[i] = s[i]
    OBVIOUS
  <1>4. \A i \in 1..Len(t) : u[Len(s) + i] = t[i]
    OBVIOUS
  <1>5. ASSUME NEW i \in 1..Len(u) - 1 PROVE MayFollow(u[i], u[i + 1])
    <2>1. CASE i < Len(s)
      <3>1. u[i] = s[i] /\ u[i + 1] = s[i + 1]
        BY <1>2, <1>3, <2>1
      <3> QED
        BY <1>2, <2>1, <3>1 DEF Block, Chained
    <2>2. CASE i = Len(s)
      <3>1. u[i] = s[Len(s)] /\ u[i + 1] = t[1]
        BY <1>2, <1>3, <1>4, <2>2
      <3> QED
        BY <3>1
    <2>3. CASE i > Len(s)
      <3> DEFINE j == i - Len(s)
      <3>1. j \in 1..Len(t) - 1 /\ j + 1 \in 1..Len(t)
        BY <1>1, <1>2, <2>3
      <3>2. u[Len(s) + j] = t[j] /\ u[Len(s) + (j + 1)] = t[j + 1]
        BY <1>2, <1>4, <3>1
      <3>3. Len(s) + j = i /\ Len(s) + (j + 1) = i + 1
        BY <1>1, <1>2
      <3> QED
        BY <3>1, <3>2, <3>3 DEF Chained
    <2> QED
      BY <1>1, <1>2, <2>1, <2>2, <2>3
  <1>6. u # <<>> /\ u[1] = s[1]
    BY <1>1, <1>2, <1>3
  <1>7. u[Len(u)] = t[Len(t)]
    BY <1>1, <1>2, <1>4
  <1> QED
    BY <1>1, <1>5, <1>6, <1>7 DEF Block, Chained

(* StartEngine and StopEngine add such blocks. *)
LEMMA EngineBlocks == Block(StartBlock) /\ Block(StopBlock)
  <1>0. /\ {NIdle, NIgnition, NWait, NStart, NAfter} \subseteq Nat \ {0}
        /\ {NStopNeutral, NStopIgnition} \subseteq Nat \ {0}
    BY LengthsAssumption
  <1>t. {"idle", "ignition", "neutral", "engine_start", "engine_stop"}
          \subseteq CmdTypes
    BY DEF CmdTypes
  <1>1. ASSUME NEW t \in {"idle", "ignition", "neutral"}, NEW n \in Nat \ {0}
        PROVE  /\ Repeated(t, n) \in Seq(Command) /\ Repeated(t, n) # <<>>
               /\ Block(Repeated(t, n))
               /\ Repeated(t, n)[1] = Local(t)
               /\ Repeated(t, n)[Len(Repeated(t, n))] = Local(t)
    <2>1. /\ Repeated(t, n) \in Seq(Command)
          /\ Len(Repeated(t, n)) = n
          /\ \A i \in 1..n : Repeated(t, n)[i] = Local(t)
      BY <1>t, RepeatedValue
    <2>2. Plain(Repeated(t, n))
      BY <2>1, LocalFrames DEF Plain
    <2> QED
      BY <2>1, <2>2, PlainChained
  <1>2. ASSUME NEW t \in {"engine_start", "engine_stop"}, NEW n \in Nat \ {0},
               t = "engine_stop" => n = 1
        PROVE  /\ Repeated(t, n) \in Seq(Command) /\ Repeated(t, n) # <<>>
               /\ Chained(Repeated(t, n))
               /\ Repeated(t, n)[1] = Local(t)
               /\ Repeated(t, n)[Len(Repeated(t, n))] = Local(t)
    <2>1. /\ Repeated(t, n) \in Seq(Command)
          /\ Len(Repeated(t, n)) = n
          /\ \A i \in 1..n : Repeated(t, n)[i] = Local(t)
      BY <1>t, RepeatedValue
    <2>2. Chained(Repeated(t, n))
      BY <1>2, <2>1, LocalFrames DEF Chained, MayFollow
    <2> QED
      BY <2>1, <2>2
  <1>3. \A b \in Command, t \in {"idle", "ignition", "neutral"} :
           MayFollow(b, Local(t))
    BY LocalFrames DEF MayFollow, IsEngineFrame
  <1>4. \A t \in {"engine_start", "engine_stop"} :
           MayFollow(Local("ignition"), Local(t))
    BY LocalFrames DEF MayFollow
  <1>5. ASSUME NEW s \in Seq(Command), Block(s), s # <<>>,
               NEW t \in {"idle", "ignition", "neutral"}, NEW n \in Nat \ {0}
        PROVE  LET u == s \o Repeated(t, n)
               IN  /\ u \in Seq(Command) /\ Block(u) /\ u # <<>>
                   /\ u[Len(u)] = Local(t)
    <2>1. /\ Repeated(t, n) \in Seq(Command) /\ Repeated(t, n) # <<>>
          /\ Chained(Repeated(t, n))
          /\ Repeated(t, n)[1] = Local(t)
          /\ Repeated(t, n)[Len(Repeated(t, n))] = Local(t)
      BY <1>1 DEF Block
    <2>2. MayFollow(s[Len(s)], Repeated(t, n)[1])
      BY <1>3, <1>5, <2>1
    <2> QED
      BY <1>5, <2>1, <2>2, ConcatChained
  <1>6. ASSUME NEW s \in Seq(Command), Block(s), s # <<>>,
               s[Len(s)] = Local("ignition"),
               NEW t \in {"engine_start", "engine_stop"}, NEW n \in Nat \ {0},
               t = "engine_stop" => n = 1
        PROVE  LET u == s \o Repeated(t, n)
               IN  /\ u \in Seq(Command) /\ Block(u) /\ u # <<>>
                   /\ u[Len(u)] = Local(t)
    <2>1. /\ Repeated(t, n) \in Seq(Command) /\ Repeated(t, n) # <<>>
          /\ Chained(Repeated(t, n))
          /\ Repeated(t, n)[1] = Local(t)
          /\ Repeated(t, n)[Len(Repeated(t, n))] = Local(t)
      BY <1>2, <1>6
    <2>2. MayFollow(s[Len(s)], Repeated(t, n)[1])
      BY <1>4, <1>6, <2>1
    <2> QED
      BY <1>6, <2>1, <2>2, ConcatChained
  <1>7. Block(StartBlock)
    <2> DEFINE s0 == Repeated("idle", NIdle)
               s1 == s0 \o Repeated("ignition", NIgnition)
               s2 == s1 \o Repeated("neutral", NWait)
               s3 == s2 \o Repeated("ignition", 1)
               s4 == s3 \o Repeated("engine_start", NStart)
    <2>0. s0 \in Seq(Command) /\ Block(s0) /\ s0 # <<>>
      BY <1>0, <1>1
    <2> HIDE DEF s0
    <2>1. s1 \in Seq(Command) /\ Block(s1) /\ s1 # <<>>
      BY <1>0, <1>5, <2>0
    <2> HIDE DEF s1
    <2>2. s2 \in Seq(Command) /\ Block(s2) /\ s2 # <<>>
      BY <1>0, <1>5, <2>1
    <2> HIDE DEF s2
    <2>3. /\ s3 \in Seq(Command) /\ Block(s3) /\ s3 # <<>>
          /\ s3[Len(s3)] = Local("ignition")
      BY <1>5, <2>2
    <2> HIDE DEF s3
    <2>4. s4 \in Seq(Command) /\ Block(s4) /\ s4 # <<>>
      BY <1>0, <1>6, <2>3
    <2> HIDE DEF s4
    <2>5. Block(s4 \o Repeated("neutral", NAfter))
      BY <1>0, <1>5, <2>4
    <2> QED
      BY <2>5 DEF StartBlock, s0, s1, s2, s3, s4
  <1>8. Block(StopBlock)
    <2> DEFINE s0 == Repeated("neutral", NStopNeutral)
               s1 == s0 \o Repeated("ignition", NStopIgnition)
    <2>0. s0 \in Seq(Command) /\ Block(s0) /\ s0 # <<>>
      BY <1>0, <1>1
    <2> HIDE DEF s0
    <2>1. /\ s1 \in Seq(Command) /\ Block(s1) /\ s1 # <<>>
          /\ s1[Len(s1)] = Local("ignition")
      BY <1>0, <1>5, <2>0
    <2> HIDE DEF s1
    <2>2. Block(s1 \o Repeated("engine_stop", 1))
      BY <1>6, <2>1
    <2> QED
      BY <2>2 DEF StopBlock, s0, s1
  <1> QED
    BY <1>7, <1>8

-----------------------------------------------------------------------------
(* The invariant holds initially. *)
LEMMA InitEInv == Init => EInv
  BY DEF Init, EInv, BlocksChained, Block, QueueChained, Chained, PushesFollow,
         HeadFollows

(* A request brings a block whose commands may follow each other. *)
LEMMA AskEInv ==
  ASSUME IInv, EInv, NEW c \in Callers, NEW what, NEW commands, Block(commands),
         Ask(c, what, commands)
  PROVE  EInv'
  <1>1. BlocksChained'
    BY DEF IInv, TypeOK, EInv, BlocksChained, Ask
  <1>2. QueueChained'
    BY DEF EInv, QueueChained, Ask, queueVars
  <1>3. PushesFollow'
    <2>1. pushed[c] = 0
      BY DEF EInv, PushesFollow, Ask
    <2>2. ASSUME NEW d \in Callers
          PROVE  /\ pc'[d] # "push" => pushed'[d] = 0
                 /\ pushed'[d] > 0 =>
                       /\ cmdQueue' # <<>>
                       /\ pushed'[d] <= Len(block'[d])
                       /\ cmdQueue'[Len(cmdQueue')] = block'[d][pushed'[d]]
      <3>1. CASE d = c
        BY <2>1, <3>1 DEF Ask
      <3>2. CASE d # c
        BY <3>2 DEF IInv, TypeOK, EInv, PushesFollow, Ask, queueVars
      <3> QED
        BY <3>1, <3>2
    <2> QED
      BY <2>2 DEF PushesFollow
  <1>4. HeadFollows'
    BY DEF EInv, HeadFollows, LastFrame, Ask, queueVars, senderVars
  <1> QED
    BY <1>1, <1>2, <1>3, <1>4 DEF EInv

(* A step that leaves the queue, the blocks and the sender alone, and moves *)
(* no caller into or out of its critical section.                           *)
LEMMA AsideEInv ==
  ASSUME EInv, UNCHANGED <<cmdQueue, engineStarted, block, pushed, spc, cmd, air>>,
         \A c \in Callers : pc[c] = "push" => pc'[c] = "push"
  PROVE  EInv'
  BY DEF EInv, BlocksChained, QueueChained, PushesFollow, HeadFollows, LastFrame

(* No engine command is typed at the console. *)
ConsoleTypesNoEngine == ConsoleTypes \cap {"engine_start", "engine_stop"} = {}

LEMMA RequestEInv ==
  ASSUME IInv, EInv, ConsoleTypesNoEngine, Request \/ Kill \/ Tick \/ Stay
  PROVE  EInv'
  <1>1. CASE ConsoleAdd
    <2>1. PICK t \in ConsoleTypes, n \in 0..MaxCount :
             Ask(Console, "add", Repeated(t, n))
      BY <1>1 DEF ConsoleAdd
    <2>a. t \in CmdTypes /\ n \in Nat
      BY CodesAssumption, BoundsAssumption
    <2>b. t # "engine_start" /\ t # "engine_stop"
      BY DEF ConsoleTypesNoEngine
    <2>c. ~IsEngineFrame(Local(t))
      BY <2>b DEF Local, IsEngineFrame
    <2>2. t \in CmdTypes /\ n \in Nat /\ ~IsEngineFrame(Local(t))
      BY <2>a, <2>c
    <2>3. Block(Repeated(t, n))
      BY <2>2, RepeatedValue, PlainChained DEF Plain
    <2> QED
      BY <2>1, <2>3, AskEInv DEF Callers
  <1>2. ASSUME NEW c \in Connections, ClientAdd(c) PROVE EInv'
    <2>1. PICK code \in ClientCodes : Ask(c, "add", <<External(code, now)>>)
      BY <1>2 DEF ClientAdd
    <2>2. Block(<<External(code, now)>>)
      BY DEF Block, Chained, External, IsEngineFrame
    <2> QED
      BY <2>1, <2>2, AskEInv DEF Callers
  <1>3. ASSUME NEW c \in Callers, StartEngine(c) \/ StopEngine(c) PROVE EInv'
    BY <1>3, EngineBlocks, AskEInv DEF StartEngine, StopEngine
  <1>4. CASE Dispose
    <2>1. CASE Ask(Console, "dispose", StopBlock)
      BY <2>1, EngineBlocks, AskEInv DEF Callers
    <2>2. CASE /\ pc[Console] = "ready"
               /\ pc' = [pc EXCEPT ![Console] = "kill"]
               /\ UNCHANGED <<engineStarted, op, block, pushed, senderVars,
                              queueVars, envVars>>
      BY <2>2, AsideEInv DEF IInv, TypeOK, senderVars, queueVars
    <2> QED
      BY <1>4, <2>1, <2>2 DEF Dispose
  <1>5. CASE Kill \/ Tick \/ Stay
    BY <1>5, AsideEInv DEF Kill, Tick, Stay, vars, callerVars, queueVars, senderVars
  <1> QED
    BY <1>1, <1>2, <1>3, <1>4, <1>5 DEF Request

(* Only the holder of the lock pushes, and what it pushes may follow the    *)
(* last command in the queue.                                               *)
LEMMA PushEInv ==
  ASSUME IInv, EInv, NEW c \in Callers, Push(c)
  PROVE  EInv'
  <1> DEFINE new == block[c][pushed[c] + 1]
  <1>0. /\ cmdQueue \in Seq(Command) /\ new \in Command
        /\ pushed[c] \in Nat /\ pushed[c] + 1 <= Len(block[c])
        /\ block[c] \in Seq(Command)
        /\ cmdQueue' = Append(cmdQueue, new)
    BY DEF IInv, TypeOK, Push, Pushing
  <1>1. BlocksChained'
    BY DEF EInv, BlocksChained, Push
  <1>2. pushed[c] > 0 => /\ cmdQueue # <<>>
                         /\ MayFollow(cmdQueue[Len(cmdQueue)], new)
    <2>1. pushed[c] > 0 => MayFollow(block[c][pushed[c]], new)
      BY <1>0 DEF EInv, BlocksChained, Block, Chained
    <2> QED
      BY <2>1 DEF EInv, PushesFollow
  <1>3. pushed[c] = 0 => ~IsEngineFrame(new)
    BY <1>0 DEF EInv, BlocksChained, Block
  <1>4. cmdQueue # <<>> => MayFollow(cmdQueue[Len(cmdQueue)], new)
    BY <1>0, <1>2, <1>3 DEF MayFollow, IsEngineFrame
  <1>5. QueueChained'
    <2>1. ASSUME NEW i \in 1..Len(cmdQueue') - 1
          PROVE  MayFollow(cmdQueue'[i], cmdQueue'[i + 1])
      <3>1. CASE i = Len(cmdQueue)
        <4>1. /\ cmdQueue # <<>>
              /\ cmdQueue'[i] = cmdQueue[Len(cmdQueue)] /\ cmdQueue'[i + 1] = new
          BY <1>0, <2>1, <3>1
        <4> QED
          BY <1>4, <4>1
      <3>2. CASE i < Len(cmdQueue)
        <4>1. /\ cmdQueue'[i] = cmdQueue[i] /\ cmdQueue'[i + 1] = cmdQueue[i + 1]
              /\ i \in 1..Len(cmdQueue) - 1
          BY <1>0, <2>1, <3>2
        <4> QED
          BY <4>1 DEF EInv, QueueChained, Chained
      <3> QED
        BY <1>0, <2>1, <3>1, <3>2
    <2> QED
      BY <2>1 DEF QueueChained, Chained
  <1>6. PushesFollow'
    <2>1. queueLock = c /\ pc[c] = "push"
      BY ThreadsAssumption DEF IInv, LockHolders, HoldsQueue, Push, Pushing
    <2>2. ASSUME NEW d \in Callers
          PROVE  /\ pc'[d] # "push" => pushed'[d] = 0
                 /\ pushed'[d] > 0 =>
                       /\ cmdQueue' # <<>>
                       /\ pushed'[d] <= Len(block'[d])
                       /\ cmdQueue'[Len(cmdQueue')] = block'[d][pushed'[d]]
      <3>1. CASE d = c
        <4>1. /\ pc'[c] = "push" /\ pushed'[c] = pushed[c] + 1
              /\ block'[c] = block[c]
          BY <2>1 DEF IInv, TypeOK, Push
        <4>2. cmdQueue' # <<>> /\ cmdQueue'[Len(cmdQueue')] = new
          BY <1>0
        <4> QED
          BY <1>0, <3>1, <4>1, <4>2
      <3>2. CASE d # c
        <4>1. pc[d] # "push"
          BY <2>1, <3>2, ThreadsAssumption DEF IInv, LockHolders, HoldsQueue, Callers
        <4>2. pushed[d] = 0
          BY <4>1 DEF EInv, PushesFollow
        <4> QED
          BY <3>2, <4>2 DEF IInv, TypeOK, Push
      <3> QED
        BY <3>1, <3>2
    <2> QED
      BY <2>2 DEF PushesFollow
  <1>7. HeadFollows'
    <2>1. LastFrame' = LastFrame /\ engineStarted' = engineStarted
      BY DEF Push, senderVars, LastFrame
    <2>2. CASE cmdQueue = <<>>
      <3>1. cmdQueue'[1] = new /\ ~IsEngineFrame(new)
        BY <1>0, <1>2, <1>3, <2>2
      <3> QED
        BY <3>1 DEF HeadFollows, IsEngineFrame
    <2>3. CASE cmdQueue # <<>>
      <3>1. cmdQueue'[1] = cmdQueue[1]
        BY <1>0, <2>3
      <3> QED
        BY <2>1, <2>3, <3>1 DEF EInv, HeadFollows
    <2> QED
      BY <2>2, <2>3
  <1> QED
    BY <1>1, <1>5, <1>6, <1>7 DEF EInv

(* A caller's step. *)
LEMMA CallerEInv ==
  ASSUME IInv, EInv, NEW c \in Callers, CallerStep(c)
  PROVE  EInv'
  <1>1. CASE AcquireQueue(c)
    BY <1>1, AsideEInv DEF IInv, TypeOK, AcquireQueue, senderVars
  <1>2. CASE Push(c)
    BY <1>2, PushEInv
  <1>3. CASE ReleaseQueue(c)
    <2>1. BlocksChained'
      <3>1. Block(<<>>)
        BY DEF Block, Chained
      <3> QED
        BY <1>3, <3>1 DEF IInv, TypeOK, EInv, BlocksChained, ReleaseQueue
    <2>2. QueueChained' /\ HeadFollows'
      BY <1>3 DEF EInv, QueueChained, HeadFollows, LastFrame, ReleaseQueue, senderVars
    <2>3. PushesFollow'
      <3>1. ASSUME NEW d \in Callers
            PROVE  /\ pc'[d] # "push" => pushed'[d] = 0
                   /\ pushed'[d] > 0 =>
                         /\ cmdQueue' # <<>>
                         /\ pushed'[d] <= Len(block'[d])
                         /\ cmdQueue'[Len(cmdQueue')] = block'[d][pushed'[d]]
        <4>1. CASE d = c
          BY <1>3, <4>1 DEF IInv, TypeOK, ReleaseQueue
        <4>2. CASE d # c
          <5>1. /\ pc'[d] = pc[d] /\ pushed'[d] = pushed[d]
                /\ block'[d] = block[d] /\ cmdQueue' = cmdQueue
            BY <1>3, <4>2 DEF IInv, TypeOK, ReleaseQueue
          <5> QED
            BY <5>1 DEF EInv, PushesFollow
        <4> QED
          BY <4>1, <4>2
      <3> QED
        BY <3>1 DEF PushesFollow
    <2> QED
      BY <2>1, <2>2, <2>3 DEF EInv
  <1>4. CASE Return(c)
    <2>1. \A d \in Callers : pc[d] = "push" => pc'[d] = "push"
      BY <1>4 DEF IInv, TypeOK, Return, SeesEngine
    <2> QED
      BY <1>4, <2>1, AsideEInv DEF Return, senderVars, queueVars
  <1> QED
    BY <1>1, <1>2, <1>3, <1>4 DEF CallerStep

(* The head is taken: the next command may follow it. *)
LEMMA PopEInv == ASSUME IInv, EInv, Pop PROVE EInv'
  <1>0. cmdQueue \in Seq(Command) /\ cmdQueue # <<>>
    BY DEF IInv, TypeOK, PopNonEmpty, Pop
  <1>1. /\ cmdQueue' = Tail(cmdQueue) /\ cmdQueue' \in Seq(Command)
        /\ Len(cmdQueue') = Len(cmdQueue) - 1
        /\ \A i \in 1..Len(cmdQueue') : cmdQueue'[i] = cmdQueue[i + 1]
    BY <1>0 DEF Pop
  <1>2. BlocksChained'
    BY DEF EInv, BlocksChained, Pop, callerVars
  <1>3. QueueChained'
    BY <1>0, <1>1 DEF EInv, QueueChained, Chained
  <1>4. PushesFollow'
    <2>1. \A d \in Callers : pc[d] # "push"
      BY ThreadsAssumption DEF IInv, LockHolders, HoldsQueue, Pop
    <2>2. \A d \in Callers : pushed[d] = 0
      BY <2>1 DEF EInv, PushesFollow
    <2> QED
      BY <2>2 DEF PushesFollow, Pop, callerVars
  <1>5. HeadFollows'
    <2> SUFFICES ASSUME cmdQueue' # <<>>
                 PROVE  /\ cmdQueue'[1].engineStart
                              => LastFrame' = "ignition" \/ engineStarted'
                        /\ cmdQueue'[1].engineStop => LastFrame' = "ignition"
      BY DEF HeadFollows
    <2>1. /\ cmdQueue'[1] = cmdQueue[2] /\ Head(cmdQueue) = cmdQueue[1]
          /\ 1 \in 1..Len(cmdQueue) - 1
      BY <1>0, <1>1
    <2>2. MayFollow(cmdQueue[1], cmdQueue[2])
      BY <2>1 DEF EInv, QueueChained, Chained
    <2>3. LastFrame' = cmdQueue[1].code
      BY <2>1 DEF LastFrame, Pop
    <2>4. cmdQueue[1].engineStart => engineStarted'
      BY <2>1 DEF Pop
    <2> QED
      BY <2>1, <2>2, <2>3, <2>4 DEF MayFollow
  <1> QED
    BY <1>2, <1>3, <1>4, <1>5 DEF EInv

(* A step of the sender. *)
LEMMA SenderEInv == ASSUME IInv, EInv, SenderStep PROVE EInv'
  <1>1. ASSUME UNCHANGED <<cmdQueue, callerVars, engineStarted>>,
               LastFrame' = LastFrame \/ cmdQueue = <<>>
        PROVE  EInv'
    BY <1>1 DEF EInv, BlocksChained, QueueChained, PushesFollow, HeadFollows,
                callerVars
  <1>2. CASE Check
    BY <1>1, <1>2 DEF Check, queueVars, memVars, outVars, LastFrame
  <1>3. CASE PeekNonEmpty
    BY <1>1, <1>3 DEF PeekNonEmpty, queueVars, memVars, outVars, LastFrame
  <1>4. CASE PeekEmpty
    BY <1>1, <1>4 DEF PeekEmpty, queueVars
  <1>5. CASE AcquireToPop
    BY <1>1, <1>5 DEF AcquireToPop, memVars, outVars, LastFrame
  <1>6. CASE Pop
    BY <1>6, PopEInv
  <1>7. CASE Report
    BY <1>1, <1>7 DEF Report, queueVars, memVars, LastFrame
  <1>8. CASE ReleaseAfterPop
    BY <1>1, <1>8 DEF ReleaseAfterPop, memVars, outVars, LastFrame
  <1>9. CASE SendCode
    BY <1>1, <1>9 DEF SendCode, queueVars, memVars, LastFrame
  <1> QED
    BY <1>2, <1>3, <1>4, <1>5, <1>6, <1>7, <1>8, <1>9 DEF SenderStep

-----------------------------------------------------------------------------
(* Every step preserves the invariant, if no engine command is typed at    *)
(* the console.                                                            *)
LEMMA StepEInv ==
  ASSUME ConsoleTypesNoEngine
  PROVE  IInv /\ EInv /\ [Next]_vars => EInv'
  <1> SUFFICES ASSUME IInv, EInv, [Next]_vars PROVE EInv'
    OBVIOUS
  <1>1. CASE SenderStep
    BY <1>1, SenderEInv
  <1>2. ASSUME NEW c \in Callers, CallerStep(c) PROVE EInv'
    BY <1>2, CallerEInv
  <1>3. CASE Request \/ Kill \/ Tick \/ Stay
    BY <1>3, RequestEInv
  <1>4. CASE UNCHANGED vars
    BY <1>4, AsideEInv DEF vars
  <1> QED
    BY <1>1, <1>2, <1>3, <1>4 DEF Next

(* Every reachable state satisfies the invariant, if no engine command is   *)
(* typed at the console.                                                    *)
THEOREM EngineInvariance ==
  ASSUME ConsoleTypesNoEngine
  PROVE  Spec => [](IInv /\ EInv)
  BY InitEInv, Invariance, StepEInv, PTL DEF Spec

(* Only Pop writes the engine flag, and the head of the queue that switches *)
(* it follows an ignition frame.                                            *)
LEMMA SwitchStep ==
  ASSUME IInv, EInv, [Next]_vars, engineStarted' # engineStarted
  PROVE  air = "ignition"
  <1>1. Pop
    BY DEF Next, vars, SenderStep, CallerStep, Request, Check, PeekNonEmpty,
           PeekEmpty, AcquireToPop, Report, ReleaseAfterPop, SendCode,
           AcquireQueue, Push, ReleaseQueue, Return, ConsoleAdd, ClientAdd,
           StartEngine, StopEngine, Ask, Dispose, Kill, Tick, Stay
  <1>2. cmdQueue # <<>> /\ Head(cmdQueue) = cmdQueue[1]
    BY <1>1 DEF IInv, TypeOK, PopNonEmpty, Pop
  <1>3. LastFrame = air
    BY <1>1 DEF Pop, LastFrame
  <1>4. \/ cmdQueue[1].engineStart /\ ~engineStarted
        \/ cmdQueue[1].engineStop
    <2>1. /\ engineStarted' = (\/ cmdQueue[1].engineStart
                               \/ engineStarted /\ ~cmdQueue[1].engineStop)
          /\ engineStarted \in BOOLEAN
      BY <1>1, <1>2 DEF Pop, IInv, TypeOK
    <2> QED
      BY <2>1
  <1> QED
    BY <1>2, <1>3, <1>4 DEF EInv, HeadFollows

(* The engine flag switches only right after an ignition frame went on air, *)
(* whatever the threads queue at once: no command of another thread comes   *)
(* between the last ignition frame of a sequence and its engine command.    *)
THEOREM SwitchesAfterIgnition ==
  ASSUME ConsoleTypesNoEngine
  PROVE  Spec => EngineSwitchesAfterIgnition
  <1>1. IInv /\ EInv /\ [Next]_vars
          => [engineStarted' # engineStarted => air = "ignition"]_vars
    BY SwitchStep
  <1> QED
    BY EngineInvariance, <1>1, PTL DEF Spec, EngineSwitchesAfterIgnition

-----------------------------------------------------------------------------
(* Every step keeps it. *)
LEMMA StepTold == IInv /\ ClientsKnowEngine /\ [Next]_vars => ClientsKnowEngine'
  <1> SUFFICES ASSUME IInv, ClientsKnowEngine, [Next]_vars
               PROVE  ClientsKnowEngine'
    OBVIOUS
  <1>1. CASE Pop
    <2>1. engineStarted \in BOOLEAN /\ Head(cmdQueue) \in Command
      BY <1>1 DEF IInv, TypeOK, PopNonEmpty, Pop
    <2>2. spc' # "report" => engineStarted' = engineStarted
      BY <1>1, <2>1 DEF Pop, IsEngineFrame, Command
    <2> QED
      BY <1>1, <2>2 DEF ClientsKnowEngine, Pop, outVars
  <1>2. CASE Report
    BY <1>2 DEF ClientsKnowEngine, Report, IInv, TypeOK
  <1>3. CASE /\ UNCHANGED <<engineStarted, status>>
             /\ spc # "report"
             /\ spc' # "report"
    BY <1>3 DEF ClientsKnowEngine
  <1>4. CASE UNCHANGED <<engineStarted, status, spc>>
    BY <1>4 DEF ClientsKnowEngine
  <1>5. CASE SenderStep
    BY <1>1, <1>2, <1>3, <1>4, <1>5
       DEF SenderStep, Check, PeekNonEmpty, PeekEmpty, AcquireToPop,
           ReleaseAfterPop, SendCode, outVars
  <1>6. CASE UNCHANGED senderVars /\ UNCHANGED engineStarted
    BY <1>4, <1>6 DEF senderVars
  <1> QED
    BY <1>4, <1>5, <1>6
       DEF Next, vars, CallerStep, Request, AcquireQueue, Push, ReleaseQueue,
           Return, ConsoleAdd, ClientAdd, StartEngine, StopEngine, Ask,
           Dispose, Kill, Tick, Stay

(* What clients were last told is the engine flag, except between its       *)
(* assignment and the message.                                              *)
THEOREM StatusIsTold == Spec => []ClientsKnowEngine
  <1>1. Init => ClientsKnowEngine
    BY DEF Init, ClientsKnowEngine
  <1> QED
    BY Invariance, <1>1, StepTold, PTL DEF Spec

-----------------------------------------------------------------------------
(***************************************************************************)
(* Controller implements CommandLink: the initial states map to initial    *)
(* states, and every step to a step of the link or to a stutter.           *)
(***************************************************************************)
(* The blocks that callers may submit. *)
Blocks == {Repeated(t, n) : t \in ConsoleTypes, n \in 0..MaxCount}
            \cup {<<External(code, t)>> : code \in ClientCodes, t \in Times}
            \cup {StartBlock, StopBlock}

KnownBlocks == \A c \in Callers : pc[c] \in {"lock", "push"} => block[c] \in Blocks

(* What a caller has pushed of its block is the end of the queue, until it  *)
(* releases the lock.                                                       *)
EndsInPushed(c) ==
    /\ pc[c] # "push" => pushed[c] = 0
    /\ pushed[c] <= Len(block[c])
    /\ pushed[c] <= Len(cmdQueue)
    /\ \A i \in 1..pushed[c] :
          cmdQueue[Len(cmdQueue) - pushed[c] + i] = block[c][i]

QueueEndsInPushed == \A c \in Callers : EndsInPushed(c)

(* The frame that the sender owes is a frame. *)
Owing == spc \in {"report", "unlock", "send"}
OwesFrame == Owing => cmd \in Codes

LInv == KnownBlocks /\ QueueEndsInPushed /\ OwesFrame

-----------------------------------------------------------------------------
(* The invariant holds initially. *)
LEMMA InitLInv == Init => LInv
  BY DEF Init, LInv, KnownBlocks, QueueEndsInPushed, EndsInPushed, OwesFrame, Owing

(* A request brings a block of a known form. *)
LEMMA AskLInv ==
  ASSUME IInv, LInv, NEW c \in Callers, NEW what, NEW commands \in Blocks,
         commands \in Seq(Command), Ask(c, what, commands)
  PROVE  LInv'
  <1>1. KnownBlocks'
    BY DEF IInv, TypeOK, LInv, KnownBlocks, Ask
  <1>2. ASSUME NEW d \in Callers PROVE EndsInPushed(d)'
    <2>1. pushed' = pushed /\ cmdQueue' = cmdQueue
      BY DEF Ask, queueVars
    <2>2. EndsInPushed(d)
      BY DEF LInv, QueueEndsInPushed
    <2>3. CASE d = c
      <3>1. pushed[c] = 0
        BY <2>2, <2>3 DEF EndsInPushed, Ask
      <3>2. block'[c] = commands
        BY DEF IInv, TypeOK, Ask
      <3> QED
        BY <2>1, <2>2, <2>3, <3>1, <3>2 DEF EndsInPushed
    <2>4. CASE d # c
      <3>1. pc'[d] = pc[d] /\ block'[d] = block[d]
        BY <2>4 DEF IInv, TypeOK, Ask
      <3> QED
        BY <2>1, <2>2, <3>1 DEF EndsInPushed
    <2> QED
      BY <2>3, <2>4
  <1>3. OwesFrame'
    BY DEF LInv, OwesFrame, Owing, Ask, senderVars
  <1> QED
    BY <1>1, <1>2, <1>3 DEF LInv, QueueEndsInPushed

(* A step that leaves the queue, the blocks and the owed frame alone, and   *)
(* moves no caller into or out of its critical section.                     *)
LEMMA AsideLInv ==
  ASSUME LInv, UNCHANGED <<cmdQueue, block, pushed>>, OwesFrame',
         \A c \in Callers : /\ pc'[c] \in {"lock", "push"}
                                  => pc[c] \in {"lock", "push"}
                            /\ pc[c] = "push" => pc'[c] = "push"
  PROVE  LInv'
  BY DEF LInv, KnownBlocks, QueueEndsInPushed, EndsInPushed

LEMMA RequestLInv ==
  ASSUME IInv, LInv, Request \/ Kill \/ Tick \/ Stay
  PROVE  LInv'
  <1>1. CASE ConsoleAdd
    <2>1. PICK t \in ConsoleTypes, n \in 0..MaxCount :
             Ask(Console, "add", Repeated(t, n))
      BY <1>1 DEF ConsoleAdd
    <2>2. t \in CmdTypes /\ n \in Nat
      BY CodesAssumption, BoundsAssumption
    <2>3. Repeated(t, n) \in Seq(Command) /\ Repeated(t, n) \in Blocks
      BY <2>2, RepeatedType DEF Blocks
    <2> QED
      BY <2>1, <2>3, AskLInv DEF Callers
  <1>2. ASSUME NEW c \in Connections, ClientAdd(c) PROVE LInv'
    <2>1. PICK code \in ClientCodes : Ask(c, "add", <<External(code, now)>>)
      BY <1>2 DEF ClientAdd
    <2>2. External(code, now) \in Command
      BY ExternalType DEF IInv, TypeOK
    <2>3. <<External(code, now)>> \in Seq(Command)
      BY <2>2
    <2>4. <<External(code, now)>> \in Blocks
      BY DEF Blocks, IInv, TypeOK
    <2> QED
      BY <2>1, <2>3, <2>4, AskLInv DEF Callers
  <1>3. StartBlock \in Blocks /\ StopBlock \in Blocks
    BY DEF Blocks
  <1>4. ASSUME NEW c \in Callers, StartEngine(c) \/ StopEngine(c) PROVE LInv'
    BY <1>3, <1>4, BlocksType, AskLInv DEF StartEngine, StopEngine
  <1>5. CASE Dispose
    <2>1. CASE Ask(Console, "dispose", StopBlock)
      BY <1>3, <2>1, BlocksType, AskLInv DEF Callers
    <2>2. CASE /\ pc[Console] = "ready"
               /\ pc' = [pc EXCEPT ![Console] = "kill"]
               /\ UNCHANGED <<engineStarted, op, block, pushed, senderVars,
                              queueVars, envVars>>
      <3>1. OwesFrame'
        BY <2>2 DEF LInv, OwesFrame, Owing, senderVars
      <3> QED
        BY <2>2, <3>1, AsideLInv DEF IInv, TypeOK, queueVars
    <2> QED
      BY <1>5, <2>1, <2>2 DEF Dispose
  <1>6. CASE Kill \/ Tick \/ Stay
    <2>1. OwesFrame'
      BY <1>6 DEF LInv, OwesFrame, Owing, Kill, Tick, Stay, vars, senderVars
    <2> QED
      BY <1>6, <2>1, AsideLInv DEF Kill, Tick, Stay, vars, callerVars, queueVars
  <1> QED
    BY <1>1, <1>2, <1>4, <1>5, <1>6 DEF Request

(* Only the holder of the lock pushes, so what it has pushed stays at the   *)
(* end of the queue.                                                        *)
LEMMA PushLInv ==
  ASSUME IInv, LInv, NEW c \in Callers, Push(c)
  PROVE  LInv'
  <1> DEFINE new == block[c][pushed[c] + 1]
  <1>0. /\ cmdQueue \in Seq(Command) /\ new \in Command
        /\ pushed[c] \in Nat /\ pushed[c] + 1 <= Len(block[c])
        /\ block[c] \in Seq(Command)
        /\ cmdQueue' = Append(cmdQueue, new)
        /\ block' = block /\ pc' = pc
        /\ pushed' = [pushed EXCEPT ![c] = pushed[c] + 1]
    BY DEF IInv, TypeOK, Push, Pushing
  <1>1. KnownBlocks' /\ OwesFrame'
    BY <1>0 DEF LInv, KnownBlocks, OwesFrame, Owing, Push, senderVars
  <1>2. queueLock = c /\ pc[c] = "push"
    BY ThreadsAssumption DEF IInv, LockHolders, HoldsQueue, Push, Pushing
  <1>3. ASSUME NEW d \in Callers PROVE EndsInPushed(d)'
    <2>1. CASE d = c
      <3>1. pushed'[c] = pushed[c] + 1 /\ Len(cmdQueue') = Len(cmdQueue) + 1
        BY <1>0 DEF IInv, TypeOK
      <3>2. EndsInPushed(c)
        BY DEF LInv, QueueEndsInPushed
      <3>3. ASSUME NEW i \in 1..pushed'[c]
            PROVE  cmdQueue'[Len(cmdQueue') - pushed'[c] + i] = block'[c][i]
        <4>0. /\ Len(cmdQueue) \in Nat /\ pushed[c] \in Nat
              /\ i \in 1..pushed[c] + 1
          BY <1>0, <3>1
        <4>1. Len(cmdQueue') - pushed'[c] + i = Len(cmdQueue) - pushed[c] + i
          BY <3>1, <4>0
        <4>2. CASE i = pushed[c] + 1
          <5>1. Len(cmdQueue) - pushed[c] + i = Len(cmdQueue) + 1
            BY <4>0, <4>2
          <5>2. Append(cmdQueue, new)[Len(cmdQueue) + 1] = new
            BY <1>0
          <5> QED
            BY <1>0, <4>1, <4>2, <5>1, <5>2
        <4>3. CASE i # pushed[c] + 1
          <5>1. i \in 1..pushed[c]
            BY <1>0, <3>1, <4>3
          <5>2. cmdQueue[Len(cmdQueue) - pushed[c] + i] = block[c][i]
            BY <3>2, <5>1 DEF EndsInPushed
          <5>3. Len(cmdQueue) - pushed[c] + i \in 1..Len(cmdQueue)
            BY <1>0, <3>2, <5>1 DEF EndsInPushed
          <5> QED
            BY <1>0, <4>1, <5>2, <5>3
        <4> QED
          BY <4>2, <4>3
      <3>4. pushed'[c] <= Len(block'[c]) /\ pushed'[c] <= Len(cmdQueue')
        BY <1>0, <3>1, <3>2 DEF EndsInPushed
      <3> QED
        BY <1>0, <1>2, <2>1, <3>3, <3>4 DEF EndsInPushed
    <2>2. CASE d # c
      <3>1. pc[d] # "push"
        BY <1>2, <2>2, ThreadsAssumption DEF IInv, LockHolders, HoldsQueue, Callers
      <3>2. pushed[d] = 0
        BY <3>1 DEF LInv, QueueEndsInPushed, EndsInPushed
      <3>3. pushed'[d] = 0 /\ block[d] \in Seq(Command) /\ cmdQueue' \in Seq(Command)
        BY <1>0, <2>2, <3>2 DEF IInv, TypeOK
      <3> QED
        BY <1>0, <3>1, <3>3 DEF EndsInPushed
    <2> QED
      BY <2>1, <2>2
  <1> QED
    BY <1>1, <1>3 DEF LInv, QueueEndsInPushed

(* A caller's step. *)
LEMMA CallerLInv ==
  ASSUME IInv, LInv, NEW c \in Callers, CallerStep(c)
  PROVE  LInv'
  <1>1. CASE AcquireQueue(c)
    <2>1. OwesFrame'
      BY <1>1 DEF LInv, OwesFrame, Owing, AcquireQueue, senderVars
    <2> QED
      BY <1>1, <2>1, AsideLInv DEF IInv, TypeOK, AcquireQueue
  <1>2. CASE Push(c)
    BY <1>2, PushLInv
  <1>3. CASE ReleaseQueue(c)
    <2>1. KnownBlocks'
      BY <1>3 DEF LInv, KnownBlocks, IInv, TypeOK, ReleaseQueue
    <2>2. OwesFrame'
      BY <1>3 DEF LInv, OwesFrame, Owing, ReleaseQueue, senderVars
    <2>3. ASSUME NEW d \in Callers PROVE EndsInPushed(d)'
      <3>1. EndsInPushed(d) /\ cmdQueue' = cmdQueue /\ cmdQueue \in Seq(Command)
        BY <1>3 DEF LInv, QueueEndsInPushed, ReleaseQueue, IInv, TypeOK
      <3>2. CASE d = c
        <4>1. pushed'[d] = 0 /\ block'[d] = <<>>
          BY <1>3, <3>2 DEF IInv, TypeOK, ReleaseQueue
        <4> QED
          BY <3>1, <4>1 DEF EndsInPushed
      <3>3. CASE d # c
        <4>1. pc'[d] = pc[d] /\ pushed'[d] = pushed[d] /\ block'[d] = block[d]
          BY <1>3, <3>3 DEF IInv, TypeOK, ReleaseQueue
        <4> QED
          BY <3>1, <4>1 DEF EndsInPushed
      <3> QED
        BY <3>2, <3>3
    <2> QED
      BY <2>1, <2>2, <2>3 DEF LInv, QueueEndsInPushed
  <1>4. CASE Return(c)
    <2>1. OwesFrame'
      BY <1>4 DEF LInv, OwesFrame, Owing, Return, senderVars
    <2> QED
      BY <1>4, <2>1, AsideLInv DEF IInv, TypeOK, Return, SeesEngine, queueVars
  <1> QED
    BY <1>1, <1>2, <1>3, <1>4 DEF CallerStep

(* No caller has pushed anything while the sender takes a command. *)
LEMMA PopLInv == ASSUME IInv, LInv, Pop PROVE LInv'
  <1>0. /\ cmdQueue \in Seq(Command) /\ cmdQueue # <<>>
        /\ Head(cmdQueue) \in Command /\ cmdQueue' \in Seq(Command)
    BY DEF IInv, TypeOK, PopNonEmpty, Pop
  <1>1. KnownBlocks'
    BY DEF LInv, KnownBlocks, Pop, callerVars
  <1>2. OwesFrame'
    BY <1>0 DEF OwesFrame, Owing, Pop, Command
  <1>3. ASSUME NEW d \in Callers PROVE EndsInPushed(d)'
    <2>1. pc[d] # "push"
      BY ThreadsAssumption DEF IInv, LockHolders, HoldsQueue, Pop
    <2>2. pushed[d] = 0
      BY <2>1 DEF LInv, QueueEndsInPushed, EndsInPushed
    <2>3. pushed'[d] = 0 /\ block'[d] \in Seq(Command)
      BY <2>2 DEF Pop, callerVars, IInv, TypeOK
    <2> QED
      BY <1>0, <2>3 DEF EndsInPushed
  <1> QED
    BY <1>1, <1>2, <1>3 DEF LInv, QueueEndsInPushed

(* A step of the sender. *)
LEMMA SenderLInv == ASSUME IInv, LInv, SenderStep PROVE LInv'
  <1>1. ASSUME UNCHANGED <<cmdQueue, callerVars>>, OwesFrame' PROVE LInv'
    BY <1>1, AsideLInv DEF callerVars
  <1>2. CASE Check
    BY <1>1, <1>2 DEF Check, queueVars, OwesFrame, Owing
  <1>3. CASE PeekNonEmpty
    BY <1>1, <1>3 DEF PeekNonEmpty, queueVars, OwesFrame, Owing
  <1>4. CASE PeekEmpty
    <2>1. lastExternalCmd \in Codes /\ "neutral" \in Codes
      BY DEF IInv, TypeOK, Codes
    <2> QED
      BY <1>1, <1>4, <2>1 DEF PeekEmpty, queueVars, OwesFrame, Owing
  <1>5. CASE AcquireToPop
    BY <1>1, <1>5 DEF AcquireToPop, OwesFrame, Owing
  <1>6. CASE Pop
    BY <1>6, PopLInv
  <1>7. CASE Report
    BY <1>1, <1>7 DEF Report, queueVars, memVars, OwesFrame, Owing, LInv
  <1>8. CASE ReleaseAfterPop
    BY <1>1, <1>8 DEF ReleaseAfterPop, memVars, OwesFrame, Owing, LInv
  <1>9. CASE SendCode
    BY <1>1, <1>9 DEF SendCode, queueVars, OwesFrame, Owing
  <1> QED
    BY <1>2, <1>3, <1>4, <1>5, <1>6, <1>7, <1>8, <1>9 DEF SenderStep

(* Every step preserves the invariant. *)
LEMMA StepLInv == IInv /\ LInv /\ [Next]_vars => LInv'
  <1> SUFFICES ASSUME IInv, LInv, [Next]_vars PROVE LInv'
    OBVIOUS
  <1>1. CASE SenderStep
    BY <1>1, SenderLInv
  <1>2. ASSUME NEW c \in Callers, CallerStep(c) PROVE LInv'
    BY <1>2, CallerLInv
  <1>3. CASE Request \/ Kill \/ Tick \/ Stay
    BY <1>3, RequestLInv
  <1>4. CASE UNCHANGED vars
    <2>1. OwesFrame'
      BY <1>4 DEF LInv, OwesFrame, Owing, vars
    <2> QED
      BY <1>4, <2>1, AsideLInv DEF vars
  <1> QED
    BY <1>1, <1>2, <1>3, <1>4 DEF Next

(* Every reachable state satisfies the invariant. *)
LEMMA LinkInvariance == Spec => [](IInv /\ LInv)
  BY InitLInv, Invariance, StepLInv, PTL DEF Spec

-----------------------------------------------------------------------------
(* The refinement mapping: what the link sees. *)
Repeatable == IF lastExternalCmd = "unassigned" THEN "none" ELSE lastExternalCmd
Owed == IF Owing THEN cmd ELSE "none"
LinkVars == <<Submitted, engineStarted, Repeatable, Owed, air>>

(* No thread is called Free, and the sender is no caller. *)
LEMMA Identities == Free \notin Callers /\ Sender \notin Callers
  BY ThreadsAssumption

LEMMA NoneIsNoCode == "none" \notin Codes
  BY CodesAssumption DEF Codes

(* A sequence is its front and what it ends in. *)
LEMMA FrontAndBack ==
  ASSUME NEW S, NEW q \in Seq(S), NEW b \in Seq(S), Len(b) <= Len(q),
         \A i \in 1..Len(b) : q[Len(q) - Len(b) + i] = b[i]
  PROVE  q = SubSeq(q, 1, Len(q) - Len(b)) \o b
  <1> DEFINE n == Len(q) - Len(b)
             front == SubSeq(q, 1, n)
             whole == front \o b
  <1>0. n \in 0..Len(q) /\ Len(q) \in Nat /\ Len(b) \in Nat /\ n + Len(b) = Len(q)
    OBVIOUS
  <1>1. /\ front \in Seq(S) /\ Len(front) = n
        /\ \A i \in 1..n : front[i] = q[i]
    <2> HIDE DEF n
    <2>1. \A i \in 1..n : i \in 1..Len(q)
      BY <1>0
    <2> QED
      BY <1>0, <2>1
  <1> HIDE DEF front
  <1>2. /\ whole \in Seq(S) /\ Len(whole) = Len(q)
        /\ \A i \in 1..n : whole[i] = front[i]
        /\ \A i \in 1..Len(b) : whole[n + i] = b[i]
    <2>1. whole \in Seq(S) /\ Len(whole) = Len(front) + Len(b)
      BY <1>1
    <2>2. \A i \in 1..Len(front) : whole[i] = front[i]
      BY <1>1
    <2>3. \A i \in 1..Len(b) : whole[Len(front) + i] = b[i]
      BY <1>1
    <2> QED
      BY <1>0, <1>1, <2>1, <2>2, <2>3
  <1> HIDE DEF whole
  <1>3. ASSUME NEW i \in 1..Len(q) PROVE q[i] = whole[i]
    <2>1. CASE i <= n
      BY <1>0, <1>1, <1>2, <2>1
    <2>2. CASE i > n
      <3>1. i - n \in 1..Len(b) /\ n + (i - n) = i
        BY <1>0, <2>2
      <3> QED
        BY <1>2, <3>1
    <2> QED
      BY <1>0, <2>1, <2>2
  <1>4. q = whole
    BY <1>2, <1>3
  <1> QED
    BY <1>4 DEF whole, front

(* What waits in the queue is the same while the queue, the lock and the    *)
(* counts are.                                                              *)
LEMMA SubmittedAside ==
  ASSUME UNCHANGED <<cmdQueue, queueLock, pushed>> PROVE Submitted' = Submitted
  BY DEF Submitted

(* A caller's step is hidden, but for the release of the lock, which submits*)
(* its block.                                                               *)
LEMMA CallerRefines ==
  ASSUME IInv, LInv, NEW c \in Callers, CallerStep(c)
  PROVE  \/ UNCHANGED LinkVars
         \/ \E s \in Blocks : /\ Submitted' = Submitted \o s
                             /\ UNCHANGED <<engineStarted, Repeatable, Owed, air>>
  <1>0. /\ cmdQueue \in Seq(Command) /\ Len(cmdQueue) \in Nat
        /\ pushed[c] \in Nat /\ block[c] \in Seq(Command)
    BY DEF IInv, TypeOK
  <1>1. UNCHANGED <<engineStarted, Repeatable, Owed, air>>
    BY DEF CallerStep, AcquireQueue, Push, ReleaseQueue, Return, senderVars,
           Repeatable, Owed, Owing
  <1>2. CASE AcquireQueue(c)
    <2>1. pushed[c] = 0
      BY <1>2 DEF LInv, QueueEndsInPushed, EndsInPushed, AcquireQueue
    <2>2. Submitted = cmdQueue
      BY <1>2, Identities DEF Submitted, AcquireQueue, QueueIsFree
    <2>3. Submitted' = SubSeq(cmdQueue, 1, Len(cmdQueue) - 0)
      BY <1>2, <2>1 DEF Submitted, AcquireQueue
    <2>4. SubSeq(cmdQueue, 1, Len(cmdQueue) - 0) = cmdQueue
      BY <1>0
    <2> QED
      BY <1>1, <2>2, <2>3, <2>4 DEF LinkVars
  <1>3. CASE Push(c)
    <2> DEFINE new == block[c][pushed[c] + 1]
    <2>1. queueLock = c /\ queueLock' = c
      BY <1>3, ThreadsAssumption
         DEF IInv, LockHolders, HoldsQueue, Push, Pushing
    <2>2. /\ cmdQueue' = Append(cmdQueue, new) /\ new \in Command
          /\ pushed'[c] = pushed[c] + 1
      BY <1>3 DEF IInv, TypeOK, Push, Pushing
    <2>3. pushed[c] <= Len(cmdQueue)
      BY DEF LInv, QueueEndsInPushed, EndsInPushed
    <2>4. Submitted = SubSeq(cmdQueue, 1, Len(cmdQueue) - pushed[c])
      BY <2>1 DEF Submitted
    <2>5. Submitted' = SubSeq(Append(cmdQueue, new), 1, Len(cmdQueue) - pushed[c])
      <3>1. Len(Append(cmdQueue, new)) - (pushed[c] + 1) = Len(cmdQueue) - pushed[c]
        BY <1>0, <2>2
      <3> QED
        BY <2>1, <2>2, <3>1 DEF Submitted
    <2> HIDE DEF new
    <2>6. SubSeq(Append(cmdQueue, new), 1, Len(cmdQueue) - pushed[c])
             = SubSeq(cmdQueue, 1, Len(cmdQueue) - pushed[c])
      BY <1>0, <2>2, <2>3
    <2> QED
      BY <1>1, <2>4, <2>5, <2>6 DEF LinkVars
  <1>4. CASE ReleaseQueue(c)
    <2>1. queueLock = c /\ queueLock' = Free /\ cmdQueue' = cmdQueue
      BY <1>4, ThreadsAssumption DEF IInv, LockHolders, HoldsQueue, ReleaseQueue
    <2>2. /\ pushed[c] = Len(block[c]) /\ pushed[c] <= Len(cmdQueue)
          /\ \A i \in 1..pushed[c] :
                cmdQueue[Len(cmdQueue) - pushed[c] + i] = block[c][i]
      BY <1>4 DEF LInv, QueueEndsInPushed, EndsInPushed, ReleaseQueue
    <2>3. block[c] \in Blocks
      BY <1>4 DEF LInv, KnownBlocks, ReleaseQueue
    <2>4. Submitted = SubSeq(cmdQueue, 1, Len(cmdQueue) - pushed[c])
      BY <2>1 DEF Submitted
    <2>5. Submitted' = cmdQueue
      BY <2>1, Identities DEF Submitted
    <2>6. cmdQueue = SubSeq(cmdQueue, 1, Len(cmdQueue) - pushed[c]) \o block[c]
      BY <1>0, <2>2, FrontAndBack
    <2> QED
      BY <1>1, <2>3, <2>4, <2>5, <2>6
  <1>5. CASE Return(c)
    BY <1>1, <1>5, Identities, SubmittedAside DEF Return, queueVars, LinkVars
  <1> QED
    BY <1>2, <1>3, <1>4, <1>5 DEF CallerStep

(* A step of the sender delivers, repeats, rests or sends, or is hidden. *)
LEMMA SenderRefines ==
  ASSUME IInv, LInv, SenderStep
  PROVE  UNCHANGED LinkVars \/ Link!Deliver \/ Link!Repeat \/ Link!Rest \/ Link!Send
  <1>1. ASSUME UNCHANGED <<queueVars, callerVars>> PROVE Submitted' = Submitted
    BY <1>1, SubmittedAside DEF queueVars, callerVars
  <1>2. CASE Check
    BY <1>1, <1>2 DEF Check, memVars, outVars, LinkVars, Repeatable, Owed, Owing
  <1>3. CASE PeekNonEmpty
    BY <1>1, <1>3 DEF PeekNonEmpty, memVars, outVars, LinkVars, Repeatable, Owed,
                      Owing
  <1>4. CASE PeekEmpty
    <2>1. Submitted' = Submitted
      BY <1>1, <1>4 DEF PeekEmpty
    <2>2. Submitted = <<>>
      <3>1. CASE queueLock \in Callers
        <4>1. SubSeq(<<>>, 1, Len(<<>>) - pushed[queueLock]) = <<>>
          BY <3>1 DEF IInv, TypeOK
        <4> QED
          BY <1>4, <3>1, <4>1 DEF Submitted, PeekEmpty
      <3> QED
        BY <1>4, <3>1 DEF Submitted, PeekEmpty
    <2>3. Owed = "none"
      BY <1>4 DEF PeekEmpty, Owed, Owing
    <2>4. lastExternalCmd \in Codes
      BY DEF IInv, TypeOK
    <2>5. CASE MayRepeat
      BY <1>4, <2>1, <2>2, <2>3, <2>4, <2>5, NoneIsNoCode
         DEF PeekEmpty, MayRepeat, outVars, Link!Repeat, Repeatable, Owed, Owing
    <2>6. CASE ~MayRepeat /\ engineStarted
      BY <1>4, <2>1, <2>2, <2>3, <2>6
         DEF PeekEmpty, outVars, Link!Rest, Repeatable, Owed, Owing
    <2>7. CASE ~MayRepeat /\ ~engineStarted
      BY <1>4, <2>1, <2>7
         DEF PeekEmpty, outVars, LinkVars, Repeatable, Owed, Owing
    <2> QED
      BY <2>5, <2>6, <2>7 DEF IInv, TypeOK
  <1>5. CASE AcquireToPop
    BY <1>5, Identities
       DEF AcquireToPop, QueueIsFree, memVars, outVars, LinkVars, Submitted,
           Repeatable, Owed, Owing
  <1>6. CASE Pop
    <2>1. queueLock = Sender
      BY <1>6, ThreadsAssumption DEF IInv, LockHolders, HoldsQueue, Pop
    <2>2. Submitted = cmdQueue /\ Submitted' = Tail(cmdQueue)
      BY <1>6, <2>1, Identities DEF Submitted, Pop
    <2>3. cmdQueue # <<>>
      BY <1>6 DEF IInv, PopNonEmpty, Pop
    <2>4. Owed = "none" /\ Owed' = Head(cmdQueue).code
      BY <1>6 DEF Pop, Owed, Owing
    <2>5. Repeatable' \in IF Head(cmdQueue).external
                          THEN {Head(cmdQueue).code, "none"} ELSE {"none"}
      BY <1>6 DEF Pop, ToRepeat, Repeatable
    <2> QED
      BY <1>6, <2>2, <2>3, <2>4, <2>5 DEF Pop, outVars, Link!Deliver, Repeatable, Owed, Owing
  <1>7. CASE Report
    BY <1>1, <1>7 DEF Report, memVars, LinkVars, Repeatable, Owed, Owing
  <1>8. CASE ReleaseAfterPop
    <2>1. queueLock = Sender
      BY <1>8, ThreadsAssumption DEF IInv, LockHolders, HoldsQueue, ReleaseAfterPop
    <2>2. Submitted' = Submitted
      BY <1>8, <2>1, Identities DEF ReleaseAfterPop, Submitted
    <2> QED
      BY <1>8, <2>2 DEF ReleaseAfterPop, memVars, outVars, LinkVars, Repeatable,
                        Owed, Owing
  <1>9. CASE SendCode
    <2>1. Owed = cmd /\ Owed' = "none" /\ air' = cmd /\ cmd # "none"
      BY <1>9, NoneIsNoCode DEF LInv, OwesFrame, SendCode, Owed, Owing
    <2>2. Submitted' = Submitted /\ engineStarted' = engineStarted
          /\ Repeatable' = Repeatable
      BY <1>1, <1>9 DEF SendCode, memVars, Repeatable
    <2> QED
      BY <2>1, <2>2 DEF Link!Send, Owed, Owing, Repeatable
  <1> QED
    BY <1>2, <1>3, <1>4, <1>5, <1>6, <1>7, <1>8, <1>9 DEF SenderStep

(* Every step of Controller is a step of the link, or hidden from it. *)
LEMMA StepRefines ==
  ASSUME IInv, LInv, [Next]_vars
  PROVE  Link!Next \/ UNCHANGED Link!vars
  <1>1. UNCHANGED LinkVars => UNCHANGED Link!vars
    BY DEF LinkVars, Link!vars, Repeatable, Owed, Owing
  <1>2. CASE SenderStep
    BY <1>1, <1>2, SenderRefines DEF Link!Next
  <1>3. ASSUME NEW c \in Callers, CallerStep(c)
        PROVE  Link!Next \/ UNCHANGED Link!vars
    <2>1. CASE UNCHANGED LinkVars
      BY <1>1, <2>1
    <2>2. ASSUME NEW s \in Blocks, Submitted' = Submitted \o s,
                 UNCHANGED <<engineStarted, Repeatable, Owed, air>>
          PROVE  Link!Next
      BY <2>2 DEF Blocks, Link!Next, Link!Submit, Repeatable, Owed, Owing
    <2> QED
      BY <1>3, <2>1, <2>2, CallerRefines
  <1>4. CASE Request \/ Kill \/ Tick \/ Stay \/ UNCHANGED vars
    <2>1. UNCHANGED <<cmdQueue, queueLock, pushed, engineStarted, senderVars>>
      BY <1>4 DEF Request, Kill, Tick, Stay, vars, ConsoleAdd, ClientAdd,
                  StartEngine, StopEngine, Dispose, Ask, callerVars, queueVars,
                  senderVars
    <2>2. UNCHANGED LinkVars
      BY <2>1, SubmittedAside DEF senderVars, LinkVars, Repeatable, Owed, Owing
    <2> QED
      BY <1>1, <2>2
  <1> QED
    BY <1>2, <1>3, <1>4 DEF Next

(* The Controller implements the link: blocks are sent whole, in the order  *)
(* in which their callers released the lock, each command exactly once, and *)
(* only silences are filled (AddCmd, CommandSender).                        *)
THEOREM ControllerImplementsLink == Spec => ImplementsLink
  <1>1. Init => Link!Init
    BY Identities DEF Init, Link!Init, Submitted
  <1>2. IInv /\ LInv /\ [Next]_vars => [Link!Next]_(Link!vars)
    BY StepRefines
  <1> QED
    BY LinkInvariance, <1>1, <1>2, PTL DEF Spec, ImplementsLink, Link!Spec

-----------------------------------------------------------------------------
(***************************************************************************)
(* The Controller in use: all of the above also holds when the clock is set*)
(* back, and the engine is off when the process ends.                      *)
(***************************************************************************)
(* The clock is read by CommandSender and by clients' commands only: to set *)
(* it back changes nothing that the invariants speak of.                    *)
LEMMA SetBackAside ==
  ASSUME SetBack
  PROVE  /\ IInv => IInv'
         /\ EInv => EInv'
         /\ LInv => LInv'
         /\ ClientsKnowEngine => ClientsKnowEngine'
         /\ UNCHANGED <<engineStarted, Link!vars>>
  <1>0. /\ UNCHANGED <<engineStarted, StopThread, requests, alive, senderVars,
                       callerVars, queueVars>>
        /\ now' \in Times
    BY DEF SetBack
  <1> USE DEF senderVars, callerVars, queueVars
  <1>1. IInv => IInv'
    BY <1>0 DEF IInv, TypeOK, LockHolders, HoldsQueue, WillPop, PopNonEmpty,
                PushUnderWay, Pushing
  <1>2. EInv => EInv'
    BY <1>0, AsideEInv
  <1>3. LInv => LInv'
    <2>1. LInv => OwesFrame'
      BY <1>0 DEF LInv, OwesFrame, Owing
    <2> QED
      BY <1>0, <2>1, AsideLInv
  <1>4. ClientsKnowEngine => ClientsKnowEngine'
    BY <1>0 DEF ClientsKnowEngine
  <1>5. UNCHANGED Link!vars
    BY <1>0, SubmittedAside DEF Link!vars
  <1> QED
    BY <1>0, <1>1, <1>2, <1>3, <1>4, <1>5

(* A step of the Controller in use is one of the Controller, or sets the    *)
(* clock back.                                                              *)
LEMMA InUseStep == [InUseNext]_InUseVars => SetBack \/ [Next]_vars
  BY DEF InUseNext, InUseVars

(* The engine runs only if a start waited, once Dispose is through. *)
OffOnceDisposed ==
    /\ ~alive => pc[Console] = "kill"
    /\ pc[Console] = "kill" => ~engineStarted \/ startWaits

WaitsNoted == Exiting /\ StartWaits => startWaits

UInv == OffOnceDisposed /\ WaitsNoted

(* A start that is popped while Dispose is through did wait: its frame was  *)
(* the head of the queue.                                                   *)
LEMMA StepUInv == IInv /\ UInv /\ [InUseNext]_InUseVars => UInv'
  <1> SUFFICES ASSUME IInv, UInv, [InUseNext]_InUseVars PROVE UInv'
    OBVIOUS
  <1>1. CASE UNCHANGED InUseVars
    BY <1>1 DEF UInv, OffOnceDisposed, WaitsNoted, Exiting, StartWaits, InUseVars,
                vars
  <1>2. CASE InUseNext
    <2>1. WaitsNoted' /\ (startWaits => startWaits')
      BY <1>2 DEF InUseNext, WaitsNoted
    <2>2. CASE UNCHANGED <<pc, engineStarted, alive>>
      BY <2>1, <2>2 DEF UInv, OffOnceDisposed
    <2>3. CASE Pop
      <3>1. /\ cmdQueue # <<>> /\ cmdQueue \in Seq(Command)
            /\ Head(cmdQueue) = cmdQueue[1] /\ 1 \in DOMAIN cmdQueue
        BY <2>3 DEF IInv, TypeOK, PopNonEmpty, Pop
      <3>2. /\ alive /\ UNCHANGED <<alive, pc>>
            /\ engineStarted' => engineStarted \/ cmdQueue[1].engineStart
        BY <2>3, <3>1 DEF Pop, callerVars, envVars
      <3>3. pc[Console] = "kill" /\ engineStarted' => startWaits
        BY <3>1, <3>2 DEF UInv, OffOnceDisposed, WaitsNoted, Exiting, StartWaits
      <3> QED
        BY <2>1, <3>2, <3>3 DEF UInv, OffOnceDisposed
    <2>4. CASE SenderStep
      BY <2>2, <2>3, <2>4
         DEF SenderStep, Check, PeekNonEmpty, PeekEmpty, AcquireToPop, Report,
             ReleaseAfterPop, SendCode, callerVars, envVars
    <2>5. ASSUME NEW c \in Callers, CallerStep(c) PROVE UInv'
      <3>1. alive /\ UNCHANGED <<alive, engineStarted>>
        BY <2>5 DEF CallerStep, AcquireQueue, Push, ReleaseQueue, Return, envVars
      <3>2. pc'[Console] = "kill" => pc[Console] = "kill" \/ ~engineStarted
        BY <2>5 DEF CallerStep, AcquireQueue, Push, ReleaseQueue, Return,
                    SeesEngine, IInv, TypeOK, Callers
      <3> QED
        BY <2>1, <3>1, <3>2 DEF UInv, OffOnceDisposed
    <2>6. ASSUME NEW c \in Callers, NEW what, NEW commands, Ask(c, what, commands)
          PROVE  UInv'
      <3>1. pc'[Console] = "kill" => pc[Console] = "kill"
        BY <2>6 DEF Ask, IInv, TypeOK, Callers
      <3> QED
        BY <2>1, <2>6, <3>1 DEF UInv, OffOnceDisposed, Ask
    <2>7. CASE Request
      <3>1. CASE Dispose
        <4>1. CASE ~engineStarted /\ UNCHANGED <<engineStarted, envVars>>
          BY <2>1, <4>1, <2>7, <3>1 DEF UInv, OffOnceDisposed, envVars, Dispose, Ask
        <4> QED
          BY <2>6, <3>1, <4>1 DEF Dispose, Callers
      <3>2. CASE ConsoleAdd
        BY <2>6, <3>2 DEF ConsoleAdd, Callers
      <3>3. ASSUME NEW c \in Connections, ClientAdd(c) PROVE UInv'
        BY <2>6, <3>3 DEF ClientAdd, Callers
      <3>4. ASSUME NEW c \in Callers, StartEngine(c) \/ StopEngine(c) PROVE UInv'
        BY <2>6, <3>4 DEF StartEngine, StopEngine
      <3> QED
        BY <2>7, <3>1, <3>2, <3>3, <3>4 DEF Request
    <2>8. CASE Kill
      BY <2>1, <2>8 DEF UInv, OffOnceDisposed, Kill, callerVars
    <2>9. CASE SetBack \/ Tick \/ Stay
      BY <2>2, <2>9 DEF SetBack, Tick, Stay, callerVars, vars
    <2> QED
      BY <1>2, <2>4, <2>5, <2>7, <2>8, <2>9 DEF InUseNext, Next
  <1> QED
    BY <1>1, <1>2

(* Every reachable state satisfies the invariants, also when the clock is   *)
(* set back.                                                                *)
LEMMA InUseInvariance ==
  InUseSpec => [](IInv /\ LInv /\ ClientsKnowEngine /\ UInv)
  <1>1. InUseInit => IInv /\ LInv /\ ClientsKnowEngine /\ UInv
    <2> SUFFICES ASSUME Init PROVE IInv /\ LInv /\ ClientsKnowEngine /\ UInv
      BY DEF InUseInit
    <2>1. ClientsKnowEngine /\ UInv
      BY DEF Init, ClientsKnowEngine, UInv, OffOnceDisposed, WaitsNoted, Exiting,
             Callers
    <2> QED
      BY <2>1, InitIInv, InitLInv
  <1>2. IInv /\ LInv /\ ClientsKnowEngine /\ UInv /\ [InUseNext]_InUseVars
          => (IInv /\ LInv /\ ClientsKnowEngine)'
    BY InUseStep, SetBackAside, StepIInv, StepLInv, StepTold
  <1> QED
    BY <1>1, <1>2, StepUInv, PTL DEF InUseSpec

(* When the process ends the engine is off, unless a start waited while     *)
(* Dispose did its work (Dispose, StopEngine).                              *)
THEOREM EngineOffWhenOver == InUseSpec => []EngineOffAtExit
  <1>1. UInv => EngineOffAtExit
    BY DEF UInv, OffOnceDisposed, EngineOffAtExit
  <1> QED
    BY InUseInvariance, <1>1, PTL

(* The sender never pops an empty queue and clients know the engine, also   *)
(* when the clock is set back (CommandSender).                              *)
THEOREM SafeInUse == InUseSpec => [](TypeOK /\ PopNonEmpty /\ ClientsKnowEngine)
  <1>1. IInv => TypeOK /\ PopNonEmpty
    BY DEF IInv
  <1> QED
    BY InUseInvariance, <1>1, PTL

(* The Controller implements the link also when the clock is set back: what *)
(* is sent and in which order does not depend on the clock.                 *)
THEOREM InUseImplementsLink == InUseSpec => ImplementsLink
  <1>1. InUseInit => Link!Init
    BY Identities DEF InUseInit, Init, Link!Init, Submitted
  <1>2. IInv /\ LInv /\ [InUseNext]_InUseVars => [Link!Next]_(Link!vars)
    BY InUseStep, SetBackAside, StepRefines
  <1> QED
    BY InUseInvariance, <1>1, <1>2, PTL DEF InUseSpec, ImplementsLink, Link!Spec

(* The engine flag switches only after an ignition frame, also when the     *)
(* clock is set back.                                                       *)
THEOREM InUseSwitchesAfterIgnition ==
  ASSUME ConsoleTypesNoEngine
  PROVE  InUseSpec => EngineSwitchesAfterIgnition
  <1>1. InUseInit => EInv
    BY InitEInv DEF InUseInit
  <1>2. IInv /\ EInv /\ [InUseNext]_InUseVars => EInv'
    BY InUseStep, SetBackAside, StepEInv
  <1>3. IInv /\ EInv /\ [InUseNext]_InUseVars
          => [engineStarted' # engineStarted => air = "ignition"]_vars
    BY InUseStep, SetBackAside, SwitchStep
  <1> QED
    BY InUseInvariance, <1>1, <1>2, <1>3, PTL
       DEF InUseSpec, EngineSwitchesAfterIgnition
-----------------------------------------------------------------------------
(* DISPATCH: the web socket server and the Controller.                      *)

(* Where the threads of the server are. *)
WsPlaces == {"idle", "queued", "connect", "replace", "new", "assign", "callback",
             "poll", "message", "read", "command", "ending", "closed", "send",
             "header", "payload", "unlock", "crashed"}

Located == wspc \in [Server!Threads -> WsPlaces]

(* A connection's thread is in a call of AddCmd, StartEngine or StopEngine  *)
(* only while its OnMessage waits for the call to return.                   *)
InCall == \A c \in Connections : pc[c] # "ready" => wspc[c] = "command"

(* CommandSender is in SendMsg only while it reports the engine's state.    *)
Telling == wspc[Sender] # "idle" => spc = "report"

(* Who holds wsLock is in a critical section of the server, or crashed there*)
WsLockIsHeld ==
    \A t \in Connections \cup {Sender} :
        wsLock = t => wspc[t] \in Server!Holding \cup {"crashed"}

DInv == IInv /\ Located /\ InCall /\ Telling /\ WsLockIsHeld

-----------------------------------------------------------------------------
(* The two locks are in order in every state of the invariant: the holder   *)
(* of wsLock is not in a call, and CommandSender holds it only where it     *)
(* holds queueLock.                                                         *)
LEMMA OrderFollows == DInv => LocksInOrder
  <1> SUFFICES ASSUME DInv PROVE LocksInOrder
    OBVIOUS
  <1>1. ASSUME NEW c \in Connections, wsLock = c PROVE pc[c] = "ready"
    BY <1>1 DEF DInv, WsLockIsHeld, InCall, Server!Holding
  <1>2. ASSUME wsLock = Sender PROVE queueLock = Sender
    <2>1. wspc[Sender] # "idle"
      BY <1>2 DEF DInv, WsLockIsHeld, Server!Holding
    <2> QED
      BY <2>1 DEF DInv, Telling, IInv, LockHolders, HoldsQueue
  <1> QED
    BY <1>1, <1>2 DEF LocksInOrder

LEMMA InitDInv == DispatchInit => DInv
  <1> SUFFICES ASSUME DispatchInit PROVE DInv
    OBVIOUS
  <1>1. IInv
    BY InitIInv DEF DispatchInit
  <1>2. Located
    BY DEF DispatchInit, Server!Init, Located, WsPlaces
  <1>3. InCall
    BY DEF DispatchInit, Init, InCall, Callers
  <1>4. Telling /\ WsLockIsHeld
    BY PollerAssumption
       DEF DispatchInit, Server!Init, Server!Free, Server!Threads, Telling,
           WsLockIsHeld, Callers
  <1> QED
    BY <1>1, <1>2, <1>3, <1>4 DEF DInv

-----------------------------------------------------------------------------
(* Steps of the server.                                                     *)

(* Controller's invariant reads nothing of the server but whether the       *)
(* process lives.                                                           *)
LEMMA AsideIInv ==
  ASSUME IInv, UNCHANGED controllerVars, alive' \in BOOLEAN
  PROVE  IInv'
  BY DEF IInv, TypeOK, LockHolders, HoldsQueue, WillPop, PopNonEmpty,
         PushUnderWay, Pushing, controllerVars

(* A thread of the server other than CommandSender goes from one place to   *)
(* another: into a critical section with wsLock, out of it without, and a   *)
(* connection's thread leaves its call only when that has returned.         *)
LEMMA GoesDInv ==
  ASSUME DInv, UNCHANGED controllerVars, alive' \in BOOLEAN,
         NEW t \in Connections \cup {Poller}, NEW to \in WsPlaces,
         wspc' = [wspc EXCEPT ![t] = to],
         wspc[t] = "command" => pc[t] = "ready",
         wsLock' \in {wsLock, t, Null},
         t \in Connections /\ wsLock' = t => to \in Server!Holding \cup {"crashed"}
  PROVE  DInv'
  <1>0. t # Sender /\ t # Null /\ t \in Server!Threads
    BY ThreadsAssumption, PollerAssumption DEF Callers, Server!Threads
  <1>1. IInv'
    BY AsideIInv DEF DInv
  <1>2. Located'
    BY DEF DInv, Located
  <1>3. InCall'
    BY PollerAssumption DEF DInv, Located, InCall, controllerVars, Callers
  <1>4. Telling'
    BY <1>0 DEF DInv, Located, Telling, controllerVars
  <1>5. WsLockIsHeld'
    BY <1>0, ThreadsAssumption, PollerAssumption
       DEF DInv, Located, WsLockIsHeld, Callers
  <1> QED
    BY <1>1, <1>2, <1>3, <1>4, <1>5 DEF DInv

(* The steps of a connection's thread outside OnMessage's call, and of its  *)
(* client.                                                                  *)
LEMMA ConnectionDInv ==
  ASSUME DInv, NEW c \in Connections, ConnectionStep(c) \/ Server!Client(c),
         UNCHANGED controllerVars
  PROVE  DInv'
  <1> USE DEF Server!Goes, Server!JustGoes, Server!Locks, Server!Unlocks, Server!Free,
              Server!Touch, Server!LockIsFree, Server!lockVars,
              Server!socketVars, Server!clientVars, Server!processVars,
              Server!Arrives, Server!Frees, Server!Fails
  <1>0. /\ alive \in BOOLEAN /\ c # Null
        /\ wsLock = c => wspc[c] \in Server!Holding \cup {"crashed"}
    BY PollerAssumption DEF DInv, IInv, TypeOK, WsLockIsHeld, Callers
  <1>1. CASE Server!Request(c)
    BY <1>0, <1>1, GoesDInv DEF Server!Request, WsPlaces, Server!Holding
  <1>12. CASE Server!Take(c)
    BY <1>0, <1>12, GoesDInv DEF Server!Take, WsPlaces, Server!Holding
  <1>2. CASE Server!LockToConnect(c)
    BY <1>0, <1>2, GoesDInv DEF Server!LockToConnect, WsPlaces, Server!Holding
  <1>3. CASE Server!Replace(c)
    <2>1. alive' \in BOOLEAN
      BY <1>0, <1>3 DEF Server!Replace
    <2> QED
      BY <1>3, <2>1, GoesDInv DEF Server!Replace, WsPlaces, Server!Holding
  <1>4. CASE Server!Accept(c)
    BY <1>0, <1>4, GoesDInv DEF Server!Accept, WsPlaces, Server!Holding
  <1>5. CASE Server!Assign(c)
    BY <1>0, <1>5, GoesDInv DEF Server!Assign, WsPlaces, Server!Holding
  <1>6. CASE Server!UnlockConnected(c)
    BY <1>0, <1>6, GoesDInv DEF Server!UnlockConnected, WsPlaces
  <1>7. CASE Server!LockToRead(c)
    BY <1>0, <1>7, GoesDInv DEF Server!LockToRead, WsPlaces, Server!Holding
  <1>8. CASE Server!ReadFails(c)
    <2>1. alive' \in BOOLEAN /\ wsLock' = Null /\ wspc[c] = "read"
      BY <1>8 DEF Server!ReadFails
    <2>2. \E to \in {"poll", "ending"} : wspc' = [wspc EXCEPT ![c] = to]
      BY <1>8 DEF Server!ReadFails
    <2> QED
      BY <1>0, <2>1, <2>2, GoesDInv DEF WsPlaces
  <1>9. CASE Server!PollAgain(c)
    BY <1>0, <1>9, GoesDInv DEF Server!PollAgain, WsPlaces, Server!Holding
  <1>10. CASE Server!Close(c) \/ Server!HeaderStalls(c)
    <2>1. /\ wspc[c] \in {"poll", "ending"} /\ wspc' = [wspc EXCEPT ![c] = "closed"]
          /\ UNCHANGED <<alive, wsLock>>
      BY <1>10 DEF Server!Close, Server!HeaderStalls
    <2> QED
      BY <1>0, <2>1, GoesDInv DEF WsPlaces, Server!Holding
  <1>11. CASE Server!FrameArrives(c)
    <2>1. /\ wspc[c] = "poll"
          /\ \E to \in {"poll", "message"} : wspc' = [wspc EXCEPT ![c] = to]
          /\ UNCHANGED <<alive, wsLock>>
      BY <1>11 DEF Server!FrameArrives
    <2> QED
      BY <1>0, <2>1, GoesDInv DEF WsPlaces, Server!Holding
  <1>13. CASE Server!PartArrives(c) \/ Server!Leave(c)
    <2>1. UNCHANGED <<wspc, wsLock>> /\ alive' \in BOOLEAN
      BY <1>0, <1>13 DEF Server!PartArrives, Server!Leave
    <2> QED
      BY <2>1, AsideIInv DEF DInv, Located, InCall, Telling, WsLockIsHeld, controllerVars
  <1> QED
    BY <1>1, <1>2, <1>3, <1>4, <1>5, <1>6, <1>7, <1>8, <1>9, <1>10, <1>11, <1>12, <1>13
       DEF ConnectionStep, Server!Connecting, Server!Refuse, Server!Client,
           Server!PingArrives

(* The sensor poller sends its message. *)
LEMMA PollerDInv ==
  ASSUME DInv, Server!SendMsg(Poller), UNCHANGED controllerVars
  PROVE  DInv'
  <1> USE DEF Server!Goes, Server!JustGoes, Server!Locks, Server!Unlocks, Server!Free,
              Server!Touch, Server!LockIsFree, Server!lockVars,
              Server!socketVars, Server!clientVars, Server!processVars
  <1>0. /\ alive \in BOOLEAN
        /\ Poller \notin Connections
    BY PollerAssumption DEF DInv, IInv, TypeOK, Callers
  <1>1. CASE Server!TestSocket(Poller)
    BY <1>0, <1>1, GoesDInv DEF Server!TestSocket, WsPlaces
  <1>2. CASE Server!LockToSend(Poller)
    BY <1>0, <1>2, GoesDInv DEF Server!LockToSend, WsPlaces
  <1>3. CASE Server!WriteHeader(Poller)
    <2>1. \E to \in {"crashed", "payload"} : wspc' = [wspc EXCEPT ![Poller] = to]
      BY <1>3 DEF Server!WriteHeader
    <2>2. /\ wsLock' = wsLock /\ alive' \in BOOLEAN
          /\ wspc[Poller] = "header"
      BY <1>0, <1>3 DEF Server!WriteHeader
    <2> QED
      BY <1>0, <2>1, <2>2, GoesDInv DEF WsPlaces
  <1>4. CASE Server!WritePayload(Poller)
    <2>1. wsLock' = wsLock /\ alive' \in BOOLEAN
      BY <1>0, <1>4 DEF Server!WritePayload
    <2> QED
      BY <1>0, <1>4, <2>1, GoesDInv DEF Server!WritePayload, WsPlaces
  <1>5. CASE Server!UnlockSent(Poller)
    BY <1>0, <1>5, GoesDInv DEF Server!UnlockSent, WsPlaces
  <1> QED
    BY <1>1, <1>2, <1>3, <1>4, <1>5 DEF Server!SendMsg

-----------------------------------------------------------------------------
(* Steps of both.                                                           *)

(* A step of the Controller alone: no call begins, and a report that has    *)
(* begun goes on.                                                           *)
LEMMA ControllerDInv ==
  ASSUME DInv, IInv', UNCHANGED serverVars,
         \A c \in Connections : pc'[c] # "ready" => pc[c] # "ready",
         spc = "report" => spc' = "report" \/ wspc[Sender] = "idle"
  PROVE  DInv'
  BY DEF DInv, Located, InCall, Telling, WsLockIsHeld, serverVars

(* Only SendMsg is between the engine's report and what follows. *)
LEMMA SenderOwnDInv ==
  ASSUME DInv, SenderOwnStep, UNCHANGED serverVars
  PROVE  DInv'
  <1>1. IInv'
    BY SenderIInv DEF DInv, SenderOwnStep, SenderStep
  <1>2. pc' = pc /\ spc # "report"
    BY DEF SenderOwnStep, Check, PeekNonEmpty, PeekEmpty, AcquireToPop, Pop,
           ReleaseAfterPop, SendCode, callerVars
  <1> QED
    BY <1>1, <1>2, ControllerDInv

LEMMA CallerDInv ==
  ASSUME DInv, NEW c \in Connections, CallerStep(c), UNCHANGED serverVars
  PROVE  DInv'
  <1>1. IInv' /\ pc \in [Callers -> {"ready", "lock", "push", "wait", "kill"}]
    BY CallerIInv DEF DInv, IInv, TypeOK, Callers
  <1>2. spc' = spc
    BY DEF CallerStep, AcquireQueue, Push, ReleaseQueue, Return, senderVars
  <1>3. \A d \in Connections : pc'[d] # "ready" => pc[d] # "ready"
    BY <1>1 DEF CallerStep, AcquireQueue, Push, Pushing, ReleaseQueue, Return,
                SeesEngine, Callers
  <1> QED
    BY <1>1, <1>2, <1>3, ControllerDInv

(* OnMessage reads a command, with wsLock, and hands it over without it. *)
LEMMA OnCommandDInv ==
  ASSUME DInv, NEW c \in Connections, OnCommand(c)
  PROVE  DInv'
  <1>0. /\ wspc[c] = "read" /\ wsLock' = Null
        /\ \E to \in {"command", "message", "poll"} :
              wspc' = [wspc EXCEPT ![c] = to]
    BY DEF OnCommand, Server!Read, Server!Goes, Server!Free, Server!Onward
  <1>1. c \in Server!Threads /\ c # Sender /\ Null \notin Connections \cup {Sender}
    BY ThreadsAssumption, PollerAssumption DEF Server!Threads, Callers
  <1>2. Located'
    BY <1>0, <1>1 DEF DInv, Located, WsPlaces
  <1>3. WsLockIsHeld'
    BY <1>0, <1>1 DEF WsLockIsHeld
  <1>4. CASE wspc'[c] = "command"
    <2>1. ClientAdd(c) \/ StartEngine(c) \/ StopEngine(c)
      BY <1>4 DEF OnCommand
    <2>2. IInv'
      BY <2>1, RequestIInv DEF DInv, Request, Callers
    <2>3. /\ \A d \in Connections : d # c => pc'[d] = pc[d]
          /\ spc' = spc
      BY <2>1 DEF ClientAdd, StartEngine, StopEngine, Ask, senderVars, DInv,
                  IInv, TypeOK, Callers
    <2>4. InCall'
      BY <1>0, <1>1, <1>4, <2>3 DEF DInv, Located, InCall
    <2>5. Telling'
      BY <1>0, <1>1, <2>3 DEF DInv, Located, Telling
    <2> QED
      BY <1>2, <1>3, <2>2, <2>4, <2>5 DEF DInv
  <1>5. CASE wspc'[c] # "command"
    <2>1. UNCHANGED controllerVars
      BY <1>5 DEF OnCommand
    <2>2. alive' \in BOOLEAN
      BY DEF OnCommand, Server!Read, Server!Touch, DInv, IInv, TypeOK
    <2> QED
      BY <1>0, <1>1, <2>1, <2>2, GoesDInv DEF WsPlaces
  <1> QED
    BY <1>4, <1>5

(* The call has returned, and OnMessage with it. *)
LEMMA CommandAddedDInv ==
  ASSUME DInv, NEW c \in Connections, CommandAdded(c)
  PROVE  DInv'
  <1>1. wsLock = c => wspc[c] \in Server!Holding \cup {"crashed"}
    BY DEF DInv, WsLockIsHeld
  <1> QED
    BY <1>1, GoesDInv
       DEF CommandAdded, Server!Handled, Server!Onward, Server!JustGoes, Server!Goes, WsPlaces,
           Server!lockVars, Server!processVars, Server!Holding, DInv, IInv, TypeOK

(* CommandSender, which holds queueLock, is in SendMsg. *)
LEMMA ReportingDInv ==
  ASSUME DInv, Reporting
  PROVE  DInv'
  <1> USE DEF Server!Goes, Server!JustGoes, Server!Locks, Server!Free, Server!Touch,
              Server!lockVars, Server!processVars
  <1>0. /\ Sender \in Server!Threads /\ Null \notin Connections \cup {Sender}
        /\ Sender \notin Connections
    BY ThreadsAssumption, PollerAssumption DEF Server!Threads, Callers
  <1>1. UNCHANGED controllerVars /\ spc = "report" /\ alive \in BOOLEAN
    BY DEF Reporting, DInv, IInv, TypeOK
  <1>2. /\ \E to \in WsPlaces : /\ wspc' = [wspc EXCEPT ![Sender] = to]
                                /\ wsLock' = Sender
                                      => to \in Server!Holding \cup {"crashed"}
        /\ wsLock' \in {wsLock, Sender}
        /\ alive' \in BOOLEAN
    <2>1. CASE Server!TestSocket(Sender)
      <3>1. wsLock # Sender
        BY <2>1 DEF DInv, WsLockIsHeld, Server!TestSocket, Server!Holding
      <3> QED
        BY <1>1, <2>1, <3>1 DEF Server!TestSocket, WsPlaces
    <2>2. CASE Server!LockToSend(Sender)
      BY <1>1, <2>2 DEF Server!LockToSend, WsPlaces, Server!Holding
    <2>3. CASE Server!WriteHeader(Sender)
      BY <1>1, <2>3 DEF Server!WriteHeader, WsPlaces, Server!Holding
    <2>4. CASE Server!WritePayload(Sender)
      BY <1>1, <2>4 DEF Server!WritePayload, WsPlaces, Server!Holding
    <2> QED
      BY <2>1, <2>2, <2>3, <2>4 DEF Reporting
  <1>3. IInv'
    BY <1>1, <1>2, AsideIInv DEF DInv
  <1>4. Located'
    BY <1>2 DEF DInv, Located
  <1>5. InCall'
    BY <1>0, <1>1, <1>2 DEF DInv, Located, InCall, controllerVars
  <1>6. Telling'
    BY <1>1 DEF Telling, controllerVars
  <1>7. WsLockIsHeld'
    BY <1>0, <1>2 DEF DInv, Located, WsLockIsHeld
  <1> QED
    BY <1>3, <1>4, <1>5, <1>6, <1>7 DEF DInv

(* It returns from SendMsg, or has not called it because nobody is connected*)
LEMMA ReportedDInv ==
  ASSUME DInv, Reported \/ ReportUnheard
  PROVE  DInv'
  <1>0. /\ Sender \in Server!Threads /\ Sender \notin Connections
        /\ Null \notin Connections \cup {Sender}
    BY ThreadsAssumption, PollerAssumption DEF Server!Threads, Callers
  <1>1. IInv' /\ pc' = pc
    BY SenderIInv DEF DInv, SenderStep, Reported, ReportUnheard, Report, callerVars
  <1>2. CASE ReportUnheard
    BY <1>1, <1>2, ControllerDInv DEF ReportUnheard
  <1>3. CASE Reported
    <2>1. wspc' = [wspc EXCEPT ![Sender] = "idle"] /\ wsLock' = Null
      BY <1>3 DEF Reported, Server!UnlockSent, Server!Unlocks, Server!Goes, Server!Free
    <2>2. Located' /\ Telling'
      BY <1>0, <2>1 DEF DInv, Located, Telling, WsPlaces
    <2>3. InCall'
      BY <1>0, <1>1, <2>1 DEF DInv, Located, InCall
    <2>4. WsLockIsHeld'
      BY <1>0, <2>1 DEF WsLockIsHeld
    <2> QED
      BY <1>1, <2>2, <2>3, <2>4 DEF DInv
  <1> QED
    BY <1>2, <1>3

-----------------------------------------------------------------------------
(* wsLock and queueLock are never taken in both orders: a client's command  *)
(* and a status message cannot wait for each other.                         *)
THEOREM LocksStayInOrder == DispatchSpec => []LocksInOrder
  <1>1. DInv /\ [DispatchNext]_dispatchVars => DInv'
    <2> SUFFICES ASSUME DInv, [DispatchNext]_dispatchVars PROVE DInv'
      OBVIOUS
    <2>1. ASSUME NEW c \in Connections, OnCommand(c) \/ CommandAdded(c) PROVE DInv'
      BY <2>1, OnCommandDInv, CommandAddedDInv
    <2>2. ASSUME NEW c \in Connections, CallerStep(c), UNCHANGED serverVars PROVE DInv'
      BY <2>2, CallerDInv
    <2>3. ASSUME NEW c \in Connections, ConnectionStep(c) \/ Server!Client(c),
                 UNCHANGED controllerVars
          PROVE  DInv'
      BY <2>3, ConnectionDInv
    <2>4. CASE Reporting \/ Reported \/ ReportUnheard
      BY <2>4, ReportingDInv, ReportedDInv
    <2>5. CASE SenderOwnStep /\ UNCHANGED serverVars
      BY <2>5, SenderOwnDInv
    <2>6. CASE Server!SendMsg(Poller) /\ UNCHANGED controllerVars
      BY <2>6, PollerDInv
    <2>7. CASE UNCHANGED dispatchVars
      <3>1. UNCHANGED <<controllerVars, alive, wspc, wsLock>>
        BY <2>7 DEF dispatchVars, vars, serverVars, controllerVars
      <3>2. IInv'
        BY <3>1, AsideIInv DEF DInv, IInv, TypeOK
      <3> QED
        BY <3>1, <3>2 DEF DInv, Located, InCall, Telling, WsLockIsHeld, controllerVars
    <2>8. CASE Resting
      <3>1. UNCHANGED dispatchVars
        BY <2>8 DEF Resting, Server!Stay, Server!vars, Stay, dispatchVars, vars,
                    serverVars
      <3> QED
        BY <2>7, <3>1
    <2> QED
      BY <2>1, <2>2, <2>3, <2>4, <2>5, <2>6, <2>7, <2>8 DEF DispatchNext
  <1> QED
    BY InitDInv, OrderFollows, <1>1, PTL DEF DispatchSpec

-----------------------------------------------------------------------------
(* TANK: the web page and the Controller.                                   *)

Kinds == {"start", "stop"}

Status(started) == IF started THEN "start" ELSE "stop"

(* The types of the page and its socket. *)
PageTypes ==
    /\ engineState \in {"stop", "warmup", "start"}
    /\ picture \in {"off", "pressed", "warmup", "on"}
    /\ warmupTimer \in Kinds \cup {"none"}
    /\ pageSocket \in {"connecting", "open", "closed"}
    /\ uplink \in Seq(ClientCodes \cup Kinds)
    /\ downlink \in Seq(Kinds)
    /\ lost \in BOOLEAN
    /\ line \in Connections

(* A caller has commands to push only in its call of AddCmd. *)
BlocksGone == \A c \in Callers : /\ pc[c] \notin {"lock", "push"} => block[c] = <<>>
                                 /\ pc[c] # "push" => pushed[c] = 0

(* Unless a connection was lost, one thread alone was ever asked, and only  *)
(* once the page was connected.                                             *)
OneLine == /\ \A c \in Callers : c # line => pc[c] = "ready"
           /\ pageSocket # "open" => uplink = <<>> /\ pc[line] = "ready"

(* Engine commands on their way from the page to the sender: the last one   *)
(* among the frames of s from an index on switches the engine to k.         *)
Switches(c, k) == IF k = "start" THEN c.engineStart ELSE c.engineStop /\ ~c.engineStart

LastEngine(s, from, k) ==
    \E i \in from..Len(s) : /\ Switches(s[i], k)
                            /\ \A j \in i + 1..Len(s) : ~IsEngineFrame(s[j])

NoEngine(s, from) == \A j \in from..Len(s) : ~IsEngineFrame(s[j])

LastAsked(k) == \E i \in 1..Len(uplink) : /\ uplink[i] = k
                                          /\ \A j \in i + 1..Len(uplink) :
                                                uplink[j] \notin Kinds

NoneAsked == \A j \in 1..Len(uplink) : uplink[j] \notin Kinds

(* What the engine will be switched to in the end, when everything that is  *)
(* under way has arrived: the latest command decides, first of those in the *)
(* socket, then of those that the thread pushes, then of those in the queue.*)
QueueEnds(k) == \/ LastEngine(cmdQueue, 1, k)
                \/ NoEngine(cmdQueue, 1) /\ engineStarted = (k = "start")

BlockEnds(k) == \/ LastEngine(block[line], pushed[line] + 1, k)
                \/ NoEngine(block[line], pushed[line] + 1) /\ QueueEnds(k)

EndsIn(k) == LastAsked(k) \/ (NoneAsked /\ BlockEnds(k))

(* No engine command is under way to the sender. *)
Quiet == /\ NoneAsked
         /\ NoEngine(block[line], pushed[line] + 1)
         /\ NoEngine(cmdQueue, 1)

(* The page believes what CommandSender holds, or there is a command or a   *)
(* status message that will tell it.                                        *)
Believes == Quiet /\ spc # "report" /\ downlink = <<>>
               => engineState = Status(engineStarted)

(* The latest status message is true.                                       *)
LatestTrue == downlink # <<>> /\ spc # "report"
                 => downlink[Len(downlink)] = Status(engineStarted)

(* What the button shows, and what the timer waits for, is what the engine  *)
(* will be in the end.                                                      *)
Shows(k) == \/ picture = IF k = "start" THEN "on" ELSE "off"
            \/ warmupTimer = k

Foretells == \A k \in Kinds : Shows(k) => EndsIn(k)

TInv == /\ IInv
        /\ PageTypes
        /\ BlocksGone
        /\ ~lost => OneLine /\ Believes /\ LatestTrue /\ Foretells

-----------------------------------------------------------------------------
(* The blocks of StartEngine and StopEngine.                                *)

(* A sequence ends in what its second part ends in ...                      *)
LEMMA EndsWith ==
  ASSUME NEW s \in Seq(Command), NEW t \in Seq(Command), NEW k,
         LastEngine(t, 1, k)
  PROVE  LastEngine(s \o t, 1, k)
  <1>1. PICK i \in 1..Len(t) : /\ Switches(t[i], k)
                               /\ \A j \in i + 1..Len(t) : ~IsEngineFrame(t[j])
    BY DEF LastEngine
  <1>2. /\ Len(s) \in Nat /\ Len(t) \in Nat /\ Len(s \o t) = Len(s) + Len(t)
        /\ \A j \in 1..Len(t) : (s \o t)[Len(s) + j] = t[j]
    OBVIOUS
  <1>3. Len(s) + i \in 1..Len(s \o t) /\ Switches((s \o t)[Len(s) + i], k)
    BY <1>1, <1>2
  <1>4. ASSUME NEW j \in Len(s) + i + 1..Len(s \o t)
        PROVE  ~IsEngineFrame((s \o t)[j])
    <2>1. j - Len(s) \in i + 1..Len(t) /\ j - Len(s) \in 1..Len(t)
          /\ Len(s) + (j - Len(s)) = j
      BY <1>1, <1>2
    <2> QED
      BY <1>1, <1>2, <2>1
  <1> QED
    BY <1>3, <1>4 DEF LastEngine

(* ... and, if that has no engine command, in what its first part ends in.  *)
LEMMA EndsBefore ==
  ASSUME NEW s \in Seq(Command), NEW t \in Seq(Command), NEW k,
         LastEngine(s, 1, k), NoEngine(t, 1)
  PROVE  LastEngine(s \o t, 1, k)
  <1>1. PICK i \in 1..Len(s) : /\ Switches(s[i], k)
                               /\ \A j \in i + 1..Len(s) : ~IsEngineFrame(s[j])
    BY DEF LastEngine
  <1>2. /\ Len(s) \in Nat /\ Len(t) \in Nat /\ Len(s \o t) = Len(s) + Len(t)
        /\ \A j \in 1..Len(s) : (s \o t)[j] = s[j]
        /\ \A j \in Len(s) + 1..Len(s) + Len(t) : (s \o t)[j] = t[j - Len(s)]
    OBVIOUS
  <1>3. i \in 1..Len(s \o t) /\ Switches((s \o t)[i], k)
    BY <1>1, <1>2
  <1>4. ASSUME NEW j \in i + 1..Len(s \o t) PROVE ~IsEngineFrame((s \o t)[j])
    <2>1. CASE j <= Len(s)
      BY <1>1, <1>2, <2>1
    <2>2. CASE ~(j <= Len(s))
      <3>1. j \in Len(s) + 1..Len(s) + Len(t) /\ j - Len(s) \in 1..Len(t)
        BY <1>2, <2>2
      <3> QED
        BY <1>2, <3>1 DEF NoEngine
    <2> QED
      BY <2>1, <2>2
  <1> QED
    BY <1>3, <1>4 DEF LastEngine

(* Repeated engine commands end in themselves, repeated frames have none.   *)
LEMMA RepeatedEnds ==
  ASSUME NEW n \in Nat \ {0}
  PROVE  /\ LastEngine(Repeated("engine_start", n), 1, "start")
         /\ LastEngine(Repeated("engine_stop", n), 1, "stop")
         /\ NoEngine(Repeated("neutral", n), 1)
  <1>1. /\ Local("engine_start").engineStart
        /\ Local("engine_stop").engineStop /\ ~Local("engine_stop").engineStart
        /\ ~IsEngineFrame(Local("neutral"))
    BY DEF Local, IsEngineFrame
  <1>2. ASSUME NEW t
        PROVE  /\ Len(Repeated(t, n)) = n
               /\ \A i \in 1..n : Repeated(t, n)[i] = Local(t)
    BY DEF Repeated
  <1>3. n \in 1..n /\ n + 1..n = {}
    OBVIOUS
  <1>4. LastEngine(Repeated("engine_start", n), 1, "start")
    BY <1>1, <1>2, <1>3 DEF LastEngine, Switches
  <1>5. LastEngine(Repeated("engine_stop", n), 1, "stop")
    BY <1>1, <1>2, <1>3 DEF LastEngine, Switches
  <1>6. NoEngine(Repeated("neutral", n), 1)
    BY <1>1, <1>2 DEF NoEngine
  <1> QED
    BY <1>4, <1>5, <1>6

(* A start ends in a start, a stop in a stop (StartEngine, StopEngine).     *)
LEMMA BlocksEnd == /\ LastEngine(StartBlock, 1, "start")
                   /\ LastEngine(StopBlock, 1, "stop")
  <1>0. /\ {NIdle, NIgnition, NWait, NStart, NAfter} \subseteq Nat \ {0}
        /\ {NStopNeutral, NStopIgnition} \subseteq Nat \ {0}
        /\ {"idle", "ignition", "neutral", "engine_start", "engine_stop"}
              \subseteq CmdTypes
    BY LengthsAssumption DEF CmdTypes
  <1>1. LastEngine(StartBlock, 1, "start")
    <2> DEFINE before == Repeated("idle", NIdle) \o Repeated("ignition", NIgnition)
                         \o Repeated("neutral", NWait) \o Repeated("ignition", 1)
               starts == Repeated("engine_start", NStart)
               after == Repeated("neutral", NAfter)
    <2>1. before \in Seq(Command) /\ starts \in Seq(Command) /\ after \in Seq(Command)
      <3>1. /\ Repeated("idle", NIdle) \in Seq(Command)
            /\ Repeated("ignition", NIgnition) \in Seq(Command)
            /\ Repeated("neutral", NWait) \in Seq(Command)
            /\ Repeated("ignition", 1) \in Seq(Command)
        BY <1>0, RepeatedType
      <3>2. starts \in Seq(Command) /\ after \in Seq(Command)
        BY <1>0, RepeatedType
      <3> QED
        BY <3>1, <3>2
    <2>2. LastEngine(starts, 1, "start") /\ NoEngine(after, 1)
      BY <1>0, RepeatedEnds
    <2> HIDE DEF before, starts, after
    <2>3. LastEngine(before \o starts, 1, "start")
      BY <2>1, <2>2, EndsWith
    <2>4. before \o starts \in Seq(Command)
      BY <2>1
    <2>5. LastEngine((before \o starts) \o after, 1, "start")
      BY <2>1, <2>2, <2>3, <2>4, EndsBefore
    <2> QED
      BY <2>5 DEF StartBlock, before, starts, after
  <1>2. LastEngine(StopBlock, 1, "stop")
    <2>1. /\ Repeated("neutral", NStopNeutral) \in Seq(Command)
          /\ Repeated("ignition", NStopIgnition) \in Seq(Command)
          /\ Repeated("engine_stop", 1) \in Seq(Command)
      BY <1>0, RepeatedType
    <2>2. Repeated("neutral", NStopNeutral) \o Repeated("ignition", NStopIgnition)
             \in Seq(Command)
      BY <2>1
    <2>3. LastEngine(Repeated("engine_stop", 1), 1, "stop")
      BY RepeatedEnds
    <2> QED
      BY <2>1, <2>2, <2>3, EndsWith DEF StopBlock
  <1> QED
    BY <1>1, <1>2

-----------------------------------------------------------------------------
(* Commands that are carried on: where a step of the server moves commands, *)
(* what the engine will be in the end stays as it was, and none gets lost   *)
(* on the way.                                                              *)
Carried ==
    /\ \A k \in Kinds : EndsIn(k) => EndsIn(k)'
    /\ Quiet' /\ spc' # "report" => Quiet
    /\ spc' # "report" => spc # "report" /\ engineStarted' = engineStarted

(* Where no command moves, the pipe is as it was. *)
LEMMA SameWay ==
  ASSUME UNCHANGED <<uplink, line, block, pushed, cmdQueue, engineStarted>>
  PROVE  /\ \A k : EndsIn(k) => EndsIn(k)'
         /\ Quiet' => Quiet
  BY DEF EndsIn, Quiet, LastAsked, NoneAsked, BlockEnds, QueueEnds, LastEngine,
         NoEngine

(* A frame that switches the engine is an engine frame. *)
LEMMA SwitchIsEngine == ASSUME NEW c, NEW k, Switches(c, k) PROVE IsEngineFrame(c)
  BY DEF Switches, IsEngineFrame

(* Nothing follows an empty sequence. *)
LEMMA PastTheEnd ==
  ASSUME NEW s, NEW n, n = Len(s) + 1, Len(s) \in Nat
  PROVE  /\ NoEngine(s, n)
         /\ \A k : ~LastEngine(s, n, k)
  <1>1. n..Len(s) = {}
    OBVIOUS
  <1> QED
    BY <1>1 DEF NoEngine, LastEngine

(* AddCmd moves a command from its block to the queue. *)
LEMMA PushCarries ==
  ASSUME IInv, PageTypes, Push(line), UNCHANGED <<uplink, line>>
  PROVE  Carried
  <1> DEFINE s == block[line]
             p == pushed[line]
             new == s[p + 1]
             q == cmdQueue
             r == cmdQueue'
  <1>0. /\ q \in Seq(Command) /\ s \in Seq(Command) /\ p \in Nat
        /\ p + 1 <= Len(s) /\ r = Append(q, new) /\ new \in Command
        /\ block' = block /\ pushed'[line] = p + 1
        /\ UNCHANGED <<uplink, line, engineStarted, spc>>
        /\ spc # "report"
    <2>1. line \in Callers
      BY DEF PageTypes, Callers
    <2>2. spc # "report"
      BY <2>1, ThreadsAssumption DEF IInv, LockHolders, HoldsQueue, Push, Pushing
    <2> QED
      BY <2>1, <2>2 DEF IInv, TypeOK, Push, Pushing, senderVars
  <1>1. /\ Len(q) \in Nat /\ Len(s) \in Nat /\ Len(r) = Len(q) + 1
        /\ r[Len(q) + 1] = new /\ \A j \in 1..Len(q) : r[j] = q[j]
    BY <1>0
  <1>p. (p + 1) + 1 = p + 2
    BY <1>0
  <1> HIDE DEF s, p, new, q, r
  <1>2. ASSUME NEW k, LastEngine(s, p + 1, k)
        PROVE  \/ LastEngine(s, p + 2, k)
               \/ NoEngine(s, p + 2) /\ LastEngine(r, 1, k)
    <2>1. PICK i \in p + 1..Len(s) : /\ Switches(s[i], k)
                                     /\ \A j \in i + 1..Len(s) : ~IsEngineFrame(s[j])
      BY <1>2 DEF LastEngine
    <2>2. CASE i = p + 1
      <3>1. NoEngine(s, p + 2)
        BY <2>1, <2>2, <1>0 DEF NoEngine
      <3>2. Switches(r[Len(q) + 1], k)
        BY <2>1, <2>2, <1>1 DEF new
      <3>3. Len(q) + 1 \in 1..Len(r) /\ (Len(q) + 1) + 1..Len(r) = {}
        BY <1>1
      <3>4. LastEngine(r, 1, k)
        BY <3>2, <3>3 DEF LastEngine
      <3> QED
        BY <3>1, <3>4
    <2>3. CASE i # p + 1
      <3>1. i \in p + 2..Len(s)
        BY <1>0, <1>1, <2>3
      <3> QED
        BY <2>1, <3>1 DEF LastEngine
    <2> QED
      BY <2>2, <2>3
  <1>3. ASSUME NoEngine(s, p + 1)
        PROVE  NoEngine(s, p + 2) /\ ~IsEngineFrame(new)
    <2>1. p + 1 \in p + 1..Len(s) /\ \A j \in p + 2..Len(s) : j \in p + 1..Len(s)
      BY <1>0, <1>1
    <2> QED
      BY <1>3, <2>1 DEF NoEngine, new
  <1>4. ASSUME NEW k, LastEngine(q, 1, k), ~IsEngineFrame(new)
        PROVE  LastEngine(r, 1, k)
    <2>1. PICK i \in 1..Len(q) : /\ Switches(q[i], k)
                                 /\ \A j \in i + 1..Len(q) : ~IsEngineFrame(q[j])
      BY <1>4 DEF LastEngine
    <2>2. i \in 1..Len(r) /\ Switches(r[i], k)
      BY <1>1, <2>1
    <2>3. ASSUME NEW j \in i + 1..Len(r) PROVE ~IsEngineFrame(r[j])
      <3>1. CASE j = Len(q) + 1
        BY <1>1, <1>4, <3>1
      <3>2. CASE j # Len(q) + 1
        <4>1. j \in i + 1..Len(q) /\ j \in 1..Len(q)
          BY <1>1, <3>2
        <4> QED
          BY <1>1, <2>1, <4>1
      <3> QED
        BY <3>1, <3>2
    <2> QED
      BY <2>2, <2>3 DEF LastEngine
  <1>5. NoEngine(q, 1) /\ ~IsEngineFrame(new) <=> NoEngine(r, 1)
    <2>1. \A j \in 1..Len(r) : j \in 1..Len(q) \/ j = Len(q) + 1
      BY <1>1
    <2>2. Len(q) + 1 \in 1..Len(r) /\ \A j \in 1..Len(q) : j \in 1..Len(r)
      BY <1>1
    <2> QED
      BY <1>1, <2>1, <2>2 DEF NoEngine
  <1>6. NoEngine(s, p + 2) /\ ~IsEngineFrame(new) => NoEngine(s, p + 1)
    <2>1. \A j \in p + 1..Len(s) : j = p + 1 \/ j \in p + 2..Len(s)
      BY <1>0, <1>1
    <2> QED
      BY <2>1 DEF NoEngine, new
  <1>7. ASSUME NEW k, BlockEnds(k) PROVE BlockEnds(k)'
    <2>1. BlockEnds(k)' <=> \/ LastEngine(s, p + 2, k)
                            \/ /\ NoEngine(s, p + 2)
                               /\ \/ LastEngine(r, 1, k)
                                  \/ NoEngine(r, 1) /\ engineStarted = (k = "start")
      BY <1>0, <1>p DEF BlockEnds, QueueEnds, LastEngine, NoEngine, s, p, r
    <2>2. \/ LastEngine(s, p + 1, k)
          \/ /\ NoEngine(s, p + 1)
             /\ \/ LastEngine(q, 1, k)
                \/ NoEngine(q, 1) /\ engineStarted = (k = "start")
      BY <1>7 DEF BlockEnds, QueueEnds, s, p, q
    <2> QED
      BY <2>1, <2>2, <1>2, <1>3, <1>4, <1>5
  <1>8. NoneAsked' <=> NoneAsked
    BY <1>0 DEF NoneAsked
  <1>9. \A k : LastAsked(k)' <=> LastAsked(k)
    BY <1>0 DEF LastAsked
  <1>10. Quiet' => Quiet
    <2>1. Quiet' => NoEngine(s, p + 2) /\ NoEngine(r, 1) /\ NoneAsked'
      BY <1>0, <1>p DEF Quiet, NoEngine, s, p, r
    <2> QED
      BY <2>1, <1>5, <1>6, <1>8 DEF Quiet, s, p, q
  <1> QED
    BY <1>0, <1>7, <1>8, <1>9, <1>10 DEF Carried, EndsIn

(* CommandSender takes the head of the queue: an engine command at once     *)
(* decides what the engine is.                                              *)
LEMMA PopCarries ==
  ASSUME IInv, Pop, UNCHANGED <<uplink, line>>
  PROVE  Carried
  <1> DEFINE q == cmdQueue
             r == cmdQueue'
  <1>0. /\ q \in Seq(Command) /\ q # <<>> /\ r = Tail(q) /\ Head(q) = q[1]
        /\ q[1] \in Command
        /\ UNCHANGED <<uplink, line, block, pushed>>
        /\ spc = "pop"
        /\ engineStarted \in BOOLEAN
    BY DEF IInv, TypeOK, PopNonEmpty, Pop, callerVars
  <1>1. /\ Len(q) \in Nat /\ Len(q) >= 1 /\ Len(r) = Len(q) - 1
        /\ \A j \in 1..Len(r) : r[j] = q[j + 1]
    BY <1>0
  <1>2. /\ spc' = IF IsEngineFrame(q[1]) THEN "report" ELSE "unlock"
        /\ engineStarted' = (q[1].engineStart \/ (engineStarted /\ ~q[1].engineStop))
        /\ q[1].engineStart \in BOOLEAN /\ q[1].engineStop \in BOOLEAN
    BY <1>0 DEF Pop, Command
  <1> HIDE DEF q, r
  <1>3. ~IsEngineFrame(q[1]) => engineStarted' = engineStarted
    BY <1>0, <1>2 DEF IsEngineFrame
  <1>4. NoEngine(q, 1) <=> ~IsEngineFrame(q[1]) /\ NoEngine(r, 1)
    <2>1. ASSUME NoEngine(q, 1) PROVE ~IsEngineFrame(q[1]) /\ NoEngine(r, 1)
      <3>1. 1 \in 1..Len(q) /\ \A j \in 1..Len(r) : j + 1 \in 1..Len(q)
        BY <1>1
      <3> QED
        BY <1>1, <2>1, <3>1 DEF NoEngine
    <2>2. ASSUME NoEngine(r, 1), ~IsEngineFrame(q[1]) PROVE NoEngine(q, 1)
      <3>1. \A j \in 1..Len(q) : j = 1 \/ (j - 1 \in 1..Len(r) /\ (j - 1) + 1 = j)
        BY <1>1
      <3> QED
        BY <1>1, <2>2, <3>1 DEF NoEngine
    <2> QED
      BY <2>1, <2>2
  <1>5. ASSUME NEW k \in Kinds, QueueEnds(k) PROVE QueueEnds(k)'
    <2>1. CASE LastEngine(q, 1, k)
      <3>1. PICK i \in 1..Len(q) : /\ Switches(q[i], k)
                                   /\ \A j \in i + 1..Len(q) : ~IsEngineFrame(q[j])
        BY <2>1 DEF LastEngine
      <3>2. CASE i = 1
        <4>1. engineStarted' = (k = "start")
          BY <1>2, <3>1, <3>2 DEF Switches, Kinds
        <4>2. \A j \in 1..Len(r) : j + 1 \in i + 1..Len(q)
          BY <1>1, <3>2
        <4>3. NoEngine(r, 1)
          BY <1>1, <3>1, <4>2 DEF NoEngine
        <4> QED
          BY <4>1, <4>3 DEF QueueEnds, r
      <3>3. CASE i # 1
        <4>1. i - 1 \in 1..Len(r) /\ (i - 1) + 1 = i
          BY <1>1, <3>3
        <4>2. \A j \in (i - 1) + 1..Len(r) : j \in 1..Len(r) /\ j + 1 \in i + 1..Len(q)
          BY <1>1, <3>3
        <4>3. LastEngine(r, 1, k)
          BY <1>1, <3>1, <4>1, <4>2 DEF LastEngine
        <4> QED
          BY <4>3 DEF QueueEnds, r
      <3> QED
        BY <3>2, <3>3
    <2>2. CASE NoEngine(q, 1) /\ engineStarted = (k = "start")
      BY <1>3, <1>4, <2>2 DEF QueueEnds, r
    <2> QED
      BY <1>5, <2>1, <2>2 DEF QueueEnds, q
  <1>6. ASSUME NEW k \in Kinds, EndsIn(k) PROVE EndsIn(k)'
    BY <1>0, <1>5, <1>6
       DEF EndsIn, LastAsked, NoneAsked, BlockEnds, LastEngine, NoEngine
  <1>7. spc' # "report" => ~IsEngineFrame(q[1])
    BY <1>2
  <1>8. Quiet' /\ spc' # "report" => Quiet
    <2>1. Quiet' => /\ NoEngine(r, 1) /\ NoneAsked
                    /\ NoEngine(block[line], pushed[line] + 1)
      BY <1>0 DEF Quiet, NoneAsked, NoEngine, r
    <2> QED
      BY <2>1, <1>4, <1>7 DEF Quiet, q
  <1> QED
    BY <1>0, <1>3, <1>6, <1>7, <1>8 DEF Carried

(* AddCmd is called with the next command of the page. *)
LEMMA ServeCarries ==
  ASSUME PageTypes, BlocksGone, uplink # <<>>, NEW commands,
         pc[line] = "ready", block \in [Callers -> Seq(Command)],
         block' = [block EXCEPT ![line] = commands], uplink' = Tail(uplink),
         UNCHANGED <<line, pushed, cmdQueue, engineStarted, spc>>,
         Head(uplink) \in Kinds => LastEngine(commands, 1, Head(uplink)),
         Head(uplink) \notin Kinds => NoEngine(commands, 1)
  PROVE  Carried
  <1> DEFINE u == uplink
             v == uplink'
  <1>0. /\ block[line] = <<>> /\ pushed[line] = 0 /\ block'[line] = commands
        /\ pushed'[line] + 1 = 1 /\ pushed[line] + 1 = 1
    BY DEF PageTypes, BlocksGone, Callers
  <1>1. /\ Len(u) \in Nat /\ Len(u) >= 1 /\ Len(v) = Len(u) - 1 /\ Head(u) = u[1]
        /\ \A j \in 1..Len(v) : v[j] = u[j + 1]
    BY DEF PageTypes
  <1> HIDE DEF u, v
  <1>2. NoEngine(block[line], 1) /\ \A k : ~LastEngine(block[line], 1, k)
    BY <1>0, PastTheEnd
  <1>3. NoneAsked <=> u[1] \notin Kinds /\ NoneAsked'
    <2>1. ASSUME NoneAsked PROVE u[1] \notin Kinds /\ NoneAsked'
      <3>1. 1 \in 1..Len(u) /\ \A j \in 1..Len(v) : j + 1 \in 1..Len(u)
        BY <1>1
      <3> QED
        BY <1>1, <2>1, <3>1 DEF NoneAsked, u, v
    <2>2. ASSUME u[1] \notin Kinds, NoneAsked' PROVE NoneAsked
      <3>1. \A j \in 1..Len(u) : j = 1 \/ (j - 1 \in 1..Len(v) /\ (j - 1) + 1 = j)
        BY <1>1
      <3> QED
        BY <1>1, <2>2, <3>1 DEF NoneAsked, u, v
    <2> QED
      BY <2>1, <2>2
  <1>4. ASSUME NEW k \in Kinds, LastAsked(k)
        PROVE  \/ LastAsked(k)'
               \/ NoneAsked' /\ u[1] = k
    <2>1. PICK i \in 1..Len(u) : /\ u[i] = k
                                 /\ \A j \in i + 1..Len(u) : u[j] \notin Kinds
      BY <1>4 DEF LastAsked, u
    <2>2. CASE i = 1
      <3>1. \A j \in 1..Len(v) : j + 1 \in i + 1..Len(u)
        BY <1>1, <2>2
      <3> QED
        BY <1>1, <2>1, <2>2, <3>1 DEF NoneAsked, v
    <2>3. CASE i # 1
      <3>1. i - 1 \in 1..Len(v) /\ (i - 1) + 1 = i
        BY <1>1, <2>3
      <3>2. \A j \in (i - 1) + 1..Len(v) : j \in 1..Len(v) /\ j + 1 \in i + 1..Len(u)
        BY <1>1, <2>3
      <3> QED
        BY <1>1, <2>1, <3>1, <3>2 DEF LastAsked, v
    <2> QED
      BY <2>2, <2>3
  <1>5. \A k : BlockEnds(k)' <=> \/ LastEngine(commands, 1, k)
                                 \/ NoEngine(commands, 1) /\ QueueEnds(k)
    BY <1>0 DEF BlockEnds, QueueEnds, LastEngine, NoEngine
  <1>6. \A k : BlockEnds(k) => QueueEnds(k)
    BY <1>0, <1>2 DEF BlockEnds
  <1>7. ASSUME NEW k \in Kinds, EndsIn(k) PROVE EndsIn(k)'
    <2>1. CASE LastAsked(k)
      <3>1. CASE LastAsked(k)'
        BY <3>1 DEF EndsIn
      <3>2. CASE NoneAsked' /\ u[1] = k
        <4>1. LastEngine(commands, 1, k)
          BY <1>1, <3>2 DEF u
        <4> QED
          BY <1>5, <3>2, <4>1 DEF EndsIn
      <3> QED
        BY <1>4, <2>1, <3>1, <3>2
    <2>2. CASE NoneAsked /\ BlockEnds(k)
      <3>1. NoEngine(commands, 1) /\ NoneAsked' /\ QueueEnds(k)
        BY <1>1, <1>3, <1>6, <2>2 DEF u
      <3> QED
        BY <1>5, <3>1 DEF EndsIn
    <2> QED
      BY <1>7, <2>1, <2>2 DEF EndsIn
  <1>8. Quiet' => Quiet
    <2>1. Quiet' => NoneAsked' /\ NoEngine(commands, 1) /\ NoEngine(cmdQueue, 1)
      BY <1>0 DEF Quiet, NoEngine
    <2>2. NoEngine(commands, 1) => Head(uplink) \notin Kinds
      <3>1. ASSUME NEW k, LastEngine(commands, 1, k) PROVE ~NoEngine(commands, 1)
        BY <3>1, SwitchIsEngine DEF LastEngine, NoEngine
      <3> QED
        BY <3>1
    <2> QED
      BY <1>0, <1>1, <1>2, <1>3, <2>1, <2>2 DEF Quiet, u
  <1> QED
    BY <1>7, <1>8 DEF Carried

(* AddCmd returns: its block was empty for the rest of the way.             *)
LEMMA ReleaseCarries ==
  ASSUME IInv, PageTypes, ReleaseQueue(line), UNCHANGED <<uplink, line>>
  PROVE  Carried
  <1> DEFINE s == block[line]
             n == pushed[line] + 1
  <1>0. /\ n = Len(s) + 1 /\ Len(s) \in Nat
        /\ block'[line] = <<>> /\ pushed'[line] + 1 = 1
        /\ UNCHANGED <<cmdQueue, uplink, line, engineStarted, spc>>
    BY DEF IInv, TypeOK, PageTypes, Callers, ReleaseQueue, senderVars
  <1>1. NoEngine(s, n) /\ \A k : ~LastEngine(s, n, k)
    BY <1>0, PastTheEnd
  <1>2. NoEngine(<<>>, 1) /\ \A k : ~LastEngine(<<>>, 1, k)
    BY PastTheEnd
  <1>3. /\ NoEngine(block[line], pushed[line] + 1)'
        /\ \A k : QueueEnds(k)' <=> QueueEnds(k)
        /\ \A k : LastAsked(k)' <=> LastAsked(k)
        /\ NoneAsked' <=> NoneAsked
        /\ NoEngine(cmdQueue, 1)' <=> NoEngine(cmdQueue, 1)
    BY <1>0, <1>2 DEF NoEngine, QueueEnds, LastAsked, NoneAsked, LastEngine
  <1>4. \A k : BlockEnds(k) => QueueEnds(k)
    BY <1>1 DEF BlockEnds
  <1>5. \A k : QueueEnds(k) => BlockEnds(k)'
    BY <1>3 DEF BlockEnds
  <1>6. \A k : EndsIn(k) => EndsIn(k)'
    BY <1>3, <1>4, <1>5 DEF EndsIn
  <1>7. Quiet' => Quiet
    BY <1>1, <1>3 DEF Quiet
  <1> QED
    BY <1>0, <1>6, <1>7 DEF Carried

(* The page sends a command: an engine command decides.                     *)
LEMMA SendDecides ==
  ASSUME PageTypes, NEW c, uplink' = Append(uplink, c)
  PROVE  /\ c \in Kinds => LastAsked(c)' /\ ~NoneAsked'
         /\ c \notin Kinds => /\ NoneAsked' <=> NoneAsked
                             /\ \A k : LastAsked(k) => LastAsked(k)'
  <1> DEFINE u == uplink
             v == uplink'
  <1>1. /\ Len(u) \in Nat /\ Len(v) = Len(u) + 1
        /\ v[Len(u) + 1] = c /\ \A j \in 1..Len(u) : v[j] = u[j]
    BY DEF PageTypes
  <1> HIDE DEF u, v
  <1>2. /\ Len(u) + 1 \in 1..Len(v) /\ (Len(u) + 1) + 1..Len(v) = {}
        /\ \A j \in 1..Len(v) : j \in 1..Len(u) \/ j = Len(u) + 1
        /\ \A j \in 1..Len(u) : j \in 1..Len(v)
    BY <1>1
  <1>3. ASSUME c \in Kinds PROVE LastAsked(c)' /\ ~NoneAsked'
    BY <1>1, <1>2, <1>3 DEF LastAsked, NoneAsked, v
  <1>4. ASSUME c \notin Kinds PROVE NoneAsked' <=> NoneAsked
    BY <1>1, <1>2, <1>4 DEF NoneAsked, u, v
  <1>5. ASSUME c \notin Kinds, NEW k, LastAsked(k) PROVE LastAsked(k)'
    <2>1. PICK i \in 1..Len(u) : /\ u[i] = k
                                 /\ \A j \in i + 1..Len(u) : u[j] \notin Kinds
      BY <1>5 DEF LastAsked, u
    <2>2. i \in 1..Len(v) /\ v[i] = k
      BY <1>1, <1>2, <2>1
    <2>3. ASSUME NEW j \in i + 1..Len(v) PROVE v[j] \notin Kinds
      <3>1. CASE j = Len(u) + 1
        BY <1>1, <1>5, <3>1
      <3>2. CASE j # Len(u) + 1
        <4>1. j \in i + 1..Len(u) /\ j \in 1..Len(u)
          BY <1>1, <3>2
        <4> QED
          BY <1>1, <2>1, <4>1
      <3> QED
        BY <3>1, <3>2
    <2> QED
      BY <2>2, <2>3 DEF LastAsked, v
  <1> QED
    BY <1>3, <1>4, <1>5

(* What the page believes and shows stays right while commands are carried. *)
LEMMA CarriedInv ==
  ASSUME Believes, LatestTrue, Foretells, Carried,
         UNCHANGED <<engineState, picture, warmupTimer, downlink>>
  PROVE  Believes' /\ LatestTrue' /\ Foretells'
  <1>1. Believes'
    BY DEF Believes, Carried, Status
  <1>2. LatestTrue'
    BY DEF LatestTrue, Carried, Status
  <1>3. Foretells'
    BY DEF Foretells, Shows, Carried
  <1> QED
    BY <1>1, <1>2, <1>3

-----------------------------------------------------------------------------
(* The invariant holds initially. *)
LEMMA InitTInv == TankInit => TInv
  <1> SUFFICES ASSUME TankInit PROVE TInv
    OBVIOUS
  <1>1. IInv
    BY InitIInv DEF TankInit
  <1>2. PageTypes
    <2>1. <<>> \in Seq(ClientCodes \cup Kinds) /\ <<>> \in Seq(Kinds)
      OBVIOUS
    <2> QED
      BY <2>1 DEF TankInit, UI!Init, PageTypes
  <1>3. BlocksGone
    BY DEF TankInit, Init, BlocksGone
  <1>4. OneLine
    BY <1>2 DEF TankInit, Init, UI!Init, OneLine, PageTypes, Callers
  <1>5. Believes /\ LatestTrue
    BY DEF TankInit, Init, UI!Init, Believes, LatestTrue, Status
  <1>6. Foretells
    <2>1. NoEngine(<<>>, 1)
      BY PastTheEnd
    <2>2. NoneAsked
      BY DEF TankInit, UI!Init, NoneAsked
    <2>3. line \in Callers
      BY <1>2 DEF PageTypes, Callers
    <2>4. block[line] = <<>> /\ pushed[line] + 1 = 1 /\ cmdQueue = <<>>
          /\ engineStarted = FALSE
      BY <2>3 DEF TankInit, Init
    <2>5. EndsIn("stop")
      BY <2>1, <2>2, <2>4 DEF EndsIn, BlockEnds, QueueEnds
    <2>6. \A k \in Kinds : Shows(k) => k = "stop"
      BY DEF TankInit, UI!Init, Shows, Kinds
    <2> QED
      BY <2>5, <2>6 DEF Foretells
  <1> QED
    BY <1>1, <1>2, <1>3, <1>4, <1>5, <1>6 DEF TInv

-----------------------------------------------------------------------------
(* Every step preserves it. *)

(* Steps of the page: clicks, messages, timers, and all that is lost with a *)
(* connection.                                                              *)
LEMMA PageTInv == ASSUME TInv, PageStep PROVE TInv'
  <1>0. /\ PageTypes /\ BlocksGone /\ IInv
        /\ UNCHANGED <<vars, line>>
        /\ UNCHANGED <<pc, block, pushed, cmdQueue, engineStarted, spc>>
    BY DEF TInv, PageStep, vars
  <1>1. IInv'
    BY <1>0, StepIInv
  <1>2. BlocksGone'
    BY <1>0 DEF BlocksGone
  <1> DEFINE Right == OneLine /\ Believes /\ LatestTrue /\ Foretells
  <1>3. ASSUME NEW c \in ClientCodes \cup Kinds, UI!SendCmd(c)
        PROVE  /\ uplink' \in Seq(ClientCodes \cup Kinds)
               /\ lost' \in BOOLEAN /\ UNCHANGED <<pageSocket, downlink>>
               /\ ~lost' => /\ ~lost /\ pageSocket = "open"
                            /\ uplink' = Append(uplink, c) /\ OneLine'
    <2>1. /\ uplink' = IF pageSocket = "open" THEN Append(uplink, c) ELSE uplink
          /\ lost' = (lost \/ pageSocket # "open")
          /\ UNCHANGED <<pageSocket, downlink>>
      BY <1>3 DEF UI!SendCmd
    <2>2. uplink' \in Seq(ClientCodes \cup Kinds)
      BY <1>0, <2>1 DEF PageTypes
    <2>3. lost' \in BOOLEAN
      BY <2>1
    <2>4. ~lost' => ~lost /\ pageSocket = "open"
      BY <1>0, <2>1 DEF PageTypes
    <2>5. ~lost /\ pageSocket = "open" => OneLine'
      BY <1>0, <2>1 DEF TInv, OneLine
    <2> QED
      BY <2>1, <2>2, <2>3, <2>4, <2>5
  <1>4. CASE UI!ClickStart
    <2>1. PICK asked \in Kinds : /\ UI!SendCmd(asked)
                                 /\ warmupTimer' = asked
      BY <1>4 DEF UI!ClickStart, Kinds
    <2>2. engineState' = "warmup" /\ picture' = "pressed"
      BY <1>4 DEF UI!ClickStart
    <2>3. PageTypes'
      BY <1>0, <1>3, <2>1, <2>2 DEF PageTypes
    <2>4. ASSUME ~lost' PROVE Right'
      <3>1. LastAsked(asked)' /\ ~NoneAsked' /\ OneLine' /\ ~lost /\ downlink' = downlink
        BY <1>0, <1>3, <2>1, <2>4, SendDecides
      <3>2. Believes'
        BY <3>1 DEF Believes, Quiet
      <3>3. LatestTrue'
        BY <1>0, <3>1 DEF TInv, LatestTrue, Status
      <3>4. \A k \in Kinds : Shows(k)' => k = asked
        BY <2>1, <2>2 DEF Shows, Kinds
      <3>5. Foretells'
        BY <3>1, <3>4 DEF Foretells, EndsIn
      <3> QED
        BY <3>1, <3>2, <3>3, <3>5
    <2> QED
      BY <1>1, <1>2, <2>3, <2>4 DEF TInv
  <1>5. CASE UI!ClickEmergency
    <2>0. "stop" \in Kinds
      BY DEF Kinds
    <2>1. UI!SendCmd("stop") /\ engineState' = "stop" /\ picture' = "off"
          /\ warmupTimer' = "none"
      BY <1>5 DEF UI!ClickEmergency
    <2>2. PageTypes'
      BY <1>0, <1>3, <2>0, <2>1 DEF PageTypes
    <2>3. ASSUME ~lost' PROVE Right'
      <3>1. LastAsked("stop")' /\ ~NoneAsked' /\ OneLine' /\ ~lost /\ downlink' = downlink
        BY <1>0, <1>3, <2>0, <2>1, <2>3, SendDecides
      <3>2. Believes'
        BY <3>1 DEF Believes, Quiet
      <3>3. LatestTrue'
        BY <1>0, <3>1 DEF TInv, LatestTrue, Status
      <3>4. \A k \in Kinds : Shows(k)' => k = "stop"
        BY <2>1 DEF Shows, Kinds
      <3>5. Foretells'
        BY <3>1, <3>4 DEF Foretells, EndsIn
      <3> QED
        BY <3>1, <3>2, <3>3, <3>5
    <2> QED
      BY <1>1, <1>2, <2>2, <2>3 DEF TInv
  <1>6. CASE UI!Drive
    <2>1. PICK c \in ClientCodes : UI!SendCmd(c)
      BY <1>6 DEF UI!Drive
    <2>2. UNCHANGED <<engineState, picture, warmupTimer>>
      BY <1>6 DEF UI!Drive, UI!panelVars
    <2>3. c \notin Kinds
      BY ClicksAssumption DEF Kinds
    <2>4. PageTypes'
      BY <1>0, <1>3, <2>1, <2>2 DEF PageTypes
    <2>5. ASSUME ~lost' PROVE Right'
      <3>1. uplink' = Append(uplink, c) /\ OneLine' /\ ~lost /\ downlink' = downlink
        BY <1>3, <2>1, <2>5
      <3>2. /\ NoneAsked' <=> NoneAsked
            /\ \A k : LastAsked(k) => LastAsked(k)'
        BY <1>0, <2>3, <3>1, SendDecides
      <3>3. /\ \A k : BlockEnds(k)' <=> BlockEnds(k)
            /\ Quiet' => Quiet
        BY <1>0, <3>2 DEF BlockEnds, QueueEnds, LastEngine, NoEngine, Quiet
      <3>4. Carried
        BY <1>0, <3>2, <3>3 DEF Carried, EndsIn
      <3> QED
        BY <2>2, <3>1, <3>4, CarriedInv DEF TInv
    <2> QED
      BY <1>1, <1>2, <2>4, <2>5 DEF TInv
  <1>7. CASE UI!RequestCmd
    <2>1. /\ downlink # <<>> /\ engineState' = Head(downlink)
          /\ downlink' = Tail(downlink)
          /\ UNCHANGED <<picture, warmupTimer, pageSocket, uplink, lost>>
      BY <1>7 DEF UI!RequestCmd
    <2> DEFINE d == downlink
               e == downlink'
    <2>2. /\ d \in Seq(Kinds) /\ Len(d) \in Nat /\ Len(d) >= 1
          /\ Head(d) = d[1] /\ Head(d) \in Kinds /\ e \in Seq(Kinds)
          /\ Len(e) = Len(d) - 1 /\ \A j \in 1..Len(e) : e[j] = d[j + 1]
      BY <1>0, <2>1 DEF PageTypes
    <2>3. PageTypes'
      BY <1>0, <2>1, <2>2 DEF PageTypes, Kinds
    <2>4. ASSUME ~lost' PROVE Right'
      <3>1. OneLine'
        BY <1>0, <2>1, <2>4 DEF TInv, OneLine
      <3>2. (\A k : EndsIn(k) => EndsIn(k)') /\ (Quiet' => Quiet)
        BY <1>0, <2>1, SameWay
      <3>3. spc # "report" => d[Len(d)] = Status(engineStarted)
        BY <2>1, <2>4 DEF TInv, LatestTrue
      <3>4. Believes'
        <4>1. e = <<>> => Len(d) = 1
          BY <2>2
        <4> QED
          BY <1>0, <2>1, <2>2, <3>3, <4>1 DEF Believes, Status
      <3>5. LatestTrue'
        <4>1. e # <<>> => Len(e) \in 1..Len(e) /\ Len(e) + 1 = Len(d)
          BY <2>2
        <4>2. e # <<>> => e[Len(e)] = d[Len(d)]
          BY <2>2, <4>1
        <4> QED
          BY <1>0, <3>3, <4>2 DEF LatestTrue, Status
      <3>6. Foretells'
        BY <2>1, <2>4, <3>2 DEF TInv, Foretells, Shows
      <3> QED
        BY <3>1, <3>4, <3>5, <3>6
    <2> QED
      BY <1>1, <1>2, <2>3, <2>4 DEF TInv
  <1>8. CASE UI!Repaint \/ UI!TimerFires
    <2>1. UNCHANGED <<engineState, pageSocket, uplink, downlink, lost>>
      BY <1>8 DEF UI!Repaint, UI!TimerFires, UI!netVars
    <2>2. PageTypes'
      BY <1>0, <1>8, <2>1 DEF PageTypes, UI!Repaint, UI!TimerFires
    <2>3. \A k \in Kinds : Shows(k)' => Shows(k)
      <3>1. CASE UI!Repaint
        BY <3>1 DEF UI!Repaint, Shows, Kinds
      <3>2. CASE UI!TimerFires
        BY <1>0, <3>2 DEF UI!TimerFires, Shows, Kinds, PageTypes
      <3> QED
        BY <1>8, <3>1, <3>2
    <2>4. ASSUME ~lost' PROVE Right'
      <3>1. OneLine'
        BY <1>0, <2>1, <2>4 DEF TInv, OneLine
      <3>2. (\A k : EndsIn(k) => EndsIn(k)') /\ (Quiet' => Quiet)
        BY <1>0, <2>1, SameWay
      <3>3. Believes' /\ LatestTrue'
        BY <1>0, <2>1, <2>4, <3>2 DEF TInv, Believes, LatestTrue, Status
      <3>4. Foretells'
        BY <2>1, <2>3, <2>4, <3>2 DEF TInv, Foretells
      <3> QED
        BY <3>1, <3>3, <3>4
    <2> QED
      BY <1>1, <1>2, <2>2, <2>4 DEF TInv
  <1>9. CASE UI!Disconnect \/ UI!Reload
    <2>1. /\ lost' = TRUE /\ uplink' = <<>> /\ downlink' = <<>>
          /\ pageSocket' \in {"connecting", "closed"}
      BY <1>9 DEF UI!Disconnect, UI!Reload
    <2>2. /\ engineState' \in {"stop", "warmup", "start"}
          /\ picture' \in {"off", "pressed", "warmup", "on"}
          /\ warmupTimer' \in Kinds \cup {"none"}
      BY <1>0, <1>9 DEF UI!Disconnect, UI!Reload, UI!panelVars, PageTypes
    <2>3. <<>> \in Seq(ClientCodes \cup Kinds) /\ <<>> \in Seq(Kinds)
      OBVIOUS
    <2>4. PageTypes'
      BY <1>0, <2>1, <2>2, <2>3 DEF PageTypes
    <2> QED
      BY <1>1, <1>2, <2>1, <2>4 DEF TInv
  <1> QED
    BY <1>4, <1>5, <1>6, <1>7, <1>8, <1>9 DEF PageStep, UI!Click, UI!Page

(* The page is connected: no thread is in a call, so it matters little      *)
(* which one serves the connection.                                         *)
LEMMA ConnectTInv == ASSUME TInv, Connect PROVE TInv'
  <1>0. /\ PageTypes /\ BlocksGone /\ IInv
        /\ UNCHANGED <<pc, block, pushed, cmdQueue, engineStarted, spc>>
        /\ UNCHANGED <<engineState, picture, warmupTimer, uplink, downlink, lost>>
        /\ pageSocket = "connecting" /\ pageSocket' = "open"
        /\ line' \in Connections
    BY DEF TInv, Connect, UI!Open, UI!panelVars, vars
  <1>1. IInv'
    BY StepIInv DEF TInv, Connect
  <1>2. PageTypes' /\ BlocksGone'
    BY <1>0 DEF PageTypes, BlocksGone
  <1>3. ASSUME ~lost' PROVE OneLine' /\ Believes' /\ LatestTrue' /\ Foretells'
    <2>1. OneLine /\ Believes /\ LatestTrue /\ Foretells
      BY <1>0, <1>3 DEF TInv
    <2>2. \A c \in Callers : pc[c] = "ready"
      BY <1>0, <2>1 DEF OneLine
    <2>3. OneLine'
      BY <1>0, <2>2 DEF OneLine
    <2>4. line \in Callers /\ line' \in Callers
      BY <1>0 DEF PageTypes, Callers
    <2>5. /\ block[line] = <<>> /\ pushed[line] + 1 = 1
          /\ block[line'] = <<>> /\ pushed[line'] + 1 = 1
      BY <1>0, <2>2, <2>4 DEF BlocksGone
    <2>6. /\ \A k : BlockEnds(k)' <=> BlockEnds(k)
          /\ \A k : LastAsked(k)' <=> LastAsked(k)
          /\ NoneAsked' <=> NoneAsked
          /\ Quiet' <=> Quiet
      BY <1>0, <2>5 DEF BlockEnds, QueueEnds, LastEngine, NoEngine, LastAsked,
                        NoneAsked, Quiet
    <2>7. Carried
      BY <1>0, <2>6 DEF Carried, EndsIn
    <2> QED
      BY <1>0, <2>1, <2>3, <2>7, CarriedInv
  <1> QED
    BY <1>1, <1>2, <1>3 DEF TInv

(* The connection's thread calls StartEngine, StopEngine or AddCmd. *)
LEMMA ServeTInv == ASSUME TInv, Serve PROVE TInv'
  <1>0. /\ PageTypes /\ BlocksGone /\ IInv /\ line \in Callers
        /\ uplink # <<>> /\ uplink' = Tail(uplink)
        /\ UNCHANGED <<engineState, picture, warmupTimer, pageSocket, downlink, lost,
                       line>>
    BY DEF TInv, Serve, PageTypes, Callers
  <1>1. PICK what \in {"add", "start", "stop"}, commands \in Seq(Command) :
           /\ Ask(line, what, commands)
           /\ Head(uplink) \in Kinds => LastEngine(commands, 1, Head(uplink))
           /\ Head(uplink) \notin Kinds => NoEngine(commands, 1)
    <2>1. CASE Head(uplink) = "start"
      BY <2>1, BlocksType, BlocksEnd DEF Serve, StartEngine, Kinds
    <2>2. CASE Head(uplink) = "stop"
      BY <2>2, BlocksType, BlocksEnd DEF Serve, StopEngine, Kinds
    <2>3. CASE Head(uplink) \notin Kinds
      <3>1. Ask(line, "add", <<External(Head(uplink), now)>>)
        BY <2>3 DEF Serve, Kinds
      <3>2. Head(uplink) \in ClientCodes
        BY <1>0, <2>3 DEF PageTypes
      <3>3. External(Head(uplink), now) \in Command
        BY <1>0, <3>2, ExternalType DEF IInv, TypeOK
      <3>4. \A c \in Command : Len(<<c>>) = 1 /\ <<c>>[1] = c /\ <<c>> \in Seq(Command)
        OBVIOUS
      <3>5. ~IsEngineFrame(External(Head(uplink), now))
        BY DEF External, IsEngineFrame
      <3>6. NoEngine(<<External(Head(uplink), now)>>, 1)
        BY <3>3, <3>4, <3>5 DEF NoEngine
      <3> QED
        BY <2>3, <3>1, <3>3, <3>4, <3>6
    <2> QED
      BY <2>1, <2>2, <2>3 DEF Kinds
  <1>2. IInv'
    BY <1>0, <1>1, AskIInv
  <1>3. /\ pc[line] = "ready" /\ block' = [block EXCEPT ![line] = commands]
        /\ pc' = [pc EXCEPT ![line] = "lock"]
        /\ UNCHANGED <<pushed, cmdQueue, engineStarted, spc>>
    BY <1>1 DEF Ask, senderVars, queueVars
  <1>4. /\ block \in [Callers -> Seq(Command)]
        /\ pc \in [Callers -> {"ready", "lock", "push", "wait", "kill"}]
    BY <1>0 DEF IInv, TypeOK
  <1>5. PageTypes'
    <2>1. uplink' \in Seq(ClientCodes \cup Kinds)
      BY <1>0 DEF PageTypes
    <2> QED
      BY <1>0, <2>1 DEF PageTypes
  <1>6. BlocksGone'
    BY <1>0, <1>3, <1>4 DEF BlocksGone
  <1>7. ASSUME ~lost' PROVE OneLine' /\ Believes' /\ LatestTrue' /\ Foretells'
    <2>1. OneLine /\ Believes /\ LatestTrue /\ Foretells
      BY <1>0, <1>7 DEF TInv
    <2>2. OneLine'
      BY <1>0, <1>3, <1>4, <2>1 DEF OneLine
    <2>3. Carried
      BY <1>0, <1>1, <1>3, <1>4, ServeCarries
    <2> QED
      BY <1>0, <2>1, <2>2, <2>3, CarriedInv
  <1> QED
    BY <1>2, <1>5, <1>6, <1>7 DEF TInv

(* CommandSender tells the page. *)
LEMMA ReportTInv == ASSUME TInv, ReportToPage PROVE TInv'
  <1>0. /\ PageTypes /\ BlocksGone /\ IInv
        /\ UNCHANGED <<pc, block, pushed, cmdQueue, engineStarted>>
        /\ UNCHANGED <<engineState, picture, warmupTimer, pageSocket, uplink, line>>
        /\ status' = Status(engineStarted) /\ spc' = "unlock"
        /\ downlink' = IF pageSocket = "open" THEN Append(downlink, status') ELSE downlink
        /\ lost' = (lost \/ pageSocket # "open")
    BY DEF TInv, ReportToPage, Report, Status, callerVars, queueVars
  <1>1. IInv'
    BY <1>0, SenderIInv DEF ReportToPage, SenderStep
  <1>2. BlocksGone'
    BY <1>0 DEF BlocksGone
  <1>3. PageTypes'
    <2>1. status' \in Kinds
      BY <1>0 DEF Status, Kinds
    <2>2. downlink' \in Seq(Kinds)
      BY <1>0, <2>1 DEF PageTypes
    <2>3. lost' \in BOOLEAN
      BY <1>0
    <2> QED
      BY <1>0, <2>2, <2>3 DEF PageTypes
  <1>4. ASSUME ~lost' PROVE OneLine' /\ Believes' /\ LatestTrue' /\ Foretells'
    <2>1. ~lost /\ pageSocket = "open" /\ downlink' = Append(downlink, status')
      BY <1>0, <1>4 DEF PageTypes
    <2>2. OneLine'
      BY <1>0, <2>1 DEF TInv, OneLine
    <2>3. downlink' # <<>> /\ downlink'[Len(downlink')] = status'
      BY <1>0, <2>1 DEF PageTypes
    <2>4. Believes' /\ LatestTrue'
      BY <1>0, <2>3 DEF Believes, LatestTrue, Status
    <2>5. \A k : EndsIn(k) => EndsIn(k)'
      BY <1>0, SameWay
    <2>6. Foretells'
      BY <1>0, <2>1, <2>5 DEF TInv, Foretells, Shows
    <2> QED
      BY <2>2, <2>4, <2>6
  <1> QED
    BY <1>1, <1>2, <1>3, <1>4 DEF TInv

(* The other steps of CommandSender. *)
LEMMA SilentTInv ==
  ASSUME TInv, SilentStep, UNCHANGED <<uiVars, line>> PROVE TInv'
  <1>0. /\ PageTypes /\ BlocksGone /\ IInv
        /\ UNCHANGED <<pc, block, pushed>>
        /\ UNCHANGED <<engineState, picture, warmupTimer, pageSocket, uplink, downlink,
                       lost, line>>
    BY DEF TInv, uiVars, callerVars, SilentStep, Check, PeekNonEmpty, PeekEmpty,
           AcquireToPop, Pop, ReleaseAfterPop, SendCode
  <1>1. IInv'
    BY <1>0, SenderIInv DEF SilentStep, SenderStep
  <1>2. PageTypes' /\ BlocksGone'
    BY <1>0 DEF PageTypes, BlocksGone
  <1>3. Carried
    <2>1. CASE Pop
      BY <1>0, <2>1, PopCarries
    <2>2. CASE ~Pop
      <3>1. /\ UNCHANGED <<cmdQueue, engineStarted>>
            /\ spc # "report"
        BY <2>2 DEF SilentStep, Check, PeekNonEmpty, PeekEmpty, AcquireToPop,
                    ReleaseAfterPop, SendCode, queueVars
      <3> QED
        BY <1>0, <3>1, SameWay DEF Carried
    <2> QED
      BY <2>1, <2>2
  <1>4. ~lost' => OneLine'
    BY <1>0 DEF TInv, OneLine
  <1> QED
    BY <1>0, <1>1, <1>2, <1>3, <1>4, CarriedInv DEF TInv

(* A step of a caller; as long as nothing is lost, of the page's thread.    *)
LEMMA CallerTInv ==
  ASSUME TInv, NEW c \in Connections, CallerStep(c), UNCHANGED <<uiVars, line>>
  PROVE  TInv'
  <1>0. /\ PageTypes /\ BlocksGone /\ IInv /\ c \in Callers
        /\ UNCHANGED <<engineState, picture, warmupTimer, pageSocket, uplink, downlink,
                       lost, line>>
    BY DEF TInv, uiVars, Callers
  <1>1. IInv'
    BY <1>0, CallerIInv
  <1>2. PageTypes'
    BY <1>0 DEF PageTypes
  <1>3. /\ block \in [Callers -> Seq(Command)] /\ pushed \in [Callers -> Nat]
        /\ pc \in [Callers -> {"ready", "lock", "push", "wait", "kill"}]
    BY <1>0 DEF IInv, TypeOK
  <1>4. BlocksGone'
    <2>1. CASE AcquireQueue(c)
      BY <1>0, <1>3, <2>1 DEF BlocksGone, AcquireQueue
    <2>2. CASE Push(c)
      BY <1>0, <1>3, <2>2 DEF BlocksGone, Push, Pushing
    <2>3. CASE ReleaseQueue(c)
      BY <1>0, <1>3, <2>3 DEF BlocksGone, ReleaseQueue
    <2>4. CASE Return(c)
      BY <1>0, <1>3, <2>4 DEF BlocksGone, Return, SeesEngine
    <2> QED
      BY <2>1, <2>2, <2>3, <2>4 DEF CallerStep
  <1>5. ASSUME ~lost' PROVE OneLine' /\ Believes' /\ LatestTrue' /\ Foretells'
    <2>1. OneLine /\ Believes /\ LatestTrue /\ Foretells
      BY <1>0, <1>5 DEF TInv
    <2>2. pc[c] # "ready"
      BY DEF CallerStep, AcquireQueue, Push, Pushing, ReleaseQueue, Return, SeesEngine
    <2>3. c = line /\ pageSocket = "open"
      BY <1>0, <2>1, <2>2 DEF OneLine
    <2>4. \A d \in Callers : d # c => pc'[d] = pc[d]
      BY <1>0, <1>3 DEF CallerStep, AcquireQueue, Push, ReleaseQueue, Return
    <2>5. OneLine'
      BY <1>0, <2>1, <2>3, <2>4 DEF OneLine
    <2>6. Carried
      <3>1. CASE Push(c)
        BY <1>0, <2>3, <3>1, PushCarries
      <3>2. CASE ReleaseQueue(c)
        BY <1>0, <2>3, <3>2, ReleaseCarries
      <3>3. CASE AcquireQueue(c) \/ Return(c)
        <4>1. UNCHANGED <<block, pushed, cmdQueue, engineStarted, spc>>
          BY <3>3 DEF AcquireQueue, Return, senderVars, queueVars
        <4> QED
          BY <1>0, <4>1, SameWay DEF Carried
      <3> QED
        BY <3>1, <3>2, <3>3 DEF CallerStep
    <2> QED
      BY <1>0, <2>1, <2>5, <2>6, CarriedInv
  <1> QED
    BY <1>1, <1>2, <1>4, <1>5 DEF TInv

(* Where nothing changes, the invariant stays. *)
LEMMA StayTInv == ASSUME TInv, UNCHANGED tankVars PROVE TInv'
  <1>0. /\ UNCHANGED <<pc, block, pushed, cmdQueue, engineStarted, spc>>
        /\ UNCHANGED <<engineState, picture, warmupTimer, pageSocket, uplink, downlink,
                       lost, line>>
    BY DEF tankVars, vars, uiVars
  <1>1. IInv'
    BY StepIInv DEF TInv, tankVars
  <1>2. PageTypes' /\ BlocksGone'
    BY <1>0 DEF TInv, PageTypes, BlocksGone
  <1>3. Carried
    BY <1>0, SameWay DEF Carried
  <1>4. ~lost' => OneLine'
    BY <1>0 DEF TInv, OneLine
  <1> QED
    BY <1>0, <1>1, <1>2, <1>3, <1>4, CarriedInv DEF TInv

LEMMA StepTInv == TInv /\ [TankNext]_tankVars => TInv'
  <1> SUFFICES ASSUME TInv, [TankNext]_tankVars PROVE TInv'
    OBVIOUS
  <1>1. CASE Stay /\ UNCHANGED <<uiVars, line>>
    <2>1. UNCHANGED tankVars
      BY <1>1 DEF Stay, tankVars
    <2> QED
      BY <2>1, StayTInv
  <1>2. ASSUME NEW c \in Connections, CallerStep(c), UNCHANGED <<uiVars, line>>
        PROVE  TInv'
    BY <1>2, CallerTInv
  <1> QED
    BY <1>1, <1>2, PageTInv, ConnectTInv, ServeTInv, ReportTInv, SilentTInv, StayTInv
       DEF TankNext

-----------------------------------------------------------------------------
LEMMA TankInvariance == TankSpec => []TInv
  <1> QED
    BY InitTInv, StepTInv, PTL DEF TankSpec

(* The messages of the page and the Controller are what each side expects.  *)
THEOREM TankTypes == TankSpec => [](TypeOK /\ PageTypes)
  <1>1. TInv => TypeOK /\ PageTypes
    BY DEF TInv, IInv
  <1> QED
    BY <1>1, TankInvariance, PTL

(* At rest, no engine command is on its way. *)
LEMMA RestIsQuiet ==
  ASSUME TInv, AtRest
  PROVE  /\ NoneAsked /\ NoEngine(block[line], pushed[line] + 1)
         /\ NoEngine(cmdQueue, 1)
         /\ \A k : EndsIn(k) => engineStarted = (k = "start")
  <1>1. line \in Callers /\ line \in Connections
    BY DEF TInv, PageTypes, Callers
  <1>2. block[line] = <<>> /\ pushed[line] + 1 = 1
    BY <1>1 DEF TInv, AtRest, BlocksGone
  <1>3. NoEngine(<<>>, 1) /\ \A k : ~LastEngine(<<>>, 1, k)
    BY PastTheEnd
  <1>4. NoneAsked /\ \A k : ~LastAsked(k)
    BY DEF AtRest, NoneAsked, LastAsked
  <1> QED
    BY <1>2, <1>3, <1>4 DEF AtRest, EndsIn, BlockEnds, QueueEnds

(* When nothing is under way and nothing was lost, the page believes what   *)
(* CommandSender holds, whatever was clicked in which state and however     *)
(* many status messages came late (RequestCmd, SendMsg).                    *)
THEOREM PageComesToAgree == TankSpec => []PageAgrees
  <1>1. TInv => PageAgrees
    BY RestIsQuiet DEF TInv, PageAgrees, AtRest, Believes, Quiet, Status
  <1> QED
    BY <1>1, TankInvariance, PTL

(* Under the same conditions a button that shows "on" or "off" tells the    *)
(* truth, also after an emergency stop, and also while the interval timer   *)
(* still waits (startbt and emergencybt of the page).                        *)
THEOREM ButtonIsTrue == TankSpec => []ButtonTellsTruth
  <1>1. ASSUME TInv PROVE ButtonTellsTruth
    <2> SUFFICES ASSUME AtRest, ~lost
                 PROVE  /\ picture = "on" => engineStarted
                        /\ picture = "off" => ~engineStarted
      BY DEF ButtonTellsTruth
    <2>1. \A k \in Kinds : Shows(k) => engineStarted = (k = "start")
      BY <1>1, RestIsQuiet DEF TInv, Foretells
    <2> QED
      BY <2>1 DEF Shows, Kinds
  <1> QED
    BY <1>1, TankInvariance, PTL
==============================================================================
