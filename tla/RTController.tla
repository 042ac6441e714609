----------------------------- MODULE RTController -----------------------------
(***************************************************************************)
(* The older control program (src/RTController/RTController.c): main sends *)
(* a frame for whatever userCommand says, for ever; the handlers of the    *)
(* HTTP server write userCommand for their clients. The sensors' thread    *)
(* shares nothing with them, and no thread of launch_autonomy is started.  *)
(***************************************************************************)
EXTENDS Naturals, FiniteSets

CONSTANTS
    Main,           \* the thread of main
    Handlers,       \* the threads of the HTTP server
    Commands,       \* the nine bytes that strncpy makes of a client's command
    Garbage,        \* what memory may hold that malloc returns
    NIdle, NIgnition, NWait,    \* the frames that start the tank
    MaxSets         \* bound: commands set

Keys == 0..7                    \* a character for each movement or weapon
Flag == 8                       \* and one that asks for autonomy
Places == 0..9                  \* the bytes of a command
Bytes == {"0", "1", "nul"}      \* "0" stands for all that is not "1" or NUL
Buffers == [Places -> Bytes]
Free == "free"

(* What the constants are. *)
ConstantsFit ==
    /\ Main \notin Handlers
    /\ Free \notin Handlers \cup {Main}
    /\ Commands # {} /\ Commands \subseteq [0..Flag -> Bytes]
    /\ Garbage \subseteq Buffers
    /\ {NIdle, NIgnition, NWait} \subseteq Nat \ {0}
    /\ MaxSets \in Nat

VARIABLES
    userCommand, autonomyCommand, copiedCommand,
    userCommandMutex,   \* the thread that holds it, or Free
    pc,                 \* where main is
    copied,             \* how many bytes it has copied
    started,            \* frames of the start-up it has sent
    hpc,                \* where each handler is
    tempCommand,        \* the command of its request
    written,            \* how many bytes of it are written
    air,                \* the last frame sent
    lastSet,            \* history: what userCommand was when last unlocked
    current,            \* history: what it was since main last sent a frame
    sets                \* commands set so far

mainVars == <<copiedCommand, pc, copied, started, air>>
handlerVars == <<hpc, tempCommand, written, sets>>
historyVars == <<lastSet, current>>
vars == <<userCommand, autonomyCommand, userCommandMutex, historyVars,
          mainVars, handlerVars>>

(* The three buffers are not initialised by the code.                       *)
Init == /\ userCommand \in Garbage
        /\ autonomyCommand \in Garbage
        /\ copiedCommand \in Garbage
        /\ userCommandMutex = Free
        /\ pc = "start"
        /\ copied = 0
        /\ started = 0
        /\ hpc = [h \in Handlers |-> "idle"]
        /\ tempCommand = [h \in Handlers |-> CHOOSE c \in Commands : TRUE]
        /\ written = [h \in Handlers |-> 0]
        /\ air = "none"
        /\ lastSet = userCommand
        /\ current = {userCommand}
        /\ sets = 0

-----------------------------------------------------------------------------
(* The handlers. *)

(* Variant: the mutex excludes nobody. *)
NoExclusion == TRUE

MutexIsFree == userCommandMutex = Free

(* main has launched the server, and the program runs. *)
Serving == pc \notin {"start", "crashed"}

(* A request "set..." arrives. *)
Request(h) == /\ Serving
              /\ hpc[h] = "idle"
              /\ sets < MaxSets
              /\ sets' = sets + 1
              /\ hpc' = [hpc EXCEPT ![h] = "lock"]
              /\ \E c \in Commands : tempCommand' = [tempCommand EXCEPT ![h] = c]
              /\ UNCHANGED <<userCommand, autonomyCommand, userCommandMutex,
                             written, historyVars, mainVars>>

(* A request without a query: strncpy reads from NULL, and the program ends.*)
RequestNothing(h) == /\ Serving
                     /\ hpc[h] = "idle"
                     /\ pc' = "crashed"
                     /\ UNCHANGED <<userCommand, autonomyCommand,
                                    userCommandMutex, copiedCommand, copied,
                                    started, air, historyVars, handlerVars>>

LockToWrite(h) == /\ Serving
                  /\ hpc[h] = "lock"
                  /\ MutexIsFree
                  /\ userCommandMutex' = h
                  /\ hpc' = [hpc EXCEPT ![h] = "write"]
                  /\ UNCHANGED <<userCommand, autonomyCommand, tempCommand,
                                 written, sets, historyVars, mainVars>>

(* strncpy of nine characters; the tenth byte is never written.             *)
Write(h) == /\ Serving
            /\ hpc[h] = "write"
            /\ written[h] <= Flag
            /\ userCommand' =
                  [userCommand EXCEPT ![written[h]] = tempCommand[h][written[h]]]
            /\ written' = [written EXCEPT ![h] = @ + 1]
            /\ UNCHANGED <<autonomyCommand, userCommandMutex, hpc, tempCommand,
                           sets, historyVars, mainVars>>

Written(h) == Serving /\ hpc[h] = "write" /\ written[h] = Flag + 1

(* The mutex is released, and the client answered.                          *)
Answer(h) == /\ Written(h)
             /\ userCommandMutex' = Free
             /\ hpc' = [hpc EXCEPT ![h] = "idle"]
             /\ written' = [written EXCEPT ![h] = 0]
             /\ lastSet' = userCommand
             /\ current' = current \cup {userCommand}
             /\ UNCHANGED <<userCommand, autonomyCommand, tempCommand, sets,
                            mainVars>>

-----------------------------------------------------------------------------
(* main. *)

StartUp == /\ pc = "start"
           /\ started' = started + 1
           /\ air' = IF started \in NIdle..(NIdle + NIgnition - 1)
                     THEN "ignition" ELSE "idle"
           /\ pc' = IF started' >= NIdle + NIgnition + NWait THEN "lock"
                    ELSE "start"
           /\ UNCHANGED <<userCommand, autonomyCommand, userCommandMutex,
                          copiedCommand, copied, historyVars, handlerVars>>

LockToCopy == /\ pc = "lock"
              /\ MutexIsFree
              /\ userCommandMutex' = Main
              /\ pc' = "copy"
              /\ UNCHANGED <<userCommand, autonomyCommand, copiedCommand,
                             copied, started, air, historyVars, handlerVars>>

(* strcpy copies up to the first NUL. Without one it goes on past the end   *)
(* of the buffers, up to a NUL of the heap: no byte it writes there is a    *)
(* command's, but the next use of the heap may end the program.             *)
Ends == copied = 9 \/ userCommand[copied] = "nul"
PastEnd(from) == IF \A p \in Places : from[p] # "nul" THEN {"crashed"} ELSE {}

Copy == /\ pc = "copy"
        /\ copiedCommand' = [copiedCommand EXCEPT ![copied] = userCommand[copied]]
        /\ copied' = IF Ends THEN 0 ELSE copied + 1
        /\ pc' \in IF Ends THEN {"unlock"} \cup PastEnd(userCommand) ELSE {"copy"}
        /\ UNCHANGED <<userCommand, autonomyCommand, userCommandMutex, started,
                       air, historyVars, handlerVars>>

Unlock == /\ pc = "unlock"
          /\ userCommandMutex' = Free
          /\ pc' = "choose"
          /\ UNCHANGED <<userCommand, autonomyCommand, copiedCommand, copied,
                         started, air, historyVars, handlerVars>>

StrCpy(to, from) ==
    [p \in Places |-> IF \A q \in 0..9 : q < p => from[q] # "nul" THEN from[p]
                                                                  ELSE to[p]]

(* Whose command to obey: copiedCommand[8] asks for autonomy's. Nobody else *)
(* takes autonomyCommandMutex.                                              *)
Choose == /\ pc = "choose"
          /\ copiedCommand' = IF copiedCommand[Flag] = "1"
                              THEN StrCpy(copiedCommand, autonomyCommand)
                              ELSE copiedCommand
          /\ pc' \in {"send"} \cup IF copiedCommand[Flag] = "1"
                                   THEN PastEnd(autonomyCommand) ELSE {}
          /\ UNCHANGED <<userCommand, autonomyCommand, userCommandMutex,
                         copied, started, air, historyVars, handlerVars>>

FrameOf == [k \in Keys |->
    CASE k = 0 -> "fwd_slow"    [] k = 1 -> "rev_slow"
      [] k = 2 -> "left_fast"   [] k = 3 -> "right_slow"
      [] k = 4 -> "turret_left" [] k = 5 -> "turret_right"
      [] k = 6 -> "turret_elev" [] k = 7 -> "fire"]

(* The first key that is held decides.                                      *)
Frame(c) == IF \A k \in Keys : c[k] # "1" THEN "neutral"
            ELSE FrameOf[CHOOSE k \in Keys :
                            c[k] = "1" /\ \A j \in Keys : j < k => c[j] # "1"]

(* Variant: the command is not copied again after an autonomous round. *)
SendKeepingFlag == /\ pc = "send"
                   /\ air' = Frame(copiedCommand)
                   /\ pc' = IF \E c \in current : c[Flag] = "1" THEN "send"
                            ELSE "lock"
                   /\ UNCHANGED <<userCommand, autonomyCommand,
                                  userCommandMutex, copiedCommand, copied,
                                  started, historyVars, handlerVars>>

Send == /\ pc = "send"
        /\ air' = Frame(copiedCommand)
        /\ pc' = "lock"
        /\ current' = {lastSet}
        /\ UNCHANGED <<userCommand, autonomyCommand, userCommandMutex,
                       copiedCommand, copied, started, lastSet, handlerVars>>

Next == \/ StartUp \/ LockToCopy \/ Copy \/ Unlock \/ Choose \/ Send
        \/ \E h \in Handlers : \/ Request(h) \/ RequestNothing(h)
                               \/ LockToWrite(h) \/ Write(h) \/ Answer(h)

Spec == Init /\ [][Next]_vars

(* The threads run. main leaves the mutex free for the 24 ms of every       *)
(* frame: a handler that waits for it is woken then, and gets it.           *)
FairSpec == /\ Spec
            /\ WF_vars(StartUp \/ Copy \/ Unlock \/ Choose \/ Send)
            /\ SF_vars(LockToCopy)
            /\ \A h \in Handlers : /\ SF_vars(LockToWrite(h))
                                   /\ WF_vars(Write(h) \/ Answer(h))

-----------------------------------------------------------------------------
TypeOK == /\ {userCommand, autonomyCommand, copiedCommand} \subseteq Buffers
          /\ userCommandMutex \in Handlers \cup {Main, Free}
          /\ pc \in {"start", "lock", "copy", "unlock", "choose", "send", "crashed"}
          /\ copied \in Places
          /\ started \in 0..(NIdle + NIgnition + NWait)
          /\ hpc \in [Handlers -> {"idle", "lock", "write"}]
          /\ tempCommand \in [Handlers -> Commands]
          /\ written \in [Handlers -> Places]
          /\ air \in {"none", "idle", "ignition", "neutral"}
                        \cup {FrameOf[k] : k \in Keys}
          /\ lastSet \in Buffers
          /\ current \subseteq Buffers
          /\ sets \in 0..MaxSets

(* What strcpy copies of a buffer is in copiedCommand. *)
Shows(c) == \A p \in Places :
                (\A q \in Places : q < p => c[q] # "nul") => copiedCommand[p] = c[p]

IsSet(c) == \A p \in 0..Flag : c[p] # "nul"

Asked(c) == IF c[Flag] = "1" THEN StrCpy(c, autonomyCommand) ELSE c

(* main obeys command c: all of it, or what a client that asks for autonomy *)
(* gets, which is autonomyCommand, that nobody writes. A command of less    *)
(* than nine characters decides about its own keys only: the others, and    *)
(* autonomy, stay as they were.                                             *)
Obeys(c) == IF IsSet(c) THEN copiedCommand = Asked(c)
            ELSE Shows(c) \/ Shows(autonomyCommand)

(* What the tank is about to do was asked for, as a whole, by one client:   *)
(* by the last one that was answered before the frame before it ended, or   *)
(* by one answered since; or, until a client has set a command, by what     *)
(* the buffer held (main, http_callback: userCommandMutex).                 *)
ObeysOneClient == pc = "send" => \E c \in current : Obeys(c)

(* When the clients fall silent, the tank does for ever what the last of    *)
(* them asked: main goes on sending, unless the program crashed.            *)
LastIsObeyed == /\ []<>(pc \in {"send", "crashed"})
                /\ <>[](pc = "send" => Obeys(userCommand))
=============================================================================
