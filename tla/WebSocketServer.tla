--------------------------- MODULE WebSocketServer ---------------------------
(***************************************************************************)
(* The web socket server (src/RaspiTank/WebSocketServer.cpp) on top of the *)
(* onion library: connection threads run OnConnect and OnMessage, the      *)
(* command sender and the sensor poller call SendMsg, the main thread      *)
(* calls Stop, and SIGINT or SIGTERM runs Shutdown on the main thread.     *)
(* They share the pointer ws to the one client that is told the news, and  *)
(* the mutex wsLock.                                                       *)
(*                                                                         *)
(* A connection stands for its client, its thread of onion's pool and its  *)
(* onion_websocket. Using a freed onion_websocket is undefined: here the   *)
(* process crashes or nothing comes of it. The payload of a frame comes in *)
(* parts: a read takes what has come, and gives up after five seconds      *)
(* without a part.                                                         *)
(***************************************************************************)
EXTENDS Integers, FiniteSets, Sequences, SequencesExt

CONSTANTS
    Senders,        \* the threads that call SendMsg
    Connections,    \* the connections, each made at most once
    Main,           \* the main thread
    PoolSize,       \* threads in onion's pool
    Null,           \* the null pointer, and nobody
    PlainRequests,  \* are there requests that are no web socket handshake?
    Signals,        \* may a signal arrive?
    Pings,          \* do clients send PING frames?
    MaxFrames,      \* bound: frames a client sends
    MaxParts        \* bound: parts of a payload

ASSUME ThreadsAreDistinct ==
    /\ Senders \cap Connections = {}
    /\ Main \notin Senders \cup Connections
    /\ Null \notin Senders \cup Connections \cup {Main}

ASSUME ParametersAssumption ==
    /\ PoolSize \in Nat \ {0}
    /\ MaxFrames \in Nat
    /\ MaxParts \in Nat
    /\ {PlainRequests, Signals, Pings} \subseteq BOOLEAN

Threads == Senders \cup Connections \cup {Main}
Free == Null        \* wsLock when no thread holds it

VARIABLES
    wsLock,     \* the thread that holds the mutex
    ws,         \* the connection told the news, or Null
    accepted,   \* history: the connections accepted, in order
    socket,     \* the onion_websocket of each connection
    halfSent,   \* the threads that wrote a header to it and no payload yet
    pc,         \* where each thread is
    handler,    \* where the signal handler is that interrupts Main
    behind,     \* the connection whose thread took this one's request, too
    online,     \* is the client of a connection there?
    sent,       \* frames each client has sent
    left,       \* parts of the frame's payload not read yet (data_left)
    payload,    \* parts that have come and are not read yet
    faulty,     \* history: who stayed online and let a read time out, or
                \* sent an empty PING
    pinged,     \* history: who sent a PING
    listening, stopped, alive

lockVars == <<wsLock, ws, accepted>>
socketVars == <<socket, halfSent>>
frameVars == <<sent, left, payload>>
historyVars == <<faulty, pinged>>
clientVars == <<behind, online, frameVars, historyVars>>
processVars == <<listening, stopped, alive>>
vars == <<wsLock, ws, accepted, socket, halfSent, pc, handler, behind, online,
          sent, left, payload, faulty, pinged, listening, stopped, alive>>

Init == /\ wsLock = Free
        /\ ws = Null
        /\ accepted = <<>>
        /\ socket = [c \in Connections |-> "none"]
        /\ halfSent = [c \in Connections |-> {}]
        /\ pc = [t \in Threads |-> "idle"]
        /\ handler = "none"
        /\ behind = [c \in Connections |-> Null]
        /\ online = [c \in Connections |-> FALSE]
        /\ sent = [c \in Connections |-> 0]
        /\ left = [c \in Connections |-> 0]
        /\ payload = [c \in Connections |-> 0]
        /\ faulty = {}
        /\ pinged = {}
        /\ listening = TRUE
        /\ stopped = FALSE
        /\ alive = TRUE

-----------------------------------------------------------------------------
(* Variant: the mutex excludes nobody. *)
NoExclusion == TRUE

LockIsFree == wsLock = Free

(* Thread t goes from one place of its code to another ... *)
Goes(t, from, to) == /\ alive
                     /\ pc[t] = from
                     /\ t = Main => handler = "none"
                     /\ pc' = [pc EXCEPT ![t] = to]

(* ... and does nothing else, or takes the lock, or releases it. *)
JustGoes(t, from, to) == /\ Goes(t, from, to)
                         /\ UNCHANGED <<lockVars, socketVars, handler, clientVars,
                                        processVars>>

Locks(t, from, to) == /\ LockIsFree
                      /\ Goes(t, from, to)
                      /\ wsLock' = t
                      /\ UNCHANGED <<ws, accepted, socketVars, handler,
                                     clientVars, processVars>>

Unlocks(t, from, to) == /\ Goes(t, from, to)
                        /\ wsLock' = Free
                        /\ UNCHANGED <<ws, accepted, socketVars, handler,
                                       clientVars, processVars>>

(* The onion_websocket of c is used, and perhaps it is freed. *)
Touch(c) == IF socket[c] = "open" THEN UNCHANGED alive ELSE alive' \in BOOLEAN

-----------------------------------------------------------------------------
(* Connection threads. *)

(* A client connects. A thread of the pool takes up to ten events at once   *)
(* and handles them one after the other: the request, or the event of the   *)
(* listening socket through which it comes, may lie behind a connection     *)
(* that another thread serves until its client leaves.                      *)
Served == {c \in Connections : pc[c] \notin {"idle", "queued", "closed"}}

Request(c) == /\ Goes(c, "idle", "queued")
              /\ listening
              /\ \E d \in Served \cup {Null} : behind' = [behind EXCEPT ![c] = d]
              /\ online' = [online EXCEPT ![c] = TRUE]
              /\ UNCHANGED <<lockVars, socketVars, handler, frameVars,
                             historyVars, processVars>>

(* The request reaches OnConnect once a thread is left to serve it.         *)
Take(c) == /\ Goes(c, "queued", "connect")
           /\ behind[c] \notin Served
           /\ listening \/ behind[c] # Null
           /\ Cardinality(Served) < PoolSize
           /\ behind' = [behind EXCEPT ![c] = Null]
           /\ UNCHANGED <<lockVars, socketVars, handler, online, frameVars,
                          historyVars, processVars>>

LockToConnect(c) == Locks(c, "connect", "replace")

(* The previous client is forgotten, but its connection stays served: the   *)
(* closing opcode put into its onion_websocket is only for the next write,  *)
(* and nothing is written to it any more.                                   *)
Replace(c) == /\ Goes(c, "replace", "new")
              /\ IF ws = Null THEN UNCHANGED alive ELSE Touch(ws)
              /\ ws' = Null
              /\ UNCHANGED <<wsLock, accepted, socketVars, handler, clientVars,
                             listening, stopped>>

(* onion_websocket_new answers the handshake, then ws is assigned. *)
Accept(c) == /\ Goes(c, "new", "assign")
             /\ socket' = [socket EXCEPT ![c] = "open"]
             /\ accepted' = Append(accepted, c)
             /\ UNCHANGED <<wsLock, ws, halfSent, handler, clientVars,
                            processVars>>

Assign(c) == /\ Goes(c, "assign", "callback")
             /\ ws' = c
             /\ UNCHANGED <<wsLock, accepted, socketVars, handler, clientVars,
                            processVars>>

(* A request that is no handshake: OnConnect returns and keeps the lock. *)
Refuse(c) == PlainRequests /\ JustGoes(c, "new", "closed")

UnlockConnected(c) == Unlocks(c, "callback", "poll")

(* onion polls the connection and reads the header of a frame, outside the  *)
(* lock; the payload comes part by part. OnMessage ignores an empty frame.  *)
Arrives(c, n, to) == /\ Goes(c, "poll", to)
                     /\ socket[c] = "open"
                     /\ online[c]
                     /\ left[c] = 0
                     /\ sent[c] < MaxFrames
                     /\ sent' = [sent EXCEPT ![c] = @ + 1]
                     /\ left' = [left EXCEPT ![c] = n]
                     /\ UNCHANGED <<lockVars, socketVars, handler, behind, online,
                                    payload, processVars>>

FrameArrives(c) == /\ \/ Arrives(c, 0, "poll")
                      \/ \E n \in 1..MaxParts : Arrives(c, n, "message")
                   /\ UNCHANGED historyVars

PingArrives(c) == /\ Pings
                  /\ \E n \in 0..MaxParts :
                        /\ Arrives(c, n, "ping")
                        /\ faulty' = IF n = 0 THEN faulty \cup {c} ELSE faulty
                  /\ pinged' = pinged \cup {c}

PartArrives(c) == /\ alive
                  /\ online[c]
                  /\ payload[c] < left[c]
                  /\ payload' = [payload EXCEPT ![c] = @ + 1]
                  /\ UNCHANGED <<lockVars, socketVars, pc, handler, behind, online,
                                 sent, left, historyVars, processVars>>

Leave(c) == /\ alive
            /\ online[c]
            /\ online' = [online EXCEPT ![c] = FALSE]
            /\ UNCHANGED <<lockVars, socketVars, pc, handler, behind, frameVars,
                           historyVars, processVars>>

(* The request ends and its onion_websocket is freed, while ws may still    *)
(* point to it ...                                                          *)
Frees(c, from) == /\ Goes(c, from, "closed")
                  /\ socket' = [socket EXCEPT ![c] = "freed"]
                  /\ UNCHANGED <<lockVars, halfSent, handler, behind, online,
                                 frameVars, pinged, processVars>>

(* ... when no header can be read because the client is gone, or after a    *)
(* read that cleared the callback ...                                       *)
Close(c) == /\ \/ Frees(c, "poll") /\ ~online[c] /\ left[c] = 0
               \/ Frees(c, "ending")
            /\ socket[c] = "open"
            /\ UNCHANGED faulty

(* ... or because the client began a header and did not finish it in time.  *)
HeaderStalls(c) == /\ Frees(c, "poll")
                   /\ socket[c] = "open"
                   /\ online[c]
                   /\ left[c] = 0
                   /\ faulty' = faulty \cup {c}

(* onion goes on polling an onion_websocket that Shutdown has freed. *)
PollFreed(c) == /\ \E from \in {"poll", "ending"} : Goes(c, from, "closed")
                /\ socket[c] = "freed"
                /\ alive' \in BOOLEAN
                /\ UNCHANGED <<lockVars, socketVars, handler, clientVars,
                               listening, stopped>>

LockToRead(c) == Locks(c, "message", "read")

(* The rest of a payload is read without another header, at once or, after  *)
(* the client has gone, when polling finds the connection readable.         *)
Onward(n) == IF n > 0 THEN "message" ELSE "poll"

PollAgain(c) == /\ socket[c] = "open"
                /\ left[c] > 0
                /\ JustGoes(c, "poll", "message")

(* onion_websocket_read takes the parts that have come. *)
Takes(c) == /\ payload[c] > 0
            /\ left' = [left EXCEPT ![c] = @ - payload[c]]
            /\ payload' = [payload EXCEPT ![c] = 0]
            /\ UNCHANGED <<ws, accepted, socketVars, handler, behind, online, sent,
                           historyVars, listening, stopped>>

(* Variant: OnMessage hands the command over and keeps the lock. *)
ReadKeepingLock(c) == /\ Takes(c)
                      /\ Goes(c, "read", "command")
                      /\ UNCHANGED <<wsLock, alive>>

(* OnMessage reads with the lock held. What it read, which may be a part of *)
(* the message only, is handed to Controller::AddCmd if it parses, after    *)
(* the lock was released.                                                   *)
Read(c) == /\ Takes(c)
           /\ \E to \in {"command", Onward(left[c] - payload[c])} : Goes(c, "read", to)
           /\ wsLock' = Free
           /\ Touch(c)

(* A read that fails clears the callback, and where it failed for an error  *)
(* it also changes data_left, so that onion calls the callback once more:   *)
(* for an online client it failed because nothing came in time.             *)
Fails(c) == /\ payload[c] = 0
            /\ left[c] > 0
            /\ IF online[c] /\ socket[c] = "open"
               THEN alive' = FALSE ELSE alive' \in BOOLEAN
            /\ faulty' = IF online[c] THEN faulty \cup {c} ELSE faulty
            /\ UNCHANGED <<ws, accepted, socketVars, handler, behind, online,
                           frameVars, pinged, listening, stopped>>

(* The end of the connection is no error: data_left stays, and the callback *)
(* is cleared or not, as errno happens to be.                               *)
ReadFails(c) == /\ Fails(c)
                /\ \E to \in {"poll", "ending"} : Goes(c, "read", to)
                /\ wsLock' = Free

(* The thread answers a PING itself, without wsLock. An empty PING makes it *)
(* read another header first: if none comes it answers rubbish, and if one  *)
(* comes it may call the callback after it has cleared it.                  *)
ReadPing(c) == /\ Goes(c, "ping", "pong")
               /\ \/ /\ Takes(c)
                     /\ Touch(c)
                  \/ /\ left[c] = 0
                     /\ \E n \in 0..MaxParts : left' = [left EXCEPT ![c] = n]
                     /\ alive' \in BOOLEAN
                     /\ UNCHANGED <<ws, accepted, socketVars, handler, behind,
                                    online, sent, payload, historyVars, listening,
                                    stopped>>
               /\ UNCHANGED wsLock

PingFails(c) == /\ Fails(c)
                /\ Goes(c, "ping", "pong")
                /\ UNCHANGED wsLock

PongHeader(c) == /\ Goes(c, "pong", "ponging")
                 /\ halfSent' = [halfSent EXCEPT ![c] = @ \cup {c}]
                 /\ Touch(c)
                 /\ UNCHANGED <<lockVars, socket, handler, clientVars, listening,
                                stopped>>

PongPayload(c) == /\ Goes(c, "ponging", Onward(left[c]))
                  /\ halfSent' = [halfSent EXCEPT ![c] = @ \ {c}]
                  /\ Touch(c)
                  /\ UNCHANGED <<lockVars, socket, handler, clientVars, listening,
                                 stopped>>

(* AddCmd returns. *)
Handled(c) == JustGoes(c, "command", Onward(left[c]))

-----------------------------------------------------------------------------
(* SendMsg. *)

(* ws is tested before the lock is taken. *)
TestSocket(t) == ws # Null /\ JustGoes(t, "idle", "send")

(* Variant: SendMsg waits for a client to come back. *)
LockToSendConnected(t) == ws # Null /\ Locks(t, "send", "header")

LockToSend(t) == Locks(t, "send", "header")

(* onion_websocket_printf writes a header, then the payload. catch(...)     *)
(* catches no invalid access.                                               *)
WriteHeader(t) ==
    \/ /\ ws = Null
       /\ Goes(t, "header", "crashed")
       /\ alive' = FALSE
       /\ UNCHANGED <<lockVars, socketVars, handler, clientVars, listening,
                      stopped>>
    \/ /\ ws # Null
       /\ Goes(t, "header", "payload")
       /\ IF socket[ws] = "open"
          THEN halfSent' = [halfSent EXCEPT ![ws] = @ \cup {t}]
          ELSE UNCHANGED halfSent
       /\ Touch(ws)
       /\ UNCHANGED <<lockVars, socket, handler, clientVars, listening,
                      stopped>>

WritePayload(t) == /\ ws # Null
                   /\ Goes(t, "payload", "unlock")
                   /\ halfSent' = [halfSent EXCEPT ![ws] = @ \ {t}]
                   /\ Touch(ws)
                   /\ UNCHANGED <<lockVars, socket, handler, clientVars,
                                  listening, stopped>>

UnlockSent(t) == Unlocks(t, "unlock", "idle")

-----------------------------------------------------------------------------
(* Shutdown: called by Stop, or run by a signal on the main thread.         *)

Stop == JustGoes(Main, "idle", "lock")

Interrupt == /\ alive
             /\ Signals
             /\ handler = "none"
             /\ handler' = "lock"
             /\ UNCHANGED <<lockVars, socketVars, pc, clientVars, processVars>>

FreeSocket ==
    IF ws = Null THEN UNCHANGED <<ws, socket, alive>>
    ELSE /\ socket' = [socket EXCEPT ![ws] = "freed"]
         /\ ws' = Null
         /\ Touch(ws)

LockToStop == Locks(Main, "lock", "free")

StopListening == /\ Goes(Main, "free", "stopped")
                 /\ FreeSocket
                 /\ wsLock' = Free
                 /\ listening' = FALSE
                 /\ stopped' = TRUE
                 /\ UNCHANGED <<accepted, halfSent, handler, clientVars>>

LockInHandler == /\ alive
                 /\ handler = "lock"
                 /\ LockIsFree
                 /\ wsLock' = Main
                 /\ handler' = "free"
                 /\ UNCHANGED <<ws, accepted, socketVars, pc, clientVars,
                                processVars>>

(* The program goes on: the handler does not end it. *)
StopInHandler == /\ alive
                 /\ handler = "free"
                 /\ FreeSocket
                 /\ wsLock' = Free
                 /\ handler' = "none"
                 /\ listening' = FALSE
                 /\ stopped' = TRUE
                 /\ UNCHANGED <<accepted, halfSent, pc, clientVars>>

-----------------------------------------------------------------------------
Connecting(c) == \/ Request(c)
                 \/ Take(c)
                 \/ LockToConnect(c)
                 \/ Replace(c)
                 \/ Accept(c)
                 \/ Assign(c)
                 \/ Refuse(c)
                 \/ UnlockConnected(c)

Ping(c) == ReadPing(c) \/ PingFails(c) \/ PongHeader(c) \/ PongPayload(c)

Serving(c) == \/ LockToRead(c)
              \/ Read(c)
              \/ ReadFails(c)
              \/ Handled(c)
              \/ PollAgain(c)
              \/ Close(c)
              \/ PollFreed(c)
              \/ Ping(c)

Client(c) == \/ FrameArrives(c)
             \/ PingArrives(c)
             \/ PartArrives(c)
             \/ HeaderStalls(c)
             \/ Leave(c)

SendMsg(t) == \/ TestSocket(t)
              \/ LockToSend(t)
              \/ WriteHeader(t)
              \/ WritePayload(t)
              \/ UnlockSent(t)

Shutdown == \/ Stop
            \/ LockToStop
            \/ StopListening
            \/ Interrupt
            \/ LockInHandler
            \/ StopInHandler

(* The process crashed, or the server was stopped, or wsLock will never be  *)
(* released: by a refused connection, or by a thread that is interrupted    *)
(* while it holds what the handler waits for.                               *)
Stuck == \/ wsLock \in Connections /\ pc[wsLock] = "closed"
         \/ wsLock = Main /\ handler = "lock"

Halted == ~alive \/ stopped \/ Stuck

Stay == Halted /\ UNCHANGED vars

Next == \/ \E c \in Connections : Connecting(c) \/ Serving(c) \/ Client(c)
        \/ \E t \in Senders : SendMsg(t)
        \/ Shutdown
        \/ Stay

Spec == Init /\ [][Next]_vars

(* Threads run, and a thread that waits for wsLock gets it when it is free  *)
(* over and over again (its users sleep between two uses). Clients need not *)
(* finish anything: a read that gets nothing fails.                         *)
Fairness ==
    /\ \A c \in Connections :
          /\ WF_vars(Take(c))
          /\ WF_vars(Replace(c) \/ Accept(c) \/ Assign(c) \/ UnlockConnected(c))
          /\ WF_vars(Serving(c))
          /\ SF_vars(LockToConnect(c) \/ LockToRead(c))
    /\ \A t \in Senders :
          /\ WF_vars(WriteHeader(t) \/ WritePayload(t) \/ UnlockSent(t))
          /\ SF_vars(LockToSend(t))
    /\ WF_vars(StopListening)
    /\ SF_vars(LockToStop)

FairSpec == Spec /\ Fairness

-----------------------------------------------------------------------------
(* Properties. *)

TypeOK ==
    /\ wsLock \in Threads \cup {Free}
    /\ ws \in Connections \cup {Null}
    /\ accepted \in Seq(Connections)
    /\ socket \in [Connections -> {"none", "open", "freed"}]
    /\ halfSent \in [Connections -> SUBSET (Senders \cup Connections)]
    /\ pc \in [Threads -> {"idle", "queued", "connect", "replace", "new", "assign",
                           "callback", "poll", "message", "read", "command",
                           "ping", "pong", "ponging", "ending", "closed",
                           "send", "header", "payload", "unlock", "crashed",
                           "lock", "free", "stopped"}]
    /\ handler \in {"none", "lock", "free"}
    /\ behind \in [Connections -> Connections \cup {Null}]
    /\ online \in [Connections -> BOOLEAN]
    /\ sent \in [Connections -> 0..MaxFrames]
    /\ left \in [Connections -> 0..MaxParts]
    /\ payload \in [Connections -> 0..MaxParts]
    /\ \A c \in Connections : payload[c] <= left[c]
    /\ {faulty, pinged} \subseteq SUBSET Connections
    /\ {listening, stopped, alive} \subseteq BOOLEAN

Holding == {"replace", "new", "assign", "callback", "read", "header",
            "payload", "unlock", "free"}

HoldsLock(t) == pc[t] \in Holding \/ (t = Main /\ handler = "free")

(* wsLock is held by the thread in a critical section; the only other way   *)
(* to find it held is that a plain request was refused, and then it stays   *)
(* held.                                                                    *)
LockHolders ==
    alive => /\ \A t \in Threads : HoldsLock(t) => wsLock = t
             /\ wsLock # Free => \/ HoldsLock(wsLock)
                                 \/ PlainRequests /\ pc[wsLock] = "closed"

(* News goes to the client that connected last, or to nobody: handshakes    *)
(* and messages that overlap never leave ws on a client that was replaced.  *)
NewestServed == ws # Null => ws = Last(accepted)

(* While nobody stops the server, no client that connected has left and     *)
(* none kept a read waiting for five seconds or sent an empty PING, SendMsg *)
(* never writes through a null or freed pointer, although it tests ws       *)
(* before it takes the lock and onion frees what ws points to, and onion    *)
(* never calls a callback that it has cleared.                              *)
SafeWhileServing ==
    alive \/ stopped \/ \E c \in ToSet(accepted) : ~online[c] \/ c \in faulty

(* The header and the payload of a message reach the client one right after *)
(* the other, whichever threads send at once; only the PONG with which a    *)
(* connection's thread answers a PING may come in between.                  *)
WholeFrames ==
    alive => \A c \in Connections : \A t, u \in halfSent[c] :
                t = u \/ (c \in pinged /\ c \in {t, u})

(* A failed read only closes the connection ("Easy way to force close of    *)
(* websocket, which is ok as it closed", onion_websocket_read): a read from *)
(* an onion_websocket that is not freed never ends the process.             *)
FailedReadCloses ==
    [][\A c \in Connections :
          pc[c] = "read" /\ pc'[c] # "read" /\ socket[c] = "open" => alive']_vars

-----------------------------------------------------------------------------
(* Liveness. *)

(* Every call of SendMsg returns, as long as no plain request comes and no  *)
(* signal arrives: a client that does not finish its frame keeps it waiting *)
(* only until the read fails, which ends the process if the client is       *)
(* still there.                                                             *)
SendsReturn ==
    \A t \in Senders : (pc[t] = "send") ~> (pc[t] = "idle" \/ ~alive)

(* Under the same conditions every frame that reached OnMessage is read,    *)
(* and every client that reached OnConnect is connected; and a client that  *)
(* asks reaches OnConnect, unless another one stays, or left in the middle  *)
(* of a frame, so that its thread reads the end of the connection for ever. *)
ClientsServed ==
    \A c \in Connections :
       /\ (pc[c] = "message") ~> (pc[c] \in {"command", "poll", "ending"} \/ ~alive)
       /\ (pc[c] = "connect") ~> (pc[c] = "poll" \/ ~alive)
       /\ (pc[c] = "queued") ~>
             \/ pc[c] # "queued"
             \/ ~alive
             \/ ~listening
             \/ \E d \in Served : online[d] \/ left[d] > 0
=============================================================================
