-------------------------- MODULE WebSocketServer_proofs --------------------------
(***************************************************************************)
(* Proofs about WebSocketServer, for any threads and connections, with or  *)
(* without plain requests and signals.                                     *)
(***************************************************************************)
EXTENDS WebSocketServer, TLAPS

(* The mutex is where the threads say it is. The handler gets it only when  *)
(* the main thread, which it interrupts, does not hold it.                  *)
Locking ==
    /\ \A t \in Threads : HoldsLock(t) => wsLock = t
    /\ wsLock # Free => \/ HoldsLock(wsLock)
                        \/ PlainRequests /\ pc[wsLock] = "closed"
    /\ handler = "free" => pc[Main] \notin Holding

(* In OnConnect, ws is Null from the moment the old client is forgotten.    *)
Connected ==
    /\ \A c \in Connections : pc[c] = "new" => ws = Null
    /\ \A c \in Connections : pc[c] = "assign" =>
          ws = Null /\ accepted # <<>> /\ Last(accepted) = c

(* A half sent message is that of the thread between its two writes, which  *)
(* holds the lock, and a half sent PONG that of the connection's thread.    *)
HalfSent ==
    /\ \A c \in Connections, t \in Senders :
          t \in halfSent[c] => pc[t] = "payload" /\ ws = c
    /\ \A c, d \in Connections : d \in halfSent[c] => d = c /\ c \in pinged
    /\ \A c \in Connections :
          pc[c] \in {"ping", "pong", "ponging"} => c \in pinged

IInv == /\ TypeOK
        /\ NewestServed
        /\ alive => Locking /\ Connected /\ HalfSent

-----------------------------------------------------------------------------
LEMMA InitInv == Init => IInv
<1> SUFFICES ASSUME Init PROVE IInv
  OBVIOUS
<1> USE ThreadsAreDistinct, ParametersAssumption DEF Init, Threads, Free
<1>1. TypeOK
  <2>1. /\ sent \in [Connections -> 0..MaxFrames]
        /\ left \in [Connections -> 0..MaxParts]
        /\ payload \in [Connections -> 0..MaxParts]
    OBVIOUS
  <2>2. accepted \in Seq(Connections)
    OBVIOUS
  <2>3. pc \in [Threads -> {"idle"}]
    OBVIOUS
  <2>4. \A c \in Connections : payload[c] <= left[c]
    BY 0 <= 0
  <2> QED BY <2>1, <2>2, <2>3, <2>4 DEF TypeOK
<1>2. Locking
  BY DEF Locking, HoldsLock, Holding
<1>3. NewestServed /\ Connected /\ HalfSent
  BY DEF NewestServed, Connected, HalfSent
<1> QED BY <1>1, <1>2, <1>3 DEF IInv

-----------------------------------------------------------------------------
(* The steps of a connection's thread.                                      *)

LEMMA RequestInv ==
    ASSUME IInv, NEW c \in Connections, Request(c) PROVE IInv'
<1> USE ThreadsAreDistinct
    DEF IInv, Request, Goes, Served,
        lockVars, socketVars, clientVars, frameVars, historyVars, processVars,
        Threads, Free
<1>1. TypeOK'
  BY DEF TypeOK
<1>2. NewestServed'
  BY DEF NewestServed, Connected, TypeOK
<1>3. (alive => Locking)'
  BY DEF Locking, HoldsLock, Holding, TypeOK
<1>4. (alive => Connected)'
  BY DEF Connected, Locking, HoldsLock, Holding, TypeOK
<1>5. (alive => HalfSent)'
  BY DEF HalfSent, Locking, HoldsLock, Holding, TypeOK
<1> QED BY <1>1, <1>2, <1>3, <1>4, <1>5

LEMMA TakeInv ==
    ASSUME IInv, NEW c \in Connections, Take(c) PROVE IInv'
<1> USE ThreadsAreDistinct
    DEF IInv, Take, Goes, Served,
        lockVars, socketVars, clientVars, frameVars, historyVars, processVars,
        Threads, Free
<1>1. TypeOK'
  BY DEF TypeOK
<1>2. NewestServed'
  BY DEF NewestServed, Connected, TypeOK
<1>3. (alive => Locking)'
  BY DEF Locking, HoldsLock, Holding, TypeOK
<1>4. (alive => Connected)'
  BY DEF Connected, Locking, HoldsLock, Holding, TypeOK
<1>5. (alive => HalfSent)'
  BY DEF HalfSent, Locking, HoldsLock, Holding, TypeOK
<1> QED BY <1>1, <1>2, <1>3, <1>4, <1>5

LEMMA LockToConnectInv ==
    ASSUME IInv, NEW c \in Connections, LockToConnect(c) PROVE IInv'
<1> USE ThreadsAreDistinct
    DEF IInv, LockToConnect, Goes, Locks, LockIsFree,
        lockVars, socketVars, clientVars, frameVars, historyVars, processVars,
        Threads, Free
<1>1. TypeOK'
  BY DEF TypeOK
<1>2. NewestServed'
  BY DEF NewestServed, Connected, TypeOK
<1>3. (alive => Locking)'
  BY DEF Locking, HoldsLock, Holding, TypeOK
<1>4. (alive => Connected)'
  BY DEF Connected, Locking, HoldsLock, Holding, TypeOK
<1>5. (alive => HalfSent)'
  BY DEF HalfSent, Locking, HoldsLock, Holding, TypeOK
<1> QED BY <1>1, <1>2, <1>3, <1>4, <1>5

LEMMA ReplaceInv ==
    ASSUME IInv, NEW c \in Connections, Replace(c) PROVE IInv'
<1> USE ThreadsAreDistinct
    DEF IInv, Replace, Goes, Touch,
        lockVars, socketVars, clientVars, frameVars, historyVars, processVars,
        Threads, Free
<1>1. TypeOK'
  BY DEF TypeOK
<1>2. NewestServed'
  BY DEF NewestServed, Connected, TypeOK
<1>3. (alive => Locking)'
  BY DEF Locking, HoldsLock, Holding, TypeOK
<1>4. (alive => Connected)'
  BY DEF Connected, Locking, HoldsLock, Holding, TypeOK
<1>5. (alive => HalfSent)'
  BY DEF HalfSent, Locking, HoldsLock, Holding, TypeOK
<1> QED BY <1>1, <1>2, <1>3, <1>4, <1>5

LEMMA AcceptInv ==
    ASSUME IInv, NEW c \in Connections, Accept(c) PROVE IInv'
<1> USE ThreadsAreDistinct
    DEF IInv, Accept, Goes,
        lockVars, socketVars, clientVars, frameVars, historyVars, processVars,
        Threads, Free
<1>1. TypeOK'
  BY DEF TypeOK
<1>2. NewestServed'
  BY DEF NewestServed, Connected, TypeOK
<1>3. (alive => Locking)'
  BY DEF Locking, HoldsLock, Holding, TypeOK
<1>4. (alive => Connected)'
  <2>1. accepted' # <<>> /\ Last(accepted') = c
    BY DEF Last, TypeOK
  <2> QED BY <2>1 DEF Connected, Locking, HoldsLock, Holding, TypeOK
<1>5. (alive => HalfSent)'
  BY DEF HalfSent, Locking, HoldsLock, Holding, TypeOK
<1> QED BY <1>1, <1>2, <1>3, <1>4, <1>5

LEMMA AssignInv ==
    ASSUME IInv, NEW c \in Connections, Assign(c) PROVE IInv'
<1> USE ThreadsAreDistinct
    DEF IInv, Assign, Goes,
        lockVars, socketVars, clientVars, frameVars, historyVars, processVars,
        Threads, Free
<1>1. TypeOK'
  BY DEF TypeOK
<1>2. NewestServed'
  BY DEF NewestServed, Connected, TypeOK
<1>3. (alive => Locking)'
  BY DEF Locking, HoldsLock, Holding, TypeOK
<1>4. (alive => Connected)'
  BY DEF Connected, Locking, HoldsLock, Holding, TypeOK
<1>5. (alive => HalfSent)'
  BY DEF HalfSent, Locking, HoldsLock, Holding, TypeOK
<1> QED BY <1>1, <1>2, <1>3, <1>4, <1>5

LEMMA RefuseInv ==
    ASSUME IInv, NEW c \in Connections, Refuse(c) PROVE IInv'
<1> USE ThreadsAreDistinct
    DEF IInv, Refuse, Goes, JustGoes,
        lockVars, socketVars, clientVars, frameVars, historyVars, processVars,
        Threads, Free
<1>1. TypeOK'
  BY DEF TypeOK
<1>2. NewestServed'
  BY DEF NewestServed, Connected, TypeOK
<1>3. (alive => Locking)'
  BY DEF Locking, HoldsLock, Holding, TypeOK
<1>4. (alive => Connected)'
  BY DEF Connected, Locking, HoldsLock, Holding, TypeOK
<1>5. (alive => HalfSent)'
  BY DEF HalfSent, Locking, HoldsLock, Holding, TypeOK
<1> QED BY <1>1, <1>2, <1>3, <1>4, <1>5

LEMMA UnlockConnectedInv ==
    ASSUME IInv, NEW c \in Connections, UnlockConnected(c) PROVE IInv'
<1> USE ThreadsAreDistinct
    DEF IInv, UnlockConnected, Goes, Unlocks,
        lockVars, socketVars, clientVars, frameVars, historyVars, processVars,
        Threads, Free
<1>1. TypeOK'
  BY DEF TypeOK
<1>2. NewestServed'
  BY DEF NewestServed, Connected, TypeOK
<1>3. (alive => Locking)'
  BY DEF Locking, HoldsLock, Holding, TypeOK
<1>4. (alive => Connected)'
  BY DEF Connected, Locking, HoldsLock, Holding, TypeOK
<1>5. (alive => HalfSent)'
  BY DEF HalfSent, Locking, HoldsLock, Holding, TypeOK
<1> QED BY <1>1, <1>2, <1>3, <1>4, <1>5

LEMMA LockToReadInv ==
    ASSUME IInv, NEW c \in Connections, LockToRead(c) PROVE IInv'
<1> USE ThreadsAreDistinct
    DEF IInv, LockToRead, Goes, Locks, LockIsFree,
        lockVars, socketVars, clientVars, frameVars, historyVars, processVars,
        Threads, Free
<1>1. TypeOK'
  BY DEF TypeOK
<1>2. NewestServed'
  BY DEF NewestServed, Connected, TypeOK
<1>3. (alive => Locking)'
  BY DEF Locking, HoldsLock, Holding, TypeOK
<1>4. (alive => Connected)'
  BY DEF Connected, Locking, HoldsLock, Holding, TypeOK
<1>5. (alive => HalfSent)'
  BY DEF HalfSent, Locking, HoldsLock, Holding, TypeOK
<1> QED BY <1>1, <1>2, <1>3, <1>4, <1>5

LEMMA ReadInv ==
    ASSUME IInv, NEW c \in Connections, Read(c) PROVE IInv'
<1> USE ThreadsAreDistinct, ParametersAssumption DEF IInv, Threads, Free
<1>0. /\ alive /\ pc[c] = "read" /\ alive' \in {alive, TRUE, FALSE}
      /\ wsLock' = Free
      /\ \E to \in {"command", "message", "poll"} : pc' = [pc EXCEPT ![c] = to]
      /\ left' = [left EXCEPT ![c] = @ - payload[c]]
      /\ payload' = [payload EXCEPT ![c] = 0]
      /\ UNCHANGED <<ws, accepted, socket, halfSent, handler, behind, online,
                     sent, faulty, pinged, listening, stopped>>
  BY DEF Read, Goes, Takes, Onward, Touch, lockVars, socketVars, clientVars,
         frameVars, historyVars, processVars
<1>1. TypeOK'
  <2>1. left[c] - payload[c] \in 0..MaxParts
    BY DEF TypeOK
  <2>2. alive' \in BOOLEAN
    BY <1>0 DEF TypeOK
  <2> QED BY <1>0, <2>1, <2>2 DEF TypeOK
<1>2. NewestServed'
  BY <1>0 DEF NewestServed, Connected, TypeOK
<1>3. (alive => Locking)'
  BY <1>0 DEF Locking, HoldsLock, Holding, TypeOK
<1>4. (alive => Connected)'
  BY <1>0 DEF Connected, Locking, HoldsLock, Holding, TypeOK
<1>5. (alive => HalfSent)'
  BY <1>0 DEF HalfSent, Locking, HoldsLock, Holding, TypeOK
<1> QED BY <1>1, <1>2, <1>3, <1>4, <1>5

LEMMA ReadFailsInv ==
    ASSUME IInv, NEW c \in Connections, ReadFails(c) PROVE IInv'
<1> USE ThreadsAreDistinct, ParametersAssumption DEF IInv, Threads, Free
<1>0. /\ alive /\ pc[c] = "read" /\ alive' \in BOOLEAN
      /\ wsLock' = Free
      /\ \E to \in {"poll", "ending"} : pc' = [pc EXCEPT ![c] = to]
      /\ faulty' \in {faulty, faulty \cup {c}}
      /\ UNCHANGED <<ws, accepted, socket, halfSent, handler, behind, online,
                     sent, left, payload, pinged, listening, stopped>>
  BY DEF ReadFails, Goes, Fails, lockVars, socketVars, clientVars,
         frameVars, historyVars, processVars
<1>1. TypeOK'
  BY <1>0 DEF TypeOK
<1>2. NewestServed'
  BY <1>0 DEF NewestServed, Connected, TypeOK
<1>3. (alive => Locking)'
  BY <1>0 DEF Locking, HoldsLock, Holding, TypeOK
<1>4. (alive => Connected)'
  BY <1>0 DEF Connected, Locking, HoldsLock, Holding, TypeOK
<1>5. (alive => HalfSent)'
  BY <1>0 DEF HalfSent, Locking, HoldsLock, Holding, TypeOK
<1> QED BY <1>1, <1>2, <1>3, <1>4, <1>5

LEMMA HandledInv ==
    ASSUME IInv, NEW c \in Connections, Handled(c) PROVE IInv'
<1> USE ThreadsAreDistinct
    DEF IInv, Handled, Goes, Onward, JustGoes,
        lockVars, socketVars, clientVars, frameVars, historyVars, processVars,
        Threads, Free
<1>1. TypeOK'
  BY DEF TypeOK
<1>2. NewestServed'
  BY DEF NewestServed, Connected, TypeOK
<1>3. (alive => Locking)'
  BY DEF Locking, HoldsLock, Holding, TypeOK
<1>4. (alive => Connected)'
  BY DEF Connected, Locking, HoldsLock, Holding, TypeOK
<1>5. (alive => HalfSent)'
  BY DEF HalfSent, Locking, HoldsLock, Holding, TypeOK
<1> QED BY <1>1, <1>2, <1>3, <1>4, <1>5

LEMMA PollAgainInv ==
    ASSUME IInv, NEW c \in Connections, PollAgain(c) PROVE IInv'
<1> USE ThreadsAreDistinct
    DEF IInv, PollAgain, Goes, JustGoes,
        lockVars, socketVars, clientVars, frameVars, historyVars, processVars,
        Threads, Free
<1>1. TypeOK'
  BY DEF TypeOK
<1>2. NewestServed'
  BY DEF NewestServed, Connected, TypeOK
<1>3. (alive => Locking)'
  BY DEF Locking, HoldsLock, Holding, TypeOK
<1>4. (alive => Connected)'
  BY DEF Connected, Locking, HoldsLock, Holding, TypeOK
<1>5. (alive => HalfSent)'
  BY DEF HalfSent, Locking, HoldsLock, Holding, TypeOK
<1> QED BY <1>1, <1>2, <1>3, <1>4, <1>5

LEMMA CloseInv ==
    ASSUME IInv, NEW c \in Connections, Close(c) PROVE IInv'
<1> USE ThreadsAreDistinct, ParametersAssumption DEF IInv, Threads, Free
<1>0. /\ alive /\ pc[c] \in {"poll", "ending"}
      /\ pc' = [pc EXCEPT ![c] = "closed"]
      /\ socket' = [socket EXCEPT ![c] = "freed"]
      /\ UNCHANGED <<wsLock, ws, accepted, halfSent, handler, behind, online,
                     sent, left, payload, faulty, pinged, listening, stopped,
                     alive>>
  BY DEF Close, Goes, Frees, lockVars, socketVars, clientVars,
         frameVars, historyVars, processVars
<1>1. TypeOK'
  BY <1>0 DEF TypeOK
<1>2. NewestServed'
  BY <1>0 DEF NewestServed, Connected, TypeOK
<1>3. (alive => Locking)'
  BY <1>0 DEF Locking, HoldsLock, Holding, TypeOK
<1>4. (alive => Connected)'
  BY <1>0 DEF Connected, Locking, HoldsLock, Holding, TypeOK
<1>5. (alive => HalfSent)'
  BY <1>0 DEF HalfSent, Locking, HoldsLock, Holding, TypeOK
<1> QED BY <1>1, <1>2, <1>3, <1>4, <1>5

LEMMA PollFreedInv ==
    ASSUME IInv, NEW c \in Connections, PollFreed(c) PROVE IInv'
<1> USE ThreadsAreDistinct
    DEF IInv, PollFreed, Goes,
        lockVars, socketVars, clientVars, frameVars, historyVars, processVars,
        Threads, Free
<1>1. TypeOK'
  BY DEF TypeOK
<1>2. NewestServed'
  BY DEF NewestServed, Connected, TypeOK
<1>3. (alive => Locking)'
  BY DEF Locking, HoldsLock, Holding, TypeOK
<1>4. (alive => Connected)'
  BY DEF Connected, Locking, HoldsLock, Holding, TypeOK
<1>5. (alive => HalfSent)'
  BY DEF HalfSent, Locking, HoldsLock, Holding, TypeOK
<1> QED BY <1>1, <1>2, <1>3, <1>4, <1>5

LEMMA ReadPingInv ==
    ASSUME IInv, NEW c \in Connections, ReadPing(c) PROVE IInv'
<1> USE ThreadsAreDistinct, ParametersAssumption DEF IInv, Threads, Free
<1>0. /\ alive /\ pc[c] = "ping" /\ alive' \in {alive, TRUE, FALSE}
      /\ pc' = [pc EXCEPT ![c] = "pong"]
      /\ \/ /\ left' = [left EXCEPT ![c] = @ - payload[c]]
            /\ payload' = [payload EXCEPT ![c] = 0]
         \/ /\ left[c] = 0
            /\ \E n \in 0..MaxParts : left' = [left EXCEPT ![c] = n]
            /\ payload' = payload
      /\ UNCHANGED <<wsLock, ws, accepted, socket, halfSent, handler, behind,
                     online, sent, faulty, pinged, listening, stopped>>
  BY DEF ReadPing, Goes, Takes, Touch, lockVars, socketVars, clientVars,
         frameVars, historyVars, processVars
<1>1. TypeOK'
  <2>1. alive' \in BOOLEAN
    BY <1>0 DEF TypeOK
  <2>2. CASE /\ left' = [left EXCEPT ![c] = @ - payload[c]]
             /\ payload' = [payload EXCEPT ![c] = 0]
    <3>1. left[c] - payload[c] \in 0..MaxParts
      BY DEF TypeOK
    <3>2. /\ left' \in [Connections -> 0..MaxParts]
          /\ payload' \in [Connections -> 0..MaxParts]
          /\ \A d \in Connections : payload'[d] <= left'[d]
      BY <2>2, <3>1 DEF TypeOK
    <3> QED BY <1>0, <2>1, <3>2 DEF TypeOK
  <2>3. CASE /\ left[c] = 0
             /\ \E n \in 0..MaxParts : left' = [left EXCEPT ![c] = n]
             /\ payload' = payload
    <3>1. PICK n \in 0..MaxParts : left' = [left EXCEPT ![c] = n]
      BY <2>3
    <3>2. payload[c] = 0
      BY <2>3 DEF TypeOK
    <3>3. /\ left' \in [Connections -> 0..MaxParts]
          /\ payload' \in [Connections -> 0..MaxParts]
          /\ \A d \in Connections : payload'[d] <= left'[d]
      BY <2>3, <3>1, <3>2 DEF TypeOK
    <3> QED BY <1>0, <2>1, <3>3 DEF TypeOK
  <2> QED BY <1>0, <2>2, <2>3
<1>2. NewestServed'
  BY <1>0 DEF NewestServed, Connected, TypeOK
<1>3. (alive => Locking)'
  BY <1>0 DEF Locking, HoldsLock, Holding, TypeOK
<1>4. (alive => Connected)'
  BY <1>0 DEF Connected, Locking, HoldsLock, Holding, TypeOK
<1>5. (alive => HalfSent)'
  BY <1>0 DEF HalfSent, Locking, HoldsLock, Holding, TypeOK
<1> QED BY <1>1, <1>2, <1>3, <1>4, <1>5

LEMMA PingFailsInv ==
    ASSUME IInv, NEW c \in Connections, PingFails(c) PROVE IInv'
<1> USE ThreadsAreDistinct
    DEF IInv, PingFails, Goes, Fails,
        lockVars, socketVars, clientVars, frameVars, historyVars, processVars,
        Threads, Free
<1>1. TypeOK'
  BY DEF TypeOK
<1>2. NewestServed'
  BY DEF NewestServed, Connected, TypeOK
<1>3. (alive => Locking)'
  BY DEF Locking, HoldsLock, Holding, TypeOK
<1>4. (alive => Connected)'
  BY DEF Connected, Locking, HoldsLock, Holding, TypeOK
<1>5. (alive => HalfSent)'
  BY DEF HalfSent, Locking, HoldsLock, Holding, TypeOK
<1> QED BY <1>1, <1>2, <1>3, <1>4, <1>5

LEMMA PongHeaderInv ==
    ASSUME IInv, NEW c \in Connections, PongHeader(c) PROVE IInv'
<1> USE ThreadsAreDistinct
    DEF IInv, PongHeader, Goes, Touch,
        lockVars, socketVars, clientVars, frameVars, historyVars, processVars,
        Threads, Free
<1>1. TypeOK'
  BY DEF TypeOK
<1>2. NewestServed'
  BY DEF NewestServed, Connected, TypeOK
<1>3. (alive => Locking)'
  BY DEF Locking, HoldsLock, Holding, TypeOK
<1>4. (alive => Connected)'
  BY DEF Connected, Locking, HoldsLock, Holding, TypeOK
<1>5. (alive => HalfSent)'
  BY DEF HalfSent, Locking, HoldsLock, Holding, TypeOK
<1> QED BY <1>1, <1>2, <1>3, <1>4, <1>5

LEMMA PongPayloadInv ==
    ASSUME IInv, NEW c \in Connections, PongPayload(c) PROVE IInv'
<1> USE ThreadsAreDistinct
    DEF IInv, PongPayload, Goes, Onward, Touch,
        lockVars, socketVars, clientVars, frameVars, historyVars, processVars,
        Threads, Free
<1>1. TypeOK'
  BY DEF TypeOK
<1>2. NewestServed'
  BY DEF NewestServed, Connected, TypeOK
<1>3. (alive => Locking)'
  BY DEF Locking, HoldsLock, Holding, TypeOK
<1>4. (alive => Connected)'
  BY DEF Connected, Locking, HoldsLock, Holding, TypeOK
<1>5. (alive => HalfSent)'
  BY DEF HalfSent, Locking, HoldsLock, Holding, TypeOK
<1> QED BY <1>1, <1>2, <1>3, <1>4, <1>5

-----------------------------------------------------------------------------
(* The steps of a client.                                                   *)

LEMMA FrameArrivesInv ==
    ASSUME IInv, NEW c \in Connections, FrameArrives(c) PROVE IInv'
<1> USE ThreadsAreDistinct, ParametersAssumption DEF IInv, Threads, Free
<1>0. /\ alive /\ pc[c] = "poll" /\ left[c] = 0
      /\ sent[c] < MaxFrames
      /\ \E to \in {"poll", "message"} : pc' = [pc EXCEPT ![c] = to]
      /\ sent' = [sent EXCEPT ![c] = @ + 1]
      /\ \E n \in 0..MaxParts : left' = [left EXCEPT ![c] = n]
      /\ UNCHANGED <<wsLock, ws, accepted, socket, halfSent, handler, behind,
                     online, payload, faulty, pinged, listening, stopped, alive>>
  BY DEF FrameArrives, Goes, Arrives, lockVars, socketVars, clientVars,
         frameVars, historyVars, processVars
<1>1. TypeOK'
  BY <1>0 DEF TypeOK
<1>2. NewestServed'
  BY <1>0 DEF NewestServed, Connected, TypeOK
<1>3. (alive => Locking)'
  BY <1>0 DEF Locking, HoldsLock, Holding, TypeOK
<1>4. (alive => Connected)'
  BY <1>0 DEF Connected, Locking, HoldsLock, Holding, TypeOK
<1>5. (alive => HalfSent)'
  BY <1>0 DEF HalfSent, Locking, HoldsLock, Holding, TypeOK
<1> QED BY <1>1, <1>2, <1>3, <1>4, <1>5

LEMMA PingArrivesInv ==
    ASSUME IInv, NEW c \in Connections, PingArrives(c) PROVE IInv'
<1> USE ThreadsAreDistinct, ParametersAssumption DEF IInv, Threads, Free
<1>0. /\ alive /\ pc[c] = "poll" /\ left[c] = 0
      /\ sent[c] < MaxFrames
      /\ pc' = [pc EXCEPT ![c] = "ping"]
      /\ sent' = [sent EXCEPT ![c] = @ + 1]
      /\ \E n \in 0..MaxParts : left' = [left EXCEPT ![c] = n]
      /\ faulty' \in {faulty, faulty \cup {c}}
      /\ pinged' = pinged \cup {c}
      /\ UNCHANGED <<wsLock, ws, accepted, socket, halfSent, handler, behind,
                     online, payload, listening, stopped, alive>>
  BY DEF PingArrives, Goes, Arrives, lockVars, socketVars, clientVars,
         frameVars, historyVars, processVars
<1>1. TypeOK'
  BY <1>0 DEF TypeOK
<1>2. NewestServed'
  BY <1>0 DEF NewestServed, Connected, TypeOK
<1>3. (alive => Locking)'
  BY <1>0 DEF Locking, HoldsLock, Holding, TypeOK
<1>4. (alive => Connected)'
  BY <1>0 DEF Connected, Locking, HoldsLock, Holding, TypeOK
<1>5. (alive => HalfSent)'
  BY <1>0 DEF HalfSent, Locking, HoldsLock, Holding, TypeOK
<1> QED BY <1>1, <1>2, <1>3, <1>4, <1>5

LEMMA PartArrivesInv ==
    ASSUME IInv, NEW c \in Connections, PartArrives(c) PROVE IInv'
<1> USE ThreadsAreDistinct, ParametersAssumption DEF IInv, Threads, Free
<1>0. /\ alive /\ payload[c] < left[c]
      /\ payload' = [payload EXCEPT ![c] = @ + 1]
      /\ UNCHANGED <<wsLock, ws, accepted, socket, halfSent, pc, handler, behind,
                     online, sent, left, faulty, pinged, listening, stopped,
                     alive>>
  BY DEF PartArrives, lockVars, socketVars, clientVars,
         frameVars, historyVars, processVars
<1>1. TypeOK'
  BY <1>0 DEF TypeOK
<1>2. NewestServed'
  BY <1>0 DEF NewestServed, Connected, TypeOK
<1>3. (alive => Locking)'
  BY <1>0 DEF Locking, HoldsLock, Holding, TypeOK
<1>4. (alive => Connected)'
  BY <1>0 DEF Connected, Locking, HoldsLock, Holding, TypeOK
<1>5. (alive => HalfSent)'
  BY <1>0 DEF HalfSent, Locking, HoldsLock, Holding, TypeOK
<1> QED BY <1>1, <1>2, <1>3, <1>4, <1>5

LEMMA HeaderStallsInv ==
    ASSUME IInv, NEW c \in Connections, HeaderStalls(c) PROVE IInv'
<1> USE ThreadsAreDistinct
    DEF IInv, HeaderStalls, Goes, Frees,
        lockVars, socketVars, clientVars, frameVars, historyVars, processVars,
        Threads, Free
<1>1. TypeOK'
  BY DEF TypeOK
<1>2. NewestServed'
  BY DEF NewestServed, Connected, TypeOK
<1>3. (alive => Locking)'
  BY DEF Locking, HoldsLock, Holding, TypeOK
<1>4. (alive => Connected)'
  BY DEF Connected, Locking, HoldsLock, Holding, TypeOK
<1>5. (alive => HalfSent)'
  BY DEF HalfSent, Locking, HoldsLock, Holding, TypeOK
<1> QED BY <1>1, <1>2, <1>3, <1>4, <1>5

LEMMA LeaveInv ==
    ASSUME IInv, NEW c \in Connections, Leave(c) PROVE IInv'
<1> USE ThreadsAreDistinct
    DEF IInv, Leave,
        lockVars, socketVars, clientVars, frameVars, historyVars, processVars,
        Threads, Free
<1>1. TypeOK'
  BY DEF TypeOK
<1>2. NewestServed'
  BY DEF NewestServed, Connected, TypeOK
<1>3. (alive => Locking)'
  BY DEF Locking, HoldsLock, Holding, TypeOK
<1>4. (alive => Connected)'
  BY DEF Connected, Locking, HoldsLock, Holding, TypeOK
<1>5. (alive => HalfSent)'
  BY DEF HalfSent, Locking, HoldsLock, Holding, TypeOK
<1> QED BY <1>1, <1>2, <1>3, <1>4, <1>5

-----------------------------------------------------------------------------
(* The steps of SendMsg.                                                    *)

LEMMA TestSocketInv ==
    ASSUME IInv, NEW t \in Senders, TestSocket(t) PROVE IInv'
<1> USE ThreadsAreDistinct
    DEF IInv, TestSocket, Goes, JustGoes,
        lockVars, socketVars, clientVars, frameVars, historyVars, processVars,
        Threads, Free
<1>1. TypeOK'
  BY DEF TypeOK
<1>2. NewestServed'
  BY DEF NewestServed, Connected, TypeOK
<1>3. (alive => Locking)'
  BY DEF Locking, HoldsLock, Holding, TypeOK
<1>4. (alive => Connected)'
  BY DEF Connected, Locking, HoldsLock, Holding, TypeOK
<1>5. (alive => HalfSent)'
  BY DEF HalfSent, Locking, HoldsLock, Holding, TypeOK
<1> QED BY <1>1, <1>2, <1>3, <1>4, <1>5

LEMMA LockToSendInv ==
    ASSUME IInv, NEW t \in Senders, LockToSend(t) PROVE IInv'
<1> USE ThreadsAreDistinct
    DEF IInv, LockToSend, Goes, Locks, LockIsFree,
        lockVars, socketVars, clientVars, frameVars, historyVars, processVars,
        Threads, Free
<1>1. TypeOK'
  BY DEF TypeOK
<1>2. NewestServed'
  BY DEF NewestServed, Connected, TypeOK
<1>3. (alive => Locking)'
  BY DEF Locking, HoldsLock, Holding, TypeOK
<1>4. (alive => Connected)'
  BY DEF Connected, Locking, HoldsLock, Holding, TypeOK
<1>5. (alive => HalfSent)'
  BY DEF HalfSent, Locking, HoldsLock, Holding, TypeOK
<1> QED BY <1>1, <1>2, <1>3, <1>4, <1>5

LEMMA WriteHeaderInv ==
    ASSUME IInv, NEW t \in Senders, WriteHeader(t) PROVE IInv'
<1> USE ThreadsAreDistinct
    DEF IInv, WriteHeader, Goes, Touch,
        lockVars, socketVars, clientVars, frameVars, historyVars, processVars,
        Threads, Free
<1>1. TypeOK'
  <2>1. alive' \in BOOLEAN
    BY DEF TypeOK
  <2>2. halfSent' \in [Connections -> SUBSET (Senders \cup Connections)]
    <3>1. \/ halfSent' = halfSent
          \/ ws # Null /\ halfSent' = [halfSent EXCEPT ![ws] = @ \cup {t}]
      OBVIOUS
    <3>2. CASE halfSent' = halfSent
      BY <3>2 DEF TypeOK
    <3>3. CASE ws # Null /\ halfSent' = [halfSent EXCEPT ![ws] = @ \cup {t}]
      <4>1. halfSent[ws] \cup {t} \in SUBSET (Senders \cup Connections)
        BY <3>3 DEF TypeOK
      <4> QED BY <3>3, <4>1 DEF TypeOK
    <3> QED BY <3>1, <3>2, <3>3
  <2>3. UNCHANGED <<wsLock, ws, accepted, socket, handler, behind, online, sent,
                    left, payload, faulty, pinged, listening, stopped>>
    OBVIOUS
  <2>4. \E to \in {"crashed", "payload"} : pc' = [pc EXCEPT ![t] = to]
    OBVIOUS
  <2> QED BY <2>1, <2>2, <2>3, <2>4 DEF TypeOK
<1>2. NewestServed'
  BY DEF NewestServed, Connected, TypeOK
<1>3. (alive => Locking)'
  BY DEF Locking, HoldsLock, Holding, TypeOK
<1>4. (alive => Connected)'
  BY DEF Connected, Locking, HoldsLock, Holding, TypeOK
<1>5. (alive => HalfSent)'
  <2> SUFFICES ASSUME alive' PROVE HalfSent'
    OBVIOUS
  <2>1. /\ alive /\ ws \in Connections
        /\ pc' = [pc EXCEPT ![t] = "payload"]
        /\ halfSent' \in {halfSent, [halfSent EXCEPT ![ws] = @ \cup {t}]}
        /\ UNCHANGED <<ws, pinged>>
    BY DEF TypeOK
  <2>2. \A c \in Connections, u \in Senders :
           u \in halfSent'[c] => pc'[u] = "payload" /\ ws' = c
    BY <2>1 DEF HalfSent, TypeOK
  <2>3. \A c, d \in Connections : d \in halfSent'[c] => d = c /\ c \in pinged'
    <3>1. CASE halfSent' = halfSent
      BY <2>1, <3>1 DEF HalfSent
    <3>2. CASE halfSent' = [halfSent EXCEPT ![ws] = @ \cup {t}]
      <4>1. \A c, d \in Connections : d \in halfSent'[c] => d \in halfSent[c]
        BY <3>2 DEF TypeOK
      <4> QED BY <2>1, <4>1 DEF HalfSent
    <3> QED BY <2>1, <3>1, <3>2
  <2>4. \A c \in Connections : pc'[c] = pc[c]
    BY <2>1 DEF TypeOK
  <2> QED BY <2>1, <2>2, <2>3, <2>4 DEF HalfSent
<1> QED BY <1>1, <1>2, <1>3, <1>4, <1>5

LEMMA WritePayloadInv ==
    ASSUME IInv, NEW t \in Senders, WritePayload(t) PROVE IInv'
<1> USE ThreadsAreDistinct
    DEF IInv, WritePayload, Goes, Touch,
        lockVars, socketVars, clientVars, frameVars, historyVars, processVars,
        Threads, Free
<1>1. TypeOK'
  BY DEF TypeOK
<1>2. NewestServed'
  BY DEF NewestServed, Connected, TypeOK
<1>3. (alive => Locking)'
  BY DEF Locking, HoldsLock, Holding, TypeOK
<1>4. (alive => Connected)'
  BY DEF Connected, Locking, HoldsLock, Holding, TypeOK
<1>5. (alive => HalfSent)'
  BY DEF HalfSent, Locking, HoldsLock, Holding, TypeOK
<1> QED BY <1>1, <1>2, <1>3, <1>4, <1>5

LEMMA UnlockSentInv ==
    ASSUME IInv, NEW t \in Senders, UnlockSent(t) PROVE IInv'
<1> USE ThreadsAreDistinct
    DEF IInv, UnlockSent, Goes, Unlocks,
        lockVars, socketVars, clientVars, frameVars, historyVars, processVars,
        Threads, Free
<1>1. TypeOK'
  BY DEF TypeOK
<1>2. NewestServed'
  BY DEF NewestServed, Connected, TypeOK
<1>3. (alive => Locking)'
  BY DEF Locking, HoldsLock, Holding, TypeOK
<1>4. (alive => Connected)'
  BY DEF Connected, Locking, HoldsLock, Holding, TypeOK
<1>5. (alive => HalfSent)'
  BY DEF HalfSent, Locking, HoldsLock, Holding, TypeOK
<1> QED BY <1>1, <1>2, <1>3, <1>4, <1>5

-----------------------------------------------------------------------------
(* The steps of Shutdown.                                                   *)

LEMMA StopInv ==
    ASSUME IInv, Stop PROVE IInv'
<1> USE ThreadsAreDistinct
    DEF IInv, Stop, Goes, JustGoes,
        lockVars, socketVars, clientVars, frameVars, historyVars, processVars,
        Threads, Free
<1>1. TypeOK'
  BY DEF TypeOK
<1>2. NewestServed'
  BY DEF NewestServed, Connected, TypeOK
<1>3. (alive => Locking)'
  BY DEF Locking, HoldsLock, Holding, TypeOK
<1>4. (alive => Connected)'
  BY DEF Connected, Locking, HoldsLock, Holding, TypeOK
<1>5. (alive => HalfSent)'
  BY DEF HalfSent, Locking, HoldsLock, Holding, TypeOK
<1> QED BY <1>1, <1>2, <1>3, <1>4, <1>5

LEMMA LockToStopInv ==
    ASSUME IInv, LockToStop PROVE IInv'
<1> USE ThreadsAreDistinct
    DEF IInv, LockToStop, Goes, Locks, LockIsFree,
        lockVars, socketVars, clientVars, frameVars, historyVars, processVars,
        Threads, Free
<1>1. TypeOK'
  BY DEF TypeOK
<1>2. NewestServed'
  BY DEF NewestServed, Connected, TypeOK
<1>3. (alive => Locking)'
  BY DEF Locking, HoldsLock, Holding, TypeOK
<1>4. (alive => Connected)'
  BY DEF Connected, Locking, HoldsLock, Holding, TypeOK
<1>5. (alive => HalfSent)'
  BY DEF HalfSent, Locking, HoldsLock, Holding, TypeOK
<1> QED BY <1>1, <1>2, <1>3, <1>4, <1>5

LEMMA StopListeningInv ==
    ASSUME IInv, StopListening PROVE IInv'
<1> USE ThreadsAreDistinct
    DEF IInv, StopListening, Goes, FreeSocket, Touch,
        lockVars, socketVars, clientVars, frameVars, historyVars, processVars,
        Threads, Free
<1>1. TypeOK'
  BY DEF TypeOK
<1>2. NewestServed'
  BY DEF NewestServed, Connected, TypeOK
<1>3. (alive => Locking)'
  BY DEF Locking, HoldsLock, Holding, TypeOK
<1>4. (alive => Connected)'
  BY DEF Connected, Locking, HoldsLock, Holding, TypeOK
<1>5. (alive => HalfSent)'
  BY DEF HalfSent, Locking, HoldsLock, Holding, TypeOK
<1> QED BY <1>1, <1>2, <1>3, <1>4, <1>5

LEMMA InterruptInv ==
    ASSUME IInv, Interrupt PROVE IInv'
<1> USE ThreadsAreDistinct
    DEF IInv, Interrupt,
        lockVars, socketVars, clientVars, frameVars, historyVars, processVars,
        Threads, Free
<1>1. TypeOK'
  BY DEF TypeOK
<1>2. NewestServed'
  BY DEF NewestServed, Connected, TypeOK
<1>3. (alive => Locking)'
  BY DEF Locking, HoldsLock, Holding, TypeOK
<1>4. (alive => Connected)'
  BY DEF Connected, Locking, HoldsLock, Holding, TypeOK
<1>5. (alive => HalfSent)'
  BY DEF HalfSent, Locking, HoldsLock, Holding, TypeOK
<1> QED BY <1>1, <1>2, <1>3, <1>4, <1>5

LEMMA LockInHandlerInv ==
    ASSUME IInv, LockInHandler PROVE IInv'
<1> USE ThreadsAreDistinct
    DEF IInv, LockInHandler, LockIsFree,
        lockVars, socketVars, clientVars, frameVars, historyVars, processVars,
        Threads, Free
<1>1. TypeOK'
  BY DEF TypeOK
<1>2. NewestServed'
  BY DEF NewestServed, Connected, TypeOK
<1>3. (alive => Locking)'
  BY DEF Locking, HoldsLock, Holding, TypeOK
<1>4. (alive => Connected)'
  BY DEF Connected, Locking, HoldsLock, Holding, TypeOK
<1>5. (alive => HalfSent)'
  BY DEF HalfSent, Locking, HoldsLock, Holding, TypeOK
<1> QED BY <1>1, <1>2, <1>3, <1>4, <1>5

LEMMA StopInHandlerInv ==
    ASSUME IInv, StopInHandler PROVE IInv'
<1> USE ThreadsAreDistinct
    DEF IInv, StopInHandler, FreeSocket, Touch,
        lockVars, socketVars, clientVars, frameVars, historyVars, processVars,
        Threads, Free
<1>1. TypeOK'
  BY DEF TypeOK
<1>2. NewestServed'
  BY DEF NewestServed, Connected, TypeOK
<1>3. (alive => Locking)'
  BY DEF Locking, HoldsLock, Holding, TypeOK
<1>4. (alive => Connected)'
  BY DEF Connected, Locking, HoldsLock, Holding, TypeOK
<1>5. (alive => HalfSent)'
  BY DEF HalfSent, Locking, HoldsLock, Holding, TypeOK
<1> QED BY <1>1, <1>2, <1>3, <1>4, <1>5

-----------------------------------------------------------------------------
LEMMA StutterInv == ASSUME IInv, UNCHANGED vars PROVE IInv'
BY DEF vars, IInv, TypeOK, NewestServed, Locking, HoldsLock, Connected, HalfSent

LEMMA Invariance == Spec => []IInv
<1>1. IInv /\ [Next]_vars => IInv'
  <2> SUFFICES ASSUME IInv, [Next]_vars PROVE IInv'
    OBVIOUS
  <2>1. ASSUME NEW c \in Connections, Connecting(c) PROVE IInv'
    BY <2>1, RequestInv, TakeInv, LockToConnectInv, ReplaceInv, AcceptInv,
       AssignInv, RefuseInv, UnlockConnectedInv DEF Connecting
  <2>2. ASSUME NEW c \in Connections, Serving(c) PROVE IInv'
    BY <2>2, LockToReadInv, ReadInv, ReadFailsInv, HandledInv, PollAgainInv,
       CloseInv, PollFreedInv, ReadPingInv, PingFailsInv, PongHeaderInv,
       PongPayloadInv DEF Serving, Ping
  <2>3. ASSUME NEW c \in Connections, Client(c) PROVE IInv'
    BY <2>3, FrameArrivesInv, PingArrivesInv, PartArrivesInv, HeaderStallsInv,
       LeaveInv DEF Client
  <2>4. ASSUME NEW t \in Senders, SendMsg(t) PROVE IInv'
    BY <2>4, TestSocketInv, LockToSendInv, WriteHeaderInv, WritePayloadInv,
       UnlockSentInv DEF SendMsg
  <2>5. ASSUME Shutdown PROVE IInv'
    BY <2>5, StopInv, LockToStopInv, StopListeningInv, InterruptInv,
       LockInHandlerInv, StopInHandlerInv DEF Shutdown
  <2> QED BY <2>1, <2>2, <2>3, <2>4, <2>5, StutterInv DEF Next, Stay
<1> QED BY InitInv, <1>1, PTL DEF Spec

-----------------------------------------------------------------------------
(* Every variable of the server keeps its type.                             *)
THEOREM ServerTypes == Spec => []TypeOK
BY Invariance, PTL DEF IInv

(* wsLock is held by the thread in a critical section, or for ever because  *)
(* a plain request was refused: there is no other way to lose it.           *)
THEOREM LockIsAccountedFor == Spec => []LockHolders
<1>1. IInv => LockHolders
  BY DEF IInv, LockHolders, Locking
<1> QED BY Invariance, <1>1, PTL

(* ws leads to the client that connected last, or to nobody.                *)
THEOREM NewsGoesToNewest == Spec => []NewestServed
BY Invariance, PTL DEF IInv

(* The two writes of a message are never separated by another message, and  *)
(* by a PONG only where the client itself sent a PING.                      *)
THEOREM MessagesStayWhole == Spec => []WholeFrames
<1>1. IInv => WholeFrames
  <2> SUFFICES ASSUME IInv, alive, NEW c \in Connections,
                      NEW t \in halfSent[c], NEW u \in halfSent[c]
               PROVE  t = u \/ (c \in pinged /\ c \in {t, u})
    BY DEF WholeFrames
  <2>1. t \in Senders \cup Connections /\ u \in Senders \cup Connections
    BY DEF IInv, TypeOK
  <2>2. CASE t \in Senders /\ u \in Senders
    <3>1. HoldsLock(t) /\ HoldsLock(u)
      BY <2>2 DEF IInv, HalfSent, HoldsLock, Holding
    <3> QED BY <2>2, <3>1 DEF IInv, Locking, Threads
  <2>3. CASE t \in Connections \/ u \in Connections
    BY <2>3 DEF IInv, HalfSent
  <2> QED BY <2>1, <2>2, <2>3
<1> QED BY Invariance, <1>1, PTL

-----------------------------------------------------------------------------
(* What is freed, and when ws is Null: for SafeWhileServing.                *)

(* The connections that OnConnect accepted are those that came past it.     *)
AcceptedOnes ==
    \A c \in Connections :
       /\ c \in ToSet(accepted) => pc[c] \notin {"idle", "queued", "connect",
                                                    "replace", "new"}
       /\ pc[c] \in {"assign", "callback", "poll", "message", "read", "command",
                    "ping", "pong", "ponging", "ending"}
             => c \in ToSet(accepted)
       /\ c \in ToSet(accepted) <=> socket[c] # "none"
       /\ ws = c => c \in ToSet(accepted)

(* An onion_websocket is freed because its client left or did not finish a  *)
(* header, or by Shutdown; a connection ends because its client left or let *)
(* a read time out; and who sent an empty PING is known.                    *)
FreedWhenLeft ==
    \A c \in Connections :
       /\ socket[c] = "freed" => stopped \/ ~online[c] \/ c \in faulty
       /\ pc[c] = "ending" => ~online[c] \/ c \in faulty
       /\ pc[c] = "ping" /\ left[c] = 0 => c \in faulty

(* Once somebody was connected, ws is Null only while a thread in OnConnect *)
(* holds the lock, or kept it when it refused a request; and a thread that  *)
(* goes to send saw somebody connected.                                     *)
NullBriefly ==
    alive => /\ \A t \in Senders : pc[t] \in {"send", "header"} => accepted # <<>>
             /\ ws = Null /\ accepted # <<>> =>
                   \/ stopped
                   \/ /\ wsLock \in Connections
                      /\ pc[wsLock] \in {"new", "assign", "closed"}

SInv == AcceptedOnes /\ FreedWhenLeft /\ NullBriefly /\ SafeWhileServing

LEMMA AppendToSet ==
    ASSUME NEW S, NEW s \in Seq(S), NEW e \in S
    PROVE  ToSet(Append(s, e)) = ToSet(s) \cup {e}
<1> DEFINE t == Append(s, e)
<1>1. /\ DOMAIN s = 1..Len(s) /\ DOMAIN t = 1..Len(s) + 1
      /\ Len(s) \in Nat
      /\ \A i \in 1..Len(s) : t[i] = s[i]
      /\ t[Len(s) + 1] = e
  OBVIOUS
<1>2. \A i \in DOMAIN t : t[i] \in {s[j] : j \in DOMAIN s} \cup {e}
  BY <1>1
<1>3. \A i \in DOMAIN s : i \in DOMAIN t /\ t[i] = s[i]
  BY <1>1
<1>4. Len(s) + 1 \in DOMAIN t
  BY <1>1
<1> HIDE DEF t
<1> QED BY <1>1, <1>2, <1>3, <1>4 DEF ToSet

LEMMA InitSInv == Init => SInv
BY ThreadsAreDistinct
   DEF Init, SInv, AcceptedOnes, FreedWhenLeft, NullBriefly, SafeWhileServing,
       ToSet, Threads, Free

(* The steps of OnConnect.                                                  *)
LEMMA ConnectingSInv ==
    ASSUME IInv, SInv, NEW c \in Connections, Connecting(c) PROVE SInv'
<1> USE ThreadsAreDistinct
    DEF IInv, TypeOK, SInv, AcceptedOnes, FreedWhenLeft, NullBriefly,
        SafeWhileServing, Goes, JustGoes, Locks, Unlocks, LockIsFree, Touch,
        lockVars, socketVars, clientVars, frameVars, historyVars, processVars,
        Threads, Free
<1>1. CASE Request(c)
  BY <1>1 DEF Request
<1>8. CASE Take(c)
  BY <1>8 DEF Take
<1>2. CASE LockToConnect(c)
  BY <1>2 DEF LockToConnect
<1>3. CASE Replace(c)
  <2>1. wsLock = c
    BY <1>3 DEF Replace, Locking, HoldsLock, Holding
  <2> QED BY <1>3, <2>1 DEF Replace
<1>4. CASE Accept(c)
  <2>1. wsLock = c /\ ws = Null
    BY <1>4 DEF Accept, Locking, Connected, HoldsLock, Holding
  <2>2. ToSet(accepted') = ToSet(accepted) \cup {c}
    BY <1>4, AppendToSet DEF Accept
  <2>3. AcceptedOnes'
    BY <1>4, <2>1, <2>2 DEF Accept
  <2>4. FreedWhenLeft'
    BY <1>4 DEF Accept
  <2>5. NullBriefly'
    BY <1>4, <2>1 DEF Accept
  <2>6. SafeWhileServing'
    BY <1>4, <2>2 DEF Accept
  <2> QED BY <2>3, <2>4, <2>5, <2>6
<1>5. CASE Assign(c)
  BY <1>5 DEF Assign
<1>6. CASE Refuse(c)
  <2>1. wsLock = c
    BY <1>6 DEF Refuse, Locking, HoldsLock, Holding
  <2> QED BY <1>6, <2>1 DEF Refuse
<1>7. CASE UnlockConnected(c)
  <2>1. wsLock = c /\ accepted # <<>>
    BY <1>7 DEF UnlockConnected, Locking, HoldsLock, Holding, ToSet
  <2> QED BY <1>7, <2>1 DEF UnlockConnected
<1> QED BY <1>1, <1>2, <1>3, <1>4, <1>5, <1>6, <1>7, <1>8 DEF Connecting

(* The steps of OnMessage and of onion's polling: a read that fails was of a *)
(* client that has left, or whose time was over.                            *)
LEMMA ServingSInv ==
    ASSUME IInv, SInv, NEW c \in Connections, Serving(c) PROVE SInv'
<1> USE ThreadsAreDistinct
    DEF IInv, TypeOK, SInv, AcceptedOnes, FreedWhenLeft, NullBriefly,
        SafeWhileServing, Goes, JustGoes, Locks, Touch, Onward, Takes, Fails,
        lockVars, socketVars, clientVars, frameVars, historyVars, processVars,
        Threads, Free
<1>1. CASE LockToRead(c)
  BY <1>1 DEF LockToRead, LockIsFree
<1>2. CASE Read(c)
  <2>1. wsLock = c
    BY <1>2 DEF Read, Locking, HoldsLock, Holding
  <2>2. /\ pc[c] = "read" /\ wsLock' = Free
        /\ \E to \in {"command", "message", "poll"} : pc' = [pc EXCEPT ![c] = to]
        /\ \A d \in Connections : d # c => left'[d] = left[d]
        /\ UNCHANGED <<ws, accepted, socket, online, faulty, stopped>>
    BY <1>2 DEF Read
  <2>3. ~alive' => socket[c] # "open"
    BY <1>2 DEF Read
  <2>4. AcceptedOnes' /\ FreedWhenLeft'
    BY <2>2
  <2>5. NullBriefly'
    <3>1. alive /\ (ws = Null /\ accepted # <<>> => stopped)
      BY <1>2, <2>1, <2>2 DEF Read
    <3>2. \A t \in Senders : pc'[t] = pc[t]
      BY <2>2
    <3> QED BY <2>2, <3>1, <3>2
  <2>6. SafeWhileServing'
    BY <2>2, <2>3
  <2> QED BY <2>4, <2>5, <2>6
<1>3. CASE ReadFails(c)
  <2>1. wsLock = c
    BY <1>3 DEF ReadFails, Locking, HoldsLock, Holding
  <2> QED BY <1>3, <2>1 DEF ReadFails
<1>4. CASE Handled(c)
  BY <1>4 DEF Handled
<1>5. CASE PollAgain(c)
  BY <1>5 DEF PollAgain
<1>6. CASE Close(c)
  <2>1. /\ pc[c] \in {"poll", "ending"} /\ pc' = [pc EXCEPT ![c] = "closed"]
        /\ socket[c] = "open" /\ socket' = [socket EXCEPT ![c] = "freed"]
        /\ UNCHANGED <<wsLock, ws, accepted, online, left, faulty, stopped, alive>>
    BY <1>6 DEF Close, Frees, frameVars
  <2>2. ~online[c] \/ c \in faulty
    BY <1>6 DEF Close, Frees
  <2> QED BY <2>1, <2>2
<1>7. CASE PollFreed(c)
  BY <1>7 DEF PollFreed
<1>8. CASE ReadPing(c)
  <2>1. /\ pc[c] = "ping" /\ pc' = [pc EXCEPT ![c] = "pong"]
        /\ \A d \in Connections : d # c => left'[d] = left[d]
        /\ UNCHANGED <<wsLock, ws, accepted, socket, online, faulty, stopped>>
    BY <1>8 DEF ReadPing
  <2>2. ~alive' => ~alive \/ socket[c] # "open" \/ left[c] = 0
    BY <1>8 DEF ReadPing
  <2>3. AcceptedOnes' /\ FreedWhenLeft'
    BY <2>1
  <2>4. NullBriefly'
    BY <1>8, <2>1 DEF ReadPing
  <2>5. SafeWhileServing'
    BY <2>1, <2>2
  <2> QED BY <2>3, <2>4, <2>5
<1>9. CASE PingFails(c)
  BY <1>9 DEF PingFails
<1>10. CASE PongHeader(c)
  BY <1>10 DEF PongHeader
<1>11. CASE PongPayload(c)
  BY <1>11 DEF PongPayload
<1> QED BY <1>1, <1>2, <1>3, <1>4, <1>5, <1>6, <1>7, <1>8, <1>9, <1>10, <1>11
        DEF Serving, Ping

(* The steps of a client.                                                   *)
LEMMA ClientSInv ==
    ASSUME IInv, SInv, NEW c \in Connections, Client(c) PROVE SInv'
<1> USE ThreadsAreDistinct
    DEF IInv, TypeOK, SInv, AcceptedOnes, FreedWhenLeft, NullBriefly,
        SafeWhileServing, Goes, Arrives, Frees, lockVars, socketVars, clientVars,
        frameVars, historyVars, processVars, Threads, Free
<1>1. CASE FrameArrives(c) \/ PingArrives(c)
  <2>1. /\ pc[c] = "poll"
        /\ \A d \in Connections : d # c => left'[d] = left[d]
        /\ UNCHANGED <<wsLock, ws, accepted, socket, online, stopped, alive>>
    BY <1>1 DEF FrameArrives, PingArrives
  <2>2. \/ /\ pc' \in {[pc EXCEPT ![c] = "poll"], [pc EXCEPT ![c] = "message"]}
           /\ faulty' = faulty
        \/ /\ pc' = [pc EXCEPT ![c] = "ping"]
           /\ faulty \subseteq faulty' /\ (left'[c] = 0 => c \in faulty')
    <3>1. CASE FrameArrives(c)
      BY <3>1 DEF FrameArrives
    <3>2. CASE PingArrives(c)
      <4>1. PICK n \in 0..MaxParts :
               /\ left' = [left EXCEPT ![c] = n]
               /\ faulty' = IF n = 0 THEN faulty \cup {c} ELSE faulty
        BY <3>2 DEF PingArrives
      <4>2. left'[c] = n
        BY <4>1
      <4> QED BY <3>2, <4>1, <4>2 DEF PingArrives
    <3> QED BY <1>1, <3>1, <3>2
  <2>3. AcceptedOnes'
    BY <2>1, <2>2
  <2>4. FreedWhenLeft'
    BY <2>1, <2>2
  <2>5. NullBriefly' /\ SafeWhileServing'
    BY <2>1, <2>2
  <2> QED BY <2>3, <2>4, <2>5
<1>2. CASE PartArrives(c)
  BY <1>2 DEF PartArrives
<1>3. CASE HeaderStalls(c)
  <2>1. /\ pc[c] = "poll" /\ pc' = [pc EXCEPT ![c] = "closed"]
        /\ socket[c] = "open" /\ socket' = [socket EXCEPT ![c] = "freed"]
        /\ faulty' = faulty \cup {c}
        /\ UNCHANGED <<wsLock, ws, accepted, online, left, stopped, alive>>
    BY <1>3 DEF HeaderStalls
  <2> QED BY <2>1
<1>4. CASE Leave(c)
  <2>1. /\ \A d \in Connections : online'[d] => online[d]
        /\ UNCHANGED <<wsLock, ws, accepted, socket, pc, left, faulty, stopped,
                       alive>>
    BY <1>4 DEF Leave
  <2>2. AcceptedOnes' /\ NullBriefly'
    BY <2>1
  <2>3. FreedWhenLeft'
    BY <2>1
  <2>4. SafeWhileServing'
    <3>1. ToSet(accepted) \subseteq Connections
      BY DEF ToSet
    <3> QED BY <2>1, <3>1
  <2> QED BY <2>2, <2>3, <2>4
<1> QED BY <1>1, <1>2, <1>3, <1>4 DEF Client

(* The steps of SendMsg: ws is not Null when its lock is held, though it    *)
(* was tested before, and what it points to is not freed.                   *)
LEMMA SendMsgSInv ==
    ASSUME IInv, SInv, NEW t \in Senders, SendMsg(t) PROVE SInv'
<1> USE ThreadsAreDistinct
    DEF IInv, TypeOK, SInv, AcceptedOnes, FreedWhenLeft, NullBriefly,
        SafeWhileServing, Goes, JustGoes, Locks, Unlocks, LockIsFree, Touch,
        lockVars, socketVars, clientVars, frameVars, historyVars, processVars,
        Threads, Free
<1>1. CASE TestSocket(t)
  <2>1. accepted # <<>>
    BY <1>1 DEF TestSocket, ToSet
  <2> QED BY <1>1, <2>1 DEF TestSocket
<1>2. CASE LockToSend(t)
  BY <1>2 DEF LockToSend
<1>3. CASE WriteHeader(t)
  <2>1. wsLock = t
    BY <1>3 DEF WriteHeader, Locking, HoldsLock, Holding
  <2>2. ws = Null => stopped
    BY <1>3, <2>1 DEF WriteHeader
  <2>3. /\ \E to \in {"crashed", "payload"} : pc' = [pc EXCEPT ![t] = to]
        /\ UNCHANGED <<wsLock, ws, accepted, socket, online, left, faulty,
                       stopped>>
    BY <1>3 DEF WriteHeader
  <2>4. ~alive' => ws = Null \/ socket[ws] # "open"
    BY <1>3 DEF WriteHeader
  <2>5. AcceptedOnes' /\ FreedWhenLeft'
    BY <2>3
  <2>6. NullBriefly'
    BY <1>3, <2>3 DEF WriteHeader
  <2>7. SafeWhileServing'
    BY <1>3, <2>2, <2>3, <2>4 DEF WriteHeader
  <2> QED BY <2>5, <2>6, <2>7
<1>4. CASE WritePayload(t)
  BY <1>4 DEF WritePayload
<1>5. CASE UnlockSent(t)
  <2>1. wsLock = t
    BY <1>5 DEF UnlockSent, Locking, HoldsLock, Holding
  <2> QED BY <1>5, <2>1 DEF UnlockSent
<1> QED BY <1>1, <1>2, <1>3, <1>4, <1>5 DEF SendMsg

(* The steps of Shutdown.                                                   *)
LEMMA ShutdownSInv ==
    ASSUME IInv, SInv, Shutdown PROVE SInv'
<1> USE ThreadsAreDistinct
    DEF IInv, TypeOK, SInv, AcceptedOnes, FreedWhenLeft, NullBriefly,
        SafeWhileServing, Goes, JustGoes, Locks, LockIsFree, Touch, FreeSocket,
        lockVars, socketVars, clientVars, frameVars, historyVars, processVars,
        Threads, Free
<1>1. CASE Stop
  BY <1>1 DEF Stop
<1>2. CASE LockToStop
  BY <1>2 DEF LockToStop
<1>3. CASE StopListening
  BY <1>3 DEF StopListening
<1>4. CASE Interrupt
  BY <1>4 DEF Interrupt
<1>5. CASE LockInHandler
  BY <1>5 DEF LockInHandler
<1>6. CASE StopInHandler
  BY <1>6 DEF StopInHandler
<1> QED BY <1>1, <1>2, <1>3, <1>4, <1>5, <1>6 DEF Shutdown

(* While nobody stops the server, no client that connected has left and     *)
(* none let a read time out or sent an empty PING, SendMsg never writes     *)
(* through a pointer that is null or freed, although it tests ws outside    *)
(* the lock and onion frees what ws points to, and onion calls no callback  *)
(* that it has cleared.                                                     *)
THEOREM ServesSafely == Spec => []SafeWhileServing
<1>1. IInv /\ SInv /\ [Next]_vars => SInv'
  <2> SUFFICES ASSUME IInv, SInv, [Next]_vars PROVE SInv'
    OBVIOUS
  <2>1. CASE UNCHANGED vars
    BY <2>1 DEF vars, SInv, AcceptedOnes, FreedWhenLeft, NullBriefly,
                SafeWhileServing
  <2> QED BY <2>1, ConnectingSInv, ServingSInv, ClientSInv, SendMsgSInv,
             ShutdownSInv DEF Next, Stay
<1>2. SInv => SafeWhileServing
  BY DEF SInv
<1> QED BY InitSInv, Invariance, <1>1, <1>2, PTL DEF Spec
=============================================================================
