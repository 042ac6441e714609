-------------------------- MODULE RTController_proofs --------------------------
(***************************************************************************)
(* Proofs about RTController, for any threads, any commands of clients and *)
(* any contents of the uninitialised buffers: in MCParts, which puts other *)
(* parts beside it, that it shares nothing with.                           *)
(***************************************************************************)
EXTENDS MCParts, TLAPS

(* While the program runs, where a thread is tells whether it holds the     *)
(* mutex.                                                                   *)
LockHolders ==
    mainpc # "crashed" =>
        /\ \A h \in Handlers : hpc[h] = "write" <=> userCommandMutex = h
        /\ mainpc \in {"copy", "unlock"} <=> userCommandMutex = Main

(* While no handler holds the mutex, userCommand is one client's command.   *)
Whole == /\ lastSet \in current
         /\ userCommandMutex \notin Handlers => userCommand = lastSet

(* What main has of it. *)
CopiedSoFar ==
    /\ mainpc \notin {"copy", "crashed"} => copied = 0
    /\ mainpc = "copy" => \A p \in R!Places : p < copied =>
                         /\ copiedCommand[p] = userCommand[p]
                         /\ userCommand[p] # "nul"
    /\ mainpc = "unlock" => R!Shows(userCommand)
    /\ mainpc = "choose" => \E c \in current : R!Shows(c)

IInv == /\ R!TypeOK
        /\ mainpc = "start" => started < NIdle + NIgnition + NWait
        /\ LockHolders
        /\ Whole
        /\ CopiedSoFar
        /\ R!ObeysOneClient

-----------------------------------------------------------------------------
(* The frame that a command asks for is one of the table. *)
LEMMA FrameIsKnown ==
    ASSUME NEW c \in R!Buffers
    PROVE  R!Frame(c) \in {"neutral"} \cup {R!FrameOf[k] : k \in R!Keys}
<1>1. CASE \A k \in R!Keys : c[k] # "1"
  BY <1>1 DEF R!Frame
<1>2. CASE \E k \in R!Keys : c[k] = "1"
  <2> DEFINE First(k) == c[k] = "1" /\ \A j \in R!Keys : j < k => c[j] # "1"
  <2>1. \E k \in R!Keys : First(k)
    BY <1>2 DEF R!Keys
  <2>2. (CHOOSE k \in R!Keys : First(k)) \in R!Keys
    BY <2>1
  <2> QED BY <1>2, <2>2 DEF R!Frame
<1> QED BY <1>1, <1>2

LEMMA StrCpyIsBuffer ==
    ASSUME NEW a \in R!Buffers, NEW b \in R!Buffers
    PROVE  R!StrCpy(a, b) \in R!Buffers
BY DEF R!StrCpy, R!Buffers

LEMMA InitInv == R!Init => IInv
<1> SUFFICES ASSUME R!Init PROVE IInv
  OBVIOUS
<1> USE RTAssumption DEF R!ConstantsFit
<1>1. R!TypeOK
  <2>1. (CHOOSE c \in Commands : TRUE) \in Commands
    OBVIOUS
  <2> QED BY <2>1 DEF R!Init, R!TypeOK, R!Places
<1>2. LockHolders
  BY DEF R!Init, LockHolders
<1> QED BY <1>1, <1>2 DEF R!Init, IInv, Whole, CopiedSoFar, R!ObeysOneClient

-----------------------------------------------------------------------------
(* The steps of the handlers. *)

LEMMA RequestInv == ASSUME IInv, NEW h \in Handlers, R!Request(h) PROVE IInv'
<1> USE DEF R!Request, R!Serving, IInv, R!historyVars, R!mainVars
<1>1. R!TypeOK'
  BY RTAssumption DEF R!ConstantsFit, R!TypeOK
<1>2. LockHolders'
  BY DEF R!TypeOK, LockHolders
<1> QED BY <1>1, <1>2 DEF Whole, CopiedSoFar, R!ObeysOneClient, R!Shows,
                           R!Obeys, R!IsSet, R!Asked, R!StrCpy

LEMMA RequestNothingInv ==
    ASSUME IInv, NEW h \in Handlers, R!RequestNothing(h) PROVE IInv'
<1> USE DEF R!RequestNothing, IInv, R!historyVars, R!handlerVars
<1>1. R!TypeOK'
  BY DEF R!TypeOK
<1>2. LockHolders'
  BY DEF LockHolders
<1>3. Whole'
  BY DEF Whole
<1> QED BY <1>1, <1>2, <1>3 DEF CopiedSoFar, R!ObeysOneClient

LEMMA LockToWriteInv ==
    ASSUME IInv, NEW h \in Handlers, R!LockToWrite(h) PROVE IInv'
<1> USE RTAssumption
    DEF R!ConstantsFit, R!LockToWrite, R!Serving, IInv, R!historyVars,
        R!mainVars, R!MutexIsFree
<1>1. R!TypeOK'
  BY DEF R!TypeOK
<1>2. LockHolders'
  BY DEF R!TypeOK, LockHolders
<1> QED BY <1>1, <1>2 DEF Whole, CopiedSoFar, R!ObeysOneClient, R!Shows,
                           R!Obeys, R!IsSet, R!Asked, R!StrCpy, LockHolders

LEMMA WriteInv == ASSUME IInv, NEW h \in Handlers, R!Write(h) PROVE IInv'
<1> USE DEF R!Write, R!Serving, IInv, R!historyVars, R!mainVars
<1>1. R!TypeOK'
  <2>1. written[h] \in 0..R!Flag /\ tempCommand[h] \in [0..R!Flag -> R!Bytes]
    BY RTAssumption DEF R!ConstantsFit, R!TypeOK, R!Places, R!Flag
  <2>2. tempCommand[h][written[h]] \in R!Bytes
    BY <2>1 DEF R!Bytes
  <2>3. userCommand' \in R!Buffers
    BY <2>2 DEF R!TypeOK, R!Buffers
  <2>4. written' \in [Handlers -> R!Places]
    BY <2>1 DEF R!TypeOK, R!Places, R!Flag
  <2> QED BY <2>3, <2>4 DEF R!TypeOK
<1>2. LockHolders'
  BY DEF LockHolders
<1>3. userCommandMutex = h /\ mainpc \notin {"copy", "unlock"}
  BY RTAssumption DEF R!ConstantsFit, LockHolders
<1>4. Whole'
  BY <1>3 DEF Whole
<1>5. CopiedSoFar'
  BY <1>3 DEF CopiedSoFar, R!Shows
<1>6. R!ObeysOneClient'
  BY DEF R!ObeysOneClient, R!Obeys, R!Shows, R!IsSet, R!Asked, R!StrCpy
<1> QED BY <1>1, <1>2, <1>4, <1>5, <1>6

LEMMA AnswerInv == ASSUME IInv, NEW h \in Handlers, R!Answer(h) PROVE IInv'
<1> USE DEF R!Answer, R!Serving, IInv, R!Written, R!mainVars
<1>1. R!TypeOK'
  BY DEF R!TypeOK, R!Places
<1>2. LockHolders'
  BY RTAssumption DEF R!ConstantsFit, R!TypeOK, LockHolders
<1>3. mainpc \notin {"copy", "unlock"}
  BY RTAssumption DEF R!ConstantsFit, LockHolders
<1>4. Whole'
  BY DEF Whole
<1>5. CopiedSoFar'
  BY <1>3 DEF CopiedSoFar, R!Shows
<1>6. R!ObeysOneClient'
  BY DEF R!ObeysOneClient, R!Obeys, R!Shows, R!IsSet, R!Asked, R!StrCpy
<1> QED BY <1>1, <1>2, <1>4, <1>5, <1>6

-----------------------------------------------------------------------------
(* The steps of main. *)

LEMMA StartUpInv == ASSUME IInv, R!StartUp PROVE IInv'
<1> USE DEF R!StartUp, IInv, R!historyVars, R!handlerVars
<1>1. R!TypeOK' /\ (mainpc' = "start" => started' < NIdle + NIgnition + NWait)
  BY RTAssumption DEF R!ConstantsFit, R!TypeOK
<1>2. LockHolders'
  BY DEF LockHolders
<1> QED BY <1>1, <1>2 DEF Whole, CopiedSoFar, R!ObeysOneClient

LEMMA LockToCopyInv == ASSUME IInv, R!LockToCopy PROVE IInv'
<1> USE RTAssumption
    DEF R!ConstantsFit, R!LockToCopy, IInv, R!historyVars, R!handlerVars,
        R!MutexIsFree
<1>1. R!TypeOK'
  BY DEF R!TypeOK
<1>2. LockHolders'
  BY DEF R!TypeOK, LockHolders
<1>3. Whole'
  BY DEF Whole
<1>4. copied = 0
  BY DEF CopiedSoFar
<1>5. CopiedSoFar'
  BY <1>4 DEF CopiedSoFar, R!Places
<1> QED BY <1>1, <1>2, <1>3, <1>5 DEF R!ObeysOneClient

LEMMA CopyInv == ASSUME IInv, R!Copy PROVE IInv'
<1> USE DEF R!Copy, R!PastEnd, IInv, R!historyVars, R!handlerVars, R!Ends
<1>1. R!TypeOK'
  BY DEF R!TypeOK, R!Places, R!Buffers
<1>2. LockHolders'
  BY DEF LockHolders
<1>3. Whole'
  BY DEF Whole
<1>4. CopiedSoFar'
  BY DEF CopiedSoFar, R!TypeOK, R!Places, R!Buffers, R!Shows, R!Flag
<1> QED BY <1>1, <1>2, <1>3, <1>4 DEF R!ObeysOneClient

LEMMA UnlockInv == ASSUME IInv, R!Unlock PROVE IInv'
<1> USE RTAssumption
    DEF R!ConstantsFit, R!Unlock, IInv, R!historyVars, R!handlerVars
<1>1. R!TypeOK'
  BY DEF R!TypeOK
<1>2. LockHolders'
  BY DEF R!TypeOK, LockHolders
<1>3. userCommand = lastSet /\ lastSet \in current
  BY DEF LockHolders, Whole
<1>4. Whole'
  BY <1>3 DEF Whole
<1>5. CopiedSoFar'
  BY <1>3 DEF CopiedSoFar, R!Shows
<1> QED BY <1>1, <1>2, <1>4, <1>5 DEF R!ObeysOneClient

LEMMA ChooseInv == ASSUME IInv, R!Choose PROVE IInv'
<1> USE DEF R!Choose, R!PastEnd, IInv, R!historyVars, R!handlerVars
<1>1. R!TypeOK'
  BY StrCpyIsBuffer DEF R!TypeOK
<1>2. LockHolders'
  BY DEF LockHolders
<1>3. Whole'
  BY DEF Whole
<1>4. R!ObeysOneClient'
  <2>1. PICK c \in current : R!Shows(c)
    BY DEF CopiedSoFar
  <2>2. CASE R!IsSet(c)
    <3>1. c \in R!Buffers /\ copiedCommand \in R!Buffers
      BY DEF R!TypeOK
    <3>2. \A p \in R!Places : copiedCommand[p] = c[p]
      BY <2>1, <2>2 DEF R!Shows, R!IsSet, R!Places, R!Flag
    <3>3. copiedCommand = c
      BY <3>1, <3>2 DEF R!Buffers
    <3> QED BY <3>3, <2>2 DEF R!ObeysOneClient, R!Obeys, R!IsSet, R!Asked,
                              R!StrCpy
  <2>3. CASE ~R!IsSet(c) /\ copiedCommand[R!Flag] = "1"
    <3>1. R!Shows(autonomyCommand)'
      BY <2>3 DEF R!Shows, R!StrCpy, R!Places
    <3> QED BY <3>1, <2>3 DEF R!ObeysOneClient, R!Obeys, R!IsSet
  <2>4. CASE ~R!IsSet(c) /\ copiedCommand[R!Flag] # "1"
    <3>1. R!Shows(c)'
      BY <2>1, <2>4 DEF R!Shows
    <3> QED BY <3>1, <2>4 DEF R!ObeysOneClient, R!Obeys, R!IsSet
  <2> QED BY <2>2, <2>3, <2>4
<1> QED BY <1>1, <1>2, <1>3, <1>4 DEF CopiedSoFar

LEMMA SendInv == ASSUME IInv, R!Send PROVE IInv'
<1> USE DEF R!Send, IInv, R!handlerVars
<1>1. R!TypeOK'
  BY FrameIsKnown DEF R!TypeOK
<1>2. LockHolders'
  BY DEF LockHolders
<1>3. Whole'
  BY DEF Whole
<1> QED BY <1>1, <1>2, <1>3 DEF CopiedSoFar, R!ObeysOneClient

LEMMA StutterInv == ASSUME IInv, UNCHANGED R!vars PROVE IInv'
BY DEF R!vars, R!historyVars, R!mainVars, R!handlerVars, IInv, R!TypeOK,
       LockHolders, Whole, CopiedSoFar, R!ObeysOneClient, R!Obeys, R!Shows,
       R!IsSet, R!Asked, R!StrCpy

LEMMA Invariance == PartsSpec => []IInv
<1>1. IInv /\ [R!Next]_R!vars => IInv'
  BY RequestInv, RequestNothingInv, LockToWriteInv, WriteInv, AnswerInv,
     StartUpInv, LockToCopyInv, CopyInv, UnlockInv, ChooseInv, SendInv,
     StutterInv
     DEF R!Next
<1>2. PartsInit => IInv
  BY InitInv DEF PartsInit
<1>3. [PartsNext]_partsVars => [R!Next]_R!vars
  BY DEF PartsNext, partsVars, rtVars, R!vars, R!historyVars, R!mainVars,
         R!handlerVars
<1> QED BY <1>1, <1>2, <1>3, PTL DEF PartsSpec

(* Every variable of the program keeps its type.                            *)
THEOREM RTTypes == PartsSpec => []R!TypeOK
BY Invariance, PTL DEF IInv

(* What main sends was asked for, whole, by the client answered last before *)
(* the frame before it ended or by one answered since.                      *)
THEOREM TankObeysOneClient == PartsSpec => []ObeysOneClient
BY Invariance, PTL DEF IInv, ObeysOneClient
=============================================================================
