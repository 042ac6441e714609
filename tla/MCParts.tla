------------------------------- MODULE MCParts -------------------------------
(***************************************************************************)
(* Model checking of three parts that share nothing: the signal on the     *)
(* tank's pin (Line), the older control program (RTController) and the     *)
(* template of the program's objects (Singleton). A behaviour follows one  *)
(* of them: whatever the others do in between, the one goes on as it does  *)
(* alone.                                                                  *)
(***************************************************************************)
EXTENDS Line

CONSTANTS Main, Handlers, Commands, Garbage, NIdle, NIgnition, NWait, MaxSets,
          Threads, MaxObjects

VARIABLES part,     \* the part that the behaviour follows
          userCommand, autonomyCommand, copiedCommand, userCommandMutex, mainpc,
          copied, started, hpc, tempCommand, written, air, lastSet, current,
          sets, instance, mtx, threadpc, asks, ref, made, objects, overlapped

R == INSTANCE RTController WITH pc <- mainpc
S == INSTANCE Singleton WITH pc <- threadpc

ASSUME RTAssumption == R!ConstantsFit
ASSUME SingletonAssumption == S!ConstantsFit

rtVars == <<userCommand, autonomyCommand, userCommandMutex, lastSet, current,
            copiedCommand, mainpc, copied, started, air, hpc, tempCommand,
            written, sets>>
singletonVars ==
    <<instance, mtx, threadpc, asks, ref, made, objects, overlapped>>
partsVars == <<part, vars, rtVars, singletonVars>>

(* A part that is not followed stays in one of its initial states.          *)
PartsInit ==
    /\ part \in {"line", "rtcontroller", "singleton"}
    /\ Init /\ R!Init /\ S!Init
    /\ part # "line" => word = CHOOSE w \in Words : TRUE
    /\ part # "rtcontroller" =>
          {userCommand, autonomyCommand, copiedCommand} =
              {CHOOSE g \in Garbage : TRUE}

Follow(p) == part = p /\ UNCHANGED part

PartsNext ==
    \/ Follow("line") /\ Next /\ UNCHANGED <<rtVars, singletonVars>>
    \/ Follow("rtcontroller") /\ R!Next /\ UNCHANGED <<vars, singletonVars>>
    \/ Follow("singleton") /\ S!Next /\ UNCHANGED <<vars, rtVars>>

Driving == R!StartUp \/ R!Copy \/ R!Unlock \/ R!Choose \/ R!Send

PartsSpec ==
    /\ PartsInit /\ [][PartsNext]_partsVars
    /\ WF_rtVars(Follow("rtcontroller") /\ Driving)
    /\ SF_rtVars(Follow("rtcontroller") /\ R!LockToCopy)
    /\ \A h \in Handlers :
          /\ SF_rtVars(Follow("rtcontroller") /\ R!LockToWrite(h))
          /\ WF_rtVars(Follow("rtcontroller") /\ (R!Write(h) \/ R!Answer(h)))

-----------------------------------------------------------------------------
(* The properties of the other two; those of Line have their own names      *)
(* here.                                                                    *)
ObeysOneClient == R!ObeysOneClient
LastIsObeyed == part = "rtcontroller" => R!LastIsObeyed
OneObject == S!OneObject
ReturnsObject == S!ReturnsObject

-----------------------------------------------------------------------------
(* All frames of a few bits that start with a 1.                            *)
MCWords == {w \in [1..Width -> {0, 1}] : w[1] = 1}

(* Clients that turn and fire, ask for autonomy or send one character only, *)
(* and memory that was all zero, full or empty at its end.                  *)
CONSTANTS h1, h2

Holding(keys) == [p \in 0..8 |-> IF p \in keys THEN "1" ELSE "0"]

Short == [p \in 0..8 |-> IF p = 0 THEN "0" ELSE "nul"]

MCCommands == {Holding({2, 7}), Holding({1, 8}), Short}

MCGarbage == {[p \in 0..9 |-> "nul"], [p \in 0..9 |-> "1"],
              [p \in 0..9 |-> IF p = 4 THEN "nul" ELSE "0"]}
===============================================================================
