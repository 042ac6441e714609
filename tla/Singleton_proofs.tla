---------------------------- MODULE Singleton_proofs ----------------------------
(***************************************************************************)
(* Proofs about Singleton, for any threads and any number of calls: in     *)
(* MCParts, which puts other parts beside it, that it shares nothing with. *)
(***************************************************************************)
EXTENDS MCParts, TLAPS, FiniteSetTheorems

Inside == {"test", "change", "assign", "unlock"}

MutexHolders == \A t \in Threads : threadpc[t] \in Inside <=> mtx = t

Only(object) == IF object = S!NULL THEN {} ELSE {object}

(* What the thread inside is about to change. *)
Changing ==
    /\ \A t \in Threads : threadpc[t] = "change" =>
          ((asks[t] = "GetInstance") <=> (instance = S!NULL))
    /\ \A t \in Threads : threadpc[t] = "assign" =>
          objects = Only(ref[t]) /\ ref[t] <= made
    /\ (\A t \in Threads : threadpc[t] # "assign") => objects = Only(instance)

(* A call of GetInstance that meets none of Kill finds the object to stay. *)
Undisturbed(t) ==
    threadpc[t] # "out" /\ asks[t] = "GetInstance" /\ t \notin overlapped

Staying ==
    /\ \A t \in Threads : threadpc[t] = "assign" /\ asks[t] = "GetInstance" =>
          instance = S!NULL /\ ref[t] # S!NULL
    /\ \A t \in Threads : threadpc[t] = "read" => asks[t] = "GetInstance"
    /\ \A t \in Threads : Undisturbed(t) =>
          /\ \A u \in Threads : threadpc[u] # "out" => asks[u] # "Kill"
          /\ threadpc[t] \in {"unlock", "read"} => instance # S!NULL

IInv == S!TypeOK /\ MutexHolders /\ Changing /\ Staying

-----------------------------------------------------------------------------
LEMMA InitInv == S!Init => IInv
BY SingletonAssumption
   DEF S!ConstantsFit, S!Init, IInv, S!TypeOK, MutexHolders, Changing,
       Staying, Undisturbed, Inside, Only, S!NULL

LEMMA CallInv == ASSUME IInv, NEW t \in Threads, S!Call(t) PROVE IInv'
<1> USE DEF IInv, S!Call, S!Goes
<1>1. S!TypeOK'
  BY DEF S!TypeOK, S!Calling
<1>2. MutexHolders'
  BY DEF S!TypeOK, MutexHolders, Inside
<1>3. Changing'
  BY DEF S!TypeOK, Changing, Only
<1>4. Staying'
  BY DEF S!TypeOK, S!Calling, S!Killing, Staying, Undisturbed
<1> QED BY <1>1, <1>2, <1>3, <1>4

LEMMA LockInv == ASSUME IInv, NEW t \in Threads, S!Lock(t) PROVE IInv'
<1> USE DEF IInv, S!Lock, S!Goes
<1>1. S!TypeOK'
  BY DEF S!TypeOK
<1>2. MutexHolders'
  BY SingletonAssumption DEF S!ConstantsFit, S!TypeOK, MutexHolders, Inside
<1>3. Changing'
  BY DEF S!TypeOK, Changing, Only
<1>4. Staying'
  BY DEF S!TypeOK, Staying, Undisturbed
<1> QED BY <1>1, <1>2, <1>3, <1>4

LEMMA TestInv == ASSUME IInv, NEW t \in Threads, S!Test(t) PROVE IInv'
<1> USE DEF IInv, S!Test, S!Goes
<1>1. S!TypeOK'
  BY DEF S!TypeOK
<1>2. MutexHolders'
  BY DEF S!TypeOK, MutexHolders, Inside
<1>3. Changing'
  BY DEF S!TypeOK, Changing, Only
<1>4. Staying'
  BY DEF S!TypeOK, MutexHolders, Changing, Staying, Undisturbed
<1> QED BY <1>1, <1>2, <1>3, <1>4

(* The thread that changes the objects is the only one inside.              *)
LEMMA NobodyElse ==
    ASSUME IInv, NEW t \in Threads, threadpc[t] \in Inside
    PROVE  /\ \A u \in Threads : u # t => threadpc[u] \notin Inside
           /\ threadpc[t] # "assign" => objects = Only(instance)
BY DEF IInv, MutexHolders, Changing, Inside

LEMMA NewInv == ASSUME IInv, NEW t \in Threads, S!New(t) PROVE IInv'
<1> USE DEF IInv, S!New, S!Goes
<1>1. S!TypeOK'
  BY DEF S!TypeOK
<1>2. MutexHolders'
  BY DEF S!TypeOK, MutexHolders, Inside
<1>3. /\ \A u \in Threads : u # t => threadpc'[u] \notin Inside
      /\ objects = {}
  BY NobodyElse DEF S!TypeOK, Changing, Inside, Only
<1>4. /\ ref'[t] = made' /\ made' # S!NULL
      /\ objects' = {made'} /\ threadpc'[t] = "assign"
  BY <1>3 DEF S!TypeOK, S!NULL
<1>5. Changing'
  BY <1>3, <1>4 DEF Changing, Inside, Only, S!TypeOK
<1>6. Staying'
  BY <1>3, <1>4 DEF S!TypeOK, Changing, Inside, Staying, Undisturbed
<1> QED BY <1>1, <1>2, <1>5, <1>6

LEMMA DeleteInv == ASSUME IInv, NEW t \in Threads, S!Delete(t) PROVE IInv'
<1> USE DEF IInv, S!Delete, S!Goes
<1>1. S!TypeOK'
  BY DEF S!TypeOK, S!NULL
<1>2. MutexHolders'
  BY DEF S!TypeOK, MutexHolders, Inside
<1>3. /\ \A u \in Threads : u # t => threadpc'[u] \notin Inside
      /\ objects = {instance}
  BY NobodyElse DEF S!TypeOK, Changing, Inside, Only
<1>4. ref'[t] = S!NULL /\ objects' = {} /\ threadpc'[t] = "assign"
  BY <1>3 DEF S!TypeOK, S!NULL
<1>5. Changing'
  BY <1>3, <1>4 DEF Changing, Inside, Only, S!TypeOK, S!NULL
<1>6. Staying'
  BY <1>3 DEF S!TypeOK, Changing, Inside, Staying, Undisturbed
<1> QED BY <1>1, <1>2, <1>5, <1>6

LEMMA AssignInv == ASSUME IInv, NEW t \in Threads, S!Assign(t) PROVE IInv'
<1> USE DEF IInv, S!Assign, S!Goes
<1>1. S!TypeOK'
  BY DEF S!TypeOK, Changing
<1>2. MutexHolders'
  BY DEF S!TypeOK, MutexHolders, Inside
<1>3. /\ \A u \in Threads : u # t => threadpc'[u] \notin Inside
      /\ objects = Only(ref[t])
  BY NobodyElse DEF S!TypeOK, Changing, Inside
<1>4. Changing'
  BY <1>3 DEF Changing, Inside, Only, S!TypeOK
<1>5. Staying'
  BY <1>3 DEF S!TypeOK, Changing, Inside, Staying, Undisturbed
<1> QED BY <1>1, <1>2, <1>4, <1>5

LEMMA UnlockInv == ASSUME IInv, NEW t \in Threads, S!Unlock(t) PROVE IInv'
<1> USE DEF IInv, S!Unlock, S!Goes
<1>1. S!TypeOK'
  BY DEF S!TypeOK
<1>2. MutexHolders'
  BY SingletonAssumption DEF S!ConstantsFit, S!TypeOK, MutexHolders, Inside
<1>3. Changing'
  BY DEF S!TypeOK, Changing, Only
<1>4. Staying'
  BY DEF S!TypeOK, Staying, Undisturbed
<1> QED BY <1>1, <1>2, <1>3, <1>4

LEMMA ReadInv == ASSUME IInv, NEW t \in Threads, S!Read(t) PROVE IInv'
<1> USE DEF IInv, S!Read, S!Goes
<1>1. S!TypeOK'
  BY DEF S!TypeOK
<1>2. MutexHolders'
  BY DEF S!TypeOK, MutexHolders, Inside
<1>3. Changing'
  BY DEF S!TypeOK, Changing, Only
<1>4. Staying'
  BY DEF S!TypeOK, Staying, Undisturbed
<1> QED BY <1>1, <1>2, <1>3, <1>4

(* What the other parts do, Singleton does not see.                         *)
LEMMA StepsOfSingleton == [PartsNext]_partsVars => [S!Next]_S!vars
BY DEF PartsNext, partsVars, singletonVars, S!vars

LEMMA Invariance == PartsSpec => []IInv
<1>1. IInv /\ [S!Next]_S!vars => IInv'
  <2>1. ASSUME IInv, UNCHANGED S!vars PROVE IInv'
    BY <2>1 DEF S!vars, IInv, S!TypeOK, MutexHolders, Changing, Staying,
                Undisturbed
  <2> QED BY <2>1, CallInv, LockInv, TestInv, NewInv, DeleteInv, AssignInv,
             UnlockInv, ReadInv DEF S!Next, S!Step
<1>2. PartsInit => IInv
  BY InitInv DEF PartsInit
<1> QED BY <1>1, <1>2, StepsOfSingleton, PTL DEF PartsSpec

-----------------------------------------------------------------------------
LEMMA IInvImplies == IInv => S!OneObject /\ S!DeletedOnce
<1> SUFFICES ASSUME IInv PROVE S!OneObject /\ S!DeletedOnce
  OBVIOUS
<1>1. \E o : objects = Only(o)
  <2>1. CASE \E t \in Threads : threadpc[t] = "assign"
    BY <2>1 DEF IInv, Changing
  <2>2. CASE \A t \in Threads : threadpc[t] # "assign"
    BY <2>2 DEF IInv, Changing
  <2> QED BY <2>1, <2>2
<1>2. Cardinality(objects) <= 1
  BY <1>1, FS_EmptySet, FS_Singleton DEF Only
<1>3. S!OneObject
  BY <1>2 DEF IInv, Changing, S!OneObject, S!Cardinality, Cardinality, Only
<1>4. S!DeletedOnce
  BY NobodyElse DEF IInv, Changing, S!DeletedOnce, Only, Inside
<1> QED BY <1>3, <1>4

(* There is one object at most, and the pointer leads to it whenever no     *)
(* thread is changing it, whoever calls GetInstance and Kill.               *)
THEOREM AtMostOneObject == PartsSpec => []OneObject
BY Invariance, IInvImplies, PTL DEF OneObject

(* What GetInstance returns exists, unless a call of Kill met it.           *)
THEOREM ObjectIsReturned == PartsSpec => ReturnsObject
<1>1. ASSUME IInv, NEW t \in Threads, S!Read(t), t \notin overlapped
      PROVE  ref'[t] \in objects
  <2>1. threadpc[t] = "read" /\ Undisturbed(t)
    BY <1>1 DEF S!Read, S!Goes, IInv, Staying, Undisturbed
  <2>2. /\ \A u \in Threads : threadpc[u] # "out" => asks[u] # "Kill"
        /\ instance # S!NULL
    BY <1>1, <2>1 DEF IInv, Staying
  <2>3. \A u \in Threads : threadpc[u] # "assign"
    BY <1>1, <2>2 DEF IInv, Staying, S!TypeOK
  <2>4. objects = {instance}
    BY <1>1, <2>2, <2>3 DEF IInv, Changing, Only
  <2> QED BY <1>1, <2>4 DEF S!Read, IInv, S!TypeOK
<1>2. IInv /\ [S!Next]_S!vars => [\A t \in Threads : S!Returned(t)]_S!vars
  BY <1>1 DEF S!Returned
<1> QED BY Invariance, <1>2, StepsOfSingleton, PTL
       DEF PartsSpec, ReturnsObject, S!ReturnsObject

(* Kill never deletes an object twice.                                      *)
THEOREM NeverDeletedTwice == PartsSpec => []S!DeletedOnce
BY Invariance, IInvImplies, PTL
=============================================================================
