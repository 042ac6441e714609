------------------------------- MODULE Singleton -------------------------------
(***************************************************************************)
(* The template Singleton<T> (src/RaspiTank/Singleton.h), of which the     *)
(* Controller and the WebSocketServer are made: any thread may ask for the *)
(* instance, which is made at the first call, or delete it.                *)
(***************************************************************************)
EXTENDS Naturals, FiniteSets

CONSTANTS Threads,
          MaxObjects    \* bound: objects made

NULL == 0
Free == "free"

(* What the constants are. *)
ConstantsFit == Free \notin Threads /\ MaxObjects \in Nat

VARIABLES instance,     \* the static pointer: NULL or an object's number
          mtx,          \* the thread that holds the static mutex, or Free
          pc,           \* where each thread is
          asks,         \* what it calls: GetInstance or Kill
          ref,          \* what its last GetInstance returned
          made,         \* objects made so far
          objects,      \* those that exist
          overlapped    \* history: the threads whose call met one of Kill

vars == <<instance, mtx, pc, asks, ref, made, objects, overlapped>>

Init == /\ instance = NULL
        /\ mtx = Free
        /\ pc = [t \in Threads |-> "out"]
        /\ asks = [t \in Threads |-> "GetInstance"]
        /\ ref = [t \in Threads |-> NULL]
        /\ made = 0
        /\ objects = {}
        /\ overlapped = {}

Goes(t, from, to) == pc[t] = from /\ pc' = [pc EXCEPT ![t] = to]

Calling == {t \in Threads : pc[t] # "out"}
Killing == {t \in Calling : asks[t] = "Kill"}

(* Bound: nobody calls when all the objects are made. *)
Call(t) == /\ Goes(t, "out", "lock")
           /\ made < MaxObjects
           /\ \E f \in {"GetInstance", "Kill"} :
                 /\ asks' = [asks EXCEPT ![t] = f]
                 /\ overlapped' = IF f = "Kill" THEN overlapped \cup Calling
                                  ELSE IF Killing = {} THEN overlapped \ {t}
                                  ELSE overlapped \cup {t}
           /\ UNCHANGED <<instance, mtx, ref, made, objects>>

(* Variant: no mutex. *)
LockNothing(t) == /\ Goes(t, "lock", "test")
                  /\ UNCHANGED <<mtx, instance, asks, ref, made, objects, overlapped>>

Lock(t) == /\ Goes(t, "lock", "test")
           /\ mtx = Free
           /\ mtx' = t
           /\ UNCHANGED <<instance, asks, ref, made, objects, overlapped>>

(* if (instance == NULL), or != for Kill.                                   *)
Test(t) == /\ Goes(t, "test", IF (instance = NULL) = (asks[t] = "GetInstance")
                              THEN "change" ELSE "unlock")
           /\ UNCHANGED <<instance, mtx, asks, ref, made, objects, overlapped>>

New(t) == /\ Goes(t, "change", "assign")
          /\ asks[t] = "GetInstance"
          /\ made' = made + 1
          /\ objects' = objects \cup {made'}
          /\ ref' = [ref EXCEPT ![t] = made']
          /\ UNCHANGED <<instance, mtx, asks, overlapped>>

Delete(t) == /\ Goes(t, "change", "assign")
             /\ asks[t] = "Kill"
             /\ objects' = objects \ {instance}
             /\ ref' = [ref EXCEPT ![t] = NULL]
             /\ UNCHANGED <<instance, mtx, asks, made, overlapped>>

(* Variant: Kill deletes the object and keeps the pointer. *)
AssignNotNull(t) == /\ Goes(t, "assign", "unlock")
                    /\ instance' = IF asks[t] = "Kill" THEN instance ELSE ref[t]
                    /\ UNCHANGED <<mtx, asks, ref, made, objects, overlapped>>

Assign(t) == /\ Goes(t, "assign", "unlock")
             /\ instance' = ref[t]
             /\ UNCHANGED <<mtx, asks, ref, made, objects, overlapped>>

Unlock(t) == /\ Goes(t, "unlock", IF asks[t] = "Kill" THEN "out" ELSE "read")
             /\ mtx' = Free
             /\ UNCHANGED <<instance, asks, ref, made, objects, overlapped>>

(* return *instance, after the mutex is released.                           *)
Read(t) == /\ Goes(t, "read", "out")
           /\ ref' = [ref EXCEPT ![t] = instance]
           /\ UNCHANGED <<instance, mtx, asks, made, objects, overlapped>>

Step(t) == \/ Lock(t) \/ Test(t) \/ New(t) \/ Delete(t) \/ Assign(t)
           \/ Unlock(t) \/ Read(t)

Next == \E t \in Threads : Call(t) \/ Step(t)

Spec == Init /\ [][Next]_vars

-----------------------------------------------------------------------------
TypeOK == /\ instance \in 0..made
          /\ mtx \in Threads \cup {Free}
          /\ pc \in [Threads -> {"out", "lock", "test", "change", "assign",
                                 "unlock", "read"}]
          /\ asks \in [Threads -> {"GetInstance", "Kill"}]
          /\ ref \in [Threads -> Nat]
          /\ made \in Nat
          /\ objects \subseteq 1..made
          /\ overlapped \subseteq Threads

(* "Retourne l'instance unique": there is never more than one object, and   *)
(* while no thread is changing it the pointer leads to it (GetInstance).    *)
OneObject ==
    /\ Cardinality(objects) <= 1
    /\ (\A t \in Threads : pc[t] # "assign") =>
          objects = IF instance = NULL THEN {} ELSE {instance}

(* No object is deleted twice (Kill).                                       *)
DeletedOnce == \A t \in Threads :
    pc[t] = "change" /\ asks[t] = "Kill" => instance \in objects

(* GetInstance returns *instance after it released the mutex: the object    *)
(* still exists then, unless a call of Kill met this one (Singleton.h:29).  *)
(* The comment at the mutex, "Mutex pour assurer que le singleton est       *)
(* ThreadSafe", promises it without the exception.                          *)
Returned(t) == Read(t) => ref'[t] \in objects \/ t \in overlapped
ReturnsObject == [][\A t \in Threads : Returned(t)]_vars
=============================================================================
