----------------------------- MODULE CommandLink -----------------------------
(***************************************************************************)
(* What the Controller promises to its callers and to the tank.  Callers   *)
(* submit blocks of commands; a block is indivisible: nothing is ever sent *)
(* between two commands of one block.  Commands are delivered in the order *)
(* in which their blocks were submitted, each exactly once.  Only while no *)
(* submitted command is waiting may the link repeat the last delivered     *)
(* command, and then only one that came from an operator, or, once the     *)
(* engine runs, send neutral.                                              *)
(***************************************************************************)
EXTENDS Sequences

CONSTANTS Command,     \* the commands
          Block,       \* the blocks of commands that may be submitted
          NoFrame      \* stands for "no frame"

VARIABLES backlog,     \* the commands submitted and not yet delivered
          engine,      \* does the link believe that the engine runs?
          repeatable,  \* the operator's frame that may be repeated, or NoFrame
          owed,        \* the frame chosen to be sent next, or NoFrame
          air          \* the last frame sent to the tank

vars == <<backlog, engine, repeatable, owed, air>>

Init == /\ backlog = <<>>
        /\ engine = FALSE
        /\ repeatable = NoFrame
        /\ owed = NoFrame
        /\ air = NoFrame

Submit(block) == /\ backlog' = backlog \o block
                 /\ UNCHANGED <<engine, repeatable, owed, air>>

Deliver == /\ owed = NoFrame
           /\ backlog # <<>>
           /\ LET c == Head(backlog) IN
                /\ owed' = c.code
                /\ repeatable' \in IF c.external THEN {c.code, NoFrame}
                                                 ELSE {NoFrame}
                /\ engine' = (c.engineStart \/ (engine /\ ~c.engineStop))
           /\ backlog' = Tail(backlog)
           /\ UNCHANGED air

Repeat == /\ owed = NoFrame
          /\ backlog = <<>>
          /\ repeatable # NoFrame
          /\ owed' = repeatable
          /\ UNCHANGED <<backlog, engine, repeatable, air>>

Rest == /\ owed = NoFrame
        /\ backlog = <<>>
        /\ engine
        /\ owed' = "neutral"
        /\ repeatable' = NoFrame
        /\ UNCHANGED <<backlog, engine, air>>

Send == /\ owed # NoFrame
        /\ air' = owed
        /\ owed' = NoFrame
        /\ UNCHANGED <<backlog, engine, repeatable>>

Next == \/ \E block \in Block : Submit(block)
        \/ Deliver
        \/ Repeat
        \/ Rest
        \/ Send

Spec == Init /\ [][Next]_vars
=============================================================================
