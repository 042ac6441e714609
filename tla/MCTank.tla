------------------------------- MODULE MCTank -------------------------------
(***************************************************************************)
(* A small instance of Tank: one connection, and short engine sequences.   *)
(***************************************************************************)
EXTENDS Tank

CONSTANTS main, ws1, sender

(* Once a command or a message was lost, none of the properties of Tank     *)
(* promises anything: such states are checked but not explored further.     *)
NothingLost == ~lost
=============================================================================
