---------------------------- MODULE MCController ----------------------------
(***************************************************************************)
(* Small instances of Controller in use: short engine sequences, which     *)
(* keep each of their parts.                                               *)
(***************************************************************************)
EXTENDS ControllerInUse

CONSTANTS main, ws1, sender
=============================================================================
