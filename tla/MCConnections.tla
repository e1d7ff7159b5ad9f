---------------------------- MODULE MCConnections ----------------------------
(***************************************************************************)
(* A run is followed until a connection has been damaged: what comes after *)
(* two threads at one slot, or a slot closed twice, every property but     *)
(* WokenUp has taken exception to.                                         *)
(***************************************************************************)
EXTENDS Connections

Undamaged == past \cap {"same", "twice"} = {}
===============================================================================
