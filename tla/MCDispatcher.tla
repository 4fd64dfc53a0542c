---------------------------- MODULE MCDispatcher ----------------------------
(* A small instance of Dispatcher: two tasks of one type, a dispatcher with   *)
(* batches of up to two, heartbeats that may stall and submissions that may   *)
(* raise.                                                                     *)
EXTENDS Dispatcher, TLC

CONSTANTS t1, t2, Investigate

MCTypeOf == (t1 :> Investigate) @@ (t2 :> Investigate)
MCPriorityOf == (t1 :> 1) @@ (t2 :> 0)
=============================================================================
