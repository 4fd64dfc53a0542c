---------------------------- MODULE MCTaskQueue ----------------------------
(* Small instance of TaskQueue: three tasks of two types, two of them       *)
(* competing for the same workers at different priorities.                  *)
EXTENDS TaskQueue, TLC

CONSTANTS t1, t2, t3, w1, Investigate, Develop

MCTask == {t1, t2, t3}
MCWorker == {w1}
MCType == {Investigate, Develop}
MCTypeOf == (t1 :> Investigate) @@ (t2 :> Investigate) @@ (t3 :> Develop)
MCPriorityOf == (t1 :> 1) @@ (t2 :> 0) @@ (t3 :> 0)
=============================================================================
