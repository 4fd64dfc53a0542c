---------------------------- MODULE MCExecutors ----------------------------
(* The two ways a batch is worked off, one at a time: two dispatchers on one  *)
(* queue, with timely heartbeats; and the pools of the parallel phases, with  *)
(* two tickets and one worker for each phase, so that a ticket waits in the   *)
(* queue of a pool while the other one's investigation runs, is rate limited, *)
(* timed out or outlives the call.                                            *)
EXTENDS Dispatcher, ParallelCycle, TLC

CONSTANTS t1, t2, Investigate

VARIABLE focus

MCTypeOf == (t1 :> Investigate) @@ (t2 :> Investigate)
MCPriorityOf == (t1 :> 1) @@ (t2 :> 0)
MCBase == [investigate |-> 1, develop |-> 1]
MCProfiles == {MCBase}
Symmetry == Permutations(PTicket) \cup Permutations(Worker)

ExecutorsInit ==
    /\ focus \in {"dispatcher", "parallel"}
    /\ DispatcherInit /\ ParallelInit
    /\ focus # "parallel" => \A t \in PTicket : ~obj[t].rep

ExecutorsNext ==
    /\ UNCHANGED focus
    /\ IF focus = "dispatcher" THEN DispatcherNext ELSE UNCHANGED dispatchVars
    /\ IF focus = "parallel" THEN ParallelNext ELSE UNCHANGED parVars

ExecutorsSpec == ExecutorsInit /\ [][ExecutorsNext]_<<focus, dispatchVars, parVars>>
=============================================================================
