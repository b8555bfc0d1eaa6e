------------------------------ MODULE MCWorkflow ------------------------------
(***************************************************************************)
(* Small instances of WorkflowEngine for TLC.                              *)
(***************************************************************************)
EXTENDS WorkflowEngine

CONSTANTS n1

Cmd(kind) == [kind |-> kind, compensable |-> FALSE, name |-> None, time |-> 0]
Step      == [Cmd("activity") EXCEPT !.compensable = TRUE]
Approval  == [Cmd("waitFor") EXCEPT !.name = n1]
Deadline  == [Cmd("waitUntil") EXCEPT !.time = 1]

(* Reversible steps before and after a wait for a signal, a deadline, a    *)
(* write to the run's state, then a bridge that may fail.                  *)
Trip == <<Step, Approval, Step, Step, Deadline, Cmd("state"), Cmd("bridge")>>
Short == <<Step, Approval, Cmd("activity")>>

(* The properties say nothing of a run once two of its writers raced, and  *)
(* raced never resets: such states are reached but not followed.           *)
UntilRaced == ~raced
=============================================================================
