------------------------------- MODULE MCQueue -------------------------------
(***************************************************************************)
(* Small instances of QueueSystem for TLC: the values its configurations   *)
(* give to the constants.                                                  *)
(***************************************************************************)
EXTENDS QueueSystem, TLC

CONSTANTS q1, q2, k1

(* A job of queue q1 with `max` attempts, a dedupe key and a delay.        *)
Opt(max, key, delay) ==
  [queue |-> q1, priority |-> 0, maxAttempts |-> max, dedupeKey |-> key,
   delay |-> delay, handled |-> TRUE, timed |-> FALSE]

Retried   == Opt(2, None, 0)
Once      == Opt(1, None, 0)
Keyed     == Opt(2, k1, 0)
Delayed   == [Opt(1, None, 1) EXCEPT !.priority = 1]
Unhandled == [Once EXCEPT !.handled = FALSE]
Timed     == [Retried EXCEPT !.timed = TRUE]
Other     == [Once EXCEPT !.queue = q2]

PromptJobs   == {Keyed, Unhandled}
LeaseJobs    == {Retried, Delayed, Other}
LiveJobs     == {Retried, Delayed}
RateJobs     == {Timed}

BothQueues    == [w \in Workers |-> <<q1, q2>>]
One           == [w \in Workers |-> 1]
Two           == [w \in Workers |-> 2]
Always        == [w \in Workers |-> TRUE]
Never         == [w \in Workers |-> FALSE]
Unlimited     == [q \in Queues |-> None]
OnePerWindow  == [q \in Queues |-> [requests |-> 1, windowMs |-> 1]]

Fixed    == [strategy |-> "fixed", delay |-> 1, multiplier |-> 1,
             maxDelay |-> 1, jitter |-> 0]
Jittered == [strategy |-> "exponential", delay |-> 1, multiplier |-> 2,
             maxDelay |-> 2, jitter |-> 100]

(* Workers are interchangeable, and so are callers of the dead-letter API. *)
Symmetric == Permutations(Workers) \cup Permutations(Admins)
=============================================================================
