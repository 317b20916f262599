------------------------------- MODULE MCSched -------------------------------
(* The scheduler on small instances: slices of one and two ticks. *)
EXTENDS Sched

MCSlice == [q \in Queues |-> IF q = LOW THEN 1 ELSE 2]
=============================================================================
