------------------------------- MODULE Semaphore -------------------------------
(***************************************************************************)
(* The counting semaphore that bounds the memory of serve(): acquire()     *)
(* waits on a condition variable until enough is left, release() gives     *)
(* back, never beyond the value it started with.  The mutex makes either   *)
(* of them one step.                                                       *)
(***************************************************************************)
EXTENDS Integers

CONSTANT Limit   \* start_val

ASSUME LimitAssumption == Limit \in Nat

VARIABLE count   \* what is left

SemaphoreInit == count = Limit

\* Mutant: the memory is taken without waiting for it.
Acquire_NoWait(want) == count' = count - want

Acquire(want) == count >= want /\ count' = count - want

Release(n) == count' = IF count + n < Limit THEN count + n ELSE Limit
=============================================================================
