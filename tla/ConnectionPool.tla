--------------------------- MODULE ConnectionPool ---------------------------
(***************************************************************************)
(* The fixed-capacity pool of wsgi_pool.c: an array `free' of Capacity     *)
(* cells used as a stack, of which the first freeCount cells hold the      *)
(* items that are not in use.  Item i is the i-th element of pool->items.  *)
(***************************************************************************)
EXTENDS Integers

CONSTANT Capacity  \* worker_connections; wsgi_http_module_init replaces 0 by 16

ASSUME CapacityAssumption == Capacity \in Nat \ {0}

VARIABLES free, freeCount

poolVars == <<free, freeCount>>

Items == 0 .. Capacity - 1

PoolInit ==
  /\ free = [i \in Items |-> i]
  /\ freeCount = Capacity

\* Mutant: the last item is never handed out.
ExhaustedEarly == freeCount <= 1

Exhausted == freeCount = 0

\* The item the next Acquire hands out.
TopItem == free[freeCount - 1]

Acquire ==
  /\ ~Exhausted
  /\ freeCount' = freeCount - 1
  /\ UNCHANGED free

\* An item too many is reported and dropped.
GetBack(k) ==
  IF freeCount = Capacity
    THEN UNCHANGED poolVars
    ELSE /\ free' = [free EXCEPT ![freeCount] = k]
         /\ freeCount' = freeCount + 1

InPool(k) == \E i \in 0 .. freeCount - 1 : free[i] = k

\* No item is in the pool twice.
Distinct == \A i, j \in 0 .. freeCount - 1 : free[i] = free[j] => i = j

PoolTypeOK ==
  /\ free \in [Items -> Items]
  /\ freeCount \in 0 .. Capacity
=============================================================================
