----------------------------- MODULE MCGcArena -----------------------------
(* A small arena for TLC: a first block of six units and others of eight,   *)
(* two lists whose items take three and two units.                            *)
EXTENDS GcArena

CONSTANTS u1, u2, l1, l2

ItemSizes == [l \in Lists |-> IF l = l1 THEN 3 ELSE 2]
=============================================================================
