--------------------------- MODULE MCEventServer ---------------------------
(* Small servers for TLC. *)
EXTENDS EventServer, TLC

CONSTANTS c1, c2, c3, s1, s2

\* One listener; clients c1, c2 and c3.
DialOne == [x \in Clients |-> s1]

\* Two listeners that share the pool; c2 and c3 are alike.
DialTwo == [x \in Clients |-> IF x = c1 THEN s2 ELSE s1]

Alike == Permutations({c2, c3})

\* Buffers of one and of two bytes: a read that fills the buffer, and one that
\* leaves room.
Buffers == [x \in Servers |-> IF x = s2 THEN 1 ELSE 2]
=============================================================================
