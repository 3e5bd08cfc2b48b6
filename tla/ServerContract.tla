--------------------------- MODULE ServerContract ---------------------------
(***************************************************************************)
(* What the clients of the server may rely on, whatever event queue it     *)
(* uses: no more than Capacity streams are served at a time, a stream is   *)
(* turned away only when that many are served or the server is stopping,   *)
(* and a stream that is served is closed for a reason.                     *)
(***************************************************************************)
EXTENDS Integers, FiniteSets

CONSTANTS Clients, Capacity

VARIABLES
  phase,     \* of each stream: "idle", "queued", "accepted", "closed"
  spoken,    \* streams that sent bytes or hung up
  stopping,  \* the loop has ended
  trouble    \* a signal arrived or a system call failed

vars == <<phase, spoken, stopping, trouble>>

Served == {c \in Clients : phase[c] = "accepted"}

Init ==
  /\ phase = [c \in Clients |-> "idle"]
  /\ spoken = {}
  /\ stopping = FALSE
  /\ trouble = FALSE

Move(c, from, to) ==
  /\ phase[c] = from
  /\ phase' = [phase EXCEPT ![c] = to]

Connect(c) ==
  /\ Move(c, "idle", "queued")
  /\ UNCHANGED <<spoken, stopping, trouble>>

Speak(c) ==
  /\ phase[c] \in {"queued", "accepted"}
  /\ spoken' = spoken \cup {c}
  /\ UNCHANGED <<phase, stopping, trouble>>

Accept(c) ==
  /\ ~stopping
  /\ Cardinality(Served) < Capacity
  /\ Move(c, "queued", "accepted")
  /\ UNCHANGED <<spoken, stopping, trouble>>

Refuse(c) ==
  /\ ~stopping
  /\ Cardinality(Served) = Capacity
  /\ Move(c, "queued", "closed")
  /\ spoken' = spoken \ {c}
  /\ UNCHANGED <<stopping, trouble>>

\* Because of what the client did, or because a call failed under the server.
Finish(c) ==
  /\ c \in spoken \/ trouble' \/ stopping
  /\ Move(c, "accepted", "closed")
  /\ spoken' = spoken \ {c}
  /\ trouble => trouble'
  /\ UNCHANGED stopping

\* Who is queued when a listener closes.
CutOff(cs) ==
  /\ stopping
  /\ \A c \in cs : phase[c] = "queued"
  /\ phase' = [c \in Clients |-> IF c \in cs THEN "closed" ELSE phase[c]]
  /\ spoken' = spoken \ cs
  /\ UNCHANGED stopping
  /\ trouble => trouble'

\* The server only ever stops because of a signal or a failed call.
Stop ==
  /\ ~stopping
  /\ trouble'
  /\ stopping'
  /\ UNCHANGED <<phase, spoken>>

Trouble ==
  /\ trouble'
  /\ UNCHANGED <<phase, spoken, stopping>>

Next ==
  \/ \E c \in Clients : Connect(c) \/ Speak(c) \/ Accept(c) \/ Refuse(c) \/ Finish(c)
  \/ \E cs \in SUBSET Clients : CutOff(cs)
  \/ Stop \/ Trouble

Spec == Init /\ [][Next]_vars
=============================================================================
