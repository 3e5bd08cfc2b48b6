-------------------------- MODULE ServiceContract --------------------------
(***************************************************************************)
(* What an operator may rely on: a server that has come up serves every    *)
(* address of its configuration, and none is lost until the server was     *)
(* asked to stop or something failed under it.                             *)
(***************************************************************************)
CONSTANTS Addresses

VARIABLES
  state,   \* "down", "starting", "up", "stopping"
  wanted,  \* addresses of the configuration
  served,  \* addresses at which a client reaches the server
  excuse   \* it was asked to stop, or a call failed

vars == <<state, wanted, served, excuse>>

Init ==
  /\ state = "down"
  /\ wanted = {} /\ served = {}
  /\ excuse \in BOOLEAN

Start ==
  /\ state = "down"
  /\ state' \in {"starting", "down"}
  /\ wanted' = {}
  /\ UNCHANGED served

Configure ==
  /\ state = "starting" /\ served = {}
  /\ wanted' \in SUBSET Addresses
  /\ UNCHANGED <<state, served, excuse>>

Listen ==
  /\ state = "starting"
  /\ \E a \in wanted : served' = served \cup {a}
  /\ UNCHANGED <<state, wanted>>
  /\ excuse => excuse'

ComeUp ==
  /\ state = "starting"
  /\ served = wanted
  /\ state' = "up"
  /\ UNCHANGED <<wanted, served, excuse>>

Excuse ==
  /\ excuse'
  /\ UNCHANGED <<state, wanted, served>>

Stop ==
  /\ state = "up"
  /\ excuse'
  /\ state' = "stopping"
  /\ UNCHANGED <<wanted, served>>

Leave ==
  /\ state \in {"starting", "stopping"}
  /\ \E a \in served : served' = served \ {a}
  /\ UNCHANGED <<state, wanted>>
  /\ excuse => excuse'

\* The process is gone, and the system has closed what it had open.  A server
\* that was up does not go without an excuse.
End ==
  /\ state # "down"
  /\ state = "up" => excuse'
  /\ state' = "down"
  /\ served' = {}
  /\ UNCHANGED wanted

Next ==
  \/ Start \/ Configure \/ Listen \/ ComeUp
  \/ Excuse \/ Stop \/ Leave \/ End

Spec == Init /\ [][Next]_vars
=============================================================================
