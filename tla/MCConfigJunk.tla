---------------------------- MODULE MCConfigJunk ----------------------------
(* Any document a YAML parser can deliver, in any nesting, cut off where it *)
(* likes: for TLC.                                                          *)
EXTENDS ConfigWords

CONSTANTS
  MaxEvents,  \* bound: events of a document
  Noise       \* its scalars

VARIABLES
  nest,       \* collections the parser has open, a mapping as what it expects
  produced    \* events the parser has produced

vars == <<loaderVars, nest, produced>>

Top == nest[Len(nest)]
Below == SubSeq(nest, 1, Len(nest) - 1)

\* What the parser expects once a node is complete: a key, a value, an item.
After(n) ==
  IF n = <<>> THEN n
  ELSE [n EXCEPT ![Len(n)] = CASE @ = "key" -> "value" [] @ = "value" -> "key" [] OTHER -> @]

Produce(e, n) ==
  /\ rest = <<>>
  /\ result = "loading"
  /\ produced < MaxEvents
  /\ rest' = <<e>>
  /\ nest' = n
  /\ produced' = produced + 1
  /\ UNCHANGED <<stack, result, configVars, listVars>>

\* An alias is a node the loader ignores.
Node ==
  /\ nest # <<>> \/ produced = 0
  /\ \/ \E s \in Noise \cup {"ignored"} : Produce(s, After(nest))
     \/ Produce("{", Append(nest, "key"))
     \/ Produce("[", Append(nest, "item"))

CloseNode ==
  /\ nest # <<>>
  /\ \/ Top = "key" /\ Produce("}", After(Below))
     \/ Top = "item" /\ Produce("]", After(Below))

SyntaxError == Produce("error", <<>>)

JunkInit ==
  /\ rest = <<>>
  /\ nest = <<>> /\ produced = 0
  /\ LoaderInit

JunkNext ==
  \/ LoaderNext /\ UNCHANGED <<nest, produced>>
  \/ Node \/ CloseNode \/ SyntaxError

JunkSpec == JunkInit /\ [][JunkNext]_vars
=============================================================================
