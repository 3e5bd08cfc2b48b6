------------------------------- MODULE MCAddr -------------------------------
(* Every text of a few characters.                                         *)
EXTENDS Addr

CONSTANTS MaxLength  \* bound: characters of a text

Letters == {":", "[", "]", "1"}
Short == UNION {[1 .. n -> Letters] : n \in 0 .. MaxLength}

One == <<"1">>
InetOnes == {One}
Inet6Ones == {<<":", ":">>, <<":", ":", "1">>, <<"1", ":", ":", "1">>}
Loop == {One, <<":", ":", "1">>}

MCInit == url \in Short /\ Init
MCSpec == MCInit /\ [][Next]_vars
=============================================================================
