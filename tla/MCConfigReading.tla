-------------------------- MODULE MCConfigReading --------------------------
(* Over a thousand documents for TLC. *)
EXTENDS ConfigReading, ConfigWords

UpTo(S, n) == UNION {[1 .. m -> S] : m \in 0 .. n}

\* The i-th server of a document: good ones, and everything.
Good(i) == {<<L("a1"), R, O(i)>>, <<R, O(i), L("a2")>>, <<O(i), R>>, <<R>>}
Wild(i) == UpTo({L("a1"), L("o1"), R, Say("runtime", "other"), O(i)}, 3)
            \cup UpTo({B("0"), B("8"), Say("use", "auto")}, 3)

OneServer == {<<ServerList(<<b>>)>> : b \in Wild(1)}
TwoServers == {<<ServerList(<<b, c>>)>> : b \in Good(1), c \in Wild(2)}
ThreeServers == {<<ServerList(<<b, c, d>>)>> : b \in Good(1), c \in Good(2), d \in Good(3)}
FiveServers ==
  {<<ServerList(<<b, <<R, O(2)>>, <<R, O(3)>>, c, d>>)>> :
     b \in Good(1), c \in Good(4), d \in Good(5)}
Roots ==
  UpTo({Say("use", "auto"), Say("use", "EPOLL"), Say("use", "kqueue"), Say("events", "0"),
        Say("events", "8"), Say("worker_connections", "8"), Say("other", "8"),
        Say("servers", "8"), ServerList(<<<<R, O(1)>>>>), ServerList(<<<<R, O(2)>>, <<>>>>)}, 3)

AllDocuments == OneServer \cup TwoServers \cup ThreeServers \cup FiveServers \cup Roots

NoMappings ==
  {Begin \o m \o End : m \in {<<>>, <<"use">>, <<"[", "use", "auto", "events", "]">>}}
=============================================================================
