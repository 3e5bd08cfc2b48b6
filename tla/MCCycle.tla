------------------------------ MODULE MCCycle ------------------------------
(* Configurations for TLC: the one of the repository, and what can be wrong *)
(* with one.                                                               *)
EXTENDS Cycle, ConfigWords

\* A build with both event loops, so that a configuration can choose.
BothLoops == <<"epoll", "kqueue">>

Server1 == <<L("a1"), R, O(1)>>
Server2 == <<L("a2"), R, O(2)>>

Streams ==
  {Stream(d) : d \in
     {<<Say("use", "auto"), Say("worker_connections", "3"), ServerList(<<Server1, Server2>>)>>,
      <<ServerList(<<Server1, Server1>>)>>,
      <<ServerList(<<Server2, Server2>>)>>,
      <<ServerList(<<Server1, <<R, O(2)>>>>)>>,
      <<ServerList(<<Server1, <<L("a2"), R>>>>)>>,
      <<ServerList(<<Server1, <<L("a2")>>>>)>>,
      <<ServerList(<<Server1, Server2, <<L("a3"), R, O(3)>>>>)>>,
      <<Say("use", "kqueue"), ServerList(<<Server1, Server2>>)>>,
      <<Say("use", "other")>>}}
  \cup {Begin \o End}
=============================================================================
