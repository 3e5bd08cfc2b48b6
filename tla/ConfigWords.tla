---------------------------- MODULE ConfigWords ----------------------------
(* The words of the documents the instances read, and some of their entries. *)
EXTENDS ConfigDocuments

Words ==
  {"use", "events", "worker_connections", "servers", "listen",
   "request_header_buffer_size", "runtime", "sample_option", "other",
   "auto", "epoll", "EPOLL", "kqueue", "0", "3", "8", "a1", "a2", "a3", "sample", "Sample",
   "o1", "o2", "o3", "o4", "o5"}
LoopNames == <<"epoll">>
LowerCase ==
  [w \in Words |-> CASE w = "EPOLL" -> "epoll" [] w = "Sample" -> "sample" [] OTHER -> w]
Number == [w \in Words |-> CASE w = "3" -> 3 [] w = "8" -> 8 [] OTHER -> 0]

Opt == <<"o1", "o2", "o3", "o4", "o5">>
L(a) == Say("listen", a)
R == Say("runtime", "Sample")
O(i) == Say("sample_option", Opt[i])
B(v) == Say("request_header_buffer_size", v)
=============================================================================
