------------------------- MODULE ConfigLoaderProofs -------------------------
(***************************************************************************)
(* Whatever events the YAML parser delivers: the directives of a server    *)
(* find a server, and each server keeps a runtime of its own although the  *)
(* list of runtimes moves.                                                 *)
(***************************************************************************)
EXTENDS ConfigLoader, SequenceTheorems, TLAPS

Keys == {NULL} \cup UNION {Directives[b] : b \in {"root", "server"}}
Frames == [block : {"root", "server"}, key : Keys]
ServerRecords == [listen : Addresses \cup {NULL}, size : Nat, runtime : Nat \X Nat]

\* While the walk goes on there is a call of it, and the blocks are right.
WalkOK ==
  /\ rest \in Seq(Scalars \cup Marks)
  /\ stack \in Seq(Frames)
  /\ result \in {"unopened", "loading"} \cup Ends
  /\ result = "loading" => stack # <<>>
  /\ BlocksHaveServers

ConfigOK ==
  /\ use \in Option /\ events \in Nat /\ connections \in Nat
  /\ servers \in Seq(ServerRecords)

ListOK ==
  /\ arrays \in Seq(Seq(Option)) /\ arrays # <<>>
  /\ capacity \in Nat \ {0} /\ Len(Items) <= capacity
  /\ garbled \subseteq returned /\ returned \subseteq 1 .. Len(arrays) - 1

\* A pointer leads to an array the list has or had; who has the last item
\* points to where the list is now, so that the item's option is written there.
Owners ==
  /\ RuntimesOwned
  /\ \A i \in DOMAIN servers : HasRuntime(i) =>
       /\ servers[i].runtime[1] \in DOMAIN arrays
       /\ servers[i].runtime[2] = Len(Items) => servers[i].runtime[1] = Len(arrays)

LoaderInv == WalkOK /\ ConfigOK /\ ListOK /\ Owners

LEMMA LoaderInvSuffices ==
  ASSUME LoaderInv PROVE TypeOK /\ BlocksHaveServers /\ RuntimesOwned
<1>1. TypeOK
  BY DEF LoaderInv, WalkOK, ConfigOK, ListOK, TypeOK, Frames, Keys, ServerRecords
<1> QED  BY <1>1 DEF LoaderInv, WalkOK, Owners

-----------------------------------------------------------------------------
(* The walk *)

LEMMA FrameProperties ==
  ASSUME WalkOK, result = "loading"
  PROVE  /\ Len(stack) \in Nat \ {0} /\ Len(stack) \in DOMAIN stack
         /\ Frame \in Frames
         /\ Frame.key \in Directives[Frame.block] \cup {NULL}
         /\ Frame.block = "server" => servers # <<>>
<1>1. stack \in Seq(Frames) /\ stack # <<>>
  BY DEF WalkOK
<1>2. Len(stack) \in Nat \ {0} /\ DOMAIN stack = 1 .. Len(stack)
  BY <1>1, EmptySeq, LenProperties
<1>3. Len(stack) \in 1 .. Len(stack)
  BY <1>2
<1>4. Frame \in Frames
  BY <1>1, <1>3, ElementOfSeq DEF Frame
<1> QED  BY <1>2, <1>3, <1>4 DEF WalkOK, BlocksHaveServers, Frame

\* Words of one block are none of the other, and none is NULL.
LEMMA DirectivesApart ==
  /\ Directives["root"] = {"use", "events", "worker_connections", "servers"}
  /\ Directives["server"] = {"listen", "request_header_buffer_size", "runtime", "sample_option"}
  /\ NULL \notin Directives["root"] /\ NULL \notin Directives["server"]
  /\ Directives["root"] \cap Directives["server"] = {}
  /\ Keys = {NULL} \cup Directives["root"] \cup Directives["server"]
BY DEF Directives, NULL, Keys

\* Another key in the last frame.
LEMMA WithKeyKeeps ==
  ASSUME WalkOK, result = "loading", NEW k \in Directives[Frame.block] \cup {NULL},
         stack' = WithKey(k), servers = <<>> \/ servers' # <<>>
  PROVE  stack' \in Seq(Frames) /\ stack' # <<>> /\ BlocksHaveServers'
<1> DEFINE n == Len(stack)
<1>1. n \in Nat \ {0} /\ n \in 1 .. n /\ stack \in Seq(Frames) /\ DOMAIN stack = 1 .. n /\ Frame \in Frames
  BY FrameProperties, LenProperties DEF WalkOK
<1>2. /\ stack[n] = Frame /\ [Frame EXCEPT !.key = k] \in Frames
      /\ stack' = [stack EXCEPT ![n] = [Frame EXCEPT !.key = k]]
  <2>1. k \in Keys
    BY <1>1, DirectivesApart DEF Frames
  <2> QED  BY <1>1, <2>1 DEF Frame, WithKey, Frames
<1> HIDE DEF n
<1>3. stack' \in Seq(Frames) /\ Len(stack') = n
      /\ \A i \in 1 .. n : stack'[i] = IF i = n THEN [Frame EXCEPT !.key = k] ELSE stack[i]
  BY <1>1, <1>2, ExceptSeq DEF n
<1>4. stack' # <<>> /\ DOMAIN stack' = 1 .. n
  BY <1>1, <1>3, EmptySeq, LenProperties
<1>5. ASSUME NEW i \in 1 .. n
      PROVE  /\ stack'[i].block = IF i = 1 THEN "root" ELSE "server"
             /\ stack'[i].block = "server" => servers' # <<>> /\ stack'[i - 1].key = "servers"
             /\ stack'[i].key \in Directives[stack'[i].block] \cup {NULL}
  <2>1. /\ stack[i].block = IF i = 1 THEN "root" ELSE "server"
        /\ stack[i].block = "server" => servers # <<>> /\ stack[i - 1].key = "servers"
        /\ stack[i].key \in Directives[stack[i].block] \cup {NULL}
    BY <1>1 DEF WalkOK, BlocksHaveServers
  <2>2. stack'[i].block = stack[i].block
    BY <1>1, <1>2, <1>3 DEF Frames
  <2>3. stack[i].block = "server" => i - 1 \in 1 .. n /\ i - 1 # n
    BY <1>1, <2>1
  <2>4. stack[i].block = "server" => stack'[i - 1].key = "servers"
    BY <2>1, <2>3, <1>3
  <2>5. stack'[i].key \in Directives[stack'[i].block] \cup {NULL}
    BY <1>1, <1>2, <1>3, <2>1, <2>2 DEF Frames
  <2> QED  BY <2>1, <2>2, <2>4, <2>5
<1> QED  BY <1>3, <1>4, <1>5 DEF BlocksHaveServers

\* The call for a server returns.
LEMMA PopKeeps ==
  ASSUME WalkOK, Len(stack) > 1, stack' = SubSeq(stack, 1, Len(stack) - 1), servers' = servers
  PROVE  stack' \in Seq(Frames) /\ stack' # <<>> /\ BlocksHaveServers'
<1> DEFINE n == Len(stack)
<1>1. n \in Nat /\ n - 1 \in Nat \ {0} /\ stack \in Seq(Frames) /\ DOMAIN stack = 1 .. n
  BY LenProperties DEF WalkOK
<1>2. \A i \in 1 .. n - 1 : stack[i] \in Frames
  BY <1>1, ElementOfSeq
<1>3. /\ stack' \in Seq(Frames) /\ Len(stack') = n - 1
      /\ \A i \in 1 .. n - 1 : stack'[i] = stack[i]
  <2>1. /\ SubSeq(stack, 1, n - 1) \in Seq(Frames)
        /\ Len(SubSeq(stack, 1, n - 1)) = IF 1 <= n - 1 THEN n - 1 - 1 + 1 ELSE 0
        /\ \A i \in 1 .. n - 1 - 1 + 1 : SubSeq(stack, 1, n - 1)[i] = stack[1 + i - 1]
    <3>1. 1 \in Int /\ n - 1 \in Int
      BY <1>1
    <3> QED  BY <3>1, <1>2, SubSeqProperties
  <2>2. n - 1 - 1 + 1 = n - 1 /\ 1 <= n - 1 /\ \A i \in 1 .. n - 1 : 1 + i - 1 = i
    BY <1>1
  <2> QED  BY <2>1, <2>2
<1> HIDE DEF n
<1>4. stack' # <<>> /\ DOMAIN stack' = 1 .. n - 1
  BY <1>1, <1>3, EmptySeq, LenProperties
<1>5. ASSUME NEW i \in 1 .. n - 1
      PROVE  /\ stack'[i].block = IF i = 1 THEN "root" ELSE "server"
             /\ stack'[i].block = "server" => servers' # <<>> /\ stack'[i - 1].key = "servers"
             /\ stack'[i].key \in Directives[stack'[i].block] \cup {NULL}
  <2>1. i \in 1 .. n /\ (i # 1 => i - 1 \in 1 .. n - 1)
    BY <1>1
  <2>2. /\ stack[i].block = IF i = 1 THEN "root" ELSE "server"
        /\ stack[i].block = "server" => servers # <<>> /\ stack[i - 1].key = "servers"
        /\ stack[i].key \in Directives[stack[i].block] \cup {NULL}
    BY <1>1, <2>1 DEF WalkOK, BlocksHaveServers
  <2>3. stack'[i] = stack[i] /\ (i # 1 => stack'[i - 1] = stack[i - 1])
    BY <1>3, <2>1
  <2>4. stack[i].block = "server" => i # 1
    BY <2>2
  <2> QED  BY <2>2, <2>3, <2>4
<1> QED  BY <1>3, <1>4, <1>5 DEF BlocksHaveServers

\* The call for a new server.
LEMMA PushKeeps ==
  ASSUME WalkOK, result = "loading", Frame.key = "servers", servers' # <<>>,
         stack' = Append(stack, [block |-> "server", key |-> NULL])
  PROVE  stack' \in Seq(Frames) /\ stack' # <<>> /\ BlocksHaveServers'
<1> DEFINE n == Len(stack)
           f == [block |-> "server", key |-> NULL]
<1>1. n \in Nat \ {0} /\ stack \in Seq(Frames) /\ DOMAIN stack = 1 .. n /\ stack[n] = Frame
  BY FrameProperties, LenProperties DEF WalkOK, Frame
<1>2. f \in Frames /\ f.block = "server" /\ f.key = NULL
  BY DEF Frames, Keys
<1> HIDE DEF f
<1>3. /\ stack' \in Seq(Frames) /\ stack' # <<>> /\ Len(stack') = n + 1
      /\ \A i \in 1 .. n : stack'[i] = stack[i]
      /\ stack'[n + 1] = f
  BY <1>1, <1>2, AppendProperties DEF f
<1> HIDE DEF n
<1>4. DOMAIN stack' = 1 .. n + 1
  BY <1>3, LenProperties
<1>5. ASSUME NEW i \in 1 .. n + 1
      PROVE  /\ stack'[i].block = IF i = 1 THEN "root" ELSE "server"
             /\ stack'[i].block = "server" => servers' # <<>> /\ stack'[i - 1].key = "servers"
             /\ stack'[i].key \in Directives[stack'[i].block] \cup {NULL}
  <2>1. CASE i = n + 1
    <3>1. i # 1 /\ i - 1 = n /\ n \in 1 .. n
      BY <2>1, <1>1
    <3> QED  BY <2>1, <3>1, <1>1, <1>2, <1>3
  <2>2. CASE i # n + 1
    <3>1. i \in 1 .. n /\ (i # 1 => i - 1 \in 1 .. n)
      BY <2>2, <1>1
    <3> QED  BY <3>1, <1>1, <1>3, ZenonT(30) DEF WalkOK, BlocksHaveServers
  <2> QED  BY <2>1, <2>2
<1> QED  BY <1>3, <1>4, <1>5 DEF BlocksHaveServers

-----------------------------------------------------------------------------
(* The servers *)

LEMMA LastServer ==
  ASSUME ConfigOK, servers # <<>>
  PROVE  /\ Len(servers) \in Nat \ {0} /\ DOMAIN servers = 1 .. Len(servers)
         /\ Len(servers) \in DOMAIN servers /\ Server \in ServerRecords
<1>1. servers \in Seq(ServerRecords)
  BY DEF ConfigOK
<1>2. Len(servers) \in Nat \ {0} /\ DOMAIN servers = 1 .. Len(servers)
  BY <1>1, EmptySeq, LenProperties
<1>3. Len(servers) \in 1 .. Len(servers)
  BY <1>2
<1> QED  BY <1>1, <1>2, <1>3, ElementOfSeq DEF Server

LEMMA SetServer ==
  ASSUME ConfigOK, servers # <<>>, NEW r \in ServerRecords,
         servers' = [servers EXCEPT ![Len(servers)] = r]
  PROVE  /\ servers' \in Seq(ServerRecords) /\ Len(servers') = Len(servers) /\ servers' # <<>>
         /\ DOMAIN servers' = DOMAIN servers
         /\ \A i \in DOMAIN servers : servers'[i] = IF i = Len(servers) THEN r ELSE servers[i]
<1> DEFINE n == Len(servers)
<1>1. servers \in Seq(ServerRecords) /\ n \in Nat \ {0} /\ n \in 1 .. n /\ DOMAIN servers = 1 .. n
  BY LastServer DEF ConfigOK
<1>2. servers' = [servers EXCEPT ![n] = r]
  OBVIOUS
<1> HIDE DEF n
<1>3. servers' \in Seq(ServerRecords) /\ Len(servers') = n
      /\ \A i \in 1 .. n : servers'[i] = IF i = n THEN r ELSE servers[i]
  BY <1>1, <1>2, ExceptSeq DEF n
<1>4. servers' # <<>> /\ DOMAIN servers' = 1 .. n
  BY <1>1, <1>3, EmptySeq, LenProperties
<1> QED  BY <1>1, <1>3, <1>4 DEF n

\* What Set writes, by field.
LEMMA SetIs ==
  ASSUME ConfigOK, servers # <<>>, NEW x
  PROVE  /\ Set("listen", x) =>
              servers' = [servers EXCEPT ![Len(servers)] =
                [listen |-> x, size |-> Server.size, runtime |-> Server.runtime]]
         /\ Set("size", x) =>
              servers' = [servers EXCEPT ![Len(servers)] =
                [listen |-> Server.listen, size |-> x, runtime |-> Server.runtime]]
         /\ Set("runtime", x) =>
              servers' = [servers EXCEPT ![Len(servers)] =
                [listen |-> Server.listen, size |-> Server.size, runtime |-> x]]
<1>1. Server \in ServerRecords /\ Server = servers[Len(servers)]
  BY LastServer DEF Server
<1>2. /\ [Server EXCEPT !["listen"] = x] = [listen |-> x, size |-> Server.size, runtime |-> Server.runtime]
      /\ [Server EXCEPT !["size"] = x] = [listen |-> Server.listen, size |-> x, runtime |-> Server.runtime]
      /\ [Server EXCEPT !["runtime"] = x] = [listen |-> Server.listen, size |-> Server.size, runtime |-> x]
  BY <1>1 DEF ServerRecords
<1> QED  BY <1>1, <1>2 DEF Set

-----------------------------------------------------------------------------
(* The list of runtimes *)

LEMMA ItemsProperties ==
  ASSUME ListOK
  PROVE  /\ Len(arrays) \in Nat \ {0} /\ DOMAIN arrays = 1 .. Len(arrays)
         /\ Len(arrays) \in DOMAIN arrays
         /\ Items \in Seq(Option) /\ Len(Items) \in Nat /\ DOMAIN Items = 1 .. Len(Items)
<1>1. Len(arrays) \in Nat \ {0} /\ DOMAIN arrays = 1 .. Len(arrays)
  BY EmptySeq, LenProperties DEF ListOK
<1>2. Len(arrays) \in DOMAIN arrays /\ arrays \in Seq(Seq(Option))
  BY <1>1 DEF ListOK
<1>3. Items \in Seq(Option)
  BY <1>1, <1>2, ElementOfSeq DEF Items
<1> QED  BY <1>1, <1>2, <1>3, LenProperties

\* The current array is replaced.
LEMMA ItemsReplaced ==
  ASSUME ListOK, NEW s \in Seq(Option), arrays' = [arrays EXCEPT ![Len(arrays)] = s]
  PROVE  /\ arrays' \in Seq(Seq(Option)) /\ arrays' # <<>> /\ Len(arrays') = Len(arrays)
         /\ DOMAIN arrays' = DOMAIN arrays /\ Items' = s
         /\ \A a \in DOMAIN arrays : arrays'[a] = IF a = Len(arrays) THEN s ELSE arrays[a]
<1> DEFINE n == Len(arrays)
<1>1. arrays \in Seq(Seq(Option)) /\ n \in Nat \ {0} /\ n \in 1 .. n /\ DOMAIN arrays = 1 .. n
  BY ItemsProperties DEF ListOK
<1>2. arrays' = [arrays EXCEPT ![n] = s]
  OBVIOUS
<1> HIDE DEF n
<1>3. arrays' \in Seq(Seq(Option)) /\ Len(arrays') = n
      /\ \A a \in 1 .. n : arrays'[a] = IF a = n THEN s ELSE arrays[a]
  BY <1>1, <1>2, ExceptSeq DEF n
<1>4. arrays' # <<>> /\ DOMAIN arrays' = 1 .. n /\ Items' = s
  BY <1>1, <1>3, EmptySeq, LenProperties DEF Items
<1> QED  BY <1>1, <1>3, <1>4 DEF n

\* An item is appended: what was in an array is still there.
LEMMA ItemAppended ==
  ASSUME ListOK, AppendItem
  PROVE  /\ ListOK'
         /\ Len(Items') = Len(Items) + 1 /\ DOMAIN Items' = 1 .. Len(Items) + 1
         /\ DOMAIN arrays \subseteq DOMAIN arrays'
         /\ \A n \in DOMAIN Items : Items'[n] = Items[n]
         /\ \A a \in DOMAIN arrays : \A n \in DOMAIN arrays[a] :
              n \in DOMAIN arrays'[a] /\ arrays'[a][n] = arrays[a][n]
<1> DEFINE s == Append(Items, NULL)
<1>1. /\ arrays \in Seq(Seq(Option))
      /\ Len(arrays) \in Nat \ {0} /\ DOMAIN arrays = 1 .. Len(arrays)
      /\ Items \in Seq(Option) /\ Len(Items) \in Nat /\ DOMAIN Items = 1 .. Len(Items)
      /\ Items = arrays[Len(arrays)]
  BY ItemsProperties DEF ListOK, Items
<1>2. /\ s \in Seq(Option) /\ Len(s) = Len(Items) + 1
      /\ \A n \in 1 .. Len(Items) : s[n] = Items[n]
  BY <1>1, AppendProperties DEF Option
<1>3. DOMAIN s = 1 .. Len(Items) + 1
  BY <1>2, LenProperties
<1>4. AppendHere => arrays' = [arrays EXCEPT ![Len(arrays)] = s]
  BY <1>1 DEF AppendHere
<1> HIDE DEF s
<1>5. CASE /\ AppendHere /\ UNCHANGED <<returned, garbled>>
           /\ \/ Len(Items) < capacity /\ capacity' = capacity
              \/ Len(Items) = capacity /\ capacity' = 2 * capacity
  <2>1. /\ arrays' \in Seq(Seq(Option)) /\ arrays' # <<>> /\ Len(arrays') = Len(arrays)
        /\ DOMAIN arrays' = DOMAIN arrays /\ Items' = s
        /\ \A a \in DOMAIN arrays : arrays'[a] = IF a = Len(arrays) THEN s ELSE arrays[a]
    BY <1>2, <1>4, <1>5, ItemsReplaced
  <2>2. \A a \in DOMAIN arrays : \A n \in DOMAIN arrays[a] :
              n \in DOMAIN arrays'[a] /\ arrays'[a][n] = arrays[a][n]
    <3> SUFFICES ASSUME NEW a \in DOMAIN arrays, NEW n \in DOMAIN arrays[a]
                 PROVE  n \in DOMAIN arrays'[a] /\ arrays'[a][n] = arrays[a][n]
      OBVIOUS
    <3>1. CASE a = Len(arrays)
      <4>1. n \in 1 .. Len(Items) /\ arrays'[a] = s
        BY <3>1, <2>1, <1>1
      <4>2. n \in 1 .. Len(Items) + 1
        BY <4>1, <1>1
      <4> QED  BY <3>1, <4>1, <4>2, <1>1, <1>2, <1>3
    <3>2. CASE a # Len(arrays)
      BY <3>2, <2>1
    <3> QED  BY <3>1, <3>2
  <2>3. garbled' = garbled /\ returned' = returned
    BY <1>5
  <2>4. capacity' \in Nat \ {0} /\ Len(Items) + 1 <= capacity'
    BY <1>1, <1>5 DEF ListOK
  <2>5. ListOK'
    BY <2>1, <2>3, <2>4, <1>2 DEF ListOK, Option
  <2> QED  BY <2>1, <2>2, <2>5, <1>1, <1>2, <1>3
<1>6. CASE arrays' = Append(arrays, s) /\ Len(Items) = capacity /\ capacity' = 2 * capacity
           /\ returned' \in {returned, returned \cup {Len(arrays)}} /\ Allocate
  <2>1. /\ arrays' \in Seq(Seq(Option)) /\ arrays' # <<>> /\ Len(arrays') = Len(arrays) + 1
        /\ \A a \in 1 .. Len(arrays) : arrays'[a] = arrays[a]
        /\ arrays'[Len(arrays) + 1] = s
    BY <1>1, <1>2, <1>6, AppendProperties
  <2>2. Items' = s /\ DOMAIN arrays' = 1 .. Len(arrays) + 1
    BY <2>1, LenProperties DEF Items
  <2>3. DOMAIN arrays \subseteq DOMAIN arrays'
    BY <1>1, <2>2
  <2>4. garbled' \subseteq returned' /\ returned' \subseteq 1 .. Len(arrays')  - 1
    BY <1>1, <1>6, <2>1 DEF Allocate, ListOK
  <2>5. capacity' \in Nat \ {0} /\ Len(Items) + 1 <= capacity'
    BY <1>1, <1>6 DEF ListOK
  <2>6. ListOK'
    BY <2>1, <2>2, <2>4, <2>5, <1>2 DEF ListOK, Option
  <2> QED  BY <2>1, <2>2, <2>3, <2>6, <1>1, <1>2, <1>3
<1> QED  BY <1>5, <1>6 DEF AppendItem, s

-----------------------------------------------------------------------------
(* Whose item is whose *)

\* Nothing changes a runtime.
LEMMA OwnersStay ==
  ASSUME ListOK, Owners, arrays' = arrays,
         \A i \in DOMAIN servers' :
           \/ servers'[i].runtime = NoRuntime
           \/ i \in DOMAIN servers /\ servers'[i].runtime = servers[i].runtime
  PROVE  Owners'
<1>1. Items' = Items
  BY DEF Items
<1>2. \A n \in DOMAIN Items : n # 0
  BY ItemsProperties
<1>3. NoRuntime[2] = 0
  BY DEF NoRuntime
<1>4. ASSUME NEW i \in DOMAIN servers', servers'[i].runtime # NoRuntime
      PROVE  i \in DOMAIN servers /\ HasRuntime(i) /\ servers'[i].runtime = servers[i].runtime
  BY <1>4 DEF HasRuntime
<1>5. ASSUME NEW i \in DOMAIN servers', servers'[i].runtime # NoRuntime
      PROVE  LET a == servers'[i].runtime[1]
                 n == servers'[i].runtime[2]
             IN  /\ n \in DOMAIN arrays[a] /\ n \in DOMAIN Items
                 /\ arrays[a][n] = Items[n]
                 /\ \A j \in DOMAIN servers' \ {i} : servers'[j].runtime[2] # n
                 /\ a \in DOMAIN arrays /\ (n = Len(Items) => a = Len(arrays))
  <2> DEFINE a == servers[i].runtime[1]
             n == servers[i].runtime[2]
  <2>1. i \in DOMAIN servers /\ HasRuntime(i) /\ servers'[i].runtime = servers[i].runtime
    BY <1>4, <1>5
  <2>2. /\ n \in DOMAIN arrays[a] /\ n \in DOMAIN Items
        /\ arrays[a][n] = Items[n]
        /\ \A j \in DOMAIN servers \ {i} : servers[j].runtime[2] # n
        /\ a \in DOMAIN arrays /\ (n = Len(Items) => a = Len(arrays))
    BY <2>1 DEF Owners, RuntimesOwned
  <2>3. \A j \in DOMAIN servers' \ {i} : servers'[j].runtime[2] # n
    BY <1>2, <1>3, <2>2
  <2> QED  BY <2>1, <2>2, <2>3
<1> QED  BY <1>1, <1>5 DEF Owners, RuntimesOwned, HasRuntime

\* The last server is given the item that was appended.
LEMMA OwnersGetNew ==
  ASSUME ConfigOK, ListOK, Owners, AppendItem, servers # <<>>,
         DOMAIN servers' = DOMAIN servers,
         \A i \in DOMAIN servers : servers'[i].runtime =
            IF i = Len(servers) THEN <<Len(arrays'), Len(Items) + 1>> ELSE servers[i].runtime
  PROVE  Owners'
<1> DEFINE m == Len(Items)
           k == Len(servers)
<1>1. /\ m \in Nat /\ DOMAIN Items = 1 .. m
      /\ k \in DOMAIN servers
  BY ItemsProperties, LastServer
<1>2. /\ Len(Items') = m + 1 /\ DOMAIN Items' = 1 .. m + 1
      /\ DOMAIN arrays \subseteq DOMAIN arrays'
      /\ \A n \in DOMAIN Items : Items'[n] = Items[n]
      /\ \A a \in DOMAIN arrays : \A n \in DOMAIN arrays[a] :
           n \in DOMAIN arrays'[a] /\ arrays'[a][n] = arrays[a][n]
  BY ItemAppended
<1>3. Len(arrays') \in DOMAIN arrays' /\ arrays'[Len(arrays')] = Items'
  <2>1. ListOK'
    BY ItemAppended
  <2>2. Len(arrays') \in Nat \ {0} /\ DOMAIN arrays' = 1 .. Len(arrays')
    BY <2>1, EmptySeq, LenProperties DEF ListOK
  <2> QED  BY <2>2 DEF Items
<1>4. NoRuntime[2] = 0
  BY DEF NoRuntime
<1>5. ASSUME NEW i \in DOMAIN servers, i # k
      PROVE  /\ servers'[i].runtime = servers[i].runtime
             /\ servers[i].runtime[2] # m + 1
  <2>1. CASE HasRuntime(i)
    <3>1. servers[i].runtime[2] \in DOMAIN Items
      BY <2>1 DEF Owners, RuntimesOwned
    <3> QED  BY <3>1, <1>1, <1>5
  <2>2. CASE ~HasRuntime(i)
    BY <2>2, <1>1, <1>4, <1>5 DEF HasRuntime
  <2> QED  BY <2>1, <2>2
<1>6. servers'[k].runtime = <<Len(arrays'), m + 1>>
  BY <1>1
<1>7. ASSUME NEW i \in DOMAIN servers, servers'[i].runtime # NoRuntime
      PROVE  LET a == servers'[i].runtime[1]
                 n == servers'[i].runtime[2]
             IN  /\ n \in DOMAIN arrays'[a] /\ n \in DOMAIN Items'
                 /\ arrays'[a][n] = Items'[n]
                 /\ \A j \in DOMAIN servers \ {i} : servers'[j].runtime[2] # n
                 /\ a \in DOMAIN arrays' /\ (n = m + 1 => a = Len(arrays'))
  <2>1. CASE i = k
    <3>1. servers'[i].runtime[1] = Len(arrays') /\ servers'[i].runtime[2] = m + 1
      BY <2>1, <1>6
    <3>2. m + 1 \in DOMAIN Items'
      BY <1>1, <1>2
    <3>3. \A j \in DOMAIN servers \ {i} : servers'[j].runtime[2] # m + 1
      BY <2>1, <1>5
    <3> QED  BY <3>1, <3>2, <3>3, <1>3
  <2>2. CASE i # k
    <3> DEFINE a == servers[i].runtime[1]
               n == servers[i].runtime[2]
    <3>1. servers'[i].runtime = servers[i].runtime /\ n # m + 1
      BY <2>2, <1>5
    <3>2. HasRuntime(i)
      BY <1>7, <3>1 DEF HasRuntime
    <3>3. /\ n \in DOMAIN arrays[a] /\ n \in DOMAIN Items
          /\ arrays[a][n] = Items[n]
          /\ \A j \in DOMAIN servers \ {i} : servers[j].runtime[2] # n
          /\ a \in DOMAIN arrays
      BY <3>2 DEF Owners, RuntimesOwned
    <3>4. n \in DOMAIN Items'
      BY <3>3, <1>1, <1>2
    <3>5. n \in DOMAIN arrays'[a] /\ a \in DOMAIN arrays' /\ arrays'[a][n] = Items'[n]
      BY <3>3, <1>2
    <3>6. \A j \in DOMAIN servers \ {i} : servers'[j].runtime[2] # n
      BY <1>5, <1>6, <3>1, <3>3
    <3> QED  BY <3>1, <3>4, <3>5, <3>6
  <2> QED  BY <2>1, <2>2
<1> QED  BY <1>2, <1>7 DEF Owners, RuntimesOwned, HasRuntime

\* The option of the last item is set.
LEMMA OwnersKeepOption ==
  ASSUME ListOK, Owners, Items # <<>>, NEW o \in Option, servers' = servers,
         arrays' = [arrays EXCEPT ![Len(arrays)] = [Items EXCEPT ![Len(Items)] = o]]
  PROVE  /\ arrays' \in Seq(Seq(Option)) /\ arrays' # <<>>
         /\ Len(arrays') = Len(arrays) /\ Len(Items') = Len(Items)
         /\ Owners'
<1> DEFINE m == Len(Items)
           s == [Items EXCEPT ![Len(Items)] = o]
<1>1. /\ Items \in Seq(Option) /\ m \in Nat \ {0} /\ DOMAIN Items = 1 .. m /\ m \in 1 .. m
      /\ Len(arrays) \in DOMAIN arrays /\ Items = arrays[Len(arrays)]
  BY ItemsProperties, EmptySeq DEF Items
<1>2. s = [Items EXCEPT ![m] = o]
  OBVIOUS
<1> HIDE DEF m, s
<1>3. /\ s \in Seq(Option) /\ Len(s) = m
      /\ \A n \in 1 .. m : s[n] = IF n = m THEN o ELSE Items[n]
  BY <1>1, <1>2, ExceptSeq DEF m
<1>4. DOMAIN s = 1 .. m
  BY <1>3, LenProperties
<1>5. /\ arrays' \in Seq(Seq(Option)) /\ arrays' # <<>> /\ Len(arrays') = Len(arrays)
      /\ DOMAIN arrays' = DOMAIN arrays /\ Items' = s
      /\ \A a \in DOMAIN arrays : arrays'[a] = IF a = Len(arrays) THEN s ELSE arrays[a]
  BY <1>3, ItemsReplaced DEF s
<1>6. ASSUME NEW i \in DOMAIN servers, HasRuntime(i)
      PROVE  LET a == servers[i].runtime[1]
                 n == servers[i].runtime[2]
             IN  /\ n \in DOMAIN arrays'[a] /\ n \in DOMAIN s
                 /\ arrays'[a][n] = s[n]
                 /\ \A j \in DOMAIN servers \ {i} : servers[j].runtime[2] # n
                 /\ a \in DOMAIN arrays' /\ (n = m => a = Len(arrays))
  <2> DEFINE a == servers[i].runtime[1]
             n == servers[i].runtime[2]
  <2>1. /\ n \in DOMAIN arrays[a] /\ n \in DOMAIN Items
        /\ arrays[a][n] = Items[n]
        /\ \A j \in DOMAIN servers \ {i} : servers[j].runtime[2] # n
        /\ a \in DOMAIN arrays /\ (n = m => a = Len(arrays))
    BY <1>6 DEF Owners, RuntimesOwned, m
  <2>2. n \in DOMAIN s
    BY <2>1, <1>1, <1>4
  <2>3. n \in DOMAIN arrays'[a] /\ arrays'[a][n] = s[n]
    <3>1. CASE a = Len(arrays)
      BY <3>1, <2>1, <2>2, <1>5
    <3>2. CASE a # Len(arrays)
      <4>1. arrays'[a] = arrays[a] /\ n # m /\ n \in 1 .. m
        BY <3>2, <2>1, <1>1, <1>5
      <4> QED  BY <4>1, <2>1, <1>3
    <3> QED  BY <3>1, <3>2
  <2> QED  BY <2>1, <2>2, <2>3, <1>5
<1>7. Owners'
  BY <1>3, <1>5, <1>6 DEF Owners, RuntimesOwned, HasRuntime
<1> QED  BY <1>3, <1>5, <1>7 DEF m

-----------------------------------------------------------------------------
(* Steps of the walk *)

LEMMA TakeKeeps ==
  ASSUME WalkOK, NEW e, Take(e)
  PROVE  result = "loading" /\ rest' \in Seq(Scalars \cup Marks)
<1>1. rest \in Seq(Scalars \cup Marks) /\ rest # <<>> /\ rest' = Tail(rest) /\ result = "loading"
  BY DEF Take, WalkOK
<1> QED  BY <1>1, HeadTailProperties

\* The walk ends.
LEMMA StopKeeps ==
  ASSUME LoaderInv, rest' \in Seq(Scalars \cup Marks), NEW end \in Ends, Stop(end)
  PROVE  LoaderInv'
<1>1. WalkOK'
  BY DEF LoaderInv, WalkOK, Stop, configVars, Ends, BlocksHaveServers
<1>2. ConfigOK' /\ ListOK'
  BY DEF LoaderInv, ConfigOK, ListOK, Stop, configVars, listVars, Items
<1>3. Owners'
  BY OwnersStay DEF LoaderInv, Stop, configVars, listVars
<1> QED  BY <1>1, <1>2, <1>3 DEF LoaderInv

\* The walk goes on and takes no directive.
LEMMA PassKeeps ==
  ASSUME LoaderInv, result = "loading", rest' \in Seq(Scalars \cup Marks), NEW s, Pass(s),
         stack' \in Seq(Frames) /\ stack' # <<>> /\ BlocksHaveServers'
  PROVE  LoaderInv'
<1>1. WalkOK'
  BY DEF LoaderInv, WalkOK, Pass, GoOn
<1>2. ConfigOK' /\ ListOK'
  BY DEF LoaderInv, ConfigOK, ListOK, Pass, configVars, listVars, Items
<1>3. Owners'
  BY OwnersStay DEF LoaderInv, Pass, configVars, listVars
<1> QED  BY <1>1, <1>2, <1>3 DEF LoaderInv

LEMMA PassSame ==
  ASSUME LoaderInv, result = "loading", rest' \in Seq(Scalars \cup Marks), Pass(stack)
  PROVE  LoaderInv'
<1>1. stack' = stack /\ servers' = servers
  BY DEF Pass, GoOn, configVars
<1>2. stack' \in Seq(Frames) /\ stack' # <<>> /\ BlocksHaveServers'
  BY <1>1 DEF LoaderInv, WalkOK, BlocksHaveServers
<1> QED  BY <1>2, PassKeeps

LEMMA PassWithKey ==
  ASSUME LoaderInv, result = "loading", rest' \in Seq(Scalars \cup Marks),
         NEW k \in Directives[Frame.block] \cup {NULL}, Pass(WithKey(k))
  PROVE  LoaderInv'
<1>1. stack' = WithKey(k) /\ servers' = servers /\ WalkOK
  BY DEF Pass, GoOn, configVars, LoaderInv
<1>2. stack' \in Seq(Frames) /\ stack' # <<>> /\ BlocksHaveServers'
  BY <1>1, WithKeyKeeps
<1> QED  BY <1>2, PassKeeps

-----------------------------------------------------------------------------
(* One lemma per action *)

LEMMA InitHolds == ASSUME ConfigAssumption, LoaderInit PROVE LoaderInv
<1>1. WalkOK
  BY EmptySeq DEF LoaderInit, WalkOK, BlocksHaveServers
<1>2. ConfigOK
  BY EmptySeq DEF LoaderInit, ConfigOK, Option
<1>3. arrays \in Seq(Seq(Option)) /\ arrays # <<>> /\ Len(arrays) = 1 /\ Items = <<>> /\ Len(Items) = 0
  BY DEF LoaderInit, Items
<1>4. ListOK
  BY <1>3, ConfigAssumption DEF LoaderInit, ListOK
<1>5. Owners
  BY EmptySeq DEF LoaderInit, Owners, RuntimesOwned
<1> QED  BY <1>1, <1>2, <1>4, <1>5 DEF LoaderInv

LEMMA OpenKeeps == ASSUME LoaderInv, Open PROVE LoaderInv'
<1> DEFINE f == [block |-> "root", key |-> NULL]
<1>1. stack' = <<f>> /\ f \in Frames /\ f.block = "root" /\ f.key = NULL
  BY DEF Open, Frames, Keys
<1> HIDE DEF f
<1>2. stack' \in Seq(Frames) /\ stack' # <<>> /\ Len(stack') = 1 /\ stack'[1] = f
  BY <1>1
<1>3. DOMAIN stack' = {1}
  BY <1>2, LenProperties
<1>4. WalkOK'
  <2>1. BlocksHaveServers'
    BY <1>1, <1>2, <1>3 DEF BlocksHaveServers
  <2> QED  BY <1>2, <2>1 DEF LoaderInv, WalkOK, Open
<1>5. ConfigOK' /\ ListOK'
  BY DEF LoaderInv, ConfigOK, ListOK, Open, configVars, listVars, Items
<1>6. Owners'
  BY OwnersStay DEF LoaderInv, Open, configVars, listVars
<1> QED  BY <1>4, <1>5, <1>6 DEF LoaderInv

LEMMA OpenFailsKeeps == ASSUME LoaderInv, OpenFails PROVE LoaderInv'
<1>1. rest' \in Seq(Scalars \cup Marks) /\ "unreadable" \in Ends /\ Stop("unreadable")
  BY DEF OpenFails, Stop, LoaderInv, WalkOK, Ends
<1> QED  BY <1>1, StopKeeps

LEMMA IgnoredKeeps == ASSUME LoaderInv, Ignored PROVE LoaderInv'
<1>1. Take("ignored") /\ Pass(stack) /\ WalkOK
  BY DEF Ignored, LoaderInv
<1>2. result = "loading" /\ rest' \in Seq(Scalars \cup Marks)
  BY <1>1, TakeKeeps
<1> QED  BY <1>1, <1>2, PassSame

LEMMA ParseErrorKeeps == ASSUME LoaderInv, ParseError PROVE LoaderInv'
<1>1. Take("error") /\ Stop("failed") /\ "failed" \in Ends /\ WalkOK
  BY DEF ParseError, LoaderInv, Ends
<1>2. rest' \in Seq(Scalars \cup Marks)
  BY <1>1, TakeKeeps
<1> QED  BY <1>1, <1>2, StopKeeps

LEMMA AddServerKeeps ==
  ASSUME LoaderInv, result = "loading", rest' \in Seq(Scalars \cup Marks),
         Frame.key = "servers", AddServer
  PROVE  LoaderInv'
<1> DEFINE r == [listen |-> NULL, size |-> 0, runtime |-> NoRuntime]
<1>1. /\ servers' = Append(servers, r) /\ r \in ServerRecords /\ r.runtime = NoRuntime
      /\ servers \in Seq(ServerRecords)
  BY DEF AddServer, ServerRecords, NoRuntime, LoaderInv, ConfigOK
<1> HIDE DEF r
<1>2. /\ servers' \in Seq(ServerRecords) /\ servers' # <<>> /\ Len(servers') = Len(servers) + 1
      /\ \A i \in 1 .. Len(servers) : servers'[i] = servers[i]
      /\ servers'[Len(servers) + 1] = r
  BY <1>1, AppendProperties
<1>3. /\ Len(servers) \in Nat /\ DOMAIN servers = 1 .. Len(servers)
      /\ DOMAIN servers' = 1 .. Len(servers) + 1
  BY <1>1, <1>2, LenProperties
<1>4. \A i \in DOMAIN servers' : i = Len(servers) + 1 \/ i \in DOMAIN servers
  BY <1>3
<1>5. WalkOK'
  <2>1. WalkOK /\ stack' = Append(stack, [block |-> "server", key |-> NULL]) /\ result' = result
    BY DEF AddServer, GoOn, LoaderInv
  <2>2. stack' \in Seq(Frames) /\ stack' # <<>> /\ BlocksHaveServers'
    BY <1>2, <2>1, PushKeeps
  <2> QED  BY <2>1, <2>2 DEF WalkOK
<1>6. ConfigOK' /\ ListOK'
  BY <1>2 DEF LoaderInv, ConfigOK, ListOK, AddServer, Allocate, Items
<1>7. Owners'
  <2>1. ListOK /\ Owners /\ arrays' = arrays
    BY DEF LoaderInv, AddServer
  <2>2. \A i \in DOMAIN servers' :
          \/ servers'[i].runtime = NoRuntime
          \/ i \in DOMAIN servers /\ servers'[i].runtime = servers[i].runtime
    BY <1>1, <1>2, <1>3, <1>4
  <2> QED  BY <2>1, <2>2, OwnersStay
<1> QED  BY <1>5, <1>6, <1>7 DEF LoaderInv

LEMMA MappingStartKeeps == ASSUME LoaderInv, MappingStart PROVE LoaderInv'
<1>1. Take("{") /\ WalkOK
  BY DEF MappingStart, LoaderInv
<1>2. result = "loading" /\ rest' \in Seq(Scalars \cup Marks)
  BY <1>1, TakeKeeps
<1>3. CASE Pass(stack)
  BY <1>2, <1>3, PassSame
<1>4. CASE Frame.key = "servers" /\ AddServer
  BY <1>2, <1>4, AddServerKeeps
<1>5. ASSUME NEW end \in {"no memory", "failed", "crashed"}, Stop(end) PROVE LoaderInv'
  <2>1. end \in Ends
    BY DEF Ends
  <2> QED  BY <1>2, <1>5, <2>1, StopKeeps
<1> QED  BY <1>3, <1>4, <1>5 DEF MappingStart

LEMMA SequenceStartKeeps == ASSUME LoaderInv, SequenceStart PROVE LoaderInv'
<1>1. Take("[") /\ WalkOK
  BY DEF SequenceStart, LoaderInv
<1>2. result = "loading" /\ rest' \in Seq(Scalars \cup Marks)
  BY <1>1, TakeKeeps
<1>3. CASE Pass(stack)
  BY <1>2, <1>3, PassSame
<1>4. CASE Stop("failed")
  <2>1. "failed" \in Ends
    BY DEF Ends
  <2> QED  BY <1>2, <1>4, <2>1, StopKeeps
<1> QED  BY <1>3, <1>4 DEF SequenceStart

LEMMA SequenceEndKeepsInv == ASSUME LoaderInv, SequenceEnd PROVE LoaderInv'
<1>1. Take("]") /\ Pass(WithKey(NULL)) /\ WalkOK
  BY DEF SequenceEnd, LoaderInv
<1>2. result = "loading" /\ rest' \in Seq(Scalars \cup Marks)
  BY <1>1, TakeKeeps
<1>3. NULL \in Directives[Frame.block] \cup {NULL}
  OBVIOUS
<1> QED  BY <1>1, <1>2, <1>3, PassWithKey

LEMMA MappingEndKeeps == ASSUME LoaderInv, MappingEnd PROVE LoaderInv'
<1>1. Take("}") /\ WalkOK
  BY DEF MappingEnd, LoaderInv
<1>2. result = "loading" /\ rest' \in Seq(Scalars \cup Marks)
  BY <1>1, TakeKeeps
<1>3. CASE Len(stack) > 1
  <2>1. Pass(SubSeq(stack, 1, Len(stack) - 1))
    BY <1>3 DEF MappingEnd
  <2>2. stack' = SubSeq(stack, 1, Len(stack) - 1) /\ servers' = servers
    BY <2>1 DEF Pass, GoOn, configVars
  <2>3. stack' \in Seq(Frames) /\ stack' # <<>> /\ BlocksHaveServers'
    BY <1>1, <1>3, <2>2, PopKeeps
  <2> QED  BY <1>2, <2>1, <2>3, PassKeeps
<1>4. CASE ~(Len(stack) > 1)
  <2>1. Stop("loaded") /\ "loaded" \in Ends
    BY <1>4 DEF MappingEnd, Ends
  <2> QED  BY <1>2, <2>1, StopKeeps
<1> QED  BY <1>3, <1>4

LEMMA KeyKeeps ==
  ASSUME LoaderInv, result = "loading", rest' \in Seq(Scalars \cup Marks), NEW e, Key(e)
  PROVE  LoaderInv'
<1>1. CASE e \in Directives[Frame.block] /\ Pass(WithKey(e))
  BY <1>1, PassWithKey
<1>2. CASE Stop("failed")
  <2>1. "failed" \in Ends
    BY DEF Ends
  <2> QED  BY <1>2, <2>1, StopKeeps
<1> QED  BY <1>1, <1>2 DEF Key

\* A field other than the runtime is set in the last server.
LEMMA FieldKeeps ==
  ASSUME ConfigOK, ListOK, Owners, servers # <<>>, NEW r \in ServerRecords,
         r.runtime = Server.runtime, arrays' = arrays,
         servers' = [servers EXCEPT ![Len(servers)] = r]
  PROVE  servers' \in Seq(ServerRecords) /\ servers' # <<>> /\ Owners'
<1>1. /\ servers' \in Seq(ServerRecords) /\ servers' # <<>> /\ DOMAIN servers' = DOMAIN servers
      /\ \A i \in DOMAIN servers : servers'[i] = IF i = Len(servers) THEN r ELSE servers[i]
  BY SetServer
<1>2. \A i \in DOMAIN servers' : i \in DOMAIN servers /\ servers'[i].runtime = servers[i].runtime
  BY <1>1 DEF Server
<1>3. Owners'
  BY <1>2, OwnersStay
<1> QED  BY <1>1, <1>3

LEMMA RuntimeKeeps ==
  ASSUME ConfigOK, ListOK, Owners, servers # <<>>, NEW v, Runtime(v)
  PROVE  ConfigOK' /\ ListOK' /\ Owners' /\ servers' # <<>>
<1> DEFINE x == <<Len(arrays'), Len(Items) + 1>>
           r == [listen |-> Server.listen, size |-> Server.size, runtime |-> x]
<1>1. AppendItem /\ Set("runtime", x) /\ UNCHANGED <<use, events, connections>>
  BY DEF Runtime
<1>2. ListOK'
  BY <1>1, ItemAppended
<1>3. x \in Nat \X Nat
  <2>1. Len(arrays') \in Nat /\ Len(Items) \in Nat
    BY <1>2, ItemsProperties, LenProperties DEF ListOK
  <2> QED  BY <2>1
<1>4. r \in ServerRecords /\ r.runtime = x
  BY <1>3, LastServer DEF ServerRecords
<1>5. servers' = [servers EXCEPT ![Len(servers)] = r]
  <2> HIDE DEF x
  <2> QED  BY <1>1, SetIs
<1> HIDE DEF r
<1>6. /\ servers' \in Seq(ServerRecords) /\ servers' # <<>> /\ DOMAIN servers' = DOMAIN servers
      /\ \A i \in DOMAIN servers : servers'[i] = IF i = Len(servers) THEN r ELSE servers[i]
  BY <1>4, <1>5, SetServer
<1>7. \A i \in DOMAIN servers : servers'[i].runtime =
        IF i = Len(servers) THEN <<Len(arrays'), Len(Items) + 1>> ELSE servers[i].runtime
  BY <1>4, <1>6
<1>8. Owners'
  BY <1>1, <1>6, <1>7, OwnersGetNew
<1>9. ConfigOK'
  BY <1>1, <1>6 DEF ConfigOK, Option
<1> QED  BY <1>2, <1>6, <1>8, <1>9

LEMMA SampleOptionKeeps ==
  ASSUME ConfigOK, ListOK, Owners, Items # <<>>, NEW v \in Scalars, SampleOption(v)
  PROVE  ConfigOK' /\ ListOK' /\ Owners'
<1>1. Items = arrays[Len(arrays)] /\ Len(arrays) \in DOMAIN arrays
  BY ItemsProperties DEF Items
<1>2. PICK o \in Option : arrays' = [arrays EXCEPT ![Len(arrays)][Len(Items)] = o]
  BY DEF SampleOption, Option
<1>3. arrays' = [arrays EXCEPT ![Len(arrays)] = [Items EXCEPT ![Len(Items)] = o]]
  BY <1>1, <1>2
<1>4. servers' = servers /\ UNCHANGED <<use, events, connections, capacity, returned, garbled>>
  BY DEF SampleOption, configVars
<1>5. /\ arrays' \in Seq(Seq(Option)) /\ arrays' # <<>>
      /\ Len(arrays') = Len(arrays) /\ Len(Items') = Len(Items) /\ Owners'
  BY <1>3, <1>4, OwnersKeepOption
<1>6. ListOK'
  BY <1>4, <1>5 DEF ListOK, Option
<1>7. ConfigOK'
  BY <1>4 DEF ConfigOK, Option
<1> QED  BY <1>5, <1>6, <1>7

\* A directive that is taken: all of setup.
LEMMA ApplyKeeps ==
  ASSUME ConfigAssumption, LoaderInv, result = "loading", NEW v \in Scalars, Frame.key # NULL,
         ~Unsupported(Frame.key, v), Apply(Frame.key, v)
  PROVE  ConfigOK' /\ ListOK' /\ Owners' /\ (servers = <<>> \/ servers' # <<>>)
<1> DEFINE key == Frame.key
<1>1. /\ WalkOK /\ ConfigOK /\ ListOK /\ Owners
      /\ servers \in Seq(ServerRecords)
  BY DEF LoaderInv, ConfigOK
<1>2. key \in Directives["server"] => servers # <<>>
  <2>1. Frame \in Frames /\ key \in Directives[Frame.block] \cup {NULL}
        /\ (Frame.block = "server" => servers # <<>>)
    BY <1>1, FrameProperties
  <2> QED  BY <2>1, DirectivesApart DEF Frames
<1>3. CASE Use(v) \/ Events(v) \/ WorkerConnections(v)
  <2>1. servers' = servers /\ arrays' = arrays /\ UNCHANGED listVars
    BY <1>3 DEF Use, Events, WorkerConnections, listVars
  <2>2. Owners'
    BY <1>1, <2>1, OwnersStay
  <2>3. ListOK'
    BY <1>1, <2>1 DEF ListOK, listVars, Items
  <2>4. Lower[v] \in Scalars /\ Atoi[v] \in Nat /\ (Loops # <<>> => Loops[1] \in Scalars)
    BY ConfigAssumption, EmptySeq DEF ConfigAssumption
  <2>5. ConfigOK'
    BY <1>1, <1>3, <2>1, <2>4 DEF ConfigOK, Option, Use, Events, WorkerConnections
  <2> QED  BY <2>1, <2>2, <2>3, <2>5
<1>4. CASE key = "listen" /\ Listen(v)
  <2> DEFINE r == [listen |-> v, size |-> Server.size, runtime |-> Server.runtime]
  <2>1. servers # <<>> /\ v \in Addresses
    BY <1>2, <1>4, DirectivesApart DEF Unsupported
  <2>2. r \in ServerRecords /\ r.runtime = Server.runtime
    BY <1>1, <2>1, LastServer DEF ServerRecords
  <2>3. servers' = [servers EXCEPT ![Len(servers)] = r] /\ arrays' = arrays
    BY <1>1, <1>4, <2>1, SetIs DEF Listen
  <2> HIDE DEF r
  <2>4. servers' \in Seq(ServerRecords) /\ servers' # <<>> /\ Owners'
    BY <1>1, <2>1, <2>2, <2>3, FieldKeeps
  <2>5. ConfigOK' /\ ListOK'
    BY <1>1, <1>4, <2>4 DEF ConfigOK, ListOK, Listen, Allocate, Items
  <2> QED  BY <2>4, <2>5
<1>5. CASE key = "request_header_buffer_size" /\ BufferSize(v)
  <2> DEFINE r == [listen |-> Server.listen, size |-> Atoi[v], runtime |-> Server.runtime]
  <2>1. servers # <<>> /\ Atoi[v] \in Nat
    BY <1>2, <1>5, DirectivesApart, ConfigAssumption DEF ConfigAssumption
  <2>2. r \in ServerRecords /\ r.runtime = Server.runtime
    BY <1>1, <2>1, LastServer DEF ServerRecords
  <2>3. servers' = [servers EXCEPT ![Len(servers)] = r] /\ UNCHANGED <<use, events, connections, listVars>>
    BY <1>1, <1>5, <2>1, SetIs DEF BufferSize
  <2> HIDE DEF r
  <2>4. servers' \in Seq(ServerRecords) /\ servers' # <<>> /\ Owners'
    BY <1>1, <2>1, <2>2, <2>3, FieldKeeps DEF listVars
  <2>5. ConfigOK' /\ ListOK'
    BY <1>1, <2>3, <2>4 DEF ConfigOK, ListOK, listVars, Items
  <2> QED  BY <2>4, <2>5
<1>6. CASE key = "runtime" /\ Runtime(v)
  <2>1. servers # <<>>
    BY <1>2, <1>6, DirectivesApart
  <2> QED  BY <1>1, <1>6, <2>1, RuntimeKeeps
<1>7. CASE Items # <<>> /\ SampleOption(v)
  <2>1. servers' = servers
    BY <1>7 DEF SampleOption, configVars
  <2> QED  BY <1>1, <1>7, <2>1, SampleOptionKeeps
<1> QED  BY <1>3, <1>4, <1>5, <1>6, <1>7 DEF Apply

LEMMA ValueKeeps ==
  ASSUME ConfigAssumption, LoaderInv, result = "loading", rest' \in Seq(Scalars \cup Marks),
         NEW v \in Scalars, Value(v)
  PROVE  LoaderInv'
<1>1. CASE ~Unsupported(Frame.key, v) /\ Apply(Frame.key, v) /\ GoOn(WithKey(NULL))
  <2>1. Frame.key # NULL
    BY DEF Value
  <2>2. ConfigOK' /\ ListOK' /\ Owners' /\ (servers = <<>> \/ servers' # <<>>)
    BY <1>1, <2>1, ApplyKeeps
  <2>3. WalkOK /\ stack' = WithKey(NULL) /\ result' = result
        /\ NULL \in Directives[Frame.block] \cup {NULL}
    BY <1>1 DEF LoaderInv, GoOn
  <2>4. stack' \in Seq(Frames) /\ stack' # <<>> /\ BlocksHaveServers'
    BY <2>2, <2>3, WithKeyKeeps
  <2>5. WalkOK'
    BY <2>3, <2>4 DEF WalkOK
  <2> QED  BY <2>2, <2>5 DEF LoaderInv
<1>2. ASSUME NEW end \in {"failed", "undefined", "no memory"}, Stop(end) PROVE LoaderInv'
  <2>1. end \in Ends
    BY DEF Ends
  <2> QED  BY <1>2, <2>1, StopKeeps
<1> QED  BY <1>1, <1>2 DEF Value

LEMMA ScalarKeeps == ASSUME ConfigAssumption, LoaderInv, Scalar PROVE LoaderInv'
<1>1. PICK e \in Scalars : Take(e) /\ (Key(e) \/ Value(e))
  BY DEF Scalar
<1>2. WalkOK
  BY DEF LoaderInv
<1>3. result = "loading" /\ rest' \in Seq(Scalars \cup Marks)
  BY <1>1, <1>2, TakeKeeps
<1> QED  BY <1>1, <1>3, KeyKeeps, ValueKeeps

-----------------------------------------------------------------------------

LEMMA StepKeeps == ASSUME ConfigAssumption, LoaderInv, LoaderNext PROVE LoaderInv'
<1>1. CASE Open
  BY <1>1, OpenKeeps
<1>2. CASE OpenFails
  BY <1>2, OpenFailsKeeps
<1>3. CASE Ignored
  BY <1>3, IgnoredKeeps
<1>4. CASE ParseError
  BY <1>4, ParseErrorKeeps
<1>5. CASE MappingStart
  BY <1>5, MappingStartKeeps
<1>6. CASE MappingEnd
  BY <1>6, MappingEndKeeps
<1>7. CASE SequenceStart
  BY <1>7, SequenceStartKeeps
<1>8. CASE SequenceEnd
  BY <1>8, SequenceEndKeepsInv
<1>9. CASE Scalar
  BY <1>9, ScalarKeeps
<1> QED  BY <1>1, <1>2, <1>3, <1>4, <1>5, <1>6, <1>7, <1>8, <1>9 DEF LoaderNext

\* Nothing of the loader changes.
LEMMA LoaderStays == ASSUME LoaderInv, UNCHANGED loaderVars PROVE LoaderInv'
<1>1. WalkOK' /\ ConfigOK' /\ ListOK'
  BY DEF loaderVars, LoaderInv, WalkOK, ConfigOK, ListOK, BlocksHaveServers, Items, Option
<1>2. Owners'
  BY OwnersStay DEF loaderVars, LoaderInv
<1> QED  BY <1>1, <1>2 DEF LoaderInv

\* The invariant of loading, from which the theorems below follow.
THEOREM LoaderInvariance == LoaderSpec => []LoaderInv
<1>1. LoaderInit => LoaderInv
  BY ConfigAssumption, InitHolds
<1>2. LoaderInv /\ [LoaderNext]_loaderVars => LoaderInv'
  BY ConfigAssumption, StepKeeps, LoaderStays
<1> QED  BY <1>1, <1>2, PTL DEF LoaderSpec

\* The loader's variables keep their types: in particular the items fit in the
\* list of runtimes, and what was given to others is no longer the list's.
THEOREM TypeCorrect == LoaderSpec => []TypeOK
<1>1. LoaderInv => TypeOK
  BY LoaderInvSuffices
<1> QED  BY <1>1, LoaderInvariance, PTL

\* Whatever the events: a directive of a server finds a server to write to.
THEOREM DirectivesFindServers == LoaderSpec => []BlocksHaveServers
<1>1. LoaderInv => BlocksHaveServers
  BY LoaderInvSuffices
<1> QED  BY <1>1, LoaderInvariance, PTL

\* Whatever the events, and wherever the list moves: each server's runtime is
\* its own and reads what the list says.
THEOREM RuntimesStayOwned == LoaderSpec => []RuntimesOwned
<1>1. LoaderInv => RuntimesOwned
  BY LoaderInvSuffices
<1> QED  BY <1>1, LoaderInvariance, PTL
=============================================================================
