------------------------ MODULE ConfigReadingProofs -------------------------
(***************************************************************************)
(* Documents of every length, with any number of servers: what the loader  *)
(* makes of one is what the document means, and it refuses what is wrong   *)
(* and nothing else.                                                       *)
(***************************************************************************)
EXTENDS ConfigReading, ConfigLoaderProofs, WellFoundedInduction

-----------------------------------------------------------------------------
(* How far a document has been read: the inductive invariant.                 *)

D == doc.entries
List(i) == D[i].list

\* What is left behind the i-th entry, behind the j-th server of its list, and
\* behind the k-th setting of that server.
EntryRest(i) == From(EntryTexts(D), <<"}">> \o End)[i]
ServerRest(i, j) == From(ServerTexts(List(i)), <<"]">>)[j] \o EntryRest(i)
SettingRest(i, j, k) == From(SettingTexts(List(i)[j]), <<"}">>)[k] \o ServerRest(i, j)

\* The servers of the first i entries, and the number of the j-th of the i-th.
Before(i) == Len(BlocksTo(D)[i])
Place(i, j) == Before(i - 1) + j

\* What has been read of the root means es.
RootMeans(es) ==
  /\ ValidRoot(es)
  /\ use = IF Says(es, "use") THEN LoopFor(LastSaid(es, "use")) ELSE NULL
  /\ events = NumberSaid(es, "events")
  /\ connections = NumberSaid(es, "worker_connections")

\* What has been read of the n-th server means es.
ServerMeans(n, es) ==
  /\ ValidServer(es)
  /\ servers[n].listen = LastSaid(es, "listen")
  /\ servers[n].size = NumberSaid(es, "request_header_buffer_size")
  /\ HasRuntime(n) <=> Says(es, "runtime")
  /\ AllOrdered(D) /\ HasRuntime(n) =>
       Items[servers[n].runtime[2]] \in Copies(LastSaid(es, "sample_option"))

First(es, n) == SubSeq(es, 1, n)

ServersRead(n) == \A m \in 1 .. n : ServerMeans(m, Blocks(D)[m])
RootRead(i, n) == RootMeans(First(D, i)) /\ Len(servers) = n /\ ServersRead(n)

\* The first k settings of the j-th server of the i-th entry are read.  If it
\* has a runtime, that is the one the list has added last.
SettingsRead(i, j, k) ==
  /\ RootMeans(First(D, i))
  /\ Len(servers) = Place(i, j)
  /\ ServersRead(Place(i, j) - 1)
  /\ ServerMeans(Place(i, j), First(List(i)[j], k))
  /\ HasRuntime(Place(i, j)) => servers[Place(i, j)].runtime[2] = Len(Items)

Root(key) == [block |-> "root", key |-> key]
InServer(key) == <<Root("servers"), [block |-> "server", key |-> key]>>

\* Where the walk is while it goes on.
AtStart ==
  /\ stack = <<Root(NULL)>>
  /\ \/ rest = Stream(D)
     \/ rest = <<"ignored", "{">> \o EntryRest(0)
     \/ rest = <<"{">> \o EntryRest(0)
  /\ RootRead(0, 0)

AtEntry(i) ==
  /\ stack = <<Root(NULL)>>
  /\ rest = EntryRest(i)
  /\ RootRead(i, Before(i))

AtValue(i) ==
  /\ stack = <<Root(D[i].key)>> /\ D[i].key \in Directives.root /\ D[i].value # NULL
  /\ rest = <<D[i].value>> \o EntryRest(i)
  /\ RootRead(i - 1, Before(i - 1))

AtList(i) ==
  /\ stack = <<Root("servers")>> /\ D[i].value = NULL
  /\ rest = <<"[">> \o ServerRest(i, 0)
  /\ RootRead(i, Before(i - 1))

AtServer(i, j) ==
  /\ stack = <<Root("servers")>> /\ D[i].value = NULL
  /\ rest = ServerRest(i, j)
  /\ RootRead(i, Place(i, j))

AtSetting(i, j, k) ==
  /\ stack = InServer(NULL) /\ D[i].value = NULL
  /\ rest = SettingRest(i, j, k)
  /\ SettingsRead(i, j, k)

AtSettingValue(i, j, k) ==
  /\ stack = InServer(List(i)[j][k].key) /\ D[i].value = NULL
  /\ List(i)[j][k].key \in Directives.server
  /\ rest = <<List(i)[j][k].value>> \o SettingRest(i, j, k)
  /\ SettingsRead(i, j, k - 1)

Within ==
  \/ AtStart
  \/ \E i \in 0 .. Len(D) : AtEntry(i)
  \/ \E i \in 1 .. Len(D) :
       \/ AtValue(i)
       \/ AtList(i)
       \/ \E j \in 0 .. Len(List(i)) : AtServer(i, j)
       \/ \E j \in 1 .. Len(List(i)) :
            \/ \E k \in 0 .. Len(List(i)[j]) : AtSetting(i, j, k)
            \/ \E k \in 1 .. Len(List(i)[j]) : AtSettingValue(i, j, k)

Unread ==
  /\ stack = <<>> /\ rest = Stream(D)
  /\ use = NULL /\ events = 0 /\ connections = 0 /\ servers = <<>>

Reading ==
  /\ D \in WellFormed
  /\ result = "unopened" => Unread
  /\ result = "loading" => Within
  /\ result = "loaded" => rest = End /\ RootRead(Len(D), Before(Len(D)))
  /\ result = "failed" => ~Valid(D)
  /\ result # "crashed"
  /\ result = "undefined" => ~AllOrdered(D)

\* Without a mapping the walk never ends well.
NoEnd == result # "loaded" /\ \A i \in DOMAIN rest : rest[i] # "}"

ReadInv == IF doc.mapping THEN Reading ELSE NoEnd

-----------------------------------------------------------------------------
(* Texts: what is left of one.                                                *)

Symbols == Scalars \cup Marks

Below == {ss \in Nat \X Nat : ss[1] < ss[2]}

LEMMA BelowWellFounded == IsWellFoundedOn(Below, Nat)
  BY NatLessThanWellFounded DEF OpToRel, Below

LEMMA LeastNatural ==
  ASSUME NEW S, S \subseteq Nat, S # {}
  PROVE  \E n \in S : \A m \in S : n <= m
<1>1. PICK n \in S : \A m \in S : ~(<<m, n>> \in Below)
  BY BelowWellFounded, WFMin
<1>2. ASSUME NEW m \in S PROVE n <= m
  <2>1. ~(<<m, n>> \in Below)
    BY <1>1
  <2> QED  BY <2>1 DEF Below
<1> QED  BY <1>2

\* w is the recursive function of From, on the indices from m on.
FromBy(w, texts, tail, m) ==
  w = [i \in m .. Len(texts) |-> IF i = Len(texts) THEN tail ELSE texts[i + 1] \o w[i + 1]]

LEMMA FromGoesBack ==
  ASSUME NEW texts, Len(texts) \in Nat, NEW tail, NEW m \in 0 .. Len(texts) - 1,
         NEW v, FromBy(v, texts, tail, m + 1)
  PROVE  \E w : FromBy(w, texts, tail, m)
<1> DEFINE n == Len(texts)
           w == [i \in m .. n |-> IF i = m THEN texts[m + 1] \o v[m + 1] ELSE v[i]]
<1>1. \A i \in m + 1 .. n : v[i] = IF i = n THEN tail ELSE texts[i + 1] \o v[i + 1]
  BY DEF FromBy
<1>2. \A i \in m .. n : w[i] = IF i = n THEN tail ELSE texts[i + 1] \o w[i + 1]
  <2> TAKE i \in m .. n
  <2>1. CASE i = m
    <3>1. i # n /\ i + 1 \in m .. n /\ i + 1 # m
      BY <2>1
    <3>2. w[i + 1] = v[m + 1] /\ w[i] = texts[m + 1] \o v[m + 1]
      BY <3>1, <2>1
    <3> QED  BY <3>1, <3>2, <2>1
  <2>2. CASE i # m
    <3>1. i \in m + 1 .. n /\ w[i] = v[i] /\ (i # n => i + 1 \in m .. n /\ i + 1 # m)
      BY <2>2
    <3>2. i # n => w[i + 1] = v[i + 1]
      BY <3>1
    <3> QED  BY <3>1, <3>2, <1>1
  <2> QED  BY <2>1, <2>2
<1>3. w = [i \in m .. n |-> IF i = n THEN tail ELSE texts[i + 1] \o w[i + 1]]
  <2> HIDE DEF w
  <2>1. w = [i \in m .. n |-> w[i]]
    BY DEF w
  <2> QED  BY <2>1, <1>2
<1> QED  BY <1>3 DEF FromBy

LEMMA FromExists ==
  ASSUME NEW texts, Len(texts) \in Nat, NEW tail
  PROVE  \E w : FromBy(w, texts, tail, 0)
<1> DEFINE n == Len(texts)
           Bad == {m \in 0 .. n : ~\E w : FromBy(w, texts, tail, n - m)}
<1>1. SUFFICES ASSUME Bad # {} PROVE FALSE
  <2>1. n \in 0 .. n /\ n - n = 0
    OBVIOUS
  <2> QED  BY <2>1
<1>2. PICK m \in Bad : \A k \in Bad : m <= k
  <2>1. Bad \subseteq Nat
    OBVIOUS
  <2> HIDE DEF Bad
  <2> QED  BY <1>1, <2>1, LeastNatural
<1>3. CASE m = 0
  <2> DEFINE w == [i \in n .. n |-> tail]
  <2>1. \A i \in n .. n : i = n /\ w[i] = tail
    OBVIOUS
  <2>3. w = [i \in n .. n |-> w[i]]
    OBVIOUS
  <2>4. w = [i \in n .. n |-> IF i = n THEN tail ELSE texts[i + 1] \o w[i + 1]]
    <3> HIDE DEF w
    <3> QED  BY <2>1, <2>3
  <2>5. \E v : FromBy(v, texts, tail, n)
    BY <2>4 DEF FromBy
  <2>2. n - 0 = n
    OBVIOUS
  <2> QED  BY <1>2, <1>3, <2>2, <2>5
<1>4. CASE m # 0
  <2>1. m - 1 \in 0 .. n /\ m - 1 \notin Bad
    BY <1>2, <1>4
  <2>2. PICK v : FromBy(v, texts, tail, n - (m - 1))
    BY <2>1
  <2>3. n - m \in 0 .. n - 1 /\ n - (m - 1) = (n - m) + 1
    BY <1>2, <1>4
  <2>4. \E w : FromBy(w, texts, tail, n - m)
    BY <2>2, <2>3, FromGoesBack
  <2> QED  BY <2>4, <1>2
<1> QED  BY <1>3, <1>4

\* What is left is the next text and what is left behind it.
LEMMA FromNext ==
  ASSUME NEW texts, Len(texts) \in Nat, NEW tail, NEW i \in 0 .. Len(texts)
  PROVE  From(texts, tail)[i] = IF i = Len(texts) THEN tail ELSE texts[i + 1] \o From(texts, tail)[i + 1]
<1>1. \E w : FromBy(w, texts, tail, 0)
  BY FromExists
<1>2. From(texts, tail) = CHOOSE w : FromBy(w, texts, tail, 0)
  BY DEF From, FromBy
<1>3. PICK w : w = From(texts, tail)
  OBVIOUS
<1>4. FromBy(w, texts, tail, 0)
  BY <1>1, <1>2, <1>3
<1>5. w[i] = IF i = Len(texts) THEN tail ELSE texts[i + 1] \o w[i + 1]
  BY <1>4 DEF FromBy
<1> QED  BY <1>3, <1>5

LEMMA FromSeq ==
  ASSUME NEW S, NEW texts \in Seq(Seq(S)), NEW tail \in Seq(S), NEW i \in 0 .. Len(texts)
  PROVE  From(texts, tail)[i] \in Seq(S)
<1>1. PICK n \in Nat : n = Len(texts)
  BY LenProperties
<1>2. PICK w : w = From(texts, tail)
  OBVIOUS
<1>3. \A j \in 0 .. n : w[j] = IF j = n THEN tail ELSE texts[j + 1] \o w[j + 1]
  <2> TAKE j \in 0 .. n
  <2>1. j \in 0 .. Len(texts) /\ Len(texts) \in Nat
    BY <1>1
  <2>2. From(texts, tail)[j] = IF j = Len(texts) THEN tail ELSE texts[j + 1] \o From(texts, tail)[j + 1]
    BY <2>1, FromNext
  <2> QED  BY <1>1, <1>2, <2>2
<1> DEFINE Bad == {m \in 0 .. n : w[n - m] \notin Seq(S)}
<1>4. SUFFICES ASSUME Bad # {} PROVE FALSE
  <2>1. n - i \in 0 .. n /\ n - (n - i) = i
    BY <1>1
  <2>2. CASE Bad = {}
    <3>1. w[n - (n - i)] \in Seq(S)
      BY <2>1, <2>2
    <3> QED  BY <3>1, <2>1, <1>2
  <2> QED  BY <2>2, <1>4
<1>5. PICK m \in Bad : \A k \in Bad : m <= k
  <2>1. Bad \subseteq Nat
    OBVIOUS
  <2> HIDE DEF Bad
  <2> QED  BY <1>4, <2>1, LeastNatural
<1>6. m \in 0 .. n /\ w[n - m] \notin Seq(S)
  BY <1>5
<1>7. m # 0
  <2>1. CASE m = 0
    <3>1. n - m = n /\ n \in 0 .. n
      BY <2>1
    <3> QED  BY <3>1, <1>3, <1>6
  <2> QED  BY <2>1
<1>8. PICK j \in 0 .. n - 1 : j = n - m /\ j + 1 = n - (m - 1)
  BY <1>6, <1>7
<1>9. w[j + 1] \in Seq(S)
  <2>1. m - 1 \in 0 .. n
    BY <1>6, <1>7
  <2>2. m - 1 \notin Bad
    <3> HIDE DEF Bad
    <3> QED  BY <1>5, <1>6
  <2> QED  BY <2>1, <2>2, <1>8
<1>10. texts[j + 1] \in Seq(S)
  <2>1. j + 1 \in 1 .. Len(texts)
    BY <1>1, <1>8
  <2> QED  BY <2>1, ElementOfSeq
<1>11. w[j] = texts[j + 1] \o w[j + 1]
  <2>1. j \in 0 .. n /\ j # n
    BY <1>8
  <2> QED  BY <2>1, <1>3
<1> QED  BY <1>6, <1>8, <1>9, <1>10, <1>11, ConcatProperties

-----------------------------------------------------------------------------
(* The servers of a document.                                                 *)

Entry == Settings \cup ServerLists

\* What an entry is.
LEMMA EntryParts ==
  ASSUME NEW e \in Entry
  PROVE  /\ e.key \in Scalars
         /\ e.value \in Scalars \cup {NULL}
         /\ e.list \in Seq(Seq(Settings))
         /\ e.value # NULL => e.list = <<>>
         /\ e.value = NULL => e.key = "servers"
<1>1. NULL \notin Scalars
  BY ConfigAssumption DEF ConfigAssumption
<1>2. CASE e \in Settings
  <2>1. e.key \in Scalars /\ e.value \in Scalars /\ e.list = <<>>
    BY <1>2 DEF Settings
  <2>2. <<>> \in Seq(Seq(Settings))
    BY EmptySeq
  <2> QED  BY <1>1, <2>1, <2>2
<1>3. CASE e \in ServerLists
  BY <1>3 DEF ServerLists
<1> QED  BY <1>2, <1>3 DEF Entry

LEMMA EntryOf ==
  ASSUME NEW d \in WellFormed, NEW i \in 1 .. Len(d)
  PROVE  d[i] \in Entry
BY ElementOfSeq DEF WellFormed, Entry

\* w is the recursive function of BlocksTo, on the indices up to m.
BlocksBy(w, d, m) == w = [i \in 0 .. m |-> IF i = 0 THEN <<>> ELSE w[i - 1] \o d[i].list]

LEMMA BlocksGoOn ==
  ASSUME NEW d, NEW m \in Nat \ {0}, NEW v, BlocksBy(v, d, m - 1)
  PROVE  \E w : BlocksBy(w, d, m)
<1> DEFINE w == [i \in 0 .. m |-> IF i = m THEN v[m - 1] \o d[m].list ELSE v[i]]
<1>1. \A i \in 0 .. m - 1 : v[i] = IF i = 0 THEN <<>> ELSE v[i - 1] \o d[i].list
  BY DEF BlocksBy
<1>2. \A i \in 0 .. m : w[i] = IF i = 0 THEN <<>> ELSE w[i - 1] \o d[i].list
  <2> TAKE i \in 0 .. m
  <2>1. CASE i = m
    <3>1. i - 1 \in 0 .. m /\ i - 1 # m /\ i # 0
      BY <2>1
    <3>2. w[i - 1] = v[i - 1] /\ w[i] = v[m - 1] \o d[m].list
      BY <3>1, <2>1
    <3> QED  BY <3>1, <3>2, <2>1
  <2>2. CASE i # m
    <3>1. i \in 0 .. m - 1 /\ w[i] = v[i] /\ (i # 0 => i - 1 \in 0 .. m /\ i - 1 # m)
      BY <2>2
    <3>2. i # 0 => w[i - 1] = v[i - 1]
      BY <3>1
    <3> QED  BY <3>1, <3>2, <1>1
  <2> QED  BY <2>1, <2>2
<1>3. w = [i \in 0 .. m |-> IF i = 0 THEN <<>> ELSE w[i - 1] \o d[i].list]
  <2> HIDE DEF w
  <2>1. w = [i \in 0 .. m |-> w[i]]
    BY DEF w
  <2> QED  BY <2>1, <1>2
<1> QED  BY <1>3 DEF BlocksBy

LEMMA BlocksExist ==
  ASSUME NEW d, NEW n \in Nat
  PROVE  \E w : BlocksBy(w, d, n)
<1> DEFINE Bad == {m \in Nat : ~\E w : BlocksBy(w, d, m)}
<1>1. SUFFICES ASSUME Bad # {} PROVE FALSE
  OBVIOUS
<1>2. PICK m \in Bad : \A k \in Bad : m <= k
  <2>1. Bad \subseteq Nat
    OBVIOUS
  <2> HIDE DEF Bad
  <2> QED  BY <1>1, <2>1, LeastNatural
<1>3. CASE m = 0
  <2>1. BlocksBy([i \in 0 .. 0 |-> <<>>], d, 0)
    BY DEF BlocksBy
  <2> QED  BY <2>1, <1>3
<1>4. CASE m # 0
  <2>1. m - 1 \in Nat /\ m - 1 \notin Bad
    BY <1>2, <1>4
  <2>2. PICK v : BlocksBy(v, d, m - 1)
    BY <2>1
  <2> QED  BY <2>2, <1>4, BlocksGoOn
<1> QED  BY <1>3, <1>4

LEMMA BlocksNext ==
  ASSUME NEW d, Len(d) \in Nat, NEW i \in 0 .. Len(d)
  PROVE  BlocksTo(d)[i] = IF i = 0 THEN <<>> ELSE BlocksTo(d)[i - 1] \o d[i].list
<1>1. \E w : BlocksBy(w, d, Len(d))
  BY BlocksExist
<1>2. BlocksTo(d) = CHOOSE w : BlocksBy(w, d, Len(d))
  BY DEF BlocksTo, BlocksBy
<1>3. PICK w : w = BlocksTo(d)
  OBVIOUS
<1>4. BlocksBy(w, d, Len(d))
  BY <1>1, <1>2, <1>3
<1>5. w[i] = IF i = 0 THEN <<>> ELSE w[i - 1] \o d[i].list
  BY <1>4 DEF BlocksBy
<1> QED  BY <1>3, <1>5

Servers == Seq(Settings)

LEMMA BlocksAreServers ==
  ASSUME NEW d \in WellFormed, NEW i \in 0 .. Len(d)
  PROVE  BlocksTo(d)[i] \in Seq(Servers)
<1>1. PICK n \in Nat : n = Len(d)
  BY LenProperties DEF WellFormed
<1>2. PICK w : w = BlocksTo(d)
  OBVIOUS
<1>3. \A j \in 0 .. n : w[j] = IF j = 0 THEN <<>> ELSE w[j - 1] \o d[j].list
  <2> TAKE j \in 0 .. n
  <2>1. BlocksTo(d)[j] = IF j = 0 THEN <<>> ELSE BlocksTo(d)[j - 1] \o d[j].list
    BY <1>1, BlocksNext
  <2> QED  BY <1>2, <2>1
<1> DEFINE Bad == {m \in 0 .. n : w[m] \notin Seq(Servers)}
<1>4. SUFFICES ASSUME Bad # {} PROVE FALSE
  BY <1>1, <1>2
<1>5. PICK m \in Bad : \A k \in Bad : m <= k
  <2>1. Bad \subseteq Nat
    OBVIOUS
  <2> HIDE DEF Bad
  <2> QED  BY <1>4, <2>1, LeastNatural
<1>6. m \in 0 .. n /\ w[m] \notin Seq(Servers)
  BY <1>5
<1>7. m # 0
  BY <1>3, <1>6, EmptySeq
<1>8. w[m - 1] \in Seq(Servers)
  <2>1. m - 1 \in 0 .. n
    BY <1>6, <1>7
  <2>2. m - 1 \notin Bad
    <3> HIDE DEF Bad
    <3> QED  BY <1>5, <1>6
  <2> QED  BY <2>1, <2>2
<1>9. d[m].list \in Seq(Servers)
  <2>1. m \in 1 .. Len(d)
    BY <1>1, <1>6, <1>7
  <2> QED  BY <2>1, EntryOf, EntryParts DEF Servers
<1>10. w[m] = w[m - 1] \o d[m].list
  BY <1>3, <1>6, <1>7
<1> QED  BY <1>6, <1>8, <1>9, <1>10, ConcatProperties

\* The j-th server of the i-th entry has its place, and the places of an
\* entry follow those of the entry before.
LEMMA BlockPlaces ==
  ASSUME D \in WellFormed, NEW i \in 1 .. Len(D)
  PROVE  /\ Len(List(i)) \in Nat
         /\ Before(i - 1) \in Nat /\ Before(i) = Before(i - 1) + Len(List(i))
         /\ Before(i) <= Len(Blocks(D))
         /\ \A j \in 1 .. Len(List(i)) :
              Place(i, j) \in 1 .. Len(Blocks(D)) /\ Blocks(D)[Place(i, j)] = List(i)[j]
<1>1. PICK n \in Nat : n = Len(D)
  BY LenProperties DEF WellFormed
<1>2. PICK w : w = BlocksTo(D)
  OBVIOUS
<1>3. \A m \in 0 .. n : w[m] \in Seq(Servers) /\ Len(w[m]) \in Nat
  BY <1>1, <1>2, BlocksAreServers, LenProperties
<1>4. ASSUME NEW m \in 1 .. n
      PROVE  /\ w[m - 1] \in Seq(Servers) /\ List(m) \in Seq(Servers)
             /\ Len(List(m)) \in Nat /\ Len(w[m - 1]) \in Nat
             /\ w[m] = w[m - 1] \o List(m)
             /\ Len(w[m]) = Len(w[m - 1]) + Len(List(m))
             /\ \A k \in 1 .. Len(w[m]) :
                  w[m][k] = IF k <= Len(w[m - 1]) THEN w[m - 1][k] ELSE List(m)[k - Len(w[m - 1])]
  <2>1. List(m) \in Seq(Servers)
    BY <1>1, EntryOf, EntryParts DEF Servers, List
  <2>2. m \in 0 .. Len(D) /\ Len(D) \in Nat /\ m # 0 /\ m - 1 \in 0 .. n
    BY <1>1
  <2>3. w[m] = w[m - 1] \o List(m)
    BY <1>2, <2>2, BlocksNext DEF List
  <2>4. w[m - 1] \in Seq(Servers) /\ Len(w[m - 1]) \in Nat
    BY <1>3, <2>2
  <2>5. Len(List(m)) \in Nat
    BY <2>1, LenProperties
  <2>6. /\ Len(w[m]) = Len(w[m - 1]) + Len(List(m))
        /\ \A k \in 1 .. Len(w[m - 1]) + Len(List(m)) :
             w[m][k] = IF k <= Len(w[m - 1]) THEN w[m - 1][k] ELSE List(m)[k - Len(w[m - 1])]
    BY <2>1, <2>3, <2>4, ConcatProperties
  <2> QED  BY <2>1, <2>3, <2>4, <2>5, <2>6
<1>5. i \in 1 .. n
  BY <1>1
<1>6. \A j \in 1 .. Len(List(i)) :
        /\ Place(i, j) \in 1 .. Len(w[i])
        /\ w[i][Place(i, j)] = List(i)[j]
  <2> TAKE j \in 1 .. Len(List(i))
  <2>1. Len(List(i)) \in Nat /\ Len(w[i - 1]) \in Nat /\ Len(w[i]) = Len(w[i - 1]) + Len(List(i))
    BY <1>4, <1>5
  <2>2. Place(i, j) = Len(w[i - 1]) + j
    BY <1>2 DEF Place, Before
  <2>3. /\ Place(i, j) \in 1 .. Len(w[i]) /\ ~(Place(i, j) <= Len(w[i - 1]))
        /\ Place(i, j) - Len(w[i - 1]) = j
    BY <2>1, <2>2
  <2>4. w[i][Place(i, j)] = List(i)[Place(i, j) - Len(w[i - 1])]
    BY <1>4, <1>5, <2>3
  <2> QED  BY <2>3, <2>4
<1> DEFINE Kept(m) == /\ Len(w[i]) <= Len(w[m])
                      /\ \A k \in 1 .. Len(w[i]) : w[m][k] = w[i][k]
           Bad == {m \in i .. n : ~Kept(m)}
<1>7. Bad = {}
  <2> SUFFICES ASSUME Bad # {} PROVE FALSE
    OBVIOUS
  <2>1. PICK m \in Bad : \A k \in Bad : m <= k
    <3>1. Bad \subseteq Nat
      BY <1>5
    <3> HIDE DEF Bad
    <3> QED  BY <3>1, LeastNatural
  <2>2. m \in i .. n /\ ~Kept(m)
    BY <2>1
  <2>3. m # i
    <3>1. Len(w[i]) \in Nat
      BY <1>3, <1>5
    <3>2. Kept(i)
      BY <3>1
    <3> HIDE DEF Kept
    <3> QED  BY <2>2, <3>2
  <2>4. Kept(m - 1)
    <3>1. m - 1 \in i .. n
      BY <2>2, <2>3, <1>5
    <3>2. m - 1 \notin Bad
      <4> HIDE DEF Bad
      <4> QED  BY <2>1, <2>2, <1>5
    <3> QED  BY <3>1, <3>2
  <2>5. m \in 1 .. n
    BY <2>2, <1>5
  <2>6. /\ Len(List(m)) \in Nat /\ Len(w[m - 1]) \in Nat
        /\ Len(w[m]) = Len(w[m - 1]) + Len(List(m))
        /\ \A k \in 1 .. Len(w[m]) :
             w[m][k] = IF k <= Len(w[m - 1]) THEN w[m - 1][k] ELSE List(m)[k - Len(w[m - 1])]
    BY <2>5, <1>4
  <2>7. Len(w[i]) \in Nat
    BY <1>3, <1>5
  <2>8. Len(w[i]) <= Len(w[m])
    BY <2>4, <2>6, <2>7
  <2>9. ASSUME NEW k \in 1 .. Len(w[i]) PROVE w[m][k] = w[i][k]
    <3>1. k \in 1 .. Len(w[m]) /\ k <= Len(w[m - 1])
      <4>1. Len(w[i]) <= Len(w[m - 1])
        BY <2>4
      <4> HIDE DEF Kept, Bad
      <4>2. PICK a \in Nat : a = Len(w[i])
        BY <2>7
      <4>3. PICK b \in Nat : b = Len(w[m - 1]) /\ a <= b
        BY <4>1, <4>2, <2>6
      <4>4. PICK c \in Nat : c = Len(w[m]) /\ a <= c
        BY <4>2, <4>3, <2>6, <2>8
      <4>5. k \in 1 .. a
        BY <4>2
      <4>6. k \in 1 .. c /\ k <= b
        BY <4>3, <4>4, <4>5
      <4> QED  BY <4>3, <4>4, <4>6
    <3>2. w[m][k] = w[m - 1][k]
      BY <2>6, <3>1
    <3> QED  BY <2>4, <3>2
  <2> QED  BY <2>2, <2>8, <2>9
<1>8. Kept(n)
  <2>1. n \in i .. n /\ n \notin Bad
    BY <1>5, <1>7
  <2> QED  BY <2>1
<1>9. w[n] = Blocks(D)
  BY <1>1, <1>2 DEF Blocks
<1>10. \A j \in 1 .. Len(List(i)) :
         Place(i, j) \in 1 .. Len(Blocks(D)) /\ Blocks(D)[Place(i, j)] = List(i)[j]
  <2> TAKE j \in 1 .. Len(List(i))
  <2>1. Place(i, j) \in 1 .. Len(w[i]) /\ w[i][Place(i, j)] = List(i)[j]
    BY <1>6
  <2>2. Len(w[i]) \in Nat /\ Len(w[n]) \in Nat
    BY <1>3, <1>5
  <2>3. Place(i, j) \in 1 .. Len(w[n])
    BY <1>8, <2>1, <2>2
  <2>4. w[n][Place(i, j)] = w[i][Place(i, j)]
    BY <1>8, <2>1
  <2> QED  BY <1>9, <2>1, <2>3, <2>4
<1>11. /\ Len(List(i)) \in Nat
       /\ Before(i - 1) \in Nat /\ Before(i) = Before(i - 1) + Len(List(i))
       /\ Before(i) <= Len(Blocks(D))
  BY <1>2, <1>4, <1>5, <1>8, <1>9 DEF Before
<1> QED  BY <1>10, <1>11

LEMMA FirstBlocks ==
  ASSUME D \in WellFormed
  PROVE  /\ Len(D) \in Nat /\ DOMAIN D = 1 .. Len(D)
         /\ Before(0) = 0 /\ Before(Len(D)) = Len(Blocks(D))
         /\ Blocks(D) \in Seq(Servers) /\ Len(Blocks(D)) \in Nat
         /\ DOMAIN Blocks(D) = 1 .. Len(Blocks(D))
<1>1. Len(D) \in Nat /\ DOMAIN D = 1 .. Len(D)
  BY LenProperties DEF WellFormed
<1>2. BlocksTo(D)[0] = <<>>
  BY <1>1, BlocksNext
<1>3. Before(0) = 0
  BY <1>2, EmptySeq DEF Before
<1>4. Blocks(D) \in Seq(Servers)
  BY <1>1, BlocksAreServers DEF Blocks
<1> QED  BY <1>1, <1>3, <1>4, LenProperties DEF Before, Blocks

-----------------------------------------------------------------------------
(* What is left of a document.                                                *)

\* One event before what is left.
LEMMA OneBefore ==
  ASSUME NEW S, NEW a \in S, NEW t \in Seq(S)
  PROVE  /\ <<a>> \o t \in Seq(S) /\ <<a>> \o t # <<>>
         /\ Head(<<a>> \o t) = a /\ Tail(<<a>> \o t) = t
<1> DEFINE s == <<a>> \o t
<1>1. <<a>> \in Seq(S) /\ Len(<<a>>) = 1 /\ <<a>>[1] = a
  OBVIOUS
<1>2. Len(t) \in Nat
  BY LenProperties
<1>3. /\ s \in Seq(S) /\ Len(s) = 1 + Len(t)
      /\ \A i \in 1 .. 1 + Len(t) : s[i] = IF i <= 1 THEN <<a>>[i] ELSE t[i - 1]
  BY <1>1, ConcatProperties
<1> HIDE DEF s
<1>4. s # <<>>
  BY <1>2, <1>3, EmptySeq
<1>5. s[1] = a
  BY <1>1, <1>2, <1>3
<1>6. /\ Tail(s) \in Seq(S) /\ Len(Tail(s)) = Len(t)
      /\ \A i \in 1 .. Len(Tail(s)) : Tail(s)[i] = s[i + 1]
  BY <1>2, <1>3, <1>4, HeadTailProperties
<1>7. ASSUME NEW i \in 1 .. Len(t) PROVE Tail(s)[i] = t[i]
  <2>1. i + 1 \in 1 .. 1 + Len(t) /\ ~(i + 1 <= 1) /\ (i + 1) - 1 = i
    BY <1>2
  <2> QED  BY <2>1, <1>3, <1>6
<1>8. Tail(s) = t
  BY <1>6, <1>7, SeqEqual
<1> QED  BY <1>3, <1>4, <1>5, <1>8 DEF s

LEMMA Tuples ==
  ASSUME NEW S, NEW a \in S, NEW b \in S
  PROVE  <<a>> \in Seq(S) /\ <<a, b>> \in Seq(S) /\ <<a>> \o <<b>> = <<a, b>>
<1>1. <<a>> \in Seq(S) /\ Len(<<a>>) = 1 /\ <<a>>[1] = a
  OBVIOUS
<1>2. <<b>> \in Seq(S) /\ Len(<<b>>) = 1 /\ <<b>>[1] = b
  OBVIOUS
<1>3. Len(<<a, b>>) = 2 /\ <<a, b>>[1] = a /\ <<a, b>>[2] = b
  OBVIOUS
<1>4. <<a, b>> \in Seq(S)
  <2>1. <<a, b>> \in [1 .. 2 -> S]
    OBVIOUS
  <2> QED  BY <2>1, SeqDef
<1> DEFINE s == <<a>> \o <<b>>
           t == <<a, b>>
<1>5. s \in Seq(S) /\ Len(s) = 2
      /\ \A i \in 1 .. 2 : s[i] = IF i <= 1 THEN <<a>>[i] ELSE <<b>>[i - 1]
  BY <1>1, <1>2, ConcatProperties
<1>6. s[1] = a /\ s[2] = b
  BY <1>1, <1>2, <1>5
<1> HIDE DEF s, t
<1>7. \A i \in 1 .. 2 : s[i] = t[i]
  BY <1>3, <1>6 DEF t
<1>8. s = t
  BY <1>3, <1>4, <1>5, <1>7, SeqEqual DEF t
<1> QED  BY <1>1, <1>4, <1>8 DEF s, t

\* Two events and what is left, as one event at a time.
LEMMA TwoBefore ==
  ASSUME NEW S, NEW a \in S, NEW b \in S, NEW t \in Seq(S)
  PROVE  <<a, b>> \o t = <<a>> \o (<<b>> \o t)
<1>1. <<a>> \in Seq(S) /\ <<b>> \in Seq(S) /\ <<a, b>> = <<a>> \o <<b>>
  BY Tuples
<1> QED  BY <1>1, ConcatAssociative

\* A text in brackets, before what is left.
LEMMA OneTextBefore ==
  ASSUME NEW S, NEW a \in S, NEW u \in Seq(S), NEW t \in Seq(S)
  PROVE  (<<a>> \o u) \o t = <<a>> \o (u \o t)
<1>1. <<a>> \in Seq(S)
  OBVIOUS
<1> QED  BY <1>1, ConcatAssociative

\* Hides the definition of concatenation from the provers.
Cat(s, t) == s \o t

LEMMA CatProperties ==
  ASSUME NEW u \in Seq(Symbols), NEW v \in Seq(Symbols)
  PROVE  Cat(u, v) \in Seq(Symbols) /\ \A t \in Seq(Symbols) : Cat(Cat(u, v), t) = Cat(u, Cat(v, t))
BY ConcatProperties, ConcatAssociative DEF Cat

LEMMA FromNextIs ==
  ASSUME NEW texts, Len(texts) \in Nat, NEW tail, NEW m \in 0 .. Len(texts), m # Len(texts)
  PROVE  From(texts, tail)[m] = Cat(texts[m + 1], From(texts, tail)[m + 1])
BY FromNext DEF Cat

\* A text in two parts; they and what is left, and what stands behind.
LEMMA NextText ==
  ASSUME NEW texts \in Seq(Seq(Symbols)), NEW tail \in Seq(Symbols), NEW t \in Seq(Symbols),
         NEW m \in 0 .. Len(texts), m # Len(texts),
         NEW x \in Seq(Symbols), NEW u \in Seq(Symbols), texts[m + 1] = Cat(x, u)
  PROVE  Cat(From(texts, tail)[m], t) = Cat(x, Cat(u, Cat(From(texts, tail)[m + 1], t)))
<1>1. Len(texts) \in Nat
  BY LenProperties
<1>2. m + 1 \in 0 .. Len(texts)
  BY <1>1
<1>3. PICK v : v = From(texts, tail)[m + 1]
  OBVIOUS
<1>4. v \in Seq(Symbols)
  BY <1>2, <1>3, FromSeq
<1>5. From(texts, tail)[m] = Cat(Cat(x, u), v)
  <2>1. From(texts, tail)[m] = Cat(texts[m + 1], From(texts, tail)[m + 1])
    BY <1>1, FromNextIs
  <2> QED  BY <1>3, <2>1
<1>6. Cat(Cat(Cat(x, u), v), t) = Cat(x, Cat(u, Cat(v, t)))
  BY <1>4, CatProperties
<1> QED  BY <1>3, <1>5, <1>6

LEMMA LastText ==
  ASSUME NEW texts \in Seq(Seq(Symbols)), NEW tail \in Seq(Symbols), NEW t \in Seq(Symbols),
         NEW m \in 0 .. Len(texts)
  PROVE  /\ From(texts, tail)[m] \o t \in Seq(Symbols)
         /\ m = Len(texts) => From(texts, tail)[m] \o t = tail \o t
<1>1. Len(texts) \in Nat
  BY LenProperties
<1>2. From(texts, tail)[m] \in Seq(Symbols)
  BY FromSeq
<1>3. From(texts, tail)[m] \o t \in Seq(Symbols)
  BY <1>2, ConcatProperties
<1>4. m = Len(texts) => From(texts, tail)[m] = tail
  BY <1>1, FromNext
<1> QED  BY <1>3, <1>4

LEMMA SymbolsAre ==
  /\ \A s \in Scalars : s \in Symbols
  /\ \A m \in Marks : m \in Symbols
  /\ "{" \in Symbols /\ "}" \in Symbols /\ "[" \in Symbols /\ "]" \in Symbols /\ "ignored" \in Symbols
  /\ \A s \in Scalars : s \notin Marks /\ s # NULL
  /\ NULL \notin Marks
BY ConfigAssumption DEF ConfigAssumption, Symbols, Marks, NULL

LEMMA TextsAre ==
  /\ <<"{">> \in Seq(Symbols) /\ <<"}">> \in Seq(Symbols) /\ <<"]">> \in Seq(Symbols)
  /\ <<"ignored", "ignored">> \in Seq(Symbols) /\ <<"ignored", "{">> \in Seq(Symbols)
  /\ \A a, b \in Scalars : <<a, b>> \in Seq(Symbols)
  /\ \A a \in Scalars : <<a, "[">> \in Seq(Symbols)
<1>1. ASSUME NEW a \in Symbols, NEW b \in Symbols
      PROVE  <<a>> \in Seq(Symbols) /\ <<a, b>> \in Seq(Symbols)
  BY Tuples
<1>2. <<"{">> \in Seq(Symbols) /\ <<"}">> \in Seq(Symbols) /\ <<"]">> \in Seq(Symbols)
  BY <1>1, SymbolsAre, Zenon
<1>3. <<"ignored", "ignored">> \in Seq(Symbols) /\ <<"ignored", "{">> \in Seq(Symbols)
  BY <1>1, SymbolsAre, Zenon
<1>4. \A a, b \in Scalars : <<a, b>> \in Seq(Symbols)
  BY <1>1, SymbolsAre, Zenon
<1>5. \A a \in Scalars : <<a, "[">> \in Seq(Symbols)
  BY <1>1, SymbolsAre, Zenon
<1> QED  BY <1>2, <1>3, <1>4, <1>5

\* The parts of a server.
LEMMA SettingParts ==
  ASSUME NEW b \in Servers
  PROVE  /\ Len(b) \in Nat /\ DOMAIN b = 1 .. Len(b)
         /\ \A k \in 1 .. Len(b) : b[k].key \in Scalars /\ b[k].value \in Scalars
         /\ SettingTexts(b) \in Seq(Seq(Symbols)) /\ Len(SettingTexts(b)) = Len(b)
         /\ \A k \in 1 .. Len(b) : SettingTexts(b)[k] = <<b[k].key, b[k].value>>
         /\ ServerText(b) \in Seq(Symbols)
<1>1. Len(b) \in Nat /\ DOMAIN b = 1 .. Len(b)
  BY LenProperties DEF Servers
<1>2. \A k \in 1 .. Len(b) : b[k].key \in Scalars /\ b[k].value \in Scalars
  <2> TAKE k \in 1 .. Len(b)
  <2>1. b[k] \in Settings
    BY ElementOfSeq DEF Servers
  <2> QED  BY <2>1 DEF Settings
<1>3. ASSUME NEW k \in 1 .. Len(b) PROVE <<b[k].key, b[k].value>> \in Seq(Symbols)
  BY <1>2, TextsAre
<1>4. SettingTexts(b) = [k \in 1 .. Len(b) |-> <<b[k].key, b[k].value>>]
  BY DEF SettingTexts, SettingText
<1>5. SettingTexts(b) \in [1 .. Len(b) -> Seq(Symbols)]
  BY <1>3, <1>4
<1>6. SettingTexts(b) \in Seq(Seq(Symbols)) /\ Len(SettingTexts(b)) = Len(b)
  BY <1>1, <1>5, SeqDef, LenProperties
<1>7. <<"}">> \in Seq(Symbols) /\ <<"{">> \in Seq(Symbols)
  BY TextsAre
<1>8. 0 \in 0 .. Len(SettingTexts(b))
  BY <1>1, <1>6
<1>9. Joined(SettingTexts(b), <<"}">>) \in Seq(Symbols)
  BY <1>6, <1>7, <1>8, FromSeq DEF Joined
<1>10. ServerText(b) \in Seq(Symbols)
  BY <1>7, <1>9, ConcatProperties DEF ServerText
<1> QED  BY <1>1, <1>2, <1>4, <1>6, <1>10

LEMMA ServerParts ==
  ASSUME NEW bs \in Seq(Servers)
  PROVE  /\ Len(bs) \in Nat
         /\ \A j \in 1 .. Len(bs) : bs[j] \in Servers
         /\ ServerTexts(bs) \in Seq(Seq(Symbols)) /\ Len(ServerTexts(bs)) = Len(bs)
         /\ \A j \in 1 .. Len(bs) : ServerTexts(bs)[j] = ServerText(bs[j])
         /\ Joined(ServerTexts(bs), <<"]">>) \in Seq(Symbols)
<1>1. Len(bs) \in Nat /\ \A j \in 1 .. Len(bs) : bs[j] \in Servers
  BY LenProperties, ElementOfSeq
<1>2. ServerTexts(bs) = [j \in 1 .. Len(bs) |-> ServerText(bs[j])]
  BY DEF ServerTexts
<1>3. ServerTexts(bs) \in [1 .. Len(bs) -> Seq(Symbols)]
  BY <1>1, <1>2, SettingParts
<1>4. ServerTexts(bs) \in Seq(Seq(Symbols)) /\ Len(ServerTexts(bs)) = Len(bs)
  BY <1>1, <1>3, SeqDef, LenProperties
<1>5. <<"]">> \in Seq(Symbols) /\ 0 \in 0 .. Len(ServerTexts(bs))
  <2>1. 0 \in 0 .. Len(ServerTexts(bs))
    BY <1>1, <1>4
  <2> QED  BY <2>1, TextsAre
<1>6. Joined(ServerTexts(bs), <<"]">>) \in Seq(Symbols)
  BY <1>4, <1>5, FromSeq DEF Joined
<1> QED  BY <1>1, <1>2, <1>4, <1>6

LEMMA EntryTextParts ==
  ASSUME D \in WellFormed
  PROVE  /\ Len(D) \in Nat
         /\ EntryTexts(D) \in Seq(Seq(Symbols)) /\ Len(EntryTexts(D)) = Len(D)
         /\ \A i \in 1 .. Len(D) : EntryTexts(D)[i] = EntryText(D[i])
<1>1. Len(D) \in Nat
  BY LenProperties DEF WellFormed
<1>2. EntryTexts(D) = [i \in 1 .. Len(D) |-> EntryText(D[i])]
  BY DEF EntryTexts
<1>3. ASSUME NEW i \in 1 .. Len(D) PROVE EntryText(D[i]) \in Seq(Symbols)
  <2>1. /\ D[i].key \in Scalars /\ D[i].value \in Scalars \cup {NULL}
        /\ D[i].list \in Seq(Servers)
    BY EntryOf, EntryParts DEF Servers
  <2>2. CASE D[i].value # NULL
    <3>1. <<D[i].key, D[i].value>> \in Seq(Symbols)
      BY <2>1, <2>2, TextsAre
    <3> QED  BY <3>1, <2>2 DEF EntryText, SettingText
  <2>3. CASE D[i].value = NULL
    <3>1. <<D[i].key, "[">> \in Seq(Symbols)
      BY <2>1, TextsAre
    <3>2. Joined(ServerTexts(D[i].list), <<"]">>) \in Seq(Symbols)
      BY <2>1, ServerParts
    <3> QED  BY <3>1, <3>2, <2>3, ConcatProperties DEF EntryText
  <2> QED  BY <2>2, <2>3
<1>4. EntryTexts(D) \in [1 .. Len(D) -> Seq(Symbols)]
  BY <1>2, <1>3
<1>5. EntryTexts(D) \in Seq(Seq(Symbols)) /\ Len(EntryTexts(D)) = Len(D)
  BY <1>1, <1>4, SeqDef, LenProperties
<1> QED  BY <1>1, <1>2, <1>5

LEMMA TheEnd == End \in Seq(Symbols) /\ <<"}">> \o End \in Seq(Symbols)
<1>1. End \in Seq(Symbols)
  BY TextsAre DEF End
<1> QED  BY <1>1, SymbolsAre, OneBefore

\* The texts of an entry, event by event; t stands behind it.
LEMMA KeyAndValue ==
  ASSUME NEW a \in Symbols, NEW b \in Symbols, NEW t \in Seq(Symbols)
  PROVE  <<a, b>> \o t = <<a>> \o (<<b>> \o t)
<1>1. PICK S : a \in S /\ b \in S /\ t \in Seq(S)
  OBVIOUS
<1> QED  BY <1>1, TwoBefore

LEMMA KeyAndList ==
  ASSUME NEW a \in Symbols, NEW c \in Symbols, NEW u \in Seq(Symbols), NEW t \in Seq(Symbols)
  PROVE  (<<a, c>> \o u) \o t = <<a>> \o (<<c>> \o (u \o t))
<1>1. <<a, c>> \o u = <<a>> \o (<<c>> \o u) /\ <<c>> \o u \in Seq(Symbols)
  BY TwoBefore, OneBefore
<1>2. PICK x \in Seq(Symbols) : x = <<c>> \o u
  BY <1>1
<1>3. (<<a>> \o x) \o t = <<a>> \o (x \o t)
  BY OneTextBefore
<1>4. x \o t = <<c>> \o (u \o t)
  BY <1>2, OneTextBefore
<1> QED  BY <1>1, <1>2, <1>3, <1>4

\* Behind an entry.
LEMMA EntriesLeft ==
  ASSUME D \in WellFormed, NEW i \in 0 .. Len(D)
  PROVE  /\ EntryRest(i) \in Seq(Symbols)
         /\ i = Len(D) => EntryRest(i) = <<"}">> \o End
         /\ i # Len(D) /\ D[i + 1].value # NULL =>
              EntryRest(i) = <<D[i + 1].key>> \o (<<D[i + 1].value>> \o EntryRest(i + 1))
         /\ i # Len(D) /\ D[i + 1].value = NULL =>
              EntryRest(i) = <<D[i + 1].key>> \o (<<"[">> \o ServerRest(i + 1, 0))
<1> DEFINE texts == EntryTexts(D)
           tail == <<"}">> \o End
<1>1. /\ Len(D) \in Nat /\ texts \in Seq(Seq(Symbols)) /\ Len(texts) = Len(D)
      /\ \A m \in 1 .. Len(D) : texts[m] = EntryText(D[m])
  BY EntryTextParts
<1>2. tail \in Seq(Symbols)
  BY TheEnd
<1> HIDE DEF texts, tail
<1>3. \A m \in 0 .. Len(D) : From(texts, tail)[m] \in Seq(Symbols)
  BY <1>1, <1>2, FromSeq
<1>4. \A m : EntryRest(m) = From(texts, tail)[m]
  BY DEF EntryRest, texts, tail
<1>5. From(texts, tail)[i] = IF i = Len(D) THEN tail ELSE texts[i + 1] \o From(texts, tail)[i + 1]
  BY <1>1, FromNext
<1>6. ASSUME i # Len(D)
      PROVE  /\ EntryRest(i + 1) \in Seq(Symbols)
             /\ EntryRest(i) = EntryText(D[i + 1]) \o EntryRest(i + 1)
             /\ D[i + 1].key \in Symbols
             /\ D[i + 1].value # NULL => D[i + 1].value \in Symbols
             /\ List(i + 1) \in Seq(Servers)
  <2>1. i + 1 \in 1 .. Len(D) /\ i + 1 \in 0 .. Len(D)
    BY <1>1, <1>6
  <2>2. EntryRest(i + 1) \in Seq(Symbols)
    BY <1>3, <1>4, <2>1
  <2>3. EntryRest(i) = EntryText(D[i + 1]) \o EntryRest(i + 1)
    BY <1>1, <1>4, <1>5, <1>6, <2>1
  <2>4. D[i + 1].key \in Scalars /\ D[i + 1].value \in Scalars \cup {NULL} /\ List(i + 1) \in Seq(Servers)
    BY <2>1, EntryOf, EntryParts DEF List, Servers
  <2> QED  BY <2>2, <2>3, <2>4, SymbolsAre
<1>7. i # Len(D) /\ D[i + 1].value # NULL =>
        EntryRest(i) = <<D[i + 1].key>> \o (<<D[i + 1].value>> \o EntryRest(i + 1))
  <2> HAVE i # Len(D) /\ D[i + 1].value # NULL
  <2> DEFINE a == D[i + 1].key
             b == D[i + 1].value
             t == EntryRest(i + 1)
  <2>1. EntryText(D[i + 1]) = <<a, b>>
    BY DEF EntryText, SettingText
  <2>2. EntryRest(i) = <<a, b>> \o t /\ a \in Symbols /\ b \in Symbols /\ t \in Seq(Symbols)
    BY <1>6, <2>1
  <2> HIDE DEF a, b, t
  <2>3. <<a, b>> \o t = <<a>> \o (<<b>> \o t)
    BY <2>2, KeyAndValue, Zenon
  <2> QED  BY <2>2, <2>3, Zenon DEF a, b, t
<1>8. i # Len(D) /\ D[i + 1].value = NULL =>
        EntryRest(i) = <<D[i + 1].key>> \o (<<"[">> \o ServerRest(i + 1, 0))
  <2> HAVE i # Len(D) /\ D[i + 1].value = NULL
  <2> DEFINE u == Joined(ServerTexts(List(i + 1)), <<"]">>)
             a == D[i + 1].key
  <2>1. EntryText(D[i + 1]) = <<a, "[">> \o u
    BY DEF EntryText, List
  <2>2. u \in Seq(Symbols) /\ a \in Symbols /\ EntryRest(i + 1) \in Seq(Symbols) /\ "[" \in Symbols
    BY <1>6, ServerParts, SymbolsAre
  <2>3. ServerRest(i + 1, 0) = u \o EntryRest(i + 1)
    BY DEF ServerRest, Joined
  <2> HIDE DEF u, a
  <2>4. EntryRest(i) = (<<a, "[">> \o u) \o EntryRest(i + 1)
    BY <1>6, <2>1
  <2>5. (<<a, "[">> \o u) \o EntryRest(i + 1) = <<a>> \o (<<"[">> \o (u \o EntryRest(i + 1)))
    BY <2>2, KeyAndList, Zenon
  <2> QED  BY <2>3, <2>4, <2>5, Zenon DEF a
<1>9. i = Len(D) => EntryRest(i) = <<"}">> \o End
  BY <1>4, <1>5 DEF tail
<1> QED  BY <1>3, <1>4, <1>7, <1>8, <1>9

\* Behind a server of a list.
LEMMA ServersLeftOf ==
  ASSUME NEW bs \in Seq(Servers), NEW t \in Seq(Symbols), NEW j \in 0 .. Len(bs)
  PROVE  LET r == From(ServerTexts(bs), <<"]">>)[j] \o t
         IN  /\ r \in Seq(Symbols)
             /\ j = Len(bs) => r = <<"]">> \o t
             /\ j # Len(bs) =>
                  r = <<"{">> \o (From(SettingTexts(bs[j + 1]), <<"}">>)[0]
                                    \o (From(ServerTexts(bs), <<"]">>)[j + 1] \o t))
<1>1. PICK texts : texts = ServerTexts(bs)
  OBVIOUS
<1>2. PICK tail : tail = <<"]">>
  OBVIOUS
<1>3. PICK x : x = <<"{">>
  OBVIOUS
<1>4. /\ Len(bs) \in Nat /\ texts \in Seq(Seq(Symbols)) /\ Len(texts) = Len(bs)
      /\ \A m \in 1 .. Len(bs) : bs[m] \in Servers /\ texts[m] = ServerText(bs[m])
  BY <1>1, ServerParts
<1>5. tail \in Seq(Symbols) /\ x \in Seq(Symbols)
  BY <1>2, <1>3, TextsAre
<1>6. /\ From(texts, tail)[j] \o t \in Seq(Symbols)
      /\ j = Len(bs) => From(texts, tail)[j] \o t = tail \o t
  <2>1. texts \in Seq(Seq(Symbols)) /\ j \in 0 .. Len(texts) /\ tail \in Seq(Symbols)
    BY <1>4, <1>5
  <2>2. /\ From(texts, tail)[j] \o t \in Seq(Symbols)
        /\ j = Len(texts) => From(texts, tail)[j] \o t = tail \o t
    BY <2>1, LastText
  <2> QED  BY <1>4, <2>2
<1>7. ASSUME j # Len(bs)
      PROVE  From(texts, tail)[j] \o t =
               x \o (From(SettingTexts(bs[j + 1]), <<"}">>)[0] \o (From(texts, tail)[j + 1] \o t))
  <2>1. PICK b : b = bs[j + 1]
    OBVIOUS
  <2>2. PICK u : u = From(SettingTexts(b), <<"}">>)[0]
    OBVIOUS
  <2>3. b \in Servers /\ texts[j + 1] = ServerText(b)
    <3>1. j + 1 \in 1 .. Len(bs)
      BY <1>4, <1>7
    <3> QED  BY <1>4, <2>1, <3>1
  <2>4. ServerText(b) = x \o u
    BY <1>3, <2>2 DEF ServerText, Joined
  <2>5. u \in Seq(Symbols)
    <3>1. SettingTexts(b) \in Seq(Seq(Symbols)) /\ 0 \in 0 .. Len(SettingTexts(b))
      BY <2>3, SettingParts
    <3>2. <<"}">> \in Seq(Symbols)
      BY TextsAre
    <3> QED  BY <2>2, <3>1, <3>2, FromSeq
  <2>6. /\ texts \in Seq(Seq(Symbols)) /\ tail \in Seq(Symbols) /\ x \in Seq(Symbols)
        /\ j \in 0 .. Len(texts) /\ j # Len(texts) /\ texts[j + 1] = Cat(x, u)
    BY <1>4, <1>5, <1>7, <2>3, <2>4 DEF Cat
  <2>7. From(texts, tail)[j] \o t = x \o (u \o (From(texts, tail)[j + 1] \o t))
    <3>1. Cat(From(texts, tail)[j], t) = Cat(x, Cat(u, Cat(From(texts, tail)[j + 1], t)))
      BY <2>5, <2>6, NextText
    <3> QED  BY <3>1 DEF Cat
  <2> QED  BY <2>1, <2>2, <2>7
<1> QED  BY <1>1, <1>2, <1>3, <1>6, <1>7, Zenon

LEMMA ServersLeft ==
  ASSUME D \in WellFormed, NEW i \in 1 .. Len(D), NEW j \in 0 .. Len(List(i))
  PROVE  /\ ServerRest(i, j) \in Seq(Symbols)
         /\ j = Len(List(i)) => ServerRest(i, j) = <<"]">> \o EntryRest(i)
         /\ j # Len(List(i)) => ServerRest(i, j) = <<"{">> \o SettingRest(i, j + 1, 0)
<1>1. PICK bs : bs = List(i)
  OBVIOUS
<1>2. PICK t : t = EntryRest(i)
  OBVIOUS
<1>3. bs \in Seq(Servers)
  BY <1>1, EntryOf, EntryParts DEF List, Servers
<1>4. t \in Seq(Symbols)
  <2>1. i \in 0 .. Len(D)
    BY LenProperties DEF WellFormed
  <2> QED  BY <1>2, <2>1, EntriesLeft
<1>5. j \in 0 .. Len(bs)
  BY <1>1
<1> QED  BY <1>1, <1>2, <1>3, <1>4, <1>5, ServersLeftOf, Zenon DEF ServerRest, SettingRest

\* Behind a setting of a server.
LEMMA SettingsLeftOf ==
  ASSUME NEW b \in Servers, NEW t \in Seq(Symbols), NEW k \in 0 .. Len(b)
  PROVE  LET r == From(SettingTexts(b), <<"}">>)[k] \o t
         IN  /\ r \in Seq(Symbols)
             /\ k = Len(b) => r = <<"}">> \o t
             /\ k # Len(b) =>
                  r = <<b[k + 1].key>> \o (<<b[k + 1].value>>
                        \o (From(SettingTexts(b), <<"}">>)[k + 1] \o t))
<1>1. PICK texts : texts = SettingTexts(b)
  OBVIOUS
<1>2. PICK tail : tail = <<"}">>
  OBVIOUS
<1>3. /\ Len(b) \in Nat /\ texts \in Seq(Seq(Symbols)) /\ Len(texts) = Len(b)
      /\ \A m \in 1 .. Len(b) :
           b[m].key \in Scalars /\ b[m].value \in Scalars /\ texts[m] = <<b[m].key, b[m].value>>
  BY <1>1, SettingParts
<1>4. tail \in Seq(Symbols)
  BY <1>2, TextsAre
<1>5. /\ From(texts, tail)[k] \o t \in Seq(Symbols)
      /\ k = Len(b) => From(texts, tail)[k] \o t = tail \o t
  <2>1. texts \in Seq(Seq(Symbols)) /\ k \in 0 .. Len(texts) /\ tail \in Seq(Symbols)
    BY <1>3, <1>4
  <2>2. /\ From(texts, tail)[k] \o t \in Seq(Symbols)
        /\ k = Len(texts) => From(texts, tail)[k] \o t = tail \o t
    BY <2>1, LastText
  <2> QED  BY <1>3, <2>2
<1>6. ASSUME k # Len(b)
      PROVE  From(texts, tail)[k] \o t =
               <<b[k + 1].key>> \o (<<b[k + 1].value>> \o (From(texts, tail)[k + 1] \o t))
  <2>1. PICK x : x = b[k + 1].key
    OBVIOUS
  <2>2. PICK y : y = b[k + 1].value
    OBVIOUS
  <2>3. x \in Symbols /\ y \in Symbols /\ texts[k + 1] = <<x, y>>
    <3>1. k + 1 \in 1 .. Len(b)
      BY <1>3, <1>6
    <3> QED  BY <1>3, <2>1, <2>2, <3>1, SymbolsAre
  <2>4. PICK v : v = <<x>>
    OBVIOUS
  <2>5. PICK u : u = <<y>>
    OBVIOUS
  <2>6. v \in Seq(Symbols) /\ u \in Seq(Symbols) /\ texts[k + 1] = Cat(v, u)
    BY <2>3, <2>4, <2>5, Tuples DEF Cat
  <2>7. From(texts, tail)[k] \o t = v \o (u \o (From(texts, tail)[k + 1] \o t))
    <3>1. /\ texts \in Seq(Seq(Symbols)) /\ tail \in Seq(Symbols)
          /\ k \in 0 .. Len(texts) /\ k # Len(texts)
      BY <1>3, <1>4, <1>6
    <3>2. Cat(From(texts, tail)[k], t) = Cat(v, Cat(u, Cat(From(texts, tail)[k + 1], t)))
      BY <2>6, <3>1, NextText
    <3> QED  BY <3>2 DEF Cat
  <2> QED  BY <2>1, <2>2, <2>4, <2>5, <2>7
<1> QED  BY <1>1, <1>2, <1>5, <1>6, Zenon

LEMMA SettingsLeft ==
  ASSUME D \in WellFormed, NEW i \in 1 .. Len(D), NEW j \in 1 .. Len(List(i)),
         NEW k \in 0 .. Len(List(i)[j])
  PROVE  /\ SettingRest(i, j, k) \in Seq(Symbols)
         /\ k = Len(List(i)[j]) => SettingRest(i, j, k) = <<"}">> \o ServerRest(i, j)
         /\ k # Len(List(i)[j]) =>
              SettingRest(i, j, k) =
                <<List(i)[j][k + 1].key>> \o (<<List(i)[j][k + 1].value>> \o SettingRest(i, j, k + 1))
<1>1. PICK b : b = List(i)[j]
  OBVIOUS
<1>2. PICK t : t = ServerRest(i, j)
  OBVIOUS
<1>3. b \in Servers /\ t \in Seq(Symbols)
  <2>1. List(i) \in Seq(Servers)
    BY EntryOf, EntryParts DEF List, Servers
  <2>2. Len(List(i)) \in Nat /\ b \in Servers
    BY <1>1, <2>1, ServerParts
  <2>3. j \in 0 .. Len(List(i))
    BY <2>2
  <2> QED  BY <1>2, <2>2, <2>3, ServersLeft
<1>4. k \in 0 .. Len(b)
  BY <1>1
<1> QED  BY <1>1, <1>2, <1>3, <1>4, SettingsLeftOf, Zenon DEF SettingRest

\* Before the first entry.
LEMMA StreamLeft ==
  ASSUME D \in WellFormed
  PROVE  /\ Stream(D) \in Seq(Symbols)
         /\ Stream(D) = <<"ignored">> \o (<<"ignored", "{">> \o EntryRest(0))
         /\ <<"ignored", "{">> \o EntryRest(0) \in Seq(Symbols)
         /\ <<"ignored", "{">> \o EntryRest(0) = <<"ignored">> \o (<<"{">> \o EntryRest(0))
         /\ <<"{">> \o EntryRest(0) \in Seq(Symbols)
<1> DEFINE t == EntryRest(0)
<1>1. t \in Seq(Symbols)
  <2>1. 0 \in 0 .. Len(D)
    BY LenProperties DEF WellFormed
  <2> QED  BY <2>1, EntriesLeft
<1>2. Stream(D) = (<<"ignored", "ignored">> \o <<"{">>) \o t
  BY DEF Stream, Begin, EntryRest, Joined
<1> HIDE DEF t
<1>3. PICK a \in Symbols, b \in Symbols : a = "ignored" /\ b = "{"
  BY SymbolsAre
<1>4. <<a, a>> \o <<b>> = <<a>> \o <<a, b>> /\ <<a, b>> \in Seq(Symbols)
  <2>1. PICK c : c = <<b>>
    OBVIOUS
  <2>2. c \in Seq(Symbols) /\ <<a>> \o c = <<a, b>> /\ <<a, b>> \in Seq(Symbols)
    BY <2>1, Tuples
  <2>3. <<a, a>> \o c = <<a>> \o (<<a>> \o c)
    BY <2>2, TwoBefore
  <2> QED  BY <2>1, <2>2, <2>3
<1>5. (<<a>> \o <<a, b>>) \o t = <<a>> \o (<<a, b>> \o t)
  BY <1>1, <1>4, OneTextBefore
<1>6. <<a, b>> \o t = <<a>> \o (<<b>> \o t) /\ <<b>> \o t \in Seq(Symbols)
  BY <1>1, TwoBefore, OneBefore
<1>7. <<a, b>> \o t \in Seq(Symbols)
  BY <1>6, OneBefore
<1>8. Stream(D) = <<a>> \o (<<a, b>> \o t)
  BY <1>2, <1>3, <1>4, <1>5, Zenon
<1>9. Stream(D) \in Seq(Symbols)
  BY <1>7, <1>8, OneBefore
<1> QED  BY <1>3, <1>6, <1>7, <1>8, <1>9, Zenon DEF t

-----------------------------------------------------------------------------
(* What the first entries say, and one more.                                  *)

LEMMA FirstParts ==
  ASSUME NEW S, NEW es \in Seq(S), NEW k \in 0 .. Len(es)
  PROVE  /\ Len(es) \in Nat /\ DOMAIN es = 1 .. Len(es)
         /\ First(es, k) \in Seq(S) /\ Len(First(es, k)) = k /\ DOMAIN First(es, k) = 1 .. k
         /\ \A i \in 1 .. k : First(es, k)[i] = es[i]
<1>1. Len(es) \in Nat /\ DOMAIN es = 1 .. Len(es)
  BY LenProperties
<1>2. \A i \in 1 .. k : es[i] \in S
  <2> TAKE i \in 1 .. k
  <2>1. i \in 1 .. Len(es)
    BY <1>1
  <2> QED  BY <2>1, ElementOfSeq
<1>3. /\ SubSeq(es, 1, k) \in Seq(S)
      /\ Len(SubSeq(es, 1, k)) = IF 1 <= k THEN k - 1 + 1 ELSE 0
      /\ \A i \in 1 .. k - 1 + 1 : SubSeq(es, 1, k)[i] = es[1 + i - 1]
  <2>1. 1 \in Int /\ k \in Int
    BY <1>1
  <2> QED  BY <1>2, <2>1, SubSeqProperties
<1>4. First(es, k) = SubSeq(es, 1, k)
  BY DEF First
<1>5. First(es, k) \in Seq(S) /\ Len(First(es, k)) = k
  BY <1>1, <1>3, <1>4
<1>6. \A i \in 1 .. k : First(es, k)[i] = es[i]
  <2> TAKE i \in 1 .. k
  <2>1. i \in 1 .. k - 1 + 1 /\ 1 + i - 1 = i
    BY <1>1
  <2> QED  BY <1>3, <1>4, <2>1
<1>7. DOMAIN First(es, k) = 1 .. k
  BY <1>5, LenProperties
<1> QED  BY <1>1, <1>5, <1>6, <1>7

LEMMA FirstEnds ==
  ASSUME NEW S, NEW es \in Seq(S)
  PROVE  First(es, 0) = <<>> /\ First(es, Len(es)) = es
<1>1. First(es, 0) = <<>>
  BY SubSeqEmpty DEF First
<1> QED  BY <1>1, SubSeqFull DEF First

LEMMA FirstNext ==
  ASSUME NEW S, NEW es \in Seq(S), NEW k \in 1 .. Len(es)
  PROVE  First(es, k) = Append(First(es, k - 1), es[k]) /\ es[k] \in S
<1>1. PICK s : s = First(es, k)
  OBVIOUS
<1>2. PICK r : r = First(es, k - 1)
  OBVIOUS
<1>3. Len(es) \in Nat /\ k - 1 \in 0 .. Len(es) /\ k \in 0 .. Len(es) /\ es[k] \in S
  BY LenProperties, ElementOfSeq
<1>4. s \in Seq(S) /\ Len(s) = k /\ \A i \in 1 .. k : s[i] = es[i]
  BY <1>1, <1>3, FirstParts
<1>5. r \in Seq(S) /\ Len(r) = k - 1 /\ \A i \in 1 .. k - 1 : r[i] = es[i]
  BY <1>2, <1>3, FirstParts
<1>6. PICK t : t = Append(r, es[k])
  OBVIOUS
<1>7. /\ t \in Seq(S) /\ Len(t) = Len(r) + 1
      /\ \A i \in 1 .. Len(r) : t[i] = r[i]
      /\ t[Len(r) + 1] = es[k]
  BY <1>3, <1>5, <1>6, AppendProperties
<1>8. Len(t) = k /\ \A i \in 1 .. k : t[i] = s[i]
  BY <1>3, <1>4, <1>5, <1>7
<1>9. s = t
  BY <1>4, <1>7, <1>8, SeqEqual
<1> QED  BY <1>1, <1>2, <1>3, <1>6, <1>9

IsLast(es, key, i) ==
  /\ i \in DOMAIN es /\ es[i].key = key
  /\ \A j \in DOMAIN es : es[j].key = key => j <= i

\* Who says something says something last.
LEMMA LastExists ==
  ASSUME NEW S, NEW es \in Seq(S), NEW key, Says(es, key)
  PROVE  \E i : IsLast(es, key, i)
<1>1. PICK n \in Nat : n = Len(es) /\ DOMAIN es = 1 .. n
  BY LenProperties
<1> DEFINE Back == {m \in 0 .. n - 1 : es[n - m].key = key}
<1>2. Back # {} /\ Back \subseteq Nat
  <2>1. PICK i \in DOMAIN es : es[i].key = key
    BY DEF Says
  <2>2. n - i \in 0 .. n - 1 /\ n - (n - i) = i
    BY <1>1, <2>1
  <2>3. n - i \in Back
    BY <2>1, <2>2
  <2> QED  BY <2>3, <1>1
<1>3. PICK m \in Back : \A k \in Back : m <= k
  <2> HIDE DEF Back
  <2> QED  BY <1>2, LeastNatural
<1>4. n - m \in DOMAIN es /\ es[n - m].key = key
  BY <1>1, <1>3
<1>5. ASSUME NEW j \in DOMAIN es, es[j].key = key PROVE j <= n - m
  <2>1. n - j \in 0 .. n - 1 /\ n - (n - j) = j
    BY <1>1
  <2>2. n - j \in Back
    BY <1>5, <2>1
  <2>3. m <= n - j
    <3> HIDE DEF Back
    <3> QED  BY <1>3, <2>2
  <2> QED  BY <2>1, <2>3, <1>1, <1>3
<1> QED  BY <1>4, <1>5 DEF IsLast

\* What is said last.
LEMMA LastIs ==
  ASSUME NEW S, NEW es \in Seq(S), NEW key, NEW i, IsLast(es, key, i)
  PROVE  /\ Says(es, key)
         /\ LastSaid(es, key) = es[i].value /\ NumberSaid(es, key) = Atoi[es[i].value]
<1>1. Says(es, key)
  BY DEF IsLast, Says
<1>2. PICK c : c = CHOOSE m \in DOMAIN es :
         es[m].key = key /\ \A j \in DOMAIN es : es[j].key = key => j <= m
  OBVIOUS
<1>3. c \in DOMAIN es /\ es[c].key = key /\ \A j \in DOMAIN es : es[j].key = key => j <= c
  BY <1>2 DEF IsLast
<1>4. DOMAIN es \subseteq Nat
  BY LenProperties
<1>5. c = i
  <2>1. i \in Nat /\ c \in Nat /\ i <= c /\ c <= i
    BY <1>3, <1>4 DEF IsLast
  <2> QED  BY <2>1
<1>6. LastSaid(es, key) = es[i].value
  BY <1>1, <1>2, <1>5 DEF LastSaid
<1> QED  BY <1>1, <1>6 DEF NumberSaid

\* Nothing says nothing.
LEMMA NothingSaid ==
  ASSUME NEW key
  PROVE  /\ ~Says(<<>>, key) /\ LastSaid(<<>>, key) = NULL /\ NumberSaid(<<>>, key) = 0
         /\ Once(<<>>, key) /\ NumberOnce(<<>>, key)
<1>1. DOMAIN <<>> = {}
  OBVIOUS
<1>2. ~Says(<<>>, key)
  BY <1>1 DEF Says
<1> QED  BY <1>1, <1>2 DEF LastSaid, NumberSaid, Once, NumberOnce

LEMMA AppendedParts ==
  ASSUME NEW S, NEW es \in Seq(S), NEW e \in S
  PROVE  LET s == Append(es, e)
             n == Len(es)
         IN  /\ s \in Seq(S) /\ n \in Nat /\ DOMAIN es = 1 .. n /\ DOMAIN s = 1 .. n + 1
             /\ \A i \in 1 .. n : s[i] = es[i]
             /\ s[n + 1] = e
             /\ \A i \in DOMAIN s : i \in 1 .. n \/ i = n + 1
<1> DEFINE s == Append(es, e)
           n == Len(es)
<1>1. n \in Nat /\ DOMAIN es = 1 .. n
  BY LenProperties
<1>2. s \in Seq(S) /\ Len(s) = n + 1 /\ (\A i \in 1 .. n : s[i] = es[i]) /\ s[n + 1] = e
  BY AppendProperties
<1>3. DOMAIN s = 1 .. n + 1
  BY <1>2, LenProperties
<1>4. \A i \in DOMAIN s : i \in 1 .. n \/ i = n + 1
  BY <1>1, <1>3
<1> QED  BY <1>1, <1>2, <1>3, <1>4

\* One more entry: what it says is said last, the rest stays.
LEMMA SaidMore ==
  ASSUME NEW S, NEW es \in Seq(S), NEW e \in S, NEW key
  PROVE  LET s == Append(es, e)
         IN  /\ Says(s, key) <=> Says(es, key) \/ e.key = key
             /\ e.key = key => LastSaid(s, key) = e.value /\ NumberSaid(s, key) = Atoi[e.value]
             /\ e.key # key =>
                  LastSaid(s, key) = LastSaid(es, key) /\ NumberSaid(s, key) = NumberSaid(es, key)
<1>1. PICK s : s = Append(es, e)
  OBVIOUS
<1>2. PICK n : n = Len(es)
  OBVIOUS
<1>3. /\ s \in Seq(S) /\ n \in Nat /\ DOMAIN es = 1 .. n /\ DOMAIN s = 1 .. n + 1
      /\ \A i \in 1 .. n : s[i] = es[i]
      /\ s[n + 1] = e
      /\ \A i \in DOMAIN s : i \in 1 .. n \/ i = n + 1
  BY <1>1, <1>2, AppendedParts
<1>4. n + 1 \in DOMAIN s /\ \A i \in 1 .. n : i \in DOMAIN s
  BY <1>3
<1>5. Says(s, key) <=> Says(es, key) \/ e.key = key
  BY <1>3, <1>4 DEF Says
<1>6. ASSUME e.key = key
      PROVE  LastSaid(s, key) = e.value /\ NumberSaid(s, key) = Atoi[e.value]
  <2>1. IsLast(s, key, n + 1)
    BY <1>3, <1>4, <1>6 DEF IsLast
  <2> QED  BY <1>3, <2>1, LastIs
<1>7. ASSUME e.key # key
      PROVE  LastSaid(s, key) = LastSaid(es, key) /\ NumberSaid(s, key) = NumberSaid(es, key)
  <2>1. CASE Says(es, key)
    <3>1. PICK i : IsLast(es, key, i)
      BY <2>1, LastExists
    <3>2. i \in 1 .. n /\ es[i].key = key /\ \A j \in 1 .. n : es[j].key = key => j <= i
      BY <1>3, <3>1 DEF IsLast
    <3>3. IsLast(s, key, i)
      BY <1>3, <1>4, <1>7, <3>2 DEF IsLast
    <3>4. LastSaid(s, key) = s[i].value /\ NumberSaid(s, key) = Atoi[s[i].value]
      BY <1>3, <3>3, LastIs
    <3>5. LastSaid(es, key) = es[i].value /\ NumberSaid(es, key) = Atoi[es[i].value]
      BY <3>1, LastIs
    <3> QED  BY <1>3, <3>2, <3>4, <3>5
  <2>2. CASE ~Says(es, key)
    BY <1>5, <1>7, <2>2 DEF LastSaid, NumberSaid
  <2> QED  BY <2>1, <2>2
<1> QED  BY <1>1, <1>5, <1>6, <1>7

\* One more entry that repeats nothing.
LEMMA OnceMore ==
  ASSUME NEW S, NEW es \in Seq(S), NEW e \in S, NEW key
  PROVE  LET s == Append(es, e)
         IN  /\ Once(es, key) /\ (e.key = key => ~Says(es, key)) => Once(s, key)
             /\ NumberOnce(es, key) /\ (e.key = key => NumberSaid(es, key) = 0) => NumberOnce(s, key)
<1>1. PICK s : s = Append(es, e)
  OBVIOUS
<1>2. PICK n : n = Len(es)
  OBVIOUS
<1>3. /\ s \in Seq(S) /\ n \in Nat /\ DOMAIN es = 1 .. n /\ DOMAIN s = 1 .. n + 1
      /\ \A i \in 1 .. n : s[i] = es[i]
      /\ s[n + 1] = e
      /\ \A i \in DOMAIN s : i \in 1 .. n \/ i = n + 1
  BY <1>1, <1>2, AppendedParts
<1>4. ASSUME Once(es, key), e.key = key => ~Says(es, key) PROVE Once(s, key)
  <2> SUFFICES ASSUME NEW i \in DOMAIN s, NEW j \in DOMAIN s, s[i].key = key, s[j].key = key
               PROVE  i = j
    BY DEF Once
  <2>1. CASE i \in 1 .. n /\ j \in 1 .. n
    BY <1>3, <1>4, <2>1 DEF Once
  <2>2. CASE i = n + 1 /\ j \in 1 .. n
    BY <1>3, <1>4, <2>2 DEF Says
  <2>3. CASE i \in 1 .. n /\ j = n + 1
    BY <1>3, <1>4, <2>3 DEF Says
  <2> QED  BY <1>3, <2>1, <2>2, <2>3
<1>5. ASSUME NumberOnce(es, key), e.key = key => NumberSaid(es, key) = 0 PROVE NumberOnce(s, key)
  <2> SUFFICES ASSUME NEW i \in DOMAIN s, NEW j \in DOMAIN s, i < j, s[i].key = key, s[j].key = key
               PROVE  Atoi[s[i].value] = 0
    BY DEF NumberOnce
  <2>1. i \in 1 .. n /\ s[i] = es[i]
    BY <1>3
  <2>2. CASE j \in 1 .. n
    BY <1>3, <1>5, <2>1, <2>2 DEF NumberOnce
  <2>3. CASE j = n + 1
    <3>1. NumberSaid(es, key) = 0
      BY <1>3, <1>5, <2>3
    <3>2. Says(es, key)
      BY <1>3, <2>1 DEF Says
    <3>3. PICK l : IsLast(es, key, l)
      BY <3>2, LastExists
    <3>4. l \in 1 .. n /\ es[l].key = key /\ i <= l /\ Atoi[es[l].value] = 0
      <4>1. NumberSaid(es, key) = Atoi[es[l].value]
        BY <3>3, LastIs
      <4> QED  BY <1>3, <2>1, <3>1, <3>3, <4>1 DEF IsLast
    <3>5. CASE i = l
      BY <2>1, <3>4, <3>5
    <3>6. CASE i # l
      <4>1. i < l
        BY <2>1, <3>4, <3>6
      <4> QED  BY <1>3, <1>5, <2>1, <3>4, <4>1 DEF NumberOnce
    <3> QED  BY <3>5, <3>6
  <2> QED  BY <1>3, <2>2, <2>3
<1> QED  BY <1>1, <1>4, <1>5

\* An entry that repeats one before it.
LEMMA Repeated ==
  ASSUME NEW S, NEW es \in Seq(S), NEW k \in 1 .. Len(es)
  PROVE  LET key == es[k].key
             r == First(es, k - 1)
         IN  /\ Says(r, key) => ~Once(es, key)
             /\ NumberSaid(r, key) # 0 => ~NumberOnce(es, key)
<1>1. PICK key : key = es[k].key
  OBVIOUS
<1>2. PICK r : r = First(es, k - 1)
  OBVIOUS
<1>3. Len(es) \in Nat /\ k - 1 \in 0 .. Len(es) /\ DOMAIN es = 1 .. Len(es)
  BY LenProperties
<1>4. r \in Seq(S) /\ DOMAIN r = 1 .. k - 1 /\ \A i \in 1 .. k - 1 : r[i] = es[i]
  BY <1>2, <1>3, FirstParts
<1>5. \A i \in 1 .. k - 1 : i \in DOMAIN es /\ i < k /\ i # k
  BY <1>3
<1>6. k \in DOMAIN es
  BY <1>3
<1>7. Says(r, key) => ~Once(es, key)
  <2> HAVE Says(r, key)
  <2>1. PICK i \in 1 .. k - 1 : es[i].key = key
    BY <1>4 DEF Says
  <2> QED  BY <1>1, <1>5, <1>6, <2>1 DEF Once
<1>8. NumberSaid(r, key) # 0 => ~NumberOnce(es, key)
  <2> HAVE NumberSaid(r, key) # 0
  <2>1. PICK i : IsLast(r, key, i)
    <3>1. Says(r, key)
      BY DEF NumberSaid
    <3> QED  BY <1>4, <3>1, LastExists
  <2>2. i \in 1 .. k - 1 /\ r[i].key = key /\ Atoi[r[i].value] # 0
    <3>1. NumberSaid(r, key) = Atoi[r[i].value]
      BY <1>4, <2>1, LastIs
    <3> QED  BY <1>4, <2>1, <3>1 DEF IsLast
  <2>3. es[i].key = key /\ Atoi[es[i].value] # 0
    BY <1>4, <2>2
  <2> QED  BY <1>1, <1>5, <1>6, <2>2, <2>3 DEF NumberOnce
<1> QED  BY <1>1, <1>2, <1>7, <1>8

-----------------------------------------------------------------------------
(* The step that takes the next event.                                        *)

LEMMA NextStep ==
  ASSUME result = "loading", NEW e \in Symbols, NEW t \in Seq(Symbols), rest = <<e>> \o t, LoaderNext
  PROVE  /\ rest' = t
         /\ e = "ignored" => Pass(stack)
         /\ e = "{" => MappingStart
         /\ e = "}" => MappingEnd
         /\ e = "[" => SequenceStart
         /\ e = "]" => SequenceEnd
         /\ e \in Scalars => Key(e) \/ Value(e)
<1>1. rest # <<>> /\ Head(rest) = e /\ Tail(rest) = t
  BY OneBefore
<1>2. \A x : Take(x) => x = e /\ rest' = t
  BY <1>1 DEF Take
<1>3. e \in Scalars => e \notin Marks
  BY SymbolsAre
<1>4. Open => FALSE
  BY DEF Open
<1>5. OpenFails => FALSE
  BY DEF OpenFails
<1>6. Ignored => e = "ignored" /\ rest' = t /\ Pass(stack)
  BY <1>2 DEF Ignored
<1>7. ParseError => e = "error" /\ rest' = t
  BY <1>2 DEF ParseError
<1>8. MappingStart => e = "{" /\ rest' = t
  BY <1>2 DEF MappingStart
<1>9. MappingEnd => e = "}" /\ rest' = t
  BY <1>2 DEF MappingEnd
<1>10. SequenceStart => e = "[" /\ rest' = t
  BY <1>2 DEF SequenceStart
<1>11. SequenceEnd => e = "]" /\ rest' = t
  BY <1>2 DEF SequenceEnd
<1>12. Scalar => e \in Scalars /\ rest' = t /\ (Key(e) \/ Value(e))
  BY <1>2 DEF Scalar
<1>13. /\ e = "ignored" => Ignored
       /\ e = "{" => MappingStart
       /\ e = "}" => MappingEnd
       /\ e = "[" => SequenceStart
       /\ e = "]" => SequenceEnd
       /\ e \in Scalars => Scalar
       /\ rest' = t
  BY <1>3, <1>4, <1>5, <1>6, <1>7, <1>8, <1>9, <1>10, <1>11, <1>12 DEF LoaderNext, Marks
<1> QED  BY <1>6, <1>12, <1>13

\* A frame and another on top of it.
LEMMA TwoFrames ==
  ASSUME NEW a, NEW b
  PROVE  Append(<<a>>, b) = <<a, b>> /\ SubSeq(<<a, b>>, 1, 1) = <<a>>
<1>1. PICK S : S = {a, b}
  OBVIOUS
<1>2. a \in S /\ b \in S
  BY <1>1
<1>3. PICK s : s = <<a>>
  OBVIOUS
<1>4. PICK t : t = <<a, b>>
  OBVIOUS
<1>5. s \in Seq(S) /\ t \in Seq(S)
  BY <1>2, <1>3, <1>4, Tuples
<1>6. Len(s) = 1 /\ s[1] = a /\ Len(t) = 2 /\ t[1] = a /\ t[2] = b
  BY <1>3, <1>4
<1>7. Append(s, b) = t
  <2>1. PICK u : u = Append(s, b)
    OBVIOUS
  <2>2. u \in Seq(S) /\ Len(u) = 2 /\ u[1] = a /\ u[2] = b
    <3>1. /\ u \in Seq(S) /\ Len(u) = Len(s) + 1
          /\ \A i \in 1 .. Len(s) : u[i] = s[i]
          /\ u[Len(s) + 1] = b
      BY <1>2, <1>5, <2>1, AppendProperties
    <3> QED  BY <1>6, <3>1
  <2>3. Len(u) = Len(t) /\ \A i \in 1 .. Len(u) : u[i] = t[i]
    BY <1>6, <2>2
  <2>4. u = t
    BY <1>5, <2>2, <2>3, SeqEqual
  <2> QED  BY <2>1, <2>4
<1>8. SubSeq(t, 1, 1) = s
  <2>1. PICK u : u = SubSeq(t, 1, 1)
    OBVIOUS
  <2>2. u \in Seq(S) /\ Len(u) = 1 /\ u[1] = a
    <3>1. \A i \in 1 .. 1 : t[i] \in S
      BY <1>2, <1>6
    <3>2. /\ u \in Seq(S) /\ Len(u) = IF 1 <= 1 THEN 1 - 1 + 1 ELSE 0
          /\ \A i \in 1 .. 1 - 1 + 1 : u[i] = t[1 + i - 1]
      BY <2>1, <3>1, SubSeqProperties
    <3> QED  BY <1>6, <3>2
  <2>3. Len(u) = Len(s) /\ \A i \in 1 .. Len(u) : u[i] = s[i]
    BY <1>6, <2>2
  <2>4. u = s
    BY <1>5, <2>2, <2>3, SeqEqual
  <2> QED  BY <2>1, <2>4
<1> QED  BY <1>3, <1>4, <1>7, <1>8

\* In the root.
LEMMA AtRoot ==
  ASSUME NEW key, stack = <<Root(key)>>
  PROVE  /\ Len(stack) = 1 /\ Frame = Root(key) /\ Frame.key = key /\ Frame.block = "root"
         /\ \A k : WithKey(k) = <<Root(k)>>
<1>1. Len(stack) = 1 /\ stack[1] = Root(key) /\ DOMAIN stack = {1}
  OBVIOUS
<1>2. Frame = Root(key) /\ Frame.key = key /\ Frame.block = "root"
  BY <1>1 DEF Frame, Root
<1>3. ASSUME NEW k PROVE WithKey(k) = <<Root(k)>>
  <2>1. [Root(key) EXCEPT !.key = k] = Root(k)
    BY DEF Root
  <2>2. WithKey(k) = [stack EXCEPT ![1] = Root(k)]
    BY <1>1, <2>1 DEF WithKey
  <2> QED  BY <2>2
<1> QED  BY <1>1, <1>2, <1>3

\* In a server.
LEMMA AtInner ==
  ASSUME NEW key, stack = InServer(key)
  PROVE  /\ Len(stack) = 2 /\ Frame.key = key /\ Frame.block = "server"
         /\ \A k : WithKey(k) = InServer(k)
         /\ SubSeq(stack, 1, Len(stack) - 1) = <<Root("servers")>>
<1> DEFINE f(k) == [block |-> "server", key |-> k]
<1>1. stack = <<Root("servers"), f(key)>>
  BY DEF InServer
<1>2. Len(stack) = 2 /\ stack[1] = Root("servers") /\ stack[2] = f(key)
  BY <1>1
<1>3. Frame.key = key /\ Frame.block = "server"
  BY <1>2 DEF Frame
<1>4. ASSUME NEW k PROVE WithKey(k) = InServer(k)
  <2>1. [f(key) EXCEPT !.key = k] = f(k)
    OBVIOUS
  <2>2. WithKey(k) = [stack EXCEPT ![2] = f(k)]
    BY <1>2, <2>1 DEF WithKey
  <2> HIDE DEF f
  <2>3. WithKey(k) = <<Root("servers"), f(k)>>
    BY <1>1, <2>2
  <2> QED  BY <2>3 DEF InServer, f
<1>5. SubSeq(stack, 1, Len(stack) - 1) = <<Root("servers")>>
  <2> HIDE DEF f
  <2>1. SubSeq(<<Root("servers"), f(key)>>, 1, 1) = <<Root("servers")>>
    BY TwoFrames
  <2>2. Len(stack) - 1 = 1
    BY <1>2
  <2> QED  BY <1>1, <2>1, <2>2, Zenon
<1> QED  BY <1>2, <1>3, <1>4, <1>5

LEMMA Inward ==
  ASSUME stack = <<Root("servers")>>
  PROVE  Append(stack, [block |-> "server", key |-> NULL]) = InServer(NULL)
BY TwoFrames, Zenon DEF InServer

-----------------------------------------------------------------------------
(* The document stays, and what does not change keeps its meaning.            *)

LEMMA DocStays ==
  ASSUME doc' = doc
  PROVE  /\ D' = D /\ Stream(D)' = Stream(D) /\ Valid(D)' = Valid(D) /\ AllOrdered(D)' = AllOrdered(D)
         /\ Blocks(D)' = Blocks(D)
         /\ \A i : /\ List(i)' = List(i) /\ EntryRest(i)' = EntryRest(i) /\ Before(i)' = Before(i)
                   /\ \A j : /\ Place(i, j)' = Place(i, j) /\ ServerRest(i, j)' = ServerRest(i, j)
                             /\ \A k : SettingRest(i, j, k)' = SettingRest(i, j, k)
BY DEF D, List, EntryRest, Before, Place, ServerRest, SettingRest

\* Nothing is written.
LEMMA MeaningStays ==
  ASSUME doc' = doc, UNCHANGED configVars, UNCHANGED listVars
  PROVE  /\ servers' = servers /\ Items' = Items
         /\ \A es : RootMeans(es) => RootMeans(es)'
         /\ \A n, es : ServerMeans(n, es) => ServerMeans(n, es)'
         /\ \A n : ServersRead(n) => ServersRead(n)'
         /\ \A n : HasRuntime(n)' = HasRuntime(n)
<1>1. D' = D /\ AllOrdered(D)' = AllOrdered(D) /\ Blocks(D)' = Blocks(D)
  BY DocStays
<1>2. /\ use' = use /\ events' = events /\ connections' = connections /\ servers' = servers
      /\ Items' = Items
  BY DEF configVars, listVars, Items
<1>3. \A es : RootMeans(es) => RootMeans(es)'
  BY <1>2 DEF RootMeans
<1>4. \A n : HasRuntime(n)' = HasRuntime(n)
  BY <1>2 DEF HasRuntime
<1>5. \A n, es : ServerMeans(n, es) => ServerMeans(n, es)'
  BY <1>1, <1>2, <1>4 DEF ServerMeans
<1>6. \A n : ServersRead(n) => ServersRead(n)'
  BY <1>1, <1>5 DEF ServersRead
<1> QED  BY <1>2, <1>3, <1>4, <1>5, <1>6

LEMMA ReadStays ==
  ASSUME doc' = doc, UNCHANGED configVars, UNCHANGED listVars
  PROVE  /\ \A i, n : RootRead(i, n) => RootRead(i, n)'
         /\ \A i, j, k : SettingsRead(i, j, k) => SettingsRead(i, j, k)'
<1>1. D' = D /\ \A i : List(i)' = List(i) /\ \A j : Place(i, j)' = Place(i, j)
  BY DocStays
<1>2. /\ servers' = servers /\ Items' = Items
      /\ \A es : RootMeans(es) => RootMeans(es)'
      /\ \A n, es : ServerMeans(n, es) => ServerMeans(n, es)'
      /\ \A n : ServersRead(n) => ServersRead(n)'
      /\ \A n : HasRuntime(n)' = HasRuntime(n)
  BY MeaningStays
<1>3. \A i, n : RootRead(i, n) => RootRead(i, n)'
  BY <1>1, <1>2 DEF RootRead
<1>4. \A i, j, k : SettingsRead(i, j, k) => SettingsRead(i, j, k)'
  BY <1>1, <1>2 DEF SettingsRead
<1> QED  BY <1>3, <1>4

LEMMA ReadingNext ==
  ASSUME doc' = doc, D \in WellFormed
  PROVE  /\ result' = "loading" /\ Within' => Reading'
         /\ result' = "failed" /\ ~Valid(D) => Reading'
         /\ result' = "undefined" /\ ~AllOrdered(D) => Reading'
         /\ result' = "loaded" /\ rest' = End /\ RootRead(Len(D), Before(Len(D)))' => Reading'
         /\ result' = "no memory" \/ result' = "unreadable" => Reading'
<1>1. D' = D /\ Valid(D)' = Valid(D) /\ AllOrdered(D)' = AllOrdered(D)
  BY DocStays
<1> QED  BY <1>1 DEF Reading

LEMMA WithinNext ==
  ASSUME doc' = doc
  PROVE  /\ AtStart' => Within'
         /\ \A i \in 0 .. Len(D) : AtEntry(i)' => Within'
         /\ \A i \in 1 .. Len(D) :
              /\ AtValue(i)' \/ AtList(i)' => Within'
              /\ \A j \in 0 .. Len(List(i)) : AtServer(i, j)' => Within'
              /\ \A j \in 1 .. Len(List(i)) :
                   /\ \A k \in 0 .. Len(List(i)[j]) : AtSetting(i, j, k)' => Within'
                   /\ \A k \in 1 .. Len(List(i)[j]) : AtSettingValue(i, j, k)' => Within'
<1>1. D' = D /\ \A i : List(i)' = List(i)
  BY DocStays
<1> QED  BY <1>1 DEF Within

-----------------------------------------------------------------------------
(* The root: one entry more.                                                  *)

LEMMA KnownIs ==
  ASSUME NEW v
  PROVE  KnownLoop(v) <=> \E j \in DOMAIN Loops : Loops[j] = LoopFor(v)
<1>1. Loops # <<>> => 1 \in DOMAIN Loops
  BY ConfigAssumption, EmptySeq, LenProperties DEF ConfigAssumption
<1> QED  BY <1>1 DEF KnownLoop, LoopFor

LEMMA RootMore ==
  ASSUME NEW es \in Seq(Entry), NEW e \in Entry, ValidRoot(es), e.key \in Directives.root,
         e.key = "use" => KnownLoop(e.value),
         e.key = "servers" => e.value = NULL,
         e.key \in {"events", "worker_connections"} => NumberSaid(es, e.key) = 0
  PROVE  ValidRoot(Append(es, e))
<1>1. PICK s : s = Append(es, e)
  OBVIOUS
<1>2. /\ \A i \in 1 .. Len(es) : s[i] = es[i]
      /\ s[Len(es) + 1] = e /\ DOMAIN es = 1 .. Len(es)
      /\ \A i \in DOMAIN s : i \in 1 .. Len(es) \/ i = Len(es) + 1
  BY <1>1, AppendedParts
<1>3. ASSUME NEW i \in DOMAIN s
      PROVE  /\ s[i].key \in Directives.root
             /\ s[i].key = "use" => \E j \in DOMAIN Loops : Loops[j] = LoopFor(s[i].value)
             /\ s[i].key = "servers" => s[i].value = NULL
  <2>1. CASE i \in 1 .. Len(es)
    BY <1>2, <2>1 DEF ValidRoot
  <2>2. CASE i = Len(es) + 1
    BY <1>2, <2>2, KnownIs
  <2> QED  BY <1>2, <2>1, <2>2
<1>4. NumberOnce(s, "events") /\ NumberOnce(s, "worker_connections")
  <2>1. NumberOnce(es, "events") /\ NumberOnce(es, "worker_connections")
    BY DEF ValidRoot
  <2>2. NumberOnce(s, "events")
    BY <1>1, <2>1, OnceMore
  <2>3. NumberOnce(s, "worker_connections")
    BY <1>1, <2>1, OnceMore
  <2> QED  BY <2>2, <2>3
<1> QED  BY <1>1, <1>3, <1>4 DEF ValidRoot

\* A list of servers says nothing of the root.
LEMMA RootWithServers ==
  ASSUME NEW es \in Seq(Entry), NEW e \in Entry, RootMeans(es), e.key = "servers", e.value = NULL
  PROVE  RootMeans(Append(es, e))
<1>1. PICK s : s = Append(es, e)
  OBVIOUS
<1>2. ValidRoot(s)
  BY <1>1, RootMore, DirectivesApart DEF RootMeans
<1>3. /\ Says(s, "use") <=> Says(es, "use")
      /\ LastSaid(s, "use") = LastSaid(es, "use")
  BY <1>1, SaidMore
<1>4. NumberSaid(s, "events") = NumberSaid(es, "events")
  BY <1>1, SaidMore
<1>5. NumberSaid(s, "worker_connections") = NumberSaid(es, "worker_connections")
  BY <1>1, SaidMore
<1> QED  BY <1>1, <1>2, <1>3, <1>4, <1>5 DEF RootMeans

LEMMA RootTaken ==
  ASSUME NEW es \in Seq(Entry), NEW e \in Entry, RootMeans(es),
         e.key \in Directives.root, e.key # "servers",
         ~Duplicate(e.key), ~Unsupported(e.key, e.value), Apply(e.key, e.value),
         events \in Nat, connections \in Nat
  PROVE  RootMeans(Append(es, e))' /\ servers' = servers /\ UNCHANGED listVars
<1>1. PICK s : s = Append(es, e)
  OBVIOUS
<1>2. PICK key : key = e.key
  OBVIOUS
<1>3. PICK v : v = e.value
  OBVIOUS
<1>4. /\ ValidRoot(es)
      /\ use = IF Says(es, "use") THEN LoopFor(LastSaid(es, "use")) ELSE NULL
      /\ events = NumberSaid(es, "events")
      /\ connections = NumberSaid(es, "worker_connections")
  BY DEF RootMeans
<1>5. ValidRoot(s)
  <2>1. e.key = "use" => KnownLoop(e.value)
    BY DEF Unsupported
  <2>2. e.key = "events" => NumberSaid(es, e.key) = 0
    BY <1>4 DEF Duplicate
  <2>3. e.key = "worker_connections" => NumberSaid(es, e.key) = 0
    BY <1>4 DEF Duplicate
  <2> QED  BY <1>1, <1>4, <2>1, <2>2, <2>3, RootMore
<1>6. \A k : /\ Says(s, k) <=> Says(es, k) \/ key = k
             /\ key = k => LastSaid(s, k) = v /\ NumberSaid(s, k) = Atoi[v]
             /\ key # k => LastSaid(s, k) = LastSaid(es, k) /\ NumberSaid(s, k) = NumberSaid(es, k)
  BY <1>1, <1>2, <1>3, SaidMore
<1>7. \/ key = "use" /\ Use(v)
      \/ key = "events" /\ Events(v)
      \/ key = "worker_connections" /\ WorkerConnections(v)
  BY <1>2, <1>3, DirectivesApart DEF Apply
<1>8. CASE key = "use" /\ Use(v)
  <2>1. use' = LoopFor(v) /\ UNCHANGED <<events, connections, servers, listVars>>
    BY <1>8 DEF Use, LoopFor
  <2>2. Says(s, "use") /\ LastSaid(s, "use") = v
        /\ NumberSaid(s, "events") = NumberSaid(es, "events")
        /\ NumberSaid(s, "worker_connections") = NumberSaid(es, "worker_connections")
    BY <1>6, <1>8
  <2> QED  BY <1>1, <1>4, <1>5, <2>1, <2>2 DEF RootMeans
<1>9. CASE key = "events" /\ Events(v)
  <2>1. events' = Atoi[v] /\ UNCHANGED <<use, connections, servers, listVars>>
    BY <1>9 DEF Events
  <2>2. (Says(s, "use") <=> Says(es, "use")) /\ LastSaid(s, "use") = LastSaid(es, "use")
        /\ NumberSaid(s, "events") = Atoi[v]
        /\ NumberSaid(s, "worker_connections") = NumberSaid(es, "worker_connections")
    BY <1>6, <1>9
  <2> QED  BY <1>1, <1>4, <1>5, <2>1, <2>2 DEF RootMeans
<1>10. CASE key = "worker_connections" /\ WorkerConnections(v)
  <2>1. connections' = Atoi[v] /\ UNCHANGED <<use, events, servers, listVars>>
    BY <1>10 DEF WorkerConnections
  <2>2. (Says(s, "use") <=> Says(es, "use")) /\ LastSaid(s, "use") = LastSaid(es, "use")
        /\ NumberSaid(s, "events") = NumberSaid(es, "events")
        /\ NumberSaid(s, "worker_connections") = Atoi[v]
    BY <1>6, <1>10
  <2> QED  BY <1>1, <1>4, <1>5, <2>1, <2>2 DEF RootMeans
<1> QED  BY <1>7, <1>8, <1>9, <1>10

\* What is refused in the root is wrong.
LEMMA RootRefused ==
  ASSUME D \in WellFormed, NEW i \in 1 .. Len(D), RootMeans(First(D, i - 1)),
         D[i].key \in Directives.root, D[i].value # NULL,
         D[i].key = "servers" \/ Duplicate(D[i].key) \/ Unsupported(D[i].key, D[i].value)
  PROVE  ~ValidRoot(D)
<1>1. D \in Seq(Entry) /\ i \in DOMAIN D
  BY LenProperties DEF WellFormed, Entry
<1>2. PICK e : e = D[i]
  OBVIOUS
<1>3. CASE e.key = "servers"
  BY <1>1, <1>2, <1>3 DEF ValidRoot
<1>4. CASE Duplicate(e.key)
  <2>1. PICK r : r = First(D, i - 1)
    OBVIOUS
  <2>2. \/ e.key = "events" /\ events > 0
        \/ e.key = "worker_connections" /\ connections > 0
    BY <1>2, <1>4, DirectivesApart DEF Duplicate
  <2>3. e.key \in {"events", "worker_connections"} /\ NumberSaid(r, e.key) # 0
    BY <2>1, <2>2 DEF RootMeans
  <2>4. ~NumberOnce(D, e.key)
    BY <1>1, <1>2, <2>1, <2>3, Repeated
  <2> QED  BY <2>3, <2>4 DEF ValidRoot
<1>5. CASE Unsupported(e.key, e.value)
  <2>1. e.key = "use" /\ ~KnownLoop(e.value)
    BY <1>2, <1>5, DirectivesApart DEF Unsupported
  <2> QED  BY <1>1, <1>2, <2>1, KnownIs DEF ValidRoot
<1> QED  BY <1>2, <1>3, <1>4, <1>5

-----------------------------------------------------------------------------
(* One step from each place of the root.                                      *)

LEMMA PassParts ==
  ASSUME NEW s, Pass(s)
  PROVE  stack' = s /\ result' = result /\ UNCHANGED configVars /\ UNCHANGED listVars
BY DEF Pass, GoOn

LEMMA StopParts ==
  ASSUME NEW end, Stop(end)
  PROVE  result' = end /\ UNCHANGED configVars /\ UNCHANGED listVars
BY DEF Stop

LEMMA StartStep ==
  ASSUME doc' = doc, D \in WellFormed, result = "loading", LoaderNext, AtStart
  PROVE  Reading'
<1>1. Frame.key = NULL /\ RootRead(0, 0)
  BY AtRoot DEF AtStart
<1>2. PICK t : t = <<"{">> \o EntryRest(0)
  OBVIOUS
<1>3. PICK u : u = <<"ignored", "{">> \o EntryRest(0)
  OBVIOUS
<1>4. t \in Seq(Symbols) /\ u \in Seq(Symbols) /\ Stream(D) = <<"ignored">> \o u
      /\ u = <<"ignored">> \o t
  BY <1>2, <1>3, StreamLeft
<1>5. EntryRest(0) \in Seq(Symbols) /\ 0 \in 0 .. Len(D)
  <2>1. 0 \in 0 .. Len(D)
    BY FirstBlocks
  <2> QED  BY <2>1, EntriesLeft
<1>6. stack = <<Root(NULL)>> /\ (rest = Stream(D) \/ rest = u \/ rest = t)
  BY <1>2, <1>3 DEF AtStart
<1>7. Pass(stack) => RootRead(0, 0)' /\ stack' = stack /\ result' = "loading"
  BY <1>1, PassParts, ReadStays
<1>8. EntryRest(0)' = EntryRest(0) /\ Before(0)' = Before(0) /\ Before(0) = 0
  BY DocStays, FirstBlocks
<1>9. CASE rest = Stream(D)
  <2>1. rest' = u /\ Pass(stack)
    BY <1>4, <1>9, NextStep, SymbolsAre
  <2>2. AtStart'
    BY <1>3, <1>6, <1>7, <1>8, <2>1 DEF AtStart
  <2> QED  BY <1>7, <2>1, <2>2, WithinNext, ReadingNext
<1>10. CASE rest = u
  <2>1. rest' = t /\ Pass(stack)
    BY <1>4, <1>10, NextStep, SymbolsAre
  <2>2. AtStart'
    BY <1>2, <1>6, <1>7, <1>8, <2>1 DEF AtStart
  <2> QED  BY <1>7, <2>1, <2>2, WithinNext, ReadingNext
<1>11. CASE rest = t
  <2>1. rest' = EntryRest(0) /\ MappingStart
    BY <1>2, <1>5, <1>11, NextStep, SymbolsAre
  <2>2. Pass(stack)
    BY <1>1, <2>1 DEF MappingStart, NULL
  <2>3. AtEntry(0)'
    BY <1>6, <1>7, <1>8, <2>1, <2>2 DEF AtEntry
  <2> QED  BY <1>5, <1>7, <2>2, <2>3, WithinNext, ReadingNext
<1> QED  BY <1>6, <1>9, <1>10, <1>11

LEMMA EntryStep ==
  ASSUME doc' = doc, D \in WellFormed, result = "loading", LoaderNext,
         NEW i \in 0 .. Len(D), AtEntry(i)
  PROVE  Reading'
<1>1. /\ Frame.key = NULL /\ Frame.block = "root" /\ Len(stack) = 1
      /\ \A k : WithKey(k) = <<Root(k)>>
      /\ RootRead(i, Before(i)) /\ rest = EntryRest(i)
  BY AtRoot DEF AtEntry
<1>2. Len(D) \in Nat /\ D \in Seq(Entry)
  BY FirstBlocks DEF WellFormed, Entry
<1>3. \A s : UNCHANGED configVars /\ UNCHANGED listVars => RootRead(i, Before(i))'
  BY <1>1, DocStays, ReadStays
<1>4. CASE i = Len(D)
  <2>1. rest = <<"}">> \o End /\ End \in Seq(Symbols) /\ "}" \in Symbols
    BY <1>1, <1>4, EntriesLeft, TheEnd, SymbolsAre
  <2>2. rest' = End /\ MappingEnd
    BY <2>1, NextStep
  <2>3. Stop("loaded")
    <3>1. ~(Len(stack) > 1)
      BY <1>1
    <3> QED  BY <2>2, <3>1 DEF MappingEnd
  <2>4. RootRead(Len(D), Before(Len(D)))'
    <3>1. D' = D
      BY DocStays
    <3> QED  BY <1>3, <1>4, <2>3, <3>1, StopParts
  <2> QED  BY <2>2, <2>3, <2>4, StopParts, ReadingNext
<1>5. CASE i # Len(D)
  <2>1. PICK m \in 1 .. Len(D) : m = i + 1 /\ m - 1 = i
    BY <1>2, <1>5
  <2>2. D[m] \in Entry /\ D[m].key \in Scalars
    BY <2>1, EntryOf, EntryParts
  <2>3. PICK t \in Seq(Symbols) :
          /\ rest = <<D[m].key>> \o t
          /\ D[m].value # NULL => t = <<D[m].value>> \o EntryRest(m)
          /\ D[m].value = NULL => t = <<"[">> \o ServerRest(m, 0)
    <3>1. CASE D[m].value # NULL
      <4>1. rest = <<D[m].key>> \o (<<D[m].value>> \o EntryRest(m))
        BY <1>1, <1>5, <2>1, <3>1, EntriesLeft
      <4>2. <<D[m].value>> \o EntryRest(m) \in Seq(Symbols)
        <5>1. D[m].value \in Symbols
          <6>1. D[m].value \in Scalars
            BY <2>2, <3>1, EntryParts
          <6> QED  BY <6>1, SymbolsAre
        <5>2. m \in 0 .. Len(D)
          BY <1>2
        <5> QED  BY <5>1, <5>2, EntriesLeft, OneBefore
      <4> QED  BY <3>1, <4>1, <4>2
    <3>2. CASE D[m].value = NULL
      <4>1. rest = <<D[m].key>> \o (<<"[">> \o ServerRest(m, 0))
        BY <1>1, <1>5, <2>1, <3>2, EntriesLeft
      <4>2. <<"[">> \o ServerRest(m, 0) \in Seq(Symbols)
        <5>1. 0 \in 0 .. Len(List(m))
          BY <2>1, BlockPlaces
        <5>2. ServerRest(m, 0) \in Seq(Symbols) /\ "[" \in Symbols
          BY <5>1, ServersLeft, SymbolsAre
        <5> QED  BY <5>2, OneBefore
      <4> QED  BY <3>2, <4>1, <4>2
    <3> QED  BY <3>1, <3>2
  <2>4. rest' = t /\ Key(D[m].key)
    <3>1. rest' = t /\ (Key(D[m].key) \/ Value(D[m].key))
      BY <2>2, <2>3, NextStep, SymbolsAre
    <3> QED  BY <1>1, <3>1 DEF Value
  <2>5. CASE D[m].key \in Directives.root
    <3>1. Pass(<<Root(D[m].key)>>)
      BY <1>1, <2>4, <2>5 DEF Key
    <3>2. /\ stack' = <<Root(D[m].key)>> /\ result' = "loading"
          /\ UNCHANGED configVars /\ UNCHANGED listVars
      BY <3>1, PassParts
    <3>3. D' = D /\ EntryRest(m)' = EntryRest(m) /\ ServerRest(m, 0)' = ServerRest(m, 0)
          /\ Before(m - 1)' = Before(m - 1)
      BY DocStays
    <3>4. CASE D[m].value # NULL
      <4>1. AtValue(m)'
        BY <1>3, <2>1, <2>3, <2>4, <2>5, <3>2, <3>3, <3>4 DEF AtValue
      <4> QED  BY <3>2, <4>1, WithinNext, ReadingNext
    <3>5. CASE D[m].value = NULL
      <4>1. D[m].key = "servers"
        BY <2>2, <3>5, EntryParts
      <4>2. RootRead(m, Before(m - 1))
        <5>1. RootMeans(First(D, m - 1)) /\ Len(servers) = Before(m - 1) /\ ServersRead(Before(m - 1))
          BY <1>1, <2>1 DEF RootRead
        <5>2. First(D, m) = Append(First(D, m - 1), D[m])
          BY <1>2, FirstNext
        <5>3. First(D, m - 1) \in Seq(Entry)
          BY <1>2, <2>1, FirstParts
        <5>4. RootMeans(First(D, m))
          BY <2>2, <3>5, <4>1, <5>1, <5>2, <5>3, RootWithServers
        <5> QED  BY <5>1, <5>4 DEF RootRead
      <4>3. RootRead(m, Before(m - 1))'
        BY <3>2, <3>3, <4>2, ReadStays
      <4>4. AtList(m)'
        BY <2>3, <2>4, <3>2, <3>3, <3>5, <4>1, <4>3 DEF AtList
      <4> QED  BY <3>2, <4>4, WithinNext, ReadingNext
    <3> QED  BY <3>4, <3>5
  <2>6. CASE D[m].key \notin Directives.root
    <3>1. Stop("failed")
      BY <1>1, <2>4, <2>6 DEF Key
    <3>2. ~Valid(D)
      <4>1. m \in DOMAIN D
        BY <1>2, <2>1, FirstBlocks
      <4> QED  BY <2>6, <4>1 DEF Valid, ValidRoot
    <3> QED  BY <3>1, <3>2, StopParts, ReadingNext
  <2> QED  BY <2>5, <2>6
<1> QED  BY <1>4, <1>5

LEMMA ValueStep ==
  ASSUME doc' = doc, D \in WellFormed, result = "loading", LoaderNext, ConfigOK,
         NEW i \in 1 .. Len(D), AtValue(i)
  PROVE  Reading'
<1>1. PICK key : key = D[i].key
  OBVIOUS
<1>2. PICK v : v = D[i].value
  OBVIOUS
<1>3. /\ Frame.key = key /\ Len(stack) = 1
      /\ \A k : WithKey(k) = <<Root(k)>>
      /\ RootRead(i - 1, Before(i - 1)) /\ rest = <<v>> \o EntryRest(i)
      /\ key \in Directives.root /\ v # NULL
  BY <1>1, <1>2, AtRoot DEF AtValue
<1>4. Len(D) \in Nat /\ D \in Seq(Entry) /\ i \in 0 .. Len(D)
  BY FirstBlocks DEF WellFormed, Entry
<1>5. D[i] \in Entry /\ v \in Scalars
  BY <1>2, <1>3, EntryOf, EntryParts
<1>6. rest' = EntryRest(i) /\ Value(v)
  <2>1. rest' = EntryRest(i) /\ (Key(v) \/ Value(v))
    BY <1>3, <1>4, <1>5, EntriesLeft, NextStep, SymbolsAre
  <2> QED  BY <1>3, <2>1, DirectivesApart DEF Key
<1>7. RootMeans(First(D, i - 1)) /\ Len(servers) = Before(i - 1) /\ ServersRead(Before(i - 1))
  BY <1>3 DEF RootRead
<1>8. CASE /\ key # "servers" /\ ~Duplicate(key) /\ ~Unsupported(key, v)
           /\ Apply(key, v) /\ GoOn(WithKey(NULL))
  <2>1. First(D, i - 1) \in Seq(Entry) /\ First(D, i) = Append(First(D, i - 1), D[i])
    <3>1. i - 1 \in 0 .. Len(D)
      BY <1>4
    <3> QED  BY <1>4, <3>1, FirstParts, FirstNext
  <2>2. RootMeans(First(D, i))' /\ servers' = servers /\ UNCHANGED listVars
    <3>1. events \in Nat /\ connections \in Nat
      BY DEF ConfigOK
    <3>2. RootMeans(Append(First(D, i - 1), D[i]))' /\ servers' = servers /\ UNCHANGED listVars
      <4>1. PICK es \in Seq(Entry) : es = First(D, i - 1)
        BY <2>1
      <4>2. PICK e \in Entry : e = D[i]
        BY <1>5
      <4>3. RootMeans(Append(es, e))' /\ servers' = servers /\ UNCHANGED listVars
        BY <1>1, <1>2, <1>3, <1>7, <1>8, <3>1, <4>1, <4>2, RootTaken
      <4>4. D' = D
        BY DocStays
      <4> QED  BY <4>1, <4>2, <4>3, <4>4
    <3>3. D' = D
      BY DocStays
    <3> QED  BY <2>1, <3>2, <3>3
  <2>3. \A n, es : ServerMeans(n, es) => ServerMeans(n, es)'
    <3>1. Items' = Items /\ (\A n : HasRuntime(n)' = HasRuntime(n)) /\ AllOrdered(D)' = AllOrdered(D)
      BY <2>2, DocStays DEF listVars, Items, HasRuntime
    <3> QED  BY <2>2, <3>1 DEF ServerMeans
  <2>4. ServersRead(Before(i))' /\ Before(i) = Before(i - 1)
    <3>1. List(i) = <<>>
      BY <1>2, <1>3, <1>5, EntryParts DEF List
    <3>2. Before(i) = Before(i - 1)
      BY <3>1, BlockPlaces, EmptySeq
    <3>3. Blocks(D)' = Blocks(D) /\ Before(i)' = Before(i)
      BY DocStays
    <3> QED  BY <1>7, <2>3, <3>2, <3>3 DEF ServersRead
  <2>5. stack' = <<Root(NULL)>> /\ result' = "loading"
    BY <1>3, <1>8 DEF GoOn
  <2>6. AtEntry(i)'
    <3>1. EntryRest(i)' = EntryRest(i) /\ Before(i)' = Before(i) /\ D' = D
      BY DocStays
    <3>2. RootRead(i, Before(i))'
      BY <1>7, <2>2, <2>4, <3>1 DEF RootRead
    <3> QED  BY <1>6, <2>5, <3>1, <3>2 DEF AtEntry
  <2> QED  BY <1>4, <2>5, <2>6, WithinNext, ReadingNext
<1>9. CASE (key = "servers" \/ Duplicate(key) \/ Unsupported(key, v)) /\ Stop("failed")
  <2>1. ~Valid(D)
    BY <1>1, <1>2, <1>3, <1>7, <1>9, RootRefused DEF Valid
  <2> QED  BY <1>9, <2>1, StopParts, ReadingNext
<1>10. CASE Stop("no memory")
  BY <1>10, StopParts, ReadingNext
<1> QED
  <2>1. key # "sample_option"
    BY <1>3, DirectivesApart
  <2> QED  BY <1>3, <1>6, <1>8, <1>9, <1>10, <2>1 DEF Value

LEMMA ListStep ==
  ASSUME doc' = doc, D \in WellFormed, result = "loading", LoaderNext,
         NEW i \in 1 .. Len(D), AtList(i)
  PROVE  Reading'
<1>1. /\ Frame.key = "servers" /\ stack = <<Root("servers")>> /\ D[i].value = NULL
      /\ RootRead(i, Before(i - 1)) /\ rest = <<"[">> \o ServerRest(i, 0)
  BY AtRoot DEF AtList
<1>2. 0 \in 0 .. Len(List(i)) /\ Place(i, 0) = Before(i - 1)
  BY BlockPlaces DEF Place
<1>3. rest' = ServerRest(i, 0) /\ SequenceStart
  <2>1. ServerRest(i, 0) \in Seq(Symbols) /\ "[" \in Symbols
    BY <1>2, ServersLeft, SymbolsAre
  <2> QED  BY <1>1, <2>1, NextStep
<1>4. Pass(stack)
  BY <1>1, <1>3 DEF SequenceStart
<1>5. stack' = stack /\ result' = "loading" /\ UNCHANGED configVars /\ UNCHANGED listVars
  BY <1>4, PassParts
<1>6. RootRead(i, Place(i, 0))'
  <2>1. Place(i, 0)' = Place(i, 0)
    BY DocStays
  <2> QED  BY <1>1, <1>2, <1>5, <2>1, ReadStays
<1>7. AtServer(i, 0)'
  <2>1. D' = D /\ ServerRest(i, 0)' = ServerRest(i, 0)
    BY DocStays
  <2> QED  BY <1>1, <1>3, <1>5, <1>6, <2>1 DEF AtServer
<1> QED  BY <1>2, <1>5, <1>7, WithinNext, ReadingNext

-----------------------------------------------------------------------------
(* A server: one setting more.                                                *)

LEMMA ServerMore ==
  ASSUME NEW es \in Servers, NEW e \in Settings, ValidServer(es), e.key \in Directives.server,
         e.key = "listen" => e.value \in Addresses /\ ~Says(es, "listen"),
         e.key = "runtime" => Lower[e.value] = "sample" /\ ~Says(es, "runtime"),
         e.key = "request_header_buffer_size" => NumberSaid(es, "request_header_buffer_size") = 0
  PROVE  ValidServer(Append(es, e))
<1>1. PICK s : s = Append(es, e)
  OBVIOUS
<1>2. es \in Seq(Settings)
  BY DEF Servers
<1>3. /\ \A i \in 1 .. Len(es) : s[i] = es[i]
      /\ s[Len(es) + 1] = e /\ DOMAIN es = 1 .. Len(es)
      /\ \A i \in DOMAIN s : i \in 1 .. Len(es) \/ i = Len(es) + 1
  BY <1>1, <1>2, AppendedParts
<1>4. ASSUME NEW i \in DOMAIN s
      PROVE  /\ s[i].key \in Directives.server
             /\ s[i].key = "listen" => s[i].value \in Addresses
             /\ s[i].key = "runtime" => Lower[s[i].value] = "sample"
  <2>1. CASE i \in 1 .. Len(es)
    BY <1>3, <2>1 DEF ValidServer
  <2>2. CASE i = Len(es) + 1
    BY <1>3, <2>2
  <2> QED  BY <1>3, <2>1, <2>2
<1>5. Once(es, "listen") /\ Once(es, "runtime") /\ NumberOnce(es, "request_header_buffer_size")
  BY DEF ValidServer
<1>6. Once(s, "listen")
  BY <1>1, <1>2, <1>5, OnceMore
<1>7. Once(s, "runtime")
  BY <1>1, <1>2, <1>5, OnceMore
<1>8. NumberOnce(s, "request_header_buffer_size")
  BY <1>1, <1>2, <1>5, OnceMore
<1> QED  BY <1>1, <1>4, <1>6, <1>7, <1>8 DEF ValidServer

\* The last server means es, and its runtime is the one added last.
LastMeans(es) ==
  /\ servers # <<>>
  /\ ServerMeans(Len(servers), es)
  /\ HasRuntime(Len(servers)) => servers[Len(servers)].runtime[2] = Len(Items)

\* A directive that is taken changes the last server only; es are its settings
\* before, s with the new one.
TakenFrom(es, s) ==
  /\ LastMeans(s)'
  /\ Len(servers') = Len(servers)
  /\ \A m \in 1 .. Len(servers) - 1 : \A b : ServerMeans(m, b) => ServerMeans(m, b)'
  /\ use' = use /\ events' = events /\ connections' = connections

LEMMA LastParts ==
  ASSUME ConfigOK, NEW es, LastMeans(es)
  PROVE  /\ Len(servers) \in Nat \ {0} /\ DOMAIN servers = 1 .. Len(servers)
         /\ Len(servers) \in DOMAIN servers /\ Server \in ServerRecords
         /\ Server = servers[Len(servers)]
         /\ Server.listen = LastSaid(es, "listen")
         /\ Server.size = NumberSaid(es, "request_header_buffer_size")
         /\ Server.runtime # NoRuntime <=> Says(es, "runtime")
         /\ AllOrdered(D) /\ Server.runtime # NoRuntime =>
              Items[Server.runtime[2]] \in Copies(LastSaid(es, "sample_option"))
         /\ Server.runtime # NoRuntime => Server.runtime[2] = Len(Items)
         /\ ValidServer(es)
<1>1. servers # <<>>
  BY DEF LastMeans
<1>2. /\ Len(servers) \in Nat \ {0} /\ DOMAIN servers = 1 .. Len(servers)
      /\ Len(servers) \in DOMAIN servers /\ Server \in ServerRecords
  BY <1>1, LastServer
<1> QED  BY <1>2 DEF LastMeans, ServerMeans, HasRuntime, Server

LEMMA BeforeLast ==
  ASSUME ConfigOK, servers # <<>>, NEW m \in 1 .. Len(servers) - 1
  PROVE  m \in DOMAIN servers /\ m # Len(servers)
<1>1. Len(servers) \in Nat \ {0} /\ DOMAIN servers = 1 .. Len(servers)
  BY LastServer
<1>2. PICK n \in Nat : n = Len(servers)
  BY <1>1
<1>3. m \in 1 .. n - 1
  BY <1>2
<1>4. m \in 1 .. n /\ m # n
  BY <1>3
<1> QED  BY <1>1, <1>2, <1>4

\* What a new record for the last server must be.
LEMMA TakenIs ==
  ASSUME ConfigOK, servers # <<>>, doc' = doc, NEW r \in ServerRecords,
         servers' = [servers EXCEPT ![Len(servers)] = r],
         use' = use, events' = events, connections' = connections,
         NEW es, NEW s, ValidServer(s),
         r.listen = LastSaid(s, "listen"),
         r.size = NumberSaid(s, "request_header_buffer_size"),
         r.runtime # NoRuntime <=> Says(s, "runtime"),
         AllOrdered(D) /\ r.runtime # NoRuntime =>
           Items'[r.runtime[2]] \in Copies(LastSaid(s, "sample_option")),
         r.runtime # NoRuntime => r.runtime[2] = Len(Items'),
         AllOrdered(D) => \A m \in 1 .. Len(servers) - 1 :
           HasRuntime(m) => Items'[servers[m].runtime[2]] = Items[servers[m].runtime[2]]
  PROVE  TakenFrom(es, s)
<1>1. /\ Len(servers') = Len(servers) /\ servers' # <<>>
      /\ \A i \in DOMAIN servers : servers'[i] = IF i = Len(servers) THEN r ELSE servers[i]
  BY SetServer
<1>2. Len(servers) \in Nat \ {0} /\ DOMAIN servers = 1 .. Len(servers) /\ Len(servers) \in DOMAIN servers
  BY LastServer
<1>3. servers'[Len(servers)] = r
  BY <1>1, <1>2
<1>4. AllOrdered(D)' = AllOrdered(D)
  BY DocStays
<1>5. LastMeans(s)'
  BY <1>1, <1>3, <1>4 DEF LastMeans, ServerMeans, HasRuntime
<1>6. ASSUME NEW m \in 1 .. Len(servers) - 1, NEW b, ServerMeans(m, b) PROVE ServerMeans(m, b)'
  <2>1. servers'[m] = servers[m]
    <3>1. m \in DOMAIN servers /\ m # Len(servers)
      BY BeforeLast
    <3> QED  BY <1>1, <3>1
  <2>2. HasRuntime(m)' = HasRuntime(m)
    BY <2>1 DEF HasRuntime
  <2> QED  BY <1>4, <1>6, <2>1, <2>2 DEF ServerMeans
<1> QED  BY <1>1, <1>5, <1>6 DEF TakenFrom

LEMMA ListenTaken ==
  ASSUME ConfigOK, doc' = doc, NEW es \in Servers, LastMeans(es), NEW e \in Settings, e.key = "listen",
         ~Duplicate(e.key), ~Unsupported(e.key, e.value), Listen(e.value)
  PROVE  TakenFrom(es, Append(es, e))
<1>1. PICK s : s = Append(es, e)
  OBVIOUS
<1>2. PICK v : v = e.value
  OBVIOUS
<1>3. es \in Seq(Settings) /\ servers # <<>>
  BY DEF Servers, LastMeans
<1>4. v \in Addresses /\ Server.listen = NULL
  BY <1>2 DEF Duplicate, Unsupported
<1>5. PICK r : r = [listen |-> v, size |-> Server.size, runtime |-> Server.runtime]
  OBVIOUS
<1>6. r \in ServerRecords /\ r.listen = v /\ r.size = Server.size /\ r.runtime = Server.runtime
  BY <1>3, <1>4, <1>5, LastServer DEF ServerRecords
<1>7. servers' = [servers EXCEPT ![Len(servers)] = r]
  BY <1>2, <1>3, <1>5, SetIs DEF Listen
<1>8. ~Says(es, "listen")
  <2> SUFFICES ASSUME Says(es, "listen") PROVE FALSE
    OBVIOUS
  <2>1. PICK l : IsLast(es, "listen", l)
    BY <1>3, LastExists
  <2>2. LastSaid(es, "listen") = es[l].value /\ l \in 1 .. Len(es)
    <3>1. LastSaid(es, "listen") = es[l].value
      BY <1>3, <2>1, LastIs
    <3> QED  BY <1>3, <2>1, <3>1, LenProperties DEF IsLast
  <2>3. es[l].value \in Scalars
    BY <2>2, SettingParts
  <2> QED  BY <1>4, <2>2, <2>3, LastParts, SymbolsAre
<1>9. ValidServer(s)
  <2>1. "listen" \in Directives.server /\ ValidServer(es)
    BY LastParts, DirectivesApart
  <2> QED  BY <1>1, <1>2, <1>4, <1>8, <2>1, ServerMore
<1>10. /\ LastSaid(s, "listen") = v
       /\ NumberSaid(s, "request_header_buffer_size") = NumberSaid(es, "request_header_buffer_size")
       /\ Says(s, "runtime") <=> Says(es, "runtime")
       /\ LastSaid(s, "sample_option") = LastSaid(es, "sample_option")
  <2>1. LastSaid(s, "listen") = v
    BY <1>1, <1>2, <1>3, SaidMore
  <2>2. NumberSaid(s, "request_header_buffer_size") = NumberSaid(es, "request_header_buffer_size")
    BY <1>1, <1>3, SaidMore
  <2>3. Says(s, "runtime") <=> Says(es, "runtime")
    BY <1>1, <1>3, SaidMore
  <2>4. LastSaid(s, "sample_option") = LastSaid(es, "sample_option")
    BY <1>1, <1>3, SaidMore
  <2> QED  BY <2>1, <2>2, <2>3, <2>4
<1>11. Items' = Items /\ use' = use /\ events' = events /\ connections' = connections
  BY DEF Listen, Items
<1>12. /\ Server.size = NumberSaid(es, "request_header_buffer_size")
       /\ Server.runtime # NoRuntime <=> Says(es, "runtime")
       /\ AllOrdered(D) /\ Server.runtime # NoRuntime =>
            Items[Server.runtime[2]] \in Copies(LastSaid(es, "sample_option"))
       /\ Server.runtime # NoRuntime => Server.runtime[2] = Len(Items)
  BY LastParts
<1>13. TakenFrom(es, s)
  BY <1>3, <1>6, <1>7, <1>9, <1>10, <1>11, <1>12, TakenIs
<1> QED  BY <1>1, <1>13

LEMMA SizeTaken ==
  ASSUME ConfigOK, doc' = doc, NEW es \in Servers, LastMeans(es), NEW e \in Settings,
         e.key = "request_header_buffer_size", ~Duplicate(e.key), BufferSize(e.value)
  PROVE  TakenFrom(es, Append(es, e))
<1>1. PICK s : s = Append(es, e)
  OBVIOUS
<1>2. PICK v : v = e.value
  OBVIOUS
<1>3. es \in Seq(Settings) /\ servers # <<>>
  BY DEF Servers, LastMeans
<1>4. Atoi[v] \in Nat /\ Server.size = 0
  <2>1. v \in Scalars
    BY <1>2 DEF Settings
  <2>2. Atoi \in [Scalars -> Nat]
    BY ConfigAssumption DEF ConfigAssumption
  <2>3. Server.size = 0
    BY DEF Duplicate
  <2> QED  BY <2>1, <2>2, <2>3
<1>5. PICK r : r = [listen |-> Server.listen, size |-> Atoi[v], runtime |-> Server.runtime]
  OBVIOUS
<1>6. r \in ServerRecords /\ r.listen = Server.listen /\ r.size = Atoi[v] /\ r.runtime = Server.runtime
  BY <1>3, <1>4, <1>5, LastServer DEF ServerRecords
<1>7. servers' = [servers EXCEPT ![Len(servers)] = r]
  BY <1>2, <1>3, <1>5, SetIs DEF BufferSize
<1>8. ValidServer(s)
  <2>1. "request_header_buffer_size" \in Directives.server /\ ValidServer(es)
        /\ NumberSaid(es, "request_header_buffer_size") = 0
    BY <1>4, LastParts, DirectivesApart
  <2> QED  BY <1>1, <2>1, ServerMore
<1>9. /\ LastSaid(s, "listen") = LastSaid(es, "listen")
      /\ NumberSaid(s, "request_header_buffer_size") = Atoi[v]
      /\ Says(s, "runtime") <=> Says(es, "runtime")
      /\ LastSaid(s, "sample_option") = LastSaid(es, "sample_option")
  <2>1. LastSaid(s, "listen") = LastSaid(es, "listen")
    BY <1>1, <1>3, SaidMore
  <2>2. NumberSaid(s, "request_header_buffer_size") = Atoi[v]
    BY <1>1, <1>2, <1>3, SaidMore
  <2>3. Says(s, "runtime") <=> Says(es, "runtime")
    BY <1>1, <1>3, SaidMore
  <2>4. LastSaid(s, "sample_option") = LastSaid(es, "sample_option")
    BY <1>1, <1>3, SaidMore
  <2> QED  BY <2>1, <2>2, <2>3, <2>4
<1>10. Items' = Items /\ use' = use /\ events' = events /\ connections' = connections
  BY DEF BufferSize, Items, listVars
<1>11. /\ Server.listen = LastSaid(es, "listen")
       /\ Server.runtime # NoRuntime <=> Says(es, "runtime")
       /\ AllOrdered(D) /\ Server.runtime # NoRuntime =>
            Items[Server.runtime[2]] \in Copies(LastSaid(es, "sample_option"))
       /\ Server.runtime # NoRuntime => Server.runtime[2] = Len(Items)
  BY LastParts
<1>12. TakenFrom(es, s)
  BY <1>3, <1>6, <1>7, <1>8, <1>9, <1>10, <1>11, TakenIs
<1> QED  BY <1>1, <1>12

\* The new item of the list has no option.
LEMMA NewItem ==
  ASSUME ListOK, AppendItem
  PROVE  Items'[Len(Items) + 1] = NULL
<1>1. PICK s : s = Append(Items, NULL)
  OBVIOUS
<1>2. /\ arrays \in Seq(Seq(Option)) /\ Len(arrays) \in Nat \ {0}
      /\ Items \in Seq(Option) /\ Items = arrays[Len(arrays)]
  BY ItemsProperties DEF ListOK, Items
<1>3. s \in Seq(Option) /\ s[Len(Items) + 1] = NULL
  <2>1. NULL \in Option
    BY DEF Option
  <2> QED  BY <1>1, <1>2, <2>1, AppendProperties
<1>4. CASE AppendHere
  <2>1. arrays' = [arrays EXCEPT ![Len(arrays)] = s]
    BY <1>1, <1>2, <1>4 DEF AppendHere
  <2>2. Items' = s
    BY <1>3, <2>1, ItemsReplaced
  <2> QED  BY <1>3, <2>2
<1>5. CASE arrays' = Append(arrays, s)
  <2>1. Len(arrays') = Len(arrays) + 1 /\ arrays'[Len(arrays) + 1] = s
    BY <1>2, <1>3, <1>5, AppendProperties
  <2>2. Items' = s
    BY <2>1 DEF Items
  <2> QED  BY <1>3, <2>2
<1> QED  BY <1>1, <1>4, <1>5 DEF AppendItem

LEMMA RuntimeTaken ==
  ASSUME ConfigOK, ListOK, Owners, doc' = doc, NEW es \in Servers, LastMeans(es),
         NEW e \in Settings, e.key = "runtime",
         ~Duplicate(e.key), ~Unsupported(e.key, e.value), Runtime(e.value),
         AllOrdered(D) /\ ~Says(es, "runtime") => ~Says(es, "sample_option")
  PROVE  TakenFrom(es, Append(es, e))
<1>1. PICK s : s = Append(es, e)
  OBVIOUS
<1>2. PICK x : x = <<Len(arrays'), Len(Items) + 1>>
  OBVIOUS
<1>3. es \in Seq(Settings) /\ servers # <<>>
  BY DEF Servers, LastMeans
<1>4. Lower[e.value] = "sample" /\ Server.runtime = NoRuntime
  BY DEF Duplicate, Unsupported
<1>5. AppendItem /\ Set("runtime", x) /\ use' = use /\ events' = events /\ connections' = connections
  BY <1>2 DEF Runtime
<1>6. /\ ListOK' /\ Len(Items') = Len(Items) + 1 /\ Len(Items) \in Nat
      /\ \A n \in DOMAIN Items : Items'[n] = Items[n]
      /\ Items'[Len(Items) + 1] = NULL
  BY <1>5, ItemAppended, NewItem, ItemsProperties
<1>7. x \in Nat \X Nat /\ x # NoRuntime /\ x[2] = Len(Items')
  <2>1. Len(arrays') \in Nat
    BY <1>6, LenProperties DEF ListOK
  <2> QED  BY <1>2, <1>6, <2>1 DEF NoRuntime
<1>8. PICK r : r = [listen |-> Server.listen, size |-> Server.size, runtime |-> x]
  OBVIOUS
<1>9. r \in ServerRecords /\ r.listen = Server.listen /\ r.size = Server.size /\ r.runtime = x
  BY <1>3, <1>7, <1>8, LastServer DEF ServerRecords
<1>10. servers' = [servers EXCEPT ![Len(servers)] = r]
  BY <1>3, <1>5, <1>8, SetIs
<1>11. /\ Server.listen = LastSaid(es, "listen")
       /\ Server.size = NumberSaid(es, "request_header_buffer_size")
       /\ ~Says(es, "runtime")
       /\ ValidServer(es)
  BY <1>4, LastParts
<1>12. ValidServer(s)
  <2>1. "runtime" \in Directives.server
    BY DirectivesApart
  <2> QED  BY <1>1, <1>4, <1>11, <2>1, ServerMore
<1>13. /\ LastSaid(s, "listen") = LastSaid(es, "listen")
       /\ NumberSaid(s, "request_header_buffer_size") = NumberSaid(es, "request_header_buffer_size")
       /\ Says(s, "runtime")
       /\ LastSaid(s, "sample_option") = LastSaid(es, "sample_option")
  <2>1. LastSaid(s, "listen") = LastSaid(es, "listen")
    BY <1>1, <1>3, SaidMore
  <2>2. NumberSaid(s, "request_header_buffer_size") = NumberSaid(es, "request_header_buffer_size")
    BY <1>1, <1>3, SaidMore
  <2>3. Says(s, "runtime")
    BY <1>1, <1>3, SaidMore
  <2>4. LastSaid(s, "sample_option") = LastSaid(es, "sample_option")
    BY <1>1, <1>3, SaidMore
  <2> QED  BY <2>1, <2>2, <2>3, <2>4
<1>14. AllOrdered(D) => Items'[x[2]] \in Copies(LastSaid(s, "sample_option"))
  <2> HAVE AllOrdered(D)
  <2>1. LastSaid(s, "sample_option") = NULL
    BY <1>11, <1>13 DEF LastSaid
  <2> QED  BY <1>6, <1>7, <2>1 DEF Copies
<1>15. ASSUME NEW m \in 1 .. Len(servers) - 1, HasRuntime(m)
       PROVE  Items'[servers[m].runtime[2]] = Items[servers[m].runtime[2]]
  <2>1. m \in DOMAIN servers
    BY <1>3, LastServer
  <2>2. servers[m].runtime[2] \in DOMAIN Items
    BY <1>15, <2>1 DEF Owners, RuntimesOwned
  <2> QED  BY <1>6, <2>2
<1>16. TakenFrom(es, s)
  BY <1>3, <1>5, <1>7, <1>9, <1>10, <1>11, <1>12, <1>13, <1>14, <1>15, TakenIs
<1> QED  BY <1>1, <1>16

LEMMA OptionTaken ==
  ASSUME ConfigOK, ListOK, Owners, doc' = doc, NEW es \in Servers, LastMeans(es),
         NEW e \in Settings, e.key = "sample_option", Items # <<>>, SampleOption(e.value),
         AllOrdered(D) => Says(es, "runtime")
  PROVE  TakenFrom(es, Append(es, e))
<1>1. PICK s : s = Append(es, e)
  OBVIOUS
<1>2. PICK v : v = e.value
  OBVIOUS
<1>3. es \in Seq(Settings) /\ servers # <<>> /\ v \in Scalars
  BY <1>2 DEF Servers, LastMeans, Settings
<1>4. /\ Items \in Seq(Option) /\ Len(Items) \in Nat \ {0} /\ DOMAIN Items = 1 .. Len(Items)
      /\ Items = arrays[Len(arrays)] /\ Len(arrays) \in DOMAIN arrays
  BY ItemsProperties, EmptySeq DEF Items
<1>5. PICK o \in Copies(v) : arrays' = [arrays EXCEPT ![Len(arrays)][Len(Items)] = o]
  BY <1>2 DEF SampleOption, Copies
<1>6. PICK t : t = [Items EXCEPT ![Len(Items)] = o]
  OBVIOUS
<1>7. /\ t \in Seq(Option) /\ Len(t) = Len(Items)
      /\ \A n \in DOMAIN Items : t[n] = IF n = Len(Items) THEN o ELSE Items[n]
  <2>1. o \in Option /\ Len(Items) \in 1 .. Len(Items)
    BY <1>3, <1>4, <1>5 DEF Copies, Option
  <2> QED  BY <1>4, <1>6, <2>1, ExceptSeq
<1>8. Items' = t
  <2>1. arrays' = [arrays EXCEPT ![Len(arrays)] = t]
    BY <1>4, <1>5, <1>6
  <2> QED  BY <1>7, <2>1, ItemsReplaced
<1>9. servers' = servers /\ use' = use /\ events' = events /\ connections' = connections
  BY DEF SampleOption, configVars
<1>10. /\ Server \in ServerRecords
       /\ Server.listen = LastSaid(es, "listen")
       /\ Server.size = NumberSaid(es, "request_header_buffer_size")
       /\ Server.runtime # NoRuntime <=> Says(es, "runtime")
       /\ Server.runtime # NoRuntime => Server.runtime[2] = Len(Items)
       /\ ValidServer(es)
       /\ Len(servers) \in DOMAIN servers /\ DOMAIN servers = 1 .. Len(servers)
       /\ Len(servers) \in Nat \ {0} /\ Server = servers[Len(servers)]
  BY LastParts
<1>11. servers' = [servers EXCEPT ![Len(servers)] = Server]
  BY <1>9, <1>10, LenProperties DEF ConfigOK
<1>12. ValidServer(s)
  <2>1. "sample_option" \in Directives.server
    BY DirectivesApart
  <2> QED  BY <1>1, <1>10, <2>1, ServerMore
<1>13. /\ LastSaid(s, "listen") = LastSaid(es, "listen")
       /\ NumberSaid(s, "request_header_buffer_size") = NumberSaid(es, "request_header_buffer_size")
       /\ Says(s, "runtime") <=> Says(es, "runtime")
       /\ LastSaid(s, "sample_option") = v
  <2>1. LastSaid(s, "listen") = LastSaid(es, "listen")
    BY <1>1, <1>3, SaidMore
  <2>2. NumberSaid(s, "request_header_buffer_size") = NumberSaid(es, "request_header_buffer_size")
    BY <1>1, <1>3, SaidMore
  <2>3. Says(s, "runtime") <=> Says(es, "runtime")
    BY <1>1, <1>3, SaidMore
  <2>4. LastSaid(s, "sample_option") = v
    BY <1>1, <1>2, <1>3, SaidMore
  <2> QED  BY <2>1, <2>2, <2>3, <2>4
<1>14. Server.runtime # NoRuntime => Items'[Server.runtime[2]] \in Copies(LastSaid(s, "sample_option"))
  <2> HAVE Server.runtime # NoRuntime
  <2>1. Len(Items) \in DOMAIN Items
    BY <1>4
  <2>2. Items'[Len(Items)] = o
    BY <1>7, <1>8, <2>1
  <2> QED  BY <1>5, <1>10, <1>13, <2>2
<1>15. ASSUME AllOrdered(D), NEW m \in 1 .. Len(servers) - 1, HasRuntime(m)
       PROVE  Items'[servers[m].runtime[2]] = Items[servers[m].runtime[2]]
  <2>1. m \in DOMAIN servers /\ m # Len(servers)
    BY <1>3, BeforeLast
  <2>2. HasRuntime(Len(servers)) /\ servers[Len(servers)].runtime[2] = Len(Items)
    BY <1>10, <1>15 DEF HasRuntime
  <2>3. servers[m].runtime[2] \in DOMAIN Items /\ servers[m].runtime[2] # Len(Items)
    BY <1>10, <1>15, <2>1, <2>2 DEF Owners, RuntimesOwned
  <2> QED  BY <1>7, <1>8, <2>3
<1>16. Len(Items') = Len(Items)
  BY <1>7, <1>8
<1>17. TakenFrom(es, s)
  BY <1>3, <1>9, <1>10, <1>11, <1>12, <1>13, <1>14, <1>15, <1>16, TakenIs
<1> QED  BY <1>1, <1>17

\* If the options of all servers come behind their runtimes: those of the j-th
\* server of the i-th entry do.
LEMMA OrderedSo ==
  ASSUME D \in WellFormed, AllOrdered(D), NEW i \in 1 .. Len(D), NEW j \in 1 .. Len(List(i)),
         NEW k \in 1 .. Len(List(i)[j])
  PROVE  LET b == List(i)[j]
             es == First(b, k - 1)
         IN  /\ b[k].key = "sample_option" => Says(es, "runtime")
             /\ ~Says(es, "runtime") => ~Says(es, "sample_option")
<1>1. PICK b : b = List(i)[j]
  OBVIOUS
<1>2. PICK es : es = First(b, k - 1)
  OBVIOUS
<1>3. Ordered(b)
  <2>1. Place(i, j) \in DOMAIN Blocks(D) /\ Blocks(D)[Place(i, j)] = b
    BY <1>1, BlockPlaces, FirstBlocks
  <2> QED  BY <2>1 DEF AllOrdered
<1>4. b \in Servers
  <2>1. List(i) \in Seq(Servers)
    BY EntryOf, EntryParts DEF List, Servers
  <2> QED  BY <1>1, <2>1, ServerParts
<1>5. /\ Len(b) \in Nat /\ DOMAIN b = 1 .. Len(b) /\ k \in 1 .. Len(b)
      /\ DOMAIN es = 1 .. k - 1 /\ \A l \in 1 .. k - 1 : es[l] = b[l]
  <2>1. b \in Seq(Settings) /\ k \in 1 .. Len(b)
    BY <1>1, <1>4 DEF Servers
  <2>2. Len(b) \in Nat /\ DOMAIN b = 1 .. Len(b) /\ k - 1 \in 0 .. Len(b)
    BY <2>1, LenProperties
  <2> QED  BY <1>2, <2>1, <2>2, FirstParts
<1>6. ASSUME NEW l \in 1 .. k, b[l].key = "sample_option" PROVE Says(es, "runtime")
  <2>1. PICK m \in 1 .. l : b[m].key = "runtime"
    <3>1. l \in DOMAIN b
      BY <1>5
    <3> QED  BY <1>3, <1>6, <3>1 DEF Ordered
  <2>2. m # l
    BY <1>6, <2>1
  <2>3. m \in 1 .. k - 1
    BY <1>5, <2>2
  <2> QED  BY <1>5, <2>1, <2>3 DEF Says
<1>7. b[k].key = "sample_option" => Says(es, "runtime")
  BY <1>5, <1>6
<1>8. Says(es, "sample_option") => Says(es, "runtime")
  <2> HAVE Says(es, "sample_option")
  <2>1. PICK l \in 1 .. k - 1 : b[l].key = "sample_option"
    BY <1>5 DEF Says
  <2>2. l \in 1 .. k
    BY <1>5
  <2> QED  BY <1>6, <2>1, <2>2
<1> QED  BY <1>1, <1>2, <1>7, <1>8

\* What is refused in a server is wrong.
LEMMA ServerRefused ==
  ASSUME ConfigOK, NEW b \in Servers, NEW k \in 1 .. Len(b), LastMeans(First(b, k - 1)),
         b[k].key \in Directives.server,
         Duplicate(b[k].key) \/ Unsupported(b[k].key, b[k].value)
  PROVE  ~ValidServer(b)
<1>1. PICK es : es = First(b, k - 1)
  OBVIOUS
<1>2. PICK key : key = b[k].key
  OBVIOUS
<1>3. b \in Seq(Settings) /\ k \in DOMAIN b
  BY LenProperties DEF Servers
<1>4. CASE Unsupported(key, b[k].value)
  <2>1. \/ key = "listen" /\ b[k].value \notin Addresses
        \/ key = "runtime" /\ Lower[b[k].value] # "sample"
    BY <1>2, <1>4, DirectivesApart DEF Unsupported
  <2> QED  BY <1>2, <1>3, <2>1 DEF ValidServer
<1>5. CASE Duplicate(key)
  <2>1. /\ Says(es, key) => ~Once(b, key)
        /\ NumberSaid(es, key) # 0 => ~NumberOnce(b, key)
    BY <1>1, <1>2, <1>3, Repeated
  <2>2. /\ Server.listen = LastSaid(es, "listen")
        /\ Server.size = NumberSaid(es, "request_header_buffer_size")
        /\ Server.runtime # NoRuntime <=> Says(es, "runtime")
    BY <1>1, LastParts
  <2>3. \/ key = "listen" /\ Server.listen # NULL
        \/ key = "request_header_buffer_size" /\ Server.size # 0
        \/ key = "runtime" /\ Server.runtime # NoRuntime
    BY <1>2, <1>5, DirectivesApart DEF Duplicate
  <2>4. CASE key = "listen" /\ Server.listen # NULL
    <3>1. Says(es, "listen")
      BY <2>2, <2>4 DEF LastSaid
    <3> QED  BY <2>1, <2>4, <3>1 DEF ValidServer
  <2>5. CASE key = "request_header_buffer_size" /\ Server.size # 0
    BY <2>1, <2>2, <2>5 DEF ValidServer
  <2>6. CASE key = "runtime" /\ Server.runtime # NoRuntime
    BY <2>1, <2>2, <2>6 DEF ValidServer
  <2> QED  BY <2>3, <2>4, <2>5, <2>6
<1> QED  BY <1>2, <1>4, <1>5

-----------------------------------------------------------------------------
(* One step from each place of a list of servers.                             *)

\* The j-th server of the i-th entry.
LEMMA ServerAt ==
  ASSUME D \in WellFormed, NEW i \in 1 .. Len(D), NEW j \in 1 .. Len(List(i))
  PROVE  /\ List(i)[j] \in Servers /\ Len(List(i)[j]) \in Nat
         /\ Place(i, j) \in Nat \ {0} /\ Place(i, j) \in DOMAIN Blocks(D)
         /\ Blocks(D)[Place(i, j)] = List(i)[j]
         /\ \A k \in 1 .. Len(List(i)[j]) :
              List(i)[j][k] \in Settings /\ List(i)[j][k].key \in Scalars /\ List(i)[j][k].value \in Scalars
<1>1. List(i)[j] \in Servers
  <2>1. List(i) \in Seq(Servers)
    BY EntryOf, EntryParts DEF List, Servers
  <2> QED  BY <2>1, ServerParts
<1>2. Place(i, j) \in DOMAIN Blocks(D) /\ Blocks(D)[Place(i, j)] = List(i)[j]
  BY BlockPlaces, FirstBlocks
<1>3. Place(i, j) \in Nat \ {0}
  <2>1. Place(i, j) \in 1 .. Len(Blocks(D))
    BY BlockPlaces
  <2> QED  BY <2>1
<1>4. PICK b \in Servers : b = List(i)[j]
  BY <1>1
<1>5. /\ Len(b) \in Nat
      /\ \A k \in 1 .. Len(b) : b[k] \in Settings /\ b[k].key \in Scalars /\ b[k].value \in Scalars
  <2>1. b \in Seq(Settings)
    BY DEF Servers
  <2>2. \A k \in 1 .. Len(b) : b[k] \in Settings
    BY <2>1, ElementOfSeq
  <2> QED  BY <2>2, SettingParts
<1> QED  BY <1>1, <1>2, <1>3, <1>4, <1>5

\* From one server of a list to the next.
LEMMA PlaceNext ==
  ASSUME D \in WellFormed, NEW i \in 1 .. Len(D)
  PROVE  /\ Place(i, Len(List(i))) = Before(i)
         /\ \A j \in 1 .. Len(List(i)) : Place(i, j) - 1 = Place(i, j - 1) /\ j - 1 \in 0 .. Len(List(i))
<1>1. Len(List(i)) \in Nat /\ Before(i - 1) \in Nat /\ Before(i) = Before(i - 1) + Len(List(i))
  BY BlockPlaces
<1>2. PICK n \in Nat : n = Len(List(i))
  BY <1>1
<1>3. PICK b \in Nat : b = Before(i - 1)
  BY <1>1
<1>4. \A j \in 1 .. n : b + j - 1 = b + (j - 1) /\ j - 1 \in 0 .. n
  OBVIOUS
<1> QED  BY <1>1, <1>2, <1>3, <1>4 DEF Place

\* What is refused in a server makes the document wrong.
LEMMA WrongServer ==
  ASSUME D \in WellFormed, NEW i \in 1 .. Len(D), NEW j \in 1 .. Len(List(i)),
         ~ValidServer(List(i)[j])
  PROVE  ~Valid(D)
BY ServerAt, Zenon DEF Valid

\* A new server has not been told anything.
LEMMA ServerAdded ==
  ASSUME ConfigOK, doc' = doc, D \in WellFormed, NEW i \in 1 .. Len(D), NEW j \in 1 .. Len(List(i)),
         RootRead(i, Place(i, j) - 1), AddServer
  PROVE  SettingsRead(i, j, 0)'
<1> DEFINE r == [listen |-> NULL, size |-> 0, runtime |-> NoRuntime]
<1>0. PICK n : n = Place(i, j)
  OBVIOUS
<1>1. /\ n \in Nat \ {0} /\ RootMeans(First(D, i)) /\ Len(servers) = n - 1 /\ ServersRead(n - 1)
      /\ List(i)[j] \in Servers
  BY <1>0, ServerAt DEF RootRead
<1>2. /\ servers' = Append(servers, r)
      /\ use' = use /\ events' = events /\ connections' = connections /\ Items' = Items
  BY DEF AddServer, Items
<1>3. r \in ServerRecords
  BY DEF ServerRecords, NoRuntime
<1>4. r.listen = NULL /\ r.size = 0 /\ r.runtime = NoRuntime
  OBVIOUS
<1>5. D' = D /\ List(i)' = List(i) /\ Place(i, j)' = Place(i, j) /\ Blocks(D)' = Blocks(D)
      /\ AllOrdered(D)' = AllOrdered(D)
  BY DocStays
<1> HIDE DEF r
<1>6. /\ Len(servers') = n /\ servers'[n] = r
      /\ \A m \in 1 .. n - 1 : servers'[m] = servers[m]
  <2>1. servers \in Seq(ServerRecords)
    BY DEF ConfigOK
  <2>2. /\ Len(servers') = Len(servers) + 1
        /\ \A m \in 1 .. Len(servers) : servers'[m] = servers[m]
        /\ servers'[Len(servers) + 1] = r
    BY <1>2, <1>3, <2>1, AppendProperties
  <2>3. n - 1 + 1 = n
    BY <1>1
  <2> QED  BY <1>1, <2>2, <2>3
<1>7. ~HasRuntime(n)'
  BY <1>4, <1>6 DEF HasRuntime
<1>8. PICK b \in Servers : b = List(i)[j]
  BY <1>1
<1>9. ServerMeans(n, First(b, 0))'
  <2>1. First(b, 0) = <<>>
    BY FirstEnds DEF Servers
  <2>2. ValidServer(<<>>)
    <3>1. Once(<<>>, "listen") /\ Once(<<>>, "runtime") /\ NumberOnce(<<>>, "request_header_buffer_size")
      BY NothingSaid
    <3> QED  BY <3>1 DEF ValidServer
  <2>3. /\ LastSaid(<<>>, "listen") = NULL /\ NumberSaid(<<>>, "request_header_buffer_size") = 0
        /\ ~Says(<<>>, "runtime")
    BY NothingSaid
  <2>4. ServerMeans(n, <<>>)'
    BY <1>4, <1>6, <1>7, <2>2, <2>3 DEF ServerMeans
  <2> QED  BY <2>1, <2>4
<1>10. ServersRead(n - 1)'
  <2>1. ASSUME NEW m \in 1 .. n - 1, NEW es, ServerMeans(m, es) PROVE ServerMeans(m, es)'
    <3>1. servers'[m] = servers[m] /\ HasRuntime(m)' = HasRuntime(m)
      BY <1>6 DEF HasRuntime
    <3> QED  BY <1>2, <1>5, <2>1, <3>1 DEF ServerMeans
  <2> QED  BY <1>1, <1>5, <2>1 DEF ServersRead
<1>11. RootMeans(First(D, i))'
  BY <1>1, <1>2, <1>5 DEF RootMeans
<1> QED  BY <1>0, <1>5, <1>6, <1>7, <1>8, <1>9, <1>10, <1>11 DEF SettingsRead

LEMMA ServerStep ==
  ASSUME doc' = doc, D \in WellFormed, result = "loading", LoaderNext, ConfigOK,
         NEW i \in 1 .. Len(D), NEW j \in 0 .. Len(List(i)), AtServer(i, j)
  PROVE  Reading'
<1>1. /\ Frame.key = "servers" /\ stack = <<Root("servers")>> /\ D[i].value = NULL
      /\ WithKey(NULL) = <<Root(NULL)>>
      /\ RootRead(i, Place(i, j)) /\ rest = ServerRest(i, j)
  BY AtRoot DEF AtServer
<1>2. Len(D) \in Nat /\ i \in 0 .. Len(D) /\ Len(List(i)) \in Nat
  BY FirstBlocks, BlockPlaces
<1>3. CASE j = Len(List(i))
  <2>1. rest = <<"]">> \o EntryRest(i)
    BY <1>1, <1>3, ServersLeft
  <2>2. rest' = EntryRest(i) /\ SequenceEnd
    <3>1. EntryRest(i) \in Seq(Symbols) /\ "]" \in Symbols
      BY <1>2, EntriesLeft, SymbolsAre
    <3> QED  BY <2>1, <3>1, NextStep
  <2>3. stack' = <<Root(NULL)>> /\ result' = "loading" /\ UNCHANGED configVars /\ UNCHANGED listVars
    <3>1. Pass(<<Root(NULL)>>)
      BY <1>1, <2>2 DEF SequenceEnd
    <3> QED  BY <3>1, PassParts
  <2>4. RootRead(i, Before(i))'
    <3>1. Place(i, j) = Before(i) /\ Before(i)' = Before(i)
      BY <1>3, PlaceNext, DocStays
    <3> QED  BY <1>1, <2>3, <3>1, ReadStays
  <2>5. AtEntry(i)'
    <3>1. EntryRest(i)' = EntryRest(i)
      BY DocStays
    <3> QED  BY <2>2, <2>3, <2>4, <3>1 DEF AtEntry
  <2> QED  BY <1>2, <2>3, <2>5, WithinNext, ReadingNext
<1>4. CASE j # Len(List(i))
  <2>1. PICK m \in 1 .. Len(List(i)) : m = j + 1 /\ m - 1 = j
    BY <1>2, <1>4
  <2>2. rest' = SettingRest(i, m, 0) /\ MappingStart
    <3>1. 0 \in 0 .. Len(List(i)[m])
      BY ServerAt
    <3>2. SettingRest(i, m, 0) \in Seq(Symbols) /\ "{" \in Symbols
      BY <3>1, SettingsLeft, SymbolsAre
    <3>3. rest = <<"{">> \o SettingRest(i, m, 0)
      BY <1>1, <1>4, <2>1, ServersLeft
    <3> QED  BY <3>2, <3>3, NextStep
  <2>3. AddServer \/ Stop("no memory")
    BY <1>1, <2>2 DEF MappingStart, NULL
  <2>4. CASE AddServer
    <3>1. stack' = InServer(NULL) /\ result' = "loading"
      BY <1>1, <2>4, Inward DEF AddServer, GoOn
    <3>2. SettingsRead(i, m, 0)'
      <4>1. RootRead(i, Place(i, m) - 1)
        BY <1>1, <2>1, PlaceNext
      <4> QED  BY <2>4, <4>1, ServerAdded
    <3>3. AtSetting(i, m, 0)'
      <4>1. SettingRest(i, m, 0)' = SettingRest(i, m, 0) /\ D' = D
        BY DocStays
      <4> QED  BY <1>1, <2>2, <3>1, <3>2, <4>1 DEF AtSetting
    <3>4. 0 \in 0 .. Len(List(i)[m])
      BY ServerAt
    <3> QED  BY <3>1, <3>3, <3>4, WithinNext, ReadingNext
  <2>5. CASE Stop("no memory")
    BY <2>5, StopParts, ReadingNext
  <2> QED  BY <2>3, <2>4, <2>5
<1> QED  BY <1>3, <1>4
-----------------------------------------------------------------------------
(* One step from each place of a server.                                      *)

\* At the end of its block, the server means what its block says.
LEMMA ServerDone ==
  ASSUME D \in WellFormed, NEW i \in 1 .. Len(D), NEW j \in 1 .. Len(List(i)),
         SettingsRead(i, j, Len(List(i)[j]))
  PROVE  RootRead(i, Place(i, j))
<1>1. PICK n \in Nat \ {0} : n = Place(i, j)
  BY ServerAt
<1>2. PICK b \in Servers : b = List(i)[j] /\ Blocks(D)[n] = b
  BY <1>1, ServerAt
<1>3. First(b, Len(b)) = b
  BY FirstEnds DEF Servers
<1>4. /\ RootMeans(First(D, i)) /\ Len(servers) = n
      /\ ServersRead(n - 1) /\ ServerMeans(n, First(b, Len(b)))
  BY <1>1, <1>2 DEF SettingsRead
<1>5. ServersRead(n)
  <2>1. ServerMeans(n, Blocks(D)[n])
    BY <1>2, <1>3, <1>4
  <2>2. \A m \in 1 .. n : m \in 1 .. n - 1 \/ m = n
    BY <1>1
  <2> QED  BY <1>4, <2>1, <2>2 DEF ServersRead
<1> QED  BY <1>1, <1>4, <1>5 DEF RootRead

LEMMA SettingStep ==
  ASSUME doc' = doc, D \in WellFormed, result = "loading", LoaderNext, ConfigOK,
         NEW i \in 1 .. Len(D), NEW j \in 1 .. Len(List(i)),
         NEW k \in 0 .. Len(List(i)[j]), AtSetting(i, j, k)
  PROVE  Reading'
<1>1. /\ Frame.key = NULL /\ Frame.block = "server" /\ Len(stack) = 2 /\ D[i].value = NULL
      /\ SubSeq(stack, 1, Len(stack) - 1) = <<Root("servers")>>
      /\ \A x : WithKey(x) = InServer(x)
      /\ SettingsRead(i, j, k) /\ rest = SettingRest(i, j, k)
  BY AtInner DEF AtSetting
<1>2. PICK b \in Servers : b = List(i)[j]
  BY ServerAt
<1>3. /\ Len(b) \in Nat /\ k \in 0 .. Len(b) /\ j \in 0 .. Len(List(i))
      /\ \A m \in 1 .. Len(b) : b[m].key \in Scalars /\ b[m].value \in Scalars
  <2>1. j \in 0 .. Len(List(i))
    BY BlockPlaces
  <2>2. Len(b) \in Nat /\ \A m \in 1 .. Len(b) : b[m].key \in Scalars /\ b[m].value \in Scalars
    BY SettingParts
  <2> QED  BY <1>2, <2>1, <2>2
<1>4. CASE k = Len(b)
  <2>1. rest = <<"}">> \o ServerRest(i, j)
    BY <1>1, <1>2, <1>4, SettingsLeft
  <2>2. rest' = ServerRest(i, j) /\ MappingEnd
    <3>1. ServerRest(i, j) \in Seq(Symbols) /\ "}" \in Symbols
      BY <1>3, ServersLeft, SymbolsAre
    <3> QED  BY <2>1, <3>1, NextStep
  <2>3. stack' = <<Root("servers")>> /\ result' = "loading" /\ UNCHANGED configVars /\ UNCHANGED listVars
    <3>1. Len(stack) > 1
      BY <1>1
    <3>2. Pass(<<Root("servers")>>)
      BY <1>1, <2>2, <3>1 DEF MappingEnd
    <3> QED  BY <3>2, PassParts
  <2>4. RootRead(i, Place(i, j))'
    <3>1. RootRead(i, Place(i, j))
      BY <1>1, <1>2, <1>4, ServerDone
    <3>2. Place(i, j)' = Place(i, j)
      BY DocStays
    <3> QED  BY <2>3, <3>1, <3>2, ReadStays
  <2>5. AtServer(i, j)'
    <3>1. ServerRest(i, j)' = ServerRest(i, j) /\ D' = D
      BY DocStays
    <3> QED  BY <1>1, <2>2, <2>3, <2>4, <3>1 DEF AtServer
  <2> QED  BY <1>3, <2>3, <2>5, WithinNext, ReadingNext
<1>5. CASE k # Len(b)
  <2>1. PICK m \in 1 .. Len(b) : m = k + 1 /\ m - 1 = k
    BY <1>3, <1>5
  <2>2. PICK key \in Scalars : key = b[m].key
    BY <1>3
  <2>3. PICK t \in Seq(Symbols) : t = <<b[m].value>> \o SettingRest(i, j, m)
    <3>1. b[m].value \in Symbols
      BY <1>3, SymbolsAre
    <3>2. SettingRest(i, j, m) \in Seq(Symbols)
      <4>1. m \in 0 .. Len(b)
        BY <1>3
      <4> QED  BY <1>2, <4>1, SettingsLeft
    <3> QED  BY <3>1, <3>2, OneBefore
  <2>4. rest = <<key>> \o t
    BY <1>1, <1>2, <1>5, <2>1, <2>2, <2>3, SettingsLeft
  <2>5. rest' = t /\ Key(key)
    <3>1. rest' = t /\ (Key(key) \/ Value(key))
      BY <2>4, NextStep, SymbolsAre
    <3> QED  BY <1>1, <3>1 DEF Value
  <2>6. CASE key \in Directives.server
    <3>1. stack' = InServer(key) /\ result' = "loading" /\ UNCHANGED configVars /\ UNCHANGED listVars
      <4>1. Pass(InServer(key))
        BY <1>1, <2>5, <2>6 DEF Key
      <4> QED  BY <4>1, PassParts
    <3>2. SettingsRead(i, j, m - 1)'
      BY <1>1, <2>1, <3>1, ReadStays
    <3>3. AtSettingValue(i, j, m)'
      <4>1. SettingRest(i, j, m)' = SettingRest(i, j, m) /\ List(i)' = List(i) /\ D' = D
        BY DocStays
      <4> QED  BY <1>1, <1>2, <2>2, <2>3, <2>5, <2>6, <3>1, <3>2, <4>1 DEF AtSettingValue
    <3> QED  BY <1>2, <3>1, <3>3, WithinNext, ReadingNext
  <2>7. CASE key \notin Directives.server
    <3>1. Stop("failed")
      BY <1>1, <2>5, <2>7 DEF Key
    <3>2. ~ValidServer(b)
      <4>1. m \in DOMAIN b
        BY SettingParts
      <4> QED  BY <2>2, <2>7, <4>1 DEF ValidServer
    <3> QED  BY <1>2, <3>1, <3>2, StopParts, WrongServer, ReadingNext
  <2> QED  BY <2>6, <2>7
<1> QED  BY <1>4, <1>5

\* What has been read of a server, in terms of the last server.
LEMMA LastRead ==
  ASSUME D \in WellFormed, NEW i \in 1 .. Len(D), NEW j \in 1 .. Len(List(i)), NEW k,
         SettingsRead(i, j, k)
  PROVE  LastMeans(First(List(i)[j], k))
<1>1. PICK n \in Nat \ {0} : n = Place(i, j)
  BY ServerAt
<1>2. Len(servers) = n /\ servers # <<>>
  <2>1. Len(servers) = n
    BY <1>1 DEF SettingsRead
  <2> QED  BY <2>1
<1> QED  BY <1>1, <1>2 DEF LastMeans, SettingsRead

LEMMA SettingTaken ==
  ASSUME doc' = doc, D \in WellFormed, NEW i \in 1 .. Len(D), NEW j \in 1 .. Len(List(i)),
         NEW k \in 1 .. Len(List(i)[j]), SettingsRead(i, j, k - 1),
         NEW es, NEW s, s = First(List(i)[j], k), TakenFrom(es, s)
  PROVE  SettingsRead(i, j, k)'
<1>1. PICK n \in Nat \ {0} : n = Place(i, j)
  BY ServerAt
<1>2. RootMeans(First(D, i)) /\ Len(servers) = n /\ ServersRead(n - 1)
  BY <1>1 DEF SettingsRead
<1>3. D' = D /\ List(i)' = List(i) /\ Place(i, j)' = Place(i, j) /\ Blocks(D)' = Blocks(D)
  BY DocStays
<1>4. /\ LastMeans(s)' /\ Len(servers') = n
      /\ \A m \in 1 .. n - 1 : \A b : ServerMeans(m, b) => ServerMeans(m, b)'
      /\ use' = use /\ events' = events /\ connections' = connections
  BY <1>2 DEF TakenFrom
<1>5. ServersRead(n - 1)'
  BY <1>2, <1>3, <1>4 DEF ServersRead
<1>6. RootMeans(First(D, i))'
  BY <1>2, <1>3, <1>4 DEF RootMeans
<1>7. ServerMeans(n, s)' /\ (HasRuntime(n)' => servers'[n].runtime[2] = Len(Items'))
  BY <1>4 DEF LastMeans
<1> QED  BY <1>1, <1>3, <1>4, <1>5, <1>6, <1>7 DEF SettingsRead

LEMMA SettingValueStep ==
  ASSUME doc' = doc, D \in WellFormed, result = "loading", LoaderNext, ConfigOK, ListOK, Owners,
         NEW i \in 1 .. Len(D), NEW j \in 1 .. Len(List(i)),
         NEW k \in 1 .. Len(List(i)[j]), AtSettingValue(i, j, k)
  PROVE  Reading'
<1>1. PICK b \in Servers : b = List(i)[j]
  BY ServerAt
<1>2. PICK e \in Settings : e = b[k] /\ e.key \in Scalars /\ e.value \in Scalars
  <2>1. b[k] \in Settings /\ b[k].key \in Scalars /\ b[k].value \in Scalars
    <3>1. \A m \in 1 .. Len(b) : b[m] \in Settings /\ b[m].key \in Scalars /\ b[m].value \in Scalars
      BY <1>1, ServerAt, Zenon
    <3> QED  BY <1>1, <3>1
  <2> QED  BY <2>1
<1>3. PICK v \in Scalars : v = e.value
  BY <1>2
<1>4. /\ Frame.key = e.key /\ e.key \in Directives.server /\ D[i].value = NULL
      /\ \A x : WithKey(x) = InServer(x)
      /\ SettingsRead(i, j, k - 1) /\ rest = <<v>> \o SettingRest(i, j, k)
  BY <1>1, <1>2, <1>3, AtInner DEF AtSettingValue
<1>5. /\ b \in Seq(Settings) /\ Len(b) \in Nat /\ k \in 1 .. Len(b)
      /\ k \in 0 .. Len(b) /\ k - 1 \in 0 .. Len(b)
  <2>1. b \in Seq(Settings) /\ Len(b) \in Nat /\ k \in 1 .. Len(b)
    BY <1>1, SettingParts DEF Servers
  <2> QED  BY <2>1
<1>6. rest' = SettingRest(i, j, k) /\ Value(v)
  <2>1. SettingRest(i, j, k) \in Seq(Symbols)
    BY <1>1, <1>5, SettingsLeft
  <2>2. rest' = SettingRest(i, j, k) /\ (Key(v) \/ Value(v))
    BY <1>4, <2>1, NextStep, SymbolsAre
  <2> QED  BY <1>4, <2>2, DirectivesApart DEF Key
<1>7. PICK es \in Servers : es = First(b, k - 1)
  BY <1>5, FirstParts DEF Servers
<1>8. LastMeans(es) /\ Append(es, e) = First(b, k)
  <2>1. LastMeans(es)
    BY <1>1, <1>4, <1>7, LastRead
  <2>2. Append(es, e) = First(b, k)
    BY <1>2, <1>5, <1>7, FirstNext
  <2> QED  BY <2>1, <2>2
<1>9. /\ AllOrdered(D) /\ e.key = "sample_option" => Says(es, "runtime")
      /\ AllOrdered(D) /\ ~Says(es, "runtime") => ~Says(es, "sample_option")
  BY <1>1, <1>2, <1>7, OrderedSo
<1>10. CASE /\ ~Duplicate(e.key) /\ ~Unsupported(e.key, v)
            /\ Apply(e.key, v) /\ GoOn(WithKey(NULL))
  <2>1. \/ e.key = "listen" /\ Listen(v)
        \/ e.key = "request_header_buffer_size" /\ BufferSize(v)
        \/ e.key = "runtime" /\ Runtime(v)
        \/ e.key = "sample_option" /\ Items # <<>> /\ SampleOption(v)
    BY <1>4, <1>10, DirectivesApart DEF Apply
  <2>2. TakenFrom(es, Append(es, e))
    <3>1. CASE e.key = "listen" /\ Listen(v)
      BY <1>3, <1>8, <1>10, <3>1, ListenTaken
    <3>2. CASE e.key = "request_header_buffer_size" /\ BufferSize(v)
      BY <1>3, <1>8, <1>10, <3>2, SizeTaken
    <3>3. CASE e.key = "runtime" /\ Runtime(v)
      BY <1>3, <1>8, <1>9, <1>10, <3>3, RuntimeTaken
    <3>4. CASE e.key = "sample_option" /\ Items # <<>> /\ SampleOption(v)
      BY <1>3, <1>8, <1>9, <1>10, <3>4, OptionTaken
    <3> QED  BY <2>1, <3>1, <3>2, <3>3, <3>4
  <2>3. PICK s : s = First(b, k)
    OBVIOUS
  <2>4. SettingsRead(i, j, k)'
    BY <1>1, <1>4, <1>8, <2>2, <2>3, SettingTaken
  <2>5. stack' = InServer(NULL) /\ result' = "loading"
    BY <1>4, <1>10 DEF GoOn
  <2>6. AtSetting(i, j, k)'
    <3>1. SettingRest(i, j, k)' = SettingRest(i, j, k) /\ D' = D
      BY DocStays
    <3> QED  BY <1>4, <1>6, <2>4, <2>5, <3>1 DEF AtSetting
  <2> QED  BY <1>1, <1>5, <2>5, <2>6, WithinNext, ReadingNext
<1>11. CASE (Duplicate(e.key) \/ Unsupported(e.key, v)) /\ Stop("failed")
  <2>1. ~ValidServer(b)
    BY <1>2, <1>3, <1>4, <1>5, <1>7, <1>8, <1>11, ServerRefused
  <2> QED  BY <1>1, <1>11, <2>1, StopParts, WrongServer, ReadingNext
<1>12. CASE e.key = "sample_option" /\ Items = <<>> /\ Stop("undefined")
  <2>1. ~AllOrdered(D)
    <3> SUFFICES ASSUME AllOrdered(D) PROVE FALSE
      OBVIOUS
    <3>1. Server.runtime # NoRuntime
      BY <1>8, <1>9, <1>12, LastParts
    <3>2. HasRuntime(Len(servers)) /\ Len(servers) \in DOMAIN servers
      BY <1>8, <3>1, LastParts DEF HasRuntime
    <3>3. servers[Len(servers)].runtime[2] \in DOMAIN Items
      BY <3>2 DEF Owners, RuntimesOwned
    <3> QED  BY <1>12, <3>3
  <2> QED  BY <1>12, <2>1, StopParts, ReadingNext
<1>13. CASE Stop("no memory")
  BY <1>13, StopParts, ReadingNext
<1> QED
  <2>1. e.key # "servers"
    BY <1>4, DirectivesApart
  <2> QED  BY <1>4, <1>6, <1>10, <1>11, <1>12, <1>13, <2>1 DEF Value
-----------------------------------------------------------------------------
(* Every step.                                                                *)

LEMMA OpenStep ==
  ASSUME doc' = doc, D \in WellFormed, result = "unopened", Unread, LoaderNext
  PROVE  Reading'
<1>1. Open \/ OpenFails
  BY DEF LoaderNext, Ignored, ParseError, MappingStart, MappingEnd, SequenceStart, SequenceEnd,
         Scalar, Take
<1>2. CASE OpenFails
  BY <1>2, ReadingNext DEF OpenFails
<1>3. CASE Open
  <2>1. /\ result' = "loading" /\ stack' = <<Root(NULL)>> /\ rest' = Stream(D)
        /\ UNCHANGED configVars /\ UNCHANGED listVars
    BY <1>3 DEF Open, Root, Unread
  <2>2. RootMeans(<<>>)
    <3>1. ValidRoot(<<>>)
      <4>1. NumberOnce(<<>>, "events") /\ NumberOnce(<<>>, "worker_connections")
        BY NothingSaid
      <4> QED  BY <4>1 DEF ValidRoot
    <3>2. ~Says(<<>>, "use") /\ NumberSaid(<<>>, "events") = 0 /\ NumberSaid(<<>>, "worker_connections") = 0
      BY NothingSaid
    <3> QED  BY <3>1, <3>2 DEF RootMeans, Unread
  <2>3. RootRead(0, 0)
    <3>1. First(D, 0) = <<>>
      BY FirstEnds DEF WellFormed
    <3>2. Len(servers) = 0
      BY DEF Unread
    <3> QED  BY <2>2, <3>1, <3>2 DEF RootRead, ServersRead
  <2>4. AtStart'
    <3>1. Stream(D)' = Stream(D) /\ RootRead(0, 0)'
      BY <2>1, <2>3, DocStays, ReadStays
    <3> QED  BY <2>1, <3>1 DEF AtStart
  <2> QED  BY <2>1, <2>4, WithinNext, ReadingNext
<1> QED  BY <1>1, <1>2, <1>3

LEMMA ReadingStep ==
  ASSUME doc' = doc, LoaderInv, Reading, LoaderNext
  PROVE  Reading'
<1>1. D \in WellFormed /\ ConfigOK /\ ListOK /\ Owners
  BY DEF Reading, LoaderInv
<1>2. result = "unopened" \/ result = "loading"
  BY DEF LoaderNext, Open, OpenFails, Ignored, ParseError, MappingStart, MappingEnd,
         SequenceStart, SequenceEnd, Scalar, Take
<1>3. CASE result = "unopened"
  BY <1>1, <1>3, OpenStep DEF Reading
<1>4. CASE result = "loading"
  <2>1. Within
    BY <1>4 DEF Reading
  <2>2. CASE AtStart
    BY <1>1, <1>4, <2>2, StartStep
  <2>3. ASSUME NEW i \in 0 .. Len(D), AtEntry(i) PROVE Reading'
    BY <1>1, <1>4, <2>3, EntryStep
  <2>4. ASSUME NEW i \in 1 .. Len(D), AtValue(i) PROVE Reading'
    BY <1>1, <1>4, <2>4, ValueStep
  <2>5. ASSUME NEW i \in 1 .. Len(D), AtList(i) PROVE Reading'
    BY <1>1, <1>4, <2>5, ListStep
  <2>6. ASSUME NEW i \in 1 .. Len(D), NEW j \in 0 .. Len(List(i)), AtServer(i, j) PROVE Reading'
    BY <1>1, <1>4, <2>6, ServerStep
  <2>7. ASSUME NEW i \in 1 .. Len(D), NEW j \in 1 .. Len(List(i)),
               NEW k \in 0 .. Len(List(i)[j]), AtSetting(i, j, k)
        PROVE  Reading'
    BY <1>1, <1>4, <2>7, SettingStep
  <2>8. ASSUME NEW i \in 1 .. Len(D), NEW j \in 1 .. Len(List(i)),
               NEW k \in 1 .. Len(List(i)[j]), AtSettingValue(i, j, k)
        PROVE  Reading'
    BY <1>1, <1>4, <2>8, SettingValueStep
  <2> QED  BY <2>1, <2>2, <2>3, <2>4, <2>5, <2>6, <2>7, <2>8 DEF Within
<1> QED  BY <1>2, <1>3, <1>4

LEMMA NoEndStep ==
  ASSUME LoaderInv, NoEnd, LoaderNext
  PROVE  NoEnd'
<1>1. rest \in Seq(Scalars \cup Marks) /\ DOMAIN rest = 1 .. Len(rest) /\ Len(rest) \in Nat
  BY LenProperties DEF LoaderInv, WalkOK
<1>2. ASSUME NEW e, Take(e) PROVE e # "}" /\ \A i \in DOMAIN rest' : rest'[i] # "}"
  <2>1. rest # <<>> /\ Head(rest) = e /\ rest' = Tail(rest)
    BY <1>2 DEF Take
  <2>2. e = rest[1] /\ Len(rest) # 0
    BY <1>1, <2>1, EmptySeq, HeadTailProperties
  <2>3. 1 \in DOMAIN rest
    BY <1>1, <2>2
  <2>4. /\ DOMAIN rest' = 1 .. Len(rest) - 1
        /\ \A i \in 1 .. Len(rest) - 1 : rest'[i] = rest[i + 1] /\ i + 1 \in DOMAIN rest
    <3>1. /\ Tail(rest) \in Seq(Scalars \cup Marks) /\ Len(Tail(rest)) = Len(rest) - 1
          /\ \A i \in 1 .. Len(Tail(rest)) : Tail(rest)[i] = rest[i + 1]
      BY <1>1, <2>1, HeadTailProperties
    <3>2. DOMAIN rest' = 1 .. Len(rest')
      BY <2>1, <3>1, LenProperties
    <3>3. \A i \in 1 .. Len(rest) - 1 : i + 1 \in 1 .. Len(rest)
      BY <1>1
    <3> QED  BY <1>1, <2>1, <3>1, <3>2, <3>3
  <2> QED  BY <2>2, <2>3, <2>4 DEF NoEnd
<1>3. CASE Open \/ OpenFails
  BY <1>3 DEF Open, OpenFails, NoEnd
<1>4. CASE Ignored
  BY <1>2, <1>4, PassParts DEF Ignored, NoEnd
<1>5. CASE ParseError
  <2>1. result' = "failed"
    BY <1>5 DEF ParseError, Stop
  <2> QED  BY <1>2, <1>5, <2>1 DEF ParseError, NoEnd
<1>6. CASE MappingStart
  <2>1. result' # "loaded"
    BY <1>6 DEF MappingStart, AddServer, Take, Pass, GoOn, Stop
  <2> QED  BY <1>2, <1>6, <2>1 DEF MappingStart, NoEnd
<1>7. CASE MappingEnd
  BY <1>2, <1>7 DEF MappingEnd
<1>8. CASE SequenceStart
  <2>1. result' # "loaded"
    BY <1>8 DEF SequenceStart, Take, Pass, GoOn, Stop
  <2> QED  BY <1>2, <1>8, <2>1 DEF SequenceStart, NoEnd
<1>9. CASE SequenceEnd
  <2>1. result' # "loaded"
    BY <1>9 DEF SequenceEnd, Take, Pass, GoOn
  <2> QED  BY <1>2, <1>9, <2>1 DEF SequenceEnd, NoEnd
<1>10. CASE Scalar
  <2>1. PICK e \in Scalars : Take(e) /\ (Key(e) \/ Value(e))
    BY <1>10 DEF Scalar
  <2>2. result' # "loaded"
    BY <2>1 DEF Key, Value, Take, Pass, GoOn, Stop
  <2> QED  BY <1>2, <2>1, <2>2 DEF NoEnd
<1> QED  BY <1>3, <1>4, <1>5, <1>6, <1>7, <1>8, <1>9, <1>10 DEF LoaderNext

-----------------------------------------------------------------------------
(* The initial states, and a step that changes nothing.                       *)

LEMMA ReadInit == ASSUME DocInit PROVE LoaderInv /\ ReadInv
<1>1. LoaderInv
  BY InitHolds, ConfigAssumption DEF DocInit
<1>2. (result = "unopened" /\ Unread) \/ ~doc.mapping
  BY DEF DocInit, LoaderInit, Unread, D
<1>3. CASE \E d \in Documents : doc = [mapping |-> TRUE, entries |-> d]
  <2>1. doc.mapping /\ D \in WellFormed
    <3>1. PICK d \in Documents : doc = [mapping |-> TRUE, entries |-> d]
      BY <1>3
    <3>2. D = d /\ d \in WellFormed
      BY <3>1, DocumentsAssumption DEF D
    <3>3. doc.mapping
      BY <3>1
    <3> QED  BY <3>2, <3>3
  <2>2. result = "unopened" /\ Unread
    BY <1>2, <2>1
  <2> QED  BY <1>1, <2>1, <2>2 DEF ReadInv, Reading
<1>4. CASE doc = [mapping |-> FALSE, entries |-> <<>>] /\ rest \in NotMappings
  <2>1. ~doc.mapping /\ \A i \in DOMAIN rest : rest[i] # "}"
    BY <1>4, DocumentsAssumption
  <2>2. result # "loaded"
    BY DEF DocInit, LoaderInit
  <2> QED  BY <1>1, <2>1, <2>2 DEF ReadInv, NoEnd
<1> QED  BY <1>3, <1>4 DEF DocInit

LEMMA ReadInvStays == ASSUME ReadInv, UNCHANGED vars PROVE ReadInv'
<1>1. /\ doc' = doc /\ rest' = rest /\ stack' = stack /\ result' = result
      /\ UNCHANGED configVars /\ UNCHANGED listVars
      /\ use' = use /\ events' = events /\ connections' = connections /\ servers' = servers
  BY DEF vars, loaderVars, configVars, listVars
<1>2. CASE ~doc.mapping
  BY <1>1, <1>2 DEF ReadInv, NoEnd
<1>3. CASE doc.mapping
  <2>1. Reading
    BY <1>3 DEF ReadInv
  <2>2. /\ D' = D /\ Stream(D)' = Stream(D) /\ Valid(D)' = Valid(D) /\ AllOrdered(D)' = AllOrdered(D)
        /\ \A i : /\ List(i)' = List(i) /\ EntryRest(i)' = EntryRest(i) /\ Before(i)' = Before(i)
                  /\ \A j : /\ Place(i, j)' = Place(i, j) /\ ServerRest(i, j)' = ServerRest(i, j)
                            /\ \A k : SettingRest(i, j, k)' = SettingRest(i, j, k)
    BY <1>1, DocStays
  <2>3. /\ \A i, n : RootRead(i, n) => RootRead(i, n)'
        /\ \A i, j, k : SettingsRead(i, j, k) => SettingsRead(i, j, k)'
    BY <1>1, ReadStays
  <2>4. Unread => Unread'
    BY <1>1, <2>2 DEF Unread
  <2>5. ASSUME Within PROVE Within'
    <3>1. AtStart => AtStart'
      BY <1>1, <2>2, <2>3 DEF AtStart
    <3>2. \A i : AtEntry(i) => AtEntry(i)'
      BY <1>1, <2>2, <2>3 DEF AtEntry
    <3>3. \A i : AtValue(i) => AtValue(i)'
      BY <1>1, <2>2, <2>3 DEF AtValue
    <3>4. \A i : AtList(i) => AtList(i)'
      BY <1>1, <2>2, <2>3 DEF AtList
    <3>5. \A i, j : AtServer(i, j) => AtServer(i, j)'
      BY <1>1, <2>2, <2>3 DEF AtServer
    <3>6. \A i, j, k : AtSetting(i, j, k) => AtSetting(i, j, k)'
      BY <1>1, <2>2, <2>3 DEF AtSetting
    <3>7. \A i, j, k : AtSettingValue(i, j, k) => AtSettingValue(i, j, k)'
      BY <1>1, <2>2, <2>3 DEF AtSettingValue
    <3> QED  BY <2>2, <2>5, <3>1, <3>2, <3>3, <3>4, <3>5, <3>6, <3>7 DEF Within
  <2>6. Reading'
    BY <1>1, <2>1, <2>2, <2>3, <2>4, <2>5 DEF Reading
  <2> QED  BY <1>1, <1>3, <2>6 DEF ReadInv
<1> QED  BY <1>2, <1>3

-----------------------------------------------------------------------------
(* The theorems.                                                              *)

\* At any time during the loading of a document, of any length and with any
\* number of servers: what the loader has set so far is what the part of the
\* document it has read means, and the walk is at the matching place.
THEOREM ReadingInvariance == DocSpec => [](LoaderInv /\ ReadInv)
<1>1. DocInit => LoaderInv /\ ReadInv
  BY ReadInit
<1>2. LoaderInv /\ ReadInv /\ [DocNext]_vars => LoaderInv' /\ ReadInv'
  <2> SUFFICES ASSUME LoaderInv, ReadInv, [DocNext]_vars PROVE LoaderInv' /\ ReadInv'
    OBVIOUS
  <2>1. CASE DocNext
    <3>1. LoaderNext /\ doc' = doc
      BY <2>1 DEF DocNext
    <3>2. LoaderInv'
      BY <3>1, ConfigAssumption, StepKeeps
    <3>3. CASE doc.mapping
      BY <3>1, <3>2, <3>3, ReadingStep DEF ReadInv
    <3>4. CASE ~doc.mapping
      BY <3>1, <3>2, <3>4, NoEndStep DEF ReadInv
    <3> QED  BY <3>2, <3>3, <3>4 DEF ReadInv
  <2>2. CASE UNCHANGED vars
    <3>1. UNCHANGED loaderVars
      BY <2>2 DEF vars
    <3> QED  BY <2>2, <3>1, LoaderStays, ReadInvStays
  <2> QED  BY <2>1, <2>2
<1> QED  BY <1>1, <1>2, PTL DEF DocSpec

LEMMA LoadedMeans == ASSUME LoaderInv, ReadInv PROVE LoadsWhatItSays
<1> SUFFICES ASSUME result = "loaded"
             PROVE  /\ doc.mapping /\ rest = End /\ Valid(D)
                    /\ use = IF Says(D, "use") THEN LoopFor(LastSaid(D, "use")) ELSE NULL
                    /\ events = NumberSaid(D, "events")
                    /\ connections = NumberSaid(D, "worker_connections")
                    /\ Len(servers) = Len(Blocks(D))
                    /\ \A i \in DOMAIN servers :
                         LET b == Blocks(D)[i]
                             r == servers[i].runtime
                         IN /\ servers[i].listen = LastSaid(b, "listen")
                            /\ servers[i].size = NumberSaid(b, "request_header_buffer_size")
                            /\ HasRuntime(i) <=> Says(b, "runtime")
                            /\ AllOrdered(D) /\ HasRuntime(i) /\ r[1] \notin garbled =>
                                 arrays[r[1]][r[2]] \in Copies(LastSaid(b, "sample_option"))
  BY DEF LoadsWhatItSays, D
<1>1. doc.mapping /\ D \in WellFormed /\ rest = End /\ RootRead(Len(D), Before(Len(D)))
  BY DEF ReadInv, Reading, NoEnd
<1>2. First(D, Len(D)) = D
  BY <1>1, FirstEnds DEF WellFormed
<1>3. Before(Len(D)) = Len(Blocks(D)) /\ DOMAIN Blocks(D) = 1 .. Len(Blocks(D))
  BY <1>1, FirstBlocks
<1>4. RootMeans(D) /\ Len(servers) = Len(Blocks(D)) /\ ServersRead(Len(Blocks(D)))
  BY <1>1, <1>2, <1>3 DEF RootRead
<1>5. /\ ValidRoot(D)
      /\ use = IF Says(D, "use") THEN LoopFor(LastSaid(D, "use")) ELSE NULL
      /\ events = NumberSaid(D, "events")
      /\ connections = NumberSaid(D, "worker_connections")
  BY <1>4 DEF RootMeans
<1>6. \A i \in DOMAIN Blocks(D) : ServerMeans(i, Blocks(D)[i])
  BY <1>3, <1>4 DEF ServersRead
<1>7. Valid(D)
  BY <1>5, <1>6 DEF Valid, ServerMeans
<1>8. DOMAIN servers = DOMAIN Blocks(D)
  BY <1>3, <1>4, LenProperties DEF LoaderInv, ConfigOK
<1>9. ASSUME NEW i \in DOMAIN servers, NEW b, b = Blocks(D)[i], NEW r, r = servers[i].runtime
      PROVE  /\ servers[i].listen = LastSaid(b, "listen")
             /\ servers[i].size = NumberSaid(b, "request_header_buffer_size")
             /\ HasRuntime(i) <=> Says(b, "runtime")
             /\ AllOrdered(D) /\ HasRuntime(i) /\ r[1] \notin garbled =>
                  arrays[r[1]][r[2]] \in Copies(LastSaid(b, "sample_option"))
  <2>1. ServerMeans(i, b)
    BY <1>6, <1>8, <1>9
  <2>2. HasRuntime(i) => arrays[r[1]][r[2]] = Items[r[2]]
    BY <1>9 DEF LoaderInv, Owners, RuntimesOwned
  <2> QED  BY <1>9, <2>1, <2>2 DEF ServerMeans
<1> QED  BY <1>1, <1>4, <1>5, <1>7, <1>9

\* A document that is loaded was valid and was read to its end; each directive
\* has arrived where it belongs, and the option of each server is the one its
\* own pointer leads to, however often the list of runtimes has moved.
THEOREM LoadedAsMeant == DocSpec => []LoadsWhatItSays
<1>1. LoaderInv /\ ReadInv => LoadsWhatItSays
  BY LoadedMeans
<1> QED  BY <1>1, ReadingInvariance, PTL

\* A document in the form of conf/wsgi.yaml is refused only if something in it
\* is wrong, it never makes the loader follow a NULL pointer, and memory that
\* is no item of the list is written only if an option precedes its runtime.
THEOREM RefusedRightly == DocSpec => []RefusesWhatIsWrong
<1>1. LoaderInv /\ ReadInv => RefusesWhatIsWrong
  BY DEF ReadInv, Reading, RefusesWhatIsWrong, D
<1> QED  BY <1>1, ReadingInvariance, PTL

-----------------------------------------------------------------------------
(* The safe half of LoadingEnds.                                              *)

\* Before the walk is over there is a next event: it never goes round behind
\* the end of the stream.
EventsLeft == doc.mapping /\ result = "loading" => rest # <<>>

LEMMA NotEmpty ==
  ASSUME NEW e \in Symbols, NEW t \in Seq(Symbols), rest = <<e>> \o t
  PROVE  rest # <<>>
BY OneBefore

LEMMA WithinLeft == ASSUME D \in WellFormed, Within PROVE rest # <<>>
<1>1. \A i \in 0 .. Len(D) : EntryRest(i) \in Seq(Symbols)
  BY EntriesLeft
<1>2. /\ Len(D) \in Nat
      /\ \A i \in 1 .. Len(D) : i \in 0 .. Len(D) /\ 0 \in 0 .. Len(List(i))
  BY FirstBlocks, BlockPlaces
<1>3. CASE AtStart
  <2>1. 0 \in 0 .. Len(D)
    BY <1>2
  <2>2. PICK t \in Seq(Symbols) : t = EntryRest(0)
    BY <1>1, <2>1
  <2>3. CASE rest = <<"{">> \o t
    BY <2>3, SymbolsAre, NotEmpty
  <2>4. CASE rest = <<"ignored", "{">> \o t
    <3>1. rest = <<"ignored">> \o (<<"{">> \o t) /\ <<"{">> \o t \in Seq(Symbols)
      BY <2>2, <2>4, StreamLeft
    <3> QED  BY <3>1, SymbolsAre, NotEmpty
  <2>5. CASE rest = Stream(D)
    <3>1. rest = <<"ignored">> \o (<<"ignored", "{">> \o t)
          /\ <<"ignored", "{">> \o t \in Seq(Symbols)
      BY <2>2, <2>5, StreamLeft
    <3> QED  BY <3>1, SymbolsAre, NotEmpty
  <2> QED  BY <1>3, <2>2, <2>3, <2>4, <2>5 DEF AtStart
<1>4. ASSUME NEW i \in 0 .. Len(D), AtEntry(i) PROVE rest # <<>>
  <2>1. rest = EntryRest(i)
    BY <1>4 DEF AtEntry
  <2>2. CASE i = Len(D)
    <3>1. rest = <<"}">> \o End
      BY <2>1, <2>2, EntriesLeft
    <3> QED  BY <3>1, TheEnd, SymbolsAre, NotEmpty
  <2>3. CASE i # Len(D)
    <3>1. PICK m \in 1 .. Len(D) : m = i + 1
      BY <1>2, <2>3
    <3>2. D[m] \in Entry /\ D[m].key \in Symbols
      <4>1. D[m] \in Entry /\ D[m].key \in Scalars
        BY <3>1, EntryOf, EntryParts
      <4> QED  BY <4>1, SymbolsAre
    <3>3. CASE D[m].value # NULL
      <4>1. rest = <<D[m].key>> \o (<<D[m].value>> \o EntryRest(m))
        BY <2>1, <2>3, <3>1, <3>3, EntriesLeft
      <4>2. D[m].value \in Symbols
        <5>1. D[m].value \in Scalars
          BY <3>2, <3>3, EntryParts
        <5> QED  BY <5>1, SymbolsAre
      <4>3. EntryRest(m) \in Seq(Symbols)
        BY <1>1, <1>2
      <4>4. <<D[m].value>> \o EntryRest(m) \in Seq(Symbols)
        BY <4>2, <4>3, OneBefore
      <4> QED  BY <3>2, <4>1, <4>4, NotEmpty
    <3>4. CASE D[m].value = NULL
      <4>1. rest = <<D[m].key>> \o (<<"[">> \o ServerRest(m, 0))
        BY <2>1, <2>3, <3>1, <3>4, EntriesLeft
      <4>2. ServerRest(m, 0) \in Seq(Symbols) /\ "[" \in Symbols
        BY <1>2, ServersLeft, SymbolsAre
      <4>3. <<"[">> \o ServerRest(m, 0) \in Seq(Symbols)
        BY <4>2, OneBefore
      <4> QED  BY <3>2, <4>1, <4>3, NotEmpty
    <3> QED  BY <3>3, <3>4
  <2> QED  BY <2>2, <2>3
<1>5. ASSUME NEW i \in 1 .. Len(D), AtValue(i) PROVE rest # <<>>
  <2>1. rest = <<D[i].value>> \o EntryRest(i) /\ D[i].value # NULL
    BY <1>5 DEF AtValue
  <2>2. D[i].value \in Symbols
    <3>1. D[i].value \in Scalars
      BY <2>1, EntryOf, EntryParts
    <3> QED  BY <3>1, SymbolsAre
  <2>3. EntryRest(i) \in Seq(Symbols)
    BY <1>1, <1>2
  <2> QED  BY <2>1, <2>2, <2>3, NotEmpty
<1>6. ASSUME NEW i \in 1 .. Len(D), AtList(i) PROVE rest # <<>>
  <2>1. rest = <<"[">> \o ServerRest(i, 0)
    BY <1>6 DEF AtList
  <2>2. ServerRest(i, 0) \in Seq(Symbols) /\ "[" \in Symbols
    BY <1>2, ServersLeft, SymbolsAre
  <2> QED  BY <2>1, <2>2, NotEmpty
<1>7. ASSUME NEW i \in 1 .. Len(D), NEW j \in 0 .. Len(List(i)), AtServer(i, j) PROVE rest # <<>>
  <2>1. rest = ServerRest(i, j)
    BY <1>7 DEF AtServer
  <2>2. CASE j = Len(List(i))
    <3>1. rest = <<"]">> \o EntryRest(i) /\ EntryRest(i) \in Seq(Symbols) /\ "]" \in Symbols
      BY <1>1, <1>2, <2>1, <2>2, ServersLeft, SymbolsAre
    <3> QED  BY <3>1, NotEmpty
  <2>3. CASE j # Len(List(i))
    <3>1. PICK m \in 1 .. Len(List(i)) : m = j + 1
      BY <2>3, BlockPlaces
    <3>2. rest = <<"{">> \o SettingRest(i, m, 0)
      BY <2>1, <2>3, <3>1, ServersLeft
    <3>3. 0 \in 0 .. Len(List(i)[m])
      BY ServerAt
    <3>4. SettingRest(i, m, 0) \in Seq(Symbols) /\ "{" \in Symbols
      BY <3>3, SettingsLeft, SymbolsAre
    <3> QED  BY <3>2, <3>4, NotEmpty
  <2> QED  BY <2>2, <2>3
<1>8. ASSUME NEW i \in 1 .. Len(D), NEW j \in 1 .. Len(List(i)) ,
             NEW k \in 0 .. Len(List(i)[j]), AtSetting(i, j, k)
      PROVE  rest # <<>>
  <2>1. rest = SettingRest(i, j, k)
    BY <1>8 DEF AtSetting
  <2>2. CASE k = Len(List(i)[j])
    <3>1. rest = <<"}">> \o ServerRest(i, j)
      BY <2>1, <2>2, SettingsLeft
    <3>2. j \in 0 .. Len(List(i))
      BY BlockPlaces
    <3>3. ServerRest(i, j) \in Seq(Symbols) /\ "}" \in Symbols
      BY <3>2, ServersLeft, SymbolsAre
    <3> QED  BY <3>1, <3>3, NotEmpty
  <2>3. CASE k # Len(List(i)[j])
    <3>1. PICK m \in 1 .. Len(List(i)[j]) : m = k + 1
      BY <2>3, ServerAt
    <3>2. List(i)[j][m].key \in Symbols /\ List(i)[j][m].value \in Symbols
      BY ServerAt, SymbolsAre
    <3>3. SettingRest(i, j, m) \in Seq(Symbols)
      <4>1. m \in 0 .. Len(List(i)[j])
        BY ServerAt
      <4> QED  BY <4>1, SettingsLeft
    <3>4. rest = <<List(i)[j][m].key>> \o (<<List(i)[j][m].value>> \o SettingRest(i, j, m))
      BY <2>1, <2>3, <3>1, SettingsLeft
    <3>5. <<List(i)[j][m].value>> \o SettingRest(i, j, m) \in Seq(Symbols)
      BY <3>2, <3>3, OneBefore
    <3> QED  BY <3>2, <3>4, <3>5, NotEmpty
  <2> QED  BY <2>2, <2>3
<1>9. ASSUME NEW i \in 1 .. Len(D), NEW j \in 1 .. Len(List(i)),
             NEW k \in 1 .. Len(List(i)[j]), AtSettingValue(i, j, k)
      PROVE  rest # <<>>
  <2>1. rest = <<List(i)[j][k].value>> \o SettingRest(i, j, k)
    BY <1>9 DEF AtSettingValue
  <2>2. List(i)[j][k].value \in Symbols
    BY ServerAt, SymbolsAre
  <2>3. SettingRest(i, j, k) \in Seq(Symbols)
    <3>1. k \in 0 .. Len(List(i)[j])
      BY ServerAt
    <3> QED  BY <3>1, SettingsLeft
  <2> QED  BY <2>1, <2>2, <2>3, NotEmpty
<1> QED  BY <1>3, <1>4, <1>5, <1>6, <1>7, <1>8, <1>9 DEF Within

\* A start does not hang on a document that is a mapping: as long as it is
\* being loaded there is an event for the next step, and each step takes one.
THEOREM NeverBehindTheEnd ==
  DocSpec => []EventsLeft /\ [][result = "loading" => rest' = Tail(rest)]_vars
<1>1. LoaderInv /\ ReadInv => EventsLeft
  BY WithinLeft DEF ReadInv, Reading, EventsLeft
<1>2. [DocNext]_vars => [result = "loading" => rest' = Tail(rest)]_vars
  BY DEF DocNext, LoaderNext, Open, OpenFails, Ignored, ParseError, MappingStart, MappingEnd,
         SequenceStart, SequenceEnd, Scalar, Take
<1> QED  BY <1>1, <1>2, ReadingInvariance, PTL DEF DocSpec
=============================================================================
