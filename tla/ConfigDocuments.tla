-------------------------- MODULE ConfigDocuments --------------------------
(***************************************************************************)
(* Documents in the form of conf/wsgi.yaml: the events a YAML parser makes *)
(* of one, and what it means.                                              *)
(***************************************************************************)
EXTENDS ConfigLoader

\* An entry is a key with a scalar or, without one, a list of servers; a server
\* is a list of entries.
Say(k, v) == [key |-> k, value |-> v, list |-> <<>>]
ServerList(bs) == [key |-> "servers", value |-> NULL, list |-> bs]

Settings == [key : Scalars, value : Scalars, list : {<<>>}]
ServerLists == [key : Scalars \cap {"servers"}, value : {NULL}, list : Seq(Seq(Settings))]
WellFormed == Seq(Settings \cup ServerLists)

\* Texts, each a sequence of events, one behind the other: what stands behind
\* the first i of them.
From(texts, tail) ==
  LET from[i \in 0 .. Len(texts)] ==
        IF i = Len(texts) THEN tail ELSE texts[i + 1] \o from[i + 1]
  IN  from

Joined(texts, tail) == From(texts, tail)[0]

SettingText(e) == <<e.key, e.value>>
SettingTexts(b) == [i \in 1 .. Len(b) |-> SettingText(b[i])]

ServerText(b) == <<"{">> \o Joined(SettingTexts(b), <<"}">>)
ServerTexts(bs) == [i \in 1 .. Len(bs) |-> ServerText(bs[i])]

EntryText(e) ==
  IF e.value # NULL THEN SettingText(e)
  ELSE <<e.key, "[">> \o Joined(ServerTexts(e.list), <<"]">>)
EntryTexts(d) == [i \in 1 .. Len(d) |-> EntryText(d[i])]

Begin == <<"ignored", "ignored">>
End == <<"ignored", "ignored">>
Stream(d) == Begin \o <<"{">> \o Joined(EntryTexts(d), <<"}">> \o End)

-----------------------------------------------------------------------------
(* What a document, or one of its servers, says                             *)

Says(es, k) == \E i \in DOMAIN es : es[i].key = k

LastSaid(es, k) ==
  IF Says(es, k)
  THEN es[CHOOSE i \in DOMAIN es :
            es[i].key = k /\ \A j \in DOMAIN es : es[j].key = k => j <= i].value
  ELSE NULL

NumberSaid(es, k) == IF Says(es, k) THEN Atoi[LastSaid(es, k)] ELSE 0

Once(es, k) == \A i, j \in DOMAIN es : es[i].key = k /\ es[j].key = k => i = j

\* A number may be repeated as long as it was 0.
NumberOnce(es, k) ==
  \A i, j \in DOMAIN es : i < j /\ es[i].key = k /\ es[j].key = k => Atoi[es[i].value] = 0

ValidServer(b) ==
  /\ \A i \in DOMAIN b :
       /\ b[i].key \in Directives.server
       /\ b[i].key = "listen" => b[i].value \in Addresses
       /\ b[i].key = "runtime" => Lower[b[i].value] = "sample"
  /\ Once(b, "listen") /\ Once(b, "runtime") /\ NumberOnce(b, "request_header_buffer_size")

\* The servers of the lists among the first i entries, in their order.
BlocksTo(d) ==
  LET blocks[i \in 0 .. Len(d)] == IF i = 0 THEN <<>> ELSE blocks[i - 1] \o d[i].list
  IN  blocks

Blocks(d) == BlocksTo(d)[Len(d)]

LoopFor(v) == IF Lower[v] = "auto" /\ Loops # <<>> THEN Loops[1] ELSE Lower[v]

ValidRoot(d) ==
  /\ \A i \in DOMAIN d :
       /\ d[i].key \in Directives.root
       /\ d[i].key = "use" => \E j \in DOMAIN Loops : Loops[j] = LoopFor(d[i].value)
       /\ d[i].key = "servers" => d[i].value = NULL
  /\ NumberOnce(d, "events") /\ NumberOnce(d, "worker_connections")

Valid(d) == ValidRoot(d) /\ \A i \in DOMAIN Blocks(d) : ValidServer(Blocks(d)[i])

\* The option of a server without a runtime, or before it, is somebody else's.
Ordered(b) ==
  \A i \in DOMAIN b : b[i].key = "sample_option" => \E j \in 1 .. i : b[j].key = "runtime"
AllOrdered(d) == \A i \in DOMAIN Blocks(d) : Ordered(Blocks(d)[i])
=============================================================================
