------------------------ MODULE KqueueChangesProofs ------------------------
(***************************************************************************)
(* The table of changes is exact, it overflows exactly when more handlers  *)
(* are open than it has entries, and the kernel watches for nobody else,   *)
(* for every number of handlers, descriptors and entries.                  *)
(***************************************************************************)
EXTENDS KqueueChanges, FiniteSetTheorems, TLAPS

TableInv == TypeOK /\ OverrunOnlyCrowded /\ TableExact /\ HandlesApart /\ KnotesOwned

\* One more handler is open, and one more is counted.
LEMMA OpenedCounts ==
  ASSUME NEW h \in Handlers,
         NEW now \in SUBSET Handlers, h \notin now
  PROVE  /\ Cardinality(now) \in Nat
         /\ Cardinality(now \cup {h}) = Cardinality(now) + 1
<1>1. IsFiniteSet(now)
  BY TableAssumption, FS_Subset
<1> QED  BY <1>1, FS_AddElement, FS_CardinalityType

\* The handlers that are open after one was added, and their number.
LEMMA AddOpens ==
  ASSUME TypeOK, NEW h \in Handlers, NEW f \in Handles, GetsHandle(h, f)
  PROVE  \E n \in Nat : n = Cardinality(Opened) /\ Cardinality(Opened') = n + 1
<1>1. /\ handle \in [Handlers -> Handles \cup {NoHandle}]
      /\ handle' = [handle EXCEPT ![h] = f] /\ ~Open(h)
  BY DEF TypeOK, GetsHandle
<1>2. \A g \in Handlers : handle'[g] = IF g = h THEN f ELSE handle[g]
  BY <1>1
<1>3. f # NoHandle
  BY TableAssumption
<1>4. h \notin Opened /\ Opened' = Opened \cup {h} /\ Opened \in SUBSET Handlers
  BY <1>1, <1>2, <1>3 DEF Opened, Open
<1>5. Cardinality(Opened) \in Nat /\ Cardinality(Opened \cup {h}) = Cardinality(Opened) + 1
  BY <1>4, OpenedCounts
<1> QED  BY <1>4, <1>5

\* An entry was written where there is one.
LEMMA AddKeepsInTable ==
  ASSUME TableInv, NEW h \in Handlers, NEW f \in Handles, Add(h, f), index < EventsLength
  PROVE  TableInv'
<1> USE TableAssumption
<1>1. /\ Sound /\ Sound' /\ ~Open(h) /\ index \in Entries /\ index' = index + 1
      /\ handle \in [Handlers -> Handles \cup {NoHandle}]
      /\ changes \in [Entries -> [ident : Handles \cup {NoHandle}, udata : Handlers \cup {NoHandler}]]
      /\ handle' = [handle EXCEPT ![h] = f]
      /\ changes' = [changes EXCEPT ![index] = Entry(h, f)]
  BY DEF TableInv, TypeOK, Add, GetsHandle, Entries, Sound
<1>2. /\ \A g \in Handlers : handle'[g] = IF g = h THEN f ELSE handle[g]
      /\ \A i \in Entries : changes'[i] = IF i = index THEN Entry(h, f) ELSE changes[i]
      /\ \A i \in 0 .. index - 1 : i \in Entries /\ i # index
      /\ \A i \in 0 .. index' - 1 : i = index \/ i \in 0 .. index - 1
      /\ index \in 0 .. index' - 1
      /\ \A i \in 0 .. index - 1 : i \in 0 .. index' - 1
  BY <1>1 DEF Entries
<1>3. Entry(h, f).ident = f /\ Entry(h, f).udata = h
  BY DEF Entry
<1>4. TypeOK'
  <2>1. Entry(h, f) \in [ident : Handles \cup {NoHandle}, udata : Handlers \cup {NoHandler}]
    BY DEF Entry
  <2>2. changes' \in [Entries -> [ident : Handles \cup {NoHandle}, udata : Handlers \cup {NoHandler}]]
    BY <2>1, <1>1
  <2>3. index' \in -1 .. EventsLength + 1 /\ index' >= 0 /\ index' <= EventsLength
    BY <1>1 DEF Entries
  <2>4. failed' \in BOOLEAN /\ overrun' \in BOOLEAN /\ knotes' = knotes
    BY DEF TableInv, TypeOK, Add
  <2> QED  BY <2>2, <2>3, <2>4, <1>1 DEF TypeOK, TableInv
<1>5. TableExact'
  <2>1. ASSUME NEW i \in 0 .. index' - 1
        PROVE  /\ changes'[i].udata \in Handlers
               /\ handle'[changes'[i].udata] # NoHandle
               /\ changes'[i].ident = handle'[changes'[i].udata]
    BY <1>1, <1>2, <1>3 DEF TableInv, TableExact, Open
  <2>2. ASSUME NEW i \in 0 .. index' - 1, NEW j \in 0 .. index' - 1,
               changes'[i].udata = changes'[j].udata
        PROVE  i = j
    <3>1. ASSUME NEW k \in 0 .. index - 1 PROVE changes'[k].udata # h /\ changes'[k] = changes[k]
      BY <1>1, <1>2 DEF TableInv, TableExact
    <3> QED  BY <3>1, <2>2, <1>1, <1>2, <1>3 DEF TableInv, TableExact
  <2>3. ASSUME NEW g \in Handlers, handle'[g] # NoHandle
        PROVE  \E i \in 0 .. index' - 1 : changes'[i].udata = g
    <3>1. CASE g = h
      BY <3>1, <1>1, <1>2, <1>3
    <3>2. CASE g # h
      <4>1. PICK i \in 0 .. index - 1 : changes[i].udata = g
        BY <3>2, <2>3, <1>1, <1>2 DEF TableInv, TableExact, Open
      <4> QED  BY <4>1, <1>2
    <3> QED  BY <3>1, <3>2
  <2> QED  BY <2>1, <2>2, <2>3 DEF TableExact, Open
<1>6. HandlesApart'
  BY <1>1, <1>2 DEF TableInv, HandlesApart, Open, Add, GetsHandle
<1>7. KnotesOwned'
  <2>1. knotes' = knotes
    BY DEF Add
  <2>2. ASSUME NEW e \in Handles, knotes[e] # NoHandler
        PROVE  handle'[knotes[e]] = e
    <3>1. knotes[e] \in Handlers /\ handle[knotes[e]] = e
      BY <2>2 DEF TableInv, TypeOK, KnotesOwned
    <3> QED  BY <3>1, <1>1, <1>2 DEF Open
  <2> QED  BY <2>1, <2>2 DEF KnotesOwned
<1>8. OverrunOnlyCrowded'
  <2>1. PICK n \in Nat : n = Cardinality(Opened) /\ Cardinality(Opened') = n + 1
    BY AddOpens DEF TableInv, Add
  <2>2. index = n /\ n < EventsLength
    BY <2>1, <1>1 DEF TableInv, OverrunOnlyCrowded, Sound
  <2> QED  BY <2>1, <2>2, <1>1 DEF OverrunOnlyCrowded, Sound
<1> QED  BY <1>4, <1>5, <1>6, <1>7, <1>8 DEF TableInv

\* It was written behind the table: one handler more is open than there are entries.
LEMMA AddKeepsBehind ==
  ASSUME TableInv, NEW h \in Handlers, NEW f \in Handles, Add(h, f), ~(index < EventsLength)
  PROVE  TableInv'
<1> USE TableAssumption
<1>1. /\ Sound /\ ~failed' /\ overrun' /\ index = EventsLength /\ index' = EventsLength + 1
      /\ changes' = changes /\ knotes' = knotes
      /\ handle \in [Handlers -> Handles \cup {NoHandle}]
      /\ handle' = [handle EXCEPT ![h] = f]
  BY DEF TableInv, TypeOK, Add, GetsHandle, Sound
<1>2. \A g \in Handlers : handle'[g] = IF g = h THEN f ELSE handle[g]
  BY <1>1
<1>3. TypeOK'
  <2>1. index' \in -1 .. EventsLength + 1 /\ index' >= 0
    BY <1>1
  <2>2. failed' \in BOOLEAN /\ overrun' \in BOOLEAN
    BY DEF TableInv, TypeOK, Add
  <2>3. handle' \in [Handlers -> Handles \cup {NoHandle}]
    BY <1>1
  <2> QED  BY <2>1, <2>2, <2>3, <1>1 DEF TableInv, TypeOK
<1>4. OverrunOnlyCrowded'
  <2>1. PICK n \in Nat : n = Cardinality(Opened) /\ Cardinality(Opened') = n + 1
    BY AddOpens DEF TableInv, Add
  <2>2. n = EventsLength
    BY <2>1, <1>1 DEF TableInv, OverrunOnlyCrowded, Sound
  <2> QED  BY <2>1, <2>2, <1>1 DEF OverrunOnlyCrowded
<1>5. TableExact'
  BY <1>1 DEF TableExact, Sound
<1>6. HandlesApart'
  BY <1>1, <1>2 DEF TableInv, HandlesApart, Open, Add, GetsHandle
<1>7. KnotesOwned'
  <2>1. ASSUME NEW e \in Handles, knotes[e] # NoHandler
        PROVE  handle'[knotes[e]] = e
    <3>1. knotes[e] \in Handlers /\ handle[knotes[e]] = e
      BY <2>1 DEF TableInv, TypeOK, KnotesOwned
    <3>2. ~Open(h)
      BY DEF Add, GetsHandle
    <3> QED  BY <3>1, <3>2, <1>2 DEF Open
  <2> QED  BY <2>1, <1>1 DEF KnotesOwned
<1> QED  BY <1>3, <1>4, <1>5, <1>6, <1>7 DEF TableInv


\* The descriptor of an open handler is found in one entry, its own.
LEMMA FindsOwn ==
  ASSUME TableInv, Sound, NEW h \in Handlers, Open(h)
  PROVE  /\ Hole(handle[h]) \in 0 .. index - 1
         /\ changes[Hole(handle[h])].udata = h
<1>1. PICK i \in 0 .. index - 1 : changes[i].udata = h
  BY DEF TableInv, TableExact
<1>2. Found(handle[h]) = {i}
  <2>1. i \in Found(handle[h])
    BY <1>1 DEF Found, TableInv, TableExact
  <2>2. ASSUME NEW j \in Found(handle[h]) PROVE j = i
    <3>1. j \in 0 .. index - 1 /\ changes[j].ident = handle[h]
      BY DEF Found
    <3>2. changes[j].udata \in Handlers /\ handle[changes[j].udata] = handle[h] /\ Open(changes[j].udata)
      BY <3>1 DEF TableInv, TableExact
    <3>3. changes[j].udata = h
      BY <3>2 DEF TableInv, HandlesApart
    <3> QED  BY <3>1, <3>3, <1>1 DEF TableInv, TableExact
  <2> QED  BY <2>1, <2>2
<1>3. Hole(handle[h]) = i
  BY <1>2 DEF Hole
<1> QED  BY <1>1, <1>3

LEMMA CloseKeeps ==
  ASSUME TableInv, NEW h \in Handlers, Close(h)
  PROVE  TableInv'
<1> DEFINE hole == Hole(handle[h])
           last == index - 1
<1> USE TableAssumption
<1>1. /\ Sound /\ Sound' /\ Open(h) /\ handle[h] \in Handles /\ index' = last
      /\ handle \in [Handlers -> Handles \cup {NoHandle}]
      /\ changes \in [Entries -> [ident : Handles \cup {NoHandle}, udata : Handlers \cup {NoHandler}]]
      /\ knotes \in [Handles -> Handlers \cup {NoHandler}]
      /\ handle' = [handle EXCEPT ![h] = NoHandle]
      /\ changes' = [changes EXCEPT ![hole] = changes[last]]
      /\ knotes' = [knotes EXCEPT ![handle[h]] = NoHandler]
  BY DEF TableInv, TypeOK, Close, Open, Without, Sound
<1>2. hole \in 0 .. last /\ changes[hole].udata = h
  BY <1>1, FindsOwn
<1>3. /\ index \in 1 .. EventsLength /\ last \in Entries /\ hole \in Entries
      /\ \A i \in 0 .. last - 1 : i \in 0 .. last /\ i \in Entries /\ i # last
      /\ \A i \in 0 .. last : i = last \/ i \in 0 .. last - 1
      /\ last \in 0 .. last
  BY <1>1, <1>2 DEF TableInv, TypeOK, Entries, Sound
<1>4. /\ \A g \in Handlers : handle'[g] = IF g = h THEN NoHandle ELSE handle[g]
      /\ \A i \in Entries : changes'[i] = IF i = hole THEN changes[last] ELSE changes[i]
  BY <1>1, <1>3
<1>5. TypeOK'
  <2>1. changes' \in [Entries -> [ident : Handles \cup {NoHandle}, udata : Handlers \cup {NoHandler}]]
    BY <1>1, <1>3
  <2>2. index' \in -1 .. EventsLength + 1 /\ index' >= 0 /\ index' <= EventsLength
    BY <1>1, <1>3
  <2>3. handle' \in [Handlers -> Handles \cup {NoHandle}]
    BY <1>1
  <2>4. knotes' \in [Handles -> Handlers \cup {NoHandler}]
    BY <1>1
  <2>5. failed' \in BOOLEAN /\ overrun' \in BOOLEAN
    BY DEF TableInv, TypeOK, Close
  <2> QED  BY <2>1, <2>2, <2>3, <2>4, <2>5 DEF TypeOK
<1>6. TableExact'
  \* The entries that are left are the old ones without the closed handler's.
  <2>1. ASSUME NEW i \in 0 .. last - 1
        PROVE  \E k \in 0 .. last : /\ changes'[i] = changes[k] /\ k # hole
                                    /\ k = IF i = hole THEN last ELSE i
    BY <1>3, <1>4
  <2>2. ASSUME NEW i \in 0 .. last - 1
        PROVE  /\ changes'[i].udata \in Handlers
               /\ handle'[changes'[i].udata] # NoHandle
               /\ changes'[i].ident = handle'[changes'[i].udata]
    <3>1. PICK k \in 0 .. last : changes'[i] = changes[k] /\ k # hole
      BY <2>1
    <3>2. changes[k].udata \in Handlers /\ changes[k].udata # h
      BY <3>1, <1>1, <1>2 DEF TableInv, TableExact
    <3> QED  BY <3>1, <3>2, <1>1, <1>4 DEF TableInv, TableExact, Open
  <2>3. ASSUME NEW i \in 0 .. last - 1, NEW j \in 0 .. last - 1,
               changes'[i].udata = changes'[j].udata
        PROVE  i = j
    <3>1. PICK k \in 0 .. last : changes'[i] = changes[k] /\ k = IF i = hole THEN last ELSE i
      BY <2>1
    <3>2. PICK m \in 0 .. last : changes'[j] = changes[m] /\ m = IF j = hole THEN last ELSE j
      BY <2>1
    <3>3. k = m
      BY <3>1, <3>2, <2>3, <1>1 DEF TableInv, TableExact
    <3> QED  BY <3>1, <3>2, <3>3, <1>3
  <2>4. ASSUME NEW g \in Handlers, handle'[g] # NoHandle
        PROVE  \E i \in 0 .. last - 1 : changes'[i].udata = g
    <3>1. g # h /\ handle[g] # NoHandle
      BY <2>4, <1>4
    <3>2. PICK k \in 0 .. last : changes[k].udata = g
      BY <3>1, <1>1 DEF TableInv, TableExact, Open
    <3>3. k # hole
      BY <3>1, <3>2, <1>2
    <3>4. CASE k = last
      <4>1. hole \in 0 .. last - 1
        BY <3>3, <3>4, <1>2, <1>3
      <4> QED  BY <4>1, <3>2, <3>4, <1>3, <1>4
    <3>5. CASE k # last
      BY <3>2, <3>3, <3>5, <1>3, <1>4
    <3> QED  BY <3>4, <3>5
  <2> QED  BY <2>2, <2>3, <2>4, <1>1 DEF TableExact, Open
<1>7. HandlesApart'
  BY <1>1, <1>4 DEF TableInv, HandlesApart, Open
<1>8. KnotesOwned'
  <2>1. ASSUME NEW e \in Handles, knotes'[e] # NoHandler
        PROVE  handle'[knotes'[e]] = e
    <3>1. e # handle[h] /\ knotes'[e] = knotes[e]
      BY <2>1, <1>1
    <3>2. knotes[e] \in Handlers /\ handle[knotes[e]] = e
      BY <3>1, <2>1, <1>1 DEF TableInv, KnotesOwned
    <3> QED  BY <3>1, <3>2, <1>4
  <2> QED  BY <2>1 DEF KnotesOwned
<1>9. OverrunOnlyCrowded'
  <2>1. h \notin Opened' /\ Opened = Opened' \cup {h}
    BY <1>1, <1>4 DEF Opened, Open
  <2>2. PICK n \in Nat : n = Cardinality(Opened') /\ Cardinality(Opened) = n + 1
    BY <2>1, OpenedCounts DEF Opened
  <2>3. index = n + 1
    BY <2>2, <1>1 DEF TableInv, OverrunOnlyCrowded, Sound
  <2> QED  BY <2>2, <2>3, <1>1, <1>3 DEF OverrunOnlyCrowded, Sound
<1> QED  BY <1>5, <1>6, <1>7, <1>8, <1>9 DEF TableInv

LEMMA OpenFailsKeeps ==
  ASSUME TableInv, NEW h \in Acceptors, OpenFails(h)
  PROVE  TableInv'
<1>1. TypeOK'
  BY TableAssumption DEF TableInv, TypeOK, OpenFails, Sound
<1>2. TableExact' /\ OverrunOnlyCrowded'
  BY DEF OpenFails, TableInv, TableExact, OverrunOnlyCrowded, Sound, Opened, Open
<1>3. HandlesApart' /\ KnotesOwned'
  BY DEF TableInv, HandlesApart, KnotesOwned, Open, OpenFails
<1> QED  BY <1>1, <1>2, <1>3 DEF TableInv

\* What kevent is given for a descriptor names the handler that has it.
LEMMA GivenOwned ==
  ASSUME TableInv, Sound, NEW c \in Given
  PROVE  c.udata \in Handlers /\ handle[c.udata] = c.ident
BY DEF Given, TableInv, TableExact

LEMMA WaitKeeps ==
  ASSUME TableInv, Wait
  PROVE  TableInv'
<1>1. /\ Sound /\ UNCHANGED <<changes, index, handle, failed, overrun>>
      /\ knotes \in [Handles -> Handlers \cup {NoHandler}]
  BY DEF Wait, TableInv, TypeOK
<1>2. ASSUME NEW f \in Handles
      PROVE  knotes'[f] \in Handlers \cup {NoHandler} /\ (knotes'[f] # NoHandler => handle[knotes'[f]] = f)
  <2>1. CASE \E c \in Given : c.ident = f
    <3>1. PICK d \in Given : knotes'[f] = d.udata /\ d.ident = f
      BY <2>1 DEF Wait
    <3> QED  BY <3>1, <1>1, GivenOwned
  <2>2. CASE ~ \E c \in Given : c.ident = f
    <3>1. knotes'[f] = knotes[f]
      BY <2>2 DEF Wait
    <3> QED  BY <3>1, <1>1 DEF TableInv, KnotesOwned
  <2> QED  BY <2>1, <2>2
<1>3. knotes' \in [Handles -> Handlers \cup {NoHandler}]
  <2>1. knotes' = [f \in Handles |-> knotes'[f]]
    BY DEF Wait
  <2> QED  BY <2>1, <1>2
<1>4. TypeOK'
  BY <1>1, <1>3 DEF TableInv, TypeOK
<1>5. TableExact' /\ HandlesApart' /\ OverrunOnlyCrowded'
  BY <1>1 DEF TableInv, TableExact, HandlesApart, Open, Opened, OverrunOnlyCrowded, Sound
<1>6. KnotesOwned'
  BY <1>1, <1>2 DEF KnotesOwned
<1> QED  BY <1>4, <1>5, <1>6 DEF TableInv

LEMMA InitHolds == ASSUME Init PROVE TableInv
<1> USE TableAssumption
<1>1. TypeOK
  <2>1. Blank \in [ident : Handles \cup {NoHandle}, udata : Handlers \cup {NoHandler}]
    BY DEF Blank, Entry
  <2>2. changes \in [Entries -> [ident : Handles \cup {NoHandle}, udata : Handlers \cup {NoHandler}]]
    BY <2>1 DEF Init
  <2>3. index \in -1 .. EventsLength + 1 /\ index >= 0 /\ index <= EventsLength
    <3>1. index = 0
      BY DEF Init
    <3> QED  BY <3>1
  <2>4. /\ handle \in [Handlers -> Handles \cup {NoHandle}]
        /\ knotes \in [Handles -> Handlers \cup {NoHandler}]
    BY DEF Init
  <2>5. failed \in BOOLEAN /\ overrun \in BOOLEAN
    BY DEF Init
  <2> QED  BY <2>2, <2>3, <2>4, <2>5 DEF TypeOK
<1>2. TableExact /\ HandlesApart /\ KnotesOwned
  BY DEF Init, TableExact, HandlesApart, KnotesOwned, Open
<1>3. OverrunOnlyCrowded
  <2>1. Opened = {}
    BY DEF Init, Opened, Open
  <2>2. Cardinality(Opened) = 0
    BY <2>1, FS_EmptySet
  <2> QED  BY <2>2 DEF Init, OverrunOnlyCrowded
<1> QED  BY <1>1, <1>2, <1>3 DEF TableInv

\* The invariant of the table, from which the theorems below follow.
THEOREM TableInvariance == Spec => []TableInv
<1>1. Init => TableInv
  BY InitHolds
<1>2. TableInv /\ [Next]_vars => TableInv'
  <2> SUFFICES ASSUME TableInv, [Next]_vars PROVE TableInv'
    OBVIOUS
  <2>1. ASSUME NEW h \in Handlers, NEW f \in Handles, Add(h, f) PROVE TableInv'
    BY <2>1, AddKeepsInTable, AddKeepsBehind
  <2>2. ASSUME NEW h \in Handlers, Close(h) PROVE TableInv'
    BY <2>2, CloseKeeps
  <2>3. ASSUME NEW h \in Acceptors, OpenFails(h) PROVE TableInv'
    BY <2>3, OpenFailsKeeps
  <2>4. CASE Wait
    BY <2>4, WaitKeeps
  <2>5. CASE UNCHANGED vars
    BY <2>5 DEF vars, TableInv, TypeOK, TableExact, HandlesApart, KnotesOwned, Open, Opened,
                OverrunOnlyCrowded, Sound
  <2> QED  BY <2>1, <2>2, <2>3, <2>4, <2>5 DEF Next
<1> QED  BY <1>1, <1>2, PTL DEF Spec

\* The variables keep their types.
THEOREM TypeCorrect == Spec => []TypeOK
BY TableInvariance, PTL DEF TableInv

\* wsgi_kqueue_add writes behind the table exactly if more handlers are open
\* than the table has entries, however many of either there are.
THEOREM OverrunsWhenCrowded == Spec => []OverrunOnlyCrowded
BY TableInvariance, PTL DEF TableInv

\* With as many entries as listeners and connections, as in conf/wsgi.yaml and
\* not by default, it never does.
THEOREM EntriesForAll ==
  ASSUME Cardinality(Handlers) <= EventsLength
  PROVE  Spec => []WritesInTable
<1>1. TableInv => WritesInTable
  <2> SUFFICES ASSUME TableInv PROVE ~overrun
    BY DEF WritesInTable
  <2>1. PICK n \in Nat : n = Cardinality(Opened)
    BY TableAssumption, FS_Subset, FS_CardinalityType DEF Opened
  <2>2. n <= Cardinality(Handlers) /\ Cardinality(Handlers) \in Nat
    BY <2>1, TableAssumption, FS_Subset, FS_CardinalityType DEF Opened
  <2>3. ~(n > EventsLength)
    BY <2>2, TableAssumption
  <2> QED  BY <2>1, <2>3 DEF TableInv, OverrunOnlyCrowded
<1> QED  BY <1>1, TableInvariance, PTL

\* The table names each open handler once, and nobody else.
THEOREM TableIsExact == Spec => []TableExact
BY TableInvariance, PTL DEF TableInv

\* The kernel tells of a descriptor only the handler that has it.
THEOREM KnotesAreOwned == Spec => []KnotesOwned
BY TableInvariance, PTL DEF TableInv

\* wsgi_kqueue_wait gives the kernel every open handler.
THEOREM WaitsWatchAll == Spec => WaitWatchesAll
<1> DEFINE Watched == Wait => \A h \in Handlers : Open(h) => knotes'[handle[h]] = h
<1>1. TableInv /\ [Next]_vars => [Watched]_vars
  <2> SUFFICES ASSUME TableInv, Wait, NEW h \in Handlers, Open(h)
               PROVE  knotes'[handle[h]] = h
    OBVIOUS
  <2>1. Sound /\ handle[h] \in Handles
    BY DEF Wait, TableInv, TypeOK, Open
  <2>2. PICK i \in 0 .. index - 1 : changes[i].udata = h
    BY <2>1 DEF TableInv, TableExact
  <2>3. changes[i] \in Given /\ changes[i].ident = handle[h]
    BY <2>1, <2>2 DEF Given, TableInv, TableExact
  <2>4. PICK d \in Given : knotes'[handle[h]] = d.udata /\ d.ident = handle[h]
    BY <2>1, <2>3 DEF Wait
  <2>5. d.udata \in Handlers /\ handle[d.udata] = handle[h]
    BY <2>1, <2>4, GivenOwned
  <2>6. d.udata = h
    BY <2>5 DEF TableInv, HandlesApart, Open
  <2> QED  BY <2>4, <2>6
<1> QED  BY <1>1, TableInvariance, PTL DEF Spec, WaitWatchesAll
=============================================================================
