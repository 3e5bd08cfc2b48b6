------------------------- MODULE EventServerProofs --------------------------
(***************************************************************************)
(* Theorems about the running server for any number of clients, listeners  *)
(* and connections, either event queue and any number of failed calls.     *)
(***************************************************************************)
EXTENDS EventServer, FiniteSetTheorems, FunctionTheorems, TLAPS

-----------------------------------------------------------------------------
(* What the operations of the pool do to the set of items in it, for every    *)
(* capacity.                                                                  *)

LEMMA ItemsCardinality == IsFiniteSet(Items) /\ Cardinality(Items) = Capacity
<1>1. 0 \in Int /\ Capacity - 1 \in Int /\ ~(0 > Capacity - 1) /\ (Capacity - 1) - 0 + 1 = Capacity
  BY CapacityAssumption
<1>2. IsFiniteSet(0 .. Capacity - 1) /\ Cardinality(0 .. Capacity - 1) = Capacity
  BY <1>1, FS_Interval
<1> QED  BY <1>2 DEF Items

\* wsgi_pool_init puts every item in the pool once.
LEMMA PoolInitFull ==
  ASSUME PoolInit
  PROVE  PoolTypeOK /\ Distinct /\ \A k \in Items : InPool(k)
<1>1. PoolTypeOK /\ Distinct
  BY CapacityAssumption DEF PoolInit, PoolTypeOK, Distinct, Items
<1>2. ASSUME NEW k \in Items PROVE InPool(k)
  <2>1. k \in 0 .. freeCount - 1 /\ free[k] = k
    BY CapacityAssumption DEF PoolInit, Items
  <2> QED  BY <2>1 DEF InPool
<1> QED  BY <1>1, <1>2

\* wsgi_pool_acquire takes one item out, the one it returns.
LEMMA AcquireTakesTop ==
  ASSUME PoolTypeOK, Distinct, Acquire
  PROVE  /\ PoolTypeOK' /\ Distinct'
         /\ TopItem \in Items /\ InPool(TopItem)
         /\ \A k \in Items : InPool(k)' <=> InPool(k) /\ k # TopItem
<1> DEFINE top == freeCount - 1
<1>1. /\ freeCount \in 1 .. Capacity /\ freeCount' = top /\ free' = free
      /\ free \in [Items -> Items] /\ top \in Items
      /\ \A i \in 0 .. top - 1 : i \in Items /\ i # top /\ i \in 0 .. top
      /\ \A i \in 0 .. top : i = top \/ i \in 0 .. top - 1
  BY CapacityAssumption DEF PoolTypeOK, Acquire, Exhausted, Items
<1>2. PoolTypeOK'
  BY <1>1, CapacityAssumption DEF PoolTypeOK, Items
<1>3. Distinct'
  BY <1>1 DEF Distinct
<1>4. TopItem \in Items /\ InPool(TopItem)
  BY <1>1 DEF TopItem, InPool
<1>5. ASSUME NEW k \in Items
      PROVE  InPool(k)' <=> InPool(k) /\ k # TopItem
  <2>1. CASE InPool(k)'
    <3>1. PICK i \in 0 .. top - 1 : free[i] = k
      BY <2>1, <1>1 DEF InPool
    <3>2. free[i] # free[top]
      BY <1>1 DEF Distinct
    <3> QED  BY <3>1, <3>2, <1>1, <2>1 DEF InPool, TopItem
  <2>2. CASE InPool(k) /\ k # TopItem
    <3>1. PICK i \in 0 .. top : free[i] = k
      BY <2>2 DEF InPool
    <3>2. i \in 0 .. top - 1
      BY <3>1, <2>2, <1>1 DEF TopItem
    <3> QED  BY <3>1, <3>2, <1>1, <2>2 DEF InPool
  <2> QED  BY <2>1, <2>2
<1> QED  BY <1>2, <1>3, <1>4, <1>5

\* A pool that lacks an item is not full: its cells hold distinct items.
LEMMA LackingNotFull ==
  ASSUME PoolTypeOK, Distinct, NEW k \in Items, ~InPool(k)
  PROVE  freeCount < Capacity
<1> SUFFICES ASSUME freeCount = Capacity PROVE FALSE
  BY CapacityAssumption DEF PoolTypeOK
<1> DEFINE Others == Items \ {k}
<1>1. IsFiniteSet(Items) /\ Cardinality(Items) = Capacity
  BY ItemsCardinality
<1>2. IsFiniteSet(Others) /\ Cardinality(Others) < Cardinality(Items)
  BY <1>1, FS_RemoveElement, CapacityAssumption
<1>3. free \in [Items -> Others]
  <2>1. free \in [Items -> Items]
    BY DEF PoolTypeOK
  <2>2. \A i \in Items : free[i] # k
    BY DEF InPool, Items
  <2> QED  BY <2>1, <2>2
<1>4. \E x, y \in Items : x # y /\ free[x] = free[y]
  BY <1>1, <1>2, <1>3, FS_PigeonHole
<1> QED  BY <1>4 DEF Distinct, Items

\* wsgi_pool_get_back of an item that is not in the pool puts it there; the
\* branch that reports an excessive item is not taken.
LEMMA GetBackPuts ==
  ASSUME PoolTypeOK, Distinct, NEW k \in Items, ~InPool(k), GetBack(k)
  PROVE  /\ PoolTypeOK' /\ Distinct'
         /\ \A j \in Items : InPool(j)' <=> InPool(j) \/ j = k
<1>0. freeCount < Capacity /\ freeCount \in Nat
  BY LackingNotFull, CapacityAssumption DEF PoolTypeOK
<1>1. /\ freeCount \in Items
      /\ free' = [free EXCEPT ![freeCount] = k] /\ freeCount' = freeCount + 1
      /\ free \in [Items -> Items]
      /\ \A i \in 0 .. freeCount - 1 : i \in Items /\ i # freeCount /\ i \in 0 .. freeCount
      /\ \A i \in 0 .. freeCount : i = freeCount \/ i \in 0 .. freeCount - 1
  <2>1. freeCount # Capacity
    BY <1>0
  <2>2. free' = [free EXCEPT ![freeCount] = k] /\ freeCount' = freeCount + 1
    BY <2>1 DEF GetBack
  <2>3. free \in [Items -> Items]
    BY DEF PoolTypeOK
  <2>4. /\ freeCount \in Items
        /\ \A i \in 0 .. freeCount - 1 : i \in Items /\ i # freeCount /\ i \in 0 .. freeCount
        /\ \A i \in 0 .. freeCount : i = freeCount \/ i \in 0 .. freeCount - 1
    BY <1>0, CapacityAssumption DEF Items
  <2> QED  BY <2>2, <2>3, <2>4
<1>2. PoolTypeOK'
  BY <1>1, CapacityAssumption, SMTT(30) DEF PoolTypeOK, Items
<1>3. free'[freeCount] = k /\ \A i \in 0 .. freeCount - 1 : free'[i] = free[i] /\ free[i] # k
  BY <1>1 DEF InPool
<1>4. freeCount' - 1 = freeCount
  BY <1>1 DEF Items
<1>5. Distinct'
  BY <1>1, <1>3, <1>4 DEF Distinct
<1>6. ASSUME NEW j \in Items
      PROVE  InPool(j)' <=> InPool(j) \/ j = k
  <2>1. freeCount \in 0 .. freeCount
    BY <1>1 DEF Items
  <2> QED  BY <1>1, <1>3, <1>4, <2>1 DEF InPool
<1> QED  BY <1>2, <1>5, <1>6

\* A pool that holds every item is full.
LEMMA AllInPoolFull ==
  ASSUME PoolTypeOK, \A k \in Items : InPool(k)
  PROVE  freeCount = Capacity
<1> DEFINE Cells == 0 .. freeCount - 1
           f == [i \in Cells |-> free[i]]
<1>1. /\ IsFiniteSet(Cells) /\ Cardinality(Cells) = freeCount
      /\ Cardinality(Items) = Capacity
  <2>1. /\ freeCount \in Nat /\ 0 \in Int /\ freeCount - 1 \in Int
        /\ 0 > freeCount - 1 => freeCount = 0
        /\ (freeCount - 1) - 0 + 1 = freeCount
    BY CapacityAssumption DEF PoolTypeOK
  <2> QED  BY <2>1, FS_Interval, ItemsCardinality
<1>2. f \in Surjection(Cells, Items)
  <2>1. Cells \subseteq Items /\ free \in [Items -> Items]
    BY CapacityAssumption DEF PoolTypeOK, Items
  <2>2. f \in [Cells -> Items]
    BY <2>1
  <2>3. \A k \in Items : \E i \in Cells : f[i] = k
    BY DEF InPool
  <2> QED  BY <2>2, <2>3 DEF Surjection
<1>3. Capacity <= freeCount
  BY <1>1, <1>2, FS_Surjection
<1> QED  BY <1>3, CapacityAssumption DEF PoolTypeOK

-----------------------------------------------------------------------------
(* The server. *)

LEMMA NoneNotIn == /\ None \notin Clients /\ None \notin Servers /\ None \notin Items
                   /\ Servers \cap Items = {} /\ Servers \cap Clients = {}
                   /\ Clients \cap Items = {}
BY ServerAssumption, CapacityAssumption DEF Items, None

\* The state wsgi_cycle_init leaves satisfies the invariant.
LEMMA InitInv == Init => ServerInv
<1> SUFFICES ASSUME Init PROVE ServerInv
  OBVIOUS
<1>1. PoolTypeOK /\ Distinct /\ \A k \in Items : InPool(k)
  BY PoolInitFull DEF Init
<1>2. TypeOK
  <2>1. shutdown \in BOOLEAN
    BY DEF Init
  <2> QED  BY <1>1, <2>1, CapacityAssumption, ServerAssumption DEF Init, TypeOK, PcSet
<1>3. PoolExact
  BY <1>1 DEF Init, PoolExact, Taken
<1>4. StreamOwned /\ WatchExact
  BY NoneNotIn DEF Init, StreamOwned, WatchExact
<1>5. NoStaleEvent /\ BatchInv /\ HandlerInv
  BY DEF Init, NoStaleEvent, BatchInv, HandlerInv
<1> QED  BY <1>2, <1>3, <1>4, <1>5 DEF ServerInv

\* wsgi_connection_close of a connection that is open and registered, and for
\* which no event is pending, keeps pool, streams and registrations in step.
LEMMA CloseKeeps ==
  ASSUME ServerInv, NEW k \in Items, NEW left \in {"clean", "gone"}, Close(k, left),
         sockfd[k] # None, pc \in {"open", "recv", "receiving", "drain"},
         pc' \in {"dispatch", "drain"},
         UNCHANGED <<batch, listening>>,
         \A ev \in batch : ev.handler # k
  PROVE  /\ PoolTypeOK' /\ PoolExact' /\ StreamOwned' /\ WatchExact' /\ NoStaleEvent'
         /\ sockfd' \in [Items -> Clients \cup {None}]
         /\ arena' \in [Items -> {"clean", "dirty", "gone"}]
         /\ phase' \in [Clients -> {"idle", "queued", "accepted", "closed"}]
         /\ watch' \in [Clients -> Items \cup {None}]
         /\ ready' \subseteq Servers \cup Clients
<1> DEFINE c == sockfd[k]
<1> USE DEF ServerInv
<1>1. /\ c \in Clients /\ watch[c] = k /\ phase[c] = "accepted"
      /\ \A j \in Items : sockfd[j] = c => j = k
  BY DEF TypeOK, StreamOwned, WatchExact
<1>2. /\ watch' = [watch EXCEPT ![c] = None] /\ ready' = ready \ {c}
      /\ phase' = [phase EXCEPT ![c] = "closed"]
      /\ sockfd' = [sockfd EXCEPT ![k] = None]
      /\ GetBack(k) /\ arena' = [arena EXCEPT ![k] = left]
  BY DEF Close
<1>3. /\ sockfd' \in [Items -> Clients \cup {None}]
      /\ arena' \in [Items -> {"clean", "dirty", "gone"}]
      /\ phase' \in [Clients -> {"idle", "queued", "accepted", "closed"}]
      /\ watch' \in [Clients -> Items \cup {None}]
      /\ ready' \subseteq Servers \cup Clients
  BY <1>1, <1>2 DEF TypeOK
<1>4. /\ PoolTypeOK' /\ Distinct'
      /\ \A j \in Items : InPool(j)' <=> InPool(j) \/ j = k
  <2>1. PoolTypeOK /\ Distinct /\ ~InPool(k)
    BY DEF TypeOK, PoolExact
  <2> QED  BY <2>1, <1>2, GetBackPuts
<1>5. PoolExact'
  BY <1>2, <1>4 DEF PoolExact, Taken, TypeOK
<1>6. StreamOwned'
  BY <1>1, <1>2, NoneNotIn DEF StreamOwned, TypeOK
<1>7. WatchExact'
  BY <1>1, <1>2, NoneNotIn DEF WatchExact, TypeOK
<1>8. NoStaleEvent'
  BY <1>1, <1>2, NoneNotIn DEF NoStaleEvent, TypeOK
<1> QED  BY <1>3, <1>4, <1>5, <1>6, <1>7, <1>8

\* A step of a client leaves alone everything but the receive queues, the
\* accept queues and the edges.
LEMMA OutsideKeeps ==
  ASSUME ServerInv,
         UNCHANGED <<free, freeCount, pc, cur, srv, batch, sockfd, acceptor, listening, watch>>,
         \A c \in Clients : phase'[c] = "accepted" <=> phase[c] = "accepted"
  PROVE  /\ PoolExact' /\ StreamOwned' /\ WatchExact' /\ NoStaleEvent'
         /\ BatchInv' /\ HandlerInv'
<1> USE DEF ServerInv
<1>1. PoolExact'
  BY DEF PoolExact, Taken, Distinct, InPool
<1>2. StreamOwned' /\ WatchExact'
  BY DEF StreamOwned, WatchExact
<1>3. NoStaleEvent' /\ BatchInv' /\ HandlerInv'
  BY DEF NoStaleEvent, BatchInv, HandlerInv
<1> QED  BY <1>1, <1>2, <1>3

\* A step of the thread that touches no connection and no registration, and
\* is not about to: at most it takes events out of the batch.
LEMMA ThreadKeeps ==
  ASSUME ServerInv,
         UNCHANGED <<free, freeCount, sockfd, acceptor, listening, watch, phase>>,
         pc \notin {"accept", "register"}, pc' \notin {"accept", "register"},
         batch' \subseteq batch
  PROVE  PoolExact' /\ StreamOwned' /\ WatchExact' /\ NoStaleEvent'
<1> USE DEF ServerInv
<1>1. PoolExact'
  BY DEF PoolExact, Taken, Distinct, InPool
<1>2. StreamOwned' /\ WatchExact' /\ NoStaleEvent'
  BY DEF StreamOwned, WatchExact, NoStaleEvent
<1> QED  BY <1>1, <1>2

\* The steps of the clients.
LEMMA ClientInv ==
  ASSUME ServerInv, NEW c \in Clients, Connect(c) \/ Speak(c)
  PROVE  ServerInv'
<1> USE DEF ServerInv
<1>1. CASE Connect(c)
  <2>1. TypeOK'
    BY <1>1, ServerAssumption
    DEF TypeOK, PoolTypeOK, Connect, Edge, Registered, poolVars, threadVars, connVars
  <2>2. \A d \in Clients : phase'[d] = "accepted" <=> phase[d] = "accepted"
    BY <1>1 DEF TypeOK, Connect
  <2> QED  BY <1>1, <2>1, <2>2, OutsideKeeps DEF Connect, poolVars, threadVars, connVars
<1>2. ASSUME NEW n \in 1 .. MaxQueue, Send(c, n) PROVE ServerInv'
  <2>1. TypeOK'
    BY <1>2, ServerAssumption
    DEF TypeOK, PoolTypeOK, Send, Edge, Registered, poolVars, threadVars, connVars
  <2> QED  BY <1>2, <2>1, OutsideKeeps DEF Send, poolVars, threadVars, connVars
<1>3. CASE Fin(c)
  <2>1. TypeOK'
    BY <1>3 DEF TypeOK, PoolTypeOK, Fin, Edge, Registered, poolVars, threadVars, connVars
  <2> QED  BY <1>3, <2>1, OutsideKeeps DEF Fin, poolVars, threadVars, connVars
<1>4. CASE Reset(c)
  <2>1. TypeOK'
    BY <1>4 DEF TypeOK, PoolTypeOK, Reset, Edge, Registered, poolVars, threadVars, connVars
  <2> QED  BY <1>4, <2>1, OutsideKeeps DEF Reset, poolVars, threadVars, connVars
<1> QED  BY <1>1, <1>2, <1>3, <1>4 DEF Speak

\* The steps of the reactor's loop.
LEMMA LoopInv ==
  ASSUME ServerInv, CheckShutdown \/ WaitBlocks \/ WaitFails \/ BatchDone
  PROVE  ServerInv'
<1> USE DEF ServerInv
<1>1. TypeOK'
  BY ServerAssumption
  DEF TypeOK, PcSet, PoolTypeOK, CheckShutdown, WaitBlocks, WaitFails, Fault, BatchDone,
      poolVars, connVars, kernelVars
<1>2. PoolExact' /\ StreamOwned' /\ WatchExact' /\ NoStaleEvent'
  BY ThreadKeeps
  DEF CheckShutdown, WaitBlocks, WaitFails, BatchDone, poolVars, connVars, kernelVars
<1>3. BatchInv' /\ HandlerInv'
  BY DEF BatchInv, HandlerInv, CheckShutdown, WaitBlocks, WaitFails, BatchDone,
         poolVars, connVars, kernelVars
<1> QED  BY <1>1, <1>2, <1>3

\* What a wait reports is registered, with the pointer it was registered with.
LEMMA WaitReturnsInv ==
  ASSUME ServerInv, WaitReturns
  PROVE  ServerInv'
<1> USE DEF ServerInv
<1>0. PICK events \in SUBSET Live :
        /\ batch' = {[file |-> f, handler |-> Handler(f)] : f \in events}
        /\ ready' = ready \ events
  BY DEF WaitReturns
<1>1. /\ pc \in {"wait", "waiting"} /\ pc' = "dispatch"
      /\ UNCHANGED <<free, freeCount, cur, srv, sockfd, acceptor, last, arena, shutdown,
                     listening, phase, rcvq, peerEnd, watch, faults>>
  BY DEF WaitReturns, poolVars, connVars, streamVars
<1>2. ASSUME NEW f \in events
      PROVE  \/ f \in Servers /\ f \in listening /\ Handler(f) = f
             \/ f \in Clients /\ Handler(f) = watch[f] /\ watch[f] \in Items
  BY NoneNotIn DEF Live, Registered, Handler, TypeOK
<1>3. TypeOK'
  BY <1>0, <1>1, <1>2 DEF TypeOK, PcSet, PoolTypeOK
<1>4. PoolExact' /\ StreamOwned' /\ WatchExact'
  BY <1>1 DEF PoolExact, Taken, Distinct, InPool, StreamOwned, WatchExact
<1>5. NoStaleEvent'
  <2> SUFFICES ASSUME NEW ev \in batch'
               PROVE  \/ ev.file \in listening' /\ ev.handler = ev.file
                      \/ /\ ev.handler \in Items /\ sockfd'[ev.handler] = ev.file
                         /\ watch'[ev.file] = ev.handler
    BY DEF NoStaleEvent
  <2>1. PICK f \in events : ev = [file |-> f, handler |-> Handler(f)]
    BY <1>0
  <2>2. ev.file = f /\ ev.handler = Handler(f)
    BY <2>1
  <2>3. f \in Clients /\ watch[f] \in Items => sockfd[watch[f]] = f
    BY DEF WatchExact
  <2> QED  BY <1>1, <1>2, <2>2, <2>3
<1>6. BatchInv' /\ HandlerInv'
  BY <1>1 DEF BatchInv, HandlerInv
<1> QED  BY <1>3, <1>4, <1>5, <1>6

\* Dispatching a listener's event takes an item that is in use by nobody.
LEMMA HandleAcceptInv ==
  ASSUME ServerInv, NEW ev \in batch, HandleAccept(ev)
  PROVE  ServerInv'
<1> USE DEF ServerInv
<1>0. /\ pc = "dispatch" /\ ev.handler \in Servers /\ srv' = ev.handler
      /\ batch' \subseteq batch
      /\ UNCHANGED <<sockfd, acceptor, last, arena, shutdown, listening, phase, rcvq,
                     peerEnd, watch, ready, faults>>
  BY DEF HandleAccept, connVars, kernelVars
<1>1. StreamOwned' /\ NoStaleEvent'
  BY <1>0 DEF StreamOwned, NoStaleEvent
<1>2. CASE pc' = "drop" /\ UNCHANGED <<free, freeCount, cur>>
  <2>1. TypeOK'
    BY <1>0, <1>2 DEF TypeOK, PcSet, PoolTypeOK
  <2>2. PoolExact' /\ WatchExact'
    BY <1>0, <1>2 DEF PoolExact, Taken, Distinct, InPool, WatchExact
  <2>3. BatchInv' /\ HandlerInv'
    BY <1>0, <1>2 DEF BatchInv, HandlerInv
  <2> QED  BY <1>1, <2>1, <2>2, <2>3
<1>3. CASE Acquire /\ cur' = TopItem /\ pc' = "accept"
  <2>1. /\ PoolTypeOK' /\ Distinct' /\ TopItem \in Items /\ InPool(TopItem)
        /\ \A k \in Items : InPool(k)' <=> InPool(k) /\ k # TopItem
    BY <1>3, AcquireTakesTop DEF TypeOK, PoolExact
  <2>2. sockfd[TopItem] = None
    BY <2>1 DEF PoolExact
  <2>3. TypeOK'
    BY <1>0, <1>3, <2>1, CapacityAssumption DEF TypeOK, PcSet, Items
  <2>4. PoolExact' /\ WatchExact'
    BY <1>0, <1>3, <2>1 DEF PoolExact, Taken, WatchExact
  <2>5. BatchInv' /\ HandlerInv'
    BY <1>0, <1>3, <2>1, <2>2 DEF BatchInv, HandlerInv
  <2> QED  BY <1>1, <2>3, <2>4, <2>5
<1> QED  BY <1>2, <1>3 DEF HandleAccept, poolVars

\* The branch of the acceptor that drops the client touches no connection.
LEMMA DropInv ==
  ASSUME ServerInv, Drop \/ DropFails
  PROVE  ServerInv'
<1> USE DEF ServerInv
<1>1. CASE Drop
  <2>1. TypeOK'
    BY <1>1 DEF TypeOK, PcSet, PoolTypeOK, Drop, Backlog, poolVars, connVars
  <2>2. PoolExact' /\ StreamOwned' /\ WatchExact' /\ NoStaleEvent'
    BY <1>1 DEF PoolExact, Taken, Distinct, InPool, StreamOwned, WatchExact, NoStaleEvent,
                Drop, Backlog, TypeOK, poolVars, connVars
  <2>3. BatchInv' /\ HandlerInv'
    BY <1>1 DEF BatchInv, HandlerInv, Drop, connVars
  <2> QED  BY <2>1, <2>2, <2>3
<1>2. CASE DropFails
  <2>1. TypeOK'
    BY <1>2, ServerAssumption
    DEF TypeOK, PcSet, PoolTypeOK, DropFails, Fault, poolVars, connVars, kernelVars
  <2>2. PoolExact' /\ StreamOwned' /\ WatchExact' /\ NoStaleEvent'
    BY <1>2, ThreadKeeps DEF DropFails, poolVars, connVars, kernelVars
  <2>3. BatchInv' /\ HandlerInv'
    BY <1>2 DEF BatchInv, HandlerInv, DropFails, connVars
  <2> QED  BY <2>1, <2>2, <2>3
<1> QED  BY <1>1, <1>2

\* The accepted stream goes to the item in hand; nobody had it before.
LEMMA AcceptInv ==
  ASSUME ServerInv, Accept
  PROVE  ServerInv'
<1> USE DEF ServerInv
<1>0. PICK c \in Backlog(srv) :
        /\ phase' = [phase EXCEPT ![c] = "accepted"]
        /\ sockfd' = [sockfd EXCEPT ![cur] = c]
  BY DEF Accept
<1>1. /\ pc = "accept" /\ pc' = "register" /\ cur \in Items /\ sockfd[cur] = None
      /\ srv \in Servers /\ arena' = [arena EXCEPT ![cur] = "dirty"]
      /\ UNCHANGED <<free, freeCount, cur, srv, batch, acceptor, last, shutdown, listening,
                     rcvq, peerEnd, watch, ready, faults>>
  BY DEF Accept, HandlerInv, poolVars
<1>2. /\ c \in Clients /\ phase[c] = "queued" /\ watch[c] \notin Items
      /\ \A k \in Items : sockfd[k] # c
  BY DEF Backlog, StreamOwned, WatchExact
<1>3. /\ TypeOK'
      /\ \A k \in Items : sockfd'[k] = IF k = cur THEN c ELSE sockfd[k]
  BY <1>0, <1>1, <1>2 DEF TypeOK, PcSet, PoolTypeOK
<1>4. PoolExact'
  BY <1>1, <1>2, <1>3, NoneNotIn DEF PoolExact, Taken, Distinct, InPool
<1>5. StreamOwned'
  BY <1>0, <1>1, <1>2, <1>3, NoneNotIn DEF StreamOwned, TypeOK
<1>6. WatchExact'
  BY <1>1, <1>2, <1>3, NoneNotIn DEF WatchExact
<1>7. NoStaleEvent'
  <2>1. ASSUME NEW ev \in batch, ev.handler \in Items, sockfd[ev.handler] = ev.file
        PROVE  sockfd'[ev.handler] = ev.file
    <3>1. ev.file # None
      BY NoneNotIn DEF TypeOK
    <3> QED  BY <1>1, <1>3, <2>1, <3>1
  <2> QED  BY <1>1, <2>1 DEF NoStaleEvent
<1>8. BatchInv' /\ HandlerInv'
  BY <1>1, <1>2, <1>3, NoneNotIn DEF BatchInv, HandlerInv
<1> QED  BY <1>3, <1>4, <1>5, <1>6, <1>7, <1>8

\* The item that was taken for nothing goes back.
LEMMA AcceptFailsInv ==
  ASSUME ServerInv, AcceptFails
  PROVE  ServerInv'
<1> USE DEF ServerInv
<1>1. /\ pc = "accept" /\ pc' \in {"dispatch", "crashed"} /\ cur \in Items /\ sockfd[cur] = None
      /\ arena' = [arena EXCEPT ![cur] = "clean"] /\ faults' \in 0 .. MaxFaults
      /\ UNCHANGED <<cur, srv, batch, sockfd, acceptor, last, shutdown, listening, phase,
                     rcvq, peerEnd, watch, ready>>
  BY ServerAssumption DEF AcceptFails, HandlerInv, kernelVars, Fault, TypeOK
<1>2. PoolTypeOK /\ Distinct /\ ~InPool(cur)
  BY <1>1 DEF TypeOK, PoolExact, Taken
<1>3. GetBack(cur)
  BY DEF AcceptFails
<1>4. PoolTypeOK' /\ Distinct' /\ \A j \in Items : InPool(j)' <=> InPool(j) \/ j = cur
  BY <1>1, <1>2, <1>3, GetBackPuts
<1>5. TypeOK'
  BY <1>1, <1>4 DEF TypeOK, PcSet
<1>6. PoolExact'
  BY <1>1, <1>4 DEF PoolExact, Taken
<1>7. StreamOwned' /\ WatchExact' /\ NoStaleEvent'
  BY <1>1 DEF StreamOwned, WatchExact, NoStaleEvent
<1>8. BatchInv' /\ HandlerInv'
  BY <1>1 DEF BatchInv, HandlerInv
<1> QED  BY <1>5, <1>6, <1>7, <1>8

\* From here on the stream's events carry the connection that owns it.
LEMMA RegisterInv ==
  ASSUME ServerInv, Register
  PROVE  ServerInv'
<1> USE DEF ServerInv
<1> DEFINE c == sockfd[cur]
<1>1. /\ pc = "register" /\ pc' = "open" /\ cur \in Items /\ c # None /\ srv \in Servers
      /\ watch' = [watch EXCEPT ![c] = cur]
      /\ acceptor' = [acceptor EXCEPT ![cur] = srv]
      /\ UNCHANGED <<free, freeCount, cur, srv, batch, sockfd, last, arena, shutdown,
                     listening, phase, rcvq, peerEnd, faults>>
  BY DEF Register, HandlerInv, poolVars, streamVars
<1>2. /\ c \in Clients /\ watch[c] \notin Items
      /\ \A k \in Items : sockfd[k] = c => k = cur
  <2>1. c \in Clients
    BY <1>1 DEF TypeOK
  <2>2. \A k \in Items : sockfd[k] = c => k = cur
    BY <1>1 DEF StreamOwned
  <2>3. \A k \in Items : watch[c] # k
    BY <1>1, <2>1, <2>2 DEF WatchExact
  <2> QED  BY <2>1, <2>2, <2>3
<1>3. ready' \subseteq Servers \cup Clients
  BY <1>2 DEF Register, TypeOK
<1>4. TypeOK'
  BY <1>1, <1>2, <1>3 DEF TypeOK, PcSet, PoolTypeOK
<1>5. PoolExact' /\ StreamOwned'
  BY <1>1 DEF PoolExact, Taken, Distinct, InPool, StreamOwned
<1>6. WatchExact'
  BY <1>1, <1>2, NoneNotIn DEF WatchExact, TypeOK
<1>7. \A ev \in batch : ev.handler # cur /\ ev.file # c
  BY <1>1, <1>2, NoneNotIn DEF NoStaleEvent, TypeOK, WatchExact
<1>8. NoStaleEvent'
  BY <1>1, <1>7 DEF NoStaleEvent, TypeOK
<1>9. BatchInv' /\ HandlerInv'
  BY <1>1, <1>7 DEF BatchInv, HandlerInv, TypeOK
<1> QED  BY <1>4, <1>5, <1>6, <1>8, <1>9

\* The stream is closed before anybody was told to watch it.
LEMMA RegisterFailsInv ==
  ASSUME ServerInv, RegisterFails
  PROVE  ServerInv'
<1> USE DEF ServerInv
<1> DEFINE c == sockfd[cur]
<1>1. /\ pc = "register" /\ pc' = "dispatch" /\ cur \in Items /\ c # None
      /\ phase' = [phase EXCEPT ![c] = "closed"]
      /\ sockfd' = [sockfd EXCEPT ![cur] = None]
      /\ arena' = [arena EXCEPT ![cur] = "clean"] /\ faults' \in 0 .. MaxFaults
      /\ UNCHANGED <<cur, srv, batch, acceptor, last, shutdown, listening, rcvq, peerEnd,
                     watch, ready>>
  BY ServerAssumption DEF RegisterFails, HandlerInv, Fault, TypeOK
<1>2. /\ c \in Clients /\ watch[c] \notin Items
      /\ \A k \in Items : sockfd[k] = c => k = cur
  <2>1. c \in Clients
    BY <1>1 DEF TypeOK
  <2>2. \A k \in Items : sockfd[k] = c => k = cur
    BY <1>1 DEF StreamOwned
  <2>3. \A k \in Items : watch[c] # k
    BY <1>1, <2>1, <2>2 DEF WatchExact
  <2> QED  BY <2>1, <2>2, <2>3
<1>3. PoolTypeOK /\ Distinct /\ ~InPool(cur)
  BY <1>1 DEF TypeOK, PoolExact
<1>4. GetBack(cur)
  BY DEF RegisterFails
<1>5. PoolTypeOK' /\ Distinct' /\ \A j \in Items : InPool(j)' <=> InPool(j) \/ j = cur
  BY <1>1, <1>3, <1>4, GetBackPuts
<1>6. /\ TypeOK'
      /\ \A k \in Items : sockfd'[k] = IF k = cur THEN None ELSE sockfd[k]
  BY <1>1, <1>2, <1>5 DEF TypeOK, PcSet
<1>7. PoolExact'
  BY <1>1, <1>5, <1>6 DEF PoolExact, Taken
<1>8. StreamOwned'
  BY <1>1, <1>2, <1>6, NoneNotIn DEF StreamOwned, TypeOK
<1>9. WatchExact' /\ NoStaleEvent'
  BY <1>1, <1>2, <1>6, NoneNotIn DEF WatchExact, NoStaleEvent, TypeOK
<1>10. BatchInv' /\ HandlerInv'
  BY <1>1, <1>6 DEF BatchInv, HandlerInv
<1> QED  BY <1>6, <1>7, <1>8, <1>9, <1>10

\* The steps of a handler that keep the connection it has in hand.
LEMMA HandlerMovesInv ==
  ASSUME ServerInv, Open \/ RecvBlocks
  PROVE  ServerInv'
<1> USE DEF ServerInv
<1>1. TypeOK'
  BY DEF TypeOK, PcSet, PoolTypeOK, Open, RecvBlocks, poolVars, connVars, kernelVars
<1>2. PoolExact' /\ StreamOwned' /\ WatchExact' /\ NoStaleEvent'
  BY ThreadKeeps DEF Open, RecvBlocks, poolVars, connVars, kernelVars
<1>3. BatchInv' /\ HandlerInv'
  BY DEF BatchInv, HandlerInv, Open, RecvBlocks, connVars, kernelVars
<1> QED  BY <1>1, <1>2, <1>3

\* The event that is dispatched was the only one for its connection.
LEMMA HandleReadInv ==
  ASSUME ServerInv, NEW ev \in batch, HandleRead(ev)
  PROVE  ServerInv'
<1> USE DEF ServerInv
<1>1. /\ pc = "dispatch" /\ pc' = "recv" /\ cur' = ev.handler /\ ev.handler \in Items
      /\ batch' = batch \ {ev}
      /\ UNCHANGED <<free, freeCount, srv, sockfd, acceptor, last, arena, shutdown, listening,
                     phase, rcvq, peerEnd, watch, ready, faults>>
  BY DEF HandleRead, poolVars, connVars, kernelVars
<1>2. sockfd[ev.handler] = ev.file /\ ev.file # None
  BY <1>1, NoneNotIn DEF NoStaleEvent, TypeOK
<1>3. TypeOK'
  <2>1. cur' \in 0 .. Capacity
    BY <1>1, CapacityAssumption DEF Items
  <2> QED  BY <1>1, <2>1 DEF TypeOK, PcSet, PoolTypeOK
<1>4. PoolExact' /\ StreamOwned' /\ WatchExact' /\ NoStaleEvent'
  BY <1>1, ThreadKeeps
<1>5. ASSUME NEW e \in batch, e.handler = ev.handler PROVE e = ev
  <2>1. e.file = ev.file
    BY <1>1, <1>2, <1>5, NoneNotIn DEF NoStaleEvent, TypeOK
  <2> QED  BY <2>1, <1>5 DEF TypeOK
<1>6. BatchInv'
  BY <1>1, <1>5 DEF BatchInv
<1>7. HandlerInv'
  BY <1>1, <1>2 DEF HandlerInv
<1> QED  BY <1>3, <1>4, <1>6, <1>7

\* The steps that give up on the connection in hand.
LEMMA GiveUpInv ==
  ASSUME ServerInv, pc \in {"open", "recv", "receiving"}, GiveUp, shutdown' \in BOOLEAN,
         faults' \in 0 .. MaxFaults
  PROVE  ServerInv'
<1> USE DEF ServerInv
<1>1. /\ cur \in Items /\ sockfd[cur] # None /\ \A ev \in batch : ev.handler # cur
      /\ Close(cur, "clean") /\ pc' = "dispatch"
      /\ UNCHANGED <<cur, srv, batch, acceptor, last, listening, rcvq, peerEnd>>
  BY DEF HandlerInv, BatchInv, GiveUp
<1>2. /\ PoolTypeOK' /\ PoolExact' /\ StreamOwned' /\ WatchExact' /\ NoStaleEvent'
      /\ sockfd' \in [Items -> Clients \cup {None}]
      /\ arena' \in [Items -> {"clean", "dirty", "gone"}]
      /\ phase' \in [Clients -> {"idle", "queued", "accepted", "closed"}]
      /\ watch' \in [Clients -> Items \cup {None}]
      /\ ready' \subseteq Servers \cup Clients
  BY <1>1, CloseKeeps
<1>3. TypeOK'
  BY <1>1, <1>2 DEF TypeOK, PcSet
<1>4. BatchInv' /\ HandlerInv'
  BY <1>1 DEF BatchInv, HandlerInv, Close, TypeOK
<1> QED  BY <1>2, <1>3, <1>4

\* A crash leaves everything as it is.
LEMMA DieInv ==
  ASSUME ServerInv, pc \notin {"accept", "register"}, Die, shutdown' \in BOOLEAN,
         faults' \in 0 .. MaxFaults
  PROVE  ServerInv'
<1> USE DEF ServerInv
<1>1. pc' = "crashed" /\ UNCHANGED <<free, freeCount, cur, srv, batch, sockfd, acceptor, last, arena,
                                    listening, phase, rcvq, peerEnd, watch, ready>>
  BY DEF Die, poolVars, connVars, kernelVars
<1>2. TypeOK'
  BY <1>1 DEF TypeOK, PcSet, PoolTypeOK
<1>3. PoolExact' /\ StreamOwned' /\ WatchExact' /\ NoStaleEvent'
  BY <1>1, ThreadKeeps
<1>4. BatchInv' /\ HandlerInv'
  BY <1>1 DEF BatchInv, HandlerInv
<1> QED  BY <1>2, <1>3, <1>4

LEMMA GivesUpInv ==
  ASSUME ServerInv, OpenFails \/ ClosedByPeer \/ RecvError \/ CloseFails
  PROVE  ServerInv'
<1>1. faults' \in 0 .. MaxFaults /\ shutdown' \in BOOLEAN
  BY ServerAssumption
  DEF ServerInv, TypeOK, OpenFails, ClosedByPeer, RecvError, CloseFails, CloseCurrent, Fault, NoFault
<1>2. CASE OpenFails \/ ClosedByPeer
  BY <1>1, <1>2, GiveUpInv DEF OpenFails, ClosedByPeer, CloseCurrent, InRecv
<1>3. CASE RecvError
  BY <1>1, <1>3, GiveUpInv, DieInv DEF RecvError, LogRecvError, InRecv
<1>4. CASE CloseFails
  BY <1>1, <1>4, DieInv DEF CloseFails, InRecv
<1> QED  BY <1>2, <1>3, <1>4

\* A read that got bytes keeps the connection or, when they are refused,
\* closes it.
LEMMA RecvBytesInv ==
  ASSUME ServerInv, RecvBytes
  PROVE  ServerInv'
<1> USE DEF ServerInv
<1> DEFINE n == IF rcvq[Stream] < Room THEN rcvq[Stream] ELSE Room
<1>1. /\ pc \in {"recv", "receiving"} /\ cur \in Items /\ sockfd[cur] # None
      /\ Stream \in Clients /\ \A ev \in batch : ev.handler # cur
  BY DEF RecvBytes, InRecv, HandlerInv, BatchInv, TypeOK, Stream
<1>2. Room \in Int /\ rcvq[Stream] \in Nat /\ last[cur] \in Nat
  <2>1. acceptor[cur] \in Servers
    BY <1>1 DEF HandlerInv
  <2> QED  BY <1>1, <2>1, ServerAssumption DEF Room, TypeOK
<1>3. n \in Nat /\ rcvq[Stream] - n \in Nat
  BY <1>2 DEF RecvBytes
<1>4. /\ rcvq' = [rcvq EXCEPT ![Stream] = @ - n] /\ last' = [last EXCEPT ![cur] = @ + n]
      /\ pc' \in {"dispatch", "recv"}
      /\ UNCHANGED <<cur, srv, batch, acceptor, shutdown, listening, peerEnd, faults>>
  BY DEF RecvBytes, AfterRead
<1>5. rcvq' \in [Clients -> Nat] /\ last' \in [Items -> Nat]
  <2>1. \A d \in Clients : rcvq'[d] = IF d = Stream THEN rcvq[d] - n ELSE rcvq[d]
    BY <1>4 DEF TypeOK
  <2>2. \A k \in Items : last'[k] = IF k = cur THEN last[k] + n ELSE last[k]
    BY <1>4 DEF TypeOK
  <2>3. \A k \in Items : last'[k] \in Nat
    BY <2>2, <1>3 DEF TypeOK
  <2>4. \A d \in Clients : rcvq'[d] \in Nat
    BY <2>1, <1>3 DEF TypeOK
  <2> HIDE DEF n
  <2> QED  BY <2>3, <2>4, <1>4 DEF TypeOK
<1> HIDE DEF n
<1>6. CASE UNCHANGED <<free, freeCount, sockfd, arena, phase, watch, ready>>
  <2>1. TypeOK'
    BY <1>4, <1>5, <1>6 DEF TypeOK, PcSet, PoolTypeOK
  <2>2. PoolExact' /\ StreamOwned' /\ WatchExact' /\ NoStaleEvent'
    BY <1>1, <1>4, <1>6, ThreadKeeps
  <2>3. BatchInv' /\ HandlerInv'
    BY <1>1, <1>4, <1>6 DEF BatchInv, HandlerInv
  <2> QED  BY <2>1, <2>2, <2>3
<1>7. CASE pc' = "dispatch" /\ Close(cur, "clean")
  <2>1. /\ PoolTypeOK' /\ PoolExact' /\ StreamOwned' /\ WatchExact' /\ NoStaleEvent'
        /\ sockfd' \in [Items -> Clients \cup {None}]
        /\ arena' \in [Items -> {"clean", "dirty", "gone"}]
        /\ phase' \in [Clients -> {"idle", "queued", "accepted", "closed"}]
        /\ watch' \in [Clients -> Items \cup {None}]
        /\ ready' \subseteq Servers \cup Clients
    BY <1>1, <1>4, <1>7, CloseKeeps
  <2>2. TypeOK'
    BY <1>4, <1>5, <1>7, <2>1 DEF TypeOK, PcSet
  <2>3. BatchInv' /\ HandlerInv'
    BY <1>1, <1>4, <1>7 DEF BatchInv, HandlerInv, Close, TypeOK
  <2> QED  BY <2>1, <2>2, <2>3
<1> QED  BY <1>6, <1>7 DEF RecvBytes, poolVars

\* A signal sets the flag and may end the wait or the read it interrupts.
LEMMA SignalInv ==
  ASSUME ServerInv, Signal
  PROVE  ServerInv'
<1> USE DEF ServerInv
<1>1. shutdown' \in BOOLEAN
  BY DEF Signal
<1>2. CASE /\ pc = "waiting" /\ pc' = "closing"
           /\ UNCHANGED <<free, freeCount, cur, srv, batch, connVars, kernelVars, faults>>
  <2>1. TypeOK'
    BY <1>1, <1>2 DEF TypeOK, PcSet, PoolTypeOK, connVars, kernelVars
  <2>2. PoolExact' /\ StreamOwned' /\ WatchExact' /\ NoStaleEvent'
    BY <1>2, ThreadKeeps DEF connVars, kernelVars
  <2>3. BatchInv' /\ HandlerInv'
    BY <1>2 DEF BatchInv, HandlerInv, connVars
  <2> QED  BY <2>1, <2>2, <2>3
<1>3. CASE pc = "receiving" /\ LogRecvError
  <2>1. faults' \in 0 .. MaxFaults
    BY DEF Signal, NoFault, TypeOK
  <2> QED  BY <1>1, <1>3, <2>1, GiveUpInv, DieInv DEF LogRecvError
<1>4. CASE UNCHANGED <<free, freeCount, threadVars, connVars, kernelVars, faults>>
  <2>1. TypeOK'
    BY <1>1, <1>4 DEF TypeOK, PoolTypeOK, threadVars, connVars, kernelVars
  <2> QED  BY <2>1, <1>4, OutsideKeeps DEF threadVars, connVars, kernelVars
<1> QED  BY <1>2, <1>3, <1>4 DEF Signal, NoFault, poolVars

\* Closing a listener: no event of it can be pending, the batch is empty.
LEMMA CloseAcceptorInv ==
  ASSUME ServerInv, NEW s \in Servers, CloseAcceptor(s) \/ CloseAcceptorFails(s)
  PROVE  ServerInv'
<1> USE DEF ServerInv
<1>1. /\ pc = "closing" /\ pc' \in {"closing", "aborted", "crashed"} /\ batch = {} /\ batch' = {}
      /\ UNCHANGED <<free, freeCount, cur, srv, sockfd, acceptor, last, arena, shutdown, rcvq,
                     peerEnd, watch>>
  BY DEF CloseAcceptor, CloseAcceptorFails, BatchInv, poolVars, connVars, threadVars
<1>2. /\ listening' \subseteq Servers /\ ready' \subseteq Servers \cup Clients
      /\ faults' \in 0 .. MaxFaults
      /\ phase' \in [Clients -> {"idle", "queued", "accepted", "closed"}]
      /\ \A c \in Clients : phase'[c] = "accepted" <=> phase[c] = "accepted"
  BY ServerAssumption
  DEF TypeOK, CloseAcceptor, CloseAcceptorFails, StopListening, Backlog, Fault
<1>3. TypeOK'
  BY <1>1, <1>2 DEF TypeOK, PcSet, PoolTypeOK
<1>4. PoolExact' /\ StreamOwned' /\ WatchExact' /\ NoStaleEvent'
  BY <1>1, <1>2 DEF PoolExact, Taken, Distinct, InPool, StreamOwned, WatchExact, NoStaleEvent
<1>5. BatchInv' /\ HandlerInv'
  BY <1>1 DEF BatchInv, HandlerInv
<1> QED  BY <1>3, <1>4, <1>5

\* The end of the shutdown.
LEMMA DrainInv ==
  ASSUME ServerInv, AcceptorsClosed \/ Drain \/ CloseReactor
  PROVE  ServerInv'
<1> USE DEF ServerInv
<1>1. CASE AcceptorsClosed \/ CloseReactor
  <2>1. TypeOK'
    BY <1>1, CapacityAssumption
    DEF TypeOK, PcSet, PoolTypeOK, AcceptorsClosed, CloseReactor, poolVars, connVars, kernelVars
  <2>2. PoolExact' /\ StreamOwned' /\ WatchExact' /\ NoStaleEvent'
    BY <1>1, ThreadKeeps DEF AcceptorsClosed, CloseReactor, poolVars, connVars, kernelVars
  <2>3. BatchInv' /\ HandlerInv'
    BY <1>1 DEF BatchInv, HandlerInv, AcceptorsClosed, CloseReactor, connVars
  <2> QED  BY <2>1, <2>2, <2>3
<1>2. CASE Drain
  <2>1. /\ pc = "drain" /\ pc' = "drain" /\ cur \in Items /\ cur' = cur + 1 /\ batch = {}
        /\ UNCHANGED <<srv, batch, acceptor, last, shutdown, listening, rcvq, peerEnd, faults>>
    BY <1>2 DEF Drain, BatchInv
  <2>2. cur' \in 0 .. Capacity
    BY <2>1, CapacityAssumption DEF Items
  <2>3. CASE Close(cur, "gone") /\ sockfd[cur] # None
    <3>1. /\ PoolTypeOK' /\ PoolExact' /\ StreamOwned' /\ WatchExact' /\ NoStaleEvent'
          /\ sockfd' \in [Items -> Clients \cup {None}]
          /\ arena' \in [Items -> {"clean", "dirty", "gone"}]
          /\ phase' \in [Clients -> {"idle", "queued", "accepted", "closed"}]
          /\ watch' \in [Clients -> Items \cup {None}]
          /\ ready' \subseteq Servers \cup Clients
      BY <2>1, <2>3, CloseKeeps
    <3>2. TypeOK'
      BY <2>1, <2>2, <3>1 DEF TypeOK, PcSet
    <3>3. BatchInv' /\ HandlerInv'
      BY <2>1, <2>3 DEF BatchInv, HandlerInv, Close, TypeOK
    <3> QED  BY <3>1, <3>2, <3>3
  <2>4. CASE /\ arena' = [arena EXCEPT ![cur] = "gone"]
             /\ UNCHANGED <<free, freeCount, sockfd, phase, watch, ready>>
    <3>1. TypeOK'
      BY <2>1, <2>2, <2>4 DEF TypeOK, PcSet, PoolTypeOK
    <3>2. PoolExact' /\ StreamOwned' /\ WatchExact' /\ NoStaleEvent'
      BY <2>1, <2>4, ThreadKeeps
    <3>3. BatchInv' /\ HandlerInv'
      BY <2>1, <2>4 DEF BatchInv, HandlerInv
    <3> QED  BY <3>1, <3>2, <3>3
  <2> QED  BY <1>2, <2>3, <2>4 DEF Drain, poolVars
<1> QED  BY <1>1, <1>2

\* Every step of the server, its clients and the signals keeps the invariant.
LEMMA NextInv == ServerInv /\ [Next]_vars => ServerInv'
<1> SUFFICES ASSUME ServerInv, [Next]_vars PROVE ServerInv'
  OBVIOUS
<1>1. CASE Environment
  BY <1>1, ClientInv, SignalInv DEF Environment
<1>2. CASE Failure
  BY <1>2, LoopInv, DropInv, AcceptFailsInv, RegisterFailsInv, GivesUpInv, CloseAcceptorInv
  DEF Failure
<1>3. CASE Thread
  <2>1. CASE \E ev \in batch : HandleAccept(ev) \/ HandleRead(ev)
    BY <2>1, HandleAcceptInv, HandleReadInv
  <2>2. CASE \E s \in Servers : CloseAcceptor(s)
    BY <2>2, CloseAcceptorInv
  <2> QED
    BY <1>3, <2>1, <2>2, LoopInv, WaitReturnsInv, DropInv, AcceptInv, RegisterInv,
       HandlerMovesInv, GivesUpInv, RecvBytesInv, DrainInv DEF Thread
<1>4. CASE UNCHANGED vars
  <2>1. TypeOK'
    BY <1>4 DEF vars, ServerInv, TypeOK, PoolTypeOK
  <2> QED  BY <2>1, <1>4, OutsideKeeps DEF vars, ServerInv
<1> QED  BY <1>1, <1>2, <1>3, <1>4 DEF Next

THEOREM Invariance == Spec => []ServerInv
BY InitInv, NextInv, PTL DEF Spec

\* Type correctness of the running server.
THEOREM TypeCorrect == Spec => []TypeOK
<1>1. ServerInv => TypeOK
  BY DEF ServerInv
<1> QED  BY <1>1, Invariance, PTL

\* The pool holds exactly the connections that are not in use, each once: the
\* error paths of the acceptor and the closes of the read loop, in any order,
\* neither lose a connection nor give one back twice.
THEOREM PoolIsExact == Spec => []PoolExact
<1>1. ServerInv => PoolExact
  BY DEF ServerInv
<1> QED  BY <1>1, Invariance, PTL

\* Every accepted stream is owned by exactly one connection.
THEOREM StreamsAreOwned == Spec => []StreamOwned
<1>1. ServerInv => StreamOwned
  BY DEF ServerInv
<1> QED  BY <1>1, Invariance, PTL

\* The event queue and the connections agree.
THEOREM WatchIsExact == Spec => []WatchExact
<1>1. ServerInv => WatchExact
  BY DEF ServerInv
<1> QED  BY <1>1, Invariance, PTL

\* No handler is ever called for a file other than the one that was reported,
\* however connections are recycled within a batch.
THEOREM EventsAreNeverStale == Spec => []NoStaleEvent
<1>1. ServerInv => NoStaleEvent
  BY DEF ServerInv
<1> QED  BY <1>1, Invariance, PTL

-----------------------------------------------------------------------------
(* What the loop promises beyond its bookkeeping: it handles only what is   *)
(* ready, leaves each open connection usable and no bytes behind, ends      *)
(* with nothing open, and keeps the contract of ServerContract.  Each part  *)
(* of UsageInv is kept by every step from a state in which ServerInv and    *)
(* the parts it relies on hold.                                             *)

\* Arenas of open connections are in use; those of the first `cur' are gone.
Arenas ==
  /\ \A k \in Items : arena[k] = "dirty" <=> sockfd[k] # None
  /\ pc \notin {"drain", "exited", "crashed"} => \A k \in Items : arena[k] # "gone"
  /\ pc = "drain" => listening = {} /\ \A k \in Items : arena[k] = "gone" <=> k < cur
  /\ pc = "exited" => listening = {} /\ \A k \in Items : arena[k] = "gone"

\* Who is queued is queued at a listener.
Queued == \A c \in Clients : phase[c] = "queued" => Dial[c] \in listening

\* Each connection was accepted by the server its client dialled.
Dialled ==
  \A k \in Items : sockfd[k] # None =>
    IF pc = "register" /\ cur = k THEN Dial[sockfd[k]] = srv
                                  ELSE acceptor[k] = Dial[sockfd[k]]

\* A request that is left waiting has begun and has room; one that is read
\* may be full.
Filled ==
  /\ \A k \in Items : sockfd[k] # None /\ ~Handled(k) =>
       last[k] \in 1 .. BufferSize[acceptor[k]] - 1
  /\ InRecv => last[cur] \in 0 .. BufferSize[acceptor[cur]]

\* What is dispatched is ready, each file once.
Pending ==
  /\ \A ev \in batch : Readable(ev.file)
  /\ pc \in {"accept", "drop"} => Backlog(srv) # {} /\ \A ev \in batch : ev.file # srv
  /\ InRecv => last[cur] = 0 \/ Room = 0 \/ (pc = "recv" /\ StreamReadable(Stream))

\* A client in the queue of a listener has been or will be reported.
Claimed(s) ==
  \/ \E ev \in batch : ev.file = s
  \/ pc \in {"accept", "drop"} /\ srv = s

Edges ==
  /\ ready # {} => EdgeTriggered
  /\ \A s \in ready \cap Servers :
       /\ Backlog(s) # {}
       /\ Claimed(s) => \E c, d \in Backlog(s) : c # d

\* A stream that is not connected has nothing to read, and a client is turned
\* away only when no connection is left.
Refusals ==
  /\ \A c \in Clients : phase[c] = "idle" => rcvq[c] = 0 /\ peerEnd[c] = "open"
  /\ pc = "drop" => freeCount = 0

UsageInv ==
  /\ Refusals
  /\ Arenas /\ Queued /\ Dialled /\ Filled
  /\ Pending /\ DataNotStranded /\ Edges

-----------------------------------------------------------------------------
(* The steps of the server, as far as UsageInv tells them apart. *)

\* Only the place in the code changes.
PcMoves ==
  /\ UNCHANGED <<freeCount, cur, srv, batch, sockfd, acceptor, last, arena, listening, phase, rcvq,
                 peerEnd, watch, ready>>
  /\ \/ pc' = pc
     \/ /\ pc \in {"check", "wait", "waiting", "dispatch", "drop", "closing"}
        /\ pc' \in {"check", "wait", "waiting", "dispatch", "closing", "aborted"}
     \/ pc \in {"recv", "receiving", "drain"} /\ pc' = "crashed"
     \/ pc = "recv" /\ pc' = "receiving" /\ ~StreamReadable(Stream)
     \/ pc = "drain" /\ pc' = "exited" /\ cur = Capacity

\* The shutdown turns to the connections.
LeavesLoop ==
  /\ pc = "closing" /\ pc' = "drain" /\ listening = {} /\ cur' = 0
  /\ UNCHANGED <<srv, batch, sockfd, acceptor, last, arena, listening, phase, rcvq,
                 peerEnd, watch, ready>>

\* A handler closes the connection it has in hand.
Closes ==
  /\ pc \in {"open", "recv", "receiving"} /\ pc' = "dispatch"
  /\ Close(cur, "clean")
  /\ UNCHANGED <<cur, srv, batch, acceptor, listening, peerEnd>>
  /\ last' \in [Items -> Nat] /\ rcvq' \in [Clients -> Nat]
  /\ \A k \in Items : k # cur => last'[k] = last[k]
  /\ \A c \in Clients : c # Stream => rcvq'[c] = rcvq[c]

\* A handler reads n bytes and keeps the connection.
Reads(n) ==
  /\ InRecv /\ n > 0
  /\ n <= Room /\ n <= rcvq[Stream] /\ (n = Room \/ n = rcvq[Stream])
  /\ rcvq' = [rcvq EXCEPT ![Stream] = @ - n]
  /\ last' = [last EXCEPT ![cur] = @ + n]
  /\ pc' = IF n < Room THEN "dispatch" ELSE "recv"
  /\ UNCHANGED <<cur, srv, batch, sockfd, acceptor, arena, listening, phase, peerEnd,
                 watch, ready>>

\* A listener is closed.
Stops(s) ==
  /\ pc = "closing" /\ pc' \in {"closing", "aborted", "crashed"}
  /\ StopListening(s)
  /\ UNCHANGED <<cur, srv, batch, sockfd, acceptor, last, arena, rcvq, peerEnd, watch>>

LEMMA ReadsOrCloses ==
  ASSUME ServerInv, RecvBytes
  PROVE  Closes \/ \E n \in Nat : Reads(n)
<1> USE DEF ServerInv
<1> DEFINE n == IF rcvq[Stream] < Room THEN rcvq[Stream] ELSE Room
<1>1. /\ InRecv /\ Room > 0 /\ rcvq[Stream] > 0
      /\ rcvq' = [rcvq EXCEPT ![Stream] = @ - n]
      /\ last' = [last EXCEPT ![cur] = @ + n]
      /\ \/ /\ pc' = IF n < Room THEN "dispatch" ELSE "recv"
            /\ UNCHANGED <<sockfd, arena, phase, watch, ready>>
         \/ pc' = "dispatch" /\ Close(cur, "clean")
      /\ UNCHANGED <<cur, srv, batch, acceptor, listening, peerEnd>>
  BY DEF RecvBytes, AfterRead
<1>2. /\ Stream \in Clients /\ cur \in Items /\ acceptor[cur] \in Servers
      /\ Room \in Int /\ rcvq[Stream] \in Nat
  <2>1. cur \in Items /\ Stream \in Clients /\ acceptor[cur] \in Servers
    BY <1>1 DEF InRecv, HandlerInv, TypeOK, Stream
  <2> QED  BY <2>1, ServerAssumption DEF Room, TypeOK
<1>3. /\ n \in Nat /\ n > 0 /\ n <= Room /\ n <= rcvq[Stream]
      /\ (n = Room \/ n = rcvq[Stream])
  BY <1>1, <1>2
<1> HIDE DEF n
<1>4. CASE pc' = "dispatch" /\ Close(cur, "clean")
  <2>1. rcvq' \in [Clients -> Nat] /\ last' \in [Items -> Nat]
    <3>1. ServerInv'
      BY RecvBytesInv
    <3> QED  BY <3>1 DEF TypeOK
  <2>2. /\ \A k \in Items : k # cur => last'[k] = last[k]
        /\ \A c \in Clients : c # Stream => rcvq'[c] = rcvq[c]
    BY <1>1 DEF TypeOK
  <2> QED  BY <1>1, <1>4, <2>1, <2>2 DEF Closes, InRecv
<1>5. CASE /\ pc' = IF n < Room THEN "dispatch" ELSE "recv"
           /\ UNCHANGED <<sockfd, arena, phase, watch, ready>>
  <2>1. Reads(n)
    BY <1>1, <1>3, <1>5 DEF Reads
  <2> QED  BY <2>1, <1>3
<1> QED  BY <1>1, <1>4, <1>5

LEMMA StepKinds ==
  ASSUME ServerInv, [Next]_vars
  PROVE  \/ \E c \in Clients : Connect(c) \/ Speak(c)
         \/ PcMoves \/ LeavesLoop \/ WaitReturns
         \/ \E ev \in batch : HandleAccept(ev) \/ HandleRead(ev)
         \/ Drop \/ Accept \/ AcceptFails \/ Register \/ RegisterFails \/ Open
         \/ Closes \/ \E n \in Nat : Reads(n)
         \/ \E s \in Servers : Stops(s)
         \/ Drain
<1> USE DEF ServerInv
<1>1. ASSUME pc \in {"open", "recv", "receiving"}, GiveUp PROVE Closes
  BY <1>1 DEF GiveUp, Closes, TypeOK
<1>2. ASSUME pc \in {"recv", "receiving", "drain"}, Die PROVE PcMoves
  BY <1>2 DEF Die, PcMoves, poolVars, connVars, kernelVars
<1>3. CheckShutdown \/ WaitBlocks \/ WaitFails \/ BatchDone \/ DropFails \/ RecvBlocks
        \/ CloseReactor \/ UNCHANGED vars => PcMoves
  BY DEF CheckShutdown, WaitBlocks, WaitFails, BatchDone, DropFails, RecvBlocks, CloseReactor,
         PcMoves, poolVars, connVars, kernelVars, vars
<1>4. AcceptorsClosed => LeavesLoop
  BY DEF AcceptorsClosed, LeavesLoop, connVars, kernelVars
<1>5. OpenFails \/ ClosedByPeer => Closes
  BY <1>1 DEF OpenFails, ClosedByPeer, CloseCurrent, InRecv
<1>6. RecvError \/ CloseFails => Closes \/ PcMoves
  BY <1>1, <1>2 DEF RecvError, CloseFails, LogRecvError, InRecv
<1>7. Signal => Closes \/ PcMoves
  <2>1. ASSUME pc = "waiting", pc' = "closing",
               UNCHANGED <<poolVars, cur, srv, batch, connVars, kernelVars>>
        PROVE  PcMoves
    BY <2>1 DEF PcMoves, poolVars, connVars, kernelVars
  <2>2. ASSUME UNCHANGED <<poolVars, threadVars, connVars, kernelVars>> PROVE PcMoves
    BY <2>2 DEF PcMoves, poolVars, threadVars, connVars, kernelVars
  <2>3. ASSUME pc = "receiving", LogRecvError PROVE Closes \/ PcMoves
    BY <2>3, <1>1, <1>2 DEF LogRecvError
  <2> QED  BY <2>1, <2>2, <2>3 DEF Signal
<1>8. ASSUME NEW s \in Servers, CloseAcceptor(s) \/ CloseAcceptorFails(s)
      PROVE  Stops(s) \/ PcMoves
  BY <1>8 DEF CloseAcceptor, CloseAcceptorFails, Stops, PcMoves, poolVars, threadVars, connVars
<1> QED
  BY <1>3, <1>4, <1>5, <1>6, <1>7, <1>8, ReadsOrCloses DEF Next, Environment, Failure, Thread

\* What ServerInv says of the connection and of the event in hand.
LEMMA InHand ==
  ASSUME ServerInv
  PROVE  /\ pc \in {"register", "open", "recv", "receiving"} =>
              /\ cur \in Items /\ Stream \in Clients /\ sockfd[cur] = Stream
              /\ \A k \in Items : sockfd[k] = Stream => k = cur
         /\ pc \in {"open", "recv", "receiving"} =>
              /\ acceptor[cur] \in Servers /\ watch[Stream] = cur
              /\ \A ev \in batch : ev.file # Stream
         /\ pc = "accept" => cur \in Items /\ sockfd[cur] = None
         /\ pc \in {"accept", "drop", "register"} => srv \in Servers
<1> USE DEF ServerInv
<1>1. ASSUME pc \in {"register", "open", "recv", "receiving"}
      PROVE  /\ cur \in Items /\ Stream \in Clients /\ sockfd[cur] = Stream
             /\ \A k \in Items : sockfd[k] = Stream => k = cur
  BY <1>1, NoneNotIn DEF HandlerInv, TypeOK, Stream, StreamOwned
<1>2. ASSUME pc \in {"open", "recv", "receiving"}
      PROVE  /\ acceptor[cur] \in Servers /\ watch[Stream] = cur
             /\ \A ev \in batch : ev.file # Stream
  <2>1. acceptor[cur] \in Servers /\ watch[Stream] = cur
    BY <1>1, <1>2, NoneNotIn DEF HandlerInv, WatchExact
  <2>2. \A ev \in batch : ev.handler # cur
    BY <1>2 DEF BatchInv
  <2> QED  BY <1>1, <1>2, <2>1, <2>2, NoneNotIn DEF NoStaleEvent, TypeOK
<1>3. /\ pc = "accept" => cur \in Items /\ sockfd[cur] = None
      /\ pc \in {"accept", "drop", "register"} => srv \in Servers
  BY DEF HandlerInv
<1> QED  BY <1>1, <1>2, <1>3

LEMMA InBatch ==
  ASSUME ServerInv
  PROVE  /\ \A ev \in batch :
              \/ ev.file \in Servers /\ ev.handler = ev.file
              \/ /\ ev.file \in Clients /\ ev.handler \in Items
                 /\ sockfd[ev.handler] = ev.file /\ watch[ev.file] = ev.handler
         /\ \A e, f \in batch : e.file = f.file => e = f
<1> USE DEF ServerInv
<1>1. ASSUME NEW ev \in batch
      PROVE  \/ ev.file \in Servers /\ ev.handler = ev.file
             \/ /\ ev.file \in Clients /\ ev.handler \in Items
                /\ sockfd[ev.handler] = ev.file /\ watch[ev.file] = ev.handler
  BY NoneNotIn DEF NoStaleEvent, TypeOK
<1>2. ASSUME NEW e \in batch, NEW f \in batch, e.file = f.file PROVE e = f
  <2>1. e.handler = f.handler
    BY <1>1, <1>2, NoneNotIn
  <2> QED  BY <1>2, <2>1 DEF TypeOK
<1> QED  BY <1>1, <1>2

-----------------------------------------------------------------------------
(* Each part is kept. *)

\* Closing the connection in hand closes no other.
LEMMA ClosesOne ==
  ASSUME ServerInv, Closes
  PROVE  /\ cur \in Items /\ Stream \in Clients /\ cur' = cur /\ batch' = batch
         /\ \A k \in Items : sockfd'[k] = IF k = cur THEN None ELSE sockfd[k]
         /\ \A k \in Items : arena'[k] = IF k = cur THEN "clean" ELSE arena[k]
         /\ \A c \in Clients : phase'[c] = IF c = Stream THEN "closed" ELSE phase[c]
         /\ \A c \in Clients : watch'[c] = IF c = Stream THEN None ELSE watch[c]
         /\ ready' = ready \ {Stream}
<1>1. cur \in Items /\ Stream \in Clients /\ cur' = cur /\ batch' = batch
  BY InHand DEF Closes
<1>2. /\ watch' = [watch EXCEPT ![Stream] = None] /\ ready' = ready \ {Stream}
      /\ phase' = [phase EXCEPT ![Stream] = "closed"]
      /\ sockfd' = [sockfd EXCEPT ![cur] = None]
      /\ arena' = [arena EXCEPT ![cur] = "clean"]
  BY DEF Closes, Close, Stream
<1> QED  BY <1>1, <1>2 DEF ServerInv, TypeOK

LEMMA ArenasKept ==
  ASSUME ServerInv, Arenas, [Next]_vars
  PROVE  Arenas'
<1>1. CASE \E c \in Clients : Connect(c) \/ Speak(c)
  BY <1>1 DEF Connect, Speak, Send, Fin, Reset, Arenas, threadVars, connVars
<1>2. CASE PcMoves
  BY <1>2, CapacityAssumption DEF PcMoves, Arenas, Items
<1>3. CASE LeavesLoop
  BY <1>3, CapacityAssumption DEF LeavesLoop, Arenas, Items
<1>4. CASE WaitReturns \/ Drop
  BY <1>4 DEF WaitReturns, Drop, Arenas, connVars
<1>5. CASE \E ev \in batch : HandleAccept(ev) \/ HandleRead(ev)
  BY <1>5 DEF HandleAccept, HandleRead, Arenas, connVars
<1>6. CASE Accept
  <2>1. /\ cur \in Items /\ sockfd'[cur] # None /\ arena'[cur] = "dirty"
        /\ \A k \in Items : k # cur => sockfd'[k] = sockfd[k] /\ arena'[k] = arena[k]
        /\ pc = "accept" /\ pc' = "register"
    BY <1>6, InHand, NoneNotIn DEF Accept, Backlog, ServerInv, TypeOK
  <2> QED  BY <2>1 DEF Arenas
<1>7. CASE AcceptFails \/ RegisterFails
  <2>1. /\ cur \in Items /\ sockfd'[cur] = None /\ arena'[cur] = "clean"
        /\ \A k \in Items : k # cur => sockfd'[k] = sockfd[k] /\ arena'[k] = arena[k]
        /\ pc \in {"accept", "register"} /\ pc' \in {"dispatch", "crashed"}
    BY <1>7, InHand DEF AcceptFails, RegisterFails, ServerInv, TypeOK
  <2> QED  BY <2>1 DEF Arenas
<1>8. CASE Register \/ Open
  BY <1>8 DEF Register, Open, Arenas
<1>9. CASE Closes
  BY <1>9, ClosesOne DEF Closes, Arenas
<1>10. CASE \E n \in Nat : Reads(n)
  BY <1>10 DEF Reads, InRecv, Arenas
<1>11. CASE \E s \in Servers : Stops(s)
  BY <1>11 DEF Stops, StopListening, Arenas
<1>12. CASE Drain
  <2>1. /\ pc = "drain" /\ pc' = "drain" /\ cur \in Items /\ cur' = cur + 1
        /\ listening' = listening
    BY <1>12 DEF Drain
  <2>2. /\ sockfd'[cur] = None /\ arena'[cur] = "gone"
        /\ \A k \in Items : k # cur => sockfd'[k] = sockfd[k] /\ arena'[k] = arena[k]
    BY <1>12, <2>1 DEF Drain, Close, ServerInv, TypeOK
  <2>3. \A k \in Items : k < cur + 1 <=> k < cur \/ k = cur
    BY <2>1, CapacityAssumption DEF Items
  <2> QED  BY <2>1, <2>2, <2>3 DEF Arenas
<1> QED  BY <1>1, <1>2, <1>3, <1>4, <1>5, <1>6, <1>7, <1>8, <1>9, <1>10, <1>11, <1>12, StepKinds

LEMMA QueuedKept ==
  ASSUME ServerInv, Queued, [Next]_vars
  PROVE  Queued'
<1>1. CASE \E c \in Clients : Connect(c) \/ Speak(c)
  BY <1>1 DEF Connect, Speak, Send, Fin, Reset, Queued, ServerInv, TypeOK
<1>2. CASE PcMoves \/ LeavesLoop \/ WaitReturns
  BY <1>2 DEF PcMoves, LeavesLoop, WaitReturns, streamVars, Queued
<1>3. CASE \E ev \in batch : HandleAccept(ev) \/ HandleRead(ev)
  BY <1>3 DEF HandleAccept, HandleRead, kernelVars, Queued
<1>4. CASE Drop \/ Accept \/ AcceptFails \/ Register \/ RegisterFails \/ Open
  BY <1>4 DEF Drop, Accept, AcceptFails, Register, RegisterFails, Open, kernelVars, streamVars,
              Queued, ServerInv, TypeOK
<1>5. CASE Closes
  BY <1>5, ClosesOne DEF Closes, Queued
<1>6. CASE \E n \in Nat : Reads(n)
  BY <1>6 DEF Reads, Queued
<1>7. CASE \E s \in Servers : Stops(s)
  BY <1>7 DEF Stops, StopListening, Backlog, Queued, ServerInv, TypeOK
<1>8. CASE Drain
  BY <1>8 DEF Drain, Close, Queued, ServerInv, TypeOK
<1> QED  BY <1>1, <1>2, <1>3, <1>4, <1>5, <1>6, <1>7, <1>8, StepKinds

LEMMA DialledKept ==
  ASSUME ServerInv, Dialled, [Next]_vars
  PROVE  Dialled'
<1>1. CASE \E c \in Clients : Connect(c) \/ Speak(c)
  BY <1>1 DEF Connect, Speak, Send, Fin, Reset, Dialled, threadVars, connVars
<1>2. CASE PcMoves \/ LeavesLoop \/ WaitReturns \/ Drop
  BY <1>2 DEF PcMoves, LeavesLoop, WaitReturns, Drop, Dialled, connVars
<1>3. CASE \E ev \in batch : HandleAccept(ev) \/ HandleRead(ev)
  BY <1>3 DEF HandleAccept, HandleRead, Dialled, connVars
<1>4. CASE Accept
  <2>1. PICK c \in Clients : Dial[c] = srv /\ sockfd' = [sockfd EXCEPT ![cur] = c]
    BY <1>4 DEF Accept, Backlog
  <2>2. /\ pc = "accept" /\ pc' = "register" /\ cur \in Items
        /\ UNCHANGED <<cur, srv, acceptor>>
    BY <1>4, InHand DEF Accept
  <2> QED  BY <2>1, <2>2 DEF Dialled, ServerInv, TypeOK
<1>5. CASE AcceptFails \/ RegisterFails
  <2>1. /\ sockfd'[cur] = None /\ \A k \in Items : k # cur => sockfd'[k] = sockfd[k]
        /\ pc' \in {"dispatch", "crashed"} /\ UNCHANGED acceptor
    BY <1>5, InHand DEF AcceptFails, RegisterFails, ServerInv, TypeOK
  <2> QED  BY <2>1 DEF Dialled
<1>6. CASE Register
  BY <1>6, InHand DEF Register, Dialled, ServerInv, TypeOK
<1>7. CASE Open
  BY <1>7 DEF Open, Dialled
<1>8. CASE Closes
  BY <1>8, ClosesOne DEF Closes, Dialled
<1>9. CASE \E n \in Nat : Reads(n)
  BY <1>9 DEF Reads, InRecv, Dialled
<1>10. CASE \E s \in Servers : Stops(s)
  BY <1>10 DEF Stops, Dialled
<1>11. CASE Drain
  <2>1. /\ pc = "drain" /\ pc' = "drain" /\ UNCHANGED acceptor
        /\ \A k \in Items : sockfd'[k] \in {sockfd[k], None}
    BY <1>11 DEF Drain, Close, ServerInv, TypeOK
  <2> QED  BY <2>1 DEF Dialled
<1> QED  BY <1>1, <1>2, <1>3, <1>4, <1>5, <1>6, <1>7, <1>8, <1>9, <1>10, <1>11, StepKinds

LEMMA FilledKept ==
  ASSUME ServerInv, Filled, [Next]_vars
  PROVE  Filled'
<1> USE DEF InRecv, Handled
<1>1. CASE \E c \in Clients : Connect(c) \/ Speak(c)
  BY <1>1 DEF Connect, Speak, Send, Fin, Reset, Filled, threadVars, connVars
<1>2. CASE PcMoves \/ LeavesLoop \/ WaitReturns \/ Drop
  BY <1>2 DEF PcMoves, LeavesLoop, WaitReturns, Drop, Filled, connVars
<1>3. ASSUME NEW ev \in batch, HandleAccept(ev)
      PROVE  Filled'
  BY <1>3 DEF HandleAccept, Filled, connVars
<1>4. ASSUME NEW ev \in batch, HandleRead(ev)
      PROVE  Filled'
  <2>1. /\ pc = "dispatch" /\ pc' = "recv" /\ cur' = ev.handler /\ ev.handler \in Items
        /\ UNCHANGED <<sockfd, acceptor, last>>
    BY <1>4 DEF HandleRead, connVars
  <2>2. sockfd[ev.handler] # None /\ acceptor[ev.handler] \in Servers
    BY <2>1, InBatch, NoneNotIn DEF ServerInv, HandlerInv
  <2>3. last[ev.handler] \in 1 .. BufferSize[acceptor[ev.handler]] - 1
    BY <2>1, <2>2 DEF Filled
  <2>4. BufferSize[acceptor[ev.handler]] \in Nat
    BY <2>2, ServerAssumption
  <2>5. last[ev.handler] \in 0 .. BufferSize[acceptor[ev.handler]]
    BY <2>3, <2>4
  <2> QED  BY <2>1, <2>5 DEF Filled
<1>5. CASE Accept
  <2>1. /\ pc = "accept" /\ pc' = "register" /\ UNCHANGED <<cur, acceptor, last>>
        /\ \A k \in Items : k # cur => sockfd'[k] = sockfd[k]
    BY <1>5, InHand DEF Accept, ServerInv, TypeOK
  <2> QED  BY <2>1 DEF Filled
<1>6. CASE AcceptFails \/ RegisterFails
  <2>1. /\ sockfd'[cur] = None /\ \A k \in Items : k # cur => sockfd'[k] = sockfd[k]
        /\ pc' \in {"dispatch", "crashed"} /\ UNCHANGED <<acceptor, last>>
    BY <1>6, InHand DEF AcceptFails, RegisterFails, ServerInv, TypeOK
  <2> QED  BY <2>1 DEF Filled
<1>7. CASE Register
  <2>1. /\ pc = "register" /\ pc' = "open" /\ UNCHANGED <<cur, sockfd, last>>
        /\ \A k \in Items : k # cur => acceptor'[k] = acceptor[k]
    BY <1>7, InHand DEF Register, ServerInv, TypeOK
  <2> QED  BY <2>1 DEF Filled
<1>8. CASE Open
  <2>1. /\ pc = "open" /\ pc' = "recv" /\ UNCHANGED <<cur, sockfd, acceptor>> /\ cur \in Items
        /\ last'[cur] = 0 /\ \A k \in Items : k # cur => last'[k] = last[k]
    BY <1>8, InHand DEF Open, ServerInv, TypeOK
  <2>2. 0 \in 0 .. BufferSize[acceptor[cur]]
    BY <2>1, InHand, ServerAssumption
  <2> QED  BY <2>1, <2>2 DEF Filled
<1>9. CASE Closes
  BY <1>9, ClosesOne DEF Closes, Filled
<1>10. ASSUME NEW n \in Nat, Reads(n) PROVE Filled'
  <2>1. /\ pc \in {"recv", "receiving"} /\ cur \in Items /\ acceptor[cur] \in Servers
        /\ UNCHANGED <<cur, sockfd, acceptor>>
        /\ last'[cur] = last[cur] + n /\ \A k \in Items : k # cur => last'[k] = last[k]
        /\ n > 0 /\ n <= Room /\ pc' = IF n < Room THEN "dispatch" ELSE "recv"
    BY <1>10, InHand DEF Reads, ServerInv, TypeOK
  <2>2. BufferSize[acceptor[cur]] \in Nat /\ last[cur] \in Nat
    BY <2>1, ServerAssumption DEF ServerInv, TypeOK
  <2>3. /\ last'[cur] \in 0 .. BufferSize[acceptor[cur]]
        /\ n < Room => last'[cur] \in 1 .. BufferSize[acceptor[cur]] - 1
    BY <2>1, <2>2 DEF Room
  <2> QED  BY <2>1, <2>3 DEF Filled
<1>11. CASE \E s \in Servers : Stops(s)
  BY <1>11 DEF Stops, Filled
<1>12. CASE Drain
  <2>1. /\ pc = "drain" /\ pc' = "drain" /\ UNCHANGED <<acceptor, last>>
        /\ \A k \in Items : sockfd'[k] \in {sockfd[k], None}
    BY <1>12 DEF Drain, Close, ServerInv, TypeOK
  <2> QED  BY <2>1 DEF Filled
<1> QED  BY <1>1, <1>2, <1>3, <1>4, <1>5, <1>6, <1>7, <1>8, <1>9, <1>10, <1>11, <1>12, StepKinds

\* Nothing that was readable stops being so, except by a read or an accept.
LEMMA StillReadable ==
  ASSUME ServerInv, NEW c \in Clients, StreamReadable(c),
         rcvq'[c] = rcvq[c], peerEnd'[c] = peerEnd[c]
  PROVE  StreamReadable(c)'
BY DEF StreamReadable

LEMMA SameBacklog ==
  ASSUME phase' = phase
  PROVE  \A s : Backlog(s)' = Backlog(s)
BY DEF Backlog

LEMMA SameReadable ==
  ASSUME UNCHANGED streamVars
  PROVE  /\ \A f : Readable(f)' <=> Readable(f)
         /\ \A c : StreamReadable(c)' <=> StreamReadable(c)
         /\ \A s : Backlog(s)' = Backlog(s)
BY DEF Readable, StreamReadable, Backlog, streamVars

\* The clients only add to what is readable.
LEMMA ClientsAdd ==
  ASSUME ServerInv, NEW c \in Clients, Connect(c) \/ Speak(c)
  PROVE  /\ \A d \in Clients : StreamReadable(d) => StreamReadable(d)'
         /\ \A d \in Clients : rcvq'[d] # rcvq[d] /\ rcvq'[d] > 0 =>
              ready' = IF EdgeTriggered /\ d \in Registered THEN ready \cup {d} ELSE ready
         /\ \A s : Backlog(s) \subseteq Backlog(s)'
         /\ \A s \in ready' \ ready : s \in Servers => c \in Backlog(s)' \ Backlog(s)
         /\ ready \subseteq ready' /\ (ready' # ready => EdgeTriggered)
<1> USE DEF ServerInv
<1>1. CASE Connect(c)
  <2>1. /\ phase[c] = "idle" /\ phase' = [phase EXCEPT ![c] = "queued"] /\ Edge(Dial[c])
        /\ UNCHANGED <<rcvq, peerEnd>>
    BY <1>1 DEF Connect
  <2>2. \A s : Backlog(s) \subseteq Backlog(s)'
    BY <2>1 DEF Backlog, TypeOK
  <2>3. c \in Backlog(Dial[c])' \ Backlog(Dial[c])
    BY <2>1 DEF Backlog, TypeOK
  <2>4. \A d \in Clients : StreamReadable(d) => StreamReadable(d)'
    BY <2>1 DEF StreamReadable
  <2> QED  BY <2>1, <2>2, <2>3, <2>4 DEF Edge
<1>2. CASE Speak(c)
  <2>1. UNCHANGED phase /\ Edge(c)
    BY <1>2 DEF Speak, Send, Fin, Reset
  <2>2. \A d \in Clients : StreamReadable(d) => StreamReadable(d)'
    BY <1>2 DEF Speak, Send, Fin, Reset, StreamReadable, PeerUp, TypeOK
  <2>3. \A d \in Clients : rcvq'[d] # rcvq[d] /\ rcvq'[d] > 0 => d = c
    BY <1>2 DEF Speak, Send, Fin, Reset, TypeOK
  <2> QED  BY <2>1, <2>2, <2>3, SameBacklog, NoneNotIn DEF Edge
<1> QED  BY <1>1, <1>2

LEMMA PendingKept ==
  ASSUME ServerInv, Pending, [Next]_vars
  PROVE  Pending'
<1> USE DEF InRecv
<1>1. ASSUME NEW c \in Clients, Connect(c) \/ Speak(c) PROVE Pending'
  <2>1. UNCHANGED <<pc, cur, srv, batch, sockfd, acceptor, last>>
    BY <1>1 DEF Connect, Speak, Send, Fin, Reset, threadVars, connVars
  <2>2. \A ev \in batch : Readable(ev.file)'
    BY <1>1, ClientsAdd, InBatch DEF Readable, Pending
  <2>3. pc \in {"accept", "drop"} => Backlog(srv)' # {}
    <3>1. Backlog(srv) \subseteq Backlog(srv)'
      BY <1>1, <2>1, ClientsAdd
    <3> QED  BY <3>1 DEF Pending
  <2>4. InRecv /\ StreamReadable(Stream) => StreamReadable(Stream)'
    BY <1>1, <2>1, ClientsAdd, InHand DEF Stream
  <2> QED  BY <2>1, <2>2, <2>3, <2>4 DEF Pending, Room, Stream
<1>2. CASE PcMoves
  <2>1. UNCHANGED streamVars /\ UNCHANGED <<cur, srv, batch, sockfd, acceptor, last>>
    BY <1>2 DEF PcMoves, streamVars
  <2>2. /\ pc' \in {"accept", "drop", "recv"} => pc' = pc
        /\ pc' = "receiving" =>
             pc = "receiving" \/ (~StreamReadable(Stream) /\ pc = "recv")
    BY <1>2 DEF PcMoves
  <2> QED  BY <2>1, <2>2, SameReadable DEF Pending, Room, Stream
<1>3. CASE LeavesLoop
  BY <1>3, SameReadable DEF LeavesLoop, streamVars, Pending
<1>4. CASE WaitReturns
  <2>1. /\ pc' = "dispatch" /\ UNCHANGED streamVars
        /\ \A ev \in batch' : Readable(ev.file)
    BY <1>4 DEF WaitReturns, Live
  <2> QED  BY <2>1, SameReadable DEF Pending
<1>5. ASSUME NEW ev \in batch, HandleAccept(ev) PROVE Pending'
  <2>1. /\ pc' \in {"drop", "accept"} /\ UNCHANGED streamVars /\ ev.handler \in Servers
        /\ srv' = ev.handler /\ batch' = batch \ {ev}
    BY <1>5 DEF HandleAccept, kernelVars, streamVars
  <2>2. ev.file = srv' /\ ev.file \in Servers
    BY <2>1, InBatch, NoneNotIn
  <2>3. Backlog(srv') # {}
    BY <2>2 DEF Pending, Readable
  <2>4. \A e \in batch' : e.file # srv'
    BY <2>1, <2>2, InBatch
  <2> QED  BY <2>1, <2>3, <2>4, SameReadable DEF Pending
<1>6. ASSUME NEW ev \in batch, HandleRead(ev) PROVE Pending'
  <2>1. /\ pc' = "recv" /\ UNCHANGED <<rcvq, peerEnd, phase, sockfd>> /\ ev.handler \in Items
        /\ cur' = ev.handler /\ batch' \subseteq batch
    BY <1>6 DEF HandleRead, kernelVars, connVars
  <2>2. sockfd[ev.handler] = ev.file /\ ev.file \in Clients
    BY <2>1, InBatch, NoneNotIn
  <2>3. StreamReadable(ev.file)
    BY <2>2, NoneNotIn DEF Pending, Readable, ServerAssumption
  <2>4. StreamReadable(Stream)'
    BY <2>1, <2>2, <2>3 DEF StreamReadable, Stream
  <2> QED  BY <2>1, <2>4, SameReadable DEF Pending, streamVars
<1>7. CASE Drop \/ Accept
  <2>1. /\ pc \in {"drop", "accept"} /\ pc' \in {"dispatch", "register"}
        /\ UNCHANGED <<rcvq, peerEnd, batch>>
    BY <1>7 DEF Drop, Accept
  <2>2. srv \in Servers /\ \A s \in Servers : s # srv => Backlog(s)' = Backlog(s)
    BY <1>7, InHand DEF Drop, Accept, Backlog, ServerInv, TypeOK
  <2>3. ASSUME NEW ev \in batch PROVE Readable(ev.file)'
    <3>1. ev.file # srv /\ Readable(ev.file)
      BY <2>1 DEF Pending
    <3> QED  BY <2>1, <2>2, <3>1 DEF Readable, StreamReadable
  <2> QED  BY <2>1, <2>3 DEF Pending
<1>8. CASE AcceptFails \/ Register
  BY <1>8, SameReadable DEF AcceptFails, Register, kernelVars, streamVars, Pending
<1>9. CASE RegisterFails
  <2>1. /\ pc = "register" /\ pc' = "dispatch" /\ UNCHANGED <<batch, rcvq, peerEnd>>
        /\ phase' = [phase EXCEPT ![Stream] = "closed"]
    BY <1>9 DEF RegisterFails, Stream
  <2>2. phase[Stream] = "accepted"
    BY <2>1, InHand DEF ServerInv, StreamOwned
  <2>3. \A s : Backlog(s)' = Backlog(s)
    BY <2>1, <2>2 DEF Backlog, ServerInv, TypeOK
  <2> QED  BY <2>1, <2>3 DEF Pending, Readable, StreamReadable
<1>10. CASE Open
  <2>1. pc' = "recv" /\ UNCHANGED streamVars /\ UNCHANGED batch /\ last'[cur'] = 0
    BY <1>10, InHand DEF Open, kernelVars, streamVars, ServerInv, TypeOK
  <2> QED  BY <2>1, SameReadable DEF Pending
<1>11. CASE Closes
  <2>1. pc' = "dispatch" /\ UNCHANGED peerEnd
    BY <1>11 DEF Closes
  <2>2. phase[Stream] = "accepted" /\ pc \in {"open", "recv", "receiving"}
    BY <1>11, InHand DEF Closes, ServerInv, StreamOwned
  <2>3. \A s : Backlog(s)' = Backlog(s)
    BY <1>11, <2>2, ClosesOne DEF Backlog
  <2>4. \A ev \in batch : ev.file # Stream
    BY <2>2, InHand
  <2>5. ASSUME NEW ev \in batch PROVE Readable(ev.file)'
    <3>1. ev.file \in Clients => rcvq'[ev.file] = rcvq[ev.file]
      BY <1>11, <2>4 DEF Closes
    <3> QED  BY <2>1, <2>3, <3>1, InBatch DEF Pending, Readable, StreamReadable
  <2> QED  BY <2>1, <2>5, <1>11, ClosesOne DEF Pending
<1>12. ASSUME NEW n \in Nat, Reads(n) PROVE Pending'
  <2>1. /\ rcvq' = [rcvq EXCEPT ![Stream] = @ - n] /\ pc \in {"recv", "receiving"}
        /\ pc' \in {"dispatch", "recv"}
        /\ UNCHANGED <<cur, srv, batch, acceptor, phase, peerEnd, sockfd>>
    BY <1>12 DEF Reads
  <2>2. ASSUME NEW ev \in batch PROVE Readable(ev.file)'
    <3>1. ev.file # Stream
      BY <2>1, InHand
    <3>2. ev.file \in Clients => rcvq'[ev.file] = rcvq[ev.file]
      BY <2>1, <3>1 DEF ServerInv, TypeOK
    <3> QED  BY <2>1, <3>2, InBatch DEF Pending, Readable, StreamReadable, Backlog
  <2>3. pc' = "recv" => Room' = 0
    <3>1. /\ cur \in Items /\ last'[cur] = last[cur] + n /\ n <= Room
          /\ pc' = "recv" => ~(n < Room)
      BY <1>12, <2>1, InHand DEF Reads, ServerInv, TypeOK
    <3>2. BufferSize[acceptor[cur]] \in Nat /\ last[cur] \in Nat
      BY <2>1, InHand, ServerAssumption DEF ServerInv, TypeOK
    <3> QED  BY <2>1, <3>1, <3>2 DEF Room
  <2> QED  BY <2>1, <2>2, <2>3 DEF Pending
<1>13. ASSUME NEW s \in Servers, Stops(s) PROVE Pending'
  <2>1. batch = {}
    BY <1>13 DEF Stops, ServerInv, BatchInv
  <2> QED  BY <1>13, <2>1 DEF Stops, Pending
<1>14. CASE Drain
  <2>1. batch = {}
    BY <1>14 DEF Drain, ServerInv, BatchInv
  <2> QED  BY <1>14, <2>1 DEF Drain, Pending
<1> QED  BY <1>1, <1>2, <1>3, <1>4, <1>5, <1>6, <1>7, <1>8, <1>9, <1>10, <1>11, <1>12, <1>13,
            <1>14, StepKinds

LEMMA DataKept ==
  ASSUME ServerInv, DataNotStranded, [Next]_vars
  PROVE  DataNotStranded'
<1> SUFFICES ASSUME NEW d \in Clients, watch'[d] # None, rcvq'[d] > 0, EdgeTriggered
             PROVE  \/ d \in ready'
                    \/ \E ev \in batch' : ev.file = d
                    \/ Handled(watch[d])'
  BY DEF DataNotStranded
<1> DEFINE Noticed == \/ d \in ready
                      \/ \E ev \in batch : ev.file = d
                      \/ Handled(watch[d])
<1>a. watch[d] # None /\ rcvq[d] > 0 => Noticed
  BY DEF DataNotStranded
<1>b. watch[d] # None => watch[d] \in Items /\ d \in Registered
  BY DEF ServerInv, TypeOK, Registered
<1> HIDE DEF Noticed
<1>1. ASSUME NEW c \in Clients, Connect(c) \/ Speak(c)
      PROVE  d \in ready' \/ (\E ev \in batch' : ev.file = d) \/ Handled(watch[d])'
  <2>1. UNCHANGED <<pc, cur, batch, watch>>
    BY <1>1 DEF Connect, Speak, Send, Fin, Reset, threadVars
  <2>2. CASE rcvq'[d] = rcvq[d]
    BY <1>1, <1>a, <2>1, <2>2, ClientsAdd DEF Noticed, Handled
  <2>3. CASE rcvq'[d] # rcvq[d]
    BY <1>1, <1>b, <2>1, <2>3, ClientsAdd
  <2> QED  BY <2>2, <2>3
<1>2. CASE PcMoves
  BY <1>2, <1>a DEF PcMoves, Noticed, Handled
<1>3. CASE LeavesLoop \/ Drop \/ Accept \/ AcceptFails \/ Open
  BY <1>3, <1>a DEF LeavesLoop, Drop, Accept, AcceptFails, Open, kernelVars, Noticed, Handled
<1>4. CASE WaitReturns
  <2>1. PICK events \in SUBSET Live :
          /\ batch' = {[file |-> f, handler |-> Handler(f)] : f \in events}
          /\ ready' = ready \ events
    BY <1>4 DEF WaitReturns
  <2>2. pc \in {"wait", "waiting"} /\ UNCHANGED <<watch, rcvq>>
    BY <1>4 DEF WaitReturns, streamVars
  <2>3. batch = {}
    BY <2>2 DEF ServerInv, BatchInv
  <2>4. d \in ready
    BY <1>a, <2>2, <2>3 DEF Noticed, Handled
  <2>5. ASSUME d \in events PROVE \E ev \in batch' : ev.file = d
    <3>1. [file |-> d, handler |-> Handler(d)] \in batch'
      BY <2>1, <2>5
    <3> QED  BY <3>1
  <2> QED  BY <2>1, <2>4, <2>5
<1>5. ASSUME NEW ev \in batch, HandleAccept(ev)
      PROVE  d \in ready' \/ \E e \in batch' : e.file = d
  <2>1. /\ pc = "dispatch" /\ ev.file # d /\ batch' = batch \ {ev}
        /\ UNCHANGED <<watch, rcvq, ready>>
    BY <1>5, InBatch, NoneNotIn DEF HandleAccept, kernelVars
  <2> QED  BY <1>a, <2>1 DEF Noticed, Handled
<1>6. ASSUME NEW ev \in batch, HandleRead(ev)
      PROVE  d \in ready' \/ (\E e \in batch' : e.file = d) \/ Handled(watch[d])'
  <2>1. /\ pc = "dispatch" /\ pc' = "recv" /\ cur' = ev.handler /\ batch' = batch \ {ev}
        /\ ev.handler \in Items /\ UNCHANGED <<watch, rcvq, ready>>
    BY <1>6 DEF HandleRead, kernelVars
  <2>2. ev.file = d => watch[d] = cur'
    BY <2>1, InBatch, NoneNotIn
  <2> QED  BY <1>a, <2>1, <2>2 DEF Noticed, Handled
<1>7. CASE Register
  <2>1. /\ pc = "register" /\ pc' = "open" /\ cur' = cur /\ rcvq' = rcvq /\ batch' = batch
        /\ watch' = [watch EXCEPT ![Stream] = cur] /\ ready \subseteq ready'
    BY <1>7 DEF Register, Stream, streamVars
  <2>2. watch'[d] = IF d = Stream THEN cur ELSE watch[d]
    BY <2>1 DEF ServerInv, TypeOK
  <2> QED  BY <1>a, <2>1, <2>2 DEF Noticed, Handled
<1>8. CASE RegisterFails
  <2>1. /\ pc = "register" /\ UNCHANGED <<watch, rcvq, ready, batch>>
    BY <1>8 DEF RegisterFails
  <2>2. watch[d] # cur
    BY <2>1, <1>b DEF ServerInv, WatchExact
  <2> QED  BY <1>a, <2>1, <2>2 DEF Noticed, Handled
<1>9. CASE Closes
  <2>1. d # Stream /\ watch'[d] = watch[d] /\ rcvq'[d] = rcvq[d]
    BY <1>9, ClosesOne DEF Closes
  <2>2. watch[d] # cur
    BY <1>9, <2>1, <1>b, InHand DEF Closes, ServerInv, WatchExact
  <2>3. pc # "crashed"
    BY <1>9 DEF Closes
  <2> QED  BY <1>9, <1>a, <2>1, <2>2, ClosesOne DEF Noticed, Handled
<1>10. ASSUME NEW n \in Nat, Reads(n)
       PROVE  d \in ready' \/ (\E ev \in batch' : ev.file = d) \/ Handled(watch[d])'
  <2>1. /\ pc \in {"recv", "receiving"} /\ UNCHANGED <<cur, batch, watch, ready>>
        /\ n \in {Room, rcvq[Stream]} /\ n <= Room
        /\ pc' = IF n < Room THEN "dispatch" ELSE "recv"
    BY <1>10 DEF Reads, InRecv
  <2>2. rcvq'[d] = IF d = Stream THEN rcvq[d] - n ELSE rcvq[d]
    BY <1>10 DEF Reads, ServerInv, TypeOK
  <2>3. watch[d] = cur => d = Stream
    BY <2>1, <1>b, InHand DEF ServerInv, WatchExact
  <2>4. CASE watch[d] = cur
    <3>1. rcvq[Stream] \in Nat /\ Room \in Int
      BY <2>1, InHand, ServerAssumption DEF ServerInv, TypeOK, Room
    <3>2. ~(n < Room)
      BY <2>1, <2>2, <2>3, <2>4, <3>1
    <3> QED  BY <2>1, <2>4, <3>2 DEF Handled
  <2>5. CASE watch[d] # cur
    <3>1. watch[d] # None /\ rcvq[d] > 0
      BY <2>1, <2>2, InHand, <2>5 DEF ServerInv, TypeOK
    <3> QED  BY <1>a, <2>1, <2>5, <3>1 DEF Noticed, Handled
  <2> QED  BY <2>4, <2>5
<1>11. CASE \/ \E s \in Servers : Stops(s)
            \/ Drain
  <2>1. pc \in {"closing", "drain"} /\ rcvq' = rcvq /\ batch = {}
    BY <1>11 DEF Stops, Drain, ServerInv, BatchInv
  <2>2. watch[d] # None /\ (d \in ready => d \in ready')
    BY <1>11, NoneNotIn DEF Stops, StopListening, Drain, Close, ServerInv, TypeOK
  <2> QED  BY <1>a, <2>1, <2>2 DEF Noticed, Handled
<1> QED  BY <1>1, <1>2, <1>3, <1>4, <1>5, <1>6, <1>7, <1>8, <1>9, <1>10, <1>11, StepKinds

\* The clients in the queues of the listeners whose edges are pending.
LEMMA EdgesKept ==
  ASSUME ServerInv, Pending, Edges, [Next]_vars
  PROVE  Edges'
<1>1. ASSUME NEW c \in Clients, Connect(c) \/ Speak(c) PROVE Edges'
  <2>1. UNCHANGED <<pc, srv, batch>>
    BY <1>1 DEF Connect, Speak, Send, Fin, Reset, threadVars
  <2>2. /\ \A s : Backlog(s) \subseteq Backlog(s)'
        /\ \A s \in ready' \ ready : s \in Servers => c \in Backlog(s)' \ Backlog(s)
        /\ ready' # {} => EdgeTriggered
    BY <1>1, ClientsAdd DEF Edges
  <2> SUFFICES ASSUME NEW s \in ready' \cap Servers
               PROVE  /\ Backlog(s)' # {}
                      /\ Claimed(s)' => \E b, d \in Backlog(s)' : b # d
    BY <2>2 DEF Edges
  <2>3. CASE s \in ready
    BY <2>1, <2>2, <2>3 DEF Edges, Claimed
  <2>4. CASE s \notin ready
    <3>1. c \in Backlog(s)' \ Backlog(s)
      BY <2>2, <2>4
    <3>2. Claimed(s)' => Backlog(s) # {}
      BY <2>1 DEF Claimed, Pending, Readable
    <3> QED  BY <2>2, <3>1, <3>2
  <2> QED  BY <2>3, <2>4
<1>2. ASSUME UNCHANGED phase, ready' \subseteq ready,
             \A s \in ready' \cap Servers : Claimed(s)' => Claimed(s)
      PROVE  Edges'
  BY <1>2, SameBacklog DEF Edges
<1>3. CASE PcMoves \/ LeavesLoop \/ AcceptFails \/ Open
  <2>1. /\ UNCHANGED <<phase, ready, batch, srv>>
        /\ pc' \in {"accept", "drop"} => pc \in {"accept", "drop"}
    BY <1>3 DEF PcMoves, LeavesLoop, AcceptFails, Open, kernelVars
  <2> QED  BY <2>1, <1>2 DEF Claimed
<1>4. CASE WaitReturns
  <2>1. PICK events \in SUBSET Live :
          /\ batch' = {[file |-> f, handler |-> Handler(f)] : f \in events}
          /\ ready' = ready \ events
    BY <1>4 DEF WaitReturns
  <2>2. UNCHANGED phase /\ pc' = "dispatch"
    BY <1>4 DEF WaitReturns, streamVars
  <2>3. \A s \in ready' : ~Claimed(s)'
    BY <2>1, <2>2 DEF Claimed
  <2> QED  BY <2>1, <2>2, <2>3, <1>2
<1>5. ASSUME NEW ev \in batch, HandleAccept(ev) PROVE Edges'
  <2>1. /\ UNCHANGED <<phase, ready>> /\ batch' \subseteq batch /\ srv' = ev.handler
        /\ ev.handler \in Servers
    BY <1>5 DEF HandleAccept, kernelVars
  <2>2. ev.file = srv'
    BY <2>1, InBatch, NoneNotIn
  <2> QED  BY <2>1, <2>2, <1>2 DEF Claimed
<1>6. ASSUME NEW ev \in batch, HandleRead(ev) PROVE Edges'
  <2>1. UNCHANGED <<phase, ready>> /\ batch' \subseteq batch /\ pc' = "recv"
    BY <1>6 DEF HandleRead, kernelVars
  <2> QED  BY <2>1, <1>2 DEF Claimed
<1>7. CASE Drop \/ Accept
  <2>1. PICK c \in Backlog(srv), to \in {"closed", "accepted"} : phase' = [phase EXCEPT ![c] = to]
    BY <1>7 DEF Drop, Accept
  <2>2. /\ pc \in {"drop", "accept"} /\ pc' \in {"dispatch", "register"}
        /\ UNCHANGED <<batch, ready, srv>>
    BY <1>7 DEF Drop, Accept
  <2>3. \A s : Backlog(s)' = Backlog(s) \ {c}
    BY <2>1 DEF Backlog, ServerInv, TypeOK
  <2>4. \A s : s # srv => Backlog(s)' = Backlog(s)
    BY <2>1, <2>3 DEF Backlog
  <2> SUFFICES ASSUME NEW s \in ready \cap Servers
               PROVE  /\ Backlog(s)' # {}
                      /\ Claimed(s)' => \E b, d \in Backlog(s)' : b # d
    BY <2>2 DEF Edges
  <2>5. CASE s = srv
    <3>1. Claimed(s) /\ ~Claimed(s)'
      BY <2>2, <2>5 DEF Claimed, Pending
    <3> QED  BY <2>3, <3>1 DEF Edges
  <2>6. CASE s # srv
    BY <2>2, <2>4, <2>6 DEF Edges, Claimed
  <2> QED  BY <2>5, <2>6
<1>8. CASE Register
  <2>1. /\ UNCHANGED <<phase, batch>> /\ pc' = "open"
        /\ ready' \subseteq ready \cup {Stream} /\ (ready' # ready => EdgeTriggered)
    BY <1>8 DEF Register, streamVars, Stream
  <2>2. Stream \notin Servers
    BY <1>8, InHand, NoneNotIn DEF Register
  <2> QED  BY <2>1, <2>2, SameBacklog DEF Edges, Claimed
<1>9. CASE RegisterFails \/ Closes
  <2>1. /\ pc \in {"register", "open", "recv", "receiving"} /\ pc' = "dispatch"
        /\ UNCHANGED batch /\ ready' \subseteq ready
        /\ phase' = [phase EXCEPT ![Stream] = "closed"]
    BY <1>9 DEF RegisterFails, Closes, Close, Stream
  <2>2. phase[Stream] = "accepted"
    BY <2>1, InHand DEF ServerInv, StreamOwned
  <2>3. \A s : Backlog(s)' = Backlog(s)
    BY <2>1, <2>2 DEF Backlog, ServerInv, TypeOK
  <2> QED  BY <2>1, <2>3 DEF Edges, Claimed
<1>10. ASSUME NEW n \in Nat, Reads(n) PROVE Edges'
  <2>1. UNCHANGED <<phase, ready, batch>> /\ pc' \in {"dispatch", "recv"}
    BY <1>10 DEF Reads
  <2> QED  BY <2>1, <1>2 DEF Claimed
<1>11. ASSUME NEW s \in Servers, Stops(s) PROVE Edges'
  <2>1. /\ ready' = ready \ {s} /\ batch' = {} /\ pc' \notin {"accept", "drop"}
        /\ \A t \in Servers : t # s => Backlog(t)' = Backlog(t)
    BY <1>11 DEF Stops, StopListening, Backlog, ServerInv, BatchInv, TypeOK
  <2> QED  BY <2>1 DEF Edges, Claimed
<1>12. CASE Drain
  <2>1. /\ ready' \subseteq ready /\ batch' = {} /\ pc' = "drain"
    BY <1>12 DEF Drain, Close, ServerInv, BatchInv
  <2>2. \A s : Backlog(s)' = Backlog(s)
    <3>1. sockfd[cur] \in Clients => phase[sockfd[cur]] = "accepted"
      BY <1>12 DEF Drain, ServerInv, StreamOwned
    <3> QED  BY <1>12, <3>1 DEF Drain, Close, Backlog, ServerInv, TypeOK
  <2> QED  BY <2>1, <2>2 DEF Edges, Claimed
<1> QED  BY <1>1, <1>3, <1>4, <1>5, <1>6, <1>7, <1>8, <1>9, <1>10, <1>11, <1>12, StepKinds

LEMMA RefusalsKept ==
  ASSUME ServerInv, Refusals, [Next]_vars
  PROVE  Refusals'
<1>1. CASE \E c \in Clients : Connect(c) \/ Speak(c)
  <2>1. UNCHANGED <<pc, freeCount>>
    BY <1>1 DEF Connect, Speak, Send, Fin, Reset, poolVars, threadVars
  <2> QED
    BY <1>1, <2>1 DEF Connect, Speak, Send, Fin, Reset, PeerUp, Refusals, ServerInv, TypeOK
<1>2. CASE PcMoves \/ LeavesLoop \/ WaitReturns \/ \E s \in Servers : Stops(s)
  BY <1>2 DEF PcMoves, LeavesLoop, WaitReturns, Stops, StopListening, Backlog, streamVars,
              Refusals, ServerInv, TypeOK
<1>3. CASE \E ev \in batch : HandleAccept(ev) \/ HandleRead(ev)
  BY <1>3 DEF HandleAccept, HandleRead, Exhausted, poolVars, kernelVars, Refusals
<1>4. CASE Drop \/ Accept \/ AcceptFails \/ Register \/ RegisterFails \/ Open
  BY <1>4 DEF Drop, Accept, AcceptFails, Register, RegisterFails, Open, kernelVars, streamVars,
              Refusals, ServerInv, TypeOK
<1>5. CASE Closes
  BY <1>5, ClosesOne DEF Closes, Refusals
<1>6. ASSUME NEW n \in Nat, Reads(n) PROVE Refusals'
  <2>1. phase[Stream] = "accepted"
    BY <1>6, InHand DEF Reads, InRecv, ServerInv, StreamOwned
  <2> QED  BY <1>6, <2>1 DEF Reads, Refusals, ServerInv, TypeOK
<1>7. CASE Drain
  BY <1>7 DEF Drain, Close, Refusals, ServerInv, TypeOK
<1> QED  BY <1>1, <1>2, <1>3, <1>4, <1>5, <1>6, <1>7, StepKinds

-----------------------------------------------------------------------------
(* The theorems. *)

LEMMA InitUsage == Init => UsageInv
<1> SUFFICES ASSUME Init PROVE UsageInv
  OBVIOUS
<1>1. Arenas
  BY DEF Init, Arenas
<1>2. Queued /\ Dialled /\ Edges
  BY DEF Init, Queued, Dialled, Edges
<1>3. Filled /\ Pending
  BY DEF Init, Filled, Pending, InRecv
<1>4. DataNotStranded /\ Refusals
  BY DEF Init, DataNotStranded, Refusals
<1> QED  BY <1>1, <1>2, <1>3, <1>4 DEF UsageInv

\* The bookkeeping and what the loop does with it, for every number of servers,
\* clients and connections.
THEOREM UsageInvariance == Spec => [](ServerInv /\ UsageInv)
<1>1. Init => ServerInv /\ UsageInv
  BY InitInv, InitUsage
<1>2. ServerInv /\ UsageInv /\ [Next]_vars => (ServerInv /\ UsageInv)'
  BY NextInv, ArenasKept, QueuedKept, DialledKept, FilledKept, PendingKept, DataKept, EdgesKept,
     RefusalsKept
  DEF UsageInv
<1> QED  BY <1>1, <1>2, PTL DEF Spec

\* Whatever earlier handlers of a batch did, the next event is still of a file
\* that is readable: the blocking accept never waits, and recv waits for a
\* client only before the first byte of its request or on a full buffer.
THEOREM EventsStayReadable == Spec => []EventStillReadable
<1>1. UsageInv => EventStillReadable
  BY DEF UsageInv, Pending, EventStillReadable, InRecv
<1> QED  BY <1>1, UsageInvariance, PTL

\* The next event on an open connection finds room for what it reports, and
\* the acceptor the client dialled.
THEOREM ConnectionsStayUsable == Spec => []OpenConnectionUsable
<1>1. UsageInv => OpenConnectionUsable
  BY DEF UsageInv, Dialled, Filled, OpenConnectionUsable, Handled
<1> QED  BY <1>1, UsageInvariance, PTL

\* A recycled connection has nothing of the request before it.
THEOREM ArenasAreFresh == Spec => []FreshArena
<1>1. ServerInv /\ UsageInv => FreshArena
  BY DEF UsageInv, Arenas, FreshArena
<1> QED  BY <1>1, UsageInvariance, PTL

\* An orderly shutdown closes all there is, in whatever state it found it.
THEOREM ExitsClean == Spec => []CleanExit
<1>1. ServerInv /\ UsageInv => CleanExit
  <2> SUFFICES ASSUME ServerInv, UsageInv, pc = "exited"
               PROVE  /\ listening = {}
                      /\ \A c \in Clients : phase[c] \in {"idle", "closed"} /\ watch[c] = None
                      /\ freeCount = Capacity
                      /\ \A k \in Items : arena[k] = "gone"
    BY DEF CleanExit
  <2> USE DEF ServerInv, UsageInv
  <2>1. listening = {} /\ \A k \in Items : arena[k] = "gone" /\ sockfd[k] = None
    BY DEF Arenas
  <2>2. \A k \in Items : InPool(k)
    BY <2>1 DEF PoolExact, Taken
  <2>3. freeCount = Capacity
    BY <2>2, AllInPoolFull DEF TypeOK
  <2>4. ASSUME NEW c \in Clients PROVE phase[c] \in {"idle", "closed"} /\ watch[c] = None
    <3>1. phase[c] # "queued" /\ phase[c] # "accepted"
      BY <2>1, NoneNotIn DEF Queued, StreamOwned
    <3>2. \A k \in Items : watch[c] # k
      BY <2>1, NoneNotIn DEF WatchExact
    <3> QED  BY <3>1, <3>2 DEF TypeOK
  <2> QED  BY <2>1, <2>3, <2>4
<1> QED  BY <1>1, UsageInvariance, PTL

\* Although an edge is reported once and a short read ends the handler, no
\* bytes wait for an event that does not come.
THEOREM NoDataIsStranded == Spec => []DataNotStranded
<1>1. UsageInv => DataNotStranded
  BY DEF UsageInv
<1> QED  BY <1>1, UsageInvariance, PTL

\* With finitely many clients an edge of a listener has a client of its own.
THEOREM EdgesHaveClients == Spec => [](IsFiniteSet(Clients) => EdgeHasClient)
<1>1. ServerInv /\ UsageInv => (IsFiniteSet(Clients) => EdgeHasClient)
  <2> SUFFICES ASSUME ServerInv, UsageInv, IsFiniteSet(Clients), NEW s \in ready \cap Servers
               PROVE  Cardinality(Backlog(s)) > Claims(s)
    BY DEF EdgeHasClient
  <2> DEFINE E == {ev \in batch : ev.file = s}
             Taking == pc \in {"accept", "drop"} /\ srv = s
  <2>1. /\ Backlog(s) # {}
        /\ (E # {} \/ Taking) => \E c, d \in Backlog(s) : c # d
        /\ Taking => E = {}
    BY DEF UsageInv, Edges, Claimed, Pending
  <2>2. \A e, f \in E : e = f
    BY InBatch
  <2>3. IsFiniteSet(Backlog(s)) /\ Cardinality(Backlog(s)) \in Nat
    <3>1. Backlog(s) \subseteq Clients
      BY DEF Backlog
    <3> QED  BY <3>1, FS_Subset, FS_CardinalityType
  <2>4. Claims(s) = Cardinality(E) + (IF Taking THEN 1 ELSE 0)
    BY DEF Claims
  <2> HIDE DEF E, Taking
  <2>5. E = {} => Cardinality(E) = 0
    BY FS_EmptySet
  <2>6. E # {} => Cardinality(E) = 1
    <3> SUFFICES ASSUME NEW e \in E PROVE Cardinality(E) = 1
      OBVIOUS
    <3>1. E = {e}
      BY <2>2
    <3> QED  BY <3>1, FS_Singleton
  <2>7. Cardinality(Backlog(s)) >= 1
    BY <2>1, <2>3, FS_EmptySet
  <2>8. ASSUME NEW c \in Backlog(s), NEW d \in Backlog(s), c # d
        PROVE  Cardinality(Backlog(s)) >= 2
    <3>1. IsFiniteSet({c, d}) /\ Cardinality({c, d}) = 2
      <4>1. IsFiniteSet({c}) /\ Cardinality({c}) = 1
        BY FS_Singleton
      <4>2. IsFiniteSet({c} \cup {d}) /\ Cardinality({c} \cup {d}) = Cardinality({c}) + 1
        BY <4>1, <2>8, FS_AddElement
      <4>3. {c} \cup {d} = {c, d}
        OBVIOUS
      <4> QED  BY <4>1, <4>2, <4>3
    <3>2. Cardinality({c, d}) <= Cardinality(Backlog(s))
      <4>1. {c, d} \subseteq Backlog(s)
        OBVIOUS
      <4> QED  BY <4>1, <2>3, FS_Subset
    <3> QED  BY <3>1, <3>2
  <2>9. CASE E = {} /\ ~Taking
    BY <2>3, <2>4, <2>5, <2>7, <2>9
  <2>10. CASE E # {} \/ Taking
    <3>1. Cardinality(Backlog(s)) >= 2
      BY <2>1, <2>8, <2>10
    <3>2. Claims(s) = 1
      BY <2>1, <2>4, <2>5, <2>6, <2>10
    <3> QED  BY <3>1, <3>2, <2>3
  <2> QED  BY <2>9, <2>10
<1> QED  BY <1>1, UsageInvariance, PTL

-----------------------------------------------------------------------------
(* The server implements ServerContract: each step is a step of the         *)
(* contract, or changes nothing a client sees.                              *)

LEMMA SeenNothing ==
  ASSUME phase' = phase, Spoken' = Spoken, Stopping' = Stopping, Trouble => Trouble'
  PROVE  [Contract!Next]_(Contract!vars)
<1>1. CASE Trouble'
  BY <1>1 DEF Contract!Next, Contract!Trouble
<1>2. CASE ~Trouble'
  <2>1. Trouble' = Trouble
    BY <1>2 DEF Trouble
  <2> QED  BY <2>1 DEF Contract!vars
<1> QED  BY <1>1, <1>2

LEMMA StopMaps ==
  ASSUME phase' = phase, Spoken' = Spoken, Stopping', Trouble'
  PROVE  [Contract!Next]_(Contract!vars)
<1>1. CASE Stopping
  <2>1. Stopping' = Stopping
    BY <1>1 DEF Stopping, Stopped
  <2> QED  BY <2>1, SeenNothing
<1>2. CASE ~Stopping
  BY <1>2 DEF Contract!Next, Contract!Stop
<1> QED  BY <1>1, <1>2

LEMMA FinishMaps ==
  ASSUME NEW c \in Clients, phase[c] = "accepted",
         phase' = [phase EXCEPT ![c] = "closed"], Spoken' = Spoken \ {c},
         Stopping' = Stopping, Trouble => Trouble',
         c \in Spoken \/ Trouble' \/ Stopping
  PROVE  Contract!Next
BY DEF Contract!Next, Contract!Finish, Contract!Move

\* Whether the server knows of bytes of a stream.
HasRead(c) ==
  \E k \in Items : sockfd[k] = c /\ last[k] > 0 /\ ~(cur = k /\ pc \in {"register", "open"})

IsOpen(c) == phase[c] \in {"queued", "accepted"}

LEMMA SpokenIs ==
  /\ Spoken = {c \in Clients : IsOpen(c) /\ (StreamReadable(c) \/ HasRead(c))}
  /\ Spoken' = {c \in Clients : IsOpen(c)' /\ (StreamReadable(c)' \/ HasRead(c)')}
BY DEF Spoken, HasRead, IsOpen

LEMMA SpokenSame ==
  ASSUME UNCHANGED <<phase, rcvq, peerEnd, sockfd, last>>,
         \/ UNCHANGED <<pc, cur>>
         \/ pc \notin {"register", "open"} /\ pc' \notin {"register", "open"}
         \/ pc \in {"register", "open"} /\ pc' \in {"register", "open"} /\ cur' = cur
  PROVE  Spoken' = Spoken
<1>1. \A c : HasRead(c)' <=> HasRead(c)
  BY DEF HasRead
<1>2. \A c : /\ StreamReadable(c)' <=> StreamReadable(c)
             /\ IsOpen(c)' <=> IsOpen(c)
  BY DEF StreamReadable, IsOpen
<1> QED  BY <1>1, <1>2, SpokenIs

\* A connection is closed: nothing changes for the other streams.
LEMMA SpokenWithout ==
  ASSUME ServerInv, NEW k \in Items, NEW c \in Clients, sockfd[k] = c,
         phase' = [phase EXCEPT ![c] = "closed"], sockfd' = [sockfd EXCEPT ![k] = None],
         \A d \in Clients : d # c => rcvq'[d] = rcvq[d] /\ peerEnd'[d] = peerEnd[d],
         \A j \in Items : j # k => last'[j] = last[j],
         pc \in {"register", "open"} => cur = k, pc' \notin {"register", "open"}
  PROVE  Spoken' = Spoken \ {c} /\ phase[c] = "accepted"
<1> USE DEF ServerInv
<1>1. phase[c] = "accepted" /\ \A j \in Items : sockfd[j] = c => j = k
  BY NoneNotIn DEF StreamOwned
<1>2. \A d \in Clients : d # c => (StreamReadable(d)' <=> StreamReadable(d))
  BY DEF StreamReadable
<1>3. ASSUME NEW d \in Clients, d # c PROVE HasRead(d)' <=> HasRead(d)
  <2>1. \A j \in Items : sockfd'[j] = d <=> sockfd[j] = d
    BY <1>1, <1>3, NoneNotIn DEF TypeOK
  <2>2. \A j \in Items : sockfd[j] = d => j # k
    BY <1>3
  <2> QED  BY <2>1, <2>2 DEF HasRead
<1>4. \A d \in Clients : phase'[d] = IF d = c THEN "closed" ELSE phase[d]
  BY DEF TypeOK
<1>5. \A d \in Clients : IsOpen(d)' <=> IsOpen(d) /\ d # c
  BY <1>4 DEF IsOpen
<1>6. \A d : d \in Spoken' <=> d \in Spoken /\ d # c
  BY <1>2, <1>3, <1>5, SpokenIs
<1> QED  BY <1>1, <1>6

\* What ends the connection in hand ends it for a reason.
LEMMA ClosesMaps ==
  ASSUME ServerInv, Closes, Stream \in Spoken \/ Trouble', Trouble => Trouble'
  PROVE  [Contract!Next]_(Contract!vars)
<1>1. /\ cur \in Items /\ Stream \in Clients /\ sockfd[cur] = Stream
      /\ phase' = [phase EXCEPT ![Stream] = "closed"]
      /\ sockfd' = [sockfd EXCEPT ![cur] = None]
  BY InHand DEF Closes, Close, Stream
<1>2. Spoken' = Spoken \ {Stream} /\ phase[Stream] = "accepted"
  BY <1>1, SpokenWithout, ZenonT(30) DEF Closes
<1>3. Stopping' = Stopping
  BY DEF Closes, Stopping, Stopped
<1> QED  BY <1>1, <1>2, <1>3, FinishMaps

\* The streams that are served are those of the connections in use.
LEMMA ServedCount ==
  ASSUME ServerInv
  PROVE  /\ (\A k \in Items : sockfd[k] # None) => Cardinality(Contract!Served) = Capacity
         /\ (\E k \in Items : sockfd[k] = None) => Cardinality(Contract!Served) < Capacity
<1> USE DEF ServerInv
<1> DEFINE Used == {k \in Items : sockfd[k] # None}
           f == [k \in Used |-> sockfd[k]]
           S == Contract!Served
<1>1. IsFiniteSet(Used) /\ Cardinality(Used) \in Nat
  <2>1. Used \subseteq Items
    OBVIOUS
  <2> QED  BY <2>1, ItemsCardinality, FS_Subset, FS_CardinalityType
<1>2. Cardinality(S) = Cardinality(Used)
  <2>1. S = {c \in Clients : phase[c] = "accepted"}
    BY DEF Contract!Served
  <2>2. f \in [Used -> S]
    BY <2>1, NoneNotIn DEF StreamOwned, TypeOK
  <2>3. \A a, b \in Used : f[a] = f[b] => a = b
    BY DEF StreamOwned
  <2>4. \A c \in S : \E k \in Used : f[k] = c
    BY <2>1, NoneNotIn DEF StreamOwned
  <2>5. ExistsBijection(Used, S)
    <3> HIDE DEF f, Used, S
    <3>1. f \in Bijection(Used, S)
      BY <2>2, <2>3, <2>4, Fun_IsBij
    <3> QED  BY <3>1 DEF ExistsBijection
  <2> HIDE DEF S, Used
  <2> QED  BY <2>5, <1>1, FS_Bijection
<1>3. ASSUME \A k \in Items : sockfd[k] # None PROVE Cardinality(S) = Capacity
  <2>1. Used = Items
    BY <1>3
  <2> QED  BY <2>1, <1>2, ItemsCardinality
<1>4. ASSUME NEW k \in Items, sockfd[k] = None PROVE Cardinality(S) < Capacity
  <2>1. Used \subseteq Items /\ Used # Items
    BY <1>4
  <2>2. Cardinality(Used) <= Cardinality(Items) /\ Cardinality(Used) # Cardinality(Items)
    <3> HIDE DEF Used
    <3> QED  BY <2>1, ItemsCardinality, FS_Subset
  <2> HIDE DEF S, Used
  <2> QED  BY <2>2, <1>1, <1>2, ItemsCardinality, CapacityAssumption
<1> QED  BY <1>3, <1>4

LEMMA SameCardinality == \A S : Contract!Cardinality(S) = Cardinality(S)
BY DEF Cardinality, Contract!Cardinality

LEMMA ClientMaps ==
  ASSUME ServerInv, Refusals, NEW c \in Clients, Connect(c) \/ Speak(c)
  PROVE  Contract!Next
<1> USE DEF ServerInv
<1>1. /\ UNCHANGED <<pc, cur, sockfd, last>>
      /\ Stopping' = Stopping /\ Trouble' = Trouble
  BY DEF Connect, Speak, Send, Fin, Reset, threadVars, connVars, Stopping, Stopped, Trouble
<1>2. \A d : HasRead(d)' <=> HasRead(d)
  BY <1>1 DEF HasRead
<1>3. CASE Connect(c)
  <2>1. /\ phase[c] = "idle" /\ phase' = [phase EXCEPT ![c] = "queued"]
        /\ UNCHANGED <<rcvq, peerEnd>>
    BY <1>3 DEF Connect
  <2>2. ~StreamReadable(c) /\ ~HasRead(c)
    BY <2>1 DEF Refusals, StreamReadable, HasRead, StreamOwned
  <2>3. \A d \in Clients : /\ StreamReadable(d)' <=> StreamReadable(d)
                           /\ d # c => (IsOpen(d)' <=> IsOpen(d))
    BY <2>1 DEF StreamReadable, IsOpen, TypeOK
  <2>4. Spoken' = Spoken
    BY <1>2, <2>2, <2>3, SpokenIs
  <2> QED  BY <1>1, <2>1, <2>4 DEF Contract!Next, Contract!Connect, Contract!Move
<1>4. CASE Speak(c)
  <2>1. /\ phase' = phase /\ IsOpen(c) /\ StreamReadable(c)'
        /\ \A d \in Clients : d # c => rcvq'[d] = rcvq[d] /\ peerEnd'[d] = peerEnd[d]
    BY <1>4 DEF Speak, Send, Fin, Reset, PeerUp, IsOpen, StreamReadable, TypeOK
  <2>2. \A d \in Clients : /\ d # c => (StreamReadable(d)' <=> StreamReadable(d))
                           /\ IsOpen(d)' <=> IsOpen(d)
    BY <2>1 DEF StreamReadable, IsOpen
  <2>3. Spoken' = Spoken \cup {c}
    BY <1>2, <2>1, <2>2, SpokenIs
  <2> QED  BY <1>1, <2>1, <2>3 DEF Contract!Next, Contract!Speak, IsOpen
<1> QED  BY <1>3, <1>4

\* The stream in hand has said something, if recv returned.
LEMMA InHandSpoken ==
  ASSUME ServerInv, InRecv, StreamReadable(Stream) \/ Room = 0
  PROVE  Stream \in Spoken
<1>1. /\ cur \in Items /\ Stream \in Clients /\ sockfd[cur] = Stream
      /\ acceptor[cur] \in Servers /\ pc \in {"recv", "receiving"}
  BY InHand DEF InRecv
<1>2. IsOpen(Stream)
  BY <1>1 DEF IsOpen, ServerInv, StreamOwned
<1>3. Room = 0 => HasRead(Stream)
  <2>1. BufferSize[acceptor[cur]] \in Nat \ {0} /\ last[cur] \in Nat
    BY <1>1, ServerAssumption DEF ServerInv, TypeOK
  <2>2. Room = 0 => last[cur] > 0
    BY <2>1 DEF Room
  <2> QED  BY <1>1, <2>2 DEF HasRead
<1> QED  BY <1>1, <1>2, <1>3, SpokenIs

\* The loop, and the waits for the next event.
LEMMA LoopMaps ==
  ASSUME ServerInv,
         \/ CheckShutdown \/ WaitBlocks \/ WaitReturns \/ WaitFails \/ BatchDone
         \/ DropFails \/ AcceptFails \/ RecvBlocks \/ AcceptorsClosed \/ CloseReactor
         \/ \E ev \in batch : HandleAccept(ev) \/ HandleRead(ev)
  PROVE  [Contract!Next]_(Contract!vars)
<1>1. /\ UNCHANGED <<phase, rcvq, peerEnd, sockfd, last, shutdown>>
      /\ pc \notin {"register", "open", "crashed"}
      /\ pc' \notin {"register", "open"} /\ (pc' = "crashed" => AcceptFails)
  BY DEF CheckShutdown, WaitBlocks, WaitReturns, WaitFails, BatchDone, DropFails, AcceptFails,
         RecvBlocks, AcceptorsClosed, CloseReactor, HandleAccept, HandleRead, InRecv, connVars,
         kernelVars, streamVars
<1>2. Spoken' = Spoken /\ phase' = phase
  BY <1>1, SpokenSame
<1>3. CASE WaitFails
  <2>1. pc' = "closing" /\ faults' > 0
    BY <1>3 DEF WaitFails, Fault, ServerInv, TypeOK
  <2> QED  BY <1>2, <2>1, StopMaps DEF Stopping, Trouble
<1>4. CASE CheckShutdown /\ shutdown
  BY <1>1, <1>2, <1>4, StopMaps DEF CheckShutdown, Stopping, Trouble
<1>5. CASE AcceptFails /\ pc' = "crashed"
  <2>1. pc = "accept" /\ faults' > 0
    BY <1>5 DEF AcceptFails, Fault, ServerInv, TypeOK
  <2> QED  BY <1>2, <1>5, <2>1, StopMaps DEF Stopping, Stopped, Trouble
<1>6. CASE ~WaitFails /\ ~(CheckShutdown /\ shutdown) /\ ~(AcceptFails /\ pc' = "crashed")
  <2>1. /\ faults' = faults \/ faults' = faults + 1
        /\ pc \in {"check", "wait", "waiting", "dispatch", "drop", "accept", "recv"} =>
             pc' \in {"check", "wait", "waiting", "dispatch", "drop", "accept", "recv",
                      "receiving"}
        /\ pc \in {"closing", "drain"} => pc' \in {"drain", "exited"}
        /\ pc \in {"check", "wait", "waiting", "dispatch", "drop", "accept", "recv",
                   "closing", "drain"}
    BY <1>6 DEF CheckShutdown, WaitBlocks, WaitReturns, BatchDone, DropFails, AcceptFails,
         RecvBlocks, AcceptorsClosed, CloseReactor, HandleAccept, HandleRead, Fault
  <2>2. Stopping' = Stopping
    BY <2>1 DEF Stopping, Stopped
  <2>3. Trouble => Trouble'
    <3>1. faults > 0 => faults' > 0
      BY <2>1 DEF ServerInv, TypeOK
    <3> QED  BY <1>1, <3>1 DEF Trouble
  <2> QED  BY <1>2, <2>2, <2>3, SeenNothing
<1> QED  BY <1>3, <1>4, <1>5, <1>6

\* Taking a client from the queue of a listener.
LEMMA AcceptMaps ==
  ASSUME ServerInv, Refusals, Drop \/ Accept
  PROVE  Contract!Next
<1> USE DEF ServerInv
<1>1. /\ ~Stopping /\ Stopping' = Stopping /\ Trouble' = Trouble
      /\ UNCHANGED <<rcvq, peerEnd, last>>
  <2>1. /\ pc \in {"drop", "accept"} /\ pc' \in {"dispatch", "register"}
        /\ UNCHANGED <<rcvq, peerEnd, last, shutdown, faults>>
    BY DEF Drop, Accept, connVars
  <2> QED  BY <2>1 DEF Stopping, Stopped, Trouble
<1>2. \A d : StreamReadable(d)' <=> StreamReadable(d)
  BY <1>1 DEF StreamReadable
<1>3. CASE Drop
  <2>1. PICK c \in Backlog(srv) : phase' = [phase EXCEPT ![c] = "closed"]
    BY <1>3 DEF Drop
  <2>2. c \in Clients /\ phase[c] = "queued"
    BY DEF Backlog
  <2>3. \A d : HasRead(d)' <=> HasRead(d)
    BY <1>3 DEF Drop, HasRead, connVars
  <2>4. \A d \in Clients : IsOpen(d)' <=> IsOpen(d) /\ d # c
    BY <2>1, <2>2 DEF IsOpen, TypeOK
  <2>5. Spoken' = Spoken \ {c}
    BY <1>2, <2>3, <2>4, SpokenIs
  <2>6. Cardinality(Contract!Served) = Capacity
    <3>1. freeCount = 0 /\ pc = "drop"
      BY <1>3 DEF Drop, Refusals
    <3>2. \A k \in Items : ~InPool(k)
      BY <3>1 DEF InPool
    <3>3. \A k \in Items : sockfd[k] # None
      BY <3>1, <3>2 DEF PoolExact, Taken
    <3> QED  BY <3>3, ServedCount
  <2> QED
    BY <1>1, <2>1, <2>2, <2>5, <2>6, SameCardinality
    DEF Contract!Next, Contract!Refuse, Contract!Move
<1>4. CASE Accept
  <2>1. PICK c \in Backlog(srv) : /\ phase' = [phase EXCEPT ![c] = "accepted"]
                                  /\ sockfd' = [sockfd EXCEPT ![cur] = c]
    BY <1>4 DEF Accept
  <2>2. /\ c \in Clients /\ phase[c] = "queued" /\ cur \in Items /\ sockfd[cur] = None
        /\ pc = "accept" /\ pc' = "register" /\ cur' = cur
    BY <1>4, InHand DEF Backlog, Accept
  <2>3. \A d \in Clients : HasRead(d)' <=> HasRead(d)
    <3>1. \A k \in Items : sockfd'[k] = IF k = cur THEN c ELSE sockfd[k]
      BY <2>1, <2>2 DEF TypeOK
    <3> QED  BY <1>1, <2>2, <3>1, NoneNotIn DEF HasRead
  <2>4. \A d \in Clients : IsOpen(d)' <=> IsOpen(d)
    BY <2>1, <2>2 DEF IsOpen, TypeOK
  <2>5. Spoken' = Spoken
    BY <1>2, <2>3, <2>4, SpokenIs
  <2>6. Cardinality(Contract!Served) < Capacity
    BY <2>2, ServedCount
  <2> QED
    BY <1>1, <2>1, <2>2, <2>5, <2>6, SameCardinality
    DEF Contract!Next, Contract!Accept, Contract!Move
<1> QED  BY <1>3, <1>4

\* The steps of a handler on the connection it has in hand.
LEMMA HandlerMaps ==
  ASSUME ServerInv,
         Register \/ RegisterFails \/ Open \/ OpenFails \/ ClosedByPeer \/ RecvError \/ RecvBytes
  PROVE  [Contract!Next]_(Contract!vars)
<1> USE DEF ServerInv
<1>1. CASE Register
  <2>1. /\ pc = "register" /\ pc' = "open" /\ cur' = cur
        /\ UNCHANGED <<phase, rcvq, peerEnd, sockfd, last, shutdown, faults>>
    BY <1>1 DEF Register, streamVars
  <2> QED  BY <2>1, SpokenSame, SeenNothing DEF Stopping, Stopped, Trouble
<1>2. CASE Open
  <2>1. /\ pc = "open" /\ pc' = "recv" /\ cur' = cur /\ cur \in Items
        /\ last' = [last EXCEPT ![cur] = 0]
        /\ UNCHANGED <<phase, rcvq, peerEnd, sockfd, shutdown, faults>>
    BY <1>2, InHand DEF Open, kernelVars
  <2>2. \A k \in Items : last'[k] = IF k = cur THEN 0 ELSE last[k]
    BY <2>1 DEF TypeOK
  <2>3. \A c : HasRead(c)' <=> HasRead(c)
    BY <2>1, <2>2 DEF HasRead
  <2>4. \A c : (StreamReadable(c)' <=> StreamReadable(c)) /\ (IsOpen(c)' <=> IsOpen(c))
    BY <2>1 DEF StreamReadable, IsOpen
  <2>5. Spoken' = Spoken
    BY <2>3, <2>4, SpokenIs
  <2> QED  BY <2>1, <2>5, SeenNothing DEF Stopping, Stopped, Trouble
<1>3. CASE RegisterFails
  <2>1. /\ pc = "register" /\ pc' = "dispatch" /\ UNCHANGED <<rcvq, peerEnd, last>>
        /\ phase' = [phase EXCEPT ![Stream] = "closed"]
        /\ sockfd' = [sockfd EXCEPT ![cur] = None]
        /\ faults' = faults + 1
    BY <1>3 DEF RegisterFails, Fault, Stream
  <2>2. Spoken' = Spoken \ {Stream} /\ phase[Stream] = "accepted" /\ Stream \in Clients
    BY <2>1, InHand, SpokenWithout
  <2>3. Stopping' = Stopping
    BY <2>1 DEF Stopping, Stopped
  <2>4. Trouble'
    BY <2>1 DEF Trouble, TypeOK
  <2> QED  BY <2>1, <2>2, <2>3, <2>4, FinishMaps
<1>4. CASE OpenFails
  <2>1. Closes /\ faults' = faults + 1
    BY <1>4 DEF OpenFails, CloseCurrent, GiveUp, Closes, Fault, TypeOK
  <2>2. Trouble'
    BY <2>1 DEF Trouble, TypeOK
  <2> QED  BY <2>1, <2>2, ClosesMaps
<1>5. ASSUME GiveUp, UNCHANGED <<shutdown, faults>>, InRecv, StreamReadable(Stream) \/ Room = 0
      PROVE  [Contract!Next]_(Contract!vars)
  <2>1. Closes
    BY <1>5 DEF GiveUp, Closes, InRecv, TypeOK
  <2>2. Trouble => Trouble'
    BY <1>5 DEF Trouble, InRecv
  <2> QED  BY <1>5, <2>1, <2>2, InHandSpoken, ClosesMaps
<1>6. CASE ClosedByPeer
  BY <1>5, <1>6 DEF ClosedByPeer, CloseCurrent, NoFault, StreamReadable
<1>7. CASE RecvError
  <2>1. StreamReadable(Stream) /\ InRecv /\ UNCHANGED <<shutdown, faults>>
    BY <1>7 DEF RecvError, StreamReadable, NoFault
  <2>2. CASE Die
    <3>1. /\ pc \in {"recv", "receiving"} /\ pc' = "crashed"
          /\ UNCHANGED <<phase, rcvq, peerEnd, sockfd, last>>
      BY <2>1, <2>2 DEF Die, InRecv, connVars, kernelVars
    <3> QED  BY <3>1, SpokenSame, StopMaps DEF Stopping, Stopped, Trouble
  <2> QED  BY <1>5, <1>7, <2>1, <2>2 DEF RecvError, LogRecvError
<1>8. CASE RecvBytes
  <2>1. /\ InRecv /\ StreamReadable(Stream) /\ UNCHANGED <<shutdown, faults>>
        /\ pc \in {"recv", "receiving"} /\ pc' # "crashed"
    BY <1>8 DEF RecvBytes, StreamReadable, InRecv, AfterRead
  <2>2. Stream \in Spoken /\ (Trouble => Trouble')
    BY <2>1, InHandSpoken DEF Trouble
  <2>3. CASE Closes
    BY <2>2, <2>3, ClosesMaps
  <2>4. ASSUME NEW n \in Nat, Reads(n) PROVE [Contract!Next]_(Contract!vars)
    <3>1. /\ cur' = cur /\ pc' \in {"dispatch", "recv"} /\ n > 0
          /\ UNCHANGED <<phase, peerEnd, sockfd>>
          /\ cur \in Items /\ sockfd[cur] = Stream
          /\ \A k \in Items : sockfd[k] = Stream => k = cur
      BY <2>1, <2>4, InHand DEF Reads
    <3>2. /\ \A k \in Items : last'[k] = IF k = cur THEN last[k] + n ELSE last[k]
          /\ \A c \in Clients : c # Stream => rcvq'[c] = rcvq[c]
      BY <2>4 DEF Reads, TypeOK
    <3>3. last'[cur] > 0
      BY <3>1, <3>2 DEF TypeOK
    <3>4. PICK s \in Clients : s = Stream
      BY <2>1, InHand
    <3>5. \A c \in Clients : c # s => (HasRead(c)' <=> HasRead(c))
      BY <2>1, <3>1, <3>2, <3>4 DEF HasRead
    <3>6. HasRead(s)'
      BY <3>1, <3>3, <3>4 DEF HasRead
    <3>7. /\ \A c \in Clients : c # s => (StreamReadable(c)' <=> StreamReadable(c))
          /\ \A c \in Clients : IsOpen(c)' <=> IsOpen(c)
      BY <3>1, <3>2, <3>4 DEF StreamReadable, IsOpen
    <3>8. Spoken' = Spoken
      BY <2>2, <3>4, <3>5, <3>6, <3>7, SpokenIs
    <3>9. Stopping' = Stopping
      BY <2>1, <3>1 DEF Stopping, Stopped
    <3> QED  BY <2>2, <3>1, <3>8, <3>9, SeenNothing
  <2> QED  BY <1>8, <2>3, <2>4, ReadsOrCloses
<1> QED  BY <1>1, <1>2, <1>3, <1>4, <1>6, <1>7, <1>8

\* A signal, and a close that fails.
LEMMA SignalMaps ==
  ASSUME ServerInv, Signal \/ CloseFails
  PROVE  [Contract!Next]_(Contract!vars)
<1> USE DEF ServerInv
<1>1. Trouble'
  <2>1. shutdown' \/ (faults \in Nat /\ faults' = faults + 1)
    BY ServerAssumption DEF Signal, CloseFails, Fault, TypeOK
  <2> QED  BY <2>1 DEF Trouble
<1>2. ASSUME pc \notin {"register", "open"}, Die PROVE [Contract!Next]_(Contract!vars)
  <2>1. pc' = "crashed" /\ UNCHANGED <<phase, rcvq, peerEnd, sockfd, last>>
    BY <1>2 DEF Die, connVars, kernelVars
  <2> QED  BY <1>1, <1>2, <2>1, SpokenSame, StopMaps DEF Stopping, Stopped
<1>3. CASE CloseFails
  BY <1>2, <1>3 DEF CloseFails, InRecv
<1>4. CASE Signal
  <2>1. ASSUME pc = "waiting", pc' = "closing",
               UNCHANGED <<poolVars, cur, srv, batch, connVars, kernelVars>>
        PROVE  [Contract!Next]_(Contract!vars)
    <3>1. UNCHANGED <<phase, rcvq, peerEnd, sockfd, last>>
      BY <2>1 DEF connVars, kernelVars
    <3> QED  BY <1>1, <2>1, <3>1, SpokenSame, StopMaps DEF Stopping
  <2>2. ASSUME UNCHANGED <<poolVars, threadVars, connVars, kernelVars>>
        PROVE  [Contract!Next]_(Contract!vars)
    <3>1. UNCHANGED <<pc, cur, phase, rcvq, peerEnd, sockfd, last>>
      BY <2>2 DEF threadVars, connVars, kernelVars
    <3> QED  BY <1>1, <3>1, SpokenSame, SeenNothing DEF Stopping, Stopped
  <2>3. ASSUME pc = "receiving", LogRecvError PROVE [Contract!Next]_(Contract!vars)
    <3>1. CASE Die
      BY <1>2, <2>3, <3>1
    <3>2. CASE GiveUp
      <4>1. Closes
        BY <2>3, <3>2 DEF GiveUp, Closes, TypeOK
      <4> QED  BY <4>1, <1>1, ClosesMaps
    <3> QED  BY <2>3, <3>1, <3>2 DEF LogRecvError
  <2> QED  BY <1>4, <2>1, <2>2, <2>3 DEF Signal
<1> QED  BY <1>3, <1>4

\* The shutdown.
LEMMA ShutdownMaps ==
  ASSUME ServerInv,
         \/ Drain
         \/ \E s \in Servers : CloseAcceptor(s) \/ CloseAcceptorFails(s)
  PROVE  [Contract!Next]_(Contract!vars)
<1> USE DEF ServerInv
<1>1. CASE Drain
  <2>1. /\ pc = "drain" /\ pc' = "drain" /\ cur \in Items
        /\ UNCHANGED <<last, shutdown, rcvq, peerEnd, faults>>
    BY <1>1 DEF Drain
  <2>2. Stopping' = Stopping /\ Trouble' = Trouble /\ Stopping
    BY <2>1 DEF Stopping, Stopped, Trouble
  <2>3. CASE sockfd[cur] # None
    <3>1. /\ phase' = [phase EXCEPT ![Stream] = "closed"]
          /\ sockfd' = [sockfd EXCEPT ![cur] = None]
          /\ sockfd[cur] = Stream /\ Stream \in Clients
      BY <1>1, <2>3 DEF Drain, Close, Stream, TypeOK
    <3>2. Spoken' = Spoken \ {Stream} /\ phase[Stream] = "accepted"
      BY <2>1, <3>1, SpokenWithout
    <3> QED  BY <2>2, <3>1, <3>2, FinishMaps
  <2>4. CASE sockfd[cur] = None
    <3>1. UNCHANGED <<phase, sockfd>>
      BY <1>1, <2>4 DEF Drain
    <3> QED  BY <2>1, <2>2, <3>1, SpokenSame, SeenNothing
  <2> QED  BY <2>3, <2>4
<1>2. ASSUME NEW s \in Servers, CloseAcceptor(s) \/ CloseAcceptorFails(s)
      PROVE  [Contract!Next]_(Contract!vars)
  <2>1. /\ pc = "closing" /\ pc' \in {"closing", "aborted", "crashed"}
        /\ UNCHANGED <<cur, sockfd, last, shutdown, rcvq, peerEnd>>
        /\ faults' \in {faults, faults + 1}
        /\ StopListening(s) \/ UNCHANGED phase
    BY <1>2 DEF CloseAcceptor, CloseAcceptorFails, NoFault, Fault, threadVars, connVars
  <2>2. Stopping' = Stopping /\ Stopping
    BY <2>1 DEF Stopping, Stopped
  <2>3. Trouble => Trouble'
    <3>1. faults > 0 => faults' > 0
      BY <2>1 DEF TypeOK
    <3> QED  BY <2>1, <3>1 DEF Trouble
  <2>4. CASE UNCHANGED phase
    BY <2>1, <2>2, <2>3, <2>4, SpokenSame, SeenNothing
  <2>5. CASE StopListening(s)
    <3>1. PICK cs \in SUBSET Clients : cs = Backlog(s)
      BY DEF Backlog
    <3>2. /\ phase' = [c \in Clients |-> IF c \in cs THEN "closed" ELSE phase[c]]
          /\ \A c \in cs : phase[c] = "queued"
      BY <2>5, <3>1 DEF StopListening, Backlog
    <3>3. \A c \in Clients : IsOpen(c)' <=> IsOpen(c) /\ c \notin cs
      BY <3>2 DEF IsOpen
    <3>4. \A c : (HasRead(c)' <=> HasRead(c)) /\ (StreamReadable(c)' <=> StreamReadable(c))
      BY <2>1 DEF HasRead, StreamReadable
    <3>5. Spoken' = Spoken \ cs
      BY <3>3, <3>4, SpokenIs
    <3> QED  BY <2>2, <2>3, <3>2, <3>5 DEF Contract!Next, Contract!CutOff
  <2> QED  BY <2>1, <2>4, <2>5
<1> QED  BY <1>1, <1>2

LEMMA InitMaps == Init => Contract!Init
<1> SUFFICES ASSUME Init PROVE Contract!Init
  OBVIOUS
<1>1. phase = [c \in Clients |-> "idle"] /\ ~Stopping /\ ~Trouble
  BY DEF Init, Stopping, Stopped, Trouble
<1>2. Spoken = {}
  BY <1>1, SpokenIs DEF IsOpen
<1> QED  BY <1>1, <1>2 DEF Contract!Init, Stopping, Trouble

\* For every number of clients, listeners and connections, either event queue
\* and any failures: no more streams are served than there are connections,
\* none is turned away while one is free, and none is closed without a reason.
THEOREM KeepsContract == Spec => ImplementsContract
<1>1. Init => Contract!Init
  BY InitMaps
<1>2. ServerInv /\ UsageInv /\ [Next]_vars => [Contract!Next]_(Contract!vars)
  <2> SUFFICES ASSUME ServerInv, Refusals, [Next]_vars
               PROVE  [Contract!Next]_(Contract!vars)
    BY DEF UsageInv
  <2>1. CASE Environment
    BY <2>1, ClientMaps, SignalMaps DEF Environment
  <2>2. CASE Failure
    BY <2>2, LoopMaps, HandlerMaps, SignalMaps, ShutdownMaps DEF Failure
  <2>3. CASE Thread
    BY <2>3, LoopMaps, AcceptMaps, HandlerMaps, ShutdownMaps DEF Thread
  <2>4. CASE UNCHANGED vars
    <3>1. /\ UNCHANGED <<pc, cur, phase, rcvq, peerEnd, sockfd, last>>
          /\ Stopping' = Stopping /\ Trouble' = Trouble
      BY <2>4 DEF vars, Stopping, Stopped, Trouble
    <3> QED  BY <3>1, SpokenSame, SeenNothing
  <2> QED  BY <2>1, <2>2, <2>3, <2>4 DEF Next
<1> QED  BY <1>1, <1>2, UsageInvariance, PTL DEF Spec, ImplementsContract, Contract!Spec
=============================================================================
