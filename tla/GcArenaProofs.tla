--------------------------- MODULE GcArenaProofs ---------------------------
(***************************************************************************)
(* Arenas of every size: for any number of lists, users, items and blocks, *)
(* no two owners share memory, the counters of a block agree with its      *)
(* size, every chunk of the heap is kept once and a list has room for its  *)
(* items.                                                                  *)
(***************************************************************************)
EXTENDS GcArena, FiniteSetTheorems, SequenceTheorems, TLAPS

(* A non-empty set of natural numbers has a least member: what is true of every
   length of a walk is shown by the shortest walk it fails for. *)

Below == {ss \in Nat \X Nat : ss[1] < ss[2]}

LEMMA BelowWellFounded == IsWellFoundedOn(Below, Nat)
  BY NatLessThanWellFounded DEF OpToRel, Below

LEMMA LeastNatural ==
  ASSUME NEW S, S \subseteq Nat, S # {}
  PROVE  \E n \in S : \A m \in S : n <= m
  <1>1. PICK n \in S : \A m \in S : ~(<<m, n>> \in Below)
    BY BelowWellFounded, WFMin
  <1>2. ASSUME NEW m \in S PROVE n <= m
    <2>1. ~(<<m, n>> \in Below)
      BY <1>1
    <2>2. QED
      BY <2>1 DEF Below
  <1>3. QED
    BY <1>2

\* w is the walk over the n blocks behind `before'.
Walked(w, start, before, n) ==
  w = [b \in before .. before + n |-> IF b = before THEN start ELSE PassBlock(w[b - 1], b)]

\* A walk can pass one block more.
LEMMA WalkGoesOn ==
  ASSUME NEW start, NEW before \in Int, NEW n \in Nat \ {0}, NEW v, Walked(v, start, before, n - 1)
  PROVE  \E w : Walked(w, start, before, n)
  <1> DEFINE w == [b \in before .. before + n |->
                     IF b = before + n THEN PassBlock(v[before + n - 1], before + n) ELSE v[b]]
  <1>1. \A b \in before .. before + (n - 1) : 
          v[b] = IF b = before THEN start ELSE PassBlock(v[b - 1], b)
    BY DEF Walked
  <1>2. \A b \in before .. before + n :
          w[b] = IF b = before THEN start ELSE PassBlock(w[b - 1], b)
    <2> TAKE b \in before .. before + n
    <2>1. CASE b = before
      BY <2>1, <1>1
    <2>2. CASE b # before /\ b = before + n
      <3>1. w[b - 1] = v[b - 1]
        BY <2>2
      <3>2. QED
        BY <3>1, <2>2
    <2>3. CASE b # before /\ b # before + n
      <3>1. w[b - 1] = v[b - 1] /\ w[b] = v[b] /\ b \in before .. before + (n - 1)
        BY <2>3
      <3>2. QED
        BY <3>1, <2>3, <1>1
    <2>4. QED
      BY <2>1, <2>2, <2>3
  <1>3. w = [b \in before .. before + n |-> IF b = before THEN start ELSE PassBlock(w[b - 1], b)]
    <2> HIDE DEF w
    <2>1. w = [b \in before .. before + n |-> w[b]]
      BY DEF w
    <2>2. QED
      BY <2>1, <1>2
  <1>4. QED
    BY <1>3 DEF Walked

\* The recursive function of WalkFrom is a function, however long the chain.
LEMMA WalkExists ==
  ASSUME NEW start, NEW before \in Int, NEW n \in Nat
  PROVE  \E w : Walked(w, start, before, n)
  <1> DEFINE Bad == {m \in Nat : ~\E w : Walked(w, start, before, m)}
  <1>1. SUFFICES ASSUME Bad # {} PROVE FALSE
    OBVIOUS
  <1>2. PICK m \in Bad : \A k \in Bad : m <= k
    <2>1. Bad \subseteq Nat
      OBVIOUS
    <2> HIDE DEF Bad
    <2>2. QED
      BY <1>1, <2>1, LeastNatural
  <1>3. CASE m = 0
    <2>1. Walked([b \in before .. before + 0 |-> start], start, before, 0)
      BY DEF Walked
    <2>2. QED
      BY <2>1, <1>3
  <1>4. CASE m # 0
    <2>1. m - 1 \in Nat /\ m - 1 \notin Bad
      BY <1>2, <1>4
    <2>2. PICK v : Walked(v, start, before, m - 1)
      BY <2>1
    <2>3. QED
      BY <2>2, <1>4, WalkGoesOn
  <1>5. QED
    BY <1>3, <1>4

\* What a walk over n blocks is left with, when it started with the block c.
Walks(c, n) ==
  [c : 1 .. c, fails : {f \in Seq(0 .. FailsModulus - 1) : Len(f) = n}]

LEMMA PassBlockBounds ==
  ASSUME NEW n \in Nat, NEW b \in 1 .. n, NEW w \in Walks(b, n)
  PROVE  PassBlock(w, b) \in Walks(b + 1, n)
  <1>1. w.c \in 1 .. n /\ w.fails \in Seq(0 .. FailsModulus - 1) /\ Len(w.fails) = n
    BY DEF Walks
  <1>2. w.fails[w.c] \in Nat
    BY <1>1, ElementOfSeq, ArenaAssumption
  <1>3. (w.fails[w.c] + 1) % FailsModulus \in 0 .. FailsModulus - 1
    BY <1>2, ArenaAssumption
  <1>4. [w.fails EXCEPT ![w.c] = (w.fails[w.c] + 1) % FailsModulus] \in Seq(0 .. FailsModulus - 1)
    BY <1>1, <1>3, ExceptSeq
  <1>5. Len([w.fails EXCEPT ![w.c] = (w.fails[w.c] + 1) % FailsModulus]) = n
    BY <1>1, <1>3, ExceptSeq
  <1>6. (IF w.fails[w.c] > 2 THEN b + 1 ELSE w.c) \in 1 .. b + 1
    BY DEF Walks
  <1>7. QED
    BY <1>4, <1>5, <1>6 DEF PassBlock, Walks

\* A walk ends at a block that exists, and counts no block out of range.
LEMMA WalkBounds ==
  ASSUME NEW n \in Nat, NEW current \in 1 .. n, NEW fails \in Seq(0 .. FailsModulus - 1),
         Len(fails) = n
  PROVE  WalkFrom(current, fails, n) \in Walks(n + 1, n)
  <1> DEFINE before == current - 1
             start == [c |-> current, fails |-> fails]
             w == CHOOSE w : w = [b \in before .. n |->
                                    IF b = before THEN start ELSE PassBlock(w[b - 1], b)]
  <1>1. WalkFrom(current, fails, n) = w[n]
    BY DEF WalkFrom
  <1>2. \E v : v = [b \in before .. n |-> IF b = before THEN start ELSE PassBlock(v[b - 1], b)]
    <2>1. \E v : Walked(v, start, before, n - before)
      <3>1. before \in Int /\ n - before \in Nat
        OBVIOUS
      <3> HIDE DEF start, before
      <3>2. QED BY <3>1, WalkExists
    <2>2. before + (n - before) = n
      OBVIOUS
    <2> HIDE DEF start, before
    <2>3. QED
      BY <2>1, <2>2 DEF Walked
  <1>3. w = [b \in before .. n |-> IF b = before THEN start ELSE PassBlock(w[b - 1], b)]
    BY <1>2
  <1>4. start \in Walks(current, n)
    BY DEF Walks
  <1> HIDE DEF w, start
  <1> DEFINE Bad == {b \in Nat : b \in before .. n /\ w[b] \notin Walks(b + 1, n)}
  <1>5. SUFFICES ASSUME Bad # {} PROVE FALSE
    BY <1>1
  <1>6. PICK b \in Bad : \A k \in Bad : b <= k
    <2>1. Bad \subseteq Nat
      OBVIOUS
    <2> HIDE DEF Bad
    <2>2. QED
      BY <1>5, <2>1, LeastNatural
  <1>7. CASE b = before
    BY <1>3, <1>4, <1>7
  <1>8. CASE b # before
    <2>1. b - 1 \in before .. n /\ b - 1 \in Nat /\ b - 1 \notin Bad /\ b \in 1 .. n
      BY <1>6, <1>8
    <2>2. w[b - 1] \in Walks(b, n)
      BY <2>1
    <2>3. w[b] = PassBlock(w[b - 1], b)
      BY <1>3, <1>8
    <2>4. PassBlock(w[b - 1], b) \in Walks(b + 1, n)
      BY <2>1, <2>2, PassBlockBounds
    <2>5. QED
      BY <2>3, <2>4
  <1>9. QED
    BY <1>7, <1>8

-----------------------------------------------------------------------------
(* The inductive invariant. *)

\* What the fields of wsgi_gc_t and of its blocks can hold.
ArenaShapes ==
  {a \in [used : Seq(Nat), left : Seq(Nat), fails : Seq(0 .. FailsModulus - 1), current : Nat] :
     Len(a.left) = Len(a.used) /\ Len(a.fails) = Len(a.used)}

\* The arena is there, and every block accounts for its size.
ArenaSound ==
  /\ ~gone
  /\ arena \in ArenaShapes
  /\ arena.current \in Blocks
  /\ \A b \in Blocks : arena.used[b] + arena.left[b] = Room(b)

ArenaGone ==
  /\ gone
  /\ arena = [used |-> <<>>, left |-> <<>>, fails |-> <<>>, current |-> 0]

\* A reference keeps one, two or three chunks.
RefsFit ==
  /\ Len(refs) <= MaxRefs
  /\ \A i \in 1 .. Len(refs) : Len(refs[i]) \in 1 .. 3

\* No chunk is kept twice.
KeptOnce ==
  \A i, j \in 1 .. Len(refs), m, n \in 1 .. 3 :
    m <= Len(refs[i]) /\ n <= Len(refs[j]) /\ refs[i][m] = refs[j][n] => i = j /\ m = n

\* The heap is what the references keep.
RefsSound ==
  /\ refs \in Seq(Seq(Nat))
  /\ RefsFit
  /\ heap = Kept
  /\ KeptOnce

\* Memory in use has at least a byte.  This is what makes the end of a list
\* that ends its block the end of everything in the block.
RegionsSized == \A o \in Owners : live[o] # None => live[o].in >= 0 /\ live[o].size > 0

\* Memory in use is of a block, below what the block has given, or a chunk.
RegionsIn ==
  \A o \in Owners :
    /\ live[o].in > 0 =>
         live[o].in \in Blocks /\ live[o].at + live[o].size <= arena.used[live[o].in]
    /\ live[o].in = 0 => live[o].at \in heap

MemorySound ==
  /\ live \in [Owners -> Regions]
  /\ RegionsSized
  /\ RegionsIn
  /\ NoOverlap

\* A list that has no memory has no items.
ListsStart == \A l \in Lists : live[l] = None => length[l] = 0

ListsSound ==
  /\ capacity \in [Lists -> Nat]
  /\ length \in [Lists -> Nat]
  /\ ListsFit
  /\ ListsStart

\* What every step of the arena and of its lists maintains.
Inv ==
  /\ ArenaSound \/ ArenaGone
  /\ RefsSound
  /\ MemorySound
  /\ ListsSound
  /\ gone \in BOOLEAN
  /\ faults \in 0 .. MaxFaults

LEMMA UpToSize ==
  ASSUME NEW n \in Nat
  PROVE  IsFiniteSet(1 .. n) /\ Cardinality(1 .. n) = n
  BY FS_Interval

\* References keep no more chunks than three each.
LEMMA KeptFew ==
  ASSUME RefsFit, refs \in Seq(Seq(Nat))
  PROVE  IsFiniteSet(Kept) /\ Cardinality(Kept) <= 3 * MaxRefs
  <1> DEFINE All == (1 .. MaxRefs) \X (1 .. 3)
             D == {d \in All : d[1] <= Len(refs) /\ d[2] <= Len(refs[d[1]])}
             f == [d \in D |-> refs[d[1]][d[2]]]
  <1>1. IsFiniteSet(All) /\ Cardinality(All) = 3 * MaxRefs
    <2>1. IsFiniteSet(1 .. MaxRefs) /\ Cardinality(1 .. MaxRefs) = MaxRefs
      BY UpToSize, ArenaAssumption
    <2>2. IsFiniteSet(1 .. 3) /\ Cardinality(1 .. 3) = 3
      BY UpToSize
    <2>3. IsFiniteSet(All) /\ Cardinality(All) = Cardinality(1 .. MaxRefs) * Cardinality(1 .. 3)
      BY <2>1, <2>2, FS_Product
    <2>4. MaxRefs * 3 = 3 * MaxRefs
      BY ArenaAssumption
    <2>5. QED
      BY <2>1, <2>2, <2>3, <2>4
  <1>2. IsFiniteSet(D) /\ Cardinality(D) <= 3 * MaxRefs
    <2>1. D \in SUBSET All
      OBVIOUS
    <2>2. IsFiniteSet(D) /\ Cardinality(D) <= Cardinality(All)
      <3> HIDE DEF D, All
      <3>1. QED
        BY <1>1, <2>1, FS_Subset
    <2>3. QED
      BY <1>1, <2>2
  <1>3. \A c \in Kept : \E d \in D : f[d] = c
    <2> TAKE c \in Kept
    <2>0. PICK i \in 1 .. Len(refs) : \E j \in 1 .. Len(refs[i]) : c = refs[i][j]
      BY DEF Kept
    <2>1. PICK j \in 1 .. Len(refs[i]) : c = refs[i][j]
      BY <2>0
    <2>2. i \in 1 .. MaxRefs /\ j \in 1 .. 3
      <3>1. Len(refs) \in Nat /\ Len(refs) <= MaxRefs /\ MaxRefs \in Nat
        BY LenProperties, ArenaAssumption DEF RefsFit
      <3>2. Len(refs[i]) \in 1 .. 3
        BY DEF RefsFit
      <3>3. i \in 1 .. MaxRefs
        BY <3>1
      <3>4. j \in 1 .. 3
        <4>1. ASSUME NEW n \in 1 .. 3, NEW k \in 1 .. n PROVE k \in 1 .. 3
          OBVIOUS
        <4>2. QED
          BY <3>2, <4>1
      <3>5. QED
        BY <3>3, <3>4
    <2>3. <<i, j>> \in D /\ f[<<i, j>>] = c
      BY <2>1, <2>2
    <2>4. QED
      BY <2>3
  <1>4. \A d \in D : f[d] \in Kept
    <2> TAKE d \in D
    <2>1. d[1] \in 1 .. Len(refs) /\ d[2] \in 1 .. Len(refs[d[1]])
      <3>1. Len(refs) \in Nat
        BY LenProperties
      <3>2. d[1] \in 1 .. Len(refs)
        BY <3>1
      <3>3. Len(refs[d[1]]) \in Nat
        BY <3>2 DEF RefsFit
      <3>4. QED
        BY <3>2, <3>3
    <2>2. QED
      BY <2>1 DEF Kept
  <1>5. f \in Surjection(D, Kept)
    <2> HIDE DEF D
    <2>1. f \in [D -> Kept]
      BY <1>4
    <2> HIDE DEF f
    <2>2. QED
      BY <1>3, <2>1 DEF Surjection
  <1>6. IsFiniteSet(Kept) /\ Cardinality(Kept) <= Cardinality(D)
    <2> HIDE DEF D, f
    <2>1. QED
      BY <1>2, <1>5, FS_Surjection
  <1>7. Cardinality(D) \in Nat /\ Cardinality(Kept) \in Nat
    <2> HIDE DEF D
    <2>1. QED
      BY <1>2, <1>6, FS_CardinalityType
  <1> HIDE DEF D
  <1>8. QED
    BY <1>2, <1>6, <1>7, ArenaAssumption

\* malloc finds a chunk that nobody has: the arena keeps at most three for
\* each of its references.
LEMMA ChunkIsFree ==
  ASSUME RefsFit, refs \in Seq(Seq(Nat)), heap = Kept
  PROVE  Chunk \in Nat /\ Chunk \notin heap
  <1> DEFINE Free == {c \in 1 .. 3 * MaxRefs + 1 : c \notin heap}
  <1>1. Free # {}
    <2>1. SUFFICES ASSUME 1 .. 3 * MaxRefs + 1 \subseteq heap PROVE FALSE
      OBVIOUS
    <2>2. IsFiniteSet(heap) /\ Cardinality(heap) <= 3 * MaxRefs
      BY KeptFew
    <2>3. Cardinality(1 .. 3 * MaxRefs + 1) <= Cardinality(heap)
      BY <2>1, <2>2, FS_Subset
    <2>4. Cardinality(1 .. 3 * MaxRefs + 1) = 3 * MaxRefs + 1
      <3>1. 3 * MaxRefs + 1 \in Nat
        BY ArenaAssumption
      <3>2. QED
        BY <3>1, UpToSize
    <2>5. Cardinality(heap) \in Nat
      BY <2>2, FS_CardinalityType
    <2>6. QED
      BY <2>2, <2>3, <2>4, <2>5, ArenaAssumption
  <1>2. PICK c \in Free : \A d \in Free : c <= d
    <2>1. Free \subseteq Nat
      BY ArenaAssumption
    <2> HIDE DEF Free
    <2>2. QED
      BY <1>1, <2>1, LeastNatural
  <1>3. c \in 1 .. 3 * MaxRefs + 1 /\ c \notin heap /\ \A d \in 1 .. c - 1 : d \in heap
    <2>1. \A d \in 1 .. c - 1 : d \in 1 .. 3 * MaxRefs + 1 /\ ~(c <= d)
      BY ArenaAssumption
    <2>2. QED
      BY <1>2, <2>1
  <1>4. Chunk \in 1 .. 3 * MaxRefs + 1 /\ Chunk \notin heap
    BY <1>3 DEF Chunk
  <1>5. QED
    BY <1>4, ArenaAssumption

-----------------------------------------------------------------------------
(* Taking memory. *)

\* A bump moves bytes between the two counters of one block.
LEMMA BumpBlock ==
  ASSUME NEW a \in ArenaShapes, NEW b \in 1 .. Len(a.used), NEW n \in Int,
         a.used[b] + n >= 0, a.left[b] - n >= 0
  PROVE  /\ Bump(a, b, n) \in ArenaShapes
         /\ Len(Bump(a, b, n).used) = Len(a.used)
         /\ Bump(a, b, n).current = a.current
         /\ Bump(a, b, n).fails = a.fails
         /\ \A d \in 1 .. Len(a.used) :
              /\ Bump(a, b, n).used[d] = IF d = b THEN a.used[b] + n ELSE a.used[d]
              /\ Bump(a, b, n).left[d] = IF d = b THEN a.left[b] - n ELSE a.left[d]
  <1>1. a.used \in Seq(Nat) /\ a.left \in Seq(Nat) /\ b \in 1 .. Len(a.left)
    BY DEF ArenaShapes
  <1>2. a.used[b] \in Nat /\ a.left[b] \in Nat
    BY <1>1, ElementOfSeq
  <1> DEFINE u == a.used[b] + n
             l == a.left[b] - n
  <1>3. u \in Nat /\ l \in Nat
    BY <1>2
  <1>4. Bump(a, b, n) = [a EXCEPT !.used = [a.used EXCEPT ![b] = u], !.left = [a.left EXCEPT ![b] = l]]
    BY DEF Bump, ArenaShapes
  <1> HIDE DEF u, l
  <1>5. /\ [a.used EXCEPT ![b] = u] \in Seq(Nat)
        /\ Len([a.used EXCEPT ![b] = u]) = Len(a.used)
        /\ \A d \in 1 .. Len(a.used) : [a.used EXCEPT ![b] = u][d] = IF d = b THEN u ELSE a.used[d]
    BY <1>1, <1>3, ExceptSeq, SMTT(30)
  <1>6. /\ [a.left EXCEPT ![b] = l] \in Seq(Nat)
        /\ Len([a.left EXCEPT ![b] = l]) = Len(a.left)
        /\ \A d \in 1 .. Len(a.left) : [a.left EXCEPT ![b] = l][d] = IF d = b THEN l ELSE a.left[d]
    BY <1>1, <1>3, ExceptSeq
  <1>7. /\ Bump(a, b, n).used = [a.used EXCEPT ![b] = u]
        /\ Bump(a, b, n).left = [a.left EXCEPT ![b] = l]
        /\ Bump(a, b, n).fails = a.fails
        /\ Bump(a, b, n).current = a.current
    BY <1>4 DEF ArenaShapes
  <1>8. Bump(a, b, n) \in [used : Seq(Nat), left : Seq(Nat),
                            fails : Seq(0 .. FailsModulus - 1), current : Nat]
    BY <1>4, <1>5, <1>6 DEF ArenaShapes
  <1>9. Len(a.left) = Len(a.used) /\ Len(a.fails) = Len(a.used)
    BY DEF ArenaShapes
  <1>10. Bump(a, b, n) \in ArenaShapes
    BY <1>5, <1>6, <1>7, <1>8, <1>9 DEF ArenaShapes
  <1>11. \A d \in 1 .. Len(a.used) :
              /\ Bump(a, b, n).used[d] = IF d = b THEN u ELSE a.used[d]
              /\ Bump(a, b, n).left[d] = IF d = b THEN l ELSE a.left[d]
    BY <1>5, <1>6, <1>7, <1>9
  <1>12. QED
    BY <1>5, <1>7, <1>10, <1>11 DEF u, l

\* a has the arena's blocks, none emptier than it was, and may have more.
Grown(a) ==
  /\ a \in ArenaShapes
  /\ a.current \in 1 .. Len(a.used)
  /\ Len(arena.used) <= Len(a.used)
  /\ \A b \in 1 .. Len(a.used) : a.used[b] + a.left[b] = Room(b)
  /\ \A b \in Blocks : arena.used[b] <= a.used[b]

\* n bytes that a has given and the arena had not.
Fresh(region, a, n) ==
  /\ region \in Regions
  /\ region.size = n
  /\ region.in \in 1 .. Len(a.used)
  /\ region.at + n <= a.used[region.in]
  /\ region.in \in Blocks => arena.used[region.in] <= region.at

\* The block that is chosen has the bytes.
LEMMA FittingBlock ==
  ASSUME ArenaSound, NEW n \in Nat, Fitting(n) # {}
  PROVE  FirstFitting(n) \in Blocks /\ arena.left[FirstFitting(n)] >= n
  <1>1. PICK b \in Fitting(n) : \A d \in Fitting(n) : b <= d
    <2>1. Fitting(n) \subseteq Nat
      BY DEF Fitting, Blocks
    <2>2. QED
      BY <2>1, LeastNatural
  <1>2. FirstFitting(n) \in Fitting(n)
    BY <1>1 DEF FirstFitting
  <1>3. QED
    BY <1>2 DEF Fitting

\* wsgi_gc_malloc from a block that is there.
LEMMA CarveFitting ==
  ASSUME ArenaSound, NEW n \in Nat, Fitting(n) # {}
  PROVE  Grown(Carve(n)) /\ Fresh(CarvedAt(n), Carve(n), n)
  <1> DEFINE b == FirstFitting(n)
             a == Bump(arena, b, n)
  <1>1. b \in 1 .. Len(arena.used) /\ arena.left[b] >= n
    BY FittingBlock DEF Blocks
  <1>2. arena \in ArenaShapes /\ arena.current \in 1 .. Len(arena.used)
        /\ \A d \in 1 .. Len(arena.used) : arena.used[d] + arena.left[d] = Room(d)
    BY DEF ArenaSound, Blocks
  <1>3. \A d \in 1 .. Len(arena.used) : arena.used[d] \in Nat /\ arena.left[d] \in Nat
    BY <1>2, ElementOfSeq DEF ArenaShapes
  <1>4. Carve(n) = a /\ CarvedAt(n) = InBlock(b, arena.used[b], n)
    BY DEF Carve, CarvedAt
  <1> HIDE DEF b
  <1>5. /\ a \in ArenaShapes /\ Len(a.used) = Len(arena.used) /\ a.current = arena.current
        /\ \A d \in 1 .. Len(arena.used) :
              /\ a.used[d] = IF d = b THEN arena.used[b] + n ELSE arena.used[d]
              /\ a.left[d] = IF d = b THEN arena.left[b] - n ELSE arena.left[d]
    <2>1. arena.used[b] + n >= 0 /\ arena.left[b] - n >= 0
      BY <1>1, <1>3
    <2>2. n \in Int
      OBVIOUS
    <2>3. QED
      BY <1>1, <1>2, <2>1, <2>2, BumpBlock
  <1> HIDE DEF a
  <1>6. \A d \in 1 .. Len(arena.used) :
          arena.used[d] <= a.used[d] /\ a.used[d] + a.left[d] = Room(d)
    <2> TAKE d \in 1 .. Len(arena.used)
    <2>1. arena.used[d] + arena.left[d] = Room(d)
      BY <1>2
    <2>2. arena.used[d] \in Nat /\ arena.left[d] \in Nat /\ arena.used[b] \in Nat /\ arena.left[b] \in Nat
      BY <1>1, <1>3
    <2>3. CASE d = b
      BY <1>5, <2>1, <2>2, <2>3
    <2>4. CASE d # b
      BY <1>5, <2>1, <2>2, <2>4
    <2>5. QED
      BY <2>3, <2>4
  <1>7. Len(arena.used) \in Nat
    BY <1>2, LenProperties DEF ArenaShapes
  <1>8. Grown(a)
    BY <1>2, <1>5, <1>6, <1>7 DEF Grown, Blocks
  <1>9. Fresh(InBlock(b, arena.used[b], n), a, n)
    <2> DEFINE g == InBlock(b, arena.used[b], n)
    <2>1. g.in = b /\ g.at = arena.used[b] /\ g.size = n
      BY DEF InBlock
    <2>2. g \in Regions
      BY <1>1, <1>3 DEF InBlock, Regions
    <2>3. arena.used[b] + n <= a.used[b] /\ arena.used[b] <= arena.used[b]
      BY <1>1, <1>3, <1>5
    <2> HIDE DEF g
    <2>4. QED
      BY <1>1, <1>5, <2>1, <2>2, <2>3 DEF Fresh, g
  <1>10. QED
    BY <1>4, <1>8, <1>9

\* wsgi_gc_alloc_block: the new block starts with the bytes.
LEMMA CarveNewBlock ==
  ASSUME ArenaSound, NEW n \in 0 .. BlockSize, Fitting(n) = {}
  PROVE  Grown(Carve(n)) /\ Fresh(CarvedAt(n), Carve(n), n)
  <1> DEFINE last == Len(arena.used)
             walk == Walk
             fails == Append(walk.fails, 0)
             used == Append(arena.used, n)
             left == Append(arena.left, BlockSize - n)
             a == [used |-> used, left |-> left, fails |-> fails, current |-> walk.c]
  <1>1. Carve(n) = a /\ CarvedAt(n) = InBlock(last + 1, 0, n)
    BY DEF Carve, CarvedAt, AllocBlock
  <1>2. arena.used \in Seq(Nat) /\ arena.left \in Seq(Nat)
        /\ arena.fails \in Seq(0 .. FailsModulus - 1)
        /\ Len(arena.left) = last /\ Len(arena.fails) = last
    BY DEF ArenaSound, ArenaShapes
  <1>3. last \in Nat /\ arena.current \in 1 .. last
    BY <1>2, LenProperties DEF ArenaSound, Blocks
  <1>4. walk \in Walks(last + 1, last)
    <2> HIDE DEF last
    <2>1. WalkFrom(arena.current, arena.fails, last) \in Walks(last + 1, last)
      BY <1>2, <1>3, WalkBounds
    <2>2. QED
      BY <2>1 DEF Walk, last
  <1> HIDE DEF walk
  <1>5. walk.c \in 1 .. last + 1 /\ walk.fails \in Seq(0 .. FailsModulus - 1) /\ Len(walk.fails) = last
    BY <1>4 DEF Walks
  <1>6. BlockSize - n \in Nat /\ n \in Nat /\ 0 \in 0 .. FailsModulus - 1
    BY ArenaAssumption DEF BlockSize
  <1>7. /\ used \in Seq(Nat) /\ Len(used) = last + 1 /\ used[last + 1] = n
        /\ \A d \in 1 .. last : used[d] = arena.used[d]
    BY <1>2, <1>6, AppendProperties
  <1>8. /\ left \in Seq(Nat) /\ Len(left) = last + 1 /\ left[last + 1] = BlockSize - n
        /\ \A d \in 1 .. last : left[d] = arena.left[d]
    BY <1>2, <1>6, AppendProperties
  <1>9. fails \in Seq(0 .. FailsModulus - 1) /\ Len(fails) = last + 1
    BY <1>5, <1>6, AppendProperties
  <1> HIDE DEF used, left, fails, last
  <1>10. a \in ArenaShapes
    BY <1>3, <1>5, <1>7, <1>8, <1>9 DEF ArenaShapes
  <1>11. \A d \in 1 .. last + 1 : used[d] + left[d] = Room(d)
    <2> TAKE d \in 1 .. last + 1
    <2>1. CASE d = last + 1
      <3>1. Room(d) = BlockSize /\ BlockSize \in Int
        BY <1>3, <2>1, ArenaAssumption DEF Room, BlockSize
      <3>2. QED
        BY <3>1, <2>1, <1>6, <1>7, <1>8
    <2>2. CASE d \in 1 .. last
      <3>1. arena.used[d] + arena.left[d] = Room(d)
        BY <2>2 DEF ArenaSound, Blocks, last
      <3>2. QED
        BY <3>1, <2>2, <1>7, <1>8
    <2>3. QED
      BY <1>3, <2>1, <2>2
  <1>12. \A d \in 1 .. last : arena.used[d] <= used[d]
    <2>1. \A d \in 1 .. last : arena.used[d] \in Nat
      BY <1>2, ElementOfSeq DEF last
    <2>2. QED
      BY <1>7, <2>1
  <1>13. Grown(a)
    <2>1. a.used = used /\ a.left = left /\ a.current = walk.c
      OBVIOUS
    <2> HIDE DEF a
    <2>2. a.current \in 1 .. Len(a.used) /\ Len(arena.used) <= Len(a.used)
      BY <1>3, <1>5, <1>7, <2>1 DEF last
    <2>3. \A d \in 1 .. Len(a.used) : a.used[d] + a.left[d] = Room(d)
      BY <1>7, <1>11, <2>1
    <2>4. \A d \in Blocks : arena.used[d] <= a.used[d]
      BY <1>12, <2>1 DEF Blocks, last
    <2>5. QED
      BY <1>10, <2>2, <2>3, <2>4 DEF Grown
  <1>14. Fresh(InBlock(last + 1, 0, n), a, n)
    <2>1. a.used = used
      OBVIOUS
    <2>2. last + 1 \notin Blocks
      BY <1>3 DEF Blocks, last
    <2> HIDE DEF a
    <2>3. QED
      BY <1>3, <1>6, <1>7, <2>1, <2>2 DEF Fresh, InBlock, Regions
  <1>15. QED
    BY <1>1, <1>13, <1>14 DEF last

\* Memory of a block is taken from where the block has given none.
LEMMA CarveFresh ==
  ASSUME ArenaSound, NEW n \in 0 .. BlockSize
  PROVE  Grown(Carve(n)) /\ Fresh(CarvedAt(n), Carve(n), n)
  <1>1. n \in Nat
    OBVIOUS
  <1>2. QED
    BY <1>1, CarveFitting, CarveNewBlock

-----------------------------------------------------------------------------
(* Keeping chunks. *)

\* Slot `to' of reference `of' comes to keep the chunk; the others do as before.
KeepsAlso(of, to, chunk) ==
  /\ of \in 1 .. Len(refs') /\ to \in 1 .. Len(refs'[of]) /\ refs'[of][to] = chunk
  /\ \A i \in 1 .. Len(refs') : \A m \in 1 .. Len(refs'[i]) :
       \/ i = of /\ m = to
       \/ i \in 1 .. Len(refs) /\ m \in 1 .. Len(refs[i]) /\ refs'[i][m] = refs[i][m]
  /\ \A i \in 1 .. Len(refs) : \A m \in 1 .. Len(refs[i]) :
       i \in 1 .. Len(refs') /\ m \in 1 .. Len(refs'[i]) /\ refs'[i][m] = refs[i][m]

\* A new reference keeps the chunk in its first slot.
LEMMA KeepsFirst ==
  ASSUME RefsSound, NEW chunk \in Nat, Len(refs) < MaxRefs, refs' = Append(refs, <<chunk>>)
  PROVE  /\ refs' \in Seq(Seq(Nat))
         /\ RefsFit'
         /\ KeepsAlso(Len(refs) + 1, 1, chunk)
  <1>1. refs \in Seq(Seq(Nat)) /\ Len(refs) \in Nat
        /\ \A i \in 1 .. Len(refs) : Len(refs[i]) \in 1 .. 3
    BY LenProperties DEF RefsSound, RefsFit
  <1>2. <<chunk>> \in Seq(Nat) /\ Len(<<chunk>>) = 1 /\ <<chunk>>[1] = chunk
    OBVIOUS
  <1>3. /\ refs' \in Seq(Seq(Nat)) /\ Len(refs') = Len(refs) + 1
        /\ refs'[Len(refs) + 1] = <<chunk>>
        /\ \A i \in 1 .. Len(refs) : refs'[i] = refs[i]
    BY <1>1, <1>2, AppendProperties
  <1>4. \A i \in 1 .. Len(refs') : i = Len(refs) + 1 \/ i \in 1 .. Len(refs)
    BY <1>1, <1>3
  <1>5. RefsFit'
    <2>1. Len(refs') <= MaxRefs
      BY <1>1, <1>3, ArenaAssumption
    <2>2. \A i \in 1 .. Len(refs') : Len(refs'[i]) \in 1 .. 3
      BY <1>1, <1>2, <1>3, <1>4
    <2>3. QED
      BY <2>1, <2>2 DEF RefsFit
  <1>6. Len(refs) + 1 \in 1 .. Len(refs') /\ 1 \in 1 .. Len(refs'[Len(refs) + 1])
        /\ refs'[Len(refs) + 1][1] = chunk
    BY <1>1, <1>2, <1>3
  <1>7. \A i \in 1 .. Len(refs') : \A m \in 1 .. Len(refs'[i]) :
          \/ i = Len(refs) + 1 /\ m = 1
          \/ i \in 1 .. Len(refs) /\ m \in 1 .. Len(refs[i]) /\ refs'[i][m] = refs[i][m]
    BY <1>1, <1>2, <1>3, <1>4
  <1>8. \A i \in 1 .. Len(refs) : \A m \in 1 .. Len(refs[i]) :
          i \in 1 .. Len(refs') /\ m \in 1 .. Len(refs'[i]) /\ refs'[i][m] = refs[i][m]
    BY <1>1, <1>3
  <1>9. QED
    BY <1>3, <1>5, <1>6, <1>7, <1>8 DEF KeepsAlso

\* The last reference keeps the chunk in its next slot.
LEMMA KeepsNext ==
  ASSUME RefsSound, ~RefNeeded, NEW chunk \in Nat, NEW last, NEW slots, NEW more,
         last = Len(refs), slots = refs[last], more = Append(slots, chunk),
         refs' = [refs EXCEPT ![last] = more]
  PROVE  /\ refs' \in Seq(Seq(Nat))
         /\ RefsFit'
         /\ KeepsAlso(last, Len(slots) + 1, chunk)
  <1>1. refs \in Seq(Seq(Nat)) /\ last \in Nat
        /\ \A i \in 1 .. last : Len(refs[i]) \in 1 .. 3
    BY LenProperties DEF RefsSound, RefsFit
  <1>2. last \in 1 .. Len(refs)
    BY <1>1, EmptySeq DEF RefNeeded
  <1>3. slots \in Seq(Nat) /\ Len(slots) \in 1 .. 2
    <2>1. slots \in Seq(Nat)
      BY <1>1, <1>2, ElementOfSeq
    <2>2. Len(slots) \in 1 .. 3
      BY <1>1, <1>2
    <2>3. Len(slots) # 3
      BY DEF RefNeeded
    <2>4. QED
      BY <2>1, <2>2, <2>3
  <1>4. more \in Seq(Nat) /\ Len(more) = Len(slots) + 1
    BY <1>3, AppendProperties
  <1>20. more[Len(slots) + 1] = chunk /\ \A m \in 1 .. Len(slots) : more[m] = slots[m]
    BY <1>3, AppendProperties
  <1>5. refs' = [refs EXCEPT ![last] = more]
    OBVIOUS
  <1>6. /\ refs' \in Seq(Seq(Nat)) /\ Len(refs') = Len(refs)
        /\ \A i \in 1 .. Len(refs) : refs'[i] = IF i = last THEN more ELSE refs[i]
    BY <1>1, <1>2, <1>4, <1>5, ExceptSeq
  <1>7. slots = refs[last]
    OBVIOUS
  <1>8. RefsFit'
    <2>1. Len(refs') <= MaxRefs
      BY <1>6 DEF RefsSound, RefsFit
    <2>2. Len(more) \in 1 .. 3
      <3>1. \A k \in 1 .. 2 : k + 1 \in 1 .. 3
        OBVIOUS
      <3>2. QED
        BY <1>3, <1>4, <3>1
    <2>3. \A i \in 1 .. Len(refs') : Len(refs'[i]) \in 1 .. 3
      BY <1>1, <1>6, <2>2
    <2>4. QED
      BY <2>1, <2>3 DEF RefsFit
  <1>9. last \in 1 .. Len(refs') /\ Len(slots) + 1 \in 1 .. Len(refs'[last])
        /\ refs'[last][Len(slots) + 1] = chunk
    BY <1>2, <1>3, <1>4, <1>20, <1>6
  <1>10. \A m \in 1 .. Len(more) :
           \/ m = Len(slots) + 1
           \/ m \in 1 .. Len(slots) /\ more[m] = slots[m]
    BY <1>3, <1>4, <1>20
  <1>11. \A i \in 1 .. Len(refs') : \A m \in 1 .. Len(refs'[i]) :
           \/ i = last /\ m = Len(slots) + 1
           \/ i \in 1 .. Len(refs) /\ m \in 1 .. Len(refs[i]) /\ refs'[i][m] = refs[i][m]
    BY <1>6, <1>7, <1>10
  <1>12. \A m \in 1 .. Len(slots) : m \in 1 .. Len(more) /\ more[m] = slots[m]
    BY <1>3, <1>4, <1>20
  <1>13. \A i \in 1 .. Len(refs) : \A m \in 1 .. Len(refs[i]) :
          i \in 1 .. Len(refs') /\ m \in 1 .. Len(refs'[i]) /\ refs'[i][m] = refs[i][m]
    BY <1>6, <1>7, <1>12
  <1>14. KeepsAlso(last, Len(slots) + 1, chunk)
    BY <1>9, <1>11, <1>13 DEF KeepsAlso
  <1>15. QED
    BY <1>6, <1>8, <1>14

\* A slot that comes to keep a chunk nobody kept leaves every chunk kept once.
LEMMA KeepsAlsoSound ==
  ASSUME RefsSound, NEW chunk, chunk \notin heap, NEW of, NEW to, KeepsAlso(of, to, chunk),
         RefsFit', heap' = heap \cup {chunk}
  PROVE  heap' = Kept' /\ KeptOnce'
  <1>1. /\ of \in 1 .. Len(refs') /\ to \in 1 .. Len(refs'[of]) /\ refs'[of][to] = chunk
        /\ \A i \in 1 .. Len(refs') : \A m \in 1 .. Len(refs'[i]) :
             \/ i = of /\ m = to
             \/ i \in 1 .. Len(refs) /\ m \in 1 .. Len(refs[i]) /\ refs'[i][m] = refs[i][m]
        /\ \A i \in 1 .. Len(refs) : \A m \in 1 .. Len(refs[i]) :
             i \in 1 .. Len(refs') /\ m \in 1 .. Len(refs'[i]) /\ refs'[i][m] = refs[i][m]
    BY DEF KeepsAlso
  <1>2. \A c : c \in Kept <=> \E i \in 1 .. Len(refs) : \E m \in 1 .. Len(refs[i]) : c = refs[i][m]
    BY DEF Kept
  <1>3. \A c : c \in Kept' <=>
                \E i \in 1 .. Len(refs') : \E m \in 1 .. Len(refs'[i]) : c = refs'[i][m]
    BY DEF Kept
  <1>4. heap = Kept
    BY DEF RefsSound
  <1>5. ASSUME NEW c \in Kept' PROVE c \in heap'
    <2>1. PICK i \in 1 .. Len(refs') : \E m \in 1 .. Len(refs'[i]) : c = refs'[i][m]
      BY <1>3
    <2>2. PICK m \in 1 .. Len(refs'[i]) : c = refs'[i][m]
      BY <2>1
    <2>3. CASE i = of /\ m = to
      BY <2>2, <2>3, <1>1
    <2>4. CASE i \in 1 .. Len(refs) /\ m \in 1 .. Len(refs[i]) /\ refs'[i][m] = refs[i][m]
      BY <2>2, <2>4, <1>2, <1>4
    <2>5. QED
      BY <2>3, <2>4, <1>1
  <1>6. ASSUME NEW c \in heap' PROVE c \in Kept'
    <2>1. CASE c = chunk
      BY <2>1, <1>1, <1>3
    <2>2. CASE c \in Kept
      <3>1. PICK i \in 1 .. Len(refs) : \E m \in 1 .. Len(refs[i]) : c = refs[i][m]
        BY <2>2, <1>2
      <3>2. PICK m \in 1 .. Len(refs[i]) : c = refs[i][m]
        BY <3>1
      <3>3. i \in 1 .. Len(refs') /\ m \in 1 .. Len(refs'[i]) /\ refs'[i][m] = c
        BY <1>1, <3>2
      <3>4. QED
        BY <3>3, <1>3
    <2>3. QED
      BY <2>1, <2>2, <1>4
  <1>7. \A i \in 1 .. Len(refs) : \A m \in 1 .. Len(refs[i]) : refs[i][m] # chunk
    BY <1>2, <1>4
  <1>8. ASSUME NEW i \in 1 .. Len(refs'), NEW j \in 1 .. Len(refs'), NEW m \in 1 .. 3, NEW n \in 1 .. 3,
               m <= Len(refs'[i]), n <= Len(refs'[j]), refs'[i][m] = refs'[j][n]
        PROVE  i = j /\ m = n
    <2>1. Len(refs'[i]) \in 1 .. 3 /\ Len(refs'[j]) \in 1 .. 3
      BY DEF RefsFit
    <2>2. m \in 1 .. Len(refs'[i]) /\ n \in 1 .. Len(refs'[j])
      BY <1>8, <2>1
    <2> DEFINE Old(k, l) == k \in 1 .. Len(refs) /\ l \in 1 .. Len(refs[k]) /\ refs'[k][l] = refs[k][l]
    <2>3. (i = of /\ m = to) \/ Old(i, m)
      BY <1>1, <2>2
    <2>4. (j = of /\ n = to) \/ Old(j, n)
      BY <1>1, <2>2
    <2>5. CASE Old(i, m) /\ Old(j, n)
      <3>1. refs[i][m] = refs[j][n]
        BY <1>8, <2>5
      <3>2. m <= Len(refs[i]) /\ n <= Len(refs[j])
        <4>1. Len(refs[i]) \in 1 .. 3 /\ Len(refs[j]) \in 1 .. 3
          BY <2>5 DEF RefsSound, RefsFit
        <4>2. m \in 1 .. Len(refs[i]) /\ n \in 1 .. Len(refs[j])
          BY <2>5
        <4>3. QED
          BY <4>1, <4>2
      <3>3. i \in 1 .. Len(refs) /\ j \in 1 .. Len(refs)
        BY <2>5
      <3>4. QED
        BY <3>1, <3>2, <3>3 DEF RefsSound, KeptOnce
    <2>6. CASE i = of /\ m = to /\ Old(j, n)
      BY <2>6, <1>1, <1>7, <1>8
    <2>7. CASE j = of /\ n = to /\ Old(i, m)
      BY <2>7, <1>1, <1>7, <1>8
    <2>8. QED
      BY <2>3, <2>4, <2>5, <2>6, <2>7
  <1>9. KeptOnce'
    BY <1>8 DEF KeptOnce
  <1>10. QED
    BY <1>5, <1>6, <1>9

\* A chunk that is taken is kept by one slot, and by no other.
LEMMA KeepChunkSound ==
  ASSUME RefsSound, NEW o, NEW n, KeepChunk(o, n)
  PROVE  RefsSound' /\ heap \subseteq heap' /\ Chunk \notin heap /\ Chunk \in heap' /\ Chunk \in Nat
  <1>1. Chunk \in Nat /\ Chunk \notin heap
    BY ChunkIsFree DEF RefsSound
  <1>2. heap' = heap \cup {Chunk}
    BY DEF KeepChunk
  <1>3. refs' \in Seq(Seq(Nat)) /\ RefsFit' /\ \E of, to : KeepsAlso(of, to, Chunk)
    <2>1. CASE Len(refs) < MaxRefs /\ refs' = Append(refs, <<Chunk>>)
      BY <1>1, <2>1, KeepsFirst
    <2>2. CASE ~RefNeeded /\ refs' = [refs EXCEPT ![Len(refs)] = Append(@, Chunk)]
      <3>1. PICK last, slots, more :
              last = Len(refs) /\ slots = refs[last] /\ more = Append(slots, Chunk)
        OBVIOUS
      <3>2. refs' = [refs EXCEPT ![last] = more]
        BY <2>2, <3>1
      <3>3. ~RefNeeded
        BY <2>2
      <3> HIDE <2>2
      <3>4. QED
        BY <1>1, <3>1, <3>2, <3>3, KeepsNext
    <2>3. QED
      BY <2>1, <2>2 DEF KeepChunk
  <1>4. heap' = Kept' /\ KeptOnce'
    BY <1>1, <1>2, <1>3, KeepsAlsoSound
  <1>5. QED
    BY <1>1, <1>2, <1>3, <1>4 DEF RefsSound

-----------------------------------------------------------------------------
(* Giving memory to an owner. *)

\* o is given n bytes that nobody has: of a block, or a chunk, for which the
\* next reference may have been given its own bytes of a block.
Gives(o, n, a) ==
  /\ live' \in [Owners -> Regions]
  /\ live'[o].size = n
  /\ \/ /\ Fresh(live'[o], a, n)
        /\ \A q \in Owners \ {o} : live'[q] = live[q]
     \/ /\ live'[o].in = 0 /\ live'[o].at \in heap' \ heap
        /\ \A q \in Owners \ {o} :
             \/ live'[q] = live[q]
             \/ q = Len(refs) + 1 /\ Fresh(live'[q], a, RefSize)

LEMMA RegionFields ==
  ASSUME NEW region \in Regions
  PROVE  region.in \in Int /\ region.at \in Nat /\ region.size \in Nat
  BY DEF Regions

LEMMA InHeapRegion ==
  ASSUME NEW chunk \in Nat, NEW n \in Nat
  PROVE  /\ InHeap(chunk, n) \in Regions
         /\ InHeap(chunk, n).in = 0 /\ InHeap(chunk, n).at = chunk /\ InHeap(chunk, n).size = n
  BY DEF InHeap, Regions

LEMMA SameGrown ==
  ASSUME ArenaSound
  PROVE  Grown(arena)
  <1>1. \A b \in Blocks : arena.used[b] \in Nat
    BY ElementOfSeq DEF ArenaSound, ArenaShapes, Blocks
  <1>2. \A b \in Blocks : arena.used[b] <= arena.used[b]
    BY <1>1
  <1>3. Len(arena.used) \in Nat
    BY LenProperties DEF ArenaSound, ArenaShapes
  <1>4. Len(arena.used) <= Len(arena.used)
    BY <1>3
  <1>5. QED
    BY <1>2, <1>4 DEF Grown, ArenaSound, Blocks

\* wsgi_gc_malloc_ref gives its caller a chunk.
LEMMA KeepChunkGives ==
  ASSUME ArenaSound, RefsSound, live \in [Owners -> Regions],
         NEW o \in Users \cup Lists, NEW n \in Nat, KeepChunk(o, n)
  PROVE  Grown(ArenaAfterRef) /\ Gives(o, n, ArenaAfterRef)
  <1>1. PICK chunk \in Nat : chunk = Chunk /\ chunk \notin heap /\ chunk \in heap'
    BY KeepChunkSound
  <1>2. InHeap(chunk, n) \in Regions
        /\ InHeap(chunk, n).in = 0 /\ InHeap(chunk, n).at = chunk /\ InHeap(chunk, n).size = n
    BY InHeapRegion
  <1>3. o \in Owners /\ o \notin Nat
    BY ArenaAssumption DEF Owners
  <1>4. CASE RefNeeded
    <2>1. Len(refs) \in Nat
      BY LenProperties DEF RefsSound
    <2>2. PICK q : q = Len(refs) + 1
      OBVIOUS
    <2>3. /\ Len(refs) < MaxRefs
          /\ live' = [live EXCEPT ![q] = CarvedAt(RefSize), ![o] = InHeap(chunk, n)]
      BY <1>1, <1>4, <2>2 DEF KeepChunk
    <2>4. q \in Nat /\ q \in Owners
      BY <2>1, <2>2, <2>3, ArenaAssumption DEF Owners, Refs
    <2>5. PICK a, g : a = Carve(RefSize) /\ g = CarvedAt(RefSize)
      OBVIOUS
    <2>6. Grown(a) /\ Fresh(g, a, RefSize)
      <3>1. RefSize \in 0 .. BlockSize
        BY ArenaAssumption DEF BlockSize
      <3>2. QED
        BY <2>5, <3>1, CarveFresh
    <2>7. a = ArenaAfterRef
      BY <1>4, <2>5 DEF ArenaAfterRef
    <2>8. g \in Regions
      BY <2>6 DEF Fresh
    <2>9. live' = [live EXCEPT ![q] = g, ![o] = InHeap(chunk, n)]
      BY <2>3, <2>5
    <2>10. /\ live' \in [Owners -> Regions]
           /\ live'[o] = InHeap(chunk, n)
           /\ live'[q] = g
           /\ \A w \in Owners : w # o /\ w # q => live'[w] = live[w]
      BY <1>2, <1>3, <2>4, <2>8, <2>9
    <2>11. Gives(o, n, a)
      <3>1. live'[o].size = n /\ live'[o].in = 0 /\ live'[o].at \in heap' \ heap
        BY <1>1, <1>2, <2>10
      <3>2. \A w \in Owners \ {o} :
              \/ live'[w] = live[w]
              \/ w = Len(refs) + 1 /\ Fresh(live'[w], a, RefSize)
        BY <2>2, <2>6, <2>10
      <3>3. QED
        BY <2>10, <3>1, <3>2 DEF Gives
    <2>12. QED
      BY <2>6, <2>7, <2>11
  <1>5. CASE ~RefNeeded
    <2>1. live' = [live EXCEPT ![o] = InHeap(chunk, n)]
      BY <1>1, <1>5 DEF KeepChunk
    <2>2. /\ live' \in [Owners -> Regions]
          /\ live'[o] = InHeap(chunk, n)
          /\ \A w \in Owners : w # o => live'[w] = live[w]
      BY <1>2, <1>3, <2>1
    <2>3. ArenaAfterRef = arena
      BY <1>5 DEF ArenaAfterRef
    <2>4. Gives(o, n, arena)
      <3>1. live'[o].size = n /\ live'[o].in = 0 /\ live'[o].at \in heap' \ heap
        BY <1>1, <1>2, <2>2
      <3>2. QED
        BY <2>2, <3>1 DEF Gives
    <2>5. QED
      BY <2>3, <2>4, SameGrown
  <1>6. QED
    BY <1>4, <1>5

\* wsgi_gc_malloc gives its caller memory, whatever the size.
LEMMA GiveGives ==
  ASSUME ArenaSound, RefsSound, live \in [Owners -> Regions],
         NEW o \in Users \cup Lists, NEW n \in Nat, Give(o, n)
  PROVE  Grown(ArenaAfter(n)) /\ Gives(o, n, ArenaAfter(n))
  <1>1. CASE n > BlockSize
    <2>1. KeepChunk(o, n)
      BY <1>1, ArenaAssumption DEF Give, BlockSize
    <2>2. ArenaAfter(n) = ArenaAfterRef
      BY <1>1 DEF ArenaAfter
    <2>3. QED
      BY <2>1, <2>2, KeepChunkGives
  <1>2. CASE ~(n > BlockSize)
    <2>1. n \in 0 .. BlockSize
      BY <1>2, ArenaAssumption DEF BlockSize
    <2>2. ArenaAfter(n) = Carve(n)
      BY <1>2 DEF ArenaAfter
    <2>3. PICK a, g : a = Carve(n) /\ g = CarvedAt(n)
      OBVIOUS
    <2>4. Grown(a) /\ Fresh(g, a, n)
      BY <2>1, <2>3, CarveFresh
    <2>5. live' = [live EXCEPT ![o] = g]
      BY <1>2, <2>3 DEF Give
    <2>6. o \in Owners /\ g \in Regions /\ g.size = n
      BY <2>4 DEF Owners, Fresh
    <2>7. live' \in [Owners -> Regions] /\ live'[o] = g
          /\ \A w \in Owners : w # o => live'[w] = live[w]
      BY <2>5, <2>6
    <2>8. Gives(o, n, a)
      BY <2>4, <2>6, <2>7 DEF Gives
    <2>9. QED
      BY <2>2, <2>3, <2>4, <2>8
  <1>3. QED
    BY <1>1, <1>2

LEMMA GiveRefs ==
  ASSUME RefsSound, NEW o, NEW n, Give(o, n)
  PROVE  RefsSound' /\ heap \subseteq heap'
  <1>1. CASE KeepChunk(o, n)
    BY <1>1, KeepChunkSound
  <1>2. CASE UNCHANGED <<refs, heap>>
    BY <1>2 DEF RefsSound, RefsFit, KeptOnce, Kept
  <1>3. QED
    BY <1>1, <1>2 DEF Give

-----------------------------------------------------------------------------
(* Memory in use. *)

\* Fresh bytes of a block are apart from all memory in use.
LEMMA FreshApart ==
  ASSUME NEW a, NEW n \in Nat, NEW r, Fresh(r, a, n), ArenaSound, NEW s \in Regions,
         s.in > 0 => s.in \in Blocks /\ s.at + s.size <= arena.used[s.in]
  PROVE  Apart(r, s) /\ Apart(s, r)
  <1>1. r \in Regions /\ r.in \in 1 .. Len(a.used)
        /\ (r.in \in Blocks => arena.used[r.in] <= r.at)
    BY DEF Fresh
  <1>2. r.in \in Int /\ r.in > 0 /\ r.at \in Nat /\ s.at \in Nat /\ s.size \in Nat /\ s.in \in Int
    BY <1>1, RegionFields
  <1>3. CASE r.in # s.in
    BY <1>3 DEF Apart
  <1>4. CASE r.in = s.in
    <2>1. arena.used[s.in] <= r.at /\ s.at + s.size <= arena.used[s.in]
      BY <1>1, <1>2, <1>4
    <2>2. arena.used[s.in] \in Nat
      BY <1>2, <1>4, ElementOfSeq DEF ArenaSound, ArenaShapes, Blocks
    <2>3. s.at + s.size <= r.at
      BY <1>2, <2>1, <2>2
    <2>4. QED
      BY <1>2, <1>4, <2>3 DEF Apart
  <1>5. QED
    BY <1>3, <1>4

\* What is given is apart from what others use, and so is the memory of the
\* reference that came with it.
LEMMA GivesApart ==
  ASSUME ArenaSound, MemorySound, NEW o \in Owners, NEW n \in Nat, NEW a, Gives(o, n, a)
  PROVE  NoOverlap'
  <1>1. \A p \in Owners : live[p] \in Regions /\ live'[p] \in Regions
    BY DEF MemorySound, Gives
  <1>2. \A p \in Owners : live[p].in > 0 =>
          live[p].in \in Blocks /\ live[p].at + live[p].size <= arena.used[live[p].in]
    BY DEF MemorySound, RegionsIn
  <1>3. \A p, q \in Owners : p # q /\ live[p] # None /\ live[q] # None => Apart(live[p], live[q])
    BY DEF MemorySound, NoOverlap
  <1>4. SUFFICES ASSUME NEW p \in Owners, NEW q \in Owners, p # q,
                        live'[p] # None, live'[q] # None
                 PROVE  Apart(live'[p], live'[q])
    BY DEF NoOverlap, Apart, None
  <1>5. CASE live'[p] = live[p] /\ live'[q] = live[q]
    BY <1>3, <1>4, <1>5
  <1> DEFINE Taken(w) == live'[w].in = 0 /\ live'[w].at \in heap' \ heap
             New(w) == Fresh(live'[w], a, n) \/ Fresh(live'[w], a, RefSize)
  <1>6. ASSUME NEW v \in Owners, NEW w \in Owners, New(v), live'[w] = live[w]
        PROVE  Apart(live'[v], live'[w]) /\ Apart(live'[w], live'[v])
    <2>1. PICK r, s : r = live'[v] /\ s = live[w]
      OBVIOUS
    <2>2. s \in Regions
          /\ (s.in > 0 => s.in \in Blocks /\ s.at + s.size <= arena.used[s.in])
      BY <1>1, <1>2, <2>1
    <2>3. PICK k \in Nat : Fresh(r, a, k)
      BY <1>6, <2>1, ArenaAssumption
    <2>4. Apart(r, s) /\ Apart(s, r)
      BY <2>2, <2>3, FreshApart
    <2>5. QED
      BY <1>6, <2>1, <2>4
  <1>8. ASSUME NEW v \in Owners, NEW w \in Owners, Taken(v), live'[w] = live[w]
        PROVE  Apart(live'[v], live'[w]) /\ Apart(live'[w], live'[v])
    <2>1. live[w].in = 0 => live[w].at \in heap
      BY DEF MemorySound, RegionsIn
    <2>2. \/ live'[v].in # live'[w].in
          \/ live'[v].in = 0 /\ live'[w].in = 0 /\ live'[v].at # live'[w].at
      BY <1>8, <2>1
    <2>3. QED
      BY <2>2 DEF Apart
  <1>9. ASSUME NEW v \in Owners, NEW w \in Owners, Taken(v), New(w)
        PROVE  Apart(live'[v], live'[w]) /\ Apart(live'[w], live'[v])
    <2>1. live'[w].in # 0
      BY <1>9 DEF Fresh
    <2>2. QED
      BY <1>9, <2>1 DEF Apart
  <1>20. New(o) \/ Taken(o)
    BY DEF Gives
  <1>21. \A w \in Owners : w # o =>
          \/ live'[w] = live[w]
          \/ Taken(o) /\ New(w) /\ w = Len(refs) + 1
    BY DEF Gives
  <1> HIDE DEF New, Taken
  <1>10. CASE p = o
    BY <1>4, <1>6, <1>8, <1>9, <1>10, <1>20, <1>21
  <1>11. CASE q = o
    BY <1>4, <1>6, <1>8, <1>9, <1>11, <1>20, <1>21
  <1>12. CASE p # o /\ q # o
    BY <1>4, <1>5, <1>6, <1>12, <1>21
  <1>13. QED
    BY <1>10, <1>11, <1>12

\* Memory in use stays sound when the blocks cover what was in use, but for
\* the memory of the owner that is given some, and what is fresh.
LEMMA GivesMemory ==
  ASSUME ArenaSound, MemorySound, heap \subseteq heap',
         NEW o \in Owners, NEW n \in Nat \ {0}, NEW a, Gives(o, n, a),
         Len(arena'.used) = Len(a.used),
         \A q \in Owners \ {o} : live[q].in > 0 =>
           live[q].in \in 1 .. Len(a.used)
             /\ live[q].at + live[q].size <= arena'.used[live[q].in],
         \A q \in Owners, k \in Nat \ {0} :
           Fresh(live'[q], a, k) => live'[q].at + k <= arena'.used[live'[q].in]
  PROVE  MemorySound'
  <1>1. NoOverlap'
    BY GivesApart
  <1> DEFINE Sound(q) ==
        /\ live'[q] # None => live'[q].in >= 0 /\ live'[q].size > 0
        /\ live'[q].in > 0 =>
             live'[q].in \in Blocks' /\ live'[q].at + live'[q].size <= arena'.used[live'[q].in]
        /\ live'[q].in = 0 => live'[q].at \in heap'
  <1>2. ASSUME NEW q \in Owners, NEW k \in Nat \ {0}, Fresh(live'[q], a, k) PROVE Sound(q)
    <2>1. live'[q].in \in 1 .. Len(a.used) /\ live'[q].size = k
      BY <1>2 DEF Fresh
    <2>2. live'[q].at + k <= arena'.used[live'[q].in]
      BY <1>2
    <2>3. Blocks' = 1 .. Len(a.used)
      BY DEF Blocks
    <2>4. QED
      BY <2>1, <2>2, <2>3
  <1>3. ASSUME NEW q \in Owners, q # o, live'[q] = live[q] PROVE Sound(q)
    <2>1. Blocks' = 1 .. Len(a.used)
      BY DEF Blocks
    <2>2. live[q].in > 0 =>
            live[q].in \in 1 .. Len(a.used)
              /\ live[q].at + live[q].size <= arena'.used[live[q].in]
      BY <1>3
    <2>3. live[q].in = 0 => live[q].at \in heap'
      BY DEF MemorySound, RegionsIn
    <2>4. live[q] # None => live[q].in >= 0 /\ live[q].size > 0
      BY DEF MemorySound, RegionsSized
    <2>5. QED
      BY <1>3, <2>1, <2>2, <2>3, <2>4
  <1>4. Sound(o)
    <2>1. CASE Fresh(live'[o], a, n)
      BY <1>2, <2>1
    <2>2. CASE live'[o].in = 0 /\ live'[o].at \in heap' \ heap
      <3>1. live'[o].size = n
        BY DEF Gives
      <3>2. QED
        BY <2>2, <3>1
    <2>3. QED
      BY <2>1, <2>2 DEF Gives
  <1>5. ASSUME NEW q \in Owners PROVE Sound(q)
    <2>1. RefSize \in Nat \ {0}
      BY ArenaAssumption DEF BlockSize
    <2>2. q = o \/ live'[q] = live[q] \/ Fresh(live'[q], a, RefSize)
      BY DEF Gives
    <2> HIDE DEF Sound
    <2>3. QED
      BY <1>2, <1>3, <1>4, <2>1, <2>2
  <1>6. live' \in [Owners -> Regions]
    BY DEF Gives
  <1>7. RegionsSized' /\ RegionsIn'
    BY <1>5 DEF RegionsSized, RegionsIn, None, Blocks
  <1>8. QED
    BY <1>1, <1>6, <1>7 DEF MemorySound

\* Memory that is taken leaves memory in use sound.
LEMMA TakesMemory ==
  ASSUME ArenaSound, MemorySound, heap \subseteq heap',
         NEW o \in Owners, NEW n \in Nat \ {0}, NEW a, Gives(o, n, a), Grown(a), arena' = a
  PROVE  MemorySound'
  <1>1. ASSUME NEW q \in Owners, live[q].in > 0
        PROVE  live[q].in \in 1 .. Len(a.used)
                 /\ live[q].at + live[q].size <= arena'.used[live[q].in]
    <2>1. PICK b : b = live[q].in
      OBVIOUS
    <2>2. b \in Blocks /\ live[q].at + live[q].size <= arena.used[b]
      BY <1>1, <2>1 DEF MemorySound, RegionsIn
    <2>3. arena.used[b] <= a.used[b] /\ b \in 1 .. Len(a.used)
      <3>1. Len(arena.used) <= Len(a.used) /\ arena.used[b] <= a.used[b]
        BY <2>2 DEF Grown
      <3>2. Len(arena.used) \in Nat /\ Len(a.used) \in Nat
        BY LenProperties DEF Grown, ArenaSound, ArenaShapes
      <3>3. QED
        BY <2>2, <3>1, <3>2 DEF Blocks
    <2>4. live[q].at \in Nat /\ live[q].size \in Nat
      BY RegionFields DEF MemorySound
    <2>5. arena.used[b] \in Nat
      BY <2>2, ElementOfSeq DEF ArenaSound, ArenaShapes, Blocks
    <2>6. a.used[b] \in Nat
      BY <2>3, ElementOfSeq DEF Grown, ArenaShapes
    <2>7. live[q].at + live[q].size <= a.used[b]
      BY <2>2, <2>3, <2>4, <2>5, <2>6, SMTT(30)
    <2>8. QED
      BY <2>1, <2>3, <2>7
  <1>2. \A q \in Owners, k \in Nat \ {0} :
          Fresh(live'[q], a, k) => live'[q].at + k <= arena'.used[live'[q].in]
    BY DEF Fresh
  <1>3. Len(arena'.used) = Len(a.used)
    OBVIOUS
  <1>4. QED
    BY <1>1, <1>2, <1>3, GivesMemory

-----------------------------------------------------------------------------
(* A list that ends its block. *)

\* Nothing in use lies behind a list that ends its block.
LEMMA NothingBehind ==
  ASSUME ArenaSound, MemorySound, ListsSound, NEW l \in Lists, live[l] # None, EndsBlock(l),
         NEW q \in Owners, q # l, live[q].in = arena.current
  PROVE  live[q].at + live[q].size <= live[l].at
  <1>1. PICK b \in Blocks, u \in Nat : b = arena.current /\ u = arena.used[b]
    BY ElementOfSeq DEF ArenaSound, ArenaShapes, Blocks
  <1>2. b > 0 /\ b \in Int
    BY DEF Blocks
  <1>3. live[l].size = Bytes(l)
    BY DEF ListsSound, ListsFit
  <1>4. live[l].in = b /\ live[l].at + live[l].size = u
    BY <1>1, <1>3 DEF EndsBlock
  <1>5. live[q].in = b /\ live[q] # None
    BY <1>1, <1>2 DEF None
  <1>6. l \in Owners
    BY DEF Owners
  <1>7. live[q] \in Regions /\ live[l] \in Regions
    BY <1>6 DEF MemorySound
  <1>8. /\ live[q].at \in Nat /\ live[q].size \in Nat
        /\ live[l].at \in Nat /\ live[l].size \in Nat
    BY <1>7, RegionFields
  <1>9. live[q].size > 0 /\ live[q].at + live[q].size <= u
    BY <1>1, <1>2, <1>5 DEF MemorySound, RegionsSized, RegionsIn
  <1>10. Apart(live[q], live[l])
    BY <1>5, <1>6 DEF MemorySound, NoOverlap
  <1>11. live[q].at + live[q].size <= live[l].at \/ live[l].at + live[l].size <= live[q].at
    BY <1>2, <1>4, <1>5, <1>10 DEF Apart
  <1>12. QED
    BY <1>4, <1>8, <1>9, <1>11

\* A release takes bytes back from one block.
LEMMA ReleaseArena ==
  ASSUME NEW a \in ArenaShapes, NEW b \in 1 .. Len(a.used), NEW n \in Nat, n <= a.used[b]
  PROVE  /\ Release(a, b, n) \in ArenaShapes
         /\ Len(Release(a, b, n).used) = Len(a.used)
         /\ Release(a, b, n).current = a.current
         /\ \A d \in 1 .. Len(a.used) :
              /\ Release(a, b, n).used[d] = IF d = b THEN a.used[b] - n ELSE a.used[d]
              /\ Release(a, b, n).left[d] = IF d = b THEN a.left[b] + n ELSE a.left[d]
  <1>1. a.used[b] \in Nat /\ a.left[b] \in Nat
    BY ElementOfSeq DEF ArenaShapes
  <1>2. PICK m \in Int : m = -n
    OBVIOUS
  <1>3. PICK c : c = Bump(a, b, m)
    OBVIOUS
  <1>4. /\ c \in ArenaShapes
        /\ Len(c.used) = Len(a.used)
        /\ c.current = a.current
        /\ \A d \in 1 .. Len(a.used) :
              /\ c.used[d] = IF d = b THEN a.used[b] + m ELSE a.used[d]
              /\ c.left[d] = IF d = b THEN a.left[b] - m ELSE a.left[d]
    <2>1. a.used[b] + m >= 0 /\ a.left[b] - m >= 0
      BY <1>1, <1>2
    <2>2. QED
      BY <1>3, <2>1, BumpBlock
  <1>5. PICK f : f = (c.fails[b] + FailsModulus - 1) % FailsModulus
    OBVIOUS
  <1>6. b \in 1 .. Len(c.fails) /\ c.fails \in Seq(0 .. FailsModulus - 1)
    BY <1>4 DEF ArenaShapes
  <1>7. f \in 0 .. FailsModulus - 1
    <2>1. c.fails[b] \in Int
      BY <1>6, ElementOfSeq, ArenaAssumption
    <2>2. QED
      BY <1>5, <2>1, ArenaAssumption
  <1>8. Release(a, b, n) = [c EXCEPT !.fails[b] = f]
    BY <1>2, <1>3, <1>5 DEF Release
  <1>9. /\ [c.fails EXCEPT ![b] = f] \in Seq(0 .. FailsModulus - 1)
        /\ Len([c.fails EXCEPT ![b] = f]) = Len(c.fails)
    BY <1>6, <1>7, ExceptSeq
  <1>10. Release(a, b, n) = [c EXCEPT !.fails = [c.fails EXCEPT ![b] = f]]
    BY <1>4, <1>8 DEF ArenaShapes
  <1>11. /\ Release(a, b, n).used = c.used
         /\ Release(a, b, n).left = c.left
         /\ Release(a, b, n).current = c.current
         /\ Release(a, b, n).fails = [c.fails EXCEPT ![b] = f]
    BY <1>4, <1>10 DEF ArenaShapes
  <1>12. Release(a, b, n) \in ArenaShapes
    BY <1>4, <1>9, <1>10, <1>11 DEF ArenaShapes
  <1>13. \A d \in 1 .. Len(a.used) :
           /\ c.used[d] = IF d = b THEN a.used[b] - n ELSE a.used[d]
           /\ c.left[d] = IF d = b THEN a.left[b] + n ELSE a.left[d]
    <2>1. a.used[b] + m = a.used[b] - n /\ a.left[b] - m = a.left[b] + n
      BY <1>1, <1>2
    <2>2. QED
      BY <1>4, <2>1
  <1>14. QED
    BY <1>4, <1>11, <1>12, <1>13

\* What a list releases when it moves away was behind everything in use.
LEMMA ReleaseSound ==
  ASSUME ArenaSound, MemorySound, ListsSound, heap \subseteq heap', gone' = gone,
         NEW l \in Lists, live[l] # None, EndsBlock(l), Bytes(l) \in Nat,
         NEW n \in Nat \ {0}, NEW a, Gives(l, n, a), Grown(a),
         a.used[arena.current] = arena.used[arena.current],
         arena' = Release(a, arena.current, Bytes(l))
  PROVE  ArenaSound' /\ MemorySound'
  <1>1. PICK b \in Blocks, m \in Nat : b = arena.current /\ m = Bytes(l)
    BY DEF ArenaSound
  <1>2. Len(arena.used) \in Nat /\ Len(a.used) \in Nat /\ Len(arena.used) <= Len(a.used)
    BY LenProperties DEF Grown, ArenaSound, ArenaShapes
  <1>3. b \in 1 .. Len(a.used) /\ a.used[b] = arena.used[b] /\ b \in Int /\ b > 0
    BY <1>1, <1>2 DEF Blocks
  <1>4. \A d \in 1 .. Len(a.used) : a.used[d] \in Nat /\ a.left[d] \in Nat
    BY ElementOfSeq DEF Grown, ArenaShapes
  <1>5. l \in Owners
    BY DEF Owners
  <1>6. live[l].in = b /\ live[l].at + m = a.used[b] /\ live[l].at \in Nat
    BY <1>1, <1>3, <1>5, RegionFields DEF EndsBlock, MemorySound
  <1>7. m <= a.used[b] /\ a.used[b] - m = live[l].at
    BY <1>3, <1>4, <1>6, SMTT(30)
  <1>8. /\ arena' \in ArenaShapes
        /\ Len(arena'.used) = Len(a.used)
        /\ arena'.current = a.current
        /\ \A d \in 1 .. Len(a.used) :
              /\ arena'.used[d] = IF d = b THEN a.used[b] - m ELSE a.used[d]
              /\ arena'.left[d] = IF d = b THEN a.left[b] + m ELSE a.left[d]
    <2>1. arena' = Release(a, b, m) /\ a \in ArenaShapes
      BY <1>1 DEF Grown
    <2>2. QED
      BY <1>3, <1>7, <2>1, ReleaseArena
  <1>9. ArenaSound'
    <2>1. \A d \in 1 .. Len(a.used) : arena'.used[d] + arena'.left[d] = Room(d)
      <3> TAKE d \in 1 .. Len(a.used)
      <3>1. a.used[d] + a.left[d] = Room(d)
        BY DEF Grown
      <3>2. CASE d = b
        <4>1. \A x, y, k \in Nat : (x - k) + (y + k) = x + y
          OBVIOUS
        <4>2. a.used[b] \in Nat /\ a.left[b] \in Nat
          BY <1>3, <1>4
        <4>3. (a.used[b] - m) + (a.left[b] + m) = a.used[b] + a.left[b]
          BY <4>1, <4>2, SMTT(30)
        <4>4. QED
          BY <1>3, <1>8, <3>1, <3>2, <4>3
      <3>3. CASE d # b
        BY <1>8, <3>1, <3>3
      <3>4. QED
        BY <3>2, <3>3
    <2>2. a.current \in 1 .. Len(a.used)
      BY DEF Grown
    <2>3. ~gone'
      BY DEF ArenaSound
    <2>4. Blocks' = 1 .. Len(a.used)
      BY <1>8 DEF Blocks
    <2>5. QED
      BY <1>8, <2>1, <2>2, <2>3, <2>4 DEF ArenaSound, Room
  <1>10. ASSUME NEW q \in Owners \ {l}, live[q].in > 0
         PROVE  live[q].in \in 1 .. Len(a.used)
                  /\ live[q].at + live[q].size <= arena'.used[live[q].in]
    <2>1. PICK d : d = live[q].in
      OBVIOUS
    <2>2. d \in Blocks /\ live[q].at + live[q].size <= arena.used[d]
      BY <1>10, <2>1 DEF MemorySound, RegionsIn
    <2>3. d \in 1 .. Len(a.used) /\ arena.used[d] \in Nat /\ arena.used[d] <= a.used[d]
      <3>1. arena.used[d] \in Nat
        BY <2>2, ElementOfSeq DEF ArenaSound, ArenaShapes, Blocks
      <3>2. QED
        BY <1>2, <2>2, <3>1 DEF Grown, Blocks
    <2>4. live[q].at \in Nat /\ live[q].size \in Nat
      BY RegionFields DEF MemorySound
    <2>5. CASE d = b
      <3>1. live[q].at + live[q].size <= live[l].at
        BY <1>1, <2>1, <2>5, NothingBehind
      <3>2. arena'.used[b] = live[l].at
        BY <1>3, <1>7, <1>8
      <3>3. QED
        BY <2>1, <2>3, <2>5, <3>1, <3>2
    <2>6. CASE d # b
      <3>1. arena'.used[d] = a.used[d]
        BY <1>8, <2>3, <2>6
      <3>2. live[q].at + live[q].size \in Nat /\ a.used[d] \in Nat
        BY <1>4, <2>3, <2>4, SMTT(30)
      <3>3. live[q].at + live[q].size <= a.used[d]
        BY <2>2, <2>3, <3>2
      <3>4. d \in 1 .. Len(a.used) /\ live[q].at + live[q].size <= arena'.used[d]
        BY <2>3, <3>1, <3>3
      <3>5. QED
        BY <2>1, <3>4
    <2>7. QED
      BY <2>5, <2>6
  <1>11. ASSUME NEW q \in Owners, NEW k \in Nat \ {0}, Fresh(live'[q], a, k)
         PROVE  live'[q].at + k <= arena'.used[live'[q].in]
    <2>1. PICK d, s : d = live'[q].in /\ s = live'[q].at
      OBVIOUS
    <2>2. /\ live'[q] \in Regions
          /\ d \in 1 .. Len(a.used)
          /\ s + k <= a.used[d]
          /\ d \in Blocks => arena.used[d] <= s
      BY <1>11, <2>1 DEF Fresh
    <2>3. s \in Nat
      BY <2>1, <2>2, RegionFields
    <2>4. d # b
      BY <1>3, <1>4, <2>2, <2>3
    <2>5. arena'.used[d] = a.used[d]
      BY <1>8, <2>2, <2>4
    <2>6. QED
      BY <2>1, <2>2, <2>5
  <1>12. MemorySound'
    BY <1>5, <1>8, <1>10, <1>11, GivesMemory
  <1>13. QED
    BY <1>9, <1>12

\* The memory behind a list that ends its block is nobody's: the list may
\* have it.
LEMMA ExtendSound ==
  ASSUME ArenaSound, MemorySound, ListsSound, NEW l \in Lists, live[l] # None,
         Bytes(l) \in Nat, CanExtend(l),
         arena' = Bump(arena, arena.current, Bytes(l)),
         NEW r, r = [live[l] EXCEPT !.size = 2 * Bytes(l)], live' = [live EXCEPT ![l] = r],
         heap' = heap, gone' = gone
  PROVE  ArenaSound' /\ MemorySound'
  <1>1. PICK b \in Blocks, m \in Nat : b = arena.current /\ m = Bytes(l)
    BY DEF ArenaSound
  <1>2. b \in 1 .. Len(arena.used) /\ b \in Int /\ b > 0
    BY DEF Blocks
  <1>3. \A d \in 1 .. Len(arena.used) : arena.used[d] \in Nat /\ arena.left[d] \in Nat
    BY ElementOfSeq DEF ArenaSound, ArenaShapes
  <1>4. EndsBlock(l) /\ arena.left[b] >= m
    BY <1>1 DEF CanExtend
  <1>5. l \in Owners /\ live[l] \in Regions /\ live[l].at \in Nat
    BY RegionFields DEF Owners, MemorySound
  <1>6. live[l].in = b /\ live[l].at + m = arena.used[b] /\ live[l].size = m
    BY <1>1, <1>4 DEF EndsBlock, ListsSound, ListsFit
  <1>7. /\ arena' \in ArenaShapes
        /\ Len(arena'.used) = Len(arena.used)
        /\ arena'.current = arena.current
        /\ \A d \in 1 .. Len(arena.used) :
              /\ arena'.used[d] = IF d = b THEN arena.used[b] + m ELSE arena.used[d]
              /\ arena'.left[d] = IF d = b THEN arena.left[b] - m ELSE arena.left[d]
    <2>1. arena' = Bump(arena, b, m) /\ arena \in ArenaShapes
      BY <1>1 DEF ArenaSound
    <2>2. arena.used[b] + m >= 0 /\ arena.left[b] - m >= 0
      BY <1>2, <1>3, <1>4
    <2>3. m \in Int
      OBVIOUS
    <2>4. QED
      BY <1>2, <2>1, <2>2, <2>3, BumpBlock
  <1>8. Blocks' = Blocks /\ Blocks = 1 .. Len(arena.used)
    BY <1>7 DEF Blocks
  <1>9. ArenaSound'
    <2>1. \A d \in Blocks : arena'.used[d] + arena'.left[d] = Room(d)
      <3> TAKE d \in Blocks
      <3>1. arena.used[d] + arena.left[d] = Room(d)
        BY DEF ArenaSound
      <3>2. CASE d = b
        <4>1. \A x, y, k \in Nat : (x + k) + (y - k) = x + y
          OBVIOUS
        <4>2. arena.used[b] \in Nat /\ arena.left[b] \in Nat
          BY <1>2, <1>3
        <4>3. (arena.used[b] + m) + (arena.left[b] - m) = arena.used[b] + arena.left[b]
          BY <4>1, <4>2
        <4>4. QED
          BY <1>2, <1>7, <3>1, <3>2, <4>3
      <3>3. CASE d # b
        BY <1>7, <1>8, <3>1, <3>3
      <3>4. QED
        BY <3>2, <3>3
    <2>2. QED
      BY <1>7, <1>8, <2>1 DEF ArenaSound, Room
  <1>10. r = [live[l] EXCEPT !.size = 2 * m]
    BY <1>1
  <1>11. /\ r \in Regions /\ r.in = b /\ r.at = live[l].at /\ r.size = 2 * m
         /\ 2 * m = m + m
    BY <1>5, <1>6, <1>10 DEF Regions
  <1>12. live' = [live EXCEPT ![l] = r]
    OBVIOUS
  <1>13. /\ live' \in [Owners -> Regions]
         /\ live'[l] = r
         /\ \A q \in Owners : q # l => live'[q] = live[q]
    BY <1>5, <1>11, <1>12 DEF MemorySound
  <1>14. m > 0
    BY <1>5, <1>6 DEF MemorySound, RegionsSized
  <1>15. RegionsSized'
    <2>1. r.in >= 0 /\ r.size > 0
      BY <1>2, <1>11, <1>14
    <2>2. \A q \in Owners : live[q] # None => live[q].in >= 0 /\ live[q].size > 0
      BY DEF MemorySound, RegionsSized
    <2>3. \A q \in Owners : live'[q] # None => live'[q].in >= 0 /\ live'[q].size > 0
      BY <1>13, <2>1, <2>2
    <2>4. QED
      BY <2>3 DEF RegionsSized, None
  <1>16. RegionsIn'
    <2>1. ASSUME NEW q \in Owners, live'[q].in > 0
          PROVE  live'[q].in \in Blocks
                   /\ live'[q].at + live'[q].size <= arena'.used[live'[q].in]
      <3>1. CASE q = l
        <4>1. live'[q].in = b /\ live'[q].at = live[l].at /\ live'[q].size = m + m
          BY <3>1, <1>11, <1>13
        <4>2. arena'.used[b] = arena.used[b] + m
          BY <1>2, <1>7
        <4>3. live[l].at + (m + m) <= arena.used[b] + m
          BY <1>2, <1>3, <1>5, <1>6
        <4>4. QED
          BY <4>1, <4>2, <4>3, <1>1
      <3>2. CASE q # l
        <4>1. PICK d : d = live[q].in
          OBVIOUS
        <4>2. live'[q] = live[q]
          BY <1>13, <3>2
        <4>3. d \in Blocks /\ live[q].at + live[q].size <= arena.used[d]
          BY <2>1, <4>1, <4>2 DEF MemorySound, RegionsIn
        <4>4. live[q].at \in Nat /\ live[q].size \in Nat
          BY RegionFields DEF MemorySound
        <4>5. arena.used[d] <= arena'.used[d] /\ arena'.used[d] \in Nat /\ arena.used[d] \in Nat
          BY <1>2, <1>3, <1>7, <1>8, <4>3
        <4>6. live[q].at + live[q].size <= arena'.used[d]
          BY <4>3, <4>4, <4>5
        <4>7. QED
          BY <4>1, <4>2, <4>3, <4>6
      <3>3. QED
        BY <3>1, <3>2
    <2>2. ASSUME NEW q \in Owners, live'[q].in = 0 PROVE live'[q].at \in heap
      <3>1. q # l
        <4>1. live'[l].in = b /\ b # 0
          BY <1>2, <1>11, <1>13
        <4>2. QED
          BY <2>2, <4>1
      <3>2. QED
        BY <2>2, <3>1, <1>13 DEF MemorySound, RegionsIn
    <2>3. QED
      BY <1>8, <2>1, <2>2 DEF RegionsIn
  <1>17. NoOverlap'
    <2>1. ASSUME NEW q \in Owners, q # l PROVE Apart(live[q], r) /\ Apart(r, live[q])
      <3>1. CASE live[q].in # b
        BY <1>11, <3>1 DEF Apart
      <3>2. CASE live[q].in = b
        <4>1. live[q].at + live[q].size <= live[l].at
          BY <1>1, <1>4, <2>1, <3>2, NothingBehind
        <4>2. QED
          BY <1>2, <1>11, <3>2, <4>1 DEF Apart
      <3>3. QED
        BY <3>1, <3>2
    <2>2. \A p, q \in Owners : p # q /\ live[p] # None /\ live[q] # None => Apart(live[p], live[q])
      BY DEF MemorySound, NoOverlap
    <2>3. \A p, q \in Owners :
            p # q /\ live'[p] # None /\ live'[q] # None => Apart(live'[p], live'[q])
      BY <1>13, <2>1, <2>2
    <2>4. QED
      BY <2>3 DEF NoOverlap, Apart, None
  <1>18. QED
    BY <1>9, <1>13, <1>15, <1>16, <1>17 DEF MemorySound

-----------------------------------------------------------------------------
(* The steps. *)

LEMMA Times ==
  ASSUME NEW c \in Nat, NEW s \in Nat \ {0}
  PROVE  /\ c * s \in Nat
         /\ (2 * c) * s = 2 * (c * s)
         /\ c > 0 <=> c * s > 0
  OBVIOUS

LEMMA BytesOf ==
  ASSUME ListsSound, NEW l \in Lists
  PROVE  /\ Bytes(l) \in Nat
         /\ (2 * capacity[l]) * ItemSize[l] = 2 * Bytes(l)
         /\ capacity[l] > 0 <=> Bytes(l) > 0
  <1>1. capacity[l] \in Nat /\ ItemSize[l] \in Nat \ {0}
    BY ArenaAssumption DEF ListsSound
  <1>2. QED
    BY <1>1, Times DEF Bytes

LEMMA GrownSound ==
  ASSUME ArenaSound, NEW a, Grown(a), arena' = a, gone' = gone
  PROVE  ArenaSound'
  BY DEF ArenaSound, Grown, Blocks, Room

\* Only the owner that asked, and a reference, have been given memory.
LEMMA GivesOthers ==
  ASSUME NEW o, NEW n \in Nat \ {0}, NEW a, Gives(o, n, a), RefsSound
  PROVE  live'[o] # None /\ \A l \in Lists : l # o => live'[l] = live[l]
  <1>1. live'[o].size = n
    BY DEF Gives
  <1>2. Len(refs) + 1 \in Nat
    BY LenProperties DEF RefsSound
  <1>3. \A l \in Lists : l \in Owners /\ l # Len(refs) + 1
    BY <1>2, ArenaAssumption DEF Owners
  <1>4. QED
    BY <1>1, <1>3 DEF Gives, None

\* wsgi_gc_malloc and wsgi_gc_malloc_ref leave the arena sound.
LEMMA GiveSound ==
  ASSUME ArenaSound, RefsSound, MemorySound, NEW o \in Users \cup Lists, NEW n \in Nat \ {0},
         Give(o, n), arena' = ArenaAfter(n), gone' = gone
  PROVE  ArenaSound' /\ RefsSound' /\ MemorySound'
  <1>1. RefsSound' /\ heap \subseteq heap'
    BY GiveRefs
  <1>2. PICK a : a = ArenaAfter(n)
    OBVIOUS
  <1>3. Grown(a) /\ Gives(o, n, a) /\ arena' = a
    BY <1>2, GiveGives DEF MemorySound
  <1>4. o \in Owners
    BY DEF Owners
  <1>5. QED
    BY <1>1, <1>3, <1>4, GrownSound, TakesMemory

LEMMA KeepSound ==
  ASSUME ArenaSound, RefsSound, MemorySound, NEW o \in Users, NEW n \in Nat \ {0},
         KeepChunk(o, n), arena' = ArenaAfterRef, gone' = gone
  PROVE  ArenaSound' /\ RefsSound' /\ MemorySound' /\ \A l \in Lists : live'[l] = live[l]
  <1>1. RefsSound' /\ heap \subseteq heap'
    BY KeepChunkSound
  <1>2. PICK a : a = ArenaAfterRef
    OBVIOUS
  <1>3. Grown(a) /\ Gives(o, n, a) /\ arena' = a
    BY <1>2, KeepChunkGives DEF MemorySound
  <1>4. o \in Owners
    BY DEF Owners
  <1>5. \A l \in Lists : l # o
    BY ArenaAssumption
  <1>6. QED
    BY <1>1, <1>3, <1>4, <1>5, GrownSound, TakesMemory, GivesOthers

LEMMA ListsSame ==
  ASSUME ListsSound, \A l \in Lists : live'[l] = live[l], UNCHANGED <<capacity, length>>
  PROVE  ListsSound'
  BY DEF ListsSound, ListsFit, ListsStart, Bytes, None

LEMMA RefsSame ==
  ASSUME RefsSound, refs' = refs, heap' = heap
  PROVE  RefsSound'
  <1>1. Kept' = Kept
    BY DEF Kept
  <1>2. RefsFit'
    BY DEF RefsSound, RefsFit
  <1>3. KeptOnce'
    <2>1. KeptOnce
      BY DEF RefsSound
    <2>2. QED
      BY <2>1, SMTT(30) DEF KeptOnce
  <1>4. QED
    BY <1>1, <1>2, <1>3 DEF RefsSound

LEMMA MemorySame ==
  ASSUME MemorySound, arena' = arena, heap' = heap, live' = live
  PROVE  MemorySound'
  BY DEF MemorySound, RegionsSized, RegionsIn, NoOverlap, Apart, Blocks, None

LEMMA MallocInv ==
  ASSUME Inv, NEW o \in Users, NEW n \in Sizes, Malloc(o, n)
  PROVE  Inv'
  <1>1. ArenaSound /\ RefsSound /\ MemorySound /\ ListsSound
    BY DEF Inv, Malloc, ArenaGone
  <1>2. n \in Nat \ {0} /\ o \in Users \cup Lists
    BY ArenaAssumption
  <1>3. arena' = ArenaAfter(n) /\ Give(o, n) /\ gone' = gone
    BY DEF Malloc
  <1>4. ArenaSound' /\ RefsSound' /\ MemorySound'
    BY <1>1, <1>2, <1>3, GiveSound
  <1>5. \A l \in Lists : live'[l] = live[l]
    <2>1. PICK a : Gives(o, n, a)
      BY <1>1, <1>2, <1>3, GiveGives DEF MemorySound
    <2>2. \A l \in Lists : l # o
      BY ArenaAssumption
    <2>3. QED
      BY <1>1, <1>2, <2>1, <2>2, GivesOthers
  <1>6. ListsSound'
    BY <1>1, <1>5, ListsSame DEF Malloc
  <1>7. QED
    BY <1>4, <1>6 DEF Inv, Malloc

LEMMA MallocRefInv ==
  ASSUME Inv, NEW o \in Users, NEW n \in Sizes, MallocRef(o, n)
  PROVE  Inv'
  <1>1. ArenaSound /\ RefsSound /\ MemorySound /\ ListsSound
    BY DEF Inv, MallocRef, ArenaGone
  <1>2. n \in Nat \ {0}
    BY ArenaAssumption
  <1>3. ArenaSound' /\ RefsSound' /\ MemorySound' /\ \A l \in Lists : live'[l] = live[l]
    BY <1>1, <1>2, KeepSound DEF MallocRef
  <1>4. ListsSound'
    BY <1>1, <1>3, ListsSame DEF MallocRef
  <1>5. QED
    BY <1>3, <1>4 DEF Inv, MallocRef

LEMMA RefFailsInv ==
  ASSUME Inv, RefFails
  PROVE  Inv'
  <1>1. UNCHANGED <<arena, refs, heap, live, capacity, length, gone>>
    BY DEF RefFails
  <1>2. faults' \in 0 .. MaxFaults
    BY ArenaAssumption DEF Inv, RefFails
  <1>3. ArenaSound \/ ArenaGone => (ArenaSound \/ ArenaGone)'
    BY <1>1 DEF ArenaSound, ArenaGone, Blocks, Room
  <1>4. RefsSound => RefsSound'
    BY <1>1, RefsSame
  <1>5. MemorySound => MemorySound'
    BY <1>1, MemorySame
  <1>6. ListsSound => ListsSound'
    BY <1>1, ListsSame
  <1>7. QED
    BY <1>1, <1>2, <1>3, <1>4, <1>5, <1>6 DEF Inv

LEMMA ListInitInv ==
  ASSUME Inv, NEW l \in Lists, ListInit(l)
  PROVE  Inv'
  <1>1. ArenaSound /\ RefsSound /\ MemorySound /\ ListsSound
    BY DEF Inv, ListInit, ArenaGone
  <1>2. PICK n : n = FirstCapacity * ItemSize[l]
    OBVIOUS
  <1>3. n \in Nat \ {0} /\ l \in Users \cup Lists
    <2>1. ItemSize[l] \in Nat \ {0} /\ FirstCapacity \in Nat /\ FirstCapacity > 0
      BY ArenaAssumption
    <2>2. QED
      BY <1>2, <2>1, Times
  <1>4. arena' = ArenaAfter(n) /\ Give(l, n) /\ gone' = gone
    BY <1>2 DEF ListInit
  <1>5. ArenaSound' /\ RefsSound' /\ MemorySound'
    BY <1>1, <1>3, <1>4, GiveSound
  <1>6. PICK a : Gives(l, n, a)
    BY <1>1, <1>3, <1>4, GiveGives DEF MemorySound
  <1>7. live'[l].size = n /\ live'[l] # None /\ \A k \in Lists : k # l => live'[k] = live[k]
    <2>1. live'[l].size = n
      BY <1>6 DEF Gives
    <2>2. QED
      BY <1>1, <1>3, <1>6, <2>1, GivesOthers
  <1>8. capacity' = [capacity EXCEPT ![l] = FirstCapacity] /\ length' = length /\ live[l] = None
    BY DEF ListInit
  <1>9. capacity' \in [Lists -> Nat] /\ length' \in [Lists -> Nat] /\ length[l] = 0
    BY <1>1, <1>8, ArenaAssumption DEF ListsSound, ListsStart
  <1>10. ASSUME NEW k \in Lists
         PROVE  /\ live'[k] # None =>
                     live'[k].size = capacity'[k] * ItemSize[k] /\ length'[k] <= capacity'[k]
                /\ live'[k] = None => length'[k] = 0
    <2>1. CASE k = l
      BY <2>1, <1>1, <1>2, <1>7, <1>8, <1>9, ArenaAssumption DEF ListsSound
    <2>2. CASE k # l
      <3>1. live'[k] = live[k] /\ capacity'[k] = capacity[k] /\ length'[k] = length[k]
        BY <1>1, <1>7, <1>8, <2>2 DEF ListsSound
      <3>2. QED
        BY <1>1, <3>1 DEF ListsSound, ListsFit, ListsStart, Bytes
    <2>3. QED
      BY <2>1, <2>2
  <1>11. ListsSound'
    BY <1>9, <1>10 DEF ListsSound, ListsFit, ListsStart, Bytes, None
  <1>12. QED
    BY <1>5, <1>11 DEF Inv, ListInit

LEMMA AppendItemInv ==
  ASSUME Inv, NEW l \in Lists, AppendItem(l)
  PROVE  Inv'
  <1>1. UNCHANGED <<arena, refs, heap, live, capacity, gone, faults>>
    BY DEF AppendItem
  <1>2. ListsSound
    BY DEF Inv
  <1>3. length[l] # capacity[l] /\ live[l] # None /\ length' = [length EXCEPT ![l] = @ + 1]
    BY DEF AppendItem, Full, CanAppend
  <1>4. length[l] \in Nat /\ capacity[l] \in Nat /\ length[l] <= capacity[l]
    BY <1>2, <1>3 DEF ListsSound, ListsFit
  <1>5. /\ length' \in [Lists -> Nat]
        /\ length'[l] = length[l] + 1
        /\ \A k \in Lists : k # l => length'[k] = length[k]
    BY <1>2, <1>3, <1>4 DEF ListsSound
  <1>6. length'[l] <= capacity[l]
    BY <1>3, <1>4, <1>5
  <1>7. ListsSound'
    <2>1. \A k \in Lists : live[k] # None => live[k].size = Bytes(k) /\ length'[k] <= capacity[k]
      BY <1>2, <1>5, <1>6 DEF ListsSound, ListsFit
    <2>2. \A k \in Lists : live[k] = None => length'[k] = 0
      BY <1>2, <1>3, <1>5 DEF ListsSound, ListsStart
    <2>3. QED
      BY <1>1, <1>2, <1>5, <2>1, <2>2 DEF ListsSound, ListsFit, ListsStart, Bytes, None
  <1>8. ArenaSound \/ ArenaGone => (ArenaSound \/ ArenaGone)'
    BY <1>1 DEF ArenaSound, ArenaGone, Blocks, Room
  <1>9. RefsSound => RefsSound'
    BY <1>1, RefsSame
  <1>10. MemorySound => MemorySound'
    BY <1>1, MemorySame
  <1>11. QED
    BY <1>1, <1>7, <1>8, <1>9, <1>10 DEF Inv

\* A list that has doubled its memory has room for the item.
LEMMA DoubledLists ==
  ASSUME ListsSound, NEW l \in Lists, live[l] # None, Full(l), Bytes(l) > 0,
         live'[l] # None, live'[l].size = 2 * Bytes(l),
         \A k \in Lists : k # l => live'[k] = live[k],
         capacity' = [capacity EXCEPT ![l] = 2 * @],
         length' = [length EXCEPT ![l] = @ + 1]
  PROVE  ListsSound'
  <1>1. capacity \in [Lists -> Nat] /\ length \in [Lists -> Nat] /\ length[l] = capacity[l]
    BY DEF ListsSound, Full
  <1>2. /\ capacity' \in [Lists -> Nat] /\ capacity'[l] = 2 * capacity[l]
        /\ \A k \in Lists : k # l => capacity'[k] = capacity[k]
    BY <1>1
  <1>3. /\ length' \in [Lists -> Nat] /\ length'[l] = length[l] + 1
        /\ \A k \in Lists : k # l => length'[k] = length[k]
    BY <1>1
  <1>4. capacity[l] > 0 /\ (2 * capacity[l]) * ItemSize[l] = 2 * Bytes(l)
    BY BytesOf
  <1>5. length'[l] <= capacity'[l]
    BY <1>1, <1>2, <1>3, <1>4
  <1>6. live'[l].size = capacity'[l] * ItemSize[l]
    BY <1>2, <1>4
  <1>7. ASSUME NEW k \in Lists, k # l
        PROVE  /\ live'[k] # None =>
                    live'[k].size = capacity'[k] * ItemSize[k] /\ length'[k] <= capacity'[k]
               /\ live'[k] = None => length'[k] = 0
    <2>1. live'[k] = live[k] /\ capacity'[k] = capacity[k] /\ length'[k] = length[k]
      BY <1>2, <1>3, <1>7
    <2>2. QED
      BY <2>1 DEF ListsSound, ListsFit, ListsStart, Bytes
  <1>8. \A k \in Lists :
          /\ live'[k] # None =>
               live'[k].size = capacity'[k] * ItemSize[k] /\ length'[k] <= capacity'[k]
          /\ live'[k] = None => length'[k] = 0
    BY <1>5, <1>6, <1>7
  <1>9. QED
    BY <1>2, <1>3, <1>8 DEF ListsSound, ListsFit, ListsStart, Bytes, None

LEMMA ExtendInv ==
  ASSUME Inv, NEW l \in Lists, Extend(l)
  PROVE  Inv'
  <1>1. ArenaSound /\ RefsSound /\ MemorySound /\ ListsSound /\ live[l] # None
    BY DEF Inv, Extend, CanAppend, ArenaGone
  <1>2. Bytes(l) \in Nat /\ Bytes(l) > 0
    <2>1. live[l].size > 0 /\ live[l].size = Bytes(l)
      BY <1>1 DEF MemorySound, RegionsSized, ListsSound, ListsFit, Owners
    <2>2. QED
      BY <1>1, <2>1, BytesOf
  <1>3. PICK r : r = [live[l] EXCEPT !.size = 2 * Bytes(l)]
    OBVIOUS
  <1>4. live' = [live EXCEPT ![l] = r]
    BY <1>3 DEF Extend
  <1>5. /\ CanExtend(l) /\ Full(l) /\ arena' = Bump(arena, arena.current, Bytes(l))
        /\ heap' = heap /\ refs' = refs /\ gone' = gone /\ faults' = faults
        /\ capacity' = [capacity EXCEPT ![l] = 2 * @]
        /\ length' = [length EXCEPT ![l] = @ + 1]
    BY DEF Extend
  <1>6. ArenaSound' /\ MemorySound'
    BY <1>1, <1>2, <1>3, <1>4, <1>5, ExtendSound
  <1>7. RefsSound'
    BY <1>1, <1>5, RefsSame
  <1>8. /\ live'[l] = r /\ r.size = 2 * Bytes(l)
        /\ \A k \in Lists : k # l => live'[k] = live[k]
    BY <1>1, <1>3, <1>4 DEF MemorySound, Owners, Regions
  <1>9. live'[l] # None
    <2>1. r.size # 0
      BY <1>2, <1>8
    <2>2. QED
      BY <1>8, <2>1 DEF None
  <1>10. ListsSound'
    BY <1>1, <1>2, <1>5, <1>8, <1>9, DoubledLists
  <1>11. QED
    BY <1>5, <1>6, <1>7, <1>10 DEF Inv

LEMMA ReallocInv ==
  ASSUME Inv, NEW l \in Lists, Realloc(l)
  PROVE  Inv'
  <1>1. ArenaSound /\ RefsSound /\ MemorySound /\ ListsSound /\ live[l] # None
    BY DEF Inv, Realloc, CanAppend, ArenaGone
  <1>2. Bytes(l) \in Nat /\ Bytes(l) > 0
    <2>1. live[l].size > 0 /\ live[l].size = Bytes(l)
      BY <1>1 DEF MemorySound, RegionsSized, ListsSound, ListsFit, Owners
    <2>2. QED
      BY <1>1, <2>1, BytesOf
  <1>3. PICK n : n = 2 * Bytes(l)
    OBVIOUS
  <1>4. n \in Nat \ {0} /\ l \in Users \cup Lists /\ l \in Owners
    BY <1>2, <1>3 DEF Owners
  <1>5. PICK a : a = ArenaAfter(n)
    OBVIOUS
  <1>6. /\ Give(l, n) /\ Full(l) /\ gone' = gone /\ faults' = faults
        /\ arena' = IF StillEnds(l, a) THEN Release(a, arena.current, Bytes(l)) ELSE a
        /\ capacity' = [capacity EXCEPT ![l] = 2 * @]
        /\ length' = [length EXCEPT ![l] = @ + 1]
    BY <1>3, <1>5 DEF Realloc
  <1>7. Grown(a) /\ Gives(l, n, a)
    BY <1>1, <1>4, <1>5, <1>6, GiveGives DEF MemorySound
  <1>8. RefsSound' /\ heap \subseteq heap'
    BY <1>1, <1>6, GiveRefs
  <1>9. ArenaSound' /\ MemorySound'
    <2>1. CASE StillEnds(l, a)
      BY <1>1, <1>2, <1>4, <1>6, <1>7, <1>8, <2>1, ReleaseSound DEF StillEnds
    <2>2. CASE ~StillEnds(l, a)
      BY <1>1, <1>4, <1>6, <1>7, <1>8, <2>2, GrownSound, TakesMemory
    <2>3. QED
      BY <2>1, <2>2
  <1>10. live'[l] # None /\ live'[l].size = 2 * Bytes(l)
         /\ \A k \in Lists : k # l => live'[k] = live[k]
    BY <1>1, <1>3, <1>4, <1>7, GivesOthers DEF Gives
  <1>11. ListsSound'
    BY <1>1, <1>2, <1>6, <1>10, DoubledLists
  <1>12. QED
    BY <1>6, <1>8, <1>9, <1>11 DEF Inv

LEMMA FunctionSeq ==
  ASSUME NEW S, NEW n \in Nat, NEW f \in [1 .. n -> S]
  PROVE  f \in Seq(S) /\ Len(f) = n
  <1>1. f \in Seq(S)
    BY SeqDef
  <1>2. Len(f) \in Nat /\ 1 .. Len(f) = 1 .. n
    BY <1>1, LenProperties
  <1>3. QED
    BY <1>2

\* The chunks are freed and nobody uses memory any more.
LEMMA AbandonSound ==
  ASSUME RefsSound, Abandon
  PROVE  RefsSound' /\ MemorySound' /\ ListsSound'
  <1>1. /\ refs' = <<>> /\ heap' = heap \ Kept
        /\ live' = [o \in Owners |-> None]
        /\ capacity' = [l \in Lists |-> 0] /\ length' = [l \in Lists |-> 0]
    BY DEF Abandon
  <1>2. heap' = {}
    BY <1>1 DEF RefsSound
  <1>3. refs' \in Seq(Seq(Nat)) /\ Len(refs') = 0
    BY <1>1
  <1>4. RefsFit' /\ KeptOnce'
    BY <1>3, ArenaAssumption DEF RefsFit, KeptOnce
  <1>5. Kept' = {}
    BY <1>3 DEF Kept
  <1>6. RefsSound'
    BY <1>2, <1>3, <1>4, <1>5 DEF RefsSound
  <1>7. None \in Regions /\ None.in = -1
    BY DEF None, Regions
  <1>8. live' \in [Owners -> Regions] /\ \A o \in Owners : live'[o] = None
    BY <1>1, <1>7
  <1>9. \A o \in Owners : ~(live'[o].in > 0) /\ live'[o].in # 0
    BY <1>7, <1>8
  <1>10. RegionsSized' /\ RegionsIn' /\ NoOverlap'
    BY <1>8, <1>9 DEF RegionsSized, RegionsIn, NoOverlap, None
  <1>11. \A l \in Lists : live'[l] = None /\ length'[l] = 0
    BY <1>1, <1>8 DEF Owners
  <1>12. ListsSound'
    BY <1>1, <1>11 DEF ListsSound, ListsFit, ListsStart, None
  <1>13. QED
    BY <1>6, <1>8, <1>10, <1>12 DEF MemorySound

LEMMA RoomNat ==
  ASSUME NEW b
  PROVE  Room(b) \in Nat
  BY ArenaAssumption DEF Room, BlockSize

LEMMA ResetInv ==
  ASSUME Inv, Reset
  PROVE  Inv'
  <1>1. ArenaSound /\ RefsSound
    BY DEF Inv, Reset, ArenaGone
  <1>2. arena' = EmptyBlocks /\ Abandon /\ gone' = gone /\ faults' = faults
    BY DEF Reset
  <1>3. PICK n \in Nat : n = Len(arena.used)
    BY <1>1, LenProperties DEF ArenaSound, ArenaShapes
  <1>4. Blocks = 1 .. n /\ n > 0
    BY <1>1, <1>3 DEF ArenaSound, Blocks
  <1>5. PICK u, w : u = [b \in 1 .. n |-> 0] /\ w = [b \in 1 .. n |-> Room(b)]
    OBVIOUS
  <1>6. arena' = [used |-> u, left |-> w, fails |-> u, current |-> 1]
    BY <1>2, <1>4, <1>5 DEF EmptyBlocks
  <1>7. /\ u \in [1 .. n -> Nat] /\ u \in [1 .. n -> 0 .. FailsModulus - 1]
        /\ w \in [1 .. n -> Nat]
    BY <1>5, RoomNat, ArenaAssumption
  <1>8. u \in Seq(Nat) /\ u \in Seq(0 .. FailsModulus - 1) /\ w \in Seq(Nat)
        /\ Len(u) = n /\ Len(w) = n
    BY <1>7, FunctionSeq
  <1>9. arena' \in ArenaShapes /\ arena'.used = u /\ arena'.left = w /\ arena'.current = 1
    BY <1>6, <1>8 DEF ArenaShapes
  <1>10. \A b \in 1 .. n : u[b] + w[b] = Room(b)
    BY <1>5, RoomNat
  <1>11. Blocks' = 1 .. n
    BY <1>8, <1>9 DEF Blocks
  <1>12. ArenaSound'
    BY <1>1, <1>2, <1>4, <1>9, <1>10, <1>11 DEF ArenaSound, Room
  <1>13. QED
    BY <1>1, <1>2, <1>12, AbandonSound DEF Inv

LEMMA DestroyInv ==
  ASSUME Inv, Destroy
  PROVE  Inv'
  <1>1. RefsSound /\ faults \in 0 .. MaxFaults
    BY DEF Inv
  <1>2. Abandon /\ ArenaGone' /\ gone' \in BOOLEAN /\ faults' = faults
    BY DEF Destroy, ArenaGone
  <1>3. QED
    BY <1>1, <1>2, AbandonSound DEF Inv

LEMMA StutterInv ==
  ASSUME Inv, UNCHANGED vars
  PROVE  Inv'
  <1>1. UNCHANGED <<arena, refs, heap, live, capacity, length, gone, faults>>
    BY DEF vars
  <1>2. ArenaSound \/ ArenaGone => (ArenaSound \/ ArenaGone)'
    BY <1>1 DEF ArenaSound, ArenaGone, Blocks, Room
  <1>3. RefsSound' /\ MemorySound'
    BY <1>1, RefsSame, MemorySame DEF Inv
  <1>4. ListsSound'
    BY <1>1, ListsSame DEF Inv
  <1>5. QED
    BY <1>1, <1>2, <1>3, <1>4 DEF Inv

LEMMA InitInv == Init => Inv
  <1> SUFFICES ASSUME Init PROVE Inv
    OBVIOUS
  <1>1. PICK u, w : u = <<0>> /\ w = <<Room(1)>>
    OBVIOUS
  <1>2. /\ u \in Seq(Nat) /\ u \in Seq(0 .. FailsModulus - 1) /\ w \in Seq(Nat)
        /\ Len(u) = 1 /\ Len(w) = 1 /\ u[1] = 0 /\ w[1] = Room(1)
    BY <1>1, RoomNat, ArenaAssumption
  <1>3. arena = [used |-> u, left |-> w, fails |-> u, current |-> 1]
    BY <1>1 DEF Init
  <1>4. arena \in ArenaShapes /\ arena.used = u /\ arena.left = w /\ arena.current = 1
    BY <1>2, <1>3 DEF ArenaShapes
  <1>5. ArenaSound
    <2>1. Blocks = {1}
      <3>1. Len(arena.used) = 1
        BY <1>2, <1>4
      <3>2. 1 .. 1 = {1}
        OBVIOUS
      <3>3. QED
        BY <3>1, <3>2 DEF Blocks
    <2>2. 0 + Room(1) = Room(1)
      BY RoomNat
    <2>3. ~gone
      BY DEF Init
    <2>4. QED
      BY <1>2, <1>4, <2>1, <2>2, <2>3 DEF ArenaSound
  <1>6. refs \in Seq(Seq(Nat)) /\ Len(refs) = 0 /\ heap = {}
    BY DEF Init
  <1>7. RefsSound
    <2>1. Kept = {}
      BY <1>6 DEF Kept
    <2>2. RefsFit /\ KeptOnce
      BY <1>6, ArenaAssumption DEF RefsFit, KeptOnce
    <2>3. QED
      BY <1>6, <2>1, <2>2 DEF RefsSound
  <1>8. None \in Regions /\ None.in = -1
    BY DEF None, Regions
  <1>9. live \in [Owners -> Regions] /\ \A o \in Owners : live[o] = None
    BY <1>8 DEF Init
  <1>10. MemorySound
    <2>1. \A o \in Owners : ~(live[o].in > 0) /\ live[o].in # 0
      BY <1>8, <1>9
    <2>2. QED
      BY <1>9, <2>1 DEF MemorySound, RegionsSized, RegionsIn, NoOverlap
  <1>11. ListsSound
    <2>1. \A l \in Lists : live[l] = None
      BY <1>9 DEF Owners
    <2>2. capacity \in [Lists -> Nat] /\ length \in [Lists -> Nat] /\ \A l \in Lists : length[l] = 0
      BY DEF Init
    <2>3. QED
      BY <2>1, <2>2 DEF ListsSound, ListsFit, ListsStart
  <1>12. gone \in BOOLEAN
    BY DEF Init
  <1>13. faults \in 0 .. MaxFaults
    BY ArenaAssumption DEF Init
  <1>14. QED
    BY <1>5, <1>7, <1>10, <1>11, <1>12, <1>13 DEF Inv

LEMMA NextInv == Inv /\ [Next]_vars => Inv'
  <1> SUFFICES ASSUME Inv, [Next]_vars PROVE Inv'
    OBVIOUS
  <1>1. ASSUME NEW o \in Users, NEW n \in Sizes, Malloc(o, n) \/ MallocRef(o, n) PROVE Inv'
    BY <1>1, MallocInv, MallocRefInv
  <1>2. CASE RefFails
    BY <1>2, RefFailsInv
  <1>3. ASSUME NEW l \in Lists, ListInit(l) \/ AppendItem(l) \/ Extend(l) \/ Realloc(l) PROVE Inv'
    BY <1>3, ListInitInv, AppendItemInv, ExtendInv, ReallocInv
  <1>4. CASE Reset
    BY <1>4, ResetInv
  <1>5. CASE Destroy
    BY <1>5, DestroyInv
  <1>6. CASE UNCHANGED vars
    BY <1>6, StutterInv
  <1>7. QED
    BY <1>1, <1>2, <1>3, <1>4, <1>5, <1>6 DEF Next

\* The arena, its references, the memory in use and the lists are always sound.
THEOREM Invariance == Spec => []Inv
  BY InitInv, NextInv, PTL DEF Spec

-----------------------------------------------------------------------------
(* What it implies. *)

LEMMA InvHeap ==
  ASSUME RefsSound
  PROVE  heap \subseteq Nat
  <1> SUFFICES ASSUME NEW c \in heap PROVE c \in Nat
    OBVIOUS
  <1>1. PICK i \in 1 .. Len(refs) : \E j \in 1 .. Len(refs[i]) : c = refs[i][j]
    BY DEF RefsSound, Kept
  <1>2. refs[i] \in Seq(Nat)
    BY ElementOfSeq DEF RefsSound
  <1>3. QED
    BY <1>1, <1>2, ElementOfSeq

LEMMA InvTypeOK == Inv => TypeOK
  <1> SUFFICES ASSUME Inv PROVE TypeOK
    OBVIOUS
  <1>1. CASE ArenaSound
    <2>1. Len(arena.used) \in Nat /\ arena.used # <<>>
      BY <1>1, LenProperties DEF ArenaSound, ArenaShapes, Blocks
    <2>2. QED
      BY <1>1, <2>1, InvHeap DEF Inv, TypeOK, ArenaSound, ArenaShapes, RefsSound, MemorySound, ListsSound
  <1>2. CASE ArenaGone
    <2>1. /\ arena.used = <<>> /\ arena.left = <<>> /\ arena.fails = <<>>
          /\ Len(arena.left) = Len(arena.used) /\ Len(arena.fails) = Len(arena.used)
      BY <1>2 DEF ArenaGone
    <2>2. arena.used \in Seq(Nat) /\ arena.left \in Seq(Nat)
          /\ arena.fails \in Seq(0 .. FailsModulus - 1)
      BY <2>1
    <2>3. QED
      BY <1>2, <2>1, <2>2, InvHeap DEF Inv, TypeOK, ArenaGone, RefsSound, MemorySound, ListsSound
  <1>3. QED
    BY <1>1, <1>2 DEF Inv

\* The blocks, references, regions and lists are what their types can hold:
\* no counter of a block is ever below zero, and the current block exists.
THEOREM TypeCorrectness == Spec => []TypeOK
  BY Invariance, InvTypeOK, PTL

\* Whatever lists grow, move and release, no two owners share memory
\* (wsgi_gc_malloc, wsgi_gc_malloc_ref and wsgi_list_append).
THEOREM MemoryIsDisjoint == Spec => []NoOverlap
  <1>1. Inv => NoOverlap
    BY DEF Inv, MemorySound
  <1>2. QED
    BY <1>1, Invariance, PTL

\* The counters of a block agree with its size, and memory in use is memory
\* the block has given.
THEOREM BlocksAccount == Spec => []Accounted
  <1>1. Inv => Accounted
    <2> SUFFICES ASSUME Inv PROVE Accounted
      OBVIOUS
    <2>1. \A b \in Blocks : arena.left[b] >= 0 /\ arena.used[b] + arena.left[b] = Room(b)
      <3>1. CASE ArenaSound
        BY <3>1, ElementOfSeq DEF ArenaSound, ArenaShapes, Blocks
      <3>2. CASE ArenaGone
        BY <3>2 DEF ArenaGone, Blocks
      <3>3. QED
        BY <3>1, <3>2 DEF Inv
    <2>2. QED
      BY <2>1 DEF Inv, MemorySound, RegionsIn, Accounted
  <1>2. QED
    BY <1>1, Invariance, PTL

\* Every chunk of the heap is kept by exactly one slot of one reference, so
\* that it is freed exactly once, and nobody uses one that has been freed.
THEOREM ChunksAreKept == Spec => []ChunksKept
  <1>1. Inv => ChunksKept
    BY DEF Inv, RefsSound, KeptOnce, MemorySound, RegionsIn, ChunksKept
  <1>2. QED
    BY <1>1, Invariance, PTL

\* A list has the memory its capacity says, and no more items than that.
THEOREM ItemsFit == Spec => []ListsFit
  <1>1. Inv => ListsFit
    BY DEF Inv, ListsSound
  <1>2. QED
    BY <1>1, Invariance, PTL
=============================================================================
