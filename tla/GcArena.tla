------------------------------ MODULE GcArena ------------------------------
(***************************************************************************)
(* The arena of wsgi_gc.c and the growing lists of wsgi_list.c that live   *)
(* in it.  An arena is a chain of blocks, each used from its start up to   *)
(* `used', and a chain of references to chunks of the heap that are freed  *)
(* with it.  Nothing is given back before the arena is reset, except that  *)
(* a list grows in place when it ends where its block ends, and releases   *)
(* its old items when it moves from there.                                 *)
(*                                                                         *)
(* Addresses are offsets from the first byte of a block behind its header. *)
(***************************************************************************)
EXTENDS Integers, Sequences

CONSTANTS
  ArenaSize,      \* the argument of wsgi_gc_create
  GcHeader,       \* sizeof(wsgi_gc_t)
  BlockHeader,    \* sizeof(wsgi_gc_block_t)
  RefSize,        \* sizeof(wsgi_gc_ref_t)
  Users,          \* allocations a caller of the arena keeps
  Lists,          \* lists in the arena
  ItemSize,       \* [Lists -> Nat]: the size of an item
  FirstCapacity,  \* the capacity a list is created with
  Sizes,          \* what callers ask for
  FailsModulus,   \* 2^32: the values of u_int
  MaxRefs,        \* bound: references of the arena
  MaxBlocks,      \* bound: blocks of the arena
  MaxLength,      \* bound: items of a list
  MaxFaults       \* bound: failed allocations in a behaviour

BlockSize == ArenaSize - BlockHeader

\* References are numbered from the oldest.
Refs == 1 .. MaxRefs
Owners == Users \cup Lists \cup Refs

ASSUME ArenaAssumption ==
  /\ ArenaSize \in Nat /\ GcHeader \in Nat /\ BlockHeader \in Nat
  /\ BlockHeader <= GcHeader /\ GcHeader <= ArenaSize
  /\ RefSize \in 1 .. BlockSize
  /\ Users \cap Lists = {} /\ (Users \cup Lists) \cap Nat = {}
  /\ ItemSize \in [Lists -> Nat \ {0}]
  /\ FirstCapacity \in Nat \ {0}
  /\ Sizes \subseteq Nat \ {0}
  /\ FailsModulus \in Nat \ {0}
  /\ MaxRefs \in Nat /\ MaxBlocks \in Nat /\ MaxLength \in Nat /\ MaxFaults \in Nat

VARIABLES
  arena,     \* [used, left, fails]: sequences with an element per block; current
  refs,      \* the chunks each reference holds, at most three
  heap,      \* chunks malloc has given and free has not taken back
  live,      \* the memory each owner uses, None if it uses none
  capacity,  \* of each list
  length,    \* of each list
  gone,      \* the arena has been destroyed
  faults     \* allocations that have failed

vars == <<arena, refs, heap, live, capacity, length, gone, faults>>

None == [in |-> -1, at |-> 0, size |-> 0]

\* size bytes at offset at of block in, or a chunk of the heap.
InBlock(b, at, n) == [in |-> b, at |-> at, size |-> n]
InHeap(chunk, n) == [in |-> 0, at |-> chunk, size |-> n]

\* What a block has for its callers; the first one also holds the wsgi_gc_t.
Room(b) == IF b = 1 THEN ArenaSize - GcHeader ELSE BlockSize

Init ==
  /\ arena = [used |-> <<0>>, left |-> <<Room(1)>>, fails |-> <<0>>, current |-> 1]
  /\ refs = <<>>
  /\ heap = {}
  /\ live = [o \in Owners |-> None]
  /\ capacity = [l \in Lists |-> 0]
  /\ length = [l \in Lists |-> 0]
  /\ gone = FALSE
  /\ faults = 0

-----------------------------------------------------------------------------
(* wsgi_gc_malloc of at most BlockSize bytes. *)

Blocks == 1 .. Len(arena.used)

\* Blocks with room, from the current one on.
Fitting(n) == {b \in Blocks : b >= arena.current /\ arena.left[b] >= n}
FirstFitting(n) == CHOOSE b \in Fitting(n) : \A d \in Fitting(n) : b <= d

\* Give n bytes more of block b.
Bump(a, b, n) == [a EXCEPT !.used[b] = @ + n, !.left[b] = @ - n]

\* A new block is linked at the end.  On the way there `fails' of the block
\* that is about to be current is counted, once for each block passed, and
\* one that has failed often enough is left behind.
PassBlock(w, b) ==
  [c     |-> IF w.fails[w.c] > 2 THEN b + 1 ELSE w.c,
   fails |-> [w.fails EXCEPT ![w.c] = (@ + 1) % FailsModulus]]

\* w[b] is the walk that has passed block b.
WalkFrom(current, fails, last) ==
  LET before == current - 1
      w[b \in before .. last] ==
        IF b = before THEN [c |-> current, fails |-> fails] ELSE PassBlock(w[b - 1], b)
  IN  w[last]

Walk == WalkFrom(arena.current, arena.fails, Len(arena.used))

AllocBlock(n) ==
  [used |-> Append(arena.used, n), left |-> Append(arena.left, BlockSize - n),
   fails |-> Append(Walk.fails, 0), current |-> Walk.c]

\* The arena once n bytes are taken from it, and where they are.
Carve(n) == IF Fitting(n) # {} THEN Bump(arena, FirstFitting(n), n) ELSE AllocBlock(n)

CarvedAt(n) ==
  IF Fitting(n) # {}
    THEN InBlock(FirstFitting(n), arena.used[FirstFitting(n)], n)
    ELSE InBlock(Len(arena.used) + 1, 0, n)

-----------------------------------------------------------------------------
(* wsgi_gc_malloc_ref: a chunk of the heap, kept by a reference.  Of three    *)
(* chunks one reference keeps, the first brings it along.                     *)

RefNeeded == refs # <<>> => Len(refs[Len(refs)]) = 3

\* The lowest free address: one that was freed may come again.
Chunk == CHOOSE chunk \in 1 .. 3 * MaxRefs + 1 :
           chunk \notin heap /\ \A d \in 1 .. chunk - 1 : d \in heap

KeepChunk(o, n) ==
  /\ heap' = heap \cup {Chunk}
  /\ \/ /\ RefNeeded
        /\ Len(refs) < MaxRefs
        /\ refs' = Append(refs, <<Chunk>>)
        /\ live' = [live EXCEPT ![Len(refs) + 1] = CarvedAt(RefSize), ![o] = InHeap(Chunk, n)]
     \/ /\ ~RefNeeded
        /\ refs' = [refs EXCEPT ![Len(refs)] = Append(@, Chunk)]
        /\ live' = [live EXCEPT ![o] = InHeap(Chunk, n)]

\* The arena after wsgi_gc_malloc_ref, and after wsgi_gc_malloc of any size.
ArenaAfterRef == IF RefNeeded THEN Carve(RefSize) ELSE arena
ArenaAfter(n) == IF n > BlockSize THEN ArenaAfterRef ELSE Carve(n)

\* What else wsgi_gc_malloc does: o uses the memory from now on.
Give(o, n) ==
  \/ /\ n > BlockSize
     /\ KeepChunk(o, n)
  \/ /\ n <= BlockSize
     /\ live' = [live EXCEPT ![o] = CarvedAt(n)]
     /\ UNCHANGED <<refs, heap>>

Bounded == Len(arena'.used) <= MaxBlocks

Malloc(o, n) ==
  /\ ~gone
  /\ live[o] = None
  /\ arena' = ArenaAfter(n)
  /\ Give(o, n)
  /\ Bounded
  /\ UNCHANGED <<capacity, length, gone, faults>>

MallocRef(o, n) ==
  /\ ~gone
  /\ live[o] = None
  /\ arena' = ArenaAfterRef
  /\ KeepChunk(o, n)
  /\ Bounded
  /\ UNCHANGED <<capacity, length, gone, faults>>

\* Mutant: the chunk is not freed.
RefFailsLeaking ==
  /\ ~gone
  /\ RefNeeded /\ Fitting(RefSize) = {}
  /\ faults < MaxFaults
  /\ faults' = faults + 1
  /\ heap' = heap \cup {Chunk}
  /\ UNCHANGED <<arena, refs, live, capacity, length, gone>>

\* The chunk was there, but no block for its reference: it is freed again.
RefFails ==
  /\ ~gone
  /\ RefNeeded /\ Fitting(RefSize) = {}
  /\ faults < MaxFaults
  /\ faults' = faults + 1
  /\ UNCHANGED <<arena, refs, heap, live, capacity, length, gone>>

-----------------------------------------------------------------------------
(* wsgi_list.c. *)

ListInit(l) ==
  /\ ~gone
  /\ live[l] = None
  /\ arena' = ArenaAfter(FirstCapacity * ItemSize[l])
  /\ Give(l, FirstCapacity * ItemSize[l])
  /\ Bounded
  /\ capacity' = [capacity EXCEPT ![l] = FirstCapacity]
  /\ UNCHANGED <<length, gone, faults>>

\* The bytes of the items, and whether they are the last of the current block.
Bytes(l) == capacity[l] * ItemSize[l]

\* Mutant: any list of the current block.
EndsBlockSomewhere(l) == live[l].in = arena.current

EndsBlock(l) ==
  /\ live[l].in = arena.current
  /\ live[l].at + Bytes(l) = arena.used[arena.current]

CanAppend(l) == ~gone /\ live[l] # None /\ length[l] < MaxLength

\* Mutant: the list is believed to have room for one item more.
FullLate(l) == length[l] = capacity[l] + 1

Full(l) == length[l] = capacity[l]

AppendItem(l) ==
  /\ CanAppend(l)
  /\ ~Full(l)
  /\ length' = [length EXCEPT ![l] = @ + 1]
  /\ UNCHANGED <<arena, refs, heap, live, capacity, gone, faults>>

CanExtend(l) == EndsBlock(l) /\ arena.left[arena.current] >= Bytes(l)

Extend(l) ==
  /\ CanAppend(l)
  /\ Full(l) /\ CanExtend(l)
  /\ arena' = Bump(arena, arena.current, Bytes(l))
  /\ live' = [live EXCEPT ![l].size = 2 * Bytes(l)]
  /\ capacity' = [capacity EXCEPT ![l] = 2 * @]
  /\ length' = [length EXCEPT ![l] = @ + 1]
  /\ UNCHANGED <<refs, heap, gone, faults>>

\* The old items' bytes are the block's again.
Release(a, b, n) ==
  LET bumped == Bump(a, b, -n)
  IN  [bumped EXCEPT !.fails[b] = (@ + FailsModulus - 1) % FailsModulus]

\* Mutant: it is still the last if it was before.
StillEndsAsBefore(l, after) == EndsBlock(l)

\* Taking more memory may have put something behind the list.
StillEnds(l, after) ==
  EndsBlock(l) /\ after.used[arena.current] = arena.used[arena.current]

\* Take twice the memory and copy.  The old memory is released if it is still
\* the last of the block that was current.
Realloc(l) ==
  /\ CanAppend(l)
  /\ Full(l) /\ ~CanExtend(l)
  /\ LET after == ArenaAfter(2 * Bytes(l))
     IN  arena' = IF StillEnds(l, after)
                    THEN Release(after, arena.current, Bytes(l)) ELSE after
  /\ Give(l, 2 * Bytes(l))
  /\ Bounded
  /\ capacity' = [capacity EXCEPT ![l] = 2 * @]
  /\ length' = [length EXCEPT ![l] = @ + 1]
  /\ UNCHANGED <<gone, faults>>

-----------------------------------------------------------------------------
(* wsgi_gc_reset and wsgi_gc_destroy. *)

Kept == UNION {{refs[i][j] : j \in 1 .. Len(refs[i])} : i \in 1 .. Len(refs)}

\* Every owner's memory is void.
Abandon ==
  /\ live' = [o \in Owners |-> None]
  /\ capacity' = [l \in Lists |-> 0]
  /\ length' = [l \in Lists |-> 0]
  /\ heap' = heap \ Kept
  /\ refs' = <<>>

EmptyBlocks ==
  [used |-> [b \in Blocks |-> 0], left |-> [b \in Blocks |-> Room(b)],
   fails |-> [b \in Blocks |-> 0], current |-> 1]

Reset ==
  /\ ~gone
  /\ arena' = EmptyBlocks
  /\ Abandon
  /\ UNCHANGED <<gone, faults>>

Destroy ==
  /\ ~gone
  /\ gone' = TRUE
  /\ arena' = [used |-> <<>>, left |-> <<>>, fails |-> <<>>, current |-> 0]
  /\ Abandon
  /\ UNCHANGED faults

Next ==
  \/ \E o \in Users, n \in Sizes : Malloc(o, n) \/ MallocRef(o, n)
  \/ RefFails
  \/ \E l \in Lists : ListInit(l) \/ AppendItem(l) \/ Extend(l) \/ Realloc(l)
  \/ Reset \/ Destroy

Spec == Init /\ [][Next]_vars

-----------------------------------------------------------------------------
(* Properties. *)

Regions == [in : Nat \cup {-1}, at : Nat, size : Nat]

\* Blocks and regions are what the fields of the structures can hold: in
\* particular `left', an unsigned number, never wraps below zero.
TypeOK ==
  /\ arena.used \in Seq(Nat) /\ arena.left \in Seq(Nat)
  /\ arena.fails \in Seq(0 .. FailsModulus - 1)
  /\ Len(arena.left) = Len(arena.used) /\ Len(arena.fails) = Len(arena.used)
  /\ gone \in BOOLEAN
  /\ gone <=> arena.used = <<>>
  /\ ~gone => arena.current \in Blocks
  /\ refs \in Seq(Seq(Nat)) /\ heap \subseteq Nat
  /\ live \in [Owners -> Regions]
  /\ capacity \in [Lists -> Nat] /\ length \in [Lists -> Nat]
  /\ faults \in 0 .. MaxFaults

\* Two regions have no byte in common.
Apart(r, s) ==
  \/ r.in # s.in
  \/ r.in = 0 /\ r.at # s.at
  \/ r.in > 0 /\ (r.at + r.size <= s.at \/ s.at + s.size <= r.at)

\* No two owners ever share memory, whatever lists have grown, moved and
\* released in the meantime.
NoOverlap ==
  \A o, p \in Owners : o # p /\ live[o] # None /\ live[p] # None => Apart(live[o], live[p])

\* The two counters of a block agree with its size, and memory in use is
\* memory the block has given: what it still has to give cannot contain it.
\* `left' is unsigned, and never wraps below zero.
Accounted ==
  /\ \A b \in Blocks : arena.left[b] >= 0 /\ arena.used[b] + arena.left[b] = Room(b)
  /\ \A o \in Owners : live[o].in > 0 =>
       live[o].in \in Blocks /\ live[o].at + live[o].size <= arena.used[live[o].in]

\* Every chunk of the heap is kept by one slot of one reference, so that a
\* reset or the destruction of the arena frees it exactly once, and nobody
\* uses a chunk that has been freed.
ChunksKept ==
  /\ heap = Kept
  /\ \A i, j \in 1 .. Len(refs), m, n \in 1 .. 3 :
       m <= Len(refs[i]) /\ n <= Len(refs[j]) /\ refs[i][m] = refs[j][n] => i = j /\ m = n
  /\ \A o \in Owners : live[o].in = 0 => live[o].at \in heap

\* A list has the memory its capacity says, and no more items than that.
ListsFit ==
  \A l \in Lists : live[l] # None => live[l].size = Bytes(l) /\ length[l] <= capacity[l]
=============================================================================
