--------------------------- MODULE KqueueChanges ---------------------------
(***************************************************************************)
(* The table of wsgi_kqueue.c.  kevent is given, on every wait, one entry  *)
(* for each descriptor to be watched; add writes behind the last entry and *)
(* del moves the last one into the hole.  The kernel remembers what it has *)
(* been given until the descriptor is closed, and descriptors are reused.  *)
(***************************************************************************)
EXTENDS Integers, FiniteSets

CONSTANTS
  Handlers,       \* acceptors and connections
  Acceptors,
  Handles,        \* descriptors
  EventsLength,   \* e->events_length: entries of changes[]
  NoHandle,       \* -1
  NoHandler

\* Nothing says that there are as many entries as handlers.  The defaults are
\* 16 entries, and 16 connections with at least one acceptor.
ASSUME TableAssumption ==
  /\ EventsLength \in Nat
  /\ IsFiniteSet(Handlers)
  /\ Acceptors \subseteq Handlers
  /\ NoHandle \notin Handles
  /\ NoHandler \notin Handlers

VARIABLES
  changes,   \* the table: descriptor and handler
  index,     \* its first free entry
  handle,    \* the descriptor of each handler that is open
  knotes,    \* what the kernel watches: a handler for a descriptor
  failed,    \* a listener could not be opened, and the program ends
  overrun    \* an entry was written behind the table

vars == <<changes, index, handle, knotes, failed, overrun>>

Entries == 0 .. EventsLength - 1
Entry(h, f) == [ident |-> f, udata |-> h]
Blank == Entry(NoHandler, NoHandle)

Open(h) == handle[h] # NoHandle
Opened == {h \in Handlers : Open(h)}

\* The program runs and its memory is its own: what it does after a write
\* behind the table is undefined, and no step of this module.
Sound == ~failed /\ ~overrun

Init ==
  /\ changes = [i \in Entries |-> Blank]
  /\ index = 0
  /\ handle = [h \in Handlers |-> NoHandle]
  /\ knotes = [f \in Handles |-> NoHandler]
  /\ failed = FALSE
  /\ overrun = FALSE

\* A socket is opened or accepted, with a descriptor nobody has.
\* (Acceptors are added before any connection, which nothing here needs.)
GetsHandle(h, f) ==
  /\ ~Open(h)
  /\ \A g \in Handlers : handle[g] # f
  /\ handle' = [handle EXCEPT ![h] = f]

\* add writes the next entry, and does not look whether there is one: behind
\* the table lies memory of somebody else, the array of events to begin with.
Add(h, f) ==
  /\ Sound
  /\ GetsHandle(h, f)
  /\ index' = index + 1
  /\ \/ /\ index < EventsLength
        /\ changes' = [changes EXCEPT ![index] = Entry(h, f)]
        /\ UNCHANGED overrun
     \/ /\ index >= EventsLength
        /\ overrun' = TRUE
        /\ UNCHANGED changes
  /\ UNCHANGED <<knotes, failed>>

\* The entry del finds for a descriptor: the last one.
Found(f) == {i \in 0 .. index - 1 : changes[i].ident = f}
Hole(f) == CHOOSE i \in Found(f) : \A j \in Found(f) : j <= i

\* Mutant: the hole is left.
WithoutHole(f) == changes

\* The last entry moves into the hole, unless it is the hole.
Without(f) == [changes EXCEPT ![Hole(f)] = changes[index - 1]]

\* Mutant: the kernel's copy is not ours to drop, and neither is the entry.
CloseUndeleted(h) ==
  /\ Sound
  /\ Open(h)
  /\ handle' = [handle EXCEPT ![h] = NoHandle]
  /\ knotes' = [knotes EXCEPT ![handle[h]] = NoHandler]
  /\ UNCHANGED <<changes, index, failed, overrun>>

\* del, and the close of the descriptor that follows in every caller.
Close(h) ==
  /\ Sound
  /\ Open(h)
  /\ changes' = Without(handle[h])
  /\ index' = index - 1
  /\ handle' = [handle EXCEPT ![h] = NoHandle]
  /\ knotes' = [knotes EXCEPT ![handle[h]] = NoHandler]
  /\ UNCHANGED <<failed, overrun>>

\* A listener that could not be opened, when only listeners are, is deleted
\* nevertheless.  It has no entry, but the last one is dropped before that
\* is noticed.
OpenFails(h) ==
  /\ Sound
  /\ ~Open(h) /\ \A g \in Handlers : Open(g) => g \in Acceptors
  /\ failed' = TRUE
  /\ index' = index - 1
  /\ UNCHANGED <<changes, handle, knotes, overrun>>

\* Mutant: one entry too few is given.
GivenShort == {changes[i] : i \in 1 .. index - 1}

\* What kevent is given.
Given == {changes[i] : i \in 0 .. index - 1}

\* EV_ADD of each entry: a descriptor that is watched gets the new handler.
Wait ==
  /\ Sound
  /\ knotes' = [f \in Handles |->
                  IF \E c \in Given : c.ident = f
                    THEN (CHOOSE c \in Given : c.ident = f).udata ELSE knotes[f]]
  /\ UNCHANGED <<changes, index, handle, failed, overrun>>

Next ==
  \/ \E h \in Handlers : (\E f \in Handles : Add(h, f)) \/ Close(h)
  \/ \E h \in Acceptors : OpenFails(h)
  \/ Wait

Spec == Init /\ [][Next]_vars

-----------------------------------------------------------------------------
(* Properties. *)

\* Types; the index leaves the table only where the program is lost, by one.
TypeOK ==
  /\ changes \in [Entries -> [ident : Handles \cup {NoHandle}, udata : Handlers \cup {NoHandler}]]
  /\ index \in -1 .. EventsLength + 1
  /\ handle \in [Handlers -> Handles \cup {NoHandle}]
  /\ knotes \in [Handles -> Handlers \cup {NoHandler}]
  /\ failed \in BOOLEAN
  /\ overrun \in BOOLEAN
  /\ ~failed => index >= 0
  /\ ~overrun => index <= EventsLength

\* add has written behind the table exactly if more listeners and connections
\* are open than it has entries: whatever was opened and closed before, in
\* whichever order, del has left no entry of anybody else to fill it up.
OverrunOnlyCrowded ==
  /\ overrun <=> Cardinality(Opened) > EventsLength
  /\ ~failed => index = Cardinality(Opened)

\* What wsgi_kqueue_create allocates is what add uses: `length' entries.
WritesInTable == ~overrun

\* The table is what is open: each open handler has one entry, with its own
\* descriptor, in whatever order handlers have been opened and closed.
TableExact ==
  Sound =>
    /\ \A i \in 0 .. index - 1 :
         changes[i].udata \in Handlers /\ Open(changes[i].udata)
           /\ changes[i].ident = handle[changes[i].udata]
    /\ \A i, j \in 0 .. index - 1 : changes[i].udata = changes[j].udata => i = j
    /\ \A h \in Handlers : Open(h) => \E i \in 0 .. index - 1 : changes[i].udata = h

\* No two handlers that are open have the same descriptor.
HandlesApart ==
  \A g, h \in Handlers : Open(g) /\ handle[g] = handle[h] => g = h

\* What the kernel watches belongs to the handler it will tell, also after a
\* descriptor was closed and given to another handler before the next wait.
KnotesOwned ==
  \A f \in Handles : knotes[f] # NoHandler => handle[knotes[f]] = f

\* A wait leaves no open handler unwatched.
WaitWatchesAll ==
  [][Wait => \A h \in Handlers : Open(h) => knotes'[handle[h]] = h]_vars
=============================================================================
