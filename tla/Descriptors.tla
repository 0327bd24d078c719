----------------------------- MODULE Descriptors -----------------------------
(***************************************************************************)
(* scoped_fd, Poll and pipe (Filesystem-Unix.cc) over the kernel's table   *)
(* of descriptors, which hands out the lowest free number, so that a       *)
(* number that is used after its close may mean another file.              *)
(***************************************************************************)
EXTENDS Integers, Sequences, SequencesExt, FiniteSetsExt

CONSTANTS
  Fds,                    \* descriptor numbers, from 0 on
  Objects,                \* the scoped_fd objects
  Events,
  MaxFiles                \* bound: how many files are opened

VARIABLES
  table,                  \* [Fds -> the file open there, or 0]
  held,                   \* [Objects -> [fd, file]]: fd is the field; file is what it was opened on
  raw,                    \* the descriptors the program keeps as plain numbers
  poll_fds,               \* Poll's entries: [fd, events, file]; file is what was added
  again,                  \* history: the descriptors that were added while Poll had them already
  opened,
  careless                \* the program has broken a rule of ownership (below)

fdVars == <<table, held, raw, poll_fds, again, opened, careless>>

Closed == [fd |-> -1, file |-> 0]

FdInit ==
  /\ table = [fd \in Fds |-> 0]
  /\ held = [o \in Objects |-> Closed]
  /\ raw = {}
  /\ poll_fds = <<>>
  /\ again = {}
  /\ opened = 0
  /\ careless = FALSE

Free(tab) == {fd \in DOMAIN tab : tab[fd] = 0}
Lowest(tab) == Min(Free(tab))

Without(tab, fd) == IF fd \in DOMAIN tab THEN [tab EXCEPT ![fd] = 0] ELSE tab
HeldFds == {held[o].fd : o \in Objects} \ {-1}
Polled == {poll_fds[i].fd : i \in DOMAIN poll_fds}

\* A descriptor that is still polled must not be closed.
Breaks(rule) == careless' = (careless \/ rule)
-----------------------------------------------------------------------------
\* --- scoped_fd --------------------------------------------------------------

\* open closes first, and leaves the object closed when it throws.
open(o) ==
  LET tab == Without(table, held[o].fd)
  IN  /\ \/ /\ opened < MaxFiles /\ Free(tab) # {}
            /\ opened' = opened + 1
            /\ table' = [tab EXCEPT ![Lowest(tab)] = opened + 1]
            /\ held' = [held EXCEPT ![o] = [fd |-> Lowest(tab), file |-> opened + 1]]
         \/ /\ table' = tab
            /\ held' = [held EXCEPT ![o] = Closed]
            /\ UNCHANGED opened
      /\ Breaks(held[o].fd \in Polled)
      /\ UNCHANGED <<raw, poll_fds, again>>

\* close and the destructor
close(o) ==
  /\ table' = Without(table, held[o].fd)
  /\ held' = [held EXCEPT ![o] = Closed]
  /\ Breaks(held[o].fd \in Polled)
  /\ UNCHANGED <<raw, poll_fds, again, opened>>

\* Mutant: the object that is moved from keeps its descriptor.
MoveShares(o, other) ==
  /\ table' = Without(table, held[o].fd)
  /\ held' = [held EXCEPT ![o] = held[other]]
  /\ Breaks(held[o].fd \in Polled)
  /\ UNCHANGED <<raw, poll_fds, again, opened>>

\* The object closes its own descriptor, takes other's and empties other, in this order: an object that
\* is assigned to itself ends up closed.  On a closed object this is the move constructor.
move(o, other) ==
  LET shut == [held EXCEPT ![o] = Closed]
  IN  /\ table' = Without(table, held[o].fd)
      /\ held' = [[held EXCEPT ![o] = shut[other]] EXCEPT ![other] = Closed]
      /\ Breaks(held[o].fd \in Polled)
      /\ UNCHANGED <<raw, poll_fds, again, opened>>

\* operator=(int): the object closes its own descriptor, then keeps the number.
assign(o, fd) ==
  /\ table[fd] # 0
  /\ table' = Without(table, held[o].fd)
  /\ held' = [held EXCEPT ![o] = [fd |-> fd, file |-> table[fd]]]
  /\ raw' = raw \ {fd}
  /\ Breaks(fd \in HeldFds \/ held[o].fd \in Polled)
  /\ UNCHANGED <<poll_fds, again, opened>>

\* pipe, and any other call whose answer is a plain number
pipe ==
  LET ends == {Lowest(table), Min(Free(table) \ {Lowest(table)})}
  IN  /\ opened < MaxFiles /\ \E fd \in Free(table) : Free(table) # {fd}
      /\ opened' = opened + 1
      /\ table' = [fd \in Fds |-> IF fd \in ends THEN opened + 1 ELSE table[fd]]
      /\ raw' = raw \cup ends
      /\ UNCHANGED <<held, poll_fds, again, careless>>

raw_close(fd) ==
  /\ fd \in raw
  /\ table' = Without(table, fd)
  /\ raw' = raw \ {fd}
  /\ Breaks(fd \in Polled)
  /\ UNCHANGED <<held, poll_fds, again, opened>>
-----------------------------------------------------------------------------
\* --- Poll: the entries are sorted by descriptor --------------------------------

UpperBound(fd) == Min({i \in 1..(Len(poll_fds) + 1) : i > Len(poll_fds) \/ poll_fds[i].fd > fd})
LowerBound(fd) == Min({i \in 1..(Len(poll_fds) + 1) : i > Len(poll_fds) \/ poll_fds[i].fd >= fd})

\* upper_bound never points at an entry for fd, so that the branch that would change the events of an
\* entry is never taken and fd always gets a new one.
add(fd, events) ==
  LET at == UpperBound(fd)
  IN  /\ table[fd] # 0
      /\ Len(poll_fds) < MaxFiles
      /\ poll_fds' = IF at <= Len(poll_fds) /\ poll_fds[at].fd = fd
                     THEN [poll_fds EXCEPT ![at].events = events]
                     ELSE InsertAt(poll_fds, at, [fd |-> fd, events |-> events, file |-> table[fd]])
      /\ again' = IF fd \in Polled THEN again \cup {fd} ELSE again \ {fd}
      /\ UNCHANGED <<table, held, raw, opened, careless>>

remove(fd, close_fd) ==
  LET at == LowerBound(fd)
      found == at <= Len(poll_fds) /\ poll_fds[at].fd = fd
      closes == found /\ close_fd
      left == IF found THEN RemoveAt(poll_fds, at) ELSE poll_fds
  IN  /\ poll_fds' = left
      /\ table' = IF closes THEN Without(table, fd) ELSE table
      /\ raw' = IF closes THEN raw \ {fd} ELSE raw
      /\ Breaks(closes /\ (fd \in HeldFds \/ \E i \in DOMAIN left : left[i].fd = fd))
      /\ UNCHANGED <<held, again, opened>>
-----------------------------------------------------------------------------
\* Nothing is promised to a careless program, so the model stops there.
FdNext ==
  /\ ~careless
  /\ \/ \E o \in Objects :
          open(o) \/ close(o) \/ (\E other \in Objects : move(o, other)) \/ (\E fd \in Fds : assign(o, fd))
     \/ pipe
     \/ \E fd \in Fds :
          raw_close(fd) \/ (\E events \in Events : add(fd, events)) \/ (\E close_fd \in BOOLEAN : remove(fd, close_fd))

FdSpec == FdInit /\ [][FdNext]_fdVars
-----------------------------------------------------------------------------
(* Each scoped_fd means the file it was opened on, and no two the same, as long as the program gives *)
(* no object a descriptor that another (or itself) holds and lets Poll close none that one holds.   *)
OwnsItsFile ==
  ~careless =>
    /\ \A o \in Objects : held[o].fd # -1 => table[held[o].fd] = held[o].file
    /\ \A o, p \in Objects : o # p /\ held[o].fd # -1 => held[o].fd # held[p].fd

(* Poll's entries stay in the order its searches need; each watches the file that was added, as long *)
(* as no descriptor is closed while an entry is left for it; and there is one entry for a descriptor, *)
(* unless it was added again while Poll had it: add then leaves two, and remove takes only one out.   *)
WatchesWhatWasAdded ==
  ~careless =>
    /\ \A i, j \in DOMAIN poll_fds : i < j =>
         /\ poll_fds[i].fd <= poll_fds[j].fd
         /\ poll_fds[i].fd = poll_fds[j].fd => poll_fds[i].fd \in again
    /\ \A i \in DOMAIN poll_fds : table[poll_fds[i].fd] = poll_fds[i].file

(* No descriptor is lost: whatever is open is held by an object or known to the program, even after *)
(* an open that threw, an object assigned to itself or a careless step.                             *)
NothingLost == \A fd \in Fds : table[fd] # 0 => fd \in raw \cup HeldFds
=============================================================================
