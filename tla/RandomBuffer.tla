----------------------------- MODULE RandomBuffer -----------------------------
(***************************************************************************)
(* random_data (Random.cc): a buffer of each thread, filled from the       *)
(* device BufferSize bytes at a time and used from its end; fork copies    *)
(* it.  The device's bytes are the numbers from 1 on, so that a byte that  *)
(* is handed out twice shows.                                              *)
(***************************************************************************)
EXTENDS Integers, Sequences, FiniteSets, SequencesExt, FiniteSetsExt

CONSTANTS
  Users,                  \* threads, or the forks of one
  BufferSize,             \* 4096 in the code
  Requests,               \* the sizes that are asked for
  MaxBytes                \* bound: what is read from the device

VARIABLES
  buffers,                \* [Users -> the bytes of the thread's buffer]
  drawn,                  \* how many bytes the device has given
  handed,                 \* the bytes that completed calls have handed out
  repeated,               \* some byte was handed out again
  device,                 \* "open" or "closed"
  upset                   \* what has happened: "fork" (of a buffer with bytes), "failure" (after bytes were copied)

randomVars == <<buffers, drawn, handed, repeated, device, upset>>

RandomInit ==
  /\ buffers = [u \in Users |-> <<>>]
  /\ drawn = 0
  /\ handed = {}
  /\ repeated = FALSE
  /\ device = "open"
  /\ upset = {}

Fresh(n) == [i \in 1..BufferSize |-> drawn + n * BufferSize + i]

\* How many times the loop fills the buffer, and what is left in it for the end of the request.
Refills(buffer, bytes) == IF Len(buffer) >= bytes THEN 0 ELSE (bytes - Len(buffer) + BufferSize - 1) \div BufferSize
Source(buffer, n) == IF n = 0 THEN buffer ELSE Fresh(n - 1)

\* The whole buffer, whole fillings, and the rest from the end of the last one.
Copied(buffer, n) == IF n = 0 THEN <<>> ELSE buffer \o [i \in 1..((n - 1) * BufferSize) |-> drawn + i]

\* Mutant: the buffer keeps what was handed out.
LeftAll(last, kept) == last

\* What stays in the buffer.
Left(last, kept) == SubSeq(last, 1, kept)

random_data(u, bytes) ==
  LET buffer == buffers[u]
      n == Refills(buffer, bytes)
      head == Copied(buffer, n)
      last == Source(buffer, n)
      kept == Len(last) - (bytes - Len(head))
      out == head \o SubSeq(last, kept + 1, Len(last))
  IN  /\ device = "open" \/ n = 0
      /\ drawn + n * BufferSize <= MaxBytes
      /\ buffers' = [buffers EXCEPT ![u] = Left(last, kept)]
      /\ drawn' = drawn + n * BufferSize
      /\ handed' = handed \cup ToSet(out)
      /\ repeated' = (repeated \/ ToSet(out) \cap handed # {} \/ Cardinality(ToSet(out)) # bytes)
      /\ UNCHANGED <<device, upset>>

\* The device fails at filling k: what was copied is with the caller, but the buffer keeps it, too.
random_data_throws(u, bytes, k) ==
  LET buffer == buffers[u]
      out == Copied(buffer, k)
  IN  /\ k \in 1..Refills(buffer, bytes)
      /\ drawn + (k - 1) * BufferSize <= MaxBytes
      /\ buffers' = [buffers EXCEPT ![u] = IF k = 1 THEN buffer ELSE Fresh(k - 2)]
      /\ drawn' = drawn + (k - 1) * BufferSize
      /\ handed' = handed \cup ToSet(out)
      /\ repeated' = (repeated \/ ToSet(out) \cap handed # {})
      /\ upset' = IF out = <<>> THEN upset ELSE upset \cup {"failure"}
      /\ UNCHANGED device

\* The child gets a copy of the forking thread's buffer; nothing clears it.
fork(u, child) ==
  /\ buffers[u] # <<>>
  /\ buffers[child] = <<>>
  /\ buffers' = [buffers EXCEPT ![child] = buffers[u]]
  /\ upset' = upset \cup {"fork"}
  /\ UNCHANGED <<drawn, handed, repeated, device>>

close_random_device == device' = "closed" /\ UNCHANGED <<buffers, drawn, handed, repeated, upset>>
-----------------------------------------------------------------------------
RandomNext ==
  \/ \E u \in Users :
       \/ \E bytes \in Requests :
            random_data(u, bytes) \/ (\E k \in 1..2 : device = "open" /\ random_data_throws(u, bytes, k))
       \/ \E bytes \in Requests : device = "closed" /\ random_data_throws(u, bytes, 1)
       \/ \E child \in Users : fork(u, child)
  \/ close_random_device

RandomSpec == RandomInit /\ [][RandomNext]_randomVars
-----------------------------------------------------------------------------
(* No byte of the device is handed out twice, unless a process forked while its thread's buffer held *)
(* bytes, or the device failed in a call that had copied some: then both, or the next call, get them.*)
EachByteOnce == repeated => upset # {}

(* No byte of the device is dropped: what was read and is in nobody's buffer has been handed out,    *)
(* however a request straddles the fillings and wherever one of them fails.                          *)
NoByteDropped == 1..drawn \subseteq handed \cup UNION {ToSet(buffers[u]) : u \in Users}
=============================================================================
