------------------------------- MODULE Region -------------------------------
(***************************************************************************)
(* The bump arena Region of src/core/memory.rs.  allocate hands out the    *)
(* block [size, size + n) and moves size up; deallocate moves size back    *)
(* only when the freed block is the tail; clear rewinds to 0.  The client  *)
(* is modelled as well: it holds the blocks it was given (live), frees    *)
(* only blocks it holds, and drops every block when it clears the arena.  *)
(*                                                                         *)
(* usize arithmetic is modelled modulo Word.  `self.size + size` panics on *)
(* overflow in a debug build and wraps in a release build; Build says      *)
(* which.                                                                  *)
(***************************************************************************)
EXTENDS Integers, Sequences, SequencesExt

CONSTANTS
  Capacity,  \* Region::new(capacity)
  Sizes,     \* sizes the client asks allocate for
  Word,      \* 2^(bits of usize)
  Build,     \* "debug" or "release"
  MaxLive    \* most blocks the client holds at once

ASSUME Capacity \in Nat /\ Capacity < Word /\ Sizes \subseteq 0..(Word - 1)
ASSUME Build \in {"debug", "release"} /\ MaxLive \in Nat

VARIABLES
  size,    \* self.size
  live,    \* blocks [off, len] the client holds, in allocation order
  result,  \* what the last call returned
  mode     \* "ok", or "panicked" after an overflow panic

vars == <<size, live, result, mode>>

Block == [off : 0..(Word - 1), len : 0..(Word - 1)]

\* Region::new(capacity)
Init ==
  /\ size = 0
  /\ live = <<>>
  /\ result = "Ok"
  /\ mode = "ok"

\* Region::allocate(size): if self.size + size > self.capacity fail, else
\* return ptr + self.size and add size to self.size.
Allocate(n) ==
  /\ mode = "ok" /\ Len(live) < MaxLive
  /\ IF size + n >= Word /\ Build = "debug"
     THEN mode' = "panicked" /\ result' = "Panic" /\ UNCHANGED <<size, live>>
     ELSE LET sum == (size + n) % Word IN
          IF sum > Capacity
          THEN result' = "OutOfMemory" /\ UNCHANGED <<size, live, mode>>
          ELSE /\ size' = sum
               /\ live' = Append(live, [off |-> size, len |-> n])
               /\ result' = "Ok"
               /\ UNCHANGED mode

\* Mutation: deallocate rewinds to the freed block whether or not it is the
\* tail.
DeallocateAnywhere(i) ==
  /\ mode = "ok"
  /\ size' = live[i].off
  /\ live' = RemoveAt(live, i)
  /\ UNCHANGED <<result, mode>>

\* Region::deallocate(ptr, size): if offset + size == self.size then
\* self.size = offset, otherwise nothing.  It returns nothing.
Deallocate(i) ==
  /\ mode = "ok"
  /\ LET b == live[i] IN
       size' = IF (b.off + b.len) % Word = size THEN b.off ELSE size
  /\ live' = RemoveAt(live, i)
  /\ UNCHANGED <<result, mode>>

\* Region::clear: self.size = 0; the client gives up every block.
Clear ==
  /\ mode = "ok"
  /\ size' = 0
  /\ live' = <<>>
  /\ UNCHANGED <<result, mode>>

\* A panic ends the process.
Halted == mode = "panicked" /\ UNCHANGED vars

Next ==
  \/ \E n \in Sizes : Allocate(n)
  \/ \E i \in 1..Len(live) : Deallocate(i)
  \/ Clear
  \/ Halted

Spec == Init /\ [][Next]_vars

-----------------------------------------------------------------------------
TypeOK ==
  /\ size \in 0..Capacity
  /\ live \in Seq(Block)
  /\ mode \in {"ok", "panicked"}

\* The bytes a block covers.
Cells(b) == b.off..(b.off + b.len - 1)

\* Every byte of a block the client holds lies inside the arena, below the
\* bump pointer, and in no other held block: the next allocate, which starts
\* at self.size, never hands out memory a live block still uses.  This
\* needs both the capacity check of allocate and the tail-only rewind of
\* deallocate, over any order of frees (a zero-length tail block lets a
\* non-tail free rewind, harmlessly).
LiveBlocksDisjoint ==
  /\ \A i \in 1..Len(live) : \A k \in Cells(live[i]) : k < size
  /\ \A i, j \in 1..Len(live) :
       i /= j => Cells(live[i]) \cap Cells(live[j]) = {}
=============================================================================
