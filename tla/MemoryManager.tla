--------------------------- MODULE MemoryManager ---------------------------
(***************************************************************************)
(* The paged memory MemoryManager of src/core/memory.rs: a Vec of         *)
(* Option<Page>, grown by allocate_page up to MAX_PAGES slots, a slot set  *)
(* to None by free_page, and byte reads and writes that split an address   *)
(* into page index and offset.  PAGE_SIZE, MAX_PAGES and the byte values   *)
(* are scaled down.  A ghost copy of memory, kept by address, is what the  *)
(* reads are checked against.                                              *)
(***************************************************************************)
EXTENDS Integers, Sequences

CONSTANTS
  PageSize,  \* PAGE_SIZE
  MaxPages,  \* MAX_PAGES
  Bytes,     \* byte values written (0 is the value of a fresh page)
  Addrs,     \* addresses the caller reads and writes
  Unmapped   \* marks a ghost address whose page is not mapped

ASSUME 0 \in Bytes /\ Unmapped \notin Bytes

VARIABLES
  pages,    \* self.pages: a page is a function from offsets to bytes, or Unmapped
  result,   \* what the last call returned
  lastOp,   \* the last method called
  shadow    \* ghost: the byte last stored at each address, or Unmapped

vars == <<pages, result, lastOp, shadow>>

Offsets == 0..(PageSize - 1)
FreshPage == [o \in Offsets |-> 0]

\* MemoryManager::new
Init ==
  /\ pages = <<>>
  /\ result = "Ok"
  /\ lastOp = "new"
  /\ shadow = [a \in Addrs |-> Unmapped]

\* The ghost addresses of page slot p.
AddrsOf(p) == {a \in Addrs : a \div PageSize = p}

\* Mutation: allocate_page without its MAX_PAGES check.
AllocatePageUnbounded ==
  /\ lastOp' = "allocate_page"
  /\ pages' = Append(pages, FreshPage)
  /\ result' = "Ok"
  /\ shadow' = [a \in Addrs |->
                  IF a \in AddrsOf(Len(pages)) THEN 0 ELSE shadow[a]]

\* allocate_page: fail when MAX_PAGES slots exist, else push a fresh page;
\* freed slots are never looked at again.
AllocatePage ==
  /\ lastOp' = "allocate_page"
  /\ IF Len(pages) >= MaxPages
     THEN result' = "OutOfMemory" /\ UNCHANGED <<pages, shadow>>
     ELSE /\ pages' = Append(pages, FreshPage)
          /\ result' = "Ok"
          /\ shadow' = [a \in Addrs |->
                          IF a \in AddrsOf(Len(pages)) THEN 0 ELSE shadow[a]]

\* free_page(page_idx): an index past the Vec fails, any other slot
\* becomes None (again, if it already was).
FreePage(p) ==
  /\ lastOp' = "free_page"
  /\ IF p >= Len(pages)
     THEN result' = "InvalidOperation" /\ UNCHANGED <<pages, shadow>>
     ELSE /\ pages' = [pages EXCEPT ![p + 1] = Unmapped]
          /\ result' = "Ok"
          /\ shadow' = [a \in Addrs |->
                          IF a \in AddrsOf(p) THEN Unmapped ELSE shadow[a]]

\* Mutation: page index and offset taken the wrong way round.
SplitSwapped(a) == [page |-> a % PageSize, offset |-> a \div PageSize]

\* page_idx = addr / PAGE_SIZE; offset = addr % PAGE_SIZE
Split(a) == [page |-> a \div PageSize, offset |-> a % PageSize]

\* self.pages.get(page_idx).and_then(|p| p.as_ref()) is Some.
Mapped(s) == s.page < Len(pages) /\ pages[s.page + 1] /= Unmapped

\* Page::read and Page::write refuse an offset >= PAGE_SIZE.
InPage(s) == s.offset \in Offsets

\* read_memory(addr): Ok(byte), or InvalidOperation on an unmapped page or
\* from Page::read.
ReadMemory(a) ==
  /\ lastOp' = "read_memory"
  /\ LET s == Split(a) IN
       result' = IF Mapped(s) /\ InPage(s)
                  THEN [addr |-> a, ok |-> TRUE, byte |-> pages[s.page + 1][s.offset]]
                  ELSE [addr |-> a, ok |-> FALSE, byte |-> 0]
  /\ UNCHANGED <<pages, shadow>>

\* write_memory(addr, value), storing through Page::write.
WriteMemory(a, v) ==
  /\ lastOp' = "write_memory"
  /\ LET s == Split(a) IN
       IF Mapped(s) /\ InPage(s)
       THEN /\ pages' = [pages EXCEPT ![s.page + 1][s.offset] = v]
            /\ result' = "Ok"
            /\ shadow' = [shadow EXCEPT ![a] = v]
       ELSE result' = "InvalidOperation" /\ UNCHANGED <<pages, shadow>>

Next ==
  \/ AllocatePage
  \/ \E p \in 0..MaxPages : FreePage(p)
  \/ \E a \in Addrs : ReadMemory(a) \/ \E v \in Bytes : WriteMemory(a, v)

Spec == Init /\ [][Next]_vars

-----------------------------------------------------------------------------
TypeOK ==
  /\ Len(pages) \in 0..MaxPages
  /\ \A p \in 1..Len(pages) : pages[p] \in [Offsets -> Bytes] \cup {Unmapped}
  /\ shadow \in [Addrs -> Bytes \cup {Unmapped}]

\* A read of an address returns the byte last written there since its page
\* was allocated (0 if none), and fails exactly when that page is unmapped:
\* the / and % split gives every address a slot of its own, and freed or
\* never-allocated pages are never read.
ReadSeesLastWrite ==
  lastOp = "read_memory" =>
    /\ result.ok = (shadow[result.addr] /= Unmapped)
    /\ result.ok => result.byte = shadow[result.addr]

=============================================================================
