----------------------------- MODULE Collections -----------------------------
(***************************************************************************)
(* Map, Set, Vec and Queue of src/stdlib/collections/mod.rs over the one   *)
(* key-value storage they share.  Every storage key is the collection's    *)
(* namespace bytes followed by a suffix: the serialized key (Map), the     *)
(* serialized value (Set), the 8 big-endian bytes of an index or the bytes *)
(* of "_length" (Vec, and Queue through its inner Vec).  A Vec or Queue    *)
(* handle caches its length, loaded by Vec::new; the contract holds at     *)
(* most one handle per collection and may drop it and open a new one.     *)
(*                                                                         *)
(* Bytes are integers; a map key is given by its serialization, an item    *)
(* of type T serializes to the one byte <<v>>, true to <<1>>.              *)
(***************************************************************************)
EXTENDS Integers, Sequences, SequencesExt

CONSTANTS
  Colls,    \* the collections a contract opens
  Kind,     \* Kind[c] \in {"map", "set", "vec", "queue"}
  Ns,       \* Ns[c]: the namespace bytes given to new
  Keys,     \* serialized map keys
  Items,    \* item values (positive integers below 256)
  NoItem,   \* the item field of a result that carries none
  MaxLen,   \* most elements the contract pushes onto a Vec or Queue
  Closed    \* the cached length of a collection with no open handle

ASSUME MaxLen < 256 /\ NoItem \notin Items

VARIABLES
  store,   \* storage: a function from the keys present to their bytes
  len,     \* len[c]: the open handle's self.length, or Closed
  result   \* what the last call returned: [op, ok, some, item]

vars == <<store, len, result>>

R(op, ok, some, item) == [op |-> op, ok |-> ok, some |-> some, item |-> item]

\* b"_length"
LengthSuffix == <<95, 108, 101, 110, 103, 116, 104>>

\* u64::to_be_bytes for a value below 256, and u64::from_be_bytes of
\* bytes.try_into().unwrap_or([0; 8]).
BE(i) == [j \in 1..8 |-> IF j = 8 THEN i ELSE 0]
RECURSIVE BigEndian(_, _)
BigEndian(b, n) == IF n = 0 THEN 0 ELSE BigEndian(b, n - 1) * 256 + b[n]
FromBE(b) == IF Len(b) = 8 THEN BigEndian(b, 8) ELSE 0

TrueBytes == <<1>>

\* T::deserialize: the bytes of one item, or an error.
Valid(d) == Len(d) = 1 /\ d[1] \in Items

Present(k) == k \in DOMAIN store
Set(k, v) == store' = (k :> v) @@ store
Removed(st, k) == [x \in DOMAIN st \ {k} |-> st[x]]

\* [&self.prefix[..], suffix].concat()
Key(c, suffix) == Ns[c] \o suffix

Init ==
  /\ store = <<>>
  /\ len = [c \in Colls |-> Closed]
  /\ result = R("new", TRUE, FALSE, NoItem)

\* Map::get, and the lookup of Vec::get past its bounds check.
Lookup(op, k) ==
  IF ~Present(k) THEN R(op, TRUE, FALSE, NoItem)
  ELSE IF Valid(store[k]) THEN R(op, TRUE, TRUE, store[k][1])
  ELSE R(op, FALSE, FALSE, NoItem)

MapGet(c, k) ==
  /\ result' = Lookup("get", Key(c, k))
  /\ UNCHANGED <<store, len>>

MapSet(c, k, v) ==
  /\ Set(Key(c, k), <<v>>)
  /\ result' = R("set", TRUE, FALSE, NoItem)
  /\ UNCHANGED len

MapRemove(c, k) ==
  /\ store' = Removed(store, Key(c, k))
  /\ result' = R("remove", TRUE, FALSE, NoItem)
  /\ UNCHANGED len

MapContains(c, k) ==
  /\ result' = R("contains", TRUE, Present(Key(c, k)), NoItem)
  /\ UNCHANGED <<store, len>>

\* Set::insert and Set::remove return early when contains says there is
\* nothing to do.
SetInsert(c, v) ==
  /\ IF Present(Key(c, <<v>>)) THEN UNCHANGED store
     ELSE Set(Key(c, <<v>>), TrueBytes)
  /\ result' = R("insert", TRUE, ~Present(Key(c, <<v>>)), NoItem)
  /\ UNCHANGED len

SetRemove(c, v) ==
  /\ store' = Removed(store, Key(c, <<v>>))
  /\ result' = R("remove", TRUE, Present(Key(c, <<v>>)), NoItem)
  /\ UNCHANGED len

SetContains(c, v) ==
  /\ result' = R("contains", TRUE, Present(Key(c, <<v>>)), NoItem)
  /\ UNCHANGED <<store, len>>

\* Vec::new and Queue::new: load the length stored under "_length".
VecNew(c) ==
  /\ len[c] = Closed
  /\ len' = [len EXCEPT ![c] = IF Present(Key(c, LengthSuffix))
                               THEN FromBE(store[Key(c, LengthSuffix)]) ELSE 0]
  /\ UNCHANGED <<store, result>>

\* The contract drops its handle.
Drop(c) ==
  /\ len[c] /= Closed
  /\ len' = [len EXCEPT ![c] = Closed]
  /\ UNCHANGED <<store, result>>

\* Vec::push (and Queue::enqueue): store the value at index length, then
\* the incremented length.
VecPush(c, v) ==
  /\ len[c] /= Closed /\ len[c] < MaxLen
  /\ store' = (Key(c, LengthSuffix) :> BE(len[c] + 1))
                @@ (Key(c, BE(len[c])) :> <<v>>) @@ store
  /\ len' = [len EXCEPT ![c] = len[c] + 1]
  /\ result' = R(IF Kind[c] = "vec" THEN "push" ELSE "enqueue", TRUE, FALSE, NoItem)

\* Mutation: pop without its self.length == 0 check.
VecPopUnchecked(c) ==
  /\ len[c] /= Closed
  /\ LET n == len[c] - 1
         k == Key(c, BE(n))
     IN /\ len' = [len EXCEPT ![c] = n]
        /\ IF Present(k) /\ Valid(store[k])
           THEN /\ store' = (Key(c, LengthSuffix) :> BE(n)) @@ Removed(store, k)
                /\ result' = R("pop", TRUE, TRUE, store[k][1])
           ELSE /\ result' = R("pop", ~Present(k), FALSE, NoItem)
                /\ UNCHANGED store

\* Vec::pop: decrement self.length, then read the element; a missing
\* element returns Ok(None) and a bad one Err, both before storage is told.
VecPop(c) ==
  /\ len[c] /= Closed
  /\ IF len[c] = 0
     THEN result' = R("pop", TRUE, FALSE, NoItem) /\ UNCHANGED <<store, len>>
     ELSE LET n == len[c] - 1
              k == Key(c, BE(n))
          IN /\ len' = [len EXCEPT ![c] = n]
             /\ IF Present(k) /\ Valid(store[k])
                THEN /\ store' = (Key(c, LengthSuffix) :> BE(n)) @@ Removed(store, k)
                     /\ result' = R("pop", TRUE, TRUE, store[k][1])
                ELSE /\ result' = R("pop", ~Present(k), FALSE, NoItem)
                     /\ UNCHANGED store

\* Vec::get(index), and Queue::peek as get(0).
VecGet(c, op, i) ==
  /\ len[c] /= Closed
  /\ result' = IF i >= len[c] THEN R(op, TRUE, FALSE, NoItem)
               ELSE Lookup(op, Key(c, BE(i)))
  /\ UNCHANGED <<store, len>>

\* The loop of Queue::dequeue: for i in 1..n copy element i to index i-1,
\* skipping missing ones; a bad element stops it with Err, the copies made
\* so far kept.
RECURSIVE ShiftLeft(_, _, _, _)
ShiftLeft(st, c, i, n) ==
  IF i >= n THEN [st |-> st, ok |-> TRUE]
  ELSE LET k == Key(c, BE(i)) IN
       IF k \notin DOMAIN st THEN ShiftLeft(st, c, i + 1, n)
       ELSE IF ~Valid(st[k]) THEN [st |-> st, ok |-> FALSE]
       ELSE ShiftLeft((Key(c, BE(i - 1)) :> st[k]) @@ st, c, i + 1, n)

\* Mutation: the shift loop run over 1..len - 1, one element short.
ShiftedShort(c) == ShiftLeft(store, c, 1, len[c] - 1)

\* for i in 1..self.inner.len()
Shifted(c) == ShiftLeft(store, c, 1, len[c])

\* Queue::dequeue: get(0)?.unwrap() (a missing head panics), shift every
\* element left, then decrement and store the length.  The slot of the
\* old last element is left in storage.
QueueDequeue(c) ==
  /\ len[c] /= Closed
  /\ LET head == Lookup("dequeue", Key(c, BE(0)))
         shift == Shifted(c)
     IN
     CASE len[c] = 0 ->
            result' = R("dequeue", TRUE, FALSE, NoItem) /\ UNCHANGED <<store, len>>
       [] ~head.ok \/ ~head.some ->
            result' = R(IF head.ok THEN "panic" ELSE "dequeue", FALSE, FALSE, NoItem)
            /\ UNCHANGED <<store, len>>
       [] ~shift.ok ->
            result' = R("dequeue", FALSE, FALSE, NoItem)
            /\ store' = shift.st /\ UNCHANGED len
       [] OTHER ->
            /\ len' = [len EXCEPT ![c] = len[c] - 1]
            /\ store' = (Key(c, LengthSuffix) :> BE(len[c] - 1)) @@ shift.st
            /\ result' = head

Next ==
  \E c \in Colls :
    \/ Kind[c] = "map" /\ \E k \in Keys :
         \/ MapGet(c, k) \/ MapRemove(c, k) \/ MapContains(c, k)
         \/ \E v \in Items : MapSet(c, k, v)
    \/ Kind[c] = "set" /\ \E v \in Items :
         SetInsert(c, v) \/ SetRemove(c, v) \/ SetContains(c, v)
    \/ Kind[c] \in {"vec", "queue"} /\ (VecNew(c) \/ Drop(c) \/ \E v \in Items : VecPush(c, v))
    \/ Kind[c] = "vec" /\ (VecPop(c) \/ \E i \in 0..MaxLen : VecGet(c, "get", i))
    \/ Kind[c] = "queue" /\ (QueueDequeue(c) \/ VecGet(c, "peek", 0))

Spec == Init /\ [][Next]_vars

-----------------------------------------------------------------------------
TypeOK ==
  /\ \A k \in DOMAIN store : store[k] \in Seq(0..255)
  /\ \A c \in Colls : len[c] \in 0..MaxLen \cup {Closed}
  /\ result.ok \in BOOLEAN /\ result.some \in BOOLEAN

\* What a collection holds, read back from storage the way its own get
\* would read it: the refinement mapping to CollectionViews.
StoredLen(c) ==
  IF Present(Key(c, LengthSuffix)) THEN FromBE(store[Key(c, LengthSuffix)]) ELSE 0
ItemAt(k) == IF Present(k) /\ Valid(store[k]) THEN store[k][1] ELSE NoItem
ViewOf(c) ==
  CASE Kind[c] = "map" -> [k \in Keys |-> ItemAt(Key(c, k))]
    [] Kind[c] = "set" -> {v \in Items : Present(Key(c, <<v>>))}
    [] OTHER -> [i \in 1..StoredLen(c) |-> ItemAt(Key(c, BE(i - 1)))]

Abstract == INSTANCE CollectionViews WITH view <- [c \in Colls |-> ViewOf(c)]

\* Every Map, Set, Vec and Queue behaves as its own map, set, stack or FIFO
\* queue, and every call returns what that abstract collection would, over
\* any interleaving of calls on the collections sharing storage and any
\* dropping and reopening of handles: the namespaced keys never meet, the
\* lengths cached by Vec::new stay in step with storage, and the shift loop
\* of Queue::dequeue keeps the order.
ImplementsCollectionViews == Abstract!Spec
=============================================================================
