--------------------------- MODULE CollectionViews ---------------------------
(***************************************************************************)
(* What the collections of src/stdlib/collections/mod.rs promise, with no  *)
(* storage underneath: each collection is its own map, set or sequence,    *)
(* a Vec is a stack, a Queue is FIFO, and no operation on one collection   *)
(* changes another.  Collections refines this module.                      *)
(***************************************************************************)
EXTENDS Integers, Sequences, SequencesExt

CONSTANTS
  Colls,    \* the collections a contract opens
  Kind,     \* Kind[c] \in {"map", "set", "vec", "queue"}
  Keys,     \* map keys
  Items,    \* values stored (positive integers)
  NoItem,   \* the item field of a result that carries none
  MaxLen    \* most elements a Vec or Queue is given

VARIABLES
  view,    \* view[c]: a function Keys -> item, a set of items, or a sequence
  result   \* what the last call returned: [op, ok, some, item]

R(op, ok, some, item) == [op |-> op, ok |-> ok, some |-> some, item |-> item]

Init ==
  /\ view = [c \in Colls |->
               CASE Kind[c] = "map" -> [k \in Keys |-> NoItem]
                 [] Kind[c] = "set" -> {}
                 [] OTHER -> <<>>]
  /\ result = R("new", TRUE, FALSE, NoItem)

Upd(c, x) == view' = [view EXCEPT ![c] = x]

Get(c, k) ==
  /\ result' = R("get", TRUE, view[c][k] /= NoItem, view[c][k])
  /\ UNCHANGED view
Put(c, k, v) ==
  /\ result' = R(IF v = NoItem THEN "remove" ELSE "set", TRUE, FALSE, NoItem)
  /\ Upd(c, [view[c] EXCEPT ![k] = v])
Has(c, k) ==
  /\ result' = R("contains", TRUE, view[c][k] /= NoItem, NoItem)
  /\ UNCHANGED view

Insert(c, v) ==
  /\ result' = R("insert", TRUE, v \notin view[c], NoItem)
  /\ Upd(c, view[c] \cup {v})
Discard(c, v) ==
  /\ result' = R("remove", TRUE, v \in view[c], NoItem)
  /\ Upd(c, view[c] \ {v})
Member(c, v) ==
  /\ result' = R("contains", TRUE, v \in view[c], NoItem)
  /\ UNCHANGED view

Push(c, v) ==
  /\ Len(view[c]) < MaxLen
  /\ result' = R(IF Kind[c] = "vec" THEN "push" ELSE "enqueue", TRUE, FALSE, NoItem)
  /\ Upd(c, Append(view[c], v))
Pop(c) ==
  IF view[c] = <<>>
  THEN result' = R("pop", TRUE, FALSE, NoItem) /\ UNCHANGED view
  ELSE /\ result' = R("pop", TRUE, TRUE, Last(view[c]))
       /\ Upd(c, Front(view[c]))
At(c, op, i) ==
  /\ result' = IF i < Len(view[c])
               THEN R(op, TRUE, TRUE, view[c][i + 1])
               ELSE R(op, TRUE, FALSE, NoItem)
  /\ UNCHANGED view
Dequeue(c) ==
  IF view[c] = <<>>
  THEN result' = R("dequeue", TRUE, FALSE, NoItem) /\ UNCHANGED view
  ELSE /\ result' = R("dequeue", TRUE, TRUE, Head(view[c]))
       /\ Upd(c, Tail(view[c]))

Next ==
  \E c \in Colls :
    \/ Kind[c] = "map" /\ \E k \in Keys :
         Get(c, k) \/ Has(c, k) \/ \E v \in Items \cup {NoItem} : Put(c, k, v)
    \/ Kind[c] = "set" /\ \E v \in Items :
         Insert(c, v) \/ Discard(c, v) \/ Member(c, v)
    \/ Kind[c] \in {"vec", "queue"} /\ \E v \in Items : Push(c, v)
    \/ Kind[c] = "vec" /\ (Pop(c) \/ \E i \in 0..MaxLen : At(c, "get", i))
    \/ Kind[c] = "queue" /\ (Dequeue(c) \/ At(c, "peek", 0))

Spec == Init /\ [][Next]_<<view, result>>
=============================================================================
