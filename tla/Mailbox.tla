------------------------------ MODULE Mailbox ------------------------------
(***************************************************************************)
(* The actor mailboxes of the enhanced VM (src/runtime/vm.rs):             *)
(* VM::send_message appends to the receiver's Vec<Message>, and            *)
(* VM::process_messages walks vm.actors (a HashMap, so in an order the     *)
(* code does not fix) and drains each mailbox with Vec::pop (newest first), *)
(* handing every message to handle_message, which is called but not      *)
(* defined in the repository; here it succeeds or fails.  Message ids are *)
(* the order in which the host sent them.                                  *)
(***************************************************************************)
EXTENDS Integers, Sequences, FiniteSets, SequencesExt

CONSTANTS
  Actors,    \* the actors registered in vm.actors
  MaxMsgs,   \* bound on messages the host sends
  None       \* no actor

ASSUME None \notin Actors /\ MaxMsgs \in Nat

VARIABLES
  mailbox,   \* vm.actors[a].mailbox
  sent,      \* number of messages sent so far; their ids are 1..sent
  mode,      \* idle, or processing (inside process_messages)
  result,    \* what the last public method returned
  cur,       \* the actor whose mailbox the while loop drains, or None
  todo,      \* actors the for loop has not reached yet
  handled    \* history: messages handed to handle_message, in order

vars == <<mailbox, sent, mode, result, cur, todo, handled>>

Init ==
  /\ mailbox = [a \in Actors |-> <<>>]
  /\ sent = 0
  /\ mode = "idle"
  /\ result = "Ok"
  /\ cur = None
  /\ todo = {}
  /\ handled = <<>>

\* VM::send_message: push at the tail of the receiver's mailbox.  A receiver
\* missing from vm.actors returns ActorNotFound and changes nothing.
SendMessage(to) ==
  /\ mode = "idle"
  /\ sent < MaxMsgs
  /\ sent' = sent + 1
  /\ mailbox' = [mailbox EXCEPT ![to] = Append(@, sent + 1)]
  /\ result' = "Ok"
  /\ UNCHANGED <<mode, cur, todo, handled>>

\* VM::process_messages: for actor in self.actors.values_mut() { .. }
ProcessMessages ==
  /\ mode = "idle"
  /\ mode' = "processing"
  /\ todo' = Actors
  /\ cur' = None
  /\ UNCHANGED <<mailbox, sent, result, handled>>

\* The while loop over the current actor's mailbox has ended.
CurrentDrained == IF cur = None THEN TRUE ELSE mailbox[cur] = <<>>

\* The for loop moves on to the next actor of the map.
NextActor(a) ==
  /\ mode = "processing"
  /\ CurrentDrained
  /\ a \in todo
  /\ cur' = a
  /\ todo' = todo \ {a}
  /\ UNCHANGED <<mailbox, sent, mode, result, handled>>

\* while let Some(msg) = actor.mailbox.pop() { self.handle_message(..)?; }
\* Vec::pop removes the tail; a failing handler returns from
\* process_messages with the popped message gone.  `ok` records whether
\* handle_message returned Ok.
Handled(ok) == handled' = Append(handled, [id |-> Last(mailbox[cur]), to |-> cur, ok |-> ok])

HandleMessage ==
  /\ mode = "processing"
  /\ ~CurrentDrained
  /\ mailbox' = [mailbox EXCEPT ![cur] = Front(@)]
  /\ \/ Handled(TRUE) /\ UNCHANGED <<mode, result, cur>>
     \/ Handled(FALSE) /\ mode' = "idle" /\ result' = "HandlerError" /\ cur' = None
  /\ UNCHANGED <<sent, todo>>

\* Every actor visited: process_messages returns Ok(()).
ProcessingDone ==
  /\ mode = "processing"
  /\ CurrentDrained
  /\ todo = {}
  /\ mode' = "idle"
  /\ result' = "Ok"
  /\ cur' = None
  /\ UNCHANGED <<mailbox, sent, todo, handled>>

\* The host may stop calling once it has sent all it will send.
Done == mode = "idle" /\ sent = MaxMsgs /\ UNCHANGED vars

Next ==
  \/ \E a \in Actors : SendMessage(a) \/ NextActor(a)
  \/ ProcessMessages
  \/ HandleMessage
  \/ ProcessingDone
  \/ Done

\* process_messages runs on the caller's thread without blocking, so once
\* called its loop keeps taking steps.
Fairness ==
  /\ WF_vars(HandleMessage)
  /\ WF_vars(\E a \in Actors : NextActor(a))
  /\ WF_vars(ProcessingDone)

Spec == Init /\ [][Next]_vars /\ Fairness

-----------------------------------------------------------------------------
TypeOK ==
  /\ mailbox \in [Actors -> Seq(1..MaxMsgs)]
  /\ sent \in 0..MaxMsgs
  /\ mode \in {"idle", "processing"}
  /\ cur \in Actors \cup {None}
  /\ todo \subseteq Actors
  /\ handled \in Seq([id : 1..MaxMsgs, to : Actors, ok : BOOLEAN])

Queued == UNION {ToSet(mailbox[a]) : a \in Actors}

\* Spec 4.6, 2 and 7: a message leaves its mailbox by being dispatched to
\* its handler and run to completion; mailboxes are committed or discarded
\* as a whole, and a failure's partial effects never leak.  So every message send_message accepted is still
\* queued or was handled by a handler that returned Ok.  process_messages
\* pops before it calls handle_message and leaves by `?` on an error.
NoMessageLost ==
  \A m \in 1..sent :
    m \in Queued \/ \E i \in 1..Len(handled) : handled[i].id = m /\ handled[i].ok

\* Spec 4.6: process_messages dequeues each mailbox in FIFO order, so the
\* messages of one actor reach handle_message in the order send_message
\* queued them.  The drain is `while let Some(msg) = actor.mailbox.pop()`.
HandledInSendOrder ==
  \A i, j \in 1..Len(handled) :
    i < j /\ handled[i].to = handled[j].to => handled[i].id < handled[j].id

=============================================================================
