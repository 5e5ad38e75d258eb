-------------------------------- MODULE Events --------------------------------
(***************************************************************************)
(* The EventLog and EventFilter of src/stdlib/core/events.rs.  The host    *)
(* builds an Event (new, add_topic, add_indexed) and adds it to the log,   *)
(* builds an EventFilter (new, name, topic, indexed) and applies it to the *)
(* log's events, asks the log for the events of a name, or clears it.      *)
(*                                                                         *)
(* Names, topics and indexed values are model values; an event's data is  *)
(* read by nothing here and is left out.  An event's indexed fields and a *)
(* filter's are functions from keys (HashMap insert replaces).  A filter  *)
(* topic is a topic or "None", the wildcard.                              *)
(***************************************************************************)
EXTENDS Integers, Sequences, FiniteSets, TLC

CONSTANTS
  EvNames,    \* event names
  Topics,     \* 32-byte topics
  Keys, Vals, \* indexed field names and values
  MaxEvents,  \* the host stops adding events at MaxEvents
  MaxParts    \* ... and topics or indexed fields to one event or filter at MaxParts

VARIABLES
  log,       \* the EventLog's events
  event,     \* the Event being built: [name, topics, indexed]
  filter,    \* the EventFilter being built: [name, topics, indexed]
  selected   \* what the last call returned: the events of filter or
             \* get_events, <<>> for a call that returns nothing

vars == <<log, event, filter, selected>>

NoIndex == [k \in {} |-> "None"]
NewFilter0 == [name |-> "None", topics |-> <<>>, indexed |-> NoIndex]

\* EventLog::new, and an empty filter and event.
Init ==
  /\ log = <<>> /\ selected = <<>>
  /\ event \in [name : EvNames, topics : {<<>>}, indexed : {NoIndex}]
  /\ filter = NewFilter0

Parts(x) == Len(x.topics) + Cardinality(DOMAIN x.indexed)

\* Event::new(name)
NewEvent(n) ==
  /\ event' = [name |-> n, topics |-> <<>>, indexed |-> NoIndex]
  /\ selected' = <<>> /\ UNCHANGED <<log, filter>>

\* Event::add_topic
AddTopic(t) ==
  /\ Parts(event) < MaxParts
  /\ event' = [event EXCEPT !.topics = Append(@, t)]
  /\ selected' = <<>> /\ UNCHANGED <<log, filter>>

\* Event::add_indexed: insert, replacing a field of the same name.
AddIndexed(k, v) ==
  /\ Parts(event) < MaxParts
  /\ event' = [event EXCEPT !.indexed = (k :> v) @@ @]
  /\ selected' = <<>> /\ UNCHANGED <<log, filter>>

\* EventLog::add_event
AddEvent ==
  /\ Len(log) < MaxEvents
  /\ log' = Append(log, event)
  /\ selected' = <<>> /\ UNCHANGED <<event, filter>>

\* EventLog::clear
Clear ==
  /\ log' = <<>>
  /\ selected' = <<>> /\ UNCHANGED <<event, filter>>

\* EventFilter::new, and its builders name, topic and indexed.
NewFilter ==
  /\ filter' = NewFilter0
  /\ selected' = <<>> /\ UNCHANGED <<log, event>>

FilterName(n) ==
  /\ filter' = [filter EXCEPT !.name = n]
  /\ selected' = <<>> /\ UNCHANGED <<log, event>>

FilterTopic(t) ==
  /\ Parts(filter) < MaxParts
  /\ filter' = [filter EXCEPT !.topics = Append(@, t)]
  /\ selected' = <<>> /\ UNCHANGED <<log, event>>

FilterIndexed(k, v) ==
  /\ Parts(filter) < MaxParts
  /\ filter' = [filter EXCEPT !.indexed = (k :> v) @@ @]
  /\ selected' = <<>> /\ UNCHANGED <<log, event>>

\* Mutation: the name check is left out.
MatchesAnyName(f, e) ==
  /\ \A i \in 1..Len(f.topics) :
       f.topics[i] /= "None" => i <= Len(e.topics) /\ e.topics[i] = f.topics[i]
  /\ \A k \in DOMAIN f.indexed : k \in DOMAIN e.indexed /\ e.indexed[k] = f.indexed[k]

\* EventFilter::matches: the name if one is set, every topic that is not
\* None at its position (an event with fewer topics fails), every indexed
\* field.
Matches(f, e) ==
  /\ f.name /= "None" => e.name = f.name
  /\ \A i \in 1..Len(f.topics) :
       f.topics[i] /= "None" => i <= Len(e.topics) /\ e.topics[i] = f.topics[i]
  /\ \A k \in DOMAIN f.indexed : k \in DOMAIN e.indexed /\ e.indexed[k] = f.indexed[k]

\* EventFilter::filter over log.events(): the matching events, in order.
Filter ==
  /\ selected' = SelectSeq(log, LAMBDA e : Matches(filter, e))
  /\ UNCHANGED <<log, event, filter>>

\* EventLog::get_events(name)
GetEventsOf(lg, n) == SelectSeq(lg, LAMBDA e : e.name = n)

GetEvents(n) ==
  /\ selected' = GetEventsOf(log, n)
  /\ UNCHANGED <<log, event, filter>>

Next ==
  \/ \E n \in EvNames : NewEvent(n) \/ FilterName(n) \/ GetEvents(n)
  \/ \E t \in Topics : AddTopic(t)
  \/ \E t \in Topics \cup {"None"} : FilterTopic(t)
  \/ \E k \in Keys, v \in Vals : AddIndexed(k, v) \/ FilterIndexed(k, v)
  \/ AddEvent \/ Clear \/ NewFilter \/ Filter

Spec == Init /\ [][Next]_vars

-----------------------------------------------------------------------------
TypeOK ==
  /\ Len(log) <= MaxEvents /\ event.name \in EvNames
  /\ filter.name \in EvNames \cup {"None"}
  /\ \A i \in 1..Len(filter.topics) : filter.topics[i] \in Topics \cup {"None"}

\* The two ways to ask for the events of a name agree: applying a filter
\* that holds only that name, or that name and nothing but wildcard topics,
\* selects what EventLog::get_events returns for it, in the same order.
NameOnly(f) ==
  f.name /= "None" /\ DOMAIN f.indexed = {} /\ \A i \in 1..Len(f.topics) : f.topics[i] = "None"

NameFilterAgreesWithGetEvents ==
  [][Filter /\ NameOnly(filter) => selected' = GetEventsOf(log, filter.name)]_vars
====
