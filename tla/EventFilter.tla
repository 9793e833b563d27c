---------------------------- MODULE EventFilter ----------------------------
(***************************************************************************)
(* The event and subscription shapes of the notifier and the filter that  *)
(* matches one subscription entry against one event.  The filter package  *)
(* (filters.EventFilter) is not part of the sources we have, so MatchEvent *)
(* follows the matching rules of spec section 4.2.                         *)
(*                                                                         *)
(* An absent field of a SubscriptionEntry is the empty string "" (Go's    *)
(* zero value of an omitted JSON field); topics are compared as a set      *)
(* because the rules are order-insensitive.                               *)
(***************************************************************************)
EXTENDS FiniteSets

CONSTANTS Addresses,    \* canonical address strings
          Identifiers,  \* event identifiers
          Topics        \* topic strings

EventTypes == {"ALL", "BLOCK_EVENTS", "REVERT_EVENTS", "FINALIZED_EVENTS"}

\* data.Event: only the attributes the filter looks at.
Event == [address: Addresses, identifier: Identifiers, topics: SUBSET Topics]

\* dispatcher.SubscriptionEntry; "" is the wildcard.
SubscriptionEntry ==
    [address: Addresses \cup {""}, identifier: Identifiers \cup {""},
     topics: SUBSET Topics, eventType: EventTypes]

\* Rules 1-5 of spec 4.2, one conjunct per rule.
MatchEvent(entry, e) ==
    /\ entry.eventType \in {"ALL", "BLOCK_EVENTS"}
    /\ entry.address \in {"", e.address}
    /\ entry.identifier \in {"", e.identifier}
    /\ entry.topics \subseteq e.topics

\* Does an entry ask for the revert (resp. finalized) stream?
WantsStream(entry, type) == entry.eventType \in {"ALL", type}
=============================================================================
