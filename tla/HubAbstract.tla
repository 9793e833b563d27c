---------------------------- MODULE HubAbstract ----------------------------
(***************************************************************************)
(* What the hub promises its dispatchers (spec sections 3, 4.4 and 8),     *)
(* with every operation atomic and no channels, goroutines or queues:      *)
(*   - a dispatcher is registered at most once and unregistering it drops  *)
(*     all of its subscriptions;                                           *)
(*   - a block-events broadcast hands every registered dispatcher, in     *)
(*     batch order, each event once per subscription of it that matches;  *)
(*   - nothing is handed to a dispatcher that is not registered, and      *)
(*     nothing at all once the hub has stopped.                            *)
(* inbox[d] is everything ever handed to d.                                *)
(***************************************************************************)
EXTENDS Sequences, SequencesExt, FiniteSets

CONSTANTS Dispatchers, Addresses, Identifiers, Topics, Batches

INSTANCE EventFilter

VARIABLES registered, subs, inbox, stopped
avars == <<registered, subs, inbox, stopped>>

\* The events of batch that d is owed: event i repeated once per matching
\* entry of d.
Owed(batch, entries) ==
    FlattenSeq([i \in 1..Len(batch) |->
        LET n == Cardinality({en \in entries : MatchEvent(en, batch[i])})
        IN  [k \in 1..n |-> batch[i]]])

AInit ==
    /\ registered = {}
    /\ subs = [d \in Dispatchers |-> {}]
    /\ inbox = [d \in Dispatchers |-> <<>>]
    /\ stopped = FALSE

ARegister(d) ==
    /\ ~stopped
    /\ registered' = registered \cup {d}
    /\ UNCHANGED <<subs, inbox, stopped>>

AUnregister(d) ==
    /\ ~stopped
    /\ registered' = registered \ {d}
    /\ subs' = [subs EXCEPT ![d] = {}]
    /\ UNCHANGED <<inbox, stopped>>

\* Subscriptions reach the mapper directly, whether the hub runs or not; one
\* subscribe message adds any number of entries of d at once.
ASubscribe(d) ==
    /\ subs' = [subs EXCEPT ![d] = subs'[d]]
    /\ subs[d] \subseteq subs'[d]
    /\ subs'[d] \subseteq SubscriptionEntry
    /\ UNCHANGED <<registered, inbox, stopped>>

ABroadcast(batch) ==
    /\ ~stopped
    /\ inbox' = [d \in Dispatchers |->
                   IF d \in registered THEN inbox[d] \o Owed(batch, subs[d])
                   ELSE inbox[d]]
    /\ UNCHANGED <<registered, subs, stopped>>

AStop ==
    /\ ~stopped
    /\ stopped' = TRUE
    /\ UNCHANGED <<registered, subs, inbox>>

ANext ==
    \/ \E d \in Dispatchers : ARegister(d) \/ AUnregister(d) \/ ASubscribe(d)
    \/ \E batch \in Batches : ABroadcast(batch)
    \/ AStop

ASpec == AInit /\ [][ANext]_avars
=============================================================================
