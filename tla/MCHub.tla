------------------------------- MODULE MCHub -------------------------------
(***************************************************************************)
(* Model-checking instance of Hub: two subscribers, one producer, two     *)
(* events that different entries single out, so that a batch can reach a  *)
(* dispatcher through two different subscriptions.                         *)
(***************************************************************************)
EXTENDS Hub

CONSTANTS d1, d2, p1, r1, f1

MCDispatchers == {d1, d2}
MCProducers == {p1}
MCAddresses == {"erd1x", "erd1y"}
MCIdentifiers == {"transfer"}
MCTopics == {"T1", "T2"}

Ex == [address |-> "erd1x", identifier |-> "transfer", topics |-> {"T1", "T2"}]
Ey == [address |-> "erd1y", identifier |-> "transfer", topics |-> {"T1"}]

MCBatches == {<<Ex, Ey>>, <<Ey>>}

AllEntry == [address |-> "", identifier |-> "", topics |-> {}, eventType |-> "ALL"]
AddrEntry == [address |-> "erd1y", identifier |-> "", topics |-> {}, eventType |-> "BLOCK_EVENTS"]
TopicEntry == [address |-> "", identifier |-> "", topics |-> {"T2"}, eventType |-> "BLOCK_EVENTS"]
RevertEntry == [address |-> "", identifier |-> "", topics |-> {}, eventType |-> "REVERT_EVENTS"]

\* {eventType:"ALL"}, {address:"erd1y"}, {topics:["T2"]}: AddrEntry and
\* TopicEntry single out different events of <<Ex, Ey>>, AllEntry takes both.
MCEntries == {AllEntry, AddrEntry, TopicEntry}

\* A smaller input space for the liveness runs: every subscription takes every
\* event, and one single-event batch is enough to fill a queue of one.
MCLiveEntries == {AllEntry}
MCLiveBatches == {<<Ey>>}

\* Entries for the revert stream: one that asks for reverts, one that does not.
MCRevertEntries == {RevertEntry, AddrEntry}

\* Dispatchers are interchangeable: no constant or entry names one.
DispatcherSymmetry == Permutations(MCDispatchers)
=============================================================================
