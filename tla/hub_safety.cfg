\* Hub safety with Close: refinement of HubAbstract.  The hub may stop and
\* goroutines then stay blocked for good, so end states are not deadlocks.
CONSTANTS
    d1 = d1  d2 = d2  p1 = p1  r1 = r1  f1 = f1
    Dispatchers <- MCDispatchers
    Producers <- MCProducers
    Addresses <- MCAddresses
    Identifiers <- MCIdentifiers
    Topics <- MCTopics
    Batches <- MCBatches
    RevertBlocks = {r1}
    FinalizedBlocks = {f1}
    Entries <- MCEntries
    QueueCap = 1
    MaxBroadcasts = 2
    MaxSubscribes = 1
    WithClose = TRUE
SPECIFICATION Spec
INVARIANT TypeOK
PROPERTY HubRefinesAbstract
SYMMETRY DispatcherSymmetry
CHECK_DEADLOCK FALSE
