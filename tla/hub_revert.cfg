\* Spec 4.4 / S5: a revert reaches the dispatchers subscribed to reverts.
CONSTANTS
    d1 = d1  d2 = d2  p1 = p1  r1 = r1  f1 = f1
    Dispatchers <- MCDispatchers
    Producers <- MCProducers
    Addresses <- MCAddresses
    Identifiers <- MCIdentifiers
    Topics <- MCTopics
    Batches <- MCLiveBatches
    RevertBlocks = {r1}
    FinalizedBlocks = {f1}
    Entries <- MCRevertEntries
    QueueCap = 1
    MaxBroadcasts = 2
    MaxSubscribes = 1
    WithClose = FALSE
SPECIFICATION Spec
PROPERTY RevertRouted
