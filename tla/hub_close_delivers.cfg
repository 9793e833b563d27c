\* Spec 8.5: after Close no broadcast reaches a dispatcher.
CONSTANTS
    d1 = d1  d2 = d2  p1 = p1  r1 = r1  f1 = f1
    Dispatchers <- MCDispatchers
    Producers <- MCProducers
    Addresses <- MCAddresses
    Identifiers <- MCIdentifiers
    Topics <- MCTopics
    Batches <- MCLiveBatches
    RevertBlocks = {r1}
    FinalizedBlocks = {f1}
    Entries <- MCLiveEntries
    QueueCap = 1
    MaxBroadcasts = 2
    MaxSubscribes = 1
    WithClose = TRUE
SPECIFICATION Spec
PROPERTY NoDeliveryAfterClose
CHECK_DEADLOCK FALSE
