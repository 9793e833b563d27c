\* Spec 4.4: Close stops the hub.  Close may come before Run.
CONSTANTS
    d1 = d1  d2 = d2  p1 = p1  r1 = r1  f1 = f1
    Dispatchers <- MCDispatchers
    Producers <- MCProducers
    Addresses <- MCAddresses
    Identifiers <- MCIdentifiers
    Topics <- MCTopics
    Batches <- MCLiveBatches
    RevertBlocks = {r1}
    FinalizedBlocks = {f1}
    Entries <- MCLiveEntries
    QueueCap = 1
    MaxBroadcasts = 2
    MaxSubscribes = 1
    WithClose = TRUE
SPECIFICATION FairSpec
PROPERTY CloseEventuallyStops
CHECK_DEADLOCK FALSE
