\* Hub liveness without Close: blocked senders return, slow subscribers leave.
\* Deadlock is checked: the only end state allowed is Quiescent.
CONSTANTS
    d1 = d1  d2 = d2  p1 = p1  r1 = r1  f1 = f1
    Dispatchers <- MCDispatchers
    Producers <- MCProducers
    Addresses <- MCAddresses
    Identifiers <- MCIdentifiers
    Topics <- MCTopics
    Batches <- MCLiveBatches
    RevertBlocks = {r1}
    FinalizedBlocks = {f1}
    Entries <- MCLiveEntries
    QueueCap = 1
    MaxBroadcasts = 3
    MaxSubscribes = 1
    WithClose = FALSE
SPECIFICATION FairSpec
PROPERTY SendersEventuallyReturn SlowSubscriberRemoved
