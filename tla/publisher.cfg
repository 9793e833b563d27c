\* The publisher loop with two producers implements PublisherAbstract (per-stream
\* FIFO, at most once, only to the configured exchange); every blocked call returns.
CONSTANTS
    p1 = p1  p2 = p2
    Producers <- MCProducers
    EventsExchange = "all_events"
    RevertEventsExchange = "revert_events"
    FinalizedEventsExchange = ""
    MaxCalls = 3
SPECIFICATION FairSpec
INVARIANT TypeOK
PROPERTY CallsEventuallyReturn PublisherRefinesAbstract
