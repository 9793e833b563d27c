SPECIFICATION Spec
CONSTANTS
    APITypes <- MCAPITypes
    Versions = {"v1", "v2"}
    DPVersions = {"v1"}
    UnknownTopics = {}
    MaxFrames = 3
    EventsExchange = "all_events"
    RevertEventsExchange = "revert_events"
    FinalizedEventsExchange = ""
INVARIANT EgressFaithful
