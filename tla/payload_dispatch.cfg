SPECIFICATION Spec
CONSTANTS
    Versions = {"v1", "v2"}
    DPVersions = {"v1"}
    UnknownTopics = {"SaveMiniblocks"}
    MaxFrames = 2
INVARIANT TypeOK DispatchMatchesSpec
