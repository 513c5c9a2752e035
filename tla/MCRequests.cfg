CONSTANTS
    Calls = {c1, c2}
    Events = {e1}
    HeaderLen = 2
    PayloadLen = 2
    MaxCrashes = 1
    EncodeSliceLength = 2
    Default = Default
    None = None
    Lists <- ShortLists
SPECIFICATION FairSpec
CHECK_DEADLOCK FALSE
INVARIANTS
    StreamInSync
    TornOnlyByOverlap
    LoneCompileHeals
    RunningIsOnFile
    ReplyNamesWholeFile
    RuleSetKeepsMeaning
    ConfigReadsBack
PROPERTY
    SendsEnd
