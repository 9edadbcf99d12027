CONSTANTS
    More = 4
    WordGroups = 3
    I64Bytes = 2
    I32Bytes = 1
    WireFields <- SomeFields
    MaxFields = 2
    SomeBytes <- ChosenBytes
    MaxBytes = 6
    MaxSteps = 4
    MessageBytes = 3
    StreamLines <- Lines
    CircuitIds = {"uuid-a", "uuid-b"}
    Descriptions <- Docs
    NodeNames = {"Kitchen", "Hall"}
    PanelDocs <- SmallDocs
    Values = {"120", "OPEN"}
    Responses <- Answers200
    Certificates = {"leaf", "ca", "former"}
    N = 23
    G = 5
    Hash <- MixedHash
    Passwords = {1, 2}
    Salts = {5}
    Numbers <- SmallNumbers
SPECIFICATION Spec
INVARIANTS
    BodiesAreFaithful
    FramesAreFaithful
    RegistersWhatItReads
    SnapshotsAreFaithful
    CommandReachesItsBreaker
    EnergyIsMetered
    
    EventsAreBlocks
    
    SchemaIsDescribed
    SessionSpeaksSchema
    CachedIsRegistered
    AnchorSigns
