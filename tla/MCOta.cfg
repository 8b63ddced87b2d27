CONSTANTS
    Url <- MCUrl
    DefaultUrl = "gl-inet"
    NoUrl = NoUrl
    Freed = Freed
    Raw = Raw
    Image <- MCImage
    Valid = {"v1", "v2"}
    Factory = "v1"
    NoImage = NoImage
    ImageAt <- MCImageAt
    Size <- MCSize
    PartSize = 2
SPECIFICATION Spec
INVARIANTS
    TypeOK
    AlwaysBootable
    VerdictIsTrue
PROPERTIES
    RunningNeverWritten
    EveryRunEnds
    InstalledGetsToRun
    ImplementsUpdate
