CONSTANTS
    Uri = {"mine", "nonsense"}
    Unparsable = {"nonsense"}
    Default = "built-in"
    Unset = Unset
    Null = Null
    Freed = Freed
    Raw = Raw
    Shared = Shared
    Client = {c1, c2, c3}
    NoClient = NoClient
SPECIFICATION Spec
INVARIANTS
    ConnectedMeansClient
