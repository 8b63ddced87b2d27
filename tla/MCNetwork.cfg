CONSTANTS
    Config = {"home"}
    Cleared = "0"
    Unset = ""
    MaxEvents = 2
SPECIFICATION Spec
INVARIANTS
    TypeOK
    TruthAtRest
    EthernetExcludesWifi
    ClearedStaysCleared
PROPERTIES
    WifiTakesOver
    RetryGoesOn
