CONSTANTS
    Config = {"home"}
    Cleared = "0"
    Unset = ""
    MaxEvents = 2
SPECIFICATION Spec
INVARIANT
    SetWifiReplyIsTrue
