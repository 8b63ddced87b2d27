CONSTANTS
    LinkApps = {"A", "B", "cB"}
    Results = 4
    WithData = {1, 3, 4}
    SCAN_RESULT_MAX = 2
    Chars = {"0", "1", "2", "a", "b", "c", "d", "h", "m", "q", "r", "t", "/", ":", "@"}
    Requests <- MCRequests
    Residues <- MCResidues
    TOPIC_SIZE = 3
    URI_SIZE = 17
    SSID_SIZE = 4
    PASSWORD_SIZE = 4
    NOTIFY_SIZE = 8
SPECIFICATION MCSpec
INVARIANTS
    ConnectionTruth
    NoResultForgotten
    ParsedAsMeant
PROPERTIES
    FoundAgain
CHECK_DEADLOCK FALSE
