CONSTANTS
    NoCmd = NoCmd
    Cmd <- MCCmd
    RestartCmds <- MCRestartCmds
    Declared <- MCDeclared
    Actual <- MCActual
    Mtu = 2
    CMD_QUEUE_LEN = 2
    CMD_MAX_LEN = 3
    Long <- MCLong
    Offset <- MCOffset
    PREPARE_BUF_MAX_SIZE = 3
SPECIFICATION Spec
INVARIANTS
    TypeOK
    OverrunIsDeclared
    ReceiverFollowsClient
    OnlyWholeCommandsQueued
    PreparedFollowsClient
    NoCommandForgotten
    ExecutedInOrder
PROPERTIES
    QueuedIsExecuted
    ImplementsService
