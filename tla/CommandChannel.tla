-------------------------- MODULE CommandChannel --------------------------
(***************************************************************************)
(* The path of a command from the client's writes to its execution:        *)
(*                                                                         *)
(*   client --fragments--> Bluetooth task --pointer--> executor task       *)
(*                          get_ble_command  ble_cmd_queue                 *)
(*                                                                         *)
(* The Bluetooth task (BTC) runs every GATT callback to its end, so one    *)
(* write event is one action; the executor is a task of its own and        *)
(* shares only ble_cmd_queue with it.  The link may drop between any two   *)
(* fragments and the gateway may restart at any time.                      *)
(*                                                                         *)
(* Data.  A command is a sequence of units: unit 1 is its header (0xFE,    *)
(* the length field, the opcode), every other unit is a byte of its body,  *)
(* which is text and holds no 0xFE.  A heap block is its contents.  The    *)
(* bytes of ble_recv_message behind ble_recv_end are never read, so        *)
(* recvMessage is cut there and Len(recvMessage) is ble_recv_end.          *)
(*                                                                         *)
(* A command that does not fit into a write may come as plain writes or as *)
(* the parts of one long write, which are prepared one after the other and *)
(* then executed or cancelled.  get_ble_command takes a part as it arrives,*)
(* like any other write; a_prepare_write_env collects the parts once more, *)
(* for the log only.                                                       *)
(***************************************************************************)
EXTENDS Integers, Sequences, Functions

CONSTANTS
    Cmd,            \* the commands the client may write, each at most once
    NoCmd,          \* the client is between two commands
    RestartCmds,    \* the commands with opcode RESTART
    Declared,       \* a command's length field
    Actual,         \* the units the client really writes for it
    Long,           \* the commands that are sent as long writes
    Mtu,            \* the longest write, in units
    Offset,         \* the offsets a client gives the parts of a long write
    CMD_QUEUE_LEN,  \* capacity of ble_cmd_queue (app.h)
    CMD_MAX_LEN,    \* size of ble_recv_message (app.h)
    PREPARE_BUF_MAX_SIZE    \* size of prepare_buf (ble.c)

\* One write fits into the buffers (the local MTU is 500, they hold 1024 bytes).
\* A length field need not be right: the client may write fewer units, or more,
\* and it may announce more than ble_recv_message holds.
ASSUME ChannelAssumption ==
    /\ NoCmd \notin Cmd
    /\ RestartCmds \subseteq Cmd
    /\ CMD_QUEUE_LEN \in Nat \ {0}
    /\ CMD_MAX_LEN \in Nat
    /\ Mtu \in 1..CMD_MAX_LEN
    /\ PREPARE_BUF_MAX_SIZE \in Nat /\ Mtu <= PREPARE_BUF_MAX_SIZE
    /\ Long \subseteq Cmd
    /\ Offset \subseteq Nat
    /\ Declared \in [Cmd -> Nat]
    /\ Actual \in [Cmd -> Nat \ {0}]

VARIABLES
    \* the client
    link,         \* is a client connected?
    writing,      \* the command it has begun on this connection, or NoCmd
    sent,         \* the units of each command it has written
    \* the Bluetooth task
    recvMessage,  \* ble_recv_message[0 .. ble_recv_end - 1]
    recvLength,   \* ble_recv_length, the units still to come
    prepareBuf,   \* prepare_buf # NULL
    prepareLen,   \* prepare_len
    \* the queue and the executor
    queueReady,   \* ble_cmd_queue # NULL
    cmdQueue,     \* the blocks in ble_cmd_queue
    bleCmd,       \* the block the executor holds; <<>> for NULL
    \* history
    complete,     \* the commands written completely, in order of completion
    executed,     \* the commands handed to opcode_handle, in order
    lost,         \* the commands dropped at a full queue or by a restart
    lastEnd,      \* where the last part ends in prepare_buf; 0 without a buffer
    consecutive   \* does the first part start at 0, every other where the last ended?

clientVars == <<link, writing, sent>>
recvVars == <<recvMessage, recvLength>>
execVars == <<queueReady, cmdQueue, bleCmd>>
history == <<complete, executed, lost>>
prepareVars == <<prepareBuf, prepareLen, lastEnd, consecutive>>
vars == <<clientVars, recvVars, execVars, history, prepareVars>>

Unit == [cmd : Cmd, at : Nat]

\* Units first .. first + n - 1 of a command.
Units(c, first, n) == [i \in 1..n |-> [cmd |-> c, at |-> first + i - 1]]

\* A command as it has to reach opcode_handle: as long as it declares.
Whole(c) == Units(c, 1, Declared[c])

CmdOf(block) == block[1].cmd

\* The commands in the queue and the one at the executor.
Queued == {CmdOf(cmdQueue[i]) : i \in DOMAIN cmdQueue}
Held == {u.cmd : u \in Range(bleCmd)}

\* A memcpy has written behind ble_recv_message or prepare_buf.  What the program
\* does from here to the next restart is undefined, and nothing is said of it.
OutOfBounds == Len(recvMessage) > CMD_MAX_LEN \/ lastEnd > PREPARE_BUF_MAX_SIZE
-----------------------------------------------------------------------------
Init ==
    /\ link = FALSE /\ writing = NoCmd /\ sent = [c \in Cmd |-> 0]
    /\ recvMessage = <<>> /\ recvLength = 0
    /\ queueReady = FALSE /\ cmdQueue = <<>> /\ bleCmd = <<>>
    /\ complete = <<>> /\ executed = <<>> /\ lost = {}
    /\ prepareBuf = FALSE /\ prepareLen = 0 /\ lastEnd = 0 /\ consecutive = TRUE

\* get_ble_command returns 0 for a whole command, 5 for "more to come", and
\* otherwise an error; its effect is the new contents of the two variables.
Result(ret, message, length) == [ret |-> ret, message |-> message, length |-> length]
Took(message, length) == Result(IF length = 0 THEN 0 ELSE 5, message, length)

\* The header is read and the buffer restarted, whatever it held.  Error 2: the
\* length field is zero.
NewCommand(value) ==
    IF Declared[CmdOf(value)] <= 0
    THEN Result(2, recvMessage, Declared[CmdOf(value)])
    ELSE Took(value, Declared[CmdOf(value)] - Len(value))

\* Mutants: no bound, an off-by-one in it, and a length that is not counted.
ContinuationUnbounded(value) ==
    IF recvMessage = <<>> \/ recvLength <= 0 THEN Result(4, recvMessage, recvLength)
    ELSE Took(recvMessage \o value, recvLength - Len(value))
ContinuationOneShort(value) ==
    IF recvMessage = <<>> \/ recvLength <= 0 THEN Result(4, recvMessage, recvLength)
    ELSE IF recvLength <= Len(value) THEN Result(3, <<>>, recvLength)
    ELSE Took(recvMessage \o value, recvLength - Len(value))
ContinuationUncounted(value) ==
    IF recvMessage = <<>> \/ recvLength <= 0 THEN Result(4, recvMessage, recvLength)
    ELSE IF recvLength < Len(value) THEN Result(3, <<>>, recvLength)
    ELSE Result(IF recvLength = Len(value) THEN 0 ELSE 5, recvMessage \o value, recvLength)

\* Error 4: nothing to continue; 3: more units than the header announced.
Continuation(value) ==
    IF recvMessage = <<>> \/ recvLength <= 0 THEN Result(4, recvMessage, recvLength)
    ELSE IF recvLength < Len(value) THEN Result(3, <<>>, recvLength)
    ELSE Took(recvMessage \o value, recvLength - Len(value))

\* Mutant: a header is not recognised while an older command is incomplete.
GetBleCommandHeaderMissed(value) ==
    IF Len(value) = 0 THEN Result(1, recvMessage, recvLength)
    ELSE IF value[1].at = 1 /\ recvLength <= 0 THEN NewCommand(value)
    ELSE Continuation(value)

GetBleCommand(value) ==
    IF Len(value) = 0 THEN Result(1, recvMessage, recvLength)
    ELSE IF value[1].at = 1 THEN NewCommand(value)
    ELSE Continuation(value)

\* The client writes the next n units of c: of the command it is writing, or
\* of a new one.
ClientWrites(c, n) ==
    /\ link
    /\ writing \in {c, NoCmd}
    /\ writing = NoCmd => sent[c] = 0 /\ n > 0
    /\ sent[c] + n <= Actual[c]
    /\ sent' = [sent EXCEPT ![c] = @ + n]
    /\ writing' = IF sent[c] + n = Actual[c] THEN NoCmd ELSE c
    /\ link' = link

\* What the client and the length field agree on: with these n units the
\* declared length has been written, not one unit less and not one more, and the
\* buffer holds it.
Completes(c, n) == n > 0 /\ sent[c] + n = Declared[c] /\ Declared[c] <= CMD_MAX_LEN

\* Mutants: an off-by-one at the capacity, xQueueSendToFront.
EnqueueBeyond(block) ==
    \/ /\ Len(cmdQueue) <= CMD_QUEUE_LEN
       /\ cmdQueue' = Append(cmdQueue, block)
       /\ UNCHANGED lost
    \/ /\ Len(cmdQueue) > CMD_QUEUE_LEN
       /\ lost' = lost \cup {CmdOf(block)}
       /\ UNCHANGED cmdQueue
EnqueueInFront(block) ==
    \/ /\ Len(cmdQueue) < CMD_QUEUE_LEN
       /\ cmdQueue' = <<block>> \o cmdQueue
       /\ UNCHANGED lost
    \/ /\ Len(cmdQueue) = CMD_QUEUE_LEN
       /\ lost' = lost \cup {CmdOf(block)}
       /\ UNCHANGED cmdQueue

\* xQueueSend without a wait: at a full queue the block is dropped.
Enqueue(block) ==
    \/ /\ Len(cmdQueue) < CMD_QUEUE_LEN
       /\ cmdQueue' = Append(cmdQueue, block)
       /\ UNCHANGED lost
    \/ /\ Len(cmdQueue) = CMD_QUEUE_LEN
       /\ lost' = lost \cup {CmdOf(block)}
       /\ UNCHANGED cmdQueue

\* ESP_GATTS_WRITE_EVT on the command characteristic, the queue existing.
\* A command that is whole is copied, its pointer sent and the buffer cleared;
\* one that has run past the buffer, whole or not, is left there (OutOfBounds).
WriteFragment(c, n) ==
    LET r == GetBleCommand(Units(c, sent[c] + 1, n)) IN
    /\ ClientWrites(c, n)
    /\ complete' = IF Completes(c, n) THEN Append(complete, c) ELSE complete
    /\ recvLength' = r.length
    /\ \/ /\ r.ret # 0 \/ Len(r.message) > CMD_MAX_LEN
          /\ recvMessage' = r.message
          /\ UNCHANGED <<cmdQueue, lost>>
       \/ /\ r.ret = 0 /\ Len(r.message) <= CMD_MAX_LEN
          /\ queueReady
          /\ recvMessage' = <<>>
          /\ Enqueue(r.message)
    /\ UNCHANGED <<queueReady, bleCmd, executed>>

\* The same write as a part of a long write, for the log: it is copied to the offset
\* o the client gives.  For the first one a buffer is allocated (which may fail) and
\* nothing is compared with its size.  A later one that does not fit is refused, but
\* get_ble_command has taken it all the same.
Put(len, n, o) == /\ prepareBuf' = TRUE
                  /\ prepareLen' = len + n
                  /\ lastEnd' = o + n
                  /\ consecutive' = (consecutive /\ o = lastEnd)
NoMem == prepareLen' = 0 /\ UNCHANGED <<prepareBuf, lastEnd, consecutive>>

\* Mutant: only the offset is compared.
CollectByOffset(n, o) ==
    \/ ~prepareBuf /\ Put(0, n, o)
    \/ ~prepareBuf /\ NoMem
    \/ prepareBuf /\ o <= PREPARE_BUF_MAX_SIZE /\ Put(prepareLen, n, o)
    \/ prepareBuf /\ o > PREPARE_BUF_MAX_SIZE /\ UNCHANGED prepareVars
Collect(n, o) ==
    \/ ~prepareBuf /\ Put(0, n, o)
    \/ ~prepareBuf /\ NoMem
    \/ prepareBuf /\ o + n <= PREPARE_BUF_MAX_SIZE /\ Put(prepareLen, n, o)
    \/ prepareBuf /\ o + n > PREPARE_BUF_MAX_SIZE /\ UNCHANGED prepareVars

PlainWrite(c, n) == WriteFragment(c, n) /\ c \notin Long /\ UNCHANGED prepareVars
PreparePart(c, n) == /\ WriteFragment(c, n)
                     /\ c \in Long
                     /\ \E o \in Offset : Collect(n, o)

\* ESP_GATTS_EXEC_WRITE_EVT: whether the client executes its long write or cancels
\* it, the buffer is freed, and nothing is executed or undone.
ExecuteWrite == /\ link
                /\ prepareBuf' = FALSE /\ prepareLen' = 0
                /\ lastEnd' = 0 /\ consecutive' = TRUE
                /\ UNCHANGED <<clientVars, recvVars, execVars, history>>

\* The link is gone and everything in RAM is as after power-on.
ResetRam ==
    /\ link' = FALSE /\ writing' = NoCmd
    /\ recvMessage' = <<>> /\ recvLength' = 0
    /\ queueReady' = FALSE /\ cmdQueue' = <<>> /\ bleCmd' = <<>>
    /\ prepareBuf' = FALSE /\ prepareLen' = 0 /\ lastEnd' = 0 /\ consecutive' = TRUE

\* init_ble() accepts writes long before the executor task has created the
\* queue: xQueueSend on a NULL queue fails its assertion and the gateway
\* restarts.
EarlyCommand(c, n) ==
    LET r == GetBleCommand(Units(c, sent[c] + 1, n)) IN
    /\ r.ret = 0 /\ Len(r.message) <= CMD_MAX_LEN
    /\ ~queueReady
    /\ link /\ writing \in {c, NoCmd}
    /\ writing = NoCmd => sent[c] = 0 /\ n > 0
    /\ sent[c] + n <= Actual[c]
    /\ sent' = [sent EXCEPT ![c] = @ + n]
    /\ ResetRam
    /\ complete' = IF Completes(c, n) THEN Append(complete, c) ELSE complete
    /\ lost' = lost \cup Queued \cup Held \cup {c}
    /\ UNCHANGED executed

Connect == /\ ~link
           /\ link' = TRUE
           /\ UNCHANGED <<writing, sent, recvVars, execVars, history, prepareVars>>

\* No handler of the disconnect event touches the half-received command or the
\* half-prepared write.
Disconnect == /\ link
              /\ link' = FALSE
              /\ writing' = NoCmd
              /\ UNCHANGED <<sent, recvVars, execVars, history, prepareVars>>

\* execute_ble_task begins by creating the queue.
CreateQueue == /\ ~queueReady
               /\ queueReady' = TRUE
               /\ UNCHANGED <<clientVars, recvVars, cmdQueue, bleCmd, history, prepareVars>>

\* Mutant: the executor leaves the last command in the queue.
ReceiveAllButOne == /\ queueReady
                    /\ bleCmd = <<>>
                    /\ Len(cmdQueue) > 1
                    /\ bleCmd' = Head(cmdQueue)
                    /\ cmdQueue' = Tail(cmdQueue)
                    /\ UNCHANGED <<clientVars, recvVars, queueReady, history, prepareVars>>

ReceiveCommand == /\ queueReady
                  /\ bleCmd = <<>>
                  /\ cmdQueue # <<>>
                  /\ bleCmd' = Head(cmdQueue)
                  /\ cmdQueue' = Tail(cmdQueue)
                  /\ UNCHANGED <<clientVars, recvVars, queueReady, history, prepareVars>>

\* Mutant: ble_cmd is not reset and the freed block is handled again.
ExecuteTwice == /\ bleCmd # <<>>
                /\ CmdOf(bleCmd) \notin RestartCmds
                /\ executed' = Append(executed, CmdOf(bleCmd))
                /\ UNCHANGED <<clientVars, recvVars, execVars, complete, lost, prepareVars>>

\* opcode_handle returns, the block is freed.
ExecuteCommand == /\ bleCmd # <<>>
                  /\ CmdOf(bleCmd) \notin RestartCmds
                  /\ executed' = Append(executed, CmdOf(bleCmd))
                  /\ bleCmd' = <<>>
                  /\ UNCHANGED <<clientVars, recvVars, queueReady, cmdQueue,
                                 complete, lost, prepareVars>>

\* opcode_handle of RESTART calls esp_restart and does not return.
ExecuteRestart == /\ bleCmd # <<>>
                  /\ CmdOf(bleCmd) \in RestartCmds
                  /\ executed' = Append(executed, CmdOf(bleCmd))
                  /\ lost' = lost \cup Queued
                  /\ ResetRam
                  /\ UNCHANGED <<sent, complete>>

\* Loss of power, a panic of another task, the end of an update.
Restart == /\ lost' = lost \cup Queued \cup Held
           /\ ResetRam
           /\ UNCHANGED <<sent, complete, executed>>

Client == /\ ~OutOfBounds
          /\ \/ Connect
             \/ Disconnect
             \/ ExecuteWrite
             \/ \E c \in Cmd, n \in 0..Mtu :
                    PlainWrite(c, n) \/ PreparePart(c, n) \/ EarlyCommand(c, n)

Executor == /\ ~OutOfBounds
            /\ CreateQueue \/ ReceiveCommand \/ ExecuteCommand \/ ExecuteRestart

Next == Client \/ Executor \/ Restart

\* The executor is the only task of its kind, blocks only on its queue and is
\* scheduled whenever it is ready; nothing is assumed of the client.
Spec == Init /\ [][Next]_vars /\ WF_vars(Executor)
-----------------------------------------------------------------------------
PrepareTypeOK == /\ prepareBuf \in BOOLEAN /\ prepareLen \in Nat
                 /\ lastEnd \in Nat /\ consecutive \in BOOLEAN

\* Every block is a sequence of units, every counter is in its range.
TypeOK ==
    /\ link \in BOOLEAN /\ queueReady \in BOOLEAN
    /\ writing \in Cmd \cup {NoCmd}
    /\ sent \in [Cmd -> Nat]
    /\ recvMessage \in Seq(Unit) /\ recvLength \in Int
    /\ cmdQueue \in Seq(Seq(Unit)) /\ Len(cmdQueue) <= CMD_QUEUE_LEN
    /\ bleCmd \in Seq(Unit)
    /\ complete \in Seq(Cmd) /\ executed \in Seq(Cmd) /\ lost \subseteq Cmd
    /\ PrepareTypeOK

\* The memcpy's of get_ble_command compare nothing with the size of
\* ble_recv_message.  They run past its end for one reason only: one command that
\* itself announces more than the buffer holds.  No stale length of an earlier
\* command or an earlier connection and no mixture of two commands does it.
OverrunIsDeclared ==
    Len(recvMessage) > CMD_MAX_LEN =>
        \E c \in Cmd : /\ Declared[c] >= Len(recvMessage)
                       /\ recvMessage = Units(c, 1, Len(recvMessage))

\* While the client is inside a command the two receive variables say exactly
\* how far it is, or, once it has written more than it declared, that nothing
\* more can be accepted: no leftover of an abandoned command leaks in.
ReceiverFollowsClient ==
    writing # NoCmd =>
        /\ sent[writing] > 0
        /\ IF sent[writing] < Declared[writing]
           THEN /\ recvMessage = Units(writing, 1, sent[writing])
                /\ recvLength = Declared[writing] - sent[writing]
           ELSE recvMessage = <<>> \/ recvLength <= 0

\* The copies into prepare_buf stay inside it, and prepare_len, which the log trusts,
\* is what they have filled, as long as the parts start at 0 and follow each other;
\* also across refused parts, failed allocations and clients that leave in between.
\* It takes a first part at an offset of its own, or overlapping ones, to leave it.
PreparedFollowsClient ==
    /\ consecutive => prepareLen = lastEnd /\ lastEnd <= PREPARE_BUF_MAX_SIZE
    /\ ~prepareBuf => prepareLen = 0 /\ consecutive

\* What waits in the queue or is being executed is one whole command: never a
\* prefix, never the units of two commands or of two connections.
OnlyWholeCommandsQueued ==
    LET IsWhole(block) == block # <<>> /\ block = Whole(CmdOf(block))
    IN  /\ \A i \in DOMAIN cmdQueue : IsWhole(cmdQueue[i])
        /\ bleCmd # <<>> => IsWhole(bleCmd)

\* Every command that was written completely has been executed, is still
\* pending or is accounted for as lost, and only one of these: the receiver
\* misses no completion, and no path executes a command twice.
NoCommandForgotten ==
    /\ Range(complete) = Range(executed) \cup Queued \cup Held \cup lost
    /\ Range(executed) \cap (Queued \cup Held \cup lost) = {}
    /\ Queued \cap (Held \cup lost) = {}
    /\ Held \cap lost = {}

\* Commands reach opcode_handle in the order in which the client completed
\* them, across queue, drops and restarts.
ExecutedInOrder ==
    LET log == executed \o (IF bleCmd = <<>> THEN <<>> ELSE <<CmdOf(bleCmd)>>)
                        \o [i \in DOMAIN cmdQueue |-> CmdOf(cmdQueue[i])]
    IN  \A i, j \in DOMAIN log : i < j =>
            \E p, q \in DOMAIN complete :
                p < q /\ complete[p] = log[i] /\ complete[q] = log[j]

\* A command that got into the queue is executed, unless a restart takes it
\* away first or the program has written beyond a buffer.
QueuedIsExecuted ==
    \A c \in Cmd : c \in Queued ~> (c \in Range(executed) \cup lost \/ OutOfBounds)

\* The channel keeps the promise of CommandService.
Service == INSTANCE CommandService WITH
               waiting <- [i \in DOMAIN cmdQueue |-> CmdOf(cmdQueue[i])],
               running <- Held
ImplementsService == Service!Spec
=============================================================================
