--------------------------- MODULE NotifyChannel ---------------------------
(***************************************************************************)
(* The way back to the client: four tasks build notifications in the one   *)
(* buffer ble_send_message, without a lock, and three of them send what    *)
(* they find there, in pieces, to whoever has enabled notifications.  The  *)
(* Bluetooth task (BTC) learns of connections and descriptor writes from a *)
(* queue of events; link and advertising are the controller's.             *)
(*                                                                         *)
(* Data.  A cell of the buffer stands for some bytes and knows the message *)
(* they belong to; the first cell is the header.  The length field is kept *)
(* apart; like in the code it is written as two digits to the base Radix   *)
(* (256).  memset, memcpy and the reading of the field are one step each.  *)
(***************************************************************************)
EXTENDS Integers, Sequences, FiniteSets

CONSTANTS
    Msg,            \* the notifications
    NoMsg,          \* none of them: a cell holds zeros, an opcode has no reply
    From,           \* the task that builds a notification
    Size,           \* its length in cells
    Chunk,          \* the cells one indication carries (20 bytes)
    Radix,
    CMD_MAX_LEN,    \* the cells of ble_send_message (app.h)
    MaxEvents,      \* bound: events waiting for the Bluetooth task
    MaxBusy         \* bound: tasks in the two functions at a time

Task == {"executor", "mqtt", "ota", "gpio"}

\* A message of any length: mqtt_notify_pack lets through more than fits.
ASSUME NotifyAssumption ==
    /\ NoMsg \notin Msg
    /\ From \in [Msg -> Task]
    /\ Chunk \in Nat \ {0} /\ Radix \in Nat \ {0, 1} /\ MaxEvents \in Nat /\ MaxBusy \in Nat
    /\ CMD_MAX_LEN \in Nat /\ CMD_MAX_LEN % Radix = 0 /\ Radix + 1 < CMD_MAX_LEN
    /\ Size \in [Msg -> Nat \ {0}]

VARIABLES
    \* the connection, as the controller and as the program sees it
    link,           \* is a client connected?
    advertising,    \* does the controller advertise?
    events,         \* events the Bluetooth task has yet to handle
    enable,         \* gatts_indicate_if.enable
    serverConnect,  \* ble_server_connect
    \* the notification
    cells, length,  \* ble_send_message: its cells and its length field
    pc,             \* the next statement of each task in the two functions
    msg,            \* the message it has built, or NoMsg
    total,          \* len in send_ble_notify
    out,            \* the cells its call of send_ble_notify has handed over
    \* history
    descr,          \* has this connection's client ever enabled notifications,
                    \* and has it disabled them since: "never", "on", "off"
    alone,          \* has no other task used the buffer meanwhile?
    orphan          \* has the client left for which the task's call sends?

connection == <<link, advertising, events>>
known == <<enable, serverConnect, descr>>
buffer == <<cells, length>>
tasks == <<pc, msg, total, out, alone, orphan>>
vars == <<connection, known, buffer, tasks>>

Blank == [i \in 1..CMD_MAX_LEN |-> NoMsg]

Init == /\ link = FALSE /\ advertising = TRUE /\ events = <<>>
        /\ enable = FALSE /\ serverConnect = FALSE
        /\ cells = Blank /\ length = 0
        /\ pc = [t \in Task |-> "idle"] /\ msg = [t \in Task |-> NoMsg]
        /\ total = [t \in Task |-> 0] /\ out = [t \in Task |-> <<>>]
        /\ descr = "never"
        /\ alone = [t \in Task |-> TRUE] /\ orphan = [t \in Task |-> FALSE]
-----------------------------------------------------------------------------
\* The client and the controller.  The controller stops advertising when a client
\* connects, and posts the events of the two server profiles.
Connect == /\ ~link /\ advertising /\ Len(events) < MaxEvents
           /\ link' = TRUE /\ advertising' = FALSE
           /\ events' = Append(events, "up")
           /\ UNCHANGED <<known, buffer, tasks>>
Disconnect == /\ link /\ Len(events) < MaxEvents
              /\ link' = FALSE
              /\ events' = Append(events, "down")
              /\ orphan' = [t \in Task |-> orphan[t] \/ pc[t] = "piece"]
              /\ UNCHANGED <<advertising, known, buffer, pc, msg, total, out, alone>>
WriteDescr(value) == /\ link /\ Len(events) < MaxEvents
                     /\ events' = Append(events, value)
                     /\ UNCHANGED <<link, advertising, known, buffer, tasks>>

\* The Bluetooth task.  Every callback runs to its end.
Handle(event) == /\ events # <<>> /\ Head(events) = event
                 /\ events' = Tail(events)
                 /\ UNCHANGED <<link, buffer, tasks>>

Up == /\ Handle("up")
      /\ serverConnect' = TRUE
      /\ UNCHANGED <<advertising, enable, descr>>

\* Mutants: notifications stay enabled; advertising is not started again.
ProfileADownEnabled == UNCHANGED enable /\ advertising' = TRUE
ProfileADownSilent == enable' = FALSE /\ UNCHANGED advertising

\* The handlers of both server profiles, one after the other.
ProfileADown == enable' = FALSE /\ advertising' = TRUE
ProfileBDown == serverConnect' = FALSE
Down == /\ Handle("down")
        /\ ProfileADown
        /\ ProfileBDown
        /\ descr' = "never"

\* 0x0001 and 0x0002 enable, 0x0000 and any other value change nothing.
DescrWritten ==
    \E value \in {"on", "off", "other"} :
        /\ Handle(value)
        /\ enable' = (enable \/ value = "on")
        /\ descr' = IF value = "other" \/ (value = "off" /\ descr = "never")
                    THEN descr ELSE value
        /\ UNCHANGED <<advertising, serverConnect>>
-----------------------------------------------------------------------------
\* A task enters the two functions; whoever is inside is no longer alone.
Enter(t, m, first) ==
    /\ pc[t] = "idle" /\ pc' = [pc EXCEPT ![t] = first]
    /\ msg' = [msg EXCEPT ![t] = m]
    /\ LET busy == {u \in Task : pc[u] # "idle"}
       IN  /\ Cardinality(busy) < MaxBusy
           /\ alone' = [u \in Task |-> u \notin busy /\ (u = t => busy = {})]
    /\ UNCHANGED <<connection, known, buffer, total, out, orphan>>

At(t, here, next) == /\ pc[t] = here /\ pc' = [pc EXCEPT ![t] = next]
                     /\ UNCHANGED <<connection, known, alone>>

Build(t, m) == From[m] = t /\ Enter(t, m, "clear")
SendOnly(t) == Enter(t, NoMsg, "enabled")

\* An opcode creates its reply, or none, and always sends; so does an MQTT message,
\* of which one that is too long is not built; a status is for a connected client.
Opcode == (\E m \in Msg : Build("executor", m)) \/ SendOnly("executor")
MqttData == (\E m \in Msg : Build("mqtt", m)) \/ SendOnly("mqtt")
OtaStatus == serverConnect /\ \E m \in Msg : Build("ota", m)

\* clean_wifi_config and clean_mqtt_config, called for the button.
ButtonReply == \E m \in Msg : Build("gpio", m)

\* create_return_notify.
Clear(t) == /\ At(t, "clear", "header")
            /\ cells' = Blank /\ length' = 0
            /\ UNCHANGED <<msg, total, out, orphan>>
Header(t) == /\ At(t, "header", "body")
             /\ cells' = [cells EXCEPT ![1] = msg[t]] /\ length' = Radix + 1
             /\ UNCHANGED <<msg, total, out, orphan>>

\* Mutant: the body is copied to where the header begins.
BodyMisplaced(t) ==
    /\ At(t, "body", "high")
    /\ Size[msg[t]] <= CMD_MAX_LEN
    /\ cells' = [i \in 1..CMD_MAX_LEN |-> IF i \in 1..(Size[msg[t]] - 1) THEN msg[t]
                                          ELSE cells[i]]
    /\ UNCHANGED <<length, msg, total, out, orphan>>
Body(t) == /\ At(t, "body", "high")
           /\ Size[msg[t]] <= CMD_MAX_LEN
           /\ cells' = [i \in 1..CMD_MAX_LEN |-> IF i \in 2..Size[msg[t]] THEN msg[t]
                                                 ELSE cells[i]]
           /\ UNCHANGED <<length, msg, total, out, orphan>>

\* The body of a message that is too long is copied beyond ble_send_message: what the
\* program does from here to the next restart is undefined, and nothing is said of it.
BodyBeyond(t) == /\ At(t, "body", "overrun")
                 /\ Size[msg[t]] > CMD_MAX_LEN
                 /\ UNCHANGED <<buffer, msg, total, out, orphan>>

High(t) == /\ At(t, "high", "low")
           /\ length' = (Size[msg[t]] \div Radix) * Radix + (length % Radix)
           /\ UNCHANGED <<cells, msg, total, out, orphan>>

\* The button's task does not send: it leaves the message where it is.
\* Mutant: the low digit is added to the provisional one.
LowAdded(t) ==
    /\ At(t, "low", IF t = "gpio" THEN "idle" ELSE "enabled")
    /\ length' = length + (Size[msg[t]] % Radix)
    /\ msg' = IF t = "gpio" THEN [msg EXCEPT ![t] = NoMsg] ELSE msg
    /\ UNCHANGED <<cells, total, out, orphan>>
Low(t) == /\ At(t, "low", IF t = "gpio" THEN "idle" ELSE "enabled")
          /\ length' = (length \div Radix) * Radix + (Size[msg[t]] % Radix)
          /\ msg' = IF t = "gpio" THEN [msg EXCEPT ![t] = NoMsg] ELSE msg
          /\ UNCHANGED <<cells, total, out, orphan>>

\* send_ble_notify.  Without a subscriber the buffer keeps what it holds.
NotEnabled(t) == /\ ~enable
                 /\ At(t, "enabled", "idle")
                 /\ msg' = [msg EXCEPT ![t] = NoMsg]
                 /\ UNCHANGED <<buffer, total, out, orphan>>
ReadLength(t) == /\ enable
                 /\ At(t, "enabled", "piece")
                 /\ total' = [total EXCEPT ![t] = length]
                 /\ orphan' = [orphan EXCEPT ![t] = ~link]
                 /\ UNCHANGED <<buffer, msg, out>>

\* One indication: everything if it fits, else a full piece and on with the loop.
\* A client that has gone gets nothing, and the call does not notice.  A length made
\* of the digits of two messages may reach beyond the buffer; what is read there is
\* of no message.
Piece(t, all) ==
    LET left == all - Len(out[t])
    IN  [i \in 1..(IF left > Chunk THEN Chunk ELSE left) |->
            IF Len(out[t]) + i <= CMD_MAX_LEN THEN cells[Len(out[t]) + i] ELSE NoMsg]

\* Mutant: the length is read again for every piece.
SendPieceReread(t) ==
    /\ At(t, "piece", IF length - Len(out[t]) > Chunk THEN "piece" ELSE "wipe")
    /\ out' = [out EXCEPT ![t] = @ \o Piece(t, length)]
    /\ UNCHANGED <<buffer, msg, total, orphan>>
SendPiece(t) ==
    /\ At(t, "piece", IF total[t] - Len(out[t]) > Chunk THEN "piece" ELSE "wipe")
    /\ out' = [out EXCEPT ![t] = @ \o Piece(t, total[t])]
    /\ UNCHANGED <<buffer, msg, total, orphan>>
Wipe(t) == /\ At(t, "wipe", "idle")
           /\ cells' = Blank /\ length' = 0
           /\ msg' = [msg EXCEPT ![t] = NoMsg]
           /\ total' = [total EXCEPT ![t] = 0] /\ out' = [out EXCEPT ![t] = <<>>]
           /\ orphan' = [orphan EXCEPT ![t] = FALSE]

\* Loss of power, a panic, the end of an update: nothing of this is kept.
Restart == /\ link' = FALSE /\ advertising' = TRUE /\ events' = <<>>
           /\ enable' = FALSE /\ serverConnect' = FALSE /\ descr' = "never"
           /\ cells' = Blank /\ length' = 0
           /\ pc' = [t \in Task |-> "idle"] /\ msg' = [t \in Task |-> NoMsg]
           /\ total' = [t \in Task |-> 0] /\ out' = [t \in Task |-> <<>>]
           /\ alone' = [t \in Task |-> TRUE] /\ orphan' = [t \in Task |-> FALSE]

CreateReturnNotify(t) ==
    Clear(t) \/ Header(t) \/ Body(t) \/ BodyBeyond(t) \/ High(t) \/ Low(t)
SendBleNotify(t) == NotEnabled(t) \/ ReadLength(t) \/ SendPiece(t) \/ Wipe(t)

World == \/ Connect \/ Disconnect
         \/ \E value \in {"on", "off", "other"} : WriteDescr(value)
BluetoothTask == Up \/ Down \/ DescrWritten

Defined == \A t \in Task : pc[t] # "overrun"

Step == \/ World \/ BluetoothTask
        \/ Opcode \/ MqttData \/ OtaStatus \/ ButtonReply
        \/ \E t \in Task : CreateReturnNotify(t) \/ SendBleNotify(t)

Next == (Defined /\ Step) \/ Restart

Spec == Init /\ [][Next]_vars
-----------------------------------------------------------------------------
Event == {"up", "down", "on", "off", "other"}
Inside == {"clear", "header", "body", "high", "low"}
Sending == {"enabled", "piece", "wipe"}

\* What the length field can hold: the high digit of one message, the low of another.
Lengths == 0..(CMD_MAX_LEN + Radix - 1)

\* Every variable has its type.  In particular the length field exceeds the buffer by
\* less than one high digit at every moment, whosever digits it is made of.
TypeOK ==
    /\ link \in BOOLEAN /\ advertising \in BOOLEAN
    /\ events \in Seq(Event)
    /\ enable \in BOOLEAN /\ serverConnect \in BOOLEAN /\ descr \in {"never", "on", "off"}
    /\ cells \in [1..CMD_MAX_LEN -> Msg \cup {NoMsg}] /\ length \in Lengths
    /\ pc \in [Task -> {"idle", "overrun"} \cup Inside \cup Sending]
    /\ msg \in [Task -> Msg \cup {NoMsg}]
    /\ total \in [Task -> Lengths]
    /\ out \in [Task -> Seq(Msg \cup {NoMsg})]
    /\ alone \in [Task -> BOOLEAN] /\ orphan \in [Task -> BOOLEAN]

\* What one call of send_ble_notify hands over are full pieces and a last one that
\* completes the length read at its beginning, never more and never less, whatever
\* the other tasks do to the buffer and to its length field meanwhile.
SendsWhatItRead ==
    \A t \in Task :
        /\ pc[t] = "wipe" => Len(out[t]) = total[t]
        /\ pc[t] = "piece" => /\ Len(out[t]) % Chunk = 0
                              /\ out[t] # <<>> => Len(out[t]) < total[t]

\* A notification during whose construction and sending no other task has entered
\* the two functions reaches the stack whole, whatever was left in the buffer.
WholeWhenAlone ==
    \A t \in Task :
        pc[t] = "wipe" /\ alone[t] /\ msg[t] # NoMsg
            => out[t] = [i \in 1..Size[msg[t]] |-> msg[t]]

\* When the Bluetooth task has caught up, the flag behind OTA_STATUS is right, and
\* the gateway can be found again whenever a client has left.
FollowsConnection == events = <<>> => serverConnect = link /\ advertising = ~link

\* Every piece that reaches a client reaches one that has enabled notifications on this
\* very connection: no client inherits its predecessor's subscription.  The flag is
\* looked at once for a whole call, and it is this that is left: when the client leaves
\* during the call the rest may reach the next one.
OnlyToSubscribers ==
    [][\A t \in Task : pc[t] = "piece" /\ Len(out'[t]) > Len(out[t]) /\ link
                           => descr # "never" \/ orphan[t]]_vars

\* A client that has written 0x0000 to the descriptor gets no notification any more
\* (user guide, appendix 1; the log line of ble.c 846 says "disable").
DisableIsObeyed ==
    [][\A t \in Task : pc[t] = "enabled" /\ pc'[t] = "piece" => descr = "on"]_vars
=============================================================================
