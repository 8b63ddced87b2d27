---------------------------- MODULE ScanUpload ----------------------------
(***************************************************************************)
(* Advertisements on their way to the broker:                              *)
(*                                                                         *)
(*   radio --result--> Bluetooth task --pointer--> transpond_task --> MQTT *)
(*                     gap_event_handler  scan_result_queue   send2cloud   *)
(*                                                                         *)
(* ble_scan_task starts a scan of one second every ten.  Each result is    *)
(* copied to the heap and its pointer sent without a wait; transpond_task  *)
(* publishes the results that have any data and frees their blocks.  The   *)
(* executor may replace the MQTT client at any moment.                     *)
(*                                                                         *)
(* Data.  A result is the number of its arrival since the start, and stands*)
(* for its block as well.  Of the MQTT client only this much is here       *)
(* (MqttClient has the rest): whether mqtt_client is NULL, names a client  *)
(* or one that set_mqtt_uri has just destroyed, and the flag mqtt_connect. *)
(***************************************************************************)
EXTENDS Integers, Sequences, Functions, Boot

CONSTANTS
    Results,            \* how many results there are (a bound)
    WithData,           \* those with advertising or scan response data
    SCAN_RESULT_MAX     \* capacity of scan_result_queue

ASSUME UploadAssumption ==
    /\ Results \in Nat
    /\ WithData \subseteq 1..Results
    /\ SCAN_RESULT_MAX \in Nat \ {0}

VARIABLES
    \* the radio
    scanning,       \* is a scan going on?
    arrived,        \* the results so far
    \* the MQTT client
    client,         \* "none", "live" or "destroyed"
    mqttConnect,    \* mqtt_connect
    \* the queue, transpond_task, the heap
    queueReady,     \* scan_result_queue # NULL
    scanQueue,      \* the blocks in scan_result_queue
    hand,           \* the block transpond_task works on, or NoResult
    through,        \* the client it publishes through, like client
    sent,           \* has send2cloud returned?
    heap,           \* the blocks that are allocated
    \* history since the start
    ignored,        \* the results that came without a queue or without a broker
    dropped,        \* the ones that found the queue full
    published,      \* the ones handed to the client, in order
    unsent          \* the ones handed to a client that was destroyed already

NoResult == 0

mqttVars == <<client, mqttConnect>>
radioVars == <<scanning, arrived>>
taskVars == <<queueReady, scanQueue, hand, through, sent, heap>>
outcome == <<ignored, dropped, published, unsent>>
uploadVars == <<radioVars, mqttVars, taskVars, outcome>>

UploadInit ==
    /\ scanning = FALSE /\ arrived = 0
    /\ client = "none" /\ mqttConnect = FALSE
    /\ queueReady = FALSE /\ scanQueue = <<>> /\ hand = NoResult
    /\ through = "none" /\ sent = FALSE /\ heap = {}
    /\ ignored = {} /\ dropped = {} /\ published = <<>> /\ unsent = {}

UploadReset ==
    /\ scanning' = FALSE /\ arrived' = 0
    /\ client' = "none" /\ mqttConnect' = FALSE
    /\ queueReady' = FALSE /\ scanQueue' = <<>> /\ hand' = NoResult
    /\ through' = "none" /\ sent' = FALSE /\ heap' = {}
    /\ ignored' = {} /\ dropped' = {} /\ published' = <<>> /\ unsent' = {}
-----------------------------------------------------------------------------
(***************************************************************************)
(* app_main, and MQTT as seen from here.                                   *)
(***************************************************************************)
StartTasks == Does("tasks") /\ UNCHANGED uploadVars

\* mqtt_app_start, once the network is there (or never).  The executor may have
\* been there first.
MqttAppStart == /\ Does("mqtt")
                /\ mqttConnect' = FALSE
                /\ client' \in {"live", "none"}
                /\ UNCHANGED <<radioVars, taskVars, outcome>>

StartScanTask == Does("scan") /\ UNCHANGED uploadVars

\* set_mqtt_uri destroys the client, the one of a publication under way as well, and,
\* some statements later, has another one or none.
DestroyClient == /\ client = "live"
                 /\ client' = "destroyed"
                 /\ through' = IF through = "live" THEN "destroyed" ELSE through
                 /\ UNCHANGED <<mqttConnect, radioVars, queueReady, scanQueue, hand, sent, heap,
                                outcome, app>>
ReplaceClient == /\ Past("tasks")
                 /\ client # "live"
                 /\ client' \in {"live", "none"}
                 /\ UNCHANGED <<mqttConnect, radioVars, taskVars, outcome, app>>

\* The handler of a client, one whose handle was overwritten included, start_mqtt and
\* stop_mqtt; nobody takes the flag back when a client is destroyed.
FlagChanges == /\ Past("tasks")
               /\ mqttConnect' = ~mqttConnect
               /\ UNCHANGED <<client, radioVars, taskVars, outcome, app>>
-----------------------------------------------------------------------------
(***************************************************************************)
(* The radio, and the Bluetooth task.                                      *)
(***************************************************************************)
\* ble_scan_task; ten seconds later the scan of one second is over.
StartScan == /\ app = "done" /\ ~scanning
             /\ scanning' = TRUE
             /\ UNCHANGED <<arrived, mqttVars, taskVars, outcome, app>>
ScanEnds == /\ scanning
            /\ scanning' = FALSE
            /\ UNCHANGED <<arrived, mqttVars, taskVars, outcome, app>>

\* The next result; without memory for its copy the gateway restarts (the result of
\* malloc is not looked at).  A block that does not get into the queue is left behind.
Newest == arrived + 1
Arrives == scanning /\ arrived < Results /\ arrived' = Newest
ResultIgnored == /\ Arrives
                 /\ ~queueReady \/ ~mqttConnect
                 /\ ignored' = ignored \cup {Newest}
                 /\ UNCHANGED <<scanning, mqttVars, taskVars, dropped, published, unsent, app>>
\* Mutant: xQueueSendToFront.
ResultInFront == /\ Arrives
                 /\ queueReady /\ mqttConnect
                 /\ heap' = heap \cup {Newest}
                 /\ \/ /\ Len(scanQueue) < SCAN_RESULT_MAX
                       /\ scanQueue' = <<Newest>> \o scanQueue
                       /\ UNCHANGED dropped
                    \/ /\ Len(scanQueue) = SCAN_RESULT_MAX
                       /\ dropped' = dropped \cup {Newest}
                       /\ UNCHANGED scanQueue
                 /\ UNCHANGED <<scanning, mqttVars, queueReady, hand, through, sent,
                                ignored, published, unsent, app>>
ResultQueued == /\ Arrives
                /\ queueReady /\ mqttConnect
                /\ heap' = heap \cup {Newest}
                /\ \/ /\ Len(scanQueue) < SCAN_RESULT_MAX
                      /\ scanQueue' = Append(scanQueue, Newest)
                      /\ UNCHANGED dropped
                   \/ /\ Len(scanQueue) = SCAN_RESULT_MAX
                      /\ dropped' = dropped \cup {Newest}
                      /\ UNCHANGED scanQueue
                /\ UNCHANGED <<scanning, mqttVars, queueReady, hand, through, sent,
                               ignored, published, unsent, app>>
-----------------------------------------------------------------------------
(***************************************************************************)
(* transpond_task.                                                         *)
(***************************************************************************)
CreateScanQueue == /\ Past("tasks") /\ ~queueReady
                   /\ queueReady' = TRUE
                   /\ UNCHANGED <<radioVars, mqttVars, scanQueue, hand, through, sent, heap,
                                  outcome, app>>

ReceiveResult == /\ queueReady /\ hand = NoResult /\ scanQueue # <<>>
                 /\ hand' = Head(scanQueue) /\ scanQueue' = Tail(scanQueue)
                 /\ UNCHANGED <<radioVars, mqttVars, queueReady, through, sent, heap,
                                outcome, app>>

\* send2cloud reads mqtt_client again for each result that has data; the library works
\* with what it was given, though the client be destroyed meanwhile.  Publishing on NULL
\* is the end (Restart of Gateway); on a client that has been destroyed it is too, or
\* nothing is sent.
TakeClient == /\ hand \in WithData /\ ~sent
              /\ through = "none" /\ client # "none"
              /\ through' = client
              /\ UNCHANGED <<radioVars, mqttVars, queueReady, scanQueue, hand, sent, heap,
                             outcome, app>>
Send2Cloud == /\ hand # NoResult /\ ~sent
              /\ sent' = TRUE /\ through' = "none"
              /\ \/ /\ hand \notin WithData
                    /\ UNCHANGED <<published, unsent>>
                 \/ /\ hand \in WithData /\ through = "live"
                    /\ published' = Append(published, hand)
                    /\ UNCHANGED unsent
                 \/ /\ hand \in WithData /\ through = "destroyed"
                    /\ unsent' = unsent \cup {hand}
                    /\ UNCHANGED published
              /\ UNCHANGED <<radioVars, mqttVars, queueReady, scanQueue, hand, heap,
                             ignored, dropped, app>>

FreeResult == /\ hand # NoResult /\ sent
              /\ heap' = heap \ {hand}
              /\ hand' = NoResult /\ sent' = FALSE
              /\ UNCHANGED <<radioVars, mqttVars, queueReady, scanQueue, through, outcome, app>>

Radio == StartScan \/ ScanEnds \/ ResultIgnored \/ ResultQueued
TranspondTask == CreateScanQueue \/ ReceiveResult \/ TakeClient \/ Send2Cloud \/ FreeResult
Mqtt == MqttAppStart \/ DestroyClient \/ ReplaceClient \/ FlagChanges
UploadNext == StartTasks \/ StartScanTask \/ Mqtt \/ Radio \/ TranspondTask
-----------------------------------------------------------------------------
Waiting == Range(scanQueue)
InHand == {hand} \ {NoResult}
Freed == (1..arrived) \ (heap \cup ignored)

Increasing(s) == \A i, j \in DOMAIN s : i < j => s[i] < s[j]

\* No block is freed twice, used after it was freed or forgotten, except for the ones
\* that found the queue full; every result with data that got into the queue is
\* published, or was offered to a destroyed client, by the time its block is freed;
\* and what is published keeps the order of arrival.
NoResultForgotten ==
    /\ heap = dropped \cup Waiting \cup InHand
    /\ dropped \cap (Waiting \cup InHand) = {}
    /\ Waiting \cap InHand = {}
    /\ ignored \cap heap = {}
    /\ Freed \cap WithData \subseteq Range(published) \cup unsent
    /\ Range(published) \cup unsent \subseteq WithData \cap (Freed \cup InHand)
    /\ Increasing(published \o (IF hand = NoResult \/ sent THEN <<>> ELSE <<hand>>)
                            \o scanQueue)
=============================================================================
