# GL-S10 BLE gateway: specifications, model checking and proofs

The program is the firmware in `src/demo/BLE-Gateway-Demo/main`: an ESP32 under
FreeRTOS that takes commands from a Bluetooth client, connects to the network by
WiFi or Ethernet, talks MQTT, scans for BLE advertisements and updates itself over
HTTP. File names below are relative to that directory; "user guide" is
`src/docs/GL-S10_BLE-Gateway_User_Guide.pdf`.

The C code is sequential inside a task; what is hard about it is that eleven tasks
and callbacks share plain global variables without a single lock, that commands are
cut into fragments by a link that may drop, and that the power may fail at any
moment. That is what the modules model.

## 1. The system

| Part | State | Operations | Talks to |
|---|---|---|---|
| Command channel (`ble.c`, `ble_execute.c`) | `ble_recv_message`, `ble_recv_length`, `ble_recv_end`, `ble_cmd_queue`, `ble_cmd` | write event, connect, disconnect, executor loop, `opcode_handle` | every part below, by opcode |
| Notifications (`ble.c` 966-1013) | `ble_send_message`, `gatts_indicate_if` | `create_return_notify`, `send_ble_notify`, descriptor write | written by executor, `ota_task`, MQTT task, `gpio_task` |
| Bluetooth (`ble.c`) | `ble_connect`, `ble_server_connect`, `adv_config_done`, handles of two services | `init_ble`, registration, the two GATT services, advertising, connect and disconnect of four applications | stack, LEDs |
| Prepared writes (`ble.c` 552-608) | `a_prepare_write_env` | prepare, execute, cancel | command channel |
| Network (`main.c`, `wifi.c`, `app_func.c`) | `network_group`, `network_connect`, `wifi_connect`, `ethernet_connect`, `use_ethernet`, `network_ip`, `WIFI_SWITCH`, `sta_config`, NVS | `network_event_handler`, five WiFi commands | drivers, MQTT (waits for the bit), LEDs |
| MQTT (`mqtt.c`, `app_func.c`) | `mqtt_cfg.uri`, `mqtt_client`, `mqtt_connect`, NVS | `mqtt_app_start`, event handler, eight commands | broker, notifications |
| Scan and upload (`ble_scan_task.c`, `transpondTask.c`) | `scan_result_queue` | scan result, `send2cloud` | MQTT handle |
| Firmware update (`ota_http.c`, `app_func.c`) | `ota_group`, `user_ota_url`, two partitions, otadata | `set_OTA_url`, `ota_task`, `esp_http_ota` | server, notifications, LEDs |
| Button, LEDs (`led_button.c`) | timers, `normal_working_led`, `LED_flash_level` | `gpio_task`, two timers, `led_task` | network, MQTT, update |
| Boot (`main.c`) | none of its own | `app_main` starts the rest in an order | all |

Tasks: the Bluetooth task (BTC) runs every GATT and GAP callback to its end; the
executor runs commands one at a time; the event task runs `network_event_handler`;
`ota_task`, `gpio_task`, the timer task, `led_task`, `transpond_task`,
`ble_scan_task`, the MQTT task and `app_main` run beside them.

What makes each part correct, and what is hard to test about it, is listed with
source lines under `hazards` in `PROJECT.json`. In short: no command is mixed,
forgotten, reordered or executed twice; flags, bits and address agree with the
network; a cleared configuration stays cleared; Ethernet and WiFi exclude each
other; the gateway can always boot; a notification is not mixed with another while nobody
else sends; the MQTT handle never dangles; a press of the button does what the LEDs
announce.

## 2. Plan

Done modules first, in the order they were written.

1. `CommandService`, `CommandServiceProofs`, `CommandChannel`, `MCCommandChannel`,
   `CommandChannelProofs`.
2. `FirmwareUpdate`, `Ota`, `MCOta`, `OtaProofs`.
3. `Network`, `MCNetwork`, `NetworkProofs`.
4. `NotifyChannel`, `MCNotifyChannel`, `NotifyChannelProofs`.
5. `MqttClient`, `MCMqttClient`, `MqttClientProofs`.
6. `Button`, `MCButton`, `ButtonProofs`.
7. Prepared (long) writes, in `CommandChannel`.
8. `Boot`; `Bluetooth`, `ScanUpload` and `TextCommands`, which extend it; `Gateway`,
   which composes the three; `MCGateway`, `GatewayProofs`.

What could follow: a composition of `CommandChannel` with `NotifyChannel` (a reply
for every command that has one), and the values in the GATT tables. Every invariant the
runs check is proved; of the proofs, what could follow is that the handlers of
`TextCommands` serve what `CommandChannel` executes.

## 3. The modules

### Command channel

`CommandChannel` has one action per callback or executor step. A command is a
sequence of units; unit 1 stands for the header, every other one for a byte of the
body, and each unit knows its command, so that a mixture is visible.

| Action | Code |
|---|---|
| `WriteFragment` | write event, `ble.c` 672-693, with `GetBleCommand` = `get_ble_command` 1015-1053 |
| `EarlyCommand` | the same while `ble_cmd_queue` is NULL: `xQueueSend` asserts |
| `Connect`, `Disconnect` | `ble.c` 760-781, which touch no receive variable |
| `CreateQueue`, `ReceiveCommand`, `ExecuteCommand`, `ExecuteRestart` | `execute_ble_task`, `opcode_handle` |
| `Restart` | power, panic, end of an update |

`recvMessage` is `ble_recv_message` up to `ble_recv_end` (what is behind it is never
read), `recvLength` is `ble_recv_length` and may become negative. The parts of a long
write (`PreparePart`) are write events like any other to `get_ble_command`;
`example_write_event_env` collects them once more (`Collect`: allocation, the copy of
the first part to whatever offset the client gives, bounds and refusals of the later
ones), `ExecuteWrite` ends the long write either way, and a disconnect leaves buffer and
length as they are. A client may disconnect anywhere, declare more or less than it
writes, declare zero, or declare more than the buffer holds. After a copy beyond
`ble_recv_message` or `prepare_buf` (`OutOfBounds`) the program's behaviour is
undefined: nothing but a restart follows. `complete`, `executed`, `lost`, `lastEnd` and
`consecutive` are history; the last two say where the latest part ends and whether the
parts have started at 0 and followed each other.

`CommandService` is the promise: a FIFO of bounded length from which a command is
lost only at a full queue or a restart. `CommandChannel!Service` is the refinement
mapping: the queue without its bytes, and the executor's block as the running
command.

### Firmware update

`Ota` has one action per access to state that several tasks share, because
`set_OTA_url` (executor), the long press (`gpio_task`) and `ota_task` interleave
between any two of them; the calls of `esp_http_ota` are one action each and may
all fail. Flash (`slots`, `boot`) survives `Restart`; RAM does not. `userUrl`
distinguishes a pointer to text, NULL, a freed block and a block that is allocated
but not yet written; `Texts` says what `esp_http_client_init` may find there (for
the last two: anything). The image check of `esp_ota_end` and the bootloader are
external and modelled by what they promise.

`FirmwareUpdate` is the promise: a current image, a next image, and an installation
at most once between restarts.

### Network

`Network` has the event task (one action per event, more where NVS is written or
a second is waited), the executor (every call of a driver and every access to shared
state is a step), `gpio_task` as far as it clears the configuration, and the world:
access point, cable, DHCP. `flags` are the booleans and the origin of `network_ip`,
`bits` the event group. A driver posts its events in order; a disconnect or a stop
of a connecting or connected station posts the loss. `reached`, `stopped` and
`cleaned` are history: has the access point answered this SET_WIFI_CONFIG, is a
STOP_WIFI in force, has the configuration been cleared. A plugged cable is two steps:
`EthConnected`, which takes the event, asks for an address and sets the flags, and
`EthStopsWifi`, the handler's `esp_wifi_stop`; if the address comes between the two
(`early`, history) its event is in front of the loss of WiFi that the stop posts.

The handler of one event is one action except where it calls NVS or delays. Inside
such an action the real code makes several plain stores; a reader in another task
could see some of them. The properties are about states between handlers.

### Notifications

`NotifyChannel` has one action per statement of `create_return_notify` and
`send_ble_notify`, since four tasks run them on one buffer without a lock; each call
of `esp_ble_gatts_send_indicate` is one (`SendPiece`).

| Action | Code |
|---|---|
| `Opcode`, `MqttData`, `OtaStatus`, `ButtonReply` | the four callers; `gpio_task` builds and does not send, the executor always sends |
| `Clear`, `Header`, `Body`, `High`, `Low` | `create_return_notify`, `ble.c` 1003-1012 |
| `NotEnabled`, `ReadLength`, `SendPiece`, `Wipe` | `send_ble_notify`, `ble.c` 966-999 |
| `Up`, `Down`, `DescrWritten` | connect, disconnect and descriptor write of the two profiles |

A cell of the buffer stands for some bytes and knows the message they belong to, so
that a mixture is visible; the first cell is the header. The length field is kept
apart as a number whose two digits are written one after the other. Messages have any
length: one that is longer than the buffer is copied beyond it (`BodyBeyond`), after
which nothing but a `Restart` follows; a length made of the digits of two messages may
reach beyond it, too, and what is read there belongs to no message. Both profiles'
handlers of a disconnect are one action: the Bluetooth task runs them one after the
other. `descr`, `alone` and `orphan` (has the client left for which this call of
`send_ble_notify` was begun?) are history.

### MQTT client

`MqttClient` has one handle, one uri, one flag and the tasks that use them:
`app_main`, the executor, `gpio_task` and one task per client that was started. The
library is external: what start, stop, destroy and init do to a client, that the
first three do nothing without one, and that it reconnects for ever. A pointer that
`write_mqtt_config_to_nvs` has passed on stays what it was when `mqtt_cfg.uri` gets
another block (`saving`); a freed or unfilled block may hold any text. `raced` and
`overlap` are history: has a SET_MQTT_URI come before `app_main` was done, have two
tasks used the uri at once.

### Button

`Button` has the interrupts, `gpio_task`, the two timers and the choice of a
pattern by `led_task`. Time passes in seconds; what takes no time worth speaking of
happens between two ticks, but a second may end while the configuration is cleared
or the timers are stopped (`Slow`). A duration of `n` may be exactly `n` or more, so
the boundary itself is in the model. `led_task`'s test and its assignment are two steps
(`NoPattern`, `BackToNormal`), and so are the two assignments of a timer's callback
(`Expire`, `Callback`), so that each may fall between the other's. `plain` and
`overtaken` are history: is this a press without bounces, interrupts still queued or
other users of the LEDs, and has `led_task` found no pattern since it was recognised?

### Boot, Bluetooth, scan and upload, texts: the gateway

`Boot` has one variable, the step `app_main` comes to next. The parts it has started
do not wait for it, so it stands beside their actions.

`Bluetooth` has the start-up of Bluetooth and the links. Every handler of the
Bluetooth task is an action that consumes one event and asks the stack for something;
the stack answers requests in order, in the order of its own, and each call or answer
may fail (`trouble`).

| Action | Code |
|---|---|
| `StartStack`, `Register`, `ResetCount` | `init_ble`, with its early returns, and `ble_connect = 0`, `main.c` 138 |
| `OnRegistered` | the four registration events, `ble.c` 619-657, 800-808, 226-235, 269-271, behind 352-364 and 940-949 |
| `OnBuilt` | the events of service, characteristic and descriptor, 704-751, 865-898 |
| `OnConfigured` | the two completions that start the advertising, 460-471 |
| `OnConnect`, `OnDisconnect` | 760-781, 907-926, 272-284, 342-345 |
| `Configures`, `Registers`, `Builds`, `Starts`, `SetsScanParams`, `Advertises` | the stack's answers (external) |

`ESP_GATTS_*` and `ESP_GATTC_*` events of a link reach every application in
`LinkApps`; server B and client cB count each. `OnBuilt` asks for the start of a service
(710, 871) together with its characteristic; the report of that start is only logged,
so that `Starts` has no handler. `wiped` is what `app_main` throws away by its late
initialisation of the counter.

`ScanUpload` has the radio, `gap_event_handler` as the producer, `transpond_task` as
the consumer, and of the MQTT client what the two read. A result is the number of its
arrival and stands for its block, so that a block that is freed twice, or forgotten,
is visible in `heap`. `send2cloud` reads `mqtt_client` (`TakeClient`) and publishes
through what it has read (`through`), which `set_mqtt_uri` may destroy in between. With
`mqtt_client` NULL it is a panic, hence `Restart`.

`TextCommands` has the handlers as functions. A request is what the client means,
`Text` the body that the user guide prescribes for it, `Handled` what the code makes of
it: what it hands to a library, a reply, `Overflow` if it writes beyond an array. A
body is not terminated in the heap; `Residues` is what may follow. `ParsedAsMeant` says
that the outcome is the one meant *exactly* if the request is `Safe`: the conditions of
`Safe` are thus the weakest under which the handlers are right, and they are the list
of what a client has to know and the guide does not say: no `@` in an SSID, a topic to
publish to, a user name or a password, no `:` in a password, room for the text and its
residue, and nothing of length zero or without terminator where the library looks for a
zero.

`Gateway` puts the three beside each other: one `app_main`, one restart that takes all
of them, and scans that need the parameters set by `OnRegistered`.

## 4. The runs

| Run | Expect | Shows |
|---|---|---|
| `command_channel` | pass | 9 properties over 448,000 states |
| `ota` | pass | 7 properties over 181,000 states |
| `ota_update_now` | violation | a request during a failing run is erased |
| `network` | pass | 6 properties over 1,442,000 states |
| `network_stop_wifi` | violation | STOP_WIFI answers 0 and WiFi comes back |
| `network_set_wifi` | violation | SET_WIFI_CONFIG answers 0 on the old connection's bit |
| `notify` | pass | 5 properties over 2,997,000 states |
| `notify_disable` | violation | notifications go on after 0x0000 was written |
| `mqtt` | pass | 5 properties over 502,000 states |
| `mqtt_bad_uri` | violation | `mqtt_connect` stays on without a client |
| `button` | pass | 4 properties over 46,000 states |
| `gateway` | pass | 4 properties over 1,355,000 states |

Bounds and why they are enough.

- `command_channel`: five commands, each written at most once: one of three units
  (can be cut in the middle), one whose client writes a unit more than it declares, sent
  as a long write, one that declares five units and writes four to a buffer
  (`CMD_MAX_LEN`) of three, one with length zero, and RESTART. Writes of at most two
  units (`Mtu`), a queue of two: it fills, drops, and drains. Every pair of an
  unfinished command and a following one occurs, which is all the receiver can
  confuse, since it holds one command. The parts of the long write come at offsets 0 and
  2 in a `prepare_buf` of three: one after the other, overlapping, refused, and copied
  beyond its end.
- `ota`: two URLs and three images, the download in blocks: one image of the size of
  the partition, one larger. Any number of requests and runs.
- `network`: one configuration besides the cleared and the unset one, and two events
  waiting (`MaxEvents`, 32 in `sdkconfig`); the calls of a command may add one more.
  A third waiting event is only handled after the first two by one sequential task.
- `notify`: messages of three cells (one piece, exactly full), of five and of six cells
  (two pieces) and one of seven, in a buffer of six. `Radix` and a piece are 3: the
  digits of the five and of the six make lengths up to 8, beyond the buffer, which takes
  three pieces. Two tasks inside at a time (`MaxBusy`) make every
  mixture of two messages; one event waits for the Bluetooth task (`MaxEvents`),
  whose handlers do not look at the buffer. The proofs have neither bound.
- `mqtt`: one uri besides the default that the library accepts and one it refuses,
  three clients, one more than can exist (`OneClient`).
- `button`: the real durations of 3 and 8 seconds and a queue of three interrupts (10
  in the code): a press, a bounce and one more edge wait together.

- `gateway`: `MCGateway` lets a behaviour have links and failing calls, or scan
  results and a changing MQTT client, or requests (`scope`); the three parts share no
  variable but `app` and `scanSet`, so no property could tell apart the orders in which
  steps of different parts come. `app_main` and restarts are in all of them, and with
  links it stops at "tasks", after which it does nothing to Bluetooth. After the first
  failure no property speaks of the tables any more, and no more of them is built. Four
  results, one without data, and a queue of two: it fills, drops and drains, and the
  order of two that wait is visible. Applications A, B
  and cB are told of links; cA ignores them. Arrays of 3 to 8 characters (17 for the uri),
  names and words of up to three with `@` and `:` in front, behind or not at all, and
  every byte for `itoa_16`.

Mutants: for each property of a passing run `PROJECT.json` names a change of one
definition, as a bug in that code would be, under which TLC finds the property
violated. They stand in the modules before the definition they replace.

Fairness. `WF(Executor)`: the executor is the only consumer of its queue and blocks
on nothing else but bounded calls. `WF(OtaTask)`: once the bit is set `ota_task`
waits for nothing without a timeout. `WF(EventTask)`: a high-priority task that
blocks for a second at most. In `MqttClient`, `WF(ClientTask(c))`: the library
retries, and its handler ends; `WF(Executor)` as above. In `Bluetooth`: `app_main` gets
through `init_ble`, the stack answers what it is asked, and the Bluetooth task runs.
Nothing is assumed of clients, buttons, servers, the
access point or the cable, and no restart is assumed either to happen or not to.

## 5. Findings

1. `UpdateNowUpdates`. User guide 1.4.17: `updateNow` upgrades at once.
   `ota_task` clears the start bit last (`ota_http.c` 111), five seconds after a
   failure; a request made since the run began is answered 0 and erased.
2. `StopWifiStops`. User guide 1.4.3: STOP_WIFI closes the connection.
   `stop_wifi` turns `WIFI_SWITCH` off after `esp_wifi_disconnect`
   (`app_func.c` 127-131); the event task may see it still on (`main.c` 65) and
   reconnects a second later without looking again.
3. `SetWifiReplyIsTrue`. User guide 1.4.1: 0 if connected. `set_wifi_config` waits
   for a bit it has not cleared (`app_func.c` 86); it may be the old connection's,
   or be set late by the handler of the old address (`main.c` 52-54).
4. `DisableIsObeyed`. Log line of `ble.c` 847 and user guide, appendix 1: notifications
   come only while they are enabled. The branch for 0x0000 leaves the flag set.
5. `ConnectedMeansClient`. User guide 1.4.11: the state is that of the connection.
   `set_mqtt_uri` with a uri that is refused leaves no client and `mqtt_connect` as
   it was (`app_func.c` 178-199).

The button has a limit that no document contradicts: a press whose length is within
a second of 3 s or 8 s races with a timer (`Risky` in `Button`). It may restart the
gateway, since `esp_timer_stop` fails for a timer that has just expired and its
result is under `ESP_ERROR_CHECK`, or leave the pattern of the timer. The properties
of `Button` exclude these four seconds, and none of the four can be left out of the
set. A bounce that outlasts the debouncing, or a second press within it, may restart
the gateway, too: `esp_timer_start_once` fails for a running timer. `plain` excludes
those.

What the properties have to make room for. Each of these is a behaviour of the code
that a property names as an exception (number 9: after which a module says nothing);
without the exception TLC finds a state or step that violates the property, and with it the
property says that nothing else does.

6. `OverrunIsDeclared`. `get_ble_command` compares a fragment with the length field only
   (`ble.c` 1024-1041) and the length field with nothing, though `ble_recv_message` has
   1024 bytes (`ble.c` 164, `app.h` 131): a command that announces more and goes on
   writing is copied beyond it.
7. `PreparedFollowsClient` (`consecutive`). The first part of a long write is copied to
   its offset without a comparison (`ble.c` 557-563, 586); `prepare_len` adds up the
   parts (588), also those that overlap, so it may exceed `prepare_buf` although every
   part lies in it, and the log of 599 reads that far. A buffer that a disconnect has left
   counts as begun: the next client's parts are checked but `prepare_len` goes on.
8. `OnlyToSubscribers` (`orphan`). `enable` is looked at once for all pieces of a
   notification (`ble.c` 968 against 981-996). If the client leaves in between and
   another connects, that one gets the rest without having subscribed.
9. `BodyBeyond`. `mqtt_notify_pack` compares topic and data with 1024 (`mqtt.c` 44); with
   the `@` and the four bytes in front, messages of 1020 to 1024 are copied beyond
   `ble_send_message`, and one of 1024 beyond `tmpBuf`, too. `ParsedAsMeant` has the same
   bound among the conditions of `Safe`.
10. `PatternTellsHold` (`overtaken`). User guide 2.4: the LEDs flash once the button has been
   held for 3 s. The first callback turns `normal_working_led` off and then sets the
   pattern (`led_button.c` 236-237). If `led_task` looks in between and finds no pattern,
   it turns the normal display on again (172-174), and that is what is shown until
   the second callback, although letting go would clear the configuration.
11. `TruthAtRest` (`early`). The drivers post an Ethernet address at any time after the
   handler has been called for the link (`main.c` 75); the loss of WiFi is posted by the
   handler's own `esp_wifi_stop` (79). If the address is first, the loss is handled after
   it and clears `network_connect`, the bit and `network_ip` (56-63), although Ethernet
   has its address; nothing sets them again until the cable is plugged in anew.

Found while reading, without a property because they concern a format, not a
behaviour: the guide gives `updateNow` as a byte 0x00 or 0x01 (1.4.17), `set_OTA_url`
compares with the character; the guide gives RESTART the opcode 0xF2 (1.4.18), `app.h`
115 0xFA; the reply of GET_MQTT_CONFIG (1.4.11) has the uri with its scheme and without
the password.

Also no contradiction, but outside of what a client could expect: `ble_connect` is wrong by the
links that `app_main` has thrown away (`wiped` in `ConnectionTruth`), until the next
restart, and `led_task` shows neither pattern for a negative number; the two flags of
`adv_config_done` are set whether or not the calls before them have succeeded
(`ble.c` 643-653), so that after a refusal the gateway never advertises (`trouble` in
`FoundAgain`); a result that finds the queue full is never freed (`dropped`); a long
write that the client cancels has been executed already.

## 6. The proofs

All theorems are of the form `Spec => []Inv`, `Spec => [][A]_vars` or
`Spec => Abstract!Spec`, for every value of the constants that meets the named
assumptions.

`TextAssumption`: texts are strings of characters among which are the separators, the
two digits of a flag and those of the scheme; an address of IP has no `@`; residues are
texts; the arrays have a size. `LinkAssumption`: the two servers are told of a
link, and nobody but the four applications is. `UploadAssumption`: the results with data
are among the results, and the queue holds one at least.

`ChannelAssumption`: a single write fits into both buffers, which follows from the MTU
of 500. Nothing is assumed of length fields, offsets or what a client writes.
`OtaAssumption`: the factory image is valid and fits; the
pointers NULL, freed and unwritten are not URLs. `NetworkAssumption`: the cleared,
the unset and the settable values differ. `NotifyAssumption`: the buffer's size is a
multiple of the base of the length's digits, as 1024 is of 256, and the provisional
length fits; messages have any size. `MqttAssumption`: the values that stand for NULL, freed and
unfilled blocks are not uris.

- `CommandChannelProofs`. `OverrunIsDeclared` is not inductive: a later fragment is
  bounded by `recvLength` only, so the invariant says that the units in the buffer are an
  initial part of one command whose declared length is their number and `recvLength`
  together (`ReceiverFollowsClient`). Whatever lies beyond the buffer is thus announced
  by that very command; a corollary, `RecvBufferSafe`, has the buffer never overrun if no
  length field exceeds it. `OnlyWholeCommandsQueued` follows from the same. The
  refinement needs in addition that a command that is pending or finished is not written
  again, so that `Service`'s "at most once" holds at the moment of `Accept`.
- `CommandServiceProofs` proves of the service alone that it forgets no command it has
  accepted, holds each once and keeps their order (`ServiceInv`). `NoCommandForgotten`
  and `ExecutedInOrder` are about the same variables seen through the refinement
  mapping, so `CommandChannelProofs` obtains them from `ChannelImplementsService`, with
  no argument about the receiver of its own.
- `OtaProofs`. `AlwaysBootable` needs `Progress`: outside the last two states of a
  run the boot partition is the running one, which no step writes; and before it is
  changed, the update partition has been found whole and holds this run's image.
- `NetworkProofs`. `EthernetExcludesWifi` is inductive with the types: only the event
  task changes `use_ethernet`, together with the driver, and no call by another task
  starts a stopped driver. `ClearedStaysCleared` needs `ClearedInv`: from the call on
  `sta_config` is clear and nobody is setting it, and once no task is before its
  first NVS entry that entry is clear; so whichever task saves, it saves the cleared
  value, and the last of the cleaners has written both.
  `TruthAtRest` speaks of an empty queue; its invariant `Truth` says what the waiting
  events will make of the flags. The last event of the station tells whether it is up
  and the last one of the cable whether it is plugged in, or, if there is none, the bit
  and the flag do (`WifiTold`, `CableTold`). A handler that clears the network must be
  shown not to clear it behind a station that is up or an address that was granted
  (`NetTold`): the loss of the station comes before its next address in the queue, and
  a cable that is unplugged has been in use, so WiFi was stopped (`UpFirst`, `NeedsUp`,
  and `EthernetExcludesWifi` again). `EarlyNoted` has the one case in which it does:
  an address that is granted before `esp_wifi_stop` is noted as `early` when it happens.
- `NotifyChannelProofs`. `SendsWhatItRead` needs the types, since a length is a number,
  and is one invariant with them, with `Building` and `Handing` (who has a message, who
  has handed something over) and with `Copied`: a task that writes its digits has a message that
  fits. That two such messages' digits exceed the buffer by less than one high digit is
  `DigitBound`. `WholeWhenAlone` needs
  `Undisturbed` (beside a task that is alone nobody is inside, because every entry
  ends the solitude of those who are) and `Progress`, statement by statement.
  `OnlyToSubscribers` speaks of every piece. `Subscribed` says that the flag is set for a
  client that has subscribed, and `Addressed` that a call whose client has not left is for
  that client; the latter needs `Following`, since the flag may still be that of a client
  that has left and whose end is not handled, but then nobody can have connected.
  `FollowsConnection` needs `Following`: while a client is connected no end of a
  connection waits; once it has left, the end is the last event that waits, and until
  it is handled nobody can connect, since the controller does not advertise.
- In `CommandChannelProofs`, too, `PreparedFollowsClient`: while the parts follow each
  other `prepare_len` is the end of the last one, and the comparison of a later part and,
  for the first one, the length of a write keep that within the buffer; without a buffer
  there is no last part (`Bookkeeping`).
- `GatewayProofs`. `NoResultForgotten` needs the types, that everything it mentions
  has arrived, and how far `transpond_task` is with the block in its hand (`History`).
  The order of a concatenation is proved from the order of its parts and of what is
  between them (`ConcatIncreasing`). Bluetooth and the texts leave the variables alone,
  and a restart establishes the invariant again; so the theorem is one of the whole
  gateway.
- `GatewayProofs`, Bluetooth. `ConnectionTruth` speaks of a moment at which no request
  and no event is outstanding; its invariant `LinksInv` says at every moment what the
  outstanding ones will make of it. *Advertising*: flags of `adv_config_done`,
  a call to advertise, the advertising, the link and the report of its end to server A
  exclude each other (`Advertising`), so there is no second client; that
  needs the two flags' requests and answers to be outstanding once at most (`Once`) and
  application A to be registered once (`Registration`). *Counting*: there is a set of
  applications that have heard of the link, the counter with `wiped` and
  `ble_server_connect` say how many they are, and the events still to come turn that
  set, with no connection or disconnection twice, into those that are to be told
  (`Hear`). *Progress*: unless something has failed, somebody holds the token of the
  advertising and, for each service, the next step of its table and the call that starts
  it (`Underway`). `Confirmed` (the answer
  to a registration that went well comes to a registered application) is apart, since it
  is about the contents of events and not about which are outstanding.
  From `Progress` also follows `NothingHangs`, the safety half of `FoundAgain`: with
  nothing outstanding the gateway is available. That everything outstanding is dealt
  with at last is the fairness half, which TLC checks.
- `GatewayProofs`, texts. The invariant of `ParsedAsMeant` is only that the result of a
  request is what `Handled` makes of it; the work is in one lemma for each handler, which
  shows for texts of any length over any characters that the outcome is the one meant
  exactly under the conditions of `Safe`, in both directions. No induction is needed:
  `Place` and the last `:` are a least and a greatest element of a set of places
  (`PlaceFound`, `FirstFrom`, `LastColon`), and a concatenation is known by its elements.
  For `get_mqtt_config` (`PasswordLeftOut`) the converse is an argument about lengths:
  if the reply is the one meant, what was left out has the length of the password and
  its `:`, it ends before the first `@`, and so it is the password.
- `MqttClientProofs`. `HandleIsLive` and `OneClient` need `Clients`: before `app_main`
  has created its client all that exists is the handle's, if a SET_MQTT_URI has come
  early; afterwards the handle's and, after such a race, one more.
  `SavedWhenConnected` needs `SavedInv`: as long as neither history flag is set only one
  task is between its first and its last use of `mqtt_cfg.uri` (`Alone`, from the
  cardinality of `Users`), so the pointer it passes to NVS is still the one of the
  configuration when it is read, and nobody frees the block in between; outside the
  cleaning there is a uri from `app_main`'s client on (`Configured`).
- `ButtonProofs`. A plain press is in one of four phases: not yet recognised, timed,
  being answered, answered. While it is timed both timers stand where the elapsed
  seconds say (`TimersFollow`), and this is what makes the three branches of `gpio_task`
  stop exactly the timers that run. What is shown is `DisplayFollows`: from the first
  timer's expiry to the second's the normal display is on, or about to be put on, exactly
  if `led_task` has been in between the two assignments. `ButtonAssumption` asks for the two durations to be
  more than a second apart, as 3 and 8 are.

Only model-checked: the liveness properties, which the prover has no rules of
fairness for (`QueuedIsExecuted`, `EveryRunEnds`, `InstalledGetsToRun`,
`WifiTakesOver`, `RetryGoesOn`, `FlagSettles`, `FoundAgain`).

## 7. Not modelled

- Codecs that nothing calls (`ltoa`, `str2mac_array`, `str2uint8_array`,
  `ble_array2str`, `get_time`), replies of a fixed form (version, MAC address), the JSON
  text around a scan result and its array of 62 characters.
- Bluetooth: requests for connection parameters and MTU, reads, the values in the
  tables, a second long write buffer (`b_prepare_write_env`) for a characteristic
  that takes no long values, and a stack that connects two clients at a time.
- Notifications: indications that wait for a confirmation (`need_confirm`), a client
  that is too slow (congestion), reads of a half-written length field, and a
  `memset` or `memcpy` that another task interrupts.
- Which LED is lit when: `led_task`'s pattern is a number.
- Left out: Ethernet PHY start-up, `sdkconfig`
  (fixed sequences of library calls, settings); time, serial number and efuse code,
  which `app_main` and `opcode_handle` do not call.
- Contents of SSIDs, passwords, URLs and messages: values, not characters, except in
  `TextCommands`; there, what lies on the stack behind a name that is copied before it
  is terminated (`app_func.c` 53). A body that contains 0xFE and a client whose
  first write on a connection is no header are excluded by the data model of
  `CommandChannel`.
- What the program does after it has written beyond a buffer: the models stop there until
  a restart, and nothing is said of it.
- Flash is assumed to do what NVS and the update library promise: an entry or
  otadata is written as a whole or not at all.
