------------------------------ MODULE Network ------------------------------
(***************************************************************************)
(* WiFi and Ethernet.  The event task runs network_event_handler for the   *)
(* events of the drivers, in their order; the executor runs the WiFi       *)
(* commands and gpio_task the press that clears the configuration.  They   *)
(* share the flags and bits of network_group, WIFI_SWITCH, sta_config and  *)
(* its copy in NVS, without a lock, and a step of one may fall between     *)
(* any two accesses of another.                                            *)
(*                                                                         *)
(* The drivers, the access point and the cable are outside the source:     *)
(* they are modelled by what the program calls and the events it is sent.  *)
(* A driver posts its events in the order in which things happen.          *)
(***************************************************************************)
EXTENDS Integers, Sequences

CONSTANTS
    Config,      \* names and passwords a client may set
    Cleared,     \* "0", what clean_wifi_config writes
    Unset,       \* nothing has ever been stored
    MaxEvents    \* bound on the events that wait (32 in sdkconfig)

ASSUME NetworkAssumption ==
    /\ Cleared \notin Config /\ Unset \notin Config /\ Cleared # Unset
    /\ MaxEvents \in Nat \ {0}

VARIABLES
    \* drivers
    wifi,       \* "stopped", "idle", "connecting" or "up"
    cable,      \* is an Ethernet cable plugged in?
    lease,      \* its address: "none", "asked" or "granted"
    events,     \* the queue of the event task
    \* shared by the tasks
    flags,      \* network_connect, wifi_connect, ethernet_connect,
                \* use_ethernet and where network_ip comes from
    bits,       \* the bits of network_group
    wifiSwitch, \* WIFI_SWITCH
    staConfig,  \* sta_config
    nvs,        \* wifi_ssid and wifi_password in NVS
    pc,         \* the next statement of each task
    \* history
    reached,    \* has the access point of the last SET_WIFI_CONFIG answered?
    stopped,    \* STOP_WIFI: "never", in force ("yes"), or revoked ("no")
    cleaned,    \* clearing the configuration: "no", "begun" or "yes"
    early       \* was the Ethernet address there before WiFi had been stopped?

Event == {"sta start", "sta ip", "sta lost", "eth up", "eth down", "eth ip"}
drivers == <<wifi, cable, lease>>
config == <<staConfig, nvs>>
history == <<reached, stopped, cleaned, early>>
vars == <<drivers, events, flags, bits, wifiSwitch, config, pc, history>>

Pair(x) == [ssid |-> x, password |-> x]
FlagsOff == [network |-> FALSE, wifi |-> FALSE, ethernet |-> FALSE,
             useEthernet |-> FALSE, ip |-> "none"]
BitsOff == [network |-> FALSE, wifi |-> FALSE]
Idle == [event |-> "idle", executor |-> "idle", gpio |-> "idle"]

\* app_main has read back what NVS holds, started the WiFi driver and, after
\* that, the executor: the driver's first event has been handled by then.
Init == /\ wifi = "connecting" /\ cable = FALSE /\ lease = "none" /\ events = <<>>
        /\ flags = FlagsOff /\ bits = BitsOff /\ wifiSwitch = TRUE
        /\ nvs = Pair(Unset) /\ staConfig = nvs /\ pc = Idle
        /\ reached = FALSE /\ stopped = "never" /\ cleaned = "no" /\ early = FALSE

Goto(task, from, to) == pc[task] = from /\ pc' = [pc EXCEPT ![task] = to]

\* Is the event task between the news of the cable and esp_wifi_stop?
StopsWifi == pc["event"] = "stop wifi"

\* The queue after an event has been taken from it, and what the calls of the
\* driver add to it.
Popped == Tail(events)
LossFor(state) == IF state \in {"connecting", "up"} THEN <<"sta lost">> ELSE <<>>

CallConnect == wifi' = IF wifi = "idle" THEN "connecting" ELSE wifi
CallDisconnect == /\ wifi' = IF wifi = "stopped" THEN "stopped" ELSE "idle"
                  /\ events' = events \o LossFor(wifi)

(***************************************************************************)
(* The world.                                                              *)
(***************************************************************************)
Post(event) == Len(events) < MaxEvents /\ events' = Append(events, event)
Untouched == <<flags, bits, wifiSwitch, config, pc, stopped, cleaned>>

ApAccepts == /\ wifi = "connecting" /\ wifi' = "up"
             /\ Post("sta ip")
             /\ reached' = TRUE
             /\ UNCHANGED <<cable, lease, early, Untouched>>
ApLost == /\ wifi \in {"connecting", "up"} /\ wifi' = "idle"
          /\ Post("sta lost")
          /\ UNCHANGED <<cable, lease, reached, early, Untouched>>
Plug == /\ ~cable /\ cable' = TRUE
        /\ Post("eth up")
        /\ UNCHANGED <<wifi, lease, reached, early, Untouched>>
Unplug == /\ cable /\ cable' = FALSE
          /\ lease' = "none"
          /\ Post("eth down")
          /\ UNCHANGED <<wifi, reached, early, Untouched>>
LeaseGranted == /\ cable /\ lease = "asked" /\ lease' = "granted"
                /\ Post("eth ip")
                /\ early' = StopsWifi
                /\ UNCHANGED <<wifi, cable, reached, Untouched>>

World == ApAccepts \/ ApLost \/ Plug \/ Unplug \/ LeaseGranted

(***************************************************************************)
(* The event task: network_event_handler.                                  *)
(***************************************************************************)
Take(event) == events # <<>> /\ Head(events) = event

StaStart == /\ Take("sta start") /\ Goto("event", "idle", "idle")
            /\ CallConnect
            /\ events' = Popped
            /\ UNCHANGED <<cable, lease, flags, bits, wifiSwitch, config, history>>

\* The flags come first, then the two NVS entries (SaveSsid, SavePassword),
\* then the bits.
StaGotIp == /\ Take("sta ip") /\ Goto("event", "idle", "save ssid")
            /\ flags' = [flags EXCEPT !.network = TRUE, !.wifi = TRUE, !.ip = "wifi"]
            /\ events' = Popped
            /\ UNCHANGED <<drivers, bits, wifiSwitch, config, history>>
SetBits == /\ Goto("event", "set bits", "idle")
           /\ bits' = [network |-> TRUE, wifi |-> TRUE]
           /\ UNCHANGED <<drivers, events, flags, wifiSwitch, config, history>>

\* Mutants: the bits of the lost connection stay; only a connection that was up
\* is tried again.
StaLostKeepsBits == /\ Take("sta lost")
                    /\ Goto("event", "idle", IF wifiSwitch THEN "retry" ELSE "idle")
                    /\ flags' = [flags EXCEPT !.network = FALSE, !.wifi = FALSE, !.ip = "none"]
                    /\ events' = Popped
                    /\ UNCHANGED <<drivers, bits, wifiSwitch, config, history>>
RetryIfWasUp == /\ Take("sta lost")
                /\ Goto("event", "idle", IF flags.wifi THEN "retry" ELSE "idle")
                /\ bits' = BitsOff
                /\ flags' = [flags EXCEPT !.network = FALSE, !.wifi = FALSE, !.ip = "none"]
                /\ events' = Popped
                /\ UNCHANGED <<drivers, wifiSwitch, config, history>>

\* WIFI_SWITCH is looked at before the second of delay, not after it.
StaDisconnected == /\ Take("sta lost")
                   /\ Goto("event", "idle", IF wifiSwitch THEN "retry" ELSE "idle")
                   /\ bits' = BitsOff
                   /\ flags' = [flags EXCEPT !.network = FALSE, !.wifi = FALSE, !.ip = "none"]
                   /\ events' = Popped
                   /\ UNCHANGED <<drivers, wifiSwitch, config, history>>
Retry == /\ Goto("event", "retry", "idle")
         /\ CallConnect
         /\ UNCHANGED <<cable, lease, events, flags, bits, wifiSwitch, config, history>>

\* The default handler, which runs before, asks for an address; esp_wifi_stop.
EthConnected == /\ Take("eth up") /\ Goto("event", "idle", "stop wifi")
                /\ flags' = [flags EXCEPT !.useEthernet = TRUE, !.wifi = FALSE]
                /\ lease' = "asked"
                /\ events' = Popped
                /\ UNCHANGED <<wifi, cable, bits, wifiSwitch, config, history>>
EthStopsWifi == /\ Goto("event", "stop wifi", "idle")
                /\ wifi' = "stopped"
                /\ events' = events \o LossFor(wifi)
                /\ UNCHANGED <<cable, lease, flags, bits, wifiSwitch, config, history>>

\* Mutant: the driver is not started again.
EthLostOnly == /\ Take("eth down") /\ Goto("event", "idle", "idle")
               /\ bits' = [bits EXCEPT !.network = FALSE]
               /\ flags' = [flags EXCEPT !.network = FALSE, !.ethernet = FALSE,
                                         !.ip = "none", !.useEthernet = FALSE]
               /\ lease' = "none"
               /\ events' = Popped
               /\ UNCHANGED <<wifi, cable, wifiSwitch, config, history>>

\* esp_wifi_start, which starts nothing that runs already.
EthDisconnected == /\ Take("eth down") /\ Goto("event", "idle", "idle")
                   /\ bits' = [bits EXCEPT !.network = FALSE]
                   /\ flags' = [flags EXCEPT !.network = FALSE, !.ethernet = FALSE,
                                             !.ip = "none", !.useEthernet = FALSE]
                   /\ wifi' = IF wifi = "stopped" THEN "idle" ELSE wifi
                   /\ lease' = "none"
                   /\ events' = Popped \o IF wifi = "stopped" THEN <<"sta start">> ELSE <<>>
                   /\ stopped' = IF stopped = "yes" THEN "no" ELSE stopped
                   /\ UNCHANGED <<cable, wifiSwitch, config, reached, cleaned, early>>

EthGotIp == /\ Take("eth ip") /\ Goto("event", "idle", "idle")
            /\ bits' = [bits EXCEPT !.network = TRUE]
            /\ flags' = [flags EXCEPT !.network = TRUE, !.ethernet = TRUE, !.ip = "eth"]
            /\ events' = Popped
            /\ UNCHANGED <<drivers, wifiSwitch, config, history>>

(***************************************************************************)
(* write_wifi_config_to_nvs: two entries, each read from sta_config as it  *)
(* is now.  The event task, the executor and gpio_task all call it.        *)
(***************************************************************************)
Saving == {"save ssid", "save password"}

\* Is a task in clean_wifi_config?
Clearing(p) == p["executor"] \in Saving \/ p["gpio"] \in Saving

SaveSsid(task) ==
    /\ Goto(task, "save ssid", "save password")
    /\ nvs' = [nvs EXCEPT !.ssid = staConfig.ssid]
    /\ UNCHANGED <<drivers, events, flags, bits, wifiSwitch, staConfig, history>>

\* Mutant: every task sets the bits after a save, not only the event task.
SavePasswordThenBits(task) ==
    /\ Goto(task, "save password", "set bits")
    /\ nvs' = [nvs EXCEPT !.password = staConfig.password]
    /\ UNCHANGED <<drivers, events, flags, bits, wifiSwitch, staConfig, history>>
SavePassword(task) ==
    /\ Goto(task, "save password", IF task = "event" THEN "set bits" ELSE "idle")
    /\ nvs' = [nvs EXCEPT !.password = staConfig.password]
    /\ cleaned' = IF cleaned = "begun" /\ ~Clearing(pc') THEN "yes" ELSE cleaned
    /\ UNCHANGED <<drivers, events, flags, bits, wifiSwitch, staConfig,
                   reached, stopped, early>>

EventTask == \/ StaStart \/ StaGotIp \/ SetBits \/ StaDisconnected \/ Retry
             \/ EthConnected \/ EthStopsWifi \/ EthDisconnected \/ EthGotIp
             \/ SaveSsid("event") \/ SavePassword("event")

(***************************************************************************)
(* The executor: the WiFi commands.                                        *)
(***************************************************************************)
\* A command is taken up while the events leave room for what it causes.
Begin(to) == Len(events) < MaxEvents /\ Goto("executor", "idle", to)
Revoked == IF stopped = "yes" THEN "no" ELSE stopped
Setting == {"set ssid", "set password"}  \* where sta_config is still to be written

\* SET_WIFI_CONFIG: the old connection is given up first.
SetWifiConfig == /\ Begin("set ssid")
                 /\ CallDisconnect
                 /\ reached' = FALSE /\ stopped' = Revoked /\ cleaned' = "no"
                 /\ UNCHANGED <<cable, lease, flags, bits, wifiSwitch, config, early>>
SetSsid(c) == /\ Goto("executor", "set ssid", "set password")
              /\ staConfig' = [staConfig EXCEPT !.ssid = c]
              /\ UNCHANGED <<drivers, events, flags, bits, wifiSwitch, nvs, history>>
SetPassword(c) == /\ Goto("executor", "set password", "set config")
                  /\ staConfig' = [staConfig EXCEPT !.password = c]
                  /\ UNCHANGED <<drivers, events, flags, bits, wifiSwitch, nvs, history>>
\* esp_wifi_set_config; an error ends the command with result 1.
SetConfig == /\ \/ Goto("executor", "set config", "set connect")
                \/ Goto("executor", "set config", "idle")
             /\ UNCHANGED <<drivers, events, flags, bits, wifiSwitch, config, history>>
\* An answer counts for this command from here on.
SetConnect == /\ Goto("executor", "set connect", IF wifi = "stopped" THEN "idle" ELSE "wait")
              /\ CallConnect
              /\ reached' = FALSE
              /\ UNCHANGED <<cable, lease, events, flags, bits, wifiSwitch, config,
                             stopped, cleaned, early>>
\* At most 20 s for the bit; result 0 or 1.
WaitConnected == /\ \/ bits.wifi /\ Goto("executor", "wait", "said ok")
                    \/ ~bits.wifi /\ Goto("executor", "wait", "idle")
                 /\ UNCHANGED <<drivers, events, flags, bits, wifiSwitch, config, history>>
SaidOk == /\ Goto("executor", "said ok", "idle")
          /\ UNCHANGED <<drivers, events, flags, bits, wifiSwitch, config, history>>

RestartWifi == /\ Begin("reconnect")
               /\ CallDisconnect
               /\ stopped' = Revoked
               /\ UNCHANGED <<cable, lease, flags, bits, wifiSwitch, config,
                              reached, cleaned, early>>
Reconnect == /\ Goto("executor", "reconnect", "idle")
             /\ CallConnect
             /\ UNCHANGED <<cable, lease, events, flags, bits, wifiSwitch, config, history>>

\* Mutant: START_WIFI starts the driver as well.
StartWifiDriver == /\ Begin("switch on")
                   /\ wifi' = IF wifi = "up" THEN "up" ELSE "connecting"
                   /\ stopped' = Revoked
                   /\ UNCHANGED <<cable, lease, events, flags, bits, wifiSwitch, config,
                                  reached, cleaned, early>>
StartWifi == /\ Begin("switch on")
             /\ wifi # "stopped"
             /\ CallConnect
             /\ stopped' = Revoked
             /\ UNCHANGED <<cable, lease, events, flags, bits, wifiSwitch, config,
                            reached, cleaned, early>>
SwitchOn == /\ Goto("executor", "switch on", "idle")
            /\ wifiSwitch' = TRUE
            /\ UNCHANGED <<drivers, events, flags, bits, config, history>>

\* WIFI_SWITCH is turned off after the connection, not before it.
StopWifi == /\ Begin("switch off")
            /\ wifi # "stopped"
            /\ CallDisconnect
            /\ UNCHANGED <<cable, lease, flags, bits, wifiSwitch, config, history>>
SwitchOff == /\ Goto("executor", "switch off", "idle")
             /\ wifiSwitch' = FALSE
             /\ flags' = [flags EXCEPT !.wifi = FALSE]
             /\ stopped' = "yes"
             /\ UNCHANGED <<drivers, events, bits, config, reached, cleaned, early>>

\* Mutant: the password survives in RAM.
CleanSsidOnly(task) ==
    /\ Goto(task, "idle", "save ssid")
    /\ staConfig' = [staConfig EXCEPT !.ssid = Cleared]
    /\ cleaned' = IF pc["executor"] \in Setting THEN "no" ELSE "begun"
    /\ UNCHANGED <<drivers, events, flags, bits, wifiSwitch, nvs, reached, stopped, early>>

\* clean_wifi_config, by CLEAR_WIFI_CONFIG and by a press of 3 to 8 s.
CleanWifiConfig(task) ==
    /\ Goto(task, "idle", "save ssid")
    /\ staConfig' = Pair(Cleared)
    /\ cleaned' = IF pc["executor"] \in Setting THEN "no" ELSE "begun"
    /\ UNCHANGED <<drivers, events, flags, bits, wifiSwitch, nvs, reached, stopped, early>>

Clean(task) == CleanWifiConfig(task) \/ SaveSsid(task) \/ SavePassword(task)

Executor == \/ SetWifiConfig \/ (\E c \in Config : SetSsid(c) \/ SetPassword(c))
            \/ SetConfig \/ SetConnect \/ WaitConnected \/ SaidOk
            \/ RestartWifi \/ Reconnect
            \/ StartWifi \/ SwitchOn
            \/ StopWifi \/ SwitchOff
            \/ Clean("executor")

\* RESTART, or the power: as in Init, with what NVS holds.
Restart == /\ wifi' = "connecting" /\ cable' = FALSE /\ lease' = "none"
           /\ events' = <<>>
           /\ flags' = FlagsOff /\ bits' = BitsOff /\ wifiSwitch' = TRUE
           /\ staConfig' = nvs /\ pc' = Idle
           /\ reached' = FALSE /\ stopped' = "never" /\ early' = FALSE
           /\ UNCHANGED nvs
           /\ cleaned' = IF cleaned = "begun" THEN "no" ELSE cleaned

Next == World \/ EventTask \/ Executor \/ Clean("gpio") \/ Restart

\* The event task has a high priority and never blocks except for a second.
\* Nothing is assumed of the world or of the clients.
Spec == Init /\ [][Next]_vars /\ WF_vars(EventTask)
-----------------------------------------------------------------------------
Flags == [network : BOOLEAN, wifi : BOOLEAN, ethernet : BOOLEAN,
          useEthernet : BOOLEAN, ip : {"none", "wifi", "eth"}]
Bits == [network : BOOLEAN, wifi : BOOLEAN]
Stored == [ssid : Config \cup {Cleared, Unset}, password : Config \cup {Cleared, Unset}]
Pcs == [event : {"idle", "retry", "set bits", "stop wifi"} \cup Saving,
        executor : {"idle", "set config", "set connect", "wait", "said ok", "reconnect",
                    "switch on", "switch off"} \cup Setting \cup Saving,
        gpio : {"idle"} \cup Saving]

\* Every variable has its type; a task is at one of its own statements.
TypeOK ==
    /\ wifi \in {"stopped", "idle", "connecting", "up"}
    /\ cable \in BOOLEAN /\ lease \in {"none", "asked", "granted"}
    /\ events \in Seq(Event)
    /\ flags \in Flags /\ bits \in Bits
    /\ wifiSwitch \in BOOLEAN
    /\ staConfig \in Stored /\ nvs \in Stored
    /\ pc \in Pcs
    /\ reached \in BOOLEAN /\ stopped \in {"never", "yes", "no"}
    /\ cleaned \in {"no", "begun", "yes"} /\ early \in BOOLEAN

\* When the event task has caught up, flags, bits and address agree with each
\* other and with the network, whatever commands were executed meanwhile: a
\* stale "connected" cannot stay.  An address on Ethernet is noted for good only if
\* it comes after esp_wifi_stop: else the loss of WiFi is handled after it.
TruthAtRest ==
    events = <<>> /\ pc["event"] = "idle" =>
        /\ bits.network = flags.network
        /\ flags.network <=> flags.ip # "none"
        /\ flags.ip = "wifi" => wifi = "up"
        /\ flags.ip = "eth" => cable
        /\ wifi = "up" \/ (lease = "granted" /\ ~early) => flags.network
        /\ bits.wifi <=> wifi = "up"
        /\ flags.wifi => wifi = "up"
        /\ flags.ethernet => cable
        /\ flags.useEthernet <=> cable

\* User guide 2.3: Ethernet and WiFi exclude each other.  No command and no
\* delayed retry brings WiFi up behind the back of Ethernet, once it has been stopped.
EthernetExcludesWifi == flags.useEthernet => StopsWifi \/ wifi = "stopped"

\* A configuration that was cleared does not come back, neither by a connection
\* that is made at the same time and saves it nor by a restart, until a client
\* sets one.
ClearedStaysCleared == cleaned = "yes" => nvs = Pair(Cleared)

\* User guide 2.3: when the cable is pulled WiFi connects by itself.
WifiTakesOver ==
    wifi = "stopped" /\ ~cable ~> wifi \in {"connecting", "up"} \/ cable

\* As long as nobody stops WiFi it never stays down: every lost connection and
\* every failed attempt is followed by another one.
RetryGoesOn ==
    wifi = "idle" /\ stopped = "never" ~> wifi # "idle" \/ stopped # "never"

\* User guide 1.4.3: STOP_WIFI closes the WiFi connection.  Until a command or a
\* pulled cable calls for it, it is not opened again.
StopWifiStops == stopped = "yes" => wifi \notin {"connecting", "up"}

\* User guide 1.4.1: SET_WIFI_CONFIG answers 0 if the connection was made.
SetWifiReplyIsTrue == pc["executor"] = "said ok" => reached
=============================================================================
