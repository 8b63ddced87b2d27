----------------------------- MODULE MqttClient -----------------------------
(***************************************************************************)
(* The MQTT client: one handle, one uri and one flag, used by app_main,    *)
(* the executor, the button's task and the tasks of the clients themselves *)
(* (a client that was started runs mqtt_event_handler in a task of its     *)
(* own) without a lock.                                                    *)
(*                                                                         *)
(* The client library is external: esp_mqtt_client_start and _stop fail    *)
(* unless the client is stopped or running; _stop and _destroy wait until  *)
(* the handler has returned and post no event; a failed or lost connection *)
(* is reported as MQTT_EVENT_DISCONNECTED and tried again for ever.        *)
(*                                                                         *)
(* Data.  A uri is a value.  mqtt_cfg.uri is NULL, or points to a block    *)
(* with a uri, to a freed one, or to one that is not filled yet; reading   *)
(* one of the last two may yield any text.                                 *)
(***************************************************************************)
EXTENDS Naturals, FiniteSets

CONSTANTS
    Uri,                \* what SET_MQTT_URI may set
    Unparsable,         \* the ones esp_mqtt_client_init refuses
    Default,            \* the built-in uri
    Unset,              \* NVS holds no uri
    Null, Freed, Raw,   \* see above
    Client,             \* the library's clients, those of freed blocks included
    NoClient,           \* the handle is NULL
    Shared              \* a pointer to the block mqtt_cfg.uri points to

Texts == Uri \cup {Default}

ASSUME MqttAssumption ==
    /\ Unparsable \subseteq Uri
    /\ Cardinality({Unset, Null, Freed, Raw, Shared}) = 5
    /\ {Unset, Null, Freed, Raw, Shared} \cap Texts = {}
    /\ NoClient \notin Client
    /\ Client \cap {"app", "executor", "gpio"} = {}

VARIABLES
    \* the world
    broker,         \* can a broker be reached?
    \* the library
    phase,          \* of each client: "none", "stopped", "connecting", "connected", "retry"
    \* the program
    handle,         \* mqtt_client
    cfgUri,         \* mqtt_cfg.uri
    mqttConnect,    \* mqtt_connect
    nvs,            \* "mqtt_uri" in NVS; survives a restart
    pc,             \* the next statement of each task
    setting,        \* the argument of set_mqtt_uri
    saving,         \* the pointer a task has passed to write_item_to_nvs
    \* history since the start
    raced,          \* did a SET_MQTT_URI come before app_main was done?
    overlap         \* did two tasks use mqtt_cfg.uri at the same time?

config == <<cfgUri, nvs, saving>>
vars == <<broker, phase, handle, cfgUri, mqttConnect, nvs, pc, setting, saving, raced, overlap>>

Task == {"app", "executor", "gpio"} \cup Client
Idle == [t \in Task |-> IF t = "app" THEN "wait" ELSE "idle"]
NotSaving == [t \in Task |-> Null]

Init == /\ broker \in BOOLEAN
        /\ phase = [c \in Client |-> "none"]
        /\ handle = NoClient /\ cfgUri = Null /\ mqttConnect = FALSE /\ nvs = Unset
        /\ pc = Idle /\ setting = Null /\ saving = NotSaving
        /\ raced = FALSE /\ overlap = FALSE

Live == {c \in Client : phase[c] # "none"}
Started(c) == c \in Client /\ phase[c] \in {"connecting", "connected", "retry"}

\* mqtt_cfg.uri is given another block, or its block is freed: whoever has passed
\* the old pointer on keeps it.
Keep(contents) == saving' = [t \in Task |-> IF saving[t] = Shared THEN contents ELSE saving[t]]
Assign(block) == cfgUri' = block /\ Keep(cfgUri)
Reads(block) == IF block \in Texts THEN {block} ELSE Texts

\* The tasks that are between the first and the last use of mqtt_cfg.uri.
Users(at) == {t \in Task : IF t = "app" THEN at[t] \in {"fill", "init"} ELSE at[t] # "idle"}

\* A task goes from one statement to another.
Goto(t, from, to) == /\ pc[t] = from /\ pc' = [pc EXCEPT ![t] = to]
                     /\ overlap' = (overlap \/ Cardinality(Users(pc')) > 1)
-----------------------------------------------------------------------------
(***************************************************************************)
(* The world, and the library.                                             *)
(***************************************************************************)
BrokerChanges == /\ broker' = ~broker
                 /\ UNCHANGED <<phase, handle, mqttConnect, config, pc, setting, raced, overlap>>

\* What a call of the library does to a client; a client that does not exist (a
\* NULL handle, or one destroyed meanwhile) is left alone.
Becomes(c, state) == phase' = [d \in Client |-> IF d = c THEN state ELSE phase[d]]
Start(c) == IF c \in Client /\ phase[c] = "stopped" THEN Becomes(c, "connecting")
            ELSE UNCHANGED phase
Waits(c) == c \in Client => pc[c] = "idle"
Stop(c) == Waits(c) /\ IF Started(c) THEN Becomes(c, "stopped") ELSE UNCHANGED phase
Destroy(c) == Waits(c) /\ Becomes(c, "none")

\* esp_mqtt_client_init reads mqtt_cfg.uri: the result is a new, stopped client or
\* NULL.  Without a uri in its block it may be either.
Creates == /\ Live # Client
           /\ Reads(cfgUri) \ Unparsable # {}
           /\ handle' = CHOOSE c \in Client : c \notin Live
           /\ Becomes(handle', "stopped")
Refuses == Reads(cfgUri) \cap Unparsable # {} \/ cfgUri \notin Texts

(***************************************************************************)
(* mqtt_event_handler, in the client's own task.                           *)
(***************************************************************************)
Connected(c) == /\ phase[c] = "connecting" /\ broker
                /\ phase' = [phase EXCEPT ![c] = "connected"]
                /\ mqttConnect' = TRUE
                /\ Goto(c, "idle", "save")
                /\ UNCHANGED <<broker, handle, config, setting, raced>>

\* Mutant: the flag is not taken back.
DisconnectedSilently(c) ==
    /\ phase[c] \in {"connecting", "connected"} /\ ~broker
    /\ pc[c] = "idle"
    /\ phase' = [phase EXCEPT ![c] = "retry"]
    /\ UNCHANGED <<broker, handle, config, mqttConnect, pc, setting, raced, overlap>>
Disconnected(c) ==
    /\ phase[c] \in {"connecting", "connected"} /\ ~broker
    /\ pc[c] = "idle"
    /\ phase' = [phase EXCEPT ![c] = "retry"]
    /\ mqttConnect' = FALSE
    /\ UNCHANGED <<broker, handle, config, pc, setting, raced, overlap>>
Retry(c) == /\ phase[c] = "retry"
            /\ phase' = [phase EXCEPT ![c] = "connecting"]
            /\ UNCHANGED <<broker, handle, config, mqttConnect, pc, setting, raced, overlap>>

(***************************************************************************)
(* write_mqtt_config_to_nvs, in whichever task: the pointer is looked at,  *)
(* and passed on; NVS copies what it points to.                            *)
(***************************************************************************)
TakeUri(t) == /\ Goto(t, "save", IF cfgUri = Null THEN "idle" ELSE "write")
              /\ saving' = IF cfgUri = Null THEN saving ELSE [saving EXCEPT ![t] = Shared]
              /\ UNCHANGED <<broker, phase, handle, mqttConnect, cfgUri, nvs, setting, raced>>
WriteUri(t) == /\ Goto(t, "write", "idle")
               /\ nvs' \in Reads(IF saving[t] = Shared THEN cfgUri ELSE saving[t])
               /\ saving' = [saving EXCEPT ![t] = Null]
               /\ UNCHANGED <<broker, phase, handle, mqttConnect, cfgUri, setting, raced>>

(***************************************************************************)
(* mqtt_app_start, in app_main's task.                                     *)
(***************************************************************************)
\* The bit of the network comes some time, or never.
NetworkIsThere == /\ Goto("app", "wait", "read")
                  /\ mqttConnect' = FALSE
                  /\ UNCHANGED <<broker, phase, handle, config, setting, raced>>

\* Mutant: an empty NVS is read all the same.
ReadAnyway == /\ Goto("app", "read", "init")
              /\ Assign(nvs)
              /\ UNCHANGED <<broker, phase, handle, mqttConnect, nvs, setting, raced>>
ReadUri == /\ IF nvs = Unset THEN Goto("app", "read", "init") /\ Assign(Default)
              ELSE Goto("app", "read", "fill") /\ Assign(Raw)
           /\ UNCHANGED <<broker, phase, handle, mqttConnect, nvs, setting, raced>>
FillUri == /\ Goto("app", "fill", "init")
           /\ cfgUri' = IF cfgUri = Raw THEN nvs ELSE cfgUri
           /\ UNCHANGED <<broker, phase, handle, mqttConnect, nvs, saving, setting, raced>>
FirstInit == /\ Goto("app", "init", "start")
             /\ \/ Creates
                \/ Refuses /\ handle' = NoClient /\ UNCHANGED phase
             /\ UNCHANGED <<broker, mqttConnect, config, setting, raced>>
FirstStart == /\ Goto("app", "start", "done")
              /\ Start(handle)
              /\ UNCHANGED <<broker, handle, mqttConnect, config, setting, raced>>

(***************************************************************************)
(* The commands, in the executor.                                          *)
(***************************************************************************)
\* set_mqtt_uri.  Mutant: the old client is stopped only.
SetUriStops(u) == /\ Goto("executor", "idle", "set")
                  /\ Stop(handle)
                  /\ setting' = u
                  /\ raced' = (raced \/ pc["app"] # "done")
                  /\ UNCHANGED <<broker, handle, mqttConnect, config>>
SetUri(u) == /\ Goto("executor", "idle", "set")
             /\ Destroy(handle)
             /\ setting' = u
             /\ raced' = (raced \/ pc["app"] # "done")
             /\ UNCHANGED <<broker, handle, mqttConnect, config>>
NewUri == /\ Goto("executor", "set", "new client")
          /\ Assign(setting) /\ setting' = Null
          /\ UNCHANGED <<broker, phase, handle, mqttConnect, nvs, raced>>

\* Mutant: the handle is only assigned if there is a client.
NewClientOrOld == /\ \/ /\ Goto("executor", "new client", "start new")
                        /\ Creates
                     \/ /\ Goto("executor", "new client", "idle")
                        /\ Refuses /\ UNCHANGED <<handle, phase>>
                  /\ UNCHANGED <<broker, mqttConnect, config, setting, raced>>
NewClient == /\ \/ /\ Goto("executor", "new client", "start new")
                   /\ Creates
                \/ /\ Goto("executor", "new client", "idle")
                   /\ Refuses /\ handle' = NoClient /\ UNCHANGED phase
             /\ UNCHANGED <<broker, mqttConnect, config, setting, raced>>
StartNew == /\ Goto("executor", "start new", "idle")
            /\ Start(handle)
            /\ UNCHANGED <<broker, handle, mqttConnect, config, setting, raced>>

\* start_mqtt, stop_mqtt: the flag follows a call that has succeeded.
StartMqtt == /\ handle \in Client /\ phase[handle] = "stopped"
             /\ Goto("executor", "idle", "say on")
             /\ Start(handle)
             /\ UNCHANGED <<broker, handle, mqttConnect, config, setting, raced>>
StopMqtt == /\ Started(handle)
            /\ Goto("executor", "idle", "say off")
            /\ Stop(handle)
            /\ UNCHANGED <<broker, handle, mqttConnect, config, setting, raced>>
SayConnected == /\ \/ Goto("executor", "say on", "idle") /\ mqttConnect' = TRUE
                   \/ Goto("executor", "say off", "idle") /\ mqttConnect' = FALSE
                /\ UNCHANGED <<broker, phase, handle, config, setting, raced>>

\* restart_mqtt: stop, start, and no word about the flag.
RestartMqtt == /\ Goto("executor", "idle", "start new")
               /\ Stop(handle)
               /\ UNCHANGED <<broker, handle, mqttConnect, config, setting, raced>>

(***************************************************************************)
(* clean_mqtt_config, by command or by button.                             *)
(***************************************************************************)
\* The block is freed if there is one.  One that is freed already ends in the
\* heap's assertion, so that is a restart.
Clean(t) == /\ t \in {"executor", "gpio"}
            /\ cfgUri # Freed
            /\ IF cfgUri = Null
               THEN Goto(t, "idle", "create") /\ UNCHANGED <<cfgUri, saving>>
               ELSE Goto(t, "idle", "null") /\ cfgUri' = Freed /\ Keep(Freed)
            /\ UNCHANGED <<broker, phase, handle, mqttConnect, nvs, setting, raced>>
CleanNull(t) == /\ Goto(t, "null", "create")
                /\ Assign(Null)
                /\ UNCHANGED <<broker, phase, handle, mqttConnect, nvs, setting, raced>>
\* Mutant: the new uri is not saved.
CleanUnsaved(t) == /\ Goto(t, "create", "idle")
                   /\ Assign(Default)
                   /\ UNCHANGED <<broker, phase, handle, mqttConnect, nvs, setting, raced>>
CleanCreate(t) == /\ Goto(t, "create", "save")
                  /\ Assign(Default)
                  /\ UNCHANGED <<broker, phase, handle, mqttConnect, nvs, setting, raced>>

\* A restart, by command, by loss of power or by a failed assertion.
Restart == /\ phase' = [c \in Client |-> "none"]
           /\ handle' = NoClient /\ cfgUri' = Null /\ mqttConnect' = FALSE
           /\ pc' = Idle /\ setting' = Null /\ saving' = NotSaving
           /\ raced' = FALSE /\ overlap' = FALSE
           /\ UNCHANGED <<broker, nvs>>
-----------------------------------------------------------------------------
ClientTask(c) == Connected(c) \/ Disconnected(c) \/ Retry(c) \/ TakeUri(c) \/ WriteUri(c)
AppMain == NetworkIsThere \/ ReadUri \/ FillUri \/ FirstInit \/ FirstStart
Begin == (\E u \in Uri : SetUri(u)) \/ StartMqtt \/ StopMqtt \/ RestartMqtt
Cleaning(t) == CleanNull(t) \/ CleanCreate(t) \/ TakeUri(t) \/ WriteUri(t)
Executor == NewUri \/ NewClient \/ StartNew \/ SayConnected \/ Cleaning("executor")

Next == \/ BrokerChanges \/ AppMain \/ Begin \/ Executor
        \/ \E c \in Client : ClientTask(c)
        \/ Clean("executor") \/ Clean("gpio") \/ Cleaning("gpio")
        \/ Restart

\* The library retries, and a command that was begun is finished.
Fairness == /\ \A c \in Client : WF_vars(ClientTask(c))
            /\ WF_vars(Executor)
Spec == Init /\ [][Next]_vars /\ Fairness
-----------------------------------------------------------------------------
\* Every variable has its type; NVS never holds anything but a text.
TypeOK ==
    /\ broker \in BOOLEAN
    /\ phase \in [Client -> {"none", "stopped", "connecting", "connected", "retry"}]
    /\ handle \in Client \cup {NoClient}
    /\ cfgUri \in Texts \cup {Null, Freed, Raw}
    /\ mqttConnect \in BOOLEAN
    /\ nvs \in Texts \cup {Unset}
    /\ pc \in [Task -> {"wait", "read", "fill", "init", "start", "done", "idle", "save",
                        "write", "set", "new client", "start new", "say on", "say off",
                        "null", "create"}]
    /\ setting \in Uri \cup {Null}
    /\ saving \in [Task -> Texts \cup {Null, Freed, Raw, Shared}]
    /\ raced \in BOOLEAN /\ overlap \in BOOLEAN

\* Outside set_mqtt_uri the handle that publishers and commands use is NULL or a
\* client that exists, whatever initialisations have failed or overtaken each other.
HandleIsLive ==
    pc["executor"] \notin {"set", "new client"} => handle \in Live \cup {NoClient}

\* The gateway has one session with its broker.  Only a SET_MQTT_URI that overtakes
\* app_main, which waits for the network, may leave a second client, and only one.
OneClient == Cardinality(Live) <= IF raced THEN 2 ELSE 1

\* A configuration that works is there after a restart: when the handlers are done,
\* NVS holds the uri of the configuration as soon as its client has connected.
SavedWhenConnected ==
    ~raced /\ ~overlap /\ Users(pc) = {} /\ handle \in Client
        => (phase[handle] = "connected" => nvs = cfgUri)

\* When the broker is gone for good and the client is left running, GET_MQTT_CONFIG
\* says so in the end, however the flag was set too early.
FlagSettles == <>[](~broker /\ Started(handle)) => <>[](~mqttConnect)

\* GET_MQTT_CONFIG reports a connection only while there is a client that may have
\* one (user guide 1.4.11).
ConnectedMeansClient == pc["executor"] = "idle" /\ mqttConnect => \E c \in Client : Started(c)
=============================================================================
