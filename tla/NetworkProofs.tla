--------------------------- MODULE NetworkProofs ---------------------------
(***************************************************************************)
(* Proofs about Network, for every set of configurations, every bound on   *)
(* the events that wait, and every interleaving of the tasks.              *)
(***************************************************************************)
EXTENDS Network, TLAPS

\* Why a cleared configuration does not come back: from the call on sta_config
\* is clear, nobody is setting it, and once no task is before its first entry the
\* first entry is clear.
ClearedInv ==
    /\ cleaned # "no" => staConfig = Pair(Cleared) /\ pc["executor"] \notin Setting
    /\ cleaned = "begun" => Clearing(pc)
    /\ cleaned = "begun" /\ "save ssid" \notin {pc["executor"], pc["gpio"]} =>
         nvs.ssid = Cleared
    /\ cleaned = "yes" => nvs = Pair(Cleared) /\ ~Clearing(pc)

LEMMA EventNames == {"sta start", "sta ip", "sta lost", "eth up", "eth down", "eth ip"} \subseteq Event
  BY DEF Event

LEMMA OneEvent == <<>> \in Seq(Event) /\ <<"sta start">> \in Seq(Event)
  BY DEF Event

LEMMA LossIsEvents == \A state : LossFor(state) \in Seq(Event)
<1>1. <<"sta lost">> \in Seq(Event) /\ <<>> \in Seq(Event)
  BY DEF Event
<1> QED BY <1>1 DEF LossFor

\* What an action leaves of the queue is again a sequence of events.
LEMMA QueueTypes ==
    ASSUME events \in Seq(Event)
    PROVE /\ \A e \in Event : Append(events, e) \in Seq(Event)
          /\ \A s \in Seq(Event) : events \o s \in Seq(Event)
          /\ events # <<>> => Popped \in Seq(Event)
          /\ events # <<>> => \A s \in Seq(Event) : Popped \o s \in Seq(Event)
BY DEF Popped

\* The drivers and the world keep their types.
LEMMA WorldType == TypeOK /\ World => TypeOK'
<1> SUFFICES ASSUME TypeOK, World PROVE TypeOK'
  OBVIOUS
<1> USE QueueTypes, EventNames DEF TypeOK, Post, Untouched, drivers, config
<1>1. events' \in Seq(Event)
  BY DEF World, ApAccepts, ApLost, Plug, Unplug, LeaseGranted
<1>2. UNCHANGED <<flags, bits, wifiSwitch, staConfig, nvs, pc, stopped, cleaned>>
      /\ early' \in BOOLEAN
  BY DEF World, ApAccepts, ApLost, Plug, Unplug, LeaseGranted, StopsWifi
<1>3. wifi' \in {"stopped", "idle", "connecting", "up"} /\ lease' \in {"none", "asked", "granted"}
  BY DEF World, ApAccepts, ApLost, Plug, Unplug, LeaseGranted
<1>4. cable' \in BOOLEAN /\ reached' \in BOOLEAN
  BY DEF World, ApAccepts, ApLost, Plug, Unplug, LeaseGranted
<1>5. wifiSwitch' \in BOOLEAN
  BY <1>2
<1> QED
  BY <1>1, <1>2, <1>3, <1>4, <1>5
\* A task that is where the action wants it moves to one of its own statements.
LEMMA GotoEvent == \A from : \A to \in {"idle", "retry", "set bits", "stop wifi"} \cup Saving :
                     pc \in Pcs /\ Goto("event", from, to) => pc' \in Pcs
  BY DEF Goto, Pcs
LEMMA GotoExecutor ==
    \A from : \A to \in {"idle", "set config", "set connect", "wait", "said ok", "reconnect",
                         "switch on", "switch off"} \cup Setting \cup Saving :
      pc \in Pcs /\ Goto("executor", from, to) => pc' \in Pcs
  BY DEF Goto, Pcs
LEMMA GotoGpio == \A from : \A to \in {"idle"} \cup Saving :
                    pc \in Pcs /\ Goto("gpio", from, to) => pc' \in Pcs
  BY DEF Goto, Pcs

\* write_wifi_config_to_nvs and clean_wifi_config, by any task.
LEMMA SaveType ==
    ASSUME NEW task \in {"event", "executor", "gpio"}, TypeOK,
           SaveSsid(task) \/ SavePassword(task)
    PROVE TypeOK'
<1> USE DEF TypeOK, drivers, config, history
<1>1. pc' \in Pcs
  <2>1. CASE task = "event"
    BY <2>1, GotoEvent DEF SaveSsid, SavePassword, Saving
  <2>2. CASE task = "executor"
    BY <2>2, GotoExecutor DEF SaveSsid, SavePassword, Saving
  <2>3. CASE task = "gpio"
    BY <2>3, GotoGpio DEF SaveSsid, SavePassword, Saving
  <2> QED BY <2>1, <2>2, <2>3
<1>2. nvs' \in Stored
  BY DEF SaveSsid, SavePassword, Stored
<1>3. UNCHANGED <<wifi, cable, lease, events, flags, bits, wifiSwitch, staConfig, reached,
                  stopped, early>>
  BY DEF SaveSsid, SavePassword
<1>4. cleaned' \in {"no", "begun", "yes"}
  BY DEF SaveSsid, SavePassword
<1>5. cable' \in BOOLEAN /\ wifiSwitch' \in BOOLEAN /\ reached' \in BOOLEAN /\ early' \in BOOLEAN
  BY <1>3
<1> QED
  BY <1>1, <1>2, <1>3, <1>4, <1>5

LEMMA CleanType ==
    ASSUME NEW task \in {"executor", "gpio"}, TypeOK, CleanWifiConfig(task)
    PROVE TypeOK'
<1> USE DEF TypeOK, drivers, config, history
<1>1. pc' \in Pcs
  BY GotoExecutor, GotoGpio DEF CleanWifiConfig, Saving
<1>2. staConfig' \in Stored
  BY DEF CleanWifiConfig, Stored, Pair
<1>3. UNCHANGED <<wifi, cable, lease, events, flags, bits, wifiSwitch, nvs, reached, stopped,
                  early>>
  BY DEF CleanWifiConfig
<1>4. cleaned' \in {"no", "begun", "yes"}
  BY DEF CleanWifiConfig
<1>5. cable' \in BOOLEAN /\ wifiSwitch' \in BOOLEAN /\ reached' \in BOOLEAN /\ early' \in BOOLEAN
  BY <1>3
<1> QED
  BY <1>1, <1>2, <1>3, <1>4, <1>5

\* The event task, each statement but the two that save.
LEMMA EventType ==
    ASSUME TypeOK,
           \/ StaStart \/ StaGotIp \/ SetBits \/ StaDisconnected \/ Retry
           \/ EthConnected \/ EthStopsWifi \/ EthDisconnected \/ EthGotIp
    PROVE TypeOK'
<1> USE DEF TypeOK, drivers, config, history
<1>1. events' \in Seq(Event)
  <2>1. CASE EthStopsWifi
    BY <2>1, QueueTypes, LossIsEvents DEF EthStopsWifi
  <2>2. CASE EthDisconnected
    <3>1. <<"sta start">> \in Seq(Event)
      BY OneEvent
    <3>2. events # <<>> /\ (events' = Popped \o <<"sta start">> \/ events' = Popped \o <<>>)
      BY <2>2 DEF EthDisconnected, Take
    <3> QED BY <3>1, <3>2, OneEvent, QueueTypes
  <2>3. CASE ~EthStopsWifi /\ ~EthDisconnected
    BY <2>3, QueueTypes DEF StaStart, StaGotIp, SetBits, StaDisconnected, Retry, EthConnected,
                               EthGotIp, Take
  <2> QED BY <2>1, <2>2, <2>3
<1>2. pc' \in Pcs
  BY GotoEvent
     DEF StaStart, StaGotIp, SetBits, StaDisconnected, Retry, EthConnected, EthStopsWifi,
         EthDisconnected, EthGotIp, Saving
<1>3. flags' \in Flags
  BY DEF StaStart, StaGotIp, SetBits, StaDisconnected, Retry, EthConnected, EthStopsWifi,
         EthDisconnected, EthGotIp, Flags
<1>4. bits' \in Bits
  <2>1. CASE StaGotIp \/ StaStart \/ Retry \/ EthConnected \/ EthStopsWifi
    BY <2>1 DEF StaGotIp, StaStart, Retry, EthConnected, EthStopsWifi
  <2>2. CASE SetBits \/ StaDisconnected
    <3>1. [network |-> TRUE, wifi |-> TRUE] \in Bits /\ BitsOff \in Bits
      BY DEF Bits, BitsOff
    <3> QED BY <2>2, <3>1 DEF SetBits, StaDisconnected
  <2>3. CASE EthDisconnected \/ EthGotIp
    BY <2>3 DEF EthDisconnected, EthGotIp, Bits
  <2> QED BY <2>1, <2>2, <2>3
<1>5. wifi' \in {"stopped", "idle", "connecting", "up"}
  BY DEF StaStart, StaGotIp, SetBits, StaDisconnected, Retry, EthConnected, EthStopsWifi,
         EthDisconnected, EthGotIp, CallConnect
<1>8. lease' \in {"none", "asked", "granted"}
  BY DEF StaStart, StaGotIp, SetBits, StaDisconnected, Retry, EthConnected, EthStopsWifi,
         EthDisconnected, EthGotIp
<1>9. stopped' \in {"never", "yes", "no"}
  BY DEF StaStart, StaGotIp, SetBits, StaDisconnected, Retry, EthConnected, EthStopsWifi,
         EthDisconnected, EthGotIp
<1>6. UNCHANGED <<cable, wifiSwitch, staConfig, nvs, reached, cleaned, early>>
  BY DEF StaStart, StaGotIp, SetBits, StaDisconnected, Retry, EthConnected, EthStopsWifi,
         EthDisconnected, EthGotIp
<1>7. cable' \in BOOLEAN /\ wifiSwitch' \in BOOLEAN /\ reached' \in BOOLEAN /\ early' \in BOOLEAN
  BY <1>6
<1> QED
  BY <1>1, <1>2, <1>3, <1>4, <1>5, <1>6, <1>7, <1>8, <1>9
\* The executor, each statement but those of CLEAR_WIFI_CONFIG.
LEMMA ExecutorType ==
    ASSUME TypeOK,
           \/ SetWifiConfig \/ (\E c \in Config : SetSsid(c) \/ SetPassword(c))
           \/ SetConfig \/ SetConnect \/ WaitConnected \/ SaidOk
           \/ RestartWifi \/ Reconnect \/ StartWifi \/ SwitchOn \/ StopWifi \/ SwitchOff
    PROVE TypeOK'
<1> USE DEF TypeOK, drivers, config, history
<1>1. events' \in Seq(Event)
  BY QueueTypes, LossIsEvents
     DEF SetWifiConfig, SetSsid, SetPassword, SetConfig, SetConnect, WaitConnected, SaidOk,
         RestartWifi, Reconnect, StartWifi, SwitchOn, StopWifi, SwitchOff, CallDisconnect
<1>2. pc' \in Pcs
  BY GotoExecutor
     DEF SetWifiConfig, SetSsid, SetPassword, SetConfig, SetConnect, WaitConnected, SaidOk,
         RestartWifi, Reconnect, StartWifi, SwitchOn, StopWifi, SwitchOff, Begin, Setting
<1>3. flags' \in Flags
  BY DEF SetWifiConfig, SetSsid, SetPassword, SetConfig, SetConnect, WaitConnected, SaidOk,
         RestartWifi, Reconnect, StartWifi, SwitchOn, StopWifi, SwitchOff, Flags
<1>4. staConfig' \in Stored
  BY DEF SetWifiConfig, SetSsid, SetPassword, SetConfig, SetConnect, WaitConnected, SaidOk,
         RestartWifi, Reconnect, StartWifi, SwitchOn, StopWifi, SwitchOff, Stored
<1>5. wifi' \in {"stopped", "idle", "connecting", "up"}
  BY DEF SetWifiConfig, SetSsid, SetPassword, SetConfig, SetConnect, WaitConnected, SaidOk,
         RestartWifi, Reconnect, StartWifi, SwitchOn, StopWifi, SwitchOff,
         CallConnect, CallDisconnect
<1>6. UNCHANGED <<cable, lease, bits, nvs, early>>
  BY DEF SetWifiConfig, SetSsid, SetPassword, SetConfig, SetConnect, WaitConnected, SaidOk,
         RestartWifi, Reconnect, StartWifi, SwitchOn, StopWifi, SwitchOff
<1>7. stopped' \in {"never", "yes", "no"} /\ cleaned' \in {"no", "begun", "yes"}
  BY DEF SetWifiConfig, SetSsid, SetPassword, SetConfig, SetConnect, WaitConnected, SaidOk,
         RestartWifi, Reconnect, StartWifi, SwitchOn, StopWifi, SwitchOff, Revoked
<1>8. wifiSwitch' \in BOOLEAN /\ reached' \in BOOLEAN
  BY DEF SetWifiConfig, SetSsid, SetPassword, SetConfig, SetConnect, WaitConnected, SaidOk,
         RestartWifi, Reconnect, StartWifi, SwitchOn, StopWifi, SwitchOff
<1>9. cable' \in BOOLEAN /\ early' \in BOOLEAN
  BY <1>6
<1> QED
  BY <1>1, <1>2, <1>3, <1>4, <1>5, <1>6, <1>7, <1>8, <1>9

LEMMA InitType == Init => TypeOK
<1> SUFFICES ASSUME Init PROVE TypeOK
  OBVIOUS
<1>1. FlagsOff \in Flags /\ BitsOff \in Bits /\ Idle \in Pcs /\ Pair(Unset) \in Stored
  BY DEF FlagsOff, Flags, BitsOff, Bits, Idle, Pcs, Pair, Stored
<1>2. cable \in BOOLEAN /\ wifiSwitch \in BOOLEAN /\ reached \in BOOLEAN /\ early \in BOOLEAN
  BY DEF Init
<1>3. events \in Seq(Event)
  BY OneEvent DEF Init
<1> QED
  BY <1>1, <1>2, <1>3 DEF Init, TypeOK

LEMMA RestartType == TypeOK /\ Restart => TypeOK'
<1> SUFFICES ASSUME TypeOK, Restart PROVE TypeOK'
  OBVIOUS
<1>1. FlagsOff \in Flags /\ BitsOff \in Bits /\ Idle \in Pcs
  BY DEF FlagsOff, Flags, BitsOff, Bits, Idle, Pcs
<1>2. cable' \in BOOLEAN /\ wifiSwitch' \in BOOLEAN /\ reached' \in BOOLEAN /\ early' \in BOOLEAN
  BY DEF Restart
<1>3. events' \in Seq(Event)
  BY OneEvent DEF Restart
<1> QED
  BY <1>1, <1>2, <1>3 DEF Restart, TypeOK

LEMMA StepType == TypeOK /\ [Next]_vars => TypeOK'
<1> SUFFICES ASSUME TypeOK, [Next]_vars PROVE TypeOK'
  OBVIOUS
<1>1. CASE World
  BY <1>1, WorldType
<1>2. CASE EventTask
  BY <1>2, EventType, SaveType DEF EventTask
<1>3. CASE Executor
  BY <1>3, ExecutorType, SaveType, CleanType DEF Executor, Clean
<1>4. CASE Clean("gpio")
  BY <1>4, SaveType, CleanType DEF Clean
<1>5. CASE Restart
  BY <1>5, RestartType
<1>6. CASE UNCHANGED vars
  BY <1>6 DEF TypeOK, vars, drivers, config, history
<1> QED
  BY <1>1, <1>2, <1>3, <1>4, <1>5, <1>6 DEF Next

\* The variables keep their types, whatever the tasks and the drivers do.
THEOREM TypeCorrect == Spec => []TypeOK
<1> QED BY InitType, StepType, PTL DEF Spec
\* A statement of a task changes the next statement of no other.
LEMMA GotoOwn ==
    ASSUME pc \in Pcs, NEW task \in {"event", "executor", "gpio"}, NEW from, NEW to,
           Goto(task, from, to)
    PROVE /\ pc[task] = from /\ pc'[task] = to
          /\ \A other \in {"event", "executor", "gpio"} \ {task} : pc'[other] = pc[other]
BY DEF Goto, Pcs

LEMMA OtherTasks ==
    ASSUME TypeOK, Executor \/ Clean("gpio") PROVE StopsWifi' <=> StopsWifi
<1>1. PICK task \in {"executor", "gpio"} : \E from, to : Goto(task, from, to)
  BY DEF Executor, Clean, SetWifiConfig, SetSsid, SetPassword, SetConfig, SetConnect,
         WaitConnected, SaidOk, RestartWifi, Reconnect, StartWifi, SwitchOn, StopWifi, SwitchOff,
         CleanWifiConfig, SaveSsid, SavePassword, Begin
<1>2. pc'["event"] = pc["event"]
  BY <1>1, GotoOwn DEF TypeOK
<1> QED
  BY <1>2 DEF StopsWifi

\* The statements before and after esp_wifi_stop, and all others of the event task.
LEMMA EventSteps ==
    ASSUME TypeOK, EventTask
    PROVE  /\ ~EthStopsWifi => ~StopsWifi
           /\ StopsWifi' => EthConnected
<1>1. CASE EthConnected
  <2>1. Goto("event", "idle", "stop wifi")
    BY <1>1 DEF EthConnected
  <2> QED
    BY <1>1, <2>1 DEF Goto, StopsWifi
<1>2. CASE EthStopsWifi
  <2>1. Goto("event", "stop wifi", "idle")
    BY <1>2 DEF EthStopsWifi
  <2>2. pc'["event"] = "idle"
    BY <2>1, GotoOwn DEF TypeOK
  <2> QED
    BY <1>2, <2>2 DEF StopsWifi
<1>3. CASE ~EthConnected /\ ~EthStopsWifi
  <2>1. PICK from \in {"idle", "set bits", "retry", "save ssid", "save password"},
             to \in {"idle", "set bits", "retry", "save ssid", "save password"} :
               Goto("event", from, to)
    <3>1. CASE StaDisconnected \/ SavePassword("event")
      BY <3>1 DEF StaDisconnected, SavePassword
    <3>2. CASE ~StaDisconnected /\ ~SavePassword("event")
      BY <1>3, <3>2 DEF EventTask, StaStart, StaGotIp, SetBits, Retry, EthDisconnected,
                        EthGotIp, SaveSsid
    <3> QED
      BY <3>1, <3>2
  <2>2. pc["event"] = from /\ pc'["event"] = to
    BY <2>1, GotoOwn DEF TypeOK
  <2> QED
    BY <1>3, <2>1, <2>2 DEF StopsWifi
<1> QED
  BY <1>1, <1>2, <1>3

\* Only the event task says whether Ethernet is used, and its next statement stops the
\* WiFi driver; no call of the others starts a stopped driver.
LEMMA StepExcludes == TypeOK /\ EthernetExcludesWifi /\ [Next]_vars => EthernetExcludesWifi'
<1> SUFFICES ASSUME TypeOK, EthernetExcludesWifi, [Next]_vars PROVE EthernetExcludesWifi'
  OBVIOUS
<1> USE DEF TypeOK, EthernetExcludesWifi, drivers, config, history
<1>1. CASE World
  BY <1>1 DEF World, ApAccepts, ApLost, Plug, Unplug, LeaseGranted, Untouched, StopsWifi
<1>2. CASE EventTask
  <2>1. CASE EthConnected
    <3>1. StopsWifi'
      BY <2>1, GotoOwn DEF EthConnected, StopsWifi
    <3> QED BY <3>1
  <2>2. CASE EthStopsWifi
    BY <2>2 DEF EthStopsWifi
  <2>3. CASE ~EthConnected /\ ~EthStopsWifi
    <3>1. flags.useEthernet => wifi = "stopped"
      BY <1>2, <2>3, EventSteps
    <3>2. CASE EthDisconnected
      BY <3>2 DEF EthDisconnected, Flags
    <3>3. CASE StaGotIp \/ StaDisconnected \/ EthGotIp
      BY <3>1, <3>3 DEF StaGotIp, StaDisconnected, EthGotIp, Flags
    <3>4. CASE StaStart \/ Retry
      BY <3>1, <3>4 DEF StaStart, Retry, CallConnect
    <3>5. CASE SetBits \/ SaveSsid("event") \/ SavePassword("event")
      BY <3>1, <3>5 DEF SetBits, SaveSsid, SavePassword
    <3> QED BY <1>2, <2>3, <3>2, <3>3, <3>4, <3>5 DEF EventTask
  <2> QED BY <2>1, <2>2, <2>3
<1>3. CASE Executor
  <2>0. StopsWifi' <=> StopsWifi
    BY <1>3, OtherTasks
  <2>1. CASE SetWifiConfig \/ RestartWifi \/ StopWifi
    BY <2>0, <2>1 DEF SetWifiConfig, RestartWifi, StopWifi, CallDisconnect
  <2>2. CASE SetConnect \/ Reconnect \/ StartWifi
    BY <2>0, <2>2 DEF SetConnect, Reconnect, StartWifi, CallConnect
  <2>3. CASE SwitchOff
    BY <2>0, <2>3 DEF SwitchOff, Flags
  <2>4. CASE \/ \E c \in Config : SetSsid(c) \/ SetPassword(c)
             \/ SetConfig \/ WaitConnected \/ SaidOk \/ SwitchOn
    BY <2>0, <2>4 DEF SetSsid, SetPassword, SetConfig, WaitConnected, SaidOk, SwitchOn
  <2>5. CASE Clean("executor")
    BY <2>0, <2>5 DEF Clean, CleanWifiConfig, SaveSsid, SavePassword
  <2> QED BY <1>3, <2>1, <2>2, <2>3, <2>4, <2>5 DEF Executor
<1>4. CASE Clean("gpio")
  <2>1. StopsWifi' <=> StopsWifi
    BY <1>4, OtherTasks
  <2> QED BY <1>4, <2>1 DEF Clean, CleanWifiConfig, SaveSsid, SavePassword
<1>5. CASE Restart
  BY <1>5 DEF Restart, FlagsOff
<1>6. CASE UNCHANGED vars
  BY <1>6 DEF vars, StopsWifi
<1> QED
  BY <1>1, <1>2, <1>3, <1>4, <1>5, <1>6 DEF Next

\* An address that comes before esp_wifi_stop is noted as such.
EarlyNoted == StopsWifi /\ lease = "granted" => early

LEMMA StepEarly == TypeOK /\ EarlyNoted /\ [Next]_vars => EarlyNoted'
<1> SUFFICES ASSUME TypeOK, EarlyNoted, [Next]_vars PROVE EarlyNoted'
  OBVIOUS
<1> USE DEF TypeOK, EarlyNoted, drivers, history
<1>1. CASE World
  BY <1>1 DEF World, ApAccepts, ApLost, Plug, Unplug, LeaseGranted, Untouched, StopsWifi
<1>2. CASE EventTask
  <2>1. CASE EthConnected
    BY <2>1 DEF EthConnected
  <2>2. CASE ~EthConnected
    BY <1>2, <2>2, EventSteps
  <2> QED BY <2>1, <2>2
<1>3. CASE Executor \/ Clean("gpio")
  <2>1. StopsWifi' <=> StopsWifi
    BY <1>3, OtherTasks
  <2>2. UNCHANGED <<lease, early>>
    BY <1>3 DEF Executor, Clean, SetWifiConfig, SetSsid, SetPassword, SetConfig, SetConnect,
                WaitConnected, SaidOk, RestartWifi, Reconnect, StartWifi, SwitchOn, StopWifi,
                SwitchOff, CleanWifiConfig, SaveSsid, SavePassword
  <2> QED BY <2>1, <2>2
<1>4. CASE Restart
  BY <1>4 DEF Restart
<1>5. CASE UNCHANGED vars
  BY <1>5 DEF vars, StopsWifi
<1> QED
  BY <1>1, <1>2, <1>3, <1>4, <1>5 DEF Next

\* User guide 2.3, for any length of the event queue: while Ethernet is used WiFi is
\* stopped, from esp_wifi_stop on, whatever commands and delayed retries do.
THEOREM EthernetExcludes == Spec => []EthernetExcludesWifi
<1>1. Init => EthernetExcludesWifi
  BY DEF Init, EthernetExcludesWifi, FlagsOff
<1> QED BY <1>1, InitType, StepType, StepExcludes, PTL DEF Spec

\* Statements that leave configuration, history of clearing and the savers alone.
LEMMA ClearedFrame ==
    ASSUME ClearedInv, UNCHANGED <<staConfig, nvs, cleaned>>, pc'["gpio"] = pc["gpio"],
           \/ pc'["executor"] = pc["executor"]
           \/ pc["executor"] \notin Saving /\ pc'["executor"] \notin Saving \cup Setting
    PROVE ClearedInv'
BY DEF ClearedInv, Clearing, Saving, Setting

LEMMA PairFields == \A x : Pair(x).ssid = x /\ Pair(x).password = x
  BY DEF Pair

LEMMA SaveCleared ==
    ASSUME TypeOK, ClearedInv, NEW task \in {"event", "executor", "gpio"},
           SaveSsid(task) \/ SavePassword(task)
    PROVE ClearedInv'
<1> USE DEF TypeOK, ClearedInv, history, drivers
<1>3. cleaned # "no" => staConfig.ssid = Cleared /\ staConfig.password = Cleared
  BY PairFields
<1>1. CASE SaveSsid(task)
  <2>1. /\ pc[task] = "save ssid" /\ pc'[task] = "save password"
        /\ \A other \in {"event", "executor", "gpio"} \ {task} : pc'[other] = pc[other]
    BY <1>1, GotoOwn DEF SaveSsid
  <2>2. UNCHANGED <<staConfig, cleaned>> /\ nvs' = [nvs EXCEPT !.ssid = staConfig.ssid]
    BY <1>1 DEF SaveSsid
  <2>3. nvs'.ssid = staConfig.ssid /\ nvs'.password = nvs.password
    BY <2>2 DEF Stored
  <2>4. Clearing(pc)' = Clearing(pc)
    BY <2>1 DEF Clearing, Saving
  <2>5. cleaned # "no" => pc'["executor"] \notin Setting
    BY <2>1 DEF Setting
  <2>6. cleaned = "yes" => nvs' = nvs
    BY <2>2 DEF Stored
  <2>7. cleaned # "no" => nvs'.ssid = Cleared
    BY <1>3, <2>3
  <2> QED BY <2>2, <2>4, <2>5, <2>6, <2>7
<1>2. CASE SavePassword(task)
  <2> DEFINE next == IF task = "event" THEN "set bits" ELSE "idle"
  <2>0. Goto(task, "save password", next)
    BY <1>2 DEF SavePassword
  <2>1. /\ pc[task] = "save password" /\ pc'[task] = next
        /\ \A other \in {"event", "executor", "gpio"} \ {task} : pc'[other] = pc[other]
    <3> HIDE DEF next
    <3> QED BY <2>0, GotoOwn
  <2>2. /\ UNCHANGED staConfig /\ nvs' = [nvs EXCEPT !.password = staConfig.password]
        /\ cleaned' = IF cleaned = "begun" /\ ~Clearing(pc') THEN "yes" ELSE cleaned
    BY <1>2 DEF SavePassword
  <2>3. nvs'.ssid = nvs.ssid /\ nvs'.password = staConfig.password
    BY <2>2 DEF Stored
  <2>4. cleaned' # "no" => cleaned # "no"
    BY <2>2
  <2>5. cleaned' # "no" => staConfig' = Pair(Cleared) /\ pc'["executor"] \notin Setting
    BY <2>1, <2>2, <2>4 DEF Setting
  <2>6. cleaned' = "begun" => cleaned = "begun" /\ Clearing(pc')
    BY <2>2
  <2>7. "save ssid" \notin {pc'["executor"], pc'["gpio"]} =>
          "save ssid" \notin {pc["executor"], pc["gpio"]}
    BY <2>1
  <2>8. cleaned' = "yes" => nvs' = Pair(Cleared) /\ ~Clearing(pc')
    <3>1. CASE cleaned = "yes"
      <4>1. nvs' = nvs
        BY <3>1, <2>2 DEF Stored
      <4>2. ~Clearing(pc')
        BY <3>1, <2>1 DEF Clearing, Saving
      <4> QED BY <3>1, <4>1, <4>2
    <3>2. CASE cleaned = "begun" /\ ~Clearing(pc')
      <4>1. "save ssid" \notin {pc["executor"], pc["gpio"]}
        BY <3>2, <2>7 DEF Clearing, Saving
      <4>2. nvs'.ssid = Cleared /\ nvs'.password = Cleared
        BY <3>2, <4>1, <2>3, <1>3
      <4>3. nvs' = Pair(Cleared)
        BY <4>2, <2>2 DEF Stored, Pair
      <4> QED BY <3>2, <4>3
    <3> QED BY <3>1, <3>2, <2>2
  <2> QED BY <2>3, <2>5, <2>6, <2>7, <2>8
<1> QED BY <1>1, <1>2

LEMMA CleanCleared ==
    ASSUME TypeOK, ClearedInv, NEW task \in {"executor", "gpio"}, CleanWifiConfig(task)
    PROVE ClearedInv'
<1>1. /\ pc[task] = "idle" /\ pc'[task] = "save ssid"
      /\ \A other \in {"event", "executor", "gpio"} \ {task} : pc'[other] = pc[other]
  <2>1. pc \in Pcs /\ task \in {"event", "executor", "gpio"} /\ Goto(task, "idle", "save ssid")
    BY DEF CleanWifiConfig, TypeOK
  <2> QED BY <2>1, GotoOwn
<1>2. /\ staConfig' = Pair(Cleared)
      /\ cleaned' = IF pc["executor"] \in Setting THEN "no" ELSE "begun"
  BY DEF CleanWifiConfig
<1>3. cleaned' # "no" => pc'["executor"] \notin Setting
  BY <1>1, <1>2 DEF Setting
<1>4. Clearing(pc') /\ "save ssid" \in {pc'["executor"], pc'["gpio"]}
  BY <1>1 DEF Clearing, Saving
<1> QED
  BY <1>2, <1>3, <1>4 DEF ClearedInv

LEMMA StepCleared == TypeOK /\ ClearedInv /\ [Next]_vars => ClearedInv'
<1> SUFFICES ASSUME TypeOK, ClearedInv, [Next]_vars PROVE ClearedInv'
  OBVIOUS
<1> USE DEF TypeOK, drivers, config, history
<1>1. CASE World
  BY <1>1, ClearedFrame DEF World, ApAccepts, ApLost, Plug, Unplug, LeaseGranted, Untouched
<1>2. CASE EventTask
  <2>1. CASE \/ StaStart \/ StaGotIp \/ SetBits \/ StaDisconnected \/ Retry
             \/ EthConnected \/ EthStopsWifi \/ EthDisconnected \/ EthGotIp
    <3>1. UNCHANGED <<staConfig, nvs, cleaned>>
      BY <2>1 DEF StaStart, StaGotIp, SetBits, StaDisconnected, Retry, EthConnected,
                  EthStopsWifi, EthDisconnected, EthGotIp
    <3>2. pc'["gpio"] = pc["gpio"] /\ pc'["executor"] = pc["executor"]
      BY <2>1, GotoOwn DEF StaStart, StaGotIp, SetBits, StaDisconnected, Retry, EthConnected,
                           EthStopsWifi, EthDisconnected, EthGotIp
    <3> QED BY <3>1, <3>2, ClearedFrame
  <2> QED BY <1>2, <2>1, SaveCleared DEF EventTask
<1>3. CASE Executor
  <2>1. CASE SetWifiConfig
    BY <2>1 DEF SetWifiConfig, ClearedInv
  <2>2. CASE \E c \in Config : SetSsid(c) \/ SetPassword(c)
    <3>1. pc["executor"] \in Setting /\ cleaned' = cleaned
      BY <2>2 DEF SetSsid, SetPassword, Goto, Setting
    <3> QED BY <3>1 DEF ClearedInv
  <2>3. CASE \/ SetConfig \/ SetConnect \/ WaitConnected \/ SaidOk \/ RestartWifi \/ Reconnect
             \/ StartWifi \/ SwitchOn \/ StopWifi \/ SwitchOff
    <3>1. UNCHANGED <<staConfig, nvs, cleaned>>
      BY <2>3 DEF SetConfig, SetConnect, WaitConnected, SaidOk, RestartWifi, Reconnect,
                  StartWifi, SwitchOn, StopWifi, SwitchOff
    <3>2. PICK from \in {"idle", "set config", "set connect", "wait", "said ok", "reconnect",
                         "switch on", "switch off"},
               to \in {"idle", "set connect", "wait", "said ok", "reconnect", "switch on",
                       "switch off"} : Goto("executor", from, to)
      BY <2>3 DEF SetConfig, SetConnect, WaitConnected, SaidOk, RestartWifi, Reconnect,
                  StartWifi, SwitchOn, StopWifi, SwitchOff, Begin
    <3>3. pc["executor"] = from /\ pc'["executor"] = to /\ pc'["gpio"] = pc["gpio"]
      BY <3>2, GotoOwn
    <3> QED BY <3>1, <3>2, <3>3, ClearedFrame DEF Saving, Setting
  <2> QED BY <1>3, <2>1, <2>2, <2>3, SaveCleared, CleanCleared DEF Executor, Clean
<1>4. CASE Clean("gpio")
  BY <1>4, SaveCleared, CleanCleared DEF Clean
<1>5. CASE Restart
  BY <1>5 DEF Restart, ClearedInv, Idle, Clearing, Saving, Setting
<1>6. CASE UNCHANGED vars
  BY <1>6 DEF vars, ClearedInv, Clearing
<1> QED
  BY <1>1, <1>2, <1>3, <1>4, <1>5, <1>6 DEF Next

\* A configuration that was cleared stays cleared in NVS, whichever task is in the
\* middle of saving, until a client sets one.
THEOREM ClearedForGood == Spec => []ClearedStaysCleared
<1>1. Init => ClearedInv
  BY DEF Init, ClearedInv
<1>2. ClearedInv => ClearedStaysCleared
  BY DEF ClearedInv, ClearedStaysCleared
<1> QED BY <1>1, <1>2, InitType, StepType, StepCleared, PTL DEF Spec
-----------------------------------------------------------------------------
(***************************************************************************)
(* Flags, bits and address, and what the waiting events will make of them. *)
(***************************************************************************)
\* Of the events in S among the first n, the last is g; there are none.
LastIs(q, n, S, g) == \E i \in 1..n : q[i] = g /\ \A j \in (i + 1)..n : q[j] \notin S
NoneOf(q, n, S) == \A i \in 1..n : q[i] \notin S

LEMMA NothingYet == \A q, S, g : ~LastIs(q, 0, S, g) /\ NoneOf(q, 0, S)
  BY DEF LastIs, NoneOf

\* One event or the other, not both.
LEMMA Excluded ==
    ASSUME NEW q, NEW n \in Nat, NEW S, NEW g \in S
    PROVE  ~(LastIs(q, n, S, g) /\ NoneOf(q, n, S))
  BY DEF LastIs, NoneOf

LEMMA PostLast ==
    ASSUME NEW q \in Seq(Event), NEW e \in Event, NEW S, NEW g \in S, NEW r, r = Append(q, e)
    PROVE  /\ LastIs(r, Len(r), S, g) <=> e = g \/ (e \notin S /\ LastIs(q, Len(q), S, g))
           /\ NoneOf(r, Len(r), S) <=> e \notin S /\ NoneOf(q, Len(q), S)
           /\ \A n \in 0..Len(q) : /\ LastIs(r, n, S, g) <=> LastIs(q, n, S, g)
                                   /\ NoneOf(r, n, S) <=> NoneOf(q, n, S)
<1>1. /\ Len(r) = Len(q) + 1 /\ Len(q) \in Nat /\ r[Len(r)] = e
      /\ \A i \in 1..Len(q) : r[i] = q[i]
  OBVIOUS
<1> DEFINE m == Len(q)
<1>2. Len(r) = m + 1 /\ m \in Nat /\ r[m + 1] = e /\ \A i \in 1..m : r[i] = q[i]
  BY <1>1
<1> HIDE DEF m
<1>3. \A n \in 0..m : /\ LastIs(r, n, S, g) <=> LastIs(q, n, S, g)
                      /\ NoneOf(r, n, S) <=> NoneOf(q, n, S)
  <2> SUFFICES ASSUME NEW n \in 0..m
               PROVE  /\ LastIs(r, n, S, g) <=> LastIs(q, n, S, g)
                      /\ NoneOf(r, n, S) <=> NoneOf(q, n, S)
    OBVIOUS
  <2>1. \A i \in 1..n : r[i] = q[i]
    BY <1>2
  <2> QED
    BY <1>2, <2>1 DEF LastIs, NoneOf
<1>4. NoneOf(r, m + 1, S) <=> e \notin S /\ NoneOf(q, m, S)
  BY <1>2 DEF NoneOf
<1>5. ASSUME LastIs(r, m + 1, S, g) PROVE e = g \/ (e \notin S /\ LastIs(q, m, S, g))
  <2>1. PICK i \in 1..(m + 1) : r[i] = g /\ \A j \in (i + 1)..(m + 1) : r[j] \notin S
    BY <1>5 DEF LastIs
  <2>2. CASE i = m + 1
    BY <1>2, <2>1, <2>2
  <2>3. CASE i # m + 1
    BY <1>2, <2>1, <2>3 DEF LastIs
  <2> QED
    BY <2>2, <2>3
<1>6. ASSUME e = g PROVE LastIs(r, m + 1, S, g)
  BY <1>2, <1>6 DEF LastIs
<1>7. ASSUME e \notin S, LastIs(q, m, S, g) PROVE LastIs(r, m + 1, S, g)
  <2>1. PICK i \in 1..m : q[i] = g /\ \A j \in (i + 1)..m : q[j] \notin S
    BY <1>7 DEF LastIs
  <2>2. i \in 1..(m + 1) /\ r[i] = g /\ \A j \in (i + 1)..(m + 1) : r[j] \notin S
    BY <1>2, <1>7, <2>1
  <2> QED
    BY <2>2 DEF LastIs
<1> QED
  BY <1>2, <1>3, <1>4, <1>5, <1>6, <1>7 DEF m

LEMMA TakeLast ==
    ASSUME NEW q \in Seq(Event), q # <<>>, NEW S, NEW g \in S, NEW n \in 1..Len(q)
    PROVE  /\ LastIs(q, n, S, g) <=> \/ LastIs(Tail(q), n - 1, S, g)
                                     \/ Head(q) = g /\ NoneOf(Tail(q), n - 1, S)
           /\ NoneOf(q, n, S) <=> Head(q) \notin S /\ NoneOf(Tail(q), n - 1, S)
<1> DEFINE t == Tail(q)
           h == Head(q)
           m == n - 1
<1>1. m \in Nat /\ n = m + 1 /\ q[1] = h /\ \A i \in 1..m : t[i] = q[i + 1]
  OBVIOUS
<1> HIDE DEF t, h, m
<1>2. NoneOf(q, m + 1, S) <=> h \notin S /\ NoneOf(t, m, S)
  <2>1. ASSUME NoneOf(q, m + 1, S) PROVE h \notin S /\ NoneOf(t, m, S)
    BY <1>1, <2>1 DEF NoneOf
  <2>2. ASSUME h \notin S, NoneOf(t, m, S), NEW i \in 1..(m + 1) PROVE q[i] \notin S
    <3>1. CASE i = 1
      BY <1>1, <2>2, <3>1
    <3>2. CASE i # 1
      <4>1. i - 1 \in 1..m /\ t[i - 1] = q[i]
        BY <1>1, <3>2
      <4> QED
        BY <2>2, <4>1 DEF NoneOf
    <3> QED
      BY <3>1, <3>2
  <2> QED
    BY <2>1, <2>2 DEF NoneOf
<1>3. ASSUME LastIs(q, m + 1, S, g) PROVE LastIs(t, m, S, g) \/ (h = g /\ NoneOf(t, m, S))
  <2>1. PICK i \in 1..(m + 1) : q[i] = g /\ \A j \in (i + 1)..(m + 1) : q[j] \notin S
    BY <1>3 DEF LastIs
  <2>2. \A j \in i..m : t[j] \notin S
    BY <1>1, <2>1
  <2>3. CASE i = 1
    BY <1>1, <2>1, <2>2, <2>3 DEF NoneOf
  <2>4. CASE i # 1
    <3>1. i - 1 \in 1..m /\ t[i - 1] = g /\ \A j \in ((i - 1) + 1)..m : t[j] \notin S
      BY <1>1, <2>1, <2>2, <2>4
    <3> QED
      BY <3>1 DEF LastIs
  <2> QED
    BY <2>3, <2>4
<1>4. ASSUME LastIs(t, m, S, g) PROVE LastIs(q, m + 1, S, g)
  <2>1. PICK i \in 1..m : t[i] = g /\ \A j \in (i + 1)..m : t[j] \notin S
    BY <1>4 DEF LastIs
  <2>2. ASSUME NEW j \in ((i + 1) + 1)..(m + 1) PROVE q[j] \notin S
    <3>1. j - 1 \in (i + 1)..m /\ t[j - 1] = q[j]
      BY <1>1, <2>2
    <3> QED
      BY <2>1, <3>1
  <2>3. i + 1 \in 1..(m + 1) /\ q[i + 1] = g
    BY <1>1, <2>1
  <2> QED
    BY <2>2, <2>3 DEF LastIs
<1>5. ASSUME h = g, NoneOf(t, m, S) PROVE LastIs(q, m + 1, S, g)
  <2>1. ASSUME NEW j \in (1 + 1)..(m + 1) PROVE q[j] \notin S
    <3>1. j - 1 \in 1..m /\ t[j - 1] = q[j]
      BY <1>1, <2>1
    <3> QED
      BY <1>5, <3>1 DEF NoneOf
  <2>2. 1 \in 1..(m + 1) /\ q[1] = g
    BY <1>1, <1>5
  <2> QED
    BY <2>1, <2>2 DEF LastIs
<1> QED
  BY <1>1, <1>2, <1>3, <1>4, <1>5 DEF t, h, m

WifiEvents == {"sta ip", "sta lost"}
CableEvents == {"eth up", "eth down"}
NetEvents == {"eth ip", "sta lost"}
OfEthernet == {"eth down", "eth ip"}  \* what is only said of a cable that was plugged in

WifiUp(q) == LastIs(q, Len(q), WifiEvents, "sta ip")
NoWifi(q) == NoneOf(q, Len(q), WifiEvents)
CableUp(q) == LastIs(q, Len(q), CableEvents, "eth up")
NoCable(q) == NoneOf(q, Len(q), CableEvents)
NetUp(q) == LastIs(q, Len(q), NetEvents, "eth ip")
NoNet(q) == NoneOf(q, Len(q), NetEvents)

\* After the first event of the cable, only what is plugged in is unplugged or gets an
\* address; before it, nothing is unplugged or gets one.
UpFirst(q) == \A i \in 1..Len(q) :
    q[i] \in OfEthernet /\ ~NoneOf(q, i - 1, CableEvents) => LastIs(q, i - 1, CableEvents, "eth up")
NeedsUp(q) == \A i \in 1..Len(q) : q[i] \in OfEthernet => ~NoneOf(q, i - 1, CableEvents)

LEMMA NotBoth == \A q \in Seq(Event) : ~(CableUp(q) /\ NoCable(q)) /\ ~(WifiUp(q) /\ NoWifi(q))
<1>1. \A q \in Seq(Event) : Len(q) \in Nat
  OBVIOUS
<1>2. "eth up" \in CableEvents /\ "sta ip" \in WifiEvents
  BY DEF CableEvents, WifiEvents
<1> QED
  BY <1>1, <1>2, Excluded DEF CableUp, NoCable, WifiUp, NoWifi

LEMMA ConcatOne ==
    ASSUME NEW q \in Seq(Event), NEW e \in Event
    PROVE  q \o <<>> = q /\ q \o <<e>> = Append(q, e)
  OBVIOUS

\* A queue before and after an event is posted.
LEMMA Posted ==
    ASSUME NEW q \in Seq(Event), NEW e \in Event, NEW r, r = Append(q, e)
    PROVE  /\ WifiUp(r) <=> e = "sta ip" \/ (e # "sta lost" /\ WifiUp(q))
           /\ NoWifi(r) <=> e \notin WifiEvents /\ NoWifi(q)
           /\ CableUp(r) <=> e = "eth up" \/ (e # "eth down" /\ CableUp(q))
           /\ NoCable(r) <=> e \notin CableEvents /\ NoCable(q)
           /\ NetUp(r) <=> e = "eth ip" \/ (e # "sta lost" /\ NetUp(q))
           /\ NoNet(r) <=> e \notin NetEvents /\ NoNet(q)
           /\ UpFirst(r) <=> UpFirst(q) /\ (e \in OfEthernet => NoCable(q) \/ CableUp(q))
           /\ NeedsUp(r) <=> NeedsUp(q) /\ (e \in OfEthernet => ~NoCable(q))
<1>1. /\ WifiUp(r) <=> e = "sta ip" \/ (e \notin WifiEvents /\ WifiUp(q))
      /\ NoWifi(r) <=> e \notin WifiEvents /\ NoWifi(q)
  BY PostLast DEF WifiUp, NoWifi, WifiEvents
<1>2. /\ CableUp(r) <=> e = "eth up" \/ (e \notin CableEvents /\ CableUp(q))
      /\ NoCable(r) <=> e \notin CableEvents /\ NoCable(q)
  BY PostLast DEF CableUp, NoCable, CableEvents
<1>3. /\ NetUp(r) <=> e = "eth ip" \/ (e \notin NetEvents /\ NetUp(q))
      /\ NoNet(r) <=> e \notin NetEvents /\ NoNet(q)
  BY PostLast DEF NetUp, NoNet, NetEvents
<1> DEFINE m == Len(q)
<1>4. Len(r) = m + 1 /\ m \in Nat /\ r[m + 1] = e /\ \A i \in 1..m : r[i] = q[i]
  OBVIOUS
<1>5. "eth up" \in CableEvents
  BY DEF CableEvents
<1>6. \A n \in 0..m : /\ LastIs(r, n, CableEvents, "eth up") <=> LastIs(q, n, CableEvents, "eth up")
                      /\ NoneOf(r, n, CableEvents) <=> NoneOf(q, n, CableEvents)
  BY <1>5, PostLast
<1> HIDE DEF m
<1>7. \A i \in 1..m : i - 1 \in 0..m
  BY <1>4
<1>8. (m + 1) - 1 = m /\ m \in 0..m /\ 1..(m + 1) = 1..m \cup {m + 1}
  BY <1>4
<1>9. UpFirst(r) <=> UpFirst(q) /\ (e \in OfEthernet => NoCable(q) \/ CableUp(q))
  <2>1. UpFirst(r) <=>
          /\ \A i \in 1..m : r[i] \in OfEthernet /\ ~NoneOf(r, i - 1, CableEvents)
                               => LastIs(r, i - 1, CableEvents, "eth up")
          /\ e \in OfEthernet /\ ~NoneOf(r, m, CableEvents) => LastIs(r, m, CableEvents, "eth up")
    BY <1>4, <1>8 DEF UpFirst
  <2>2. (\A i \in 1..m : r[i] \in OfEthernet /\ ~NoneOf(r, i - 1, CableEvents)
                               => LastIs(r, i - 1, CableEvents, "eth up")) <=> UpFirst(q)
    BY <1>4, <1>6, <1>7 DEF UpFirst, m
  <2>3. /\ NoneOf(r, m, CableEvents) <=> NoCable(q)
        /\ LastIs(r, m, CableEvents, "eth up") <=> CableUp(q)
    BY <1>6, <1>8 DEF NoCable, CableUp, m
  <2> QED
    BY <2>1, <2>2, <2>3
<1>10. NeedsUp(r) <=> NeedsUp(q) /\ (e \in OfEthernet => ~NoCable(q))
  <2>1. NeedsUp(r) <=> /\ \A i \in 1..m : r[i] \in OfEthernet => ~NoneOf(r, i - 1, CableEvents)
                       /\ e \in OfEthernet => ~NoneOf(r, m, CableEvents)
    BY <1>4, <1>8 DEF NeedsUp
  <2>2. (\A i \in 1..m : r[i] \in OfEthernet => ~NoneOf(r, i - 1, CableEvents)) <=> NeedsUp(q)
    BY <1>4, <1>6, <1>7 DEF NeedsUp, m
  <2>3. NoneOf(r, m, CableEvents) <=> NoCable(q)
    BY <1>6, <1>8 DEF NoCable, m
  <2> QED
    BY <2>1, <2>2, <2>3
<1> QED
  BY <1>1, <1>2, <1>3, <1>9, <1>10 DEF WifiEvents, CableEvents, NetEvents

\* What the station has to say does not concern the cable.
LEMMA StationPosted ==
    ASSUME NEW q \in Seq(Event), NEW e \in {"sta start", "sta ip", "sta lost"},
           NEW r, r = Append(q, e)
    PROVE  /\ CableUp(r) <=> CableUp(q)
           /\ NoCable(r) <=> NoCable(q)
           /\ UpFirst(r) <=> UpFirst(q)
           /\ NeedsUp(r) <=> NeedsUp(q)
           /\ e = "sta ip" => /\ WifiUp(r) /\ ~NoWifi(r)
                              /\ (NetUp(r) <=> NetUp(q)) /\ (NoNet(r) <=> NoNet(q))
           /\ e = "sta lost" => ~WifiUp(r) /\ ~NoWifi(r)
           /\ e = "sta start" => (WifiUp(r) <=> WifiUp(q)) /\ (NoWifi(r) <=> NoWifi(q))
<1>1. e \in Event /\ e \notin CableEvents /\ e \notin OfEthernet
  BY DEF Event, CableEvents, OfEthernet
<1>2. e \in WifiEvents <=> e # "sta start"
  BY DEF WifiEvents
<1>3. e \in NetEvents <=> e = "sta lost"
  BY DEF NetEvents
<1>4. /\ WifiUp(r) <=> e = "sta ip" \/ (e # "sta lost" /\ WifiUp(q))
      /\ NoWifi(r) <=> e \notin WifiEvents /\ NoWifi(q)
      /\ CableUp(r) <=> e = "eth up" \/ (e # "eth down" /\ CableUp(q))
      /\ NoCable(r) <=> e \notin CableEvents /\ NoCable(q)
  BY <1>1, Posted
<1>5. /\ NetUp(r) <=> e = "eth ip" \/ (e # "sta lost" /\ NetUp(q))
      /\ NoNet(r) <=> e \notin NetEvents /\ NoNet(q)
      /\ UpFirst(r) <=> UpFirst(q) /\ (e \in OfEthernet => NoCable(q) \/ CableUp(q))
      /\ NeedsUp(r) <=> NeedsUp(q) /\ (e \in OfEthernet => ~NoCable(q))
  BY <1>1, Posted
<1> QED
  BY <1>1, <1>2, <1>3, <1>4, <1>5

\* A queue before and after its first event is taken.
LEMMA Taken ==
    ASSUME NEW q \in Seq(Event), q # <<>>, NEW h, h = Head(q), NEW t, t = Tail(q)
    PROVE  /\ t \in Seq(Event) /\ h \in Event
           /\ WifiUp(q) <=> WifiUp(t) \/ (h = "sta ip" /\ NoWifi(t))
           /\ NoWifi(q) <=> h \notin WifiEvents /\ NoWifi(t)
           /\ CableUp(q) <=> CableUp(t) \/ (h = "eth up" /\ NoCable(t))
           /\ NoCable(q) <=> h \notin CableEvents /\ NoCable(t)
           /\ NetUp(q) <=> NetUp(t) \/ (h = "eth ip" /\ NoNet(t))
           /\ NoNet(q) <=> h \notin NetEvents /\ NoNet(t)
           /\ UpFirst(q) => UpFirst(t)
           /\ h = "eth down" /\ UpFirst(q) => NeedsUp(t)
           /\ h \notin CableEvents /\ NeedsUp(q) => NeedsUp(t)
           /\ h \in OfEthernet => ~NeedsUp(q)
<1> DEFINE n == Len(t)
<1>1. /\ t \in Seq(Event) /\ h \in Event /\ n \in Nat /\ Len(q) = n + 1 /\ q[1] = h
      /\ \A i \in 1..n : t[i] = q[i + 1]
  OBVIOUS
<1>2. ASSUME NEW S, NEW g \in S
      PROVE  /\ LastIs(q, Len(q), S, g) <=> LastIs(t, Len(t), S, g) \/ (h = g /\ NoneOf(t, Len(t), S))
             /\ NoneOf(q, Len(q), S) <=> h \notin S /\ NoneOf(t, Len(t), S)
  <2>1. Len(q) \in 1..Len(q) /\ Len(q) - 1 = Len(t)
    BY <1>1
  <2>2. /\ LastIs(q, Len(q), S, g) <=> \/ LastIs(t, Len(q) - 1, S, g)
                                       \/ h = g /\ NoneOf(t, Len(q) - 1, S)
        /\ NoneOf(q, Len(q), S) <=> h \notin S /\ NoneOf(t, Len(q) - 1, S)
    BY <2>1, TakeLast
  <2> QED
    BY <2>1, <2>2
<1>3. /\ WifiUp(q) <=> WifiUp(t) \/ (h = "sta ip" /\ NoWifi(t))
      /\ NoWifi(q) <=> h \notin WifiEvents /\ NoWifi(t)
  <2>1. "sta ip" \in WifiEvents
    BY DEF WifiEvents
  <2> QED
    BY <1>2, <2>1 DEF WifiUp, NoWifi
<1>4. /\ CableUp(q) <=> CableUp(t) \/ (h = "eth up" /\ NoCable(t))
      /\ NoCable(q) <=> h \notin CableEvents /\ NoCable(t)
  <2>1. "eth up" \in CableEvents
    BY DEF CableEvents
  <2> QED
    BY <1>2, <2>1 DEF CableUp, NoCable
<1>5. /\ NetUp(q) <=> NetUp(t) \/ (h = "eth ip" /\ NoNet(t))
      /\ NoNet(q) <=> h \notin NetEvents /\ NoNet(t)
  <2>1. "eth ip" \in NetEvents
    BY DEF NetEvents
  <2> QED
    BY <1>2, <2>1 DEF NetUp, NoNet
<1>6. \A k \in 1..Len(q) :
        /\ LastIs(q, k, CableEvents, "eth up") <=> \/ LastIs(t, k - 1, CableEvents, "eth up")
                                                   \/ h = "eth up" /\ NoneOf(t, k - 1, CableEvents)
        /\ NoneOf(q, k, CableEvents) <=> h \notin CableEvents /\ NoneOf(t, k - 1, CableEvents)
  <2>1. "eth up" \in CableEvents
    BY DEF CableEvents
  <2> QED
    BY <2>1, TakeLast
<1> HIDE DEF n
<1>7. \A i \in 1..n : i \in 1..Len(q) /\ i + 1 \in 1..Len(q) /\ (i + 1) - 1 = i
  BY <1>1
<1>8. ASSUME UpFirst(q), NEW i \in 1..n, t[i] \in OfEthernet
      PROVE  /\ ~NoneOf(t, i - 1, CableEvents) => LastIs(t, i - 1, CableEvents, "eth up")
             /\ h = "eth down" => ~NoneOf(t, i - 1, CableEvents)
  <2>1. q[i + 1] \in OfEthernet
    BY <1>1, <1>8
  <2>2. ~NoneOf(q, i, CableEvents) => LastIs(q, i, CableEvents, "eth up")
    BY <1>7, <1>8, <2>1 DEF UpFirst
  <2>3. /\ LastIs(q, i, CableEvents, "eth up") <=> \/ LastIs(t, i - 1, CableEvents, "eth up")
                                                   \/ h = "eth up" /\ NoneOf(t, i - 1, CableEvents)
        /\ NoneOf(q, i, CableEvents) <=> h \notin CableEvents /\ NoneOf(t, i - 1, CableEvents)
    BY <1>6, <1>7
  <2>4. i - 1 \in Nat
    BY <1>1
  <2>5. ~(LastIs(t, i - 1, CableEvents, "eth up") /\ NoneOf(t, i - 1, CableEvents))
    BY <2>4, Excluded DEF CableEvents
  <2> QED
    BY <2>2, <2>3, <2>5 DEF CableEvents
<1>9. UpFirst(q) => UpFirst(t)
  BY <1>8 DEF UpFirst, n
<1>10. h = "eth down" /\ UpFirst(q) => NeedsUp(t)
  BY <1>8 DEF NeedsUp, n
<1>11. ASSUME h \notin CableEvents, NeedsUp(q), NEW i \in 1..n, t[i] \in OfEthernet
       PROVE  ~NoneOf(t, i - 1, CableEvents)
  <2>1. q[i + 1] \in OfEthernet
    BY <1>1, <1>11
  <2>2. ~NoneOf(q, i, CableEvents)
    BY <1>7, <1>11, <2>1 DEF NeedsUp
  <2> QED
    BY <1>6, <1>7, <1>11, <2>2
<1>12. h \notin CableEvents /\ NeedsUp(q) => NeedsUp(t)
  BY <1>11 DEF NeedsUp, n
<1>13. ASSUME h \in OfEthernet, NeedsUp(q) PROVE FALSE
  <2>1. 1 \in 1..Len(q) /\ 1 - 1 = 0 /\ q[1] = h
    BY <1>1
  <2>2. ~NoneOf(q, 0, CableEvents)
    BY <1>13, <2>1 DEF NeedsUp
  <2> QED
    BY <2>2, NothingYet
<1> QED
  BY <1>1, <1>3, <1>4, <1>5, <1>9, <1>10, <1>12, <1>13

\* The handler of a new address is between its flags and its bits.
Busy == pc["event"] \in Saving \cup {"set bits"}

\* The last event of the station says whether it is up, or the bit does.
WifiTold == WifiUp(events) \/ (NoWifi(events) /\ (bits.wifi \/ Busy)) <=> wifi = "up"
\* The last event of the cable says whether it is plugged in, or the flag does; and
\* the events say so in an order that is possible.
CableTold == /\ CableUp(events) \/ (NoCable(events) /\ flags.useEthernet) <=> cable
             /\ UpFirst(events) /\ (NeedsUp(events) \/ flags.useEthernet)
\* An address is known, or will be.
NetTold == /\ wifi = "up" /\ NoWifi(events) => flags.network
           /\ lease = "granted" /\ ~early => NetUp(events) \/ (NoNet(events) /\ flags.network)
\* What agrees at any moment, whatever waits.
Agree == /\ Busy => flags.network
         /\ ~Busy => (bits.network <=> flags.network)
         /\ flags.network <=> flags.ip # "none"
         /\ flags.ip = "wifi" \/ flags.wifi => bits.wifi \/ Busy
         /\ flags.ip = "eth" \/ flags.ethernet \/ lease # "none" => flags.useEthernet

Truth == WifiTold /\ CableTold /\ NetTold /\ Agree /\ EthernetExcludesWifi /\ EarlyNoted

\* Steps that concern neither the queue nor what it is about.
LEMMA SameTruth ==
    ASSUME TypeOK, Truth, EthernetExcludesWifi', EarlyNoted', UNCHANGED <<events, cable, lease, early, bits>>,
           wifi' = "up" <=> wifi = "up", Busy' <=> Busy,
           flags' = flags \/ flags' = [flags EXCEPT !.wifi = FALSE]
    PROVE  Truth'
<1>1. /\ flags'.network = flags.network /\ flags'.ethernet = flags.ethernet
      /\ flags'.useEthernet = flags.useEthernet /\ flags'.ip = flags.ip
      /\ flags'.wifi => flags.wifi
  BY DEF TypeOK, Flags
<1>2. WifiTold'
  BY DEF Truth, WifiTold
<1>3. CableTold'
  BY <1>1 DEF Truth, CableTold
<1>4. NetTold'
  BY <1>1 DEF Truth, NetTold
<1>5. Agree'
  BY <1>1 DEF Truth, Agree
<1> QED
  BY <1>2, <1>3, <1>4, <1>5 DEF Truth

\* The station is disconnected or stopped, by whomever: its loss is posted.
LEMMA LossTruth ==
    ASSUME TypeOK, Truth, EthernetExcludesWifi', EarlyNoted', UNCHANGED <<cable, lease, early, flags, bits>>,
           wifi' # "up", Busy' <=> Busy,
           \/ wifi # "up" /\ events' = events
           \/ wifi # "stopped" /\ events' = Append(events, "sta lost")
    PROVE  Truth'
<1>1. CASE wifi # "up" /\ events' = events
  BY <1>1, SameTruth
<1>2. CASE wifi # "stopped" /\ events' = Append(events, "sta lost")
  <2>1. events \in Seq(Event)
    BY DEF TypeOK
  <2>2. /\ ~WifiUp(events') /\ ~NoWifi(events')
        /\ CableUp(events') <=> CableUp(events)
        /\ NoCable(events') <=> NoCable(events)
        /\ UpFirst(events') <=> UpFirst(events)
        /\ NeedsUp(events') <=> NeedsUp(events)
    BY <1>2, <2>1, StationPosted
  <2>3. WifiTold'
    BY <2>2 DEF WifiTold
  <2>4. CableTold'
    BY <2>2 DEF Truth, CableTold
  <2>5. lease = "granted" => early
    BY <1>2 DEF Truth, Agree, EthernetExcludesWifi, EarlyNoted
  <2>6. NetTold'
    BY <2>2, <2>5 DEF NetTold
  <2>7. Agree'
    BY DEF Truth, Agree
  <2> QED
    BY <2>3, <2>4, <2>6, <2>7 DEF Truth
<1> QED
  BY <1>1, <1>2

\* The world.
LEMMA WorldTruth ==
    ASSUME TypeOK, Truth, World, EthernetExcludesWifi', EarlyNoted' PROVE Truth'
<1>1. UNCHANGED <<flags, bits, pc>> /\ (Busy' <=> Busy)
  BY DEF World, ApAccepts, ApLost, Plug, Unplug, LeaseGranted, Untouched, Busy
<1>2. events \in Seq(Event) /\ Event = {"sta start", "sta ip", "sta lost", "eth up", "eth down", "eth ip"}
  BY DEF TypeOK, Event
<1>3. Agree /\ (Agree' <=> (lease' # "none" => flags.useEthernet))
  BY <1>1 DEF Truth, Agree
<1>4. CASE ApAccepts
  <2>1. /\ wifi' = "up" /\ UNCHANGED <<cable, lease, early>> /\ events' = Append(events, "sta ip")
    BY <1>4 DEF ApAccepts, Post
  <2>2. /\ WifiUp(events') /\ ~NoWifi(events')
        /\ CableUp(events') <=> CableUp(events)
        /\ NoCable(events') <=> NoCable(events)
        /\ NetUp(events') <=> NetUp(events)
        /\ NoNet(events') <=> NoNet(events)
        /\ UpFirst(events') <=> UpFirst(events)
        /\ NeedsUp(events') <=> NeedsUp(events)
    BY <1>2, <2>1, StationPosted
  <2>3. WifiTold'
    BY <2>1, <2>2 DEF WifiTold
  <2>4. CableTold'
    BY <1>1, <2>1, <2>2 DEF Truth, CableTold
  <2>5. NetTold'
    BY <1>1, <2>1, <2>2 DEF Truth, NetTold
  <2> QED
    BY <1>3, <2>1, <2>3, <2>4, <2>5 DEF Truth, Agree
<1>5. CASE ApLost
  BY <1>1, <1>5, LossTruth DEF ApLost, Post
<1>6. CASE Plug
  <2>1. /\ ~cable /\ cable' /\ UNCHANGED <<wifi, lease, early>> /\ events' = Append(events, "eth up")
    BY <1>6 DEF Plug, Post
  <2>2. /\ CableUp(events')
        /\ WifiUp(events') <=> WifiUp(events)
        /\ NoWifi(events') <=> NoWifi(events)
        /\ NetUp(events') <=> NetUp(events)
        /\ NoNet(events') <=> NoNet(events)
        /\ UpFirst(events') <=> UpFirst(events)
        /\ NeedsUp(events') <=> NeedsUp(events)
    BY <1>2, <2>1, Posted DEF WifiEvents, CableEvents, NetEvents, OfEthernet
  <2>3. WifiTold'
    BY <1>1, <2>1, <2>2 DEF Truth, WifiTold
  <2>4. CableTold'
    BY <1>1, <2>1, <2>2 DEF Truth, CableTold
  <2>5. NetTold'
    BY <1>1, <2>1, <2>2 DEF Truth, NetTold
  <2> QED
    BY <1>3, <2>1, <2>3, <2>4, <2>5 DEF Truth, Agree
<1>7. CASE Unplug
  <2>1. /\ cable /\ ~cable' /\ lease' = "none" /\ wifi' = wifi /\ events' = Append(events, "eth down")
    BY <1>7 DEF Unplug, Post
  <2>2. /\ ~CableUp(events') /\ ~NoCable(events')
        /\ WifiUp(events') <=> WifiUp(events)
        /\ NoWifi(events') <=> NoWifi(events)
        /\ UpFirst(events') <=> UpFirst(events) /\ (NoCable(events) \/ CableUp(events))
        /\ NeedsUp(events') <=> NeedsUp(events) /\ ~NoCable(events)
        /\ ~(CableUp(events) /\ NoCable(events))
    BY <1>2, <2>1, Posted, NotBoth DEF WifiEvents, CableEvents, NetEvents, OfEthernet
  <2>3. WifiTold'
    BY <1>1, <2>1, <2>2 DEF Truth, WifiTold
  <2>4. CableTold'
    BY <1>1, <2>1, <2>2 DEF Truth, CableTold
  <2>5. NetTold'
    BY <1>1, <2>1, <2>2 DEF Truth, NetTold
  <2> QED
    BY <1>3, <2>1, <2>3, <2>4, <2>5 DEF Truth
<1>8. CASE LeaseGranted
  <2>1. /\ cable /\ lease = "asked" /\ UNCHANGED <<cable, wifi>> /\ events' = Append(events, "eth ip")
    BY <1>8 DEF LeaseGranted, Post
  <2>2. /\ NetUp(events')
        /\ WifiUp(events') <=> WifiUp(events)
        /\ NoWifi(events') <=> NoWifi(events)
        /\ CableUp(events') <=> CableUp(events)
        /\ NoCable(events') <=> NoCable(events)
        /\ UpFirst(events') <=> UpFirst(events) /\ (NoCable(events) \/ CableUp(events))
        /\ NeedsUp(events') <=> NeedsUp(events) /\ ~NoCable(events)
        /\ ~(CableUp(events) /\ NoCable(events))
    BY <1>2, <2>1, Posted, NotBoth DEF WifiEvents, CableEvents, NetEvents, OfEthernet
  <2>3. WifiTold'
    BY <1>1, <2>1, <2>2 DEF Truth, WifiTold
  <2>4. CableTold'
    BY <1>1, <2>1, <2>2 DEF Truth, CableTold
  <2>5. NetTold'
    BY <1>1, <2>1, <2>2 DEF Truth, NetTold
  <2> QED
    BY <1>3, <2>1, <2>3, <2>4, <2>5 DEF Truth, Agree
<1> QED
  BY <1>4, <1>5, <1>6, <1>7, <1>8 DEF World

\* The event task.
LEMMA NextOfEvent ==
    ASSUME TypeOK, NEW from, NEW to \in {"idle", "retry", "set bits", "stop wifi"} \cup Saving,
           Goto("event", from, to)
    PROVE  /\ Busy <=> from \in Saving \cup {"set bits"}
           /\ Busy' <=> to \in Saving \cup {"set bits"}
<1>1. pc["event"] = from /\ pc'["event"] = to
  BY GotoOwn DEF TypeOK
<1> QED
  BY <1>1 DEF Busy

LEMMA StationTruth ==
    ASSUME TypeOK, Truth, StaStart \/ StaGotIp \/ SetBits \/ StaDisconnected \/ Retry,
           EthernetExcludesWifi', EarlyNoted'
    PROVE  Truth'
<1>1. /\ events # <<>> => Popped \in Seq(Event)
      /\ flags \in Flags /\ bits \in Bits /\ Saving = {"save ssid", "save password"}
  BY QueueTypes DEF TypeOK, Saving
<1>2. CASE Retry
  <2>1. (Busy' <=> Busy) /\ UNCHANGED <<events, cable, lease, early, flags, bits>>
    <3>1. Goto("event", "retry", "idle") /\ UNCHANGED <<events, cable, lease, early, flags, bits>>
      BY <1>2 DEF Retry, history
    <3>2. (Busy <=> "retry" \in Saving \cup {"set bits"}) /\ (Busy' <=> "idle" \in Saving \cup {"set bits"})
      BY <1>1, <3>1, NextOfEvent
    <3>3. Busy' <=> Busy
      BY <1>1, <3>2
    <3> QED
      BY <3>1, <3>3
  <2>2. wifi' = "up" <=> wifi = "up"
    BY <1>2 DEF Retry, CallConnect
  <2> QED
    BY <2>1, <2>2, SameTruth
<1>3. CASE StaStart
  <2>1. (Busy' <=> Busy) /\ UNCHANGED <<cable, lease, early, flags, bits>>
    <3>1. Goto("event", "idle", "idle") /\ UNCHANGED <<cable, lease, early, flags, bits>>
      BY <1>3 DEF StaStart, history
    <3>2. (Busy <=> "idle" \in Saving \cup {"set bits"}) /\ (Busy' <=> "idle" \in Saving \cup {"set bits"})
      BY <1>1, <3>1, NextOfEvent
    <3>3. Busy' <=> Busy
      BY <1>1, <3>2
    <3> QED
      BY <3>1, <3>3
  <2>2. wifi' = "up" <=> wifi = "up"
    BY <1>3 DEF StaStart, CallConnect
  <2>3. /\ events' = Tail(events) /\ Head(events) = "sta start" /\ events # <<>>
    BY <1>3 DEF StaStart, Take, Popped
  <2>4. /\ WifiUp(events') <=> WifiUp(events)
        /\ NoWifi(events') <=> NoWifi(events)
        /\ CableUp(events') <=> CableUp(events)
        /\ NoCable(events') <=> NoCable(events)
        /\ NetUp(events') <=> NetUp(events)
        /\ NoNet(events') <=> NoNet(events)
        /\ UpFirst(events) => UpFirst(events')
        /\ NeedsUp(events) => NeedsUp(events')
    BY <2>3, Taken DEF TypeOK, WifiEvents, CableEvents, NetEvents
  <2>5. WifiTold' /\ CableTold'
    BY <2>1, <2>2, <2>4 DEF Truth, WifiTold, CableTold
  <2>6. NetTold' /\ Agree'
    BY <2>1, <2>2, <2>4 DEF Truth, NetTold, Agree
  <2> QED
    BY <2>5, <2>6 DEF Truth
<1>4. CASE StaGotIp
  <2>1. ~Busy /\ Busy' /\ UNCHANGED <<cable, lease, early, wifi, bits>>
    <3>1. Goto("event", "idle", "save ssid") /\ UNCHANGED <<cable, lease, early, wifi, bits>>
      BY <1>4 DEF StaGotIp, drivers, history
    <3>2. (Busy <=> "idle" \in Saving \cup {"set bits"}) /\ (Busy' <=> "save ssid" \in Saving \cup {"set bits"})
      BY <1>1, <3>1, NextOfEvent
    <3>3. ~Busy /\ Busy'
      BY <1>1, <3>2
    <3> QED
      BY <3>1, <3>3
  <2>2. /\ flags'.network /\ flags'.wifi /\ flags'.ip = "wifi"
        /\ flags'.useEthernet = flags.useEthernet /\ flags'.ethernet = flags.ethernet
    BY <1>1, <1>4 DEF StaGotIp, Flags
  <2>3. /\ events' = Tail(events) /\ Head(events) = "sta ip" /\ events # <<>>
    BY <1>4 DEF StaGotIp, Take, Popped
  <2>4. /\ WifiUp(events) <=> WifiUp(events') \/ NoWifi(events')
        /\ ~NoWifi(events)
        /\ CableUp(events') <=> CableUp(events)
        /\ NoCable(events') <=> NoCable(events)
        /\ NetUp(events') <=> NetUp(events)
        /\ NoNet(events') <=> NoNet(events)
        /\ UpFirst(events) => UpFirst(events')
        /\ NeedsUp(events) => NeedsUp(events')
    BY <2>3, Taken DEF TypeOK, WifiEvents, CableEvents, NetEvents
  <2>5. WifiTold' /\ CableTold'
    BY <2>1, <2>2, <2>4 DEF Truth, WifiTold, CableTold
  <2>6. NetTold' /\ Agree'
    BY <2>1, <2>2, <2>4 DEF Truth, NetTold, Agree
  <2> QED
    BY <2>5, <2>6 DEF Truth
<1>5. CASE SetBits
  <2>1. Busy /\ ~Busy' /\ UNCHANGED <<events, cable, lease, early, wifi, flags>>
    <3>1. Goto("event", "set bits", "idle") /\ UNCHANGED <<events, cable, lease, early, wifi, flags>>
      BY <1>5 DEF SetBits, drivers, history
    <3>2. (Busy <=> "set bits" \in Saving \cup {"set bits"}) /\ (Busy' <=> "idle" \in Saving \cup {"set bits"})
      BY <1>1, <3>1, NextOfEvent
    <3>3. Busy /\ ~Busy'
      BY <1>1, <3>2
    <3> QED
      BY <3>1, <3>3
  <2>2. bits'.network /\ bits'.wifi
    BY <1>5 DEF SetBits
  <2>3. WifiTold' /\ CableTold'
    BY <2>1, <2>2 DEF Truth, WifiTold, CableTold
  <2>4. NetTold' /\ Agree'
    BY <2>1, <2>2 DEF Truth, NetTold, Agree
  <2> QED
    BY <2>3, <2>4 DEF Truth
<1>6. CASE StaDisconnected
  <2>1. UNCHANGED <<cable, lease, early, wifi>> /\ ~bits'.network /\ ~bits'.wifi
    BY <1>6 DEF StaDisconnected, drivers, history, BitsOff
  <2>a. ~Busy /\ ~Busy'
    <3>1. PICK to \in {"retry", "idle"} : Goto("event", "idle", to)
      BY <1>6 DEF StaDisconnected
    <3> QED
      BY <1>1, <3>1, NextOfEvent
  <2>2. /\ ~flags'.network /\ ~flags'.wifi /\ flags'.ip = "none"
        /\ flags'.useEthernet = flags.useEthernet /\ flags'.ethernet = flags.ethernet
    BY <1>1, <1>6 DEF StaDisconnected, Flags
  <2>3. /\ events' = Tail(events) /\ Head(events) = "sta lost" /\ events # <<>>
    BY <1>6 DEF StaDisconnected, Take, Popped
  <2>4. /\ WifiUp(events) <=> WifiUp(events')
        /\ ~NoWifi(events) /\ ~NoNet(events)
        /\ CableUp(events') <=> CableUp(events)
        /\ NoCable(events') <=> NoCable(events)
        /\ NetUp(events') <=> NetUp(events)
        /\ UpFirst(events) => UpFirst(events')
        /\ NeedsUp(events) => NeedsUp(events')
        /\ ~(WifiUp(events') /\ NoWifi(events'))
    BY <2>3, Taken, NotBoth DEF TypeOK, WifiEvents, CableEvents, NetEvents
  <2>5. WifiTold' /\ CableTold'
    BY <2>1, <2>a, <2>2, <2>4 DEF Truth, WifiTold, CableTold
  <2>6. NetTold' /\ Agree'
    BY <2>1, <2>a, <2>2, <2>4 DEF Truth, NetTold, WifiTold, Agree
  <2> QED
    BY <2>5, <2>6 DEF Truth
<1> QED
  BY <1>2, <1>3, <1>4, <1>5, <1>6

LEMMA CableTruth ==
    ASSUME TypeOK, Truth, EthConnected \/ EthDisconnected \/ EthGotIp, EthernetExcludesWifi', EarlyNoted'
    PROVE  Truth'
<1>1. flags \in Flags /\ bits \in Bits /\ events \in Seq(Event)
      /\ Event = {"sta start", "sta ip", "sta lost", "eth up", "eth down", "eth ip"}
  BY DEF TypeOK, Event
<1>2. ~Busy /\ ~Busy' /\ ~StopsWifi
  <2>1. PICK to \in {"idle", "stop wifi"} : Goto("event", "idle", to)
    BY DEF EthConnected, EthDisconnected, EthGotIp
  <2>2. {"idle", "stop wifi"} \cap (Saving \cup {"set bits"}) = {}
    BY DEF Saving
  <2>3. pc["event"] = "idle"
    BY <2>1 DEF Goto
  <2> QED
    BY <2>1, <2>2, <2>3, NextOfEvent DEF StopsWifi
<1> DEFINE h == Head(events)
           q == Tail(events)
<1>3. /\ events # <<>> /\ q \in Seq(Event) /\ h \in Event
      /\ WifiUp(events) <=> WifiUp(q) \/ (h = "sta ip" /\ NoWifi(q))
      /\ NoWifi(events) <=> h \notin WifiEvents /\ NoWifi(q)
      /\ CableUp(events) <=> CableUp(q) \/ (h = "eth up" /\ NoCable(q))
      /\ NoCable(events) <=> h \notin CableEvents /\ NoCable(q)
      /\ NetUp(events) <=> NetUp(q) \/ (h = "eth ip" /\ NoNet(q))
      /\ NoNet(events) <=> h \notin NetEvents /\ NoNet(q)
      /\ UpFirst(events) => UpFirst(q)
      /\ h = "eth down" /\ UpFirst(events) => NeedsUp(q)
      /\ h \notin CableEvents /\ NeedsUp(events) => NeedsUp(q)
      /\ h \in OfEthernet => ~NeedsUp(events)
      /\ ~(CableUp(q) /\ NoCable(q)) /\ ~(WifiUp(q) /\ NoWifi(q))
  <2>1. events # <<>>
    BY DEF EthConnected, EthDisconnected, EthGotIp, Take
  <2>2. q \in Seq(Event)
    BY <1>1, <2>1, Taken
  <2> QED
    BY <1>1, <2>1, <2>2, Taken, NotBoth
<1>4. CASE EthConnected
  <2>1. /\ h = "eth up" /\ lease' = "asked" /\ events' = q /\ UNCHANGED <<wifi, cable, bits>>
    BY <1>4 DEF EthConnected, Take, Popped
  <2>2. /\ flags'.useEthernet /\ ~flags'.wifi /\ flags'.network = flags.network
        /\ flags'.ip = flags.ip /\ flags'.ethernet = flags.ethernet
    BY <1>1, <1>4 DEF EthConnected, Flags
  <2> HIDE DEF h, q
  <2>3. WifiTold'
    BY <1>2, <1>3, <2>1 DEF Truth, WifiTold, WifiEvents
  <2>4. CableTold'
    BY <1>3, <2>1, <2>2 DEF Truth, CableTold
  <2>5. NetTold'
    BY <1>3, <2>1, <2>2 DEF Truth, NetTold, WifiEvents
  <2>6. Agree'
    BY <1>2, <2>1, <2>2 DEF Truth, Agree
  <2> QED
    BY <2>3, <2>4, <2>5, <2>6 DEF Truth
<1>5. CASE EthDisconnected
  <2>1. /\ h = "eth down" /\ wifi' = (IF wifi = "stopped" THEN "idle" ELSE wifi) /\ lease' = "none"
        /\ cable' = cable
        /\ events' = q \o (IF wifi = "stopped" THEN <<"sta start">> ELSE <<>>)
    BY <1>5 DEF EthDisconnected, Take, Popped
  <2>2. /\ ~flags'.useEthernet /\ flags'.wifi = flags.wifi /\ ~flags'.network
        /\ flags'.ip = "none" /\ ~flags'.ethernet
        /\ ~bits'.network /\ bits'.wifi = bits.wifi
    BY <1>1, <1>5 DEF EthDisconnected, Flags, Bits
  <2>3. events' = q \/ events' = Append(q, "sta start")
    <3>1. q \o <<>> = q /\ q \o <<"sta start">> = Append(q, "sta start")
      BY <1>1, <1>3, ConcatOne
    <3> QED
      BY <2>1, <3>1
  <2> HIDE DEF h, q
  <2>4. /\ CableUp(events') <=> CableUp(q)
        /\ NoCable(events') <=> NoCable(q)
        /\ UpFirst(events') <=> UpFirst(q)
        /\ NeedsUp(events') <=> NeedsUp(q)
        /\ WifiUp(events') <=> WifiUp(q)
        /\ NoWifi(events') <=> NoWifi(q)
    <3>1. CASE events' = q
      BY <3>1
    <3>2. CASE events' = Append(q, "sta start")
      <4>1. q \in Seq(Event)
        BY <1>3
      <4> QED
        BY <3>2, <4>1, StationPosted
    <3> QED
      BY <2>3, <3>1, <3>2
  <2>5. flags.useEthernet /\ wifi = "stopped"
    BY <1>2, <1>3, <2>1 DEF Truth, CableTold, EthernetExcludesWifi, OfEthernet
  <2>6. WifiTold'
    BY <1>2, <1>3, <2>1, <2>2, <2>4, <2>5 DEF Truth, WifiTold, WifiEvents
  <2>7. CableTold'
    BY <1>3, <2>1, <2>2, <2>4 DEF Truth, CableTold, CableEvents
  <2>8. NetTold'
    BY <2>1, <2>5 DEF NetTold
  <2>9. Agree'
    BY <1>2, <2>1, <2>2 DEF Truth, Agree
  <2> QED
    BY <2>6, <2>7, <2>8, <2>9 DEF Truth
<1>6. CASE EthGotIp
  <2>1. h = "eth ip" /\ events' = q /\ UNCHANGED <<wifi, lease, cable, early>>
    BY <1>6 DEF EthGotIp, Take, Popped, drivers, history
  <2>2. /\ flags'.useEthernet = flags.useEthernet /\ flags'.wifi = flags.wifi /\ flags'.network
        /\ flags'.ip = "eth" /\ flags'.ethernet
        /\ bits'.network /\ bits'.wifi = bits.wifi
    BY <1>1, <1>6 DEF EthGotIp, Flags, Bits
  <2> HIDE DEF h, q
  <2>3. flags.useEthernet
    BY <1>3, <2>1 DEF Truth, CableTold, OfEthernet
  <2>4. WifiTold'
    BY <1>2, <1>3, <2>1, <2>2 DEF Truth, WifiTold, WifiEvents
  <2>5. CableTold'
    BY <1>3, <2>1, <2>2, <2>3 DEF Truth, CableTold, CableEvents
  <2>6. NetTold'
    BY <1>3, <2>1, <2>2 DEF Truth, NetTold, WifiEvents
  <2>7. Agree'
    BY <1>2, <2>1, <2>2, <2>3 DEF Truth, Agree
  <2> QED
    BY <2>4, <2>5, <2>6, <2>7 DEF Truth
<1> QED
  BY <1>4, <1>5, <1>6

\* esp_wifi_stop.
LEMMA StopTruth ==
    ASSUME TypeOK, Truth, EthStopsWifi, EthernetExcludesWifi', EarlyNoted' PROVE Truth'
<1>1. UNCHANGED <<cable, lease, early, flags, bits>> /\ wifi' = "stopped"
      /\ Goto("event", "stop wifi", "idle") /\ events' = events \o LossFor(wifi)
  BY DEF EthStopsWifi, history
<1>2. Busy' <=> Busy
  <2>1. {"idle", "stop wifi"} \cap (Saving \cup {"set bits"}) = {}
    BY DEF Saving
  <2>2. pc["event"] = "stop wifi" /\ pc'["event"] = "idle"
    BY <1>1, GotoOwn DEF TypeOK
  <2> QED
    BY <2>1, <2>2 DEF Busy
<1>3. events \in Seq(Event) /\ "sta lost" \in Event
  BY DEF TypeOK, Event
<1>4. events \o <<>> = events /\ events \o <<"sta lost">> = Append(events, "sta lost")
  BY <1>3, ConcatOne
<1>5. \/ wifi # "up" /\ events' = events
      \/ wifi # "stopped" /\ events' = Append(events, "sta lost")
  BY <1>1, <1>4 DEF LossFor
<1> QED
  BY <1>1, <1>2, <1>5, LossTruth

\* The other tasks: they disconnect the station, ask it to connect, or change nothing
\* that the truth is about.
LEMMA OthersBusy ==
    ASSUME TypeOK, NEW task \in {"executor", "gpio"}, NEW from, NEW to, Goto(task, from, to)
    PROVE  Busy' <=> Busy
<1>1. pc \in Pcs /\ task \in {"event", "executor", "gpio"}
  BY DEF TypeOK
<1>2. pc'["event"] = pc["event"]
  BY <1>1, GotoOwn
<1> QED
  BY <1>2 DEF Busy

LEMMA SaveTruth ==
    ASSUME TypeOK, Truth, EthernetExcludesWifi', EarlyNoted', NEW task \in {"event", "executor", "gpio"},
           SaveSsid(task) \/ SavePassword(task)
    PROVE  Truth'
<1>1. UNCHANGED <<events, cable, lease, early, bits, wifi, flags>>
  BY DEF SaveSsid, SavePassword, drivers, history
<1>2. pc \in Pcs /\ Saving = {"save ssid", "save password"}
  BY DEF TypeOK, Saving
<1>3. Busy' <=> Busy
  <2>1. CASE SaveSsid(task)
    <3>1. Goto(task, "save ssid", "save password")
      BY <2>1 DEF SaveSsid
    <3>2. /\ pc[task] = "save ssid" /\ pc'[task] = "save password"
          /\ \A other \in {"event", "executor", "gpio"} \ {task} : pc'[other] = pc[other]
      BY <1>2, <3>1, GotoOwn
    <3> QED
      BY <1>2, <3>2 DEF Busy
  <2>2. CASE SavePassword(task)
    <3> DEFINE next == IF task = "event" THEN "set bits" ELSE "idle"
    <3>1. Goto(task, "save password", next)
      BY <2>2 DEF SavePassword
    <3> HIDE DEF next
    <3>2. /\ pc[task] = "save password" /\ pc'[task] = next
          /\ \A other \in {"event", "executor", "gpio"} \ {task} : pc'[other] = pc[other]
      BY <1>2, <3>1, GotoOwn
    <3>3. CASE task = "event"
      BY <1>2, <3>2, <3>3 DEF Busy, next
    <3>4. CASE task # "event"
      <4>1. pc'["event"] = pc["event"]
        BY <3>2, <3>4
      <4> QED
        BY <4>1 DEF Busy
    <3> QED
      BY <3>3, <3>4
  <2> QED
    BY <2>1, <2>2
<1> QED
  BY <1>1, <1>3, SameTruth

LEMMA CleanTruth ==
    ASSUME TypeOK, Truth, EthernetExcludesWifi', EarlyNoted', NEW task \in {"executor", "gpio"}, Clean(task)
    PROVE  Truth'
<1>1. CASE CleanWifiConfig(task)
  <2>1. UNCHANGED <<events, cable, lease, early, bits, wifi, flags>> /\ Goto(task, "idle", "save ssid")
    BY <1>1 DEF CleanWifiConfig, drivers, history
  <2>2. Busy' <=> Busy
    BY <2>1, OthersBusy
  <2> QED
    BY <2>1, <2>2, SameTruth
<1> QED
  BY <1>1, SaveTruth DEF Clean

LEMMA ExecutorTruth ==
    ASSUME TypeOK, Truth, EthernetExcludesWifi', EarlyNoted', Executor PROVE Truth'
<1>1. CASE Clean("executor")
  BY <1>1, CleanTruth
<1>2. CASE SetWifiConfig \/ RestartWifi \/ StopWifi
  <2>1. UNCHANGED <<cable, lease, early, flags, bits>> /\ CallDisconnect
    BY <1>2 DEF SetWifiConfig, RestartWifi, StopWifi, history
  <2>2. PICK to \in {"set ssid", "reconnect", "switch off"} : Goto("executor", "idle", to)
    BY <1>2 DEF SetWifiConfig, RestartWifi, StopWifi, Begin
  <2>3. Busy' <=> Busy
    BY <2>2, OthersBusy
  <2>4. events \in Seq(Event) /\ "sta lost" \in Event
    BY DEF TypeOK, Event
  <2>5. /\ wifi' # "up"
        /\ events' = events \o (IF wifi \in {"connecting", "up"} THEN <<"sta lost">> ELSE <<>>)
    BY <2>1 DEF CallDisconnect, LossFor
  <2>6. events \o <<>> = events /\ events \o <<"sta lost">> = Append(events, "sta lost")
    BY <2>4, ConcatOne
  <2>7. \/ wifi # "up" /\ events' = events
        \/ wifi # "stopped" /\ events' = Append(events, "sta lost")
    BY <2>5, <2>6
  <2> QED
    BY <2>1, <2>3, <2>5, <2>7, LossTruth
<1>3. CASE SetConnect \/ Reconnect \/ StartWifi
  <2>1. UNCHANGED <<events, cable, lease, early, flags, bits>> /\ CallConnect
    BY <1>3 DEF SetConnect, Reconnect, StartWifi, history
  <2>2. PICK from, to : Goto("executor", from, to)
    BY <1>3 DEF SetConnect, Reconnect, StartWifi, Begin
  <2>3. Busy' <=> Busy
    BY <2>2, OthersBusy
  <2>4. wifi' = "up" <=> wifi = "up"
    BY <2>1 DEF CallConnect
  <2> QED
    BY <2>1, <2>3, <2>4, SameTruth
<1>4. CASE SwitchOff
  <2>1. UNCHANGED <<events, cable, lease, early, bits, wifi>> /\ Goto("executor", "switch off", "idle")
    BY <1>4 DEF SwitchOff, drivers, history
  <2>2. flags' = [flags EXCEPT !.wifi = FALSE]
    BY <1>4 DEF SwitchOff
  <2>3. Busy' <=> Busy
    BY <2>1, OthersBusy
  <2> QED
    BY <2>1, <2>2, <2>3, SameTruth
<1>5. CASE \/ \E c \in Config : SetSsid(c) \/ SetPassword(c)
           \/ SetConfig \/ WaitConnected \/ SaidOk \/ SwitchOn
  <2>1. UNCHANGED <<events, cable, lease, early, flags, bits, wifi>>
    BY <1>5 DEF SetSsid, SetPassword, SetConfig, WaitConnected, SaidOk, SwitchOn, drivers, history
  <2>2. PICK from, to : Goto("executor", from, to)
    BY <1>5 DEF SetSsid, SetPassword, SetConfig, WaitConnected, SaidOk, SwitchOn
  <2>3. Busy' <=> Busy
    BY <2>2, OthersBusy
  <2> QED
    BY <2>1, <2>3, SameTruth
<1> QED
  BY <1>1, <1>2, <1>3, <1>4, <1>5 DEF Executor

\* Nothing is known and nothing waits.
LEMMA EmptyTruth ==
    \A q : q = <<>> => /\ ~WifiUp(q) /\ NoWifi(q) /\ ~CableUp(q) /\ NoCable(q) /\ ~NetUp(q) /\ NoNet(q)
                       /\ UpFirst(q) /\ NeedsUp(q)
<1>1. Len(<<>>) = 0 /\ 1..0 = {}
  OBVIOUS
<1>2. UpFirst(<<>>) /\ NeedsUp(<<>>)
  BY <1>1 DEF UpFirst, NeedsUp
<1> QED
  BY <1>1, <1>2, NothingYet DEF WifiUp, NoWifi, CableUp, NoCable, NetUp, NoNet

LEMMA FreshTruth == (Init => Truth) /\ (Restart => Truth')
<1>1. /\ FlagsOff.network = FALSE /\ FlagsOff.wifi = FALSE /\ FlagsOff.ethernet = FALSE
      /\ FlagsOff.useEthernet = FALSE /\ FlagsOff.ip = "none"
      /\ BitsOff.network = FALSE /\ BitsOff.wifi = FALSE
      /\ Idle["event"] = "idle" /\ "idle" \notin Saving \cup {"set bits"}
  BY DEF FlagsOff, BitsOff, Idle, Saving
<1>2. ASSUME Init PROVE Truth
  <2>1. /\ ~WifiUp(events) /\ NoWifi(events) /\ ~CableUp(events) /\ NoCable(events)
        /\ ~NetUp(events) /\ NoNet(events) /\ UpFirst(events) /\ NeedsUp(events)
    BY <1>2, EmptyTruth DEF Init
  <2>2. /\ wifi = "connecting" /\ cable = FALSE /\ lease = "none" /\ flags = FlagsOff
        /\ bits = BitsOff /\ pc = Idle
    BY <1>2 DEF Init
  <2> QED
    BY <1>1, <2>1, <2>2 DEF Truth, WifiTold, CableTold, NetTold, Agree, EthernetExcludesWifi, EarlyNoted, Busy
<1>3. ASSUME Restart PROVE Truth'
  <2>1. /\ ~WifiUp(events') /\ NoWifi(events') /\ ~CableUp(events') /\ NoCable(events')
        /\ ~NetUp(events') /\ NoNet(events') /\ UpFirst(events') /\ NeedsUp(events')
    BY <1>3, EmptyTruth DEF Restart
  <2>2. /\ wifi' = "connecting" /\ cable' = FALSE /\ lease' = "none" /\ flags' = FlagsOff
        /\ bits' = BitsOff /\ pc' = Idle
    BY <1>3 DEF Restart
  <2> QED
    BY <1>1, <2>1, <2>2 DEF Truth, WifiTold, CableTold, NetTold, Agree, EthernetExcludesWifi, EarlyNoted, Busy
<1> QED
  BY <1>2, <1>3

LEMMA StepTruth == TypeOK /\ Truth /\ [Next]_vars => Truth'
<1> SUFFICES ASSUME TypeOK, Truth, [Next]_vars PROVE Truth'
  OBVIOUS
<1>1. EthernetExcludesWifi' /\ EarlyNoted'
  BY StepExcludes, StepEarly DEF Truth
<1>2. CASE World
  BY <1>1, <1>2, WorldTruth
<1>3. CASE EventTask
  BY <1>1, <1>3, StationTruth, CableTruth, StopTruth, SaveTruth DEF EventTask
<1>4. CASE Executor
  BY <1>1, <1>4, ExecutorTruth
<1>5. CASE Clean("gpio")
  BY <1>1, <1>5, CleanTruth
<1>6. CASE Restart
  BY <1>6, FreshTruth
<1>7. CASE UNCHANGED vars
  <2>1. UNCHANGED <<events, cable, lease, early, bits, wifi, flags, pc>> /\ (Busy' <=> Busy)
    BY <1>7 DEF vars, drivers, history, Busy
  <2> QED
    BY <1>1, <2>1, SameTruth
<1> QED
  BY <1>2, <1>3, <1>4, <1>5, <1>6, <1>7 DEF Next

\* When the event task has caught up, for any length of the queue, flags, bits and
\* address agree with each other and with the network.
THEOREM TruthIsReached == Spec => []TruthAtRest
<1>1. TypeOK /\ Truth => TruthAtRest
  <2> SUFFICES ASSUME TypeOK, Truth, events = <<>>, pc["event"] = "idle"
               PROVE  /\ bits.network = flags.network
                      /\ flags.network <=> flags.ip # "none"
                      /\ flags.ip = "wifi" => wifi = "up"
                      /\ flags.ip = "eth" => cable
                      /\ wifi = "up" \/ (lease = "granted" /\ ~early) => flags.network
                      /\ bits.wifi <=> wifi = "up"
                      /\ flags.wifi => wifi = "up"
                      /\ flags.ethernet => cable
                      /\ flags.useEthernet <=> cable
    BY DEF TruthAtRest
  <2>1. /\ ~WifiUp(events) /\ NoWifi(events) /\ ~CableUp(events) /\ NoCable(events)
        /\ ~NetUp(events) /\ NoNet(events)
    BY EmptyTruth
  <2>2. ~Busy
    BY DEF Busy, Saving
  <2>3. bits.wifi <=> wifi = "up"
    BY <2>1, <2>2 DEF Truth, WifiTold
  <2>4. flags.useEthernet <=> cable
    BY <2>1 DEF Truth, CableTold
  <2>5. wifi = "up" \/ (lease = "granted" /\ ~early) => flags.network
    BY <2>1 DEF Truth, NetTold
  <2>6. /\ bits.network <=> flags.network
        /\ flags.network <=> flags.ip # "none"
        /\ flags.ip = "wifi" \/ flags.wifi => bits.wifi
        /\ flags.ip = "eth" \/ flags.ethernet => flags.useEthernet
    BY <2>2 DEF Truth, Agree
  <2>7. bits.network = flags.network
    BY <2>6 DEF TypeOK, Flags, Bits
  <2> QED
    BY <2>3, <2>4, <2>5, <2>6, <2>7
<1> QED
  BY <1>1, FreshTruth, StepTruth, TypeCorrect, PTL DEF Spec
=============================================================================
