------------------------- MODULE MqttClientProofs -------------------------
(***************************************************************************)
(* Proofs about MqttClient, for every set of uris and of clients, finite   *)
(* or not.                                                                 *)
(***************************************************************************)
EXTENDS MqttClient, FiniteSetTheorems, TLAPS

Place == {"wait", "read", "fill", "init", "start", "done", "idle", "save", "write", "set",
          "new client", "start new", "say on", "say off", "null", "create"}
Phase == {"none", "stopped", "connecting", "connected", "retry"}
Block == Texts \cup {Null, Freed, Raw}

\* The parts of the type invariant.  What app_main is about to copy from NVS is there.
PcType == pc \in [Task -> Place]
PhaseType == phase \in [Client -> Phase] /\ handle \in Client \cup {NoClient}
ConfigType == /\ cfgUri \in Block
              /\ nvs \in Texts \cup {Unset}
              /\ saving \in [Task -> Block \cup {Shared}]
              /\ pc["app"] = "fill" => nvs \in Texts
OtherType == /\ broker \in BOOLEAN /\ mqttConnect \in BOOLEAN
             /\ setting \in Uri \cup {Null}
             /\ raced \in BOOLEAN /\ overlap \in BOOLEAN
TypeInv == PcType /\ PhaseType /\ ConfigType /\ OtherType

LEMMA TypeParts == TypeInv => TypeOK
  BY DEF TypeInv, TypeOK, PcType, PhaseType, ConfigType, OtherType, Place, Phase, Block

LEMMA Tasks == /\ {"app", "executor", "gpio"} \subseteq Task /\ Client \subseteq Task
               /\ \A c \in Client : c \notin {"app", "executor", "gpio"}
  BY MqttAssumption DEF Task

LEMMA InitType == Init => TypeInv
<1> SUFFICES ASSUME Init PROVE TypeInv
  OBVIOUS
<1>1. PcType
  BY DEF Init, PcType, Idle, Place
<1>2. PhaseType
  BY DEF Init, PhaseType, Phase
<1>3. pc["app"] = "wait"
  BY Tasks DEF Init, Idle
<1>4. ConfigType
  BY <1>3 DEF Init, ConfigType, NotSaving, Block
<1>5. OtherType
  BY DEF Init, OtherType
<1> QED
  BY <1>1, <1>2, <1>4, <1>5 DEF TypeInv

LEMMA GotoType ==
    ASSUME PcType, NEW t \in Task, NEW from, NEW to \in Place, Goto(t, from, to),
           overlap \in BOOLEAN
    PROVE  /\ PcType' /\ overlap' \in BOOLEAN
           /\ pc[t] = from /\ pc'[t] = to
           /\ \A u \in Task \ {t} : pc'[u] = pc[u]
<1>1. pc[t] = from /\ pc' = [pc EXCEPT ![t] = to]
  BY DEF Goto
<1>2. overlap' \in BOOLEAN
  BY DEF Goto
<1> QED
  BY <1>1, <1>2 DEF PcType

LEMMA PlaceNames ==
    {"wait", "read", "fill", "init", "start", "done", "idle", "save", "write", "set",
     "new client", "start new", "say on", "say off", "null", "create"} \subseteq Place
  BY DEF Place

LEMMA ReadsText == \A block : Reads(block) \subseteq Texts
  BY DEF Reads

\* The library leaves phases and handle typed.
LEMMA LibraryType ==
    ASSUME PhaseType, NEW c
    PROVE  /\ Start(c) => phase' \in [Client -> Phase]
           /\ Stop(c) => phase' \in [Client -> Phase]
           /\ Destroy(c) => phase' \in [Client -> Phase]
           /\ Creates => PhaseType'
<1>1. \A state \in Phase : Becomes(c, state) => phase' \in [Client -> Phase]
  BY DEF Becomes, PhaseType
<1>2. {"none", "stopped", "connecting"} \subseteq Phase
  BY DEF Phase
<1>3. ASSUME Creates PROVE PhaseType'
  <2>1. Live \subseteq Client /\ Live # Client
    BY <1>3 DEF Creates, Live
  <2>2. handle' \in Client
    BY <1>3, <2>1 DEF Creates
  <2>3. phase' = [d \in Client |-> IF d = handle' THEN "stopped" ELSE phase[d]]
    BY <1>3 DEF Creates, Becomes
  <2> QED
    BY <1>2, <2>2, <2>3 DEF PhaseType
<1> QED
  BY <1>1, <1>2, <1>3 DEF Start, Stop, Destroy, PhaseType

\* The actions, by what they touch.  Those that only look at handle and phase:
LEMMA ConfigStepType ==
    ASSUME TypeInv, NEW t \in Task \ {"app"},
           TakeUri(t) \/ WriteUri(t) \/ Clean(t) \/ CleanNull(t) \/ CleanCreate(t)
    PROVE  TypeInv'
<1>1. PICK from \in Place, to \in Place \ {"fill"} : Goto(t, from, to)
  <2>1. {"idle", "save", "write", "null", "create"} \subseteq Place \ {"fill"}
    BY DEF Place
  <2> QED
    BY <2>1 DEF TakeUri, WriteUri, Clean, CleanNull, CleanCreate
<1>2. PcType' /\ overlap' \in BOOLEAN /\ pc'["app"] = pc["app"]
  BY <1>1, GotoType, Tasks DEF TypeInv, OtherType
<1>3. PhaseType' /\ OtherType'
  BY <1>2 DEF TakeUri, WriteUri, Clean, CleanNull, CleanCreate, TypeInv, PhaseType, OtherType
<1>4. cfgUri \in Block /\ nvs \in Texts \cup {Unset} /\ saving \in [Task -> Block \cup {Shared}]
  BY DEF TypeInv, ConfigType
<1>5. {Null, Freed, Default} \subseteq Block
  BY DEF Block, Texts
<1>6. cfgUri' \in Block
  BY <1>4, <1>5 DEF TakeUri, WriteUri, Clean, CleanNull, CleanCreate, Assign
<1>7. nvs' = nvs \/ nvs' \in Texts
  BY ReadsText DEF TakeUri, WriteUri, Clean, CleanNull, CleanCreate
<1>8. saving' \in [Task -> Block \cup {Shared}]
  BY <1>4, <1>5 DEF TakeUri, WriteUri, Clean, CleanNull, CleanCreate, Assign, Keep
<1>9. ConfigType'
  BY <1>2, <1>4, <1>6, <1>7, <1>8 DEF ConfigType, TypeInv
<1> QED
  BY <1>2, <1>3, <1>9 DEF TypeInv

LEMMA AppStepType == TypeInv /\ AppMain => TypeInv'
<1> SUFFICES ASSUME TypeInv, AppMain PROVE TypeInv'
  OBVIOUS
<1>1. PICK from \in Place, to \in Place : Goto("app", from, to)
  BY PlaceNames DEF AppMain, NetworkIsThere, ReadUri, FillUri, FirstInit, FirstStart
<1>2. PcType' /\ overlap' \in BOOLEAN
  BY <1>1, GotoType, Tasks DEF TypeInv, OtherType
<1>3. OtherType'
  BY <1>2 DEF AppMain, NetworkIsThere, ReadUri, FillUri, FirstInit, FirstStart, TypeInv, OtherType
<1>4. PhaseType'
  <2>1. CASE FirstInit
    <3>1. Creates => PhaseType'
      BY LibraryType DEF TypeInv
    <3> QED
      BY <2>1, <3>1 DEF FirstInit, TypeInv, PhaseType
  <2>2. CASE FirstStart
    <3>1. phase' \in [Client -> Phase] /\ handle' = handle
      BY <2>2, LibraryType DEF FirstStart, TypeInv
    <3> QED
      BY <3>1 DEF TypeInv, PhaseType
  <2>3. CASE NetworkIsThere \/ ReadUri \/ FillUri
    BY <2>3 DEF NetworkIsThere, ReadUri, FillUri, TypeInv, PhaseType
  <2> QED
    BY <2>1, <2>2, <2>3 DEF AppMain
<1>5. /\ cfgUri \in Block /\ nvs \in Texts \cup {Unset}
      /\ saving \in [Task -> Block \cup {Shared}] /\ (pc["app"] = "fill" => nvs \in Texts)
  BY DEF TypeInv, ConfigType
<1>6. nvs' = nvs
  BY DEF AppMain, NetworkIsThere, ReadUri, FillUri, FirstInit, FirstStart, config
<1>7. Default \in Block /\ Raw \in Block /\ Texts \subseteq Block
  BY DEF Block, Texts
<1>8. cfgUri' \in Block
  <2>1. CASE FillUri
    <3>1. pc["app"] = "fill"
      BY <2>1 DEF FillUri, Goto
    <3> QED
      BY <1>5, <1>7, <2>1, <3>1 DEF FillUri
  <2>2. CASE ReadUri
    BY <1>7, <2>2 DEF ReadUri, Assign
  <2>3. CASE NetworkIsThere \/ FirstInit \/ FirstStart
    BY <1>5, <2>3 DEF NetworkIsThere, FirstInit, FirstStart, config
  <2> QED
    BY <2>1, <2>2, <2>3 DEF AppMain
<1>9. saving' \in [Task -> Block \cup {Shared}]
  BY <1>5 DEF AppMain, NetworkIsThere, ReadUri, FillUri, FirstInit, FirstStart, config,
              Assign, Keep
<1>10. pc'["app"] = "fill" => nvs' \in Texts
  <2>1. CASE ReadUri
    <3>1. CASE nvs = Unset
      <4>1. Goto("app", "read", "init")
        BY <2>1, <3>1 DEF ReadUri
      <4> QED
        BY <4>1, GotoType, Tasks, PlaceNames DEF TypeInv, OtherType
    <3>2. CASE nvs # Unset
      BY <1>5, <1>6, <3>2
    <3> QED
      BY <3>1, <3>2
  <2>2. CASE NetworkIsThere \/ FillUri \/ FirstInit \/ FirstStart
    <3>1. PICK next \in {"read", "init", "start", "done"} : \E f \in Place : Goto("app", f, next)
      BY <2>2, PlaceNames DEF NetworkIsThere, FillUri, FirstInit, FirstStart
    <3>2. next \in Place /\ next # "fill"
      BY PlaceNames
    <3>3. pc'["app"] = next
      BY <3>1, <3>2, GotoType, Tasks DEF TypeInv, OtherType
    <3> QED
      BY <3>2, <3>3
  <2> QED
    BY <2>1, <2>2 DEF AppMain
<1> QED
  BY <1>2, <1>3, <1>4, <1>5, <1>6, <1>8, <1>9, <1>10 DEF TypeInv, ConfigType

LEMMA CommandStepType ==
    TypeInv /\ (Begin \/ NewUri \/ NewClient \/ StartNew \/ SayConnected) => TypeInv'
<1> SUFFICES ASSUME TypeInv, Begin \/ NewUri \/ NewClient \/ StartNew \/ SayConnected
             PROVE  TypeInv'
  OBVIOUS
<1>1. PICK from \in Place, to \in Place : Goto("executor", from, to)
  BY PlaceNames DEF Begin, SetUri, StartMqtt, StopMqtt, RestartMqtt, NewUri, NewClient, StartNew,
                    SayConnected
<1>2. PcType' /\ overlap' \in BOOLEAN /\ pc'["app"] = pc["app"]
  BY <1>1, GotoType, Tasks DEF TypeInv, OtherType
<1>3. mqttConnect' \in BOOLEAN /\ broker' = broker /\ raced' \in BOOLEAN
  BY DEF Begin, SetUri, StartMqtt, StopMqtt, RestartMqtt, NewUri, NewClient, StartNew,
         SayConnected, TypeInv, OtherType
<1>4. setting' \in Uri \cup {Null}
  BY DEF Begin, SetUri, StartMqtt, StopMqtt, RestartMqtt, NewUri, NewClient, StartNew,
         SayConnected, TypeInv, OtherType
<1>5. PhaseType'
  <2>1. CASE NewClient
    <3>1. Creates => PhaseType'
      BY LibraryType DEF TypeInv
    <3> QED
      BY <2>1, <3>1 DEF NewClient, TypeInv, PhaseType
  <2>2. CASE Begin \/ StartNew
    <3>1. (Start(handle) \/ Stop(handle) \/ Destroy(handle)) /\ handle' = handle
      BY <2>2 DEF Begin, SetUri, StartMqtt, StopMqtt, RestartMqtt, StartNew
    <3>2. phase' \in [Client -> Phase]
      BY <3>1, LibraryType DEF TypeInv
    <3> QED
      BY <3>1, <3>2 DEF TypeInv, PhaseType
  <2>3. CASE NewUri \/ SayConnected
    BY <2>3 DEF NewUri, SayConnected, TypeInv, PhaseType
  <2> QED
    BY <2>1, <2>2, <2>3
<1>6. /\ cfgUri \in Block /\ nvs \in Texts \cup {Unset} /\ setting \in Uri \cup {Null}
      /\ saving \in [Task -> Block \cup {Shared}] /\ (pc["app"] = "fill" => nvs \in Texts)
  BY DEF TypeInv, ConfigType, OtherType
<1>7. nvs' = nvs
  BY DEF Begin, SetUri, StartMqtt, StopMqtt, RestartMqtt, NewUri, NewClient, StartNew,
         SayConnected, config
<1>8. cfgUri' \in Block
  BY <1>6 DEF Begin, SetUri, StartMqtt, StopMqtt, RestartMqtt, NewUri, NewClient, StartNew,
         SayConnected, config, Assign, Block, Texts
<1>9. saving' \in [Task -> Block \cup {Shared}]
  BY <1>6 DEF Begin, SetUri, StartMqtt, StopMqtt, RestartMqtt, NewUri, NewClient, StartNew,
         SayConnected, config, Assign, Keep
<1> QED
  BY <1>2, <1>3, <1>4, <1>5, <1>6, <1>7, <1>8, <1>9 DEF TypeInv, ConfigType, OtherType

\* The handler, and the library's own step.
LEMMA HandlerStepType ==
    ASSUME TypeInv, NEW c \in Client, Connected(c) \/ Disconnected(c) \/ Retry(c)
    PROVE  TypeInv'
<1>1. PcType' /\ overlap' \in BOOLEAN /\ pc'["app"] = pc["app"]
  <2>1. CASE Connected(c)
    BY <2>1, GotoType, Tasks, PlaceNames DEF Connected, TypeInv, OtherType
  <2>2. CASE Disconnected(c) \/ Retry(c)
    BY <2>2 DEF Disconnected, Retry, TypeInv, PcType, OtherType
  <2> QED
    BY <2>1, <2>2
<1>2. mqttConnect' \in BOOLEAN
  BY DEF Connected, Disconnected, Retry, TypeInv, OtherType
<1>3. OtherType'
  BY <1>1, <1>2 DEF Connected, Disconnected, Retry, TypeInv, OtherType
<1>4. PhaseType'
  BY DEF Connected, Disconnected, Retry, TypeInv, PhaseType, Phase
<1>5. ConfigType'
  BY <1>1 DEF Connected, Disconnected, Retry, TypeInv, ConfigType, config
<1> QED
  BY <1>1, <1>3, <1>4, <1>5 DEF TypeInv

LEMMA RestartType == TypeInv /\ Restart => TypeInv'
<1> SUFFICES ASSUME TypeInv, Restart PROVE TypeInv'
  OBVIOUS
<1>1. PcType'
  BY DEF Restart, PcType, Idle, Place
<1>2. PhaseType'
  BY DEF Restart, PhaseType, Phase
<1>3. pc'["app"] = "wait"
  BY Tasks DEF Restart, Idle
<1>4. ConfigType'
  BY <1>3 DEF Restart, ConfigType, NotSaving, Block, TypeInv
<1>5. OtherType'
  BY DEF Restart, OtherType, TypeInv
<1> QED
  BY <1>1, <1>2, <1>4, <1>5 DEF TypeInv

LEMMA StepType == TypeInv /\ [Next]_vars => TypeInv'
<1> SUFFICES ASSUME TypeInv, [Next]_vars PROVE TypeInv'
  OBVIOUS
<1>1. CASE BrokerChanges
  BY <1>1 DEF BrokerChanges, TypeInv, PcType, PhaseType, ConfigType, OtherType, config
<1>2. CASE AppMain
  BY <1>2, AppStepType
<1>3. CASE Begin \/ NewUri \/ NewClient \/ StartNew \/ SayConnected
  BY <1>3, CommandStepType
<1>4. CASE Cleaning("executor") \/ Cleaning("gpio") \/ Clean("executor") \/ Clean("gpio")
  BY <1>4, ConfigStepType, Tasks DEF Cleaning
<1>5. ASSUME NEW c \in Client, ClientTask(c) PROVE TypeInv'
  BY <1>5, ConfigStepType, HandlerStepType, Tasks DEF ClientTask
<1>6. CASE Restart
  BY <1>6, RestartType
<1>7. CASE UNCHANGED vars
  BY <1>7 DEF vars, TypeInv, PcType, PhaseType, ConfigType, OtherType
<1> QED
  BY <1>1, <1>2, <1>3, <1>4, <1>5, <1>6, <1>7 DEF Next, Executor

LEMMA TypeInvariant == Spec => []TypeInv
  BY InitType, StepType, PTL DEF Spec

\* Every variable has its type: NVS holds a text or nothing, whatever block the
\* writer has read.
THEOREM TypeCorrect == Spec => []TypeOK
  BY TypeInvariant, TypeParts, PTL
-----------------------------------------------------------------------------
(***************************************************************************)
(* The clients that exist.                                                 *)
(***************************************************************************)
Early == pc["app"] \in {"wait", "read", "fill", "init"}
Between == pc["executor"] \in {"set", "new client"}

\* The handle's client, unless set_mqtt_uri has destroyed it.
Current == IF Between THEN {} ELSE {handle}

\* Before app_main is done there is no client or the one of a SET_MQTT_URI that has
\* overtaken it; after such a race there may be one client more that no handle
\* leads to.
Clients == /\ ~raced /\ Early => Live = {} /\ ~Between
           /\ ~raced \/ Early => Live \subseteq Current
           /\ \E x : Live \subseteq Current \cup {x}
ClientInv == HandleIsLive /\ Clients

\* A step that leaves the clients, the handle and the two places alone.
LEMMA SameClients ==
    ASSUME ClientInv, UNCHANGED <<handle, raced>>, Live' = Live,
           Early' <=> Early, Between' <=> Between
    PROVE  ClientInv'
  BY DEF ClientInv, HandleIsLive, Clients, Between, Current

\* A task goes on without passing a border of the two places.
LEMMA GotoPlaces ==
    ASSUME TypeInv, NEW t \in Task, NEW from \in Place, NEW to \in Place, Goto(t, from, to),
           t = "app" => (from \in {"wait", "read", "fill", "init"}
                            <=> to \in {"wait", "read", "fill", "init"}),
           t = "executor" => (from \in {"set", "new client"} <=> to \in {"set", "new client"})
    PROVE  (Early' <=> Early) /\ (Between' <=> Between)
  BY GotoType, Tasks DEF TypeInv, OtherType, Early, Between

\* What the library does to the clients that exist.
LEMMA LibraryLive ==
    ASSUME PhaseType, NEW c
    PROVE  /\ Start(c) => Live' = Live
           /\ Stop(c) => Live' = Live
           /\ Destroy(c) => Live' = Live \ {c}
           /\ Creates => handle' \in Client /\ Live' = Live \cup {handle'}
<1>1. ASSUME NEW state \in Phase \ {"none"}, Becomes(c, state), c \in Live
      PROVE  Live' = Live
  BY <1>1 DEF Becomes, Live, PhaseType
<1>2. {"stopped", "connecting"} \subseteq Phase \ {"none"}
  BY DEF Phase
<1>3. Start(c) => Live' = Live
  BY <1>1, <1>2 DEF Start, Live
<1>4. Stop(c) => Live' = Live
  BY <1>1, <1>2 DEF Stop, Started, Live
<1>5. Destroy(c) => Live' = Live \ {c}
  BY DEF Destroy, Becomes, Live, PhaseType
<1>6. ASSUME Creates PROVE handle' \in Client /\ Live' = Live \cup {handle'}
  <2>1. Live \subseteq Client /\ Live # Client
    BY <1>6 DEF Creates, Live
  <2>2. handle' \in Client
    BY <1>6, <2>1 DEF Creates
  <2>3. phase' = [d \in Client |-> IF d = handle' THEN "stopped" ELSE phase[d]]
    BY <1>6 DEF Creates, Becomes
  <2> QED
    BY <2>2, <2>3 DEF Live
<1> QED
  BY <1>3, <1>4, <1>5, <1>6

LEMMA QuietClients ==
    ASSUME TypeInv, ClientInv,
           \/ BrokerChanges \/ NetworkIsThere \/ ReadUri \/ FillUri \/ FirstStart
           \/ StartMqtt \/ StopMqtt \/ RestartMqtt \/ NewUri \/ StartNew \/ SayConnected
           \/ \E t \in Task \ {"app"} :
                 TakeUri(t) \/ WriteUri(t) \/ Clean(t) \/ CleanNull(t) \/ CleanCreate(t)
           \/ \E c \in Client : Connected(c) \/ Disconnected(c) \/ Retry(c)
    PROVE  ClientInv'
<1>1. PhaseType
  BY DEF TypeInv
<1>2. UNCHANGED <<handle, raced>>
  BY DEF BrokerChanges, NetworkIsThere, ReadUri, FillUri, FirstStart, StartMqtt, StopMqtt,
         RestartMqtt, NewUri, StartNew, SayConnected, TakeUri, WriteUri, Clean, CleanNull,
         CleanCreate, Connected, Disconnected, Retry
<1>3. Live' = Live
  <2>1. CASE UNCHANGED phase
    BY <2>1 DEF Live
  <2>2. CASE FirstStart \/ StartMqtt \/ StopMqtt \/ RestartMqtt \/ StartNew
    BY <1>1, <2>2, LibraryLive DEF FirstStart, StartMqtt, StopMqtt, RestartMqtt, StartNew
  <2>3. ASSUME NEW c \in Client, Connected(c) \/ Disconnected(c) \/ Retry(c)
        PROVE  Live' = Live
    BY <1>1, <2>3 DEF Connected, Disconnected, Retry, Live, PhaseType
  <2> QED
    BY <2>1, <2>2, <2>3 DEF BrokerChanges, NetworkIsThere, ReadUri, FillUri, NewUri,
         SayConnected, TakeUri, WriteUri, Clean, CleanNull, CleanCreate
<1>4. (Early' <=> Early) /\ (Between' <=> Between)
  <2>1. CASE UNCHANGED pc
    BY <2>1 DEF Early, Between
  <2>2. CASE NetworkIsThere \/ ReadUri \/ FillUri \/ FirstStart
    <3>1. PICK from \in Place, to \in Place :
             /\ Goto("app", from, to)
             /\ from \in {"wait", "read", "fill", "init"} <=> to \in {"wait", "read", "fill", "init"}
      BY <2>2, PlaceNames DEF NetworkIsThere, ReadUri, FillUri, FirstStart
    <3> QED
      BY <3>1, GotoPlaces, Tasks
  <2>3. CASE StartMqtt \/ StopMqtt \/ RestartMqtt \/ NewUri \/ StartNew \/ SayConnected
    <3>1. PICK from \in Place, to \in Place :
             /\ Goto("executor", from, to)
             /\ from \in {"set", "new client"} <=> to \in {"set", "new client"}
      BY <2>3, PlaceNames DEF StartMqtt, StopMqtt, RestartMqtt, NewUri, StartNew, SayConnected
    <3> QED
      BY <3>1, GotoPlaces, Tasks
  <2>4. ASSUME NEW t \in Task \ {"app"},
               TakeUri(t) \/ WriteUri(t) \/ Clean(t) \/ CleanNull(t) \/ CleanCreate(t)
        PROVE  (Early' <=> Early) /\ (Between' <=> Between)
    <3>1. PICK from \in Place \ {"set", "new client"}, to \in Place \ {"set", "new client"} :
             Goto(t, from, to)
      <4>1. {"idle", "save", "write", "null", "create"} \subseteq Place \ {"set", "new client"}
        BY DEF Place
      <4> QED
        BY <2>4, <4>1 DEF TakeUri, WriteUri, Clean, CleanNull, CleanCreate
    <3> QED
      BY <3>1, GotoPlaces
  <2>5. ASSUME NEW c \in Client, Connected(c) \/ Disconnected(c) \/ Retry(c)
        PROVE  (Early' <=> Early) /\ (Between' <=> Between)
    <3>1. CASE Connected(c)
      <4>1. Goto(c, "idle", "save") /\ c \in Task /\ c \notin {"app", "executor"}
        BY <3>1, Tasks DEF Connected
      <4> QED
        BY <4>1, GotoPlaces, PlaceNames
    <3>2. CASE Disconnected(c) \/ Retry(c)
      BY <2>1, <3>2 DEF Disconnected, Retry
    <3> QED
      BY <2>5, <3>1, <3>2
  <2> QED
    BY <2>1, <2>2, <2>3, <2>4, <2>5 DEF BrokerChanges
<1> QED
  BY <1>2, <1>3, <1>4, SameClients

\* app_main creates its client.
LEMMA FirstInitClients == TypeInv /\ ClientInv /\ FirstInit => ClientInv'
<1> SUFFICES ASSUME TypeInv, ClientInv, FirstInit PROVE ClientInv'
  OBVIOUS
<1>1. PhaseType
  BY DEF TypeInv
<1>2. Goto("app", "init", "start") /\ raced' = raced
  BY DEF FirstInit
<1>3. Early /\ ~Early' /\ (Between' <=> Between)
  <2>1. pc["app"] = "init" /\ pc'["app"] = "start" /\ pc'["executor"] = pc["executor"]
    BY <1>2, GotoType, Tasks, PlaceNames DEF TypeInv, OtherType
  <2> QED
    BY <2>1 DEF Early, Between
<1>4. \/ handle' \in Client /\ Live' = Live \cup {handle'}
      \/ handle' = NoClient /\ Live' = Live
  BY <1>1, LibraryLive DEF FirstInit, Live
<1>5. Live \subseteq Current /\ (~raced => Live = {} /\ ~Between)
  BY <1>3 DEF ClientInv, Clients
<1>6. HandleIsLive'
  BY <1>4 DEF HandleIsLive
<1>7. ~raced' => Live' \subseteq Current'
  BY <1>2, <1>3, <1>4, <1>5 DEF Current
<1>8. Live' \subseteq Current' \cup {handle} \/ Live' \subseteq Current' \cup {handle'}
  BY <1>3, <1>4, <1>5 DEF Current
<1> QED
  BY <1>3, <1>6, <1>7, <1>8 DEF ClientInv, Clients

\* set_mqtt_uri destroys one and creates another.
LEMMA SetUriClients == \A u : TypeInv /\ ClientInv /\ SetUri(u) => ClientInv'
<1> SUFFICES ASSUME TypeInv, ClientInv, NEW u, SetUri(u) PROVE ClientInv'
  OBVIOUS
<1>1. PhaseType
  BY DEF TypeInv
<1>2. /\ Goto("executor", "idle", "set") /\ Destroy(handle) /\ handle' = handle
      /\ raced' = (raced \/ pc["app"] # "done")
  BY DEF SetUri
<1>3. ~Between /\ Between' /\ (Early' <=> Early)
  <2>1. pc["executor"] = "idle" /\ pc'["executor"] = "set" /\ pc'["app"] = pc["app"]
    BY <1>2, GotoType, Tasks, PlaceNames DEF TypeInv, OtherType
  <2> QED
    BY <2>1 DEF Early, Between
<1>4. Live' = Live \ {handle}
  BY <1>1, <1>2, LibraryLive
<1>5. HandleIsLive'
  BY <1>3 DEF HandleIsLive, Between
<1>6. raced \/ Early => raced'
  BY <1>2 DEF Early
<1>7. ~raced' \/ Early' => Live' \subseteq Current'
  BY <1>3, <1>4, <1>6 DEF ClientInv, Clients, Current
<1>8. \E x : Live' \subseteq Current' \cup {x}
  BY <1>3, <1>4 DEF ClientInv, Clients, Current
<1> QED
  BY <1>3, <1>5, <1>6, <1>7, <1>8 DEF ClientInv, Clients

LEMMA NewClientClients == TypeInv /\ ClientInv /\ NewClient => ClientInv'
<1> SUFFICES ASSUME TypeInv, ClientInv, NewClient PROVE ClientInv'
  OBVIOUS
<1>1. PhaseType
  BY DEF TypeInv
<1>2. PICK to \in {"start new", "idle"} : Goto("executor", "new client", to) /\ raced' = raced
  BY DEF NewClient
<1>3. Between /\ ~Between' /\ (Early' <=> Early)
  <2>1. to \in Place /\ to \notin {"set", "new client"}
    BY PlaceNames
  <2>2. pc["executor"] = "new client" /\ pc'["executor"] = to /\ pc'["app"] = pc["app"]
    BY <1>2, <2>1, GotoType, Tasks DEF TypeInv, OtherType
  <2> QED
    BY <2>1, <2>2 DEF Early, Between
<1>4. \/ handle' \in Client /\ Live' = Live \cup {handle'}
      \/ handle' = NoClient /\ Live' = Live
  BY <1>1, LibraryLive DEF NewClient, Live
<1>5. HandleIsLive'
  BY <1>4 DEF HandleIsLive
<1>6. ~raced' \/ Early' => Live' \subseteq Current'
  BY <1>2, <1>3, <1>4 DEF ClientInv, Clients, Current
<1>7. \E x : Live' \subseteq Current' \cup {x}
  BY <1>3, <1>4 DEF ClientInv, Clients, Current
<1>8. raced' \/ ~Early'
  BY <1>2, <1>3 DEF ClientInv, Clients
<1> QED
  BY <1>5, <1>6, <1>7, <1>8 DEF ClientInv, Clients

LEMMA FreshClients == (Init => ClientInv) /\ (Restart => ClientInv')
<1>1. Init => ClientInv
  BY Tasks DEF Init, ClientInv, HandleIsLive, Clients, Live, Between, Idle
<1>2. Restart => ClientInv'
  BY Tasks DEF Restart, ClientInv, HandleIsLive, Clients, Live, Between, Idle
<1> QED
  BY <1>1, <1>2

LEMMA StepClients == TypeInv /\ ClientInv /\ [Next]_vars => ClientInv'
<1> SUFFICES ASSUME TypeInv, ClientInv, [Next]_vars PROVE ClientInv'
  OBVIOUS
<1>1. CASE AppMain
  BY <1>1, QuietClients, FirstInitClients DEF AppMain
<1>2. CASE Begin \/ NewUri \/ NewClient \/ StartNew \/ SayConnected
  BY <1>2, QuietClients, SetUriClients, NewClientClients DEF Begin
<1>3. CASE Cleaning("executor") \/ Cleaning("gpio") \/ Clean("executor") \/ Clean("gpio")
  <2>1. "executor" \in Task \ {"app"} /\ "gpio" \in Task \ {"app"}
    BY Tasks
  <2> QED
    BY <1>3, <2>1, QuietClients DEF Cleaning
<1>4. ASSUME NEW c \in Client, ClientTask(c) PROVE ClientInv'
  <2>1. c \in Task \ {"app"}
    BY Tasks
  <2> QED
    BY <1>4, <2>1, QuietClients DEF ClientTask
<1>5. CASE BrokerChanges
  BY <1>5, QuietClients
<1>6. CASE Restart
  BY <1>6, FreshClients
<1>7. CASE UNCHANGED vars
  BY <1>7, SameClients DEF vars, Live, Early, Between
<1> QED
  BY <1>1, <1>2, <1>3, <1>4, <1>5, <1>6, <1>7 DEF Next, Executor

LEMMA ClientInvariant == Spec => []ClientInv
  BY FreshClients, StepClients, TypeInvariant, PTL DEF Spec

\* Outside set_mqtt_uri the handle is NULL or a client that exists.
THEOREM LiveHandle == Spec => []HandleIsLive
<1>1. ClientInv => HandleIsLive
  BY DEF ClientInv
<1> QED
  BY <1>1, ClientInvariant, PTL

\* One client at a time; two only after a SET_MQTT_URI that has overtaken app_main.
THEOREM AtMostOneClient == Spec => []OneClient
<1>1. ClientInv => OneClient
  <2> SUFFICES ASSUME ClientInv PROVE Cardinality(Live) <= IF raced THEN 2 ELSE 1
    BY DEF OneClient
  <2>1. PICK x : Live \subseteq Current \cup {x}
    BY DEF ClientInv, Clients
  <2>2. Current \subseteq {handle}
    BY DEF Current
  <2>3. /\ IsFiniteSet({handle}) /\ Cardinality({handle}) = 1
        /\ IsFiniteSet({handle} \cup {x}) /\ Cardinality({handle} \cup {x}) \in {1, 2}
    <3>1. IsFiniteSet({handle}) /\ Cardinality({handle}) = 1
      BY FS_Singleton
    <3> QED
      BY <3>1, FS_AddElement
  <2>4. Cardinality(Live) <= Cardinality({handle} \cup {x}) /\ Cardinality(Live) \in Nat
    BY <2>1, <2>2, <2>3, FS_Subset, FS_CardinalityType
  <2>5. ~raced => Cardinality(Live) <= 1
    BY <2>2, <2>3, FS_Subset DEF ClientInv, Clients
  <2> QED
    BY <2>3, <2>4, <2>5
<1> QED
  BY <1>1, ClientInvariant, PTL
-----------------------------------------------------------------------------
(***************************************************************************)
(* What is saved.                                                          *)
(***************************************************************************)
\* One task at a time is between the first and the last use of mqtt_cfg.uri.
Alone == \A t, u \in Users(pc) : t = u

\* No task but t uses it.
Others(t) == \A u \in Task \ {t} : IF u = "app" THEN pc[u] \notin {"fill", "init"}
                                                ELSE pc[u] = "idle"

Cleaner == {"executor", "gpio"}

\* As long as tasks do not overlap: a pointer that is passed on stays the one of the
\* configuration, there is a uri to be saved, and outside the cleaning there is one
\* from app_main's client on.
Passed == \A t \in Task \ {"app"} : pc[t] = "write" => saving[t] = Shared
ToBeSaved == \A t \in Task \ {"app"} : pc[t] \in {"save", "write"} => cfgUri \in Texts
Loading == /\ pc["app"] = "fill" => cfgUri = Raw
           /\ pc["app"] = "init" => cfgUri \in Texts
Configured == ~Early /\ (\A t \in Cleaner : pc[t] \notin {"null", "create"}) => cfgUri \in Texts
NoClientYet == Early => handle = NoClient
Argument == pc["executor"] = "set" => setting \in Uri

\* What SavedWhenConnected says, and also says while other tasks are at work.
Saved == handle \in Client /\ phase[handle] = "connected"
         /\ (\A t \in Task \ {"app"} : pc[t] \notin {"null", "create", "save", "write"})
            => nvs = cfgUri

Orderly == Passed /\ ToBeSaved /\ Loading /\ Configured /\ NoClientYet /\ Argument /\ Saved

SavedInv == /\ IsFiniteSet(Users(pc))
            /\ ~raced /\ ~overlap => Alone /\ Orderly

LEMMA UsersFinite ==
    ASSUME PcType, IsFiniteSet(Users(pc)), NEW t \in Task, NEW from, NEW to \in Place,
           Goto(t, from, to)
    PROVE  /\ IsFiniteSet(Users(pc'))
           /\ ~overlap' => ~overlap /\ Alone'
<1>1. pc' = [pc EXCEPT ![t] = to] /\ overlap' = (overlap \/ Cardinality(Users(pc')) > 1)
  BY DEF Goto
<1>2. Users(pc') \subseteq Users(pc) \cup {t}
  BY <1>1 DEF PcType, Users
<1>3. IsFiniteSet(Users(pc) \cup {t})
  BY FS_AddElement
<1>4. IsFiniteSet(Users(pc'))
  BY <1>2, <1>3, FS_Subset
<1>5. ASSUME ~overlap' PROVE ~overlap /\ Alone'
  <2>1. ~overlap /\ ~(Cardinality(Users(pc')) > 1)
    BY <1>1, <1>5
  <2>2. Cardinality(Users(pc')) \in Nat
    BY <1>4, FS_CardinalityType
  <2>3. ASSUME NEW a \in Users(pc'), NEW b \in Users(pc'), a # b PROVE FALSE
    <3>1. {a, b} \subseteq Users(pc')
      OBVIOUS
    <3>2. IsFiniteSet({a}) /\ Cardinality({a}) = 1
      BY FS_Singleton
    <3>3. IsFiniteSet({a} \cup {b}) /\ Cardinality({a} \cup {b}) = 2
      <4>1. b \notin {a} /\ {a} \cup {b} = {b} \cup {a} /\ 1 + 1 = 2
        BY <2>3
      <4> QED
        BY <3>2, <4>1, FS_AddElement
    <3>4. {a} \cup {b} \subseteq Users(pc')
      OBVIOUS
    <3>5. Cardinality({a} \cup {b}) <= Cardinality(Users(pc'))
      BY <1>4, <3>4, FS_Subset
    <3> QED
      BY <2>1, <2>2, <3>3, <3>5
  <2> QED
    BY <2>1, <2>3 DEF Alone, Users
<1> QED
  BY <1>4, <1>5

\* A task that is a user before or after a step that overlaps with nothing is the
\* only one.
LEMMA OneUser ==
    ASSUME TypeInv, SavedInv, NEW t \in Task, NEW from \in Place, NEW to \in Place,
           Goto(t, from, to), ~raced, ~overlap'
    PROVE  /\ pc[t] = from /\ pc'[t] = to
           /\ \A u \in Task \ {t} : pc'[u] = pc[u]
           /\ IsFiniteSet(Users(pc)') /\ Alone' /\ ~overlap
           /\ Orderly
           /\ t # "app" /\ (from # "idle" \/ to # "idle") => Others(t)
           /\ t = "app" /\ (from \in {"fill", "init"} \/ to \in {"fill", "init"}) => Others(t)
<1>1. /\ pc[t] = from /\ pc'[t] = to
      /\ \A u \in Task \ {t} : pc'[u] = pc[u]
  BY GotoType DEF TypeInv, OtherType
<1>2. IsFiniteSet(Users(pc')) /\ ~overlap /\ Alone'
  BY UsersFinite DEF TypeInv, SavedInv
<1>3. Alone /\ Orderly
  BY <1>2 DEF SavedInv
<1>4. ASSUME t \in Users(pc) \/ t \in Users(pc') PROVE Others(t)
  <2> SUFFICES ASSUME NEW u \in Task \ {t}
               PROVE  IF u = "app" THEN pc[u] \notin {"fill", "init"} ELSE pc[u] = "idle"
    BY DEF Others
  <2>1. u \notin Users(pc) \/ u \notin Users(pc')
    BY <1>2, <1>3, <1>4 DEF Alone, Users
  <2> QED
    BY <1>1, <2>1 DEF Users
<1>5. t # "app" /\ (from # "idle" \/ to # "idle") => Others(t)
  BY <1>1, <1>4 DEF Users
<1>6. t = "app" /\ (from \in {"fill", "init"} \/ to \in {"fill", "init"}) => Others(t)
  BY <1>1, <1>4 DEF Users
<1> QED
  BY <1>1, <1>2, <1>3, <1>5, <1>6 DEF Users

\* It remains to show that a step keeps order.
LEMMA KeepsSaved ==
    ASSUME TypeInv, SavedInv, NEW t \in Task, NEW from \in Place, NEW to \in Place,
           Goto(t, from, to), ~raced' => ~raced, ~raced /\ ~raced' /\ ~overlap' => Orderly'
    PROVE  SavedInv'
<1>1. IsFiniteSet(Users(pc')) /\ (~overlap' => ~overlap /\ Alone')
  BY UsersFinite DEF TypeInv, SavedInv
<1> QED
  BY <1>1 DEF SavedInv, Users

\* A step that changes nothing Orderly speaks of but phases, and connects no client.
LEMMA QuietSaved ==
    ASSUME SavedInv, UNCHANGED <<handle, cfgUri, nvs, pc, setting, saving, raced, overlap>>,
           \A c \in Client : phase'[c] = "connected" => phase[c] = "connected"
    PROVE  SavedInv'
<1>1. IsFiniteSet(Users(pc))' /\ (Alone => Alone')
  BY DEF SavedInv, Users, Alone
<1>2. Orderly => Orderly'
  BY DEF Orderly, Passed, ToBeSaved, Loading, Configured, NoClientYet, Argument, Saved, Early
<1> QED
  BY <1>1, <1>2 DEF SavedInv

\* The values mqtt_cfg.uri can have without a uri are no texts.
LEMMA NoTexts == /\ Null \notin Texts /\ Freed \notin Texts /\ Raw \notin Texts
                 /\ Default \in Texts /\ Uri \subseteq Texts
  BY MqttAssumption DEF Texts

\* A client has connected: its uri is there.
LEMMA ConnectedSaved ==
    ASSUME TypeInv, ClientInv, SavedInv, NEW c \in Client, Connected(c) PROVE SavedInv'
<1>1. /\ c \in Task \ {"app", "executor", "gpio"} /\ Goto(c, "idle", "save")
      /\ "idle" \in Place /\ "save" \in Place /\ "idle" # "save"
      /\ UNCHANGED <<handle, cfgUri, nvs, saving, setting, raced>>
      /\ phase[c] = "connecting"
  BY Tasks, PlaceNames DEF Connected, config
<1> SUFFICES ASSUME ~raced, ~overlap' PROVE Orderly'
  BY <1>1, KeepsSaved
<1>2. /\ pc[c] = "idle" /\ pc'[c] = "save" /\ \A u \in Task \ {c} : pc'[u] = pc[u]
      /\ Orderly /\ Others(c)
  BY <1>1, OneUser
<1>3. "app" \in Task \ {c} /\ "executor" \in Task \ {c} /\ "gpio" \in Task \ {c}
  BY <1>1, Tasks
<1>4. handle = c
  BY <1>1 DEF ClientInv, Clients, Current, Live
<1>5. ~Early
  BY <1>1, <1>2, <1>4, MqttAssumption DEF Orderly, NoClientYet
<1>6. cfgUri \in Texts
  <2>1. \A t \in Cleaner : pc[t] = "idle"
    BY <1>2, <1>3 DEF Others, Cleaner
  <2> QED
    BY <1>2, <1>5, <2>1 DEF Orderly, Configured
<1>7. \A t \in Task \ {"app"} : pc'[t] = "write" => pc[t] = "write"
  BY <1>2
<1>8. Passed' /\ ToBeSaved'
  BY <1>1, <1>2, <1>6, <1>7 DEF Orderly, Passed, ToBeSaved
<1>9. Loading' /\ Configured' /\ NoClientYet' /\ Argument'
  BY <1>1, <1>2, <1>3, <1>5, <1>6 DEF Orderly, Loading, Configured, NoClientYet, Argument, Early
<1>10. Saved'
  BY <1>1, <1>2 DEF Saved
<1> QED
  BY <1>8, <1>9, <1>10 DEF Orderly

\* The pointer that is passed on, and what is written through it.
LEMMA TakeUriSaved ==
    ASSUME TypeInv, SavedInv, NEW t \in Task \ {"app"}, TakeUri(t) PROVE SavedInv'
<1>1. PICK to \in {"idle", "write"} :
        /\ Goto(t, "save", to) /\ "save" \in Place /\ to \in Place
        /\ to = IF cfgUri = Null THEN "idle" ELSE "write"
        /\ saving' = IF cfgUri = Null THEN saving ELSE [saving EXCEPT ![t] = Shared]
        /\ UNCHANGED <<phase, handle, cfgUri, nvs, setting, raced>>
  BY PlaceNames DEF TakeUri
<1> SUFFICES ASSUME ~raced, ~overlap' PROVE Orderly'
  BY <1>1, KeepsSaved
<1>2. /\ pc[t] = "save" /\ pc'[t] = to /\ \A u \in Task \ {t} : pc'[u] = pc[u]
      /\ Orderly /\ Others(t)
  BY <1>1, OneUser
<1>3. cfgUri \in Texts
  BY <1>2 DEF Orderly, ToBeSaved
<1>4. to = "write" /\ saving' = [saving EXCEPT ![t] = Shared]
  BY <1>1, <1>3, NoTexts
<1>5. saving'[t] = Shared /\ \A u \in Task \ {t} : saving'[u] = saving[u]
  BY <1>4 DEF TypeInv, ConfigType
<1>6. Passed' /\ ToBeSaved' /\ Saved'
  BY <1>1, <1>2, <1>3, <1>4, <1>5 DEF Orderly, Passed, ToBeSaved, Saved
<1>7. "app" \in Task \ {t}
  BY Tasks
<1>8. Loading' /\ NoClientYet' /\ Configured'
  BY <1>1, <1>2, <1>3, <1>7 DEF Orderly, Loading, Configured, NoClientYet, Early
<1>9. Argument'
  BY <1>1, <1>2, <1>4, Tasks DEF Orderly, Argument
<1> QED
  BY <1>6, <1>8, <1>9 DEF Orderly

LEMMA WriteUriSaved ==
    ASSUME TypeInv, SavedInv, NEW t \in Task \ {"app"}, WriteUri(t) PROVE SavedInv'
<1>1. /\ Goto(t, "write", "idle") /\ "write" \in Place /\ "idle" \in Place
      /\ nvs' \in Reads(IF saving[t] = Shared THEN cfgUri ELSE saving[t])
      /\ saving' = [saving EXCEPT ![t] = Null]
      /\ UNCHANGED <<phase, handle, cfgUri, setting, raced>>
  BY PlaceNames DEF WriteUri
<1> SUFFICES ASSUME ~raced, ~overlap' PROVE Orderly'
  BY <1>1, KeepsSaved
<1>2. /\ pc[t] = "write" /\ pc'[t] = "idle" /\ \A u \in Task \ {t} : pc'[u] = pc[u]
      /\ Orderly /\ Others(t)
  BY <1>1, OneUser
<1>3. cfgUri \in Texts /\ nvs' = cfgUri
  BY <1>1, <1>2 DEF Orderly, ToBeSaved, Passed, Reads
<1>4. \A u \in Task \ {t} : saving'[u] = saving[u]
  BY <1>1 DEF TypeInv, ConfigType
<1>5. Passed' /\ ToBeSaved' /\ Saved'
  BY <1>1, <1>2, <1>3, <1>4 DEF Orderly, Passed, ToBeSaved, Saved
<1>6. "app" \in Task \ {t}
  BY Tasks
<1>7. Loading' /\ NoClientYet' /\ Configured'
  BY <1>1, <1>2, <1>3, <1>6 DEF Orderly, Loading, Configured, NoClientYet, Early
<1>8. Argument'
  BY <1>1, <1>2, Tasks DEF Orderly, Argument
<1> QED
  BY <1>5, <1>7, <1>8 DEF Orderly

\* mqtt_cfg.uri is replaced or freed by the only task that uses it: nobody else has
\* passed it on, is about to, or is reading it.
LEMMA ReplacedSaved ==
    ASSUME TypeInv, Orderly, NEW t \in Task, Others(t),
           \A u \in Task \ {t} : pc'[u] = pc[u],
           t # "app" => pc'[t] # "write" /\ (pc'[t] = "save" => cfgUri' \in Texts)
    PROVE  /\ Passed' /\ ToBeSaved'
           /\ t # "app" => Loading' /\ (handle' = handle => NoClientYet')
<1>1. \A u \in Task \ {"app", t} : pc'[u] = "idle"
  BY DEF Others
<1>2. Passed' /\ ToBeSaved'
  BY <1>1 DEF Passed, ToBeSaved
<1>3. ASSUME t # "app" PROVE Loading' /\ (handle' = handle => NoClientYet')
  <2>1. pc'["app"] = pc["app"] /\ pc["app"] \notin {"fill", "init"}
    BY <1>3, Tasks DEF Others
  <2> QED
    BY <2>1 DEF Orderly, Loading, NoClientYet, Early
<1> QED
  BY <1>2, <1>3

\* Cleaning.
LEMMA CleaningSaved ==
    ASSUME TypeInv, SavedInv, NEW t \in Cleaner, Clean(t) \/ CleanNull(t) \/ CleanCreate(t)
    PROVE  SavedInv'
<1>1. t \in Task /\ t # "app"
  BY Tasks DEF Cleaner
<1>2. PICK from \in {"idle", "null", "create"}, to \in {"null", "create", "save"} :
        /\ Goto(t, from, to) /\ from \in Place /\ to \in Place
        /\ to = "save" => cfgUri' = Default
        /\ UNCHANGED <<phase, handle, nvs, setting, raced>>
  BY PlaceNames DEF Clean, CleanNull, CleanCreate, Assign
<1> SUFFICES ASSUME ~raced, ~overlap' PROVE Orderly'
  BY <1>1, <1>2, KeepsSaved
<1>3. /\ pc'[t] = to /\ \A u \in Task \ {t} : pc'[u] = pc[u]
      /\ Orderly /\ Others(t)
  BY <1>1, <1>2, OneUser
<1>4. Passed' /\ ToBeSaved' /\ Loading' /\ NoClientYet'
  BY <1>1, <1>2, <1>3, NoTexts, ReplacedSaved
<1>5. Configured' /\ Saved'
  BY <1>1, <1>2, <1>3, NoTexts DEF Configured, Saved
<1>6. Argument'
  BY <1>1, <1>2, <1>3, Tasks DEF Orderly, Argument
<1> QED
  BY <1>4, <1>5, <1>6 DEF Orderly

\* app_main: before its client there is none, and the uri it reads is there.
LEMMA AppSaved ==
    ASSUME TypeInv, ClientInv, SavedInv, AppMain PROVE SavedInv'
<1>1. "app" \in Task /\ "executor" \in Task \ {"app"} /\ Cleaner \subseteq Task \ {"app"}
  BY Tasks DEF Cleaner
<1>2. PICK from \in {"wait", "read", "fill", "init", "start"},
           to \in {"read", "fill", "init", "start", "done"} :
        /\ Goto("app", from, to) /\ from \in Place /\ to \in Place
        /\ UNCHANGED <<nvs, setting, raced>>
        /\ \/ /\ from = "wait" /\ to = "read" /\ UNCHANGED <<handle, phase, cfgUri, saving>>
           \/ /\ from = "read" /\ to = "init" /\ cfgUri' = Default /\ UNCHANGED <<handle, phase>>
           \/ /\ from = "read" /\ to = "fill" /\ cfgUri' = Raw /\ UNCHANGED <<handle, phase>>
           \/ /\ from = "fill" /\ to = "init" /\ UNCHANGED <<handle, phase>>
              /\ cfgUri' = IF cfgUri = Raw THEN nvs ELSE cfgUri
           \/ /\ from = "init" /\ to = "start" /\ UNCHANGED <<cfgUri, saving>>
              /\ (Creates \/ handle' = NoClient)
           \/ /\ from = "start" /\ to = "done" /\ UNCHANGED <<handle, cfgUri, saving>>
              /\ Start(handle)
  BY PlaceNames DEF AppMain, NetworkIsThere, ReadUri, FillUri, FirstInit, FirstStart, Assign, config
<1> SUFFICES ASSUME ~raced, ~overlap' PROVE Orderly'
  BY <1>1, <1>2, KeepsSaved
<1>3. /\ pc["app"] = from /\ pc'["app"] = to
      /\ \A u \in Task \ {"app"} : pc'[u] = pc[u]
      /\ Orderly
      /\ from \in {"fill", "init"} \/ to \in {"fill", "init"} => Others("app")
  BY <1>1, <1>2, OneUser
<1>4. Argument'
  BY <1>1, <1>2, <1>3 DEF Orderly, Argument
<1>5. CASE from = "wait"
  <2>1. /\ to = "read" /\ UNCHANGED <<handle, phase, cfgUri, saving, nvs>>
        /\ pc["app"] = "wait" /\ pc'["app"] = "read"
    BY <1>2, <1>3, <1>5
  <2>2. Early /\ Early'
    BY <2>1 DEF Early
  <2>3. Passed' /\ ToBeSaved'
    BY <1>3, <2>1 DEF Orderly, Passed, ToBeSaved
  <2>4. Loading' /\ Configured' /\ NoClientYet'
    BY <1>3, <2>1, <2>2 DEF Orderly, Loading, Configured, NoClientYet
  <2>5. Saved'
    BY <1>3, <2>1, <2>2, MqttAssumption DEF Orderly, NoClientYet, Saved
  <2> QED
    BY <1>4, <2>3, <2>4, <2>5 DEF Orderly
<1>6. CASE from \in {"read", "fill"}
  <2>1. Passed' /\ ToBeSaved'
    BY <1>1, <1>2, <1>3, <1>6, ReplacedSaved
  <2>2. Early' /\ handle' = NoClient
    BY <1>2, <1>3, <1>6 DEF Orderly, NoClientYet, Early
  <2>3. from = "fill" => cfgUri' = nvs /\ nvs \in Texts
    BY <1>2, <1>3, <1>6 DEF Orderly, Loading, TypeInv, ConfigType
  <2>4. Loading'
    BY <1>2, <1>3, <1>6, <2>3, NoTexts DEF Loading
  <2> QED
    BY <1>4, <2>1, <2>2, <2>4, MqttAssumption DEF Orderly, Configured, NoClientYet, Saved
<1>7. CASE from = "init"
  <2>1. cfgUri \in Texts /\ cfgUri' = cfgUri
    BY <1>2, <1>3, <1>7 DEF Orderly, Loading
  <2>2. ~Early' /\ Loading'
    BY <1>2, <1>3, <1>7 DEF Early, Loading
  <2>3. Passed' /\ ToBeSaved' /\ Configured'
    BY <1>2, <1>3, <1>7, <2>1 DEF Orderly, Passed, ToBeSaved, Configured
  <2>4. handle' \in Client => phase'[handle'] = "stopped"
    BY <1>2, <1>7, MqttAssumption DEF Creates, Becomes
  <2> QED
    BY <1>4, <2>2, <2>3, <2>4 DEF Orderly, NoClientYet, Saved
<1>8. CASE from = "start"
  <2>1. phase'[handle] = "connected" => phase[handle] = "connected"
    BY <1>2, <1>8 DEF Start, Becomes
  <2>2. /\ UNCHANGED <<handle, cfgUri, saving, nvs>>
        /\ pc["app"] = "start" /\ pc'["app"] = "done"
    BY <1>2, <1>3, <1>8
  <2>3. ~Early /\ ~Early'
    BY <2>2 DEF Early
  <2>4. Passed' /\ ToBeSaved'
    BY <1>3, <2>2 DEF Orderly, Passed, ToBeSaved
  <2>5. Loading' /\ NoClientYet'
    BY <2>2, <2>3 DEF Loading, NoClientYet
  <2>6. Configured'
    BY <1>1, <1>3, <2>2, <2>3 DEF Orderly, Configured
  <2>7. Saved'
    BY <1>3, <2>1, <2>2 DEF Orderly, Saved
  <2> QED
    BY <1>4, <2>4, <2>5, <2>6, <2>7 DEF Orderly
<1> QED
  BY <1>2, <1>5, <1>6, <1>7, <1>8

\* A command that neither replaces the configuration nor connects a client.
LEMMA CommandSaved ==
    ASSUME TypeInv, SavedInv, StartNew \/ StartMqtt \/ StopMqtt \/ RestartMqtt \/ SayConnected
    PROVE  SavedInv'
<1>1. PICK from \in {"idle", "start new", "say on", "say off"},
           to \in {"idle", "start new", "say on", "say off"} :
        /\ Goto("executor", from, to) /\ from \in Place /\ to \in Place
        /\ UNCHANGED <<handle, cfgUri, nvs, setting, saving, raced>>
        /\ Start(handle) \/ Stop(handle) \/ UNCHANGED phase
  BY PlaceNames DEF StartNew, StartMqtt, StopMqtt, RestartMqtt, SayConnected, config
<1> SUFFICES ASSUME ~raced, ~overlap' PROVE Orderly'
  BY <1>1, Tasks, KeepsSaved
<1>2. /\ pc["executor"] = from /\ pc'["executor"] = to
      /\ \A u \in Task \ {"executor"} : pc'[u] = pc[u]
      /\ Orderly
  BY <1>1, Tasks, OneUser
<1>3. handle \in Client => (phase'[handle] = "connected" => phase[handle] = "connected")
  BY <1>1 DEF Start, Stop, Becomes
<1>4. \A places \in {{"write"}, {"save", "write"}, {"null", "create"},
                     {"null", "create", "save", "write"}}, u \in Task :
        pc'[u] \in places <=> pc[u] \in places
  BY <1>2
<1>5. pc'["app"] = pc["app"] /\ pc'["executor"] # "set" /\ Cleaner \subseteq Task
  BY <1>2, Tasks DEF Cleaner
<1>6. Passed' /\ ToBeSaved'
  BY <1>1, <1>2, <1>4 DEF Orderly, Passed, ToBeSaved
<1>7. Configured' /\ Saved'
  BY <1>1, <1>2, <1>3, <1>4, <1>5 DEF Orderly, Configured, Saved, Early
<1>8. Loading' /\ NoClientYet' /\ Argument'
  BY <1>1, <1>2, <1>5 DEF Orderly, Loading, NoClientYet, Argument, Early
<1> QED
  BY <1>6, <1>7, <1>8 DEF Orderly

\* set_mqtt_uri: without a client until the new configuration is there.
LEMMA SetUriSaved ==
    ASSUME TypeInv, SavedInv, NEW u \in Uri, SetUri(u) PROVE SavedInv'
<1>1. /\ Goto("executor", "idle", "set") /\ "idle" \in Place /\ "set" \in Place
      /\ UNCHANGED <<handle, cfgUri, nvs, saving>> /\ setting' = u
      /\ raced' = (raced \/ pc["app"] # "done") /\ Destroy(handle)
  BY PlaceNames DEF SetUri, config
<1> SUFFICES ASSUME ~raced, ~overlap', ~raced' PROVE Orderly'
  BY <1>1, Tasks, KeepsSaved
<1>2. /\ pc'["executor"] = "set" /\ \A t \in Task \ {"executor"} : pc'[t] = pc[t]
      /\ pc["executor"] = "idle" /\ Orderly
  BY <1>1, Tasks, OneUser
<1>3. handle \in Client => phase'[handle] = "none"
  BY <1>1 DEF Destroy, Becomes
<1>4. Passed' /\ ToBeSaved'
  BY <1>1, <1>2 DEF Orderly, Passed, ToBeSaved
<1>5. pc'["app"] = pc["app"] /\ Cleaner \subseteq Task
  BY <1>2, Tasks DEF Cleaner
<1>6. Loading' /\ NoClientYet' /\ Argument' /\ Saved'
  BY <1>1, <1>2, <1>3, <1>5 DEF Orderly, Loading, NoClientYet, Argument, Saved, Early
<1>7. Configured'
  BY <1>1, <1>2, <1>5 DEF Orderly, Configured, Early, Cleaner
<1> QED
  BY <1>4, <1>6, <1>7 DEF Orderly

LEMMA NewUriSaved == TypeInv /\ ClientInv /\ SavedInv /\ NewUri => SavedInv'
<1> SUFFICES ASSUME TypeInv, ClientInv, SavedInv, NewUri PROVE SavedInv'
  OBVIOUS
<1>1. /\ Goto("executor", "set", "new client") /\ "set" \in Place /\ "new client" \in Place
      /\ UNCHANGED <<handle, phase, nvs, raced>> /\ cfgUri' = setting
  BY PlaceNames DEF NewUri, Assign
<1> SUFFICES ASSUME ~raced, ~overlap' PROVE Orderly'
  BY <1>1, Tasks, KeepsSaved
<1>2. /\ pc["executor"] = "set" /\ pc'["executor"] = "new client"
      /\ \A t \in Task \ {"executor"} : pc'[t] = pc[t]
      /\ Orderly /\ Others("executor")
  BY <1>1, Tasks, OneUser
<1>3. cfgUri' \in Texts
  BY <1>1, <1>2, NoTexts DEF Orderly, Argument
<1>4. Passed' /\ ToBeSaved' /\ Loading' /\ NoClientYet'
  BY <1>1, <1>2, Tasks, ReplacedSaved
<1>5. handle \notin Live
  BY <1>2 DEF ClientInv, Clients, Current, Between
<1>6. Configured' /\ Argument' /\ Saved'
  BY <1>1, <1>2, <1>3, <1>5 DEF Configured, Argument, Saved, Live
<1> QED
  BY <1>4, <1>6 DEF Orderly

LEMMA NewClientSaved == TypeInv /\ ClientInv /\ SavedInv /\ NewClient => SavedInv'
<1> SUFFICES ASSUME TypeInv, ClientInv, SavedInv, NewClient PROVE SavedInv'
  OBVIOUS
<1>1. PICK to \in {"start new", "idle"} :
        /\ Goto("executor", "new client", to) /\ "new client" \in Place /\ to \in Place
        /\ UNCHANGED <<cfgUri, nvs, setting, saving, raced>>
        /\ Creates \/ handle' = NoClient
  BY PlaceNames DEF NewClient, config
<1> SUFFICES ASSUME ~raced, ~overlap' PROVE Orderly'
  BY <1>1, Tasks, KeepsSaved
<1>2. /\ pc["executor"] = "new client" /\ pc'["executor"] = to
      /\ \A t \in Task \ {"executor"} : pc'[t] = pc[t]
      /\ Orderly
  BY <1>1, Tasks, OneUser
<1>3. handle' \in Client => phase'[handle'] = "stopped"
  BY <1>1, MqttAssumption DEF Creates, Becomes
<1>4. ~Early
  BY <1>2 DEF ClientInv, Clients, Between
<1>5. pc'["app"] = pc["app"] /\ Cleaner \subseteq Task
  BY <1>2, Tasks DEF Cleaner
<1>6. Passed' /\ ToBeSaved'
  BY <1>1, <1>2 DEF Orderly, Passed, ToBeSaved
<1>7. Loading' /\ NoClientYet' /\ Argument' /\ Saved'
  BY <1>1, <1>2, <1>3, <1>4, <1>5 DEF Orderly, Loading, NoClientYet, Argument, Saved, Early
<1>8. Configured'
  BY <1>1, <1>2, <1>5 DEF Orderly, Configured, Early, Cleaner
<1> QED
  BY <1>6, <1>7, <1>8 DEF Orderly

\* Nobody uses anything yet.
LEMMA FreshSaved == (Init => SavedInv) /\ (Restart => SavedInv')
<1>1. Users(Idle) = {}
  BY Tasks DEF Users, Idle
<1>2. \A t \in Task \ {"app"} : Idle[t] = "idle"
  BY DEF Idle
<1>3. Idle["app"] = "wait" /\ Idle["executor"] = "idle"
  BY Tasks DEF Idle
<1>4. IsFiniteSet({})
  BY FS_EmptySet
<1>5. ASSUME Init PROVE SavedInv
  BY <1>1, <1>2, <1>3, <1>4, <1>5, MqttAssumption
     DEF Init, SavedInv, Alone, Orderly, Passed, ToBeSaved, Loading, Configured, NoClientYet,
         Argument, Saved, Early
<1>6. ASSUME Restart PROVE SavedInv'
  <2>1. pc' = Idle /\ handle' = NoClient
    BY <1>6 DEF Restart
  <2>2. Users(pc)' = {}
    BY <1>1, <2>1 DEF Users
  <2> QED
    BY <1>2, <1>3, <1>4, <2>1, <2>2, MqttAssumption
       DEF SavedInv, Alone, Orderly, Passed, ToBeSaved, Loading, Configured, NoClientYet,
           Argument, Saved, Early
<1> QED
  BY <1>5, <1>6

LEMMA StepSaved == TypeInv /\ ClientInv /\ SavedInv /\ [Next]_vars => SavedInv'
<1> SUFFICES ASSUME TypeInv, ClientInv, SavedInv, [Next]_vars PROVE SavedInv'
  OBVIOUS
<1>1. CASE AppMain
  BY <1>1, AppSaved
<1>2. CASE Begin \/ NewUri \/ NewClient \/ StartNew \/ SayConnected
  BY <1>2, SetUriSaved, NewUriSaved, NewClientSaved, CommandSaved DEF Begin
<1>3. CASE Cleaning("executor") \/ Cleaning("gpio") \/ Clean("executor") \/ Clean("gpio")
  <2>1. Cleaner \subseteq Task \ {"app"} /\ "executor" \in Cleaner /\ "gpio" \in Cleaner
    BY Tasks DEF Cleaner
  <2> QED
    BY <1>3, <2>1, CleaningSaved, TakeUriSaved, WriteUriSaved DEF Cleaning
<1>4. ASSUME NEW c \in Client, ClientTask(c) PROVE SavedInv'
  <2>1. c \in Task \ {"app"}
    BY Tasks
  <2>2. CASE Disconnected(c) \/ Retry(c)
    <3>1. \A d \in Client : phase'[d] = "connected" => phase[d] = "connected"
      BY <2>2 DEF Disconnected, Retry, TypeInv, PhaseType
    <3> QED
      BY <2>2, <3>1, QuietSaved DEF Disconnected, Retry, config
  <2> QED
    BY <1>4, <2>1, <2>2, ConnectedSaved, TakeUriSaved, WriteUriSaved DEF ClientTask
<1>5. CASE BrokerChanges
  BY <1>5, QuietSaved DEF BrokerChanges, config
<1>6. CASE Restart
  BY <1>6, FreshSaved
<1>7. CASE UNCHANGED vars
  BY <1>7, QuietSaved DEF vars
<1> QED
  BY <1>1, <1>2, <1>3, <1>4, <1>5, <1>6, <1>7 DEF Next, Executor

LEMMA SavedInvariant == Spec => []SavedInv
  BY FreshSaved, StepSaved, TypeInvariant, ClientInvariant, PTL DEF Spec

\* A connected client's uri survives a restart, for any number of clients and uris,
\* unless SET_MQTT_URI has overtaken app_main or two tasks have used the
\* configuration at the same time.
THEOREM ConnectedIsSaved == Spec => []SavedWhenConnected
<1>1. SavedInv => SavedWhenConnected
  <2> SUFFICES ASSUME SavedInv, ~raced, ~overlap, Users(pc) = {}, handle \in Client,
                      phase[handle] = "connected"
               PROVE  nvs = cfgUri
    BY DEF SavedWhenConnected
  <2>1. \A t \in Task \ {"app"} : pc[t] = "idle"
    BY DEF Users
  <2> QED
    BY <2>1 DEF SavedInv, Orderly, Saved
<1> QED
  BY <1>1, SavedInvariant, PTL
=============================================================================
