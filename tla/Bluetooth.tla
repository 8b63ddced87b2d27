----------------------------- MODULE Bluetooth -----------------------------
(***************************************************************************)
(* Bluetooth from power-on to the clients that come and go.                *)
(*                                                                         *)
(*   app_main --register--> the stack --events--> the Bluetooth task       *)
(*                              ^------------requests------'               *)
(*                                                                         *)
(* init_ble registers four applications with the stack, the servers A and  *)
(* B and the clients cA and cB.  Everything else is done in callbacks, one *)
(* after the other in the Bluetooth task: each answer of the stack makes a *)
(* handler ask for the next part of its service, until both tables are     *)
(* complete and the gateway advertises.  A link ends the advertising, and  *)
(* the handler of its end asks for it again.                               *)
(*                                                                         *)
(* The stack is external.  It works through what it is asked in order,     *)
(* and answers in order; any request may fail, at once (the call returns an*)
(* error) or in its answer.  It tells the applications in LinkApps of a    *)
(* link, those that register later included.                               *)
(***************************************************************************)
EXTENDS Integers, FiniteSets, Boot

CONSTANT LinkApps   \* the applications that are told of links

Server == {"A", "B"}
App == Server \cup {"cA", "cB"}

ASSUME LinkAssumption == Server \subseteq LinkApps /\ LinkApps \subseteq App

VARIABLES
    \* the stack
    asked,          \* the requests it has not got to
    events,         \* its answers, and its news of links, for the Bluetooth task
    registered,     \* the applications it knows
    started,        \* the services it has started
    scanSet,        \* have the parameters of scans been set?
    advertising,
    link,           \* is a client connected?
    \* the program
    known,          \* the parts of each service whose handles are stored
    configDone,     \* adv_config_done, the flags that are set
    bleConnect,     \* ble_connect
    serverConnect,  \* ble_server_connect
    \* history since the start
    wiped,          \* what app_main has thrown away by ble_connect = 0
    trouble         \* has a call or a request failed?

stackVars == <<asked, events, registered, started, scanSet, advertising, link>>
countVars == <<bleConnect, serverConnect, wiped>>
bluetoothVars == <<stackVars, known, configDone, countVars, trouble>>

BluetoothInit ==
    /\ asked = <<>> /\ events = <<>> /\ registered = {} /\ started = {} /\ scanSet = FALSE
    /\ advertising = FALSE /\ link = FALSE
    /\ known = [s \in Server |-> {}] /\ configDone = {}
    /\ bleConnect = 0 /\ serverConnect = FALSE
    /\ wiped = 0 /\ trouble = FALSE

BluetoothReset ==
    /\ asked' = <<>> /\ events' = <<>> /\ registered' = {} /\ started' = {} /\ scanSet' = FALSE
    /\ advertising' = FALSE /\ link' = FALSE
    /\ known' = [s \in Server |-> {}] /\ configDone' = {}
    /\ bleConnect' = 0 /\ serverConnect' = FALSE
    /\ wiped' = 0 /\ trouble' = FALSE

\* Calls of the stack, one after the other: some may be refused at once, which is
\* logged at most.  What is left of n of them is given by their places, in order.
Left(n) == {left \in UNION {[1..m -> 1..n] : m \in 0..n} :
                \A i, j \in DOMAIN left : i < j => left[i] < left[j]}
Ask(requests) ==
    \E left \in Left(Len(requests)) :
        /\ asked' = asked \o [i \in DOMAIN left |-> requests[left[i]]]
        /\ trouble' = (trouble \/ DOMAIN left # DOMAIN requests)
-----------------------------------------------------------------------------
(***************************************************************************)
(* app_main.                                                               *)
(***************************************************************************)
\* The controller, the host and the three callbacks.  Whatever fails, init_ble
\* returns and app_main goes on without Bluetooth.
StartStack == /\ app = "stack"
              /\ \/ Goto("A") /\ UNCHANGED trouble
                 \/ Goto("leds") /\ trouble' = TRUE
              /\ UNCHANGED <<stackVars, known, configDone, countVars>>

\* A server that is refused ends init_ble as well, a client does not.
Register(a) == /\ \/ Does(a) /\ asked' = Append(asked, <<"register", a>>) /\ UNCHANGED trouble
                  \/ /\ a \in Server /\ app = a /\ Goto("leds")
                     /\ trouble' = TRUE /\ UNCHANGED asked
                  \/ /\ a \notin Server /\ Does(a)
                     /\ trouble' = TRUE /\ UNCHANGED asked
               /\ UNCHANGED <<events, registered, started, scanSet, advertising, link,
                              known, configDone, countVars>>

\* ble_connect = 0, while Bluetooth is up already.
ResetCount == /\ Does("leds")
              /\ bleConnect' = 0 /\ wiped' = wiped + bleConnect
              /\ UNCHANGED <<stackVars, known, configDone, serverConnect, trouble>>
-----------------------------------------------------------------------------
(***************************************************************************)
(* The stack.                                                              *)
(***************************************************************************)
\* Takes the next request, of one of these kinds; ok is its outcome.
Answers(ops, ok) == /\ asked # <<>> /\ Head(asked)[1] \in ops
                    /\ asked' = Tail(asked)
                    /\ trouble' = (trouble \/ ~ok)
                    /\ UNCHANGED <<known, configDone, countVars, app>>

Event(kind, a, ok) == <<kind, a, ok>>
News(kind, a, told) == IF a \in told \cap LinkApps THEN <<Event(kind, a, TRUE)>> ELSE <<>>
LinkEvents(kind, told) == News(kind, "A", told) \o News(kind, "B", told)
                          \o News(kind, "cA", told) \o News(kind, "cB", told)

\* An application that registers while there is a link is told of it.
Registers(ok) ==
    LET a == Head(asked)[2] IN
    /\ Answers({"register"}, ok)
    /\ registered' = IF ok THEN registered \cup {a} ELSE registered
    /\ events' = Append(events, Event("registered", a, ok))
                     \o (IF ok /\ link THEN LinkEvents("connect", {a}) ELSE <<>>)
    /\ UNCHANGED <<started, scanSet, advertising, link>>

\* A part of a service; it needs the part before it.
Before == [create |-> {}, char |-> {"create"}, descr |-> {"create", "char"}]
Builds(ok) ==
    LET op == Head(asked)[1] s == Head(asked)[2] IN
    /\ Answers({"create", "char", "descr"}, ok)
    /\ ok => Before[op] \subseteq known[s]
    /\ events' = Append(events, Event(op, s, ok))
    /\ UNCHANGED <<registered, started, scanSet, advertising, link>>

\* The data of the advertisements and of the scan responses; no handler looks at the
\* outcome.
Configures == /\ Answers({"advData", "scanRsp"}, TRUE)
              /\ events' = Append(events, Event(Head(asked)[1], "gap", TRUE))
              /\ UNCHANGED <<registered, started, scanSet, advertising, link>>

SetsScanParams(ok) == /\ Answers({"scanParams"}, ok)
                      /\ scanSet' = (scanSet \/ ok)
                      /\ UNCHANGED <<events, registered, started, advertising, link>>

\* A service is started, its report is only logged.
Starts(ok) == LET s == Head(asked)[2] IN
              /\ Answers({"start"}, ok)
              /\ ok => "create" \in known[s]
              /\ started' = IF ok THEN started \cup {s} ELSE started
              /\ UNCHANGED <<events, registered, scanSet, advertising, link>>

Advertises(ok) == /\ Answers({"advertise"}, ok)
                  /\ advertising' = (advertising \/ ok)
                  /\ UNCHANGED <<events, registered, started, scanSet, link>>

Stack == \/ Configures
         \/ \E ok \in BOOLEAN : \/ Registers(ok) \/ Builds(ok) \/ Starts(ok)
                                \/ SetsScanParams(ok) \/ Advertises(ok)

\* A client connects, which ends the advertising; it leaves, or is lost.
LinkUp == /\ advertising
          /\ link' = TRUE /\ advertising' = FALSE
          /\ events' = events \o LinkEvents("connect", registered)
          /\ UNCHANGED <<asked, registered, started, scanSet, known, configDone,
                         countVars, trouble, app>>
LinkDown == /\ link
            /\ link' = FALSE
            /\ events' = events \o LinkEvents("disconnect", registered)
            /\ UNCHANGED <<asked, registered, started, scanSet, advertising, known, configDone,
                           countVars, trouble, app>>
-----------------------------------------------------------------------------
(***************************************************************************)
(* The Bluetooth task: gatts_event_handler, esp_gattc_cb, gap_event_handler*)
(***************************************************************************)
Handles(kinds) == /\ events # <<>> /\ Head(events)[1] \in kinds
                  /\ events' = Tail(events)
                  /\ UNCHANGED <<registered, started, scanSet, advertising, link, wiped, app>>
Quietly == UNCHANGED <<asked, trouble>>

\* What each application asks for once it is registered.  The two flags are set
\* whether or not the two calls before them have succeeded.
First(a) == CASE a = "A"  -> <<<<"advData", "gap">>, <<"scanRsp", "gap">>, <<"create", "A">>>>
              [] a = "B"  -> <<<<"create", "B">>>>
              [] a = "cA" -> <<<<"scanParams", "gap">>>>
              [] a = "cB" -> <<>>
OnRegistered ==
    LET a == Head(events)[2] ok == Head(events)[3] IN
    /\ Handles({"registered"})
    /\ IF ok THEN Ask(First(a)) ELSE Quietly
    /\ configDone' = IF ok /\ a = "A" THEN {"advData", "scanRsp"} ELSE configDone
    /\ UNCHANGED <<known, bleConnect, serverConnect>>

\* The handle is stored, whether there is one or not, and the next part asked for.
\* Mutant: the descriptor is not.
OnBuiltNoDescriptor ==
    LET part == Head(events)[1] s == Head(events)[2] ok == Head(events)[3] IN
    /\ Handles({"create", "char", "descr"})
    /\ known' = [known EXCEPT ![s] = IF ok THEN @ \cup {part} ELSE @]
    /\ IF part = "create" THEN Ask(<<<<"start", s>>, <<"char", s>>>>) ELSE Quietly
    /\ UNCHANGED <<configDone, bleConnect, serverConnect>>
OnBuilt ==
    LET part == Head(events)[1] s == Head(events)[2] ok == Head(events)[3] IN
    /\ Handles({"create", "char", "descr"})
    /\ known' = [known EXCEPT ![s] = IF ok THEN @ \cup {part} ELSE @]
    /\ CASE part = "create" -> Ask(<<<<"start", s>>, <<"char", s>>>>)
         [] part = "char"   -> Ask(<<<<"descr", s>>>>)
         [] part = "descr"  -> Quietly
    /\ UNCHANGED <<configDone, bleConnect, serverConnect>>

\* The last of the two completions starts the advertising.
OnConfigured == /\ Handles({"advData", "scanRsp"})
                /\ configDone' = configDone \ {Head(events)[1]}
                /\ IF configDone' = {} THEN Ask(<<<<"advertise", "gap">>>>) ELSE Quietly
                /\ UNCHANGED <<known, bleConnect, serverConnect>>

\* Server B and client cB each count the link, server B notes it.
Counts(a) == a \in {"B", "cB"}
OnConnect ==
    LET a == Head(events)[2] IN
    /\ Handles({"connect"}) /\ Quietly
    /\ bleConnect' = IF Counts(a) THEN bleConnect + 1 ELSE bleConnect
    /\ serverConnect' = IF a = "B" THEN TRUE ELSE serverConnect
    /\ UNCHANGED <<known, configDone>>

\* Server A asks for the advertising again.  Mutant: so does server B.
OnDisconnectTwice ==
    LET a == Head(events)[2] IN
    /\ Handles({"disconnect"})
    /\ IF a \in Server THEN Ask(<<<<"advertise", "gap">>>>) ELSE Quietly
    /\ bleConnect' = IF Counts(a) THEN bleConnect - 1 ELSE bleConnect
    /\ serverConnect' = IF a = "B" THEN FALSE ELSE serverConnect
    /\ UNCHANGED <<known, configDone>>
OnDisconnect ==
    LET a == Head(events)[2] IN
    /\ Handles({"disconnect"})
    /\ IF a = "A" THEN Ask(<<<<"advertise", "gap">>>>) ELSE Quietly
    /\ bleConnect' = IF Counts(a) THEN bleConnect - 1 ELSE bleConnect
    /\ serverConnect' = IF a = "B" THEN FALSE ELSE serverConnect
    /\ UNCHANGED <<known, configDone>>

Callback == OnRegistered \/ OnBuilt \/ OnConfigured \/ OnConnect \/ OnDisconnect

InitBle == StartStack \/ (\E a \in App : Register(a)) \/ ResetCount
BluetoothNext == InitBle \/ Stack \/ LinkUp \/ LinkDown \/ Callback

\* app_main gets through init_ble, the stack answers, and the Bluetooth task is
\* scheduled; nothing is assumed of the clients.
BluetoothFairness == /\ WF_<<app, bluetoothVars>>(InitBle)
                     /\ WF_<<app, bluetoothVars>>(Stack)
                     /\ WF_<<app, bluetoothVars>>(Callback)
-----------------------------------------------------------------------------
Quiet == asked = <<>> /\ events = <<>>

\* There is one client at a time: the gateway, which keeps one conn_id per service,
\* can only be connected to while nobody is.  And once the handlers have heard of
\* everything, ble_server_connect and the counter behind LED2 say what is the case:
\* two applications, server B and client cB, count each link, whenever they have been
\* registered and whatever has failed, less what app_main threw away when it
\* initialised the counter after Bluetooth was up.
ConnectionTruth ==
    /\ advertising => ~link
    /\ Quiet => LET told == IF link THEN registered \cap LinkApps ELSE {} IN
                /\ serverConnect = ("B" \in told)
                /\ bleConnect + wiped = Cardinality({a \in told : Counts(a)})

\* Unless something has failed, the gateway can be found or is connected to, again
\* and again, with both services complete and started.
Available == /\ advertising \/ link
             /\ \A s \in Server : known[s] = {"create", "char", "descr"}
             /\ Server \subseteq started

\* With both servers registered, nothing failed and nothing outstanding the gateway is
\* available: no handler lets the thread of calls and answers drop.
NothingHangs == ~trouble /\ Quiet /\ Past("B") => Available
=============================================================================
