------------------------------- MODULE Boot -------------------------------
(***************************************************************************)
(* The order in which app_main starts the parts of the gateway.  It runs   *)
(* in one task and every step is left behind for good; the parts it has    *)
(* started run on in tasks of their own and do not wait for it.            *)
(***************************************************************************)
EXTENDS Integers, Sequences

VARIABLE app    \* the step app_main comes to next

\* init_ble with its four registrations; the LED's flags; everything from WiFi to
\* transpond_task; the MQTT client, which waits for the network; the scans.
BootOrder == <<"stack", "A", "B", "cA", "cB", "leds", "tasks", "mqtt", "scan", "done">>
Step == {BootOrder[i] : i \in DOMAIN BootOrder}

At(step) == CHOOSE i \in DOMAIN BootOrder : BootOrder[i] = step

\* Is app_main past a step?
Past(step) == At(app) > At(step)

Goto(to) == app' = to
Does(step) == app = step /\ Goto(BootOrder[At(step) + 1])
=============================================================================
