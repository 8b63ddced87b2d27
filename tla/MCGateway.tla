----------------------------- MODULE MCGateway -----------------------------
(***************************************************************************)
(* Gateway for TLC.  Its three parts share app_main, a restart and the scan*)
(* parameters, and no other variable: what the world does to one of them   *)
(* need not be combined with what it does to another.  Each behaviour has  *)
(* links and failing calls, or scan results and changes of the MQTT client,*)
(* or requests, which arrive when all else has come to rest.  app_main and *)
(* the restarts are in all; with links it stops where it has nothing more  *)
(* to do with Bluetooth, and once the scans' parameters are set, which is  *)
(* all that results need, Bluetooth comes to rest before they go on.  After*)
(* the first failure no property is about the tables of the services, and  *)
(* no more of them is built.                                               *)
(***************************************************************************)
EXTENDS Gateway

VARIABLE scope      \* which of these a behaviour has

MCInit == GatewayInit /\ scope \in {"links", "results", "requests"}
MCNext == /\ \/ /\ Links \/ Uploads \/ Restart
                /\ IF scope = "links" THEN ~Past("tasks")' ELSE ~link' /\ ~trouble'
                /\ trouble => ~Builds(TRUE) /\ ~Starts(TRUE)
                /\ \/ UNCHANGED uploadVars
                   \/ scope = "results" /\ (scanSet => Quiet)
             \/ /\ scope = "requests" /\ app = "done" /\ Quiet
                /\ Texts
          /\ UNCHANGED scope
MCSpec == MCInit /\ [][MCNext]_<<gatewayVars, scope>> /\ BluetoothFairness

\* Texts of one and two characters, with separators among them, and the longest that
\* an array of three or four holds.
Names == {<<"a">>, <<"a", "b">>, <<"a", "@">>, <<"a", ":">>, <<"a", "b", "c">>}
Words == Names \cup {<<>>, <<"@", "a">>, <<":", "b">>}
Hosts == {<<"h">>, <<"h", ":", "1">>}
Qos == {"0", "2"}

MCResidues == {<<>>, <<"r">>, <<"@">>}
MCRequests ==
    [op : {"wifi"}, ssid : Names \cup {<<"a", "b", "c", "d">>}, password : Words]
    \cup [op : {"uri"}, user : Names, password : Words, host : Hosts]
    \cup [op : {"config"}, connected : BOOLEAN, user : Words, password : Words, host : Hosts]
    \cup [op : {"subscribe"}, qos : Qos, topic : Names]
    \cup [op : {"unsubscribe"}, topic : Names]
    \cup [op : {"publish"}, qos : Qos, topic : Names, data : Words]
    \cup [op : {"state"}, connected : BOOLEAN, ethernet : BOOLEAN,
          ip : {<<>>, <<"1", "2">>}, ssid : Words]
    \cup [op : {"message"}, topic : Names, data : Words]
    \cup [op : {"byte"}, n : 0..255]
=============================================================================
