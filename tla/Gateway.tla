------------------------------ MODULE Gateway ------------------------------
(***************************************************************************)
(* Bluetooth, the upload of scan results and the commands with texts in one*)
(* gateway: app_main starts one after the other, a restart takes everything*)
(* with it, and the scans need what the start-up of Bluetooth has set.     *)
(***************************************************************************)
EXTENDS Bluetooth, ScanUpload, TextCommands

gatewayVars == <<app, bluetoothVars, uploadVars, textVars>>

GatewayInit == /\ app = "stack"
               /\ BluetoothInit
               /\ UploadInit
               /\ TextInit

\* esp_ble_gap_start_scanning fails unless the parameters have been set.
ScanIsSetUp == scanning' => scanning \/ scanSet

\* The command RESTART, the end of an update, loss of power, a panic: of Send2Cloud
\* without a client, or of a result without memory for its copy.
Restart == /\ Goto("stack")
           /\ BluetoothReset
           /\ UploadReset
           /\ TextReset

Links == BluetoothNext /\ UNCHANGED <<uploadVars, textVars>>
Uploads == UploadNext /\ ScanIsSetUp /\ UNCHANGED <<bluetoothVars, textVars>>
Texts == TextNext /\ UNCHANGED <<bluetoothVars, uploadVars>>

GatewayNext == Links \/ Uploads \/ Texts \/ Restart

GatewaySpec == GatewayInit /\ [][GatewayNext]_gatewayVars /\ BluetoothFairness
-----------------------------------------------------------------------------
\* Unless something has failed or the gateway restarts for ever, it can be found or is
\* connected to, with both services complete and started, again and again: no handler
\* leaves the chain of requests and answers hanging, and no disconnection ends the
\* advertising.
FoundAgain == []<><<Restart>>_gatewayVars \/ []<>(trouble \/ Available)
=============================================================================
