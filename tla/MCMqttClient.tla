---------------------------- MODULE MCMqttClient ----------------------------
(* Two uris to set, one of them unparsable; three clients, one more than can *)
(* exist at the same time.                                                   *)
EXTENDS MqttClient
=============================================================================
