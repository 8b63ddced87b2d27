-------------------------- MODULE MCNotifyChannel --------------------------
(***************************************************************************)
(* NotifyChannel for TLC: a reply of two pieces, a notification as long    *)
(* as the buffer, a status of exactly one piece, a message of the button,  *)
(* and one that is longer than the buffer.  The digits of the reply and of *)
(* the longest notification make up lengths beyond the buffer.             *)
(***************************************************************************)
EXTENDS NotifyChannel

MCMsg == {"reply", "message", "huge", "status", "cleared"}
MCFrom == [m \in MCMsg |-> CASE m = "reply"               -> "executor"
                             [] m \in {"message", "huge"} -> "mqtt"
                             [] m = "status"              -> "ota"
                             [] OTHER                     -> "gpio"]
MCSize == [m \in MCMsg |-> CASE m = "reply"   -> 5
                             [] m = "message" -> 6
                             [] m = "huge"    -> 7
                             [] OTHER         -> 3]
=============================================================================
