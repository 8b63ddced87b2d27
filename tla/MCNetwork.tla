----------------------------- MODULE MCNetwork -----------------------------
(* One configuration a client may set, and at most two events that wait. *)
EXTENDS Network
=============================================================================
