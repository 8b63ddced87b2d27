------------------------------ MODULE MCButton ------------------------------
(* The real durations, and a queue of three interrupts: more than one press *)
(* and one bounce before gpio_task gets to the first.                       *)
EXTENDS Button
=============================================================================
