-------------------------- MODULE FirmwareUpdate --------------------------
(***************************************************************************)
(* What an over-the-air update promises, without partitions, downloads or  *)
(* tasks: at every moment, a loss of power included, there is a whole      *)
(* image to boot; the running image changes only by a restart, and only to *)
(* the image installed last; a second image is installed only after the    *)
(* restart into the first.  Ota implements this module.                    *)
(***************************************************************************)
CONSTANTS
    Image,    \* the images the bootloader accepts
    Factory   \* the one the gateway is delivered with

VARIABLES
    current,    \* the image that is running
    next,       \* the image that will run after a restart
    installed   \* has an image been installed since the last restart?

vars == <<current, next, installed>>

Init == current = Factory /\ next = Factory /\ installed = FALSE

Install(i) == /\ ~installed
              /\ next' = i
              /\ installed' = TRUE
              /\ UNCHANGED current

Restart == /\ current' = next
           /\ installed' = FALSE
           /\ UNCHANGED next

Next == Restart \/ \E i \in Image : Install(i)

Spec == Init /\ [][Next]_vars
=============================================================================
