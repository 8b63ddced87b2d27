------------------------- MODULE MCCommandChannel -------------------------
(***************************************************************************)
(* CommandChannel for TLC.  Five commands, each with a way of its own to go*)
(* wrong, and a queue of two: "long" takes two or three writes and can be cut*)
(* by a disconnect between them, "under" is a long write that declares one *)
(* unit less than the client writes, "huge" announces and writes more than *)
(* the buffer holds, the length field of "none" is zero, and "reset" is    *)
(* RESTART.                                                                *)
(***************************************************************************)
EXTENDS CommandChannel

MCCmd == {"long", "under", "huge", "none", "reset"}
MCLong == {"under"}
MCOffset == {0, 2}
MCRestartCmds == {"reset"}
MCDeclared == [c \in MCCmd |-> CASE c \in {"long", "under"} -> 3
                                 [] c = "huge"             -> 5
                                 [] c = "none"             -> 0
                                 [] OTHER                  -> 1]
MCActual == [c \in MCCmd |-> CASE c = "long"             -> 3
                               [] c \in {"under", "huge"} -> 4
                               [] OTHER                   -> 1]
=============================================================================
