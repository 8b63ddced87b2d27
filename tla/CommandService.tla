-------------------------- MODULE CommandService --------------------------
(***************************************************************************)
(* What the gateway promises to a client that writes commands to the       *)
(* command characteristic, without fragments, buffers or pointers: every   *)
(* completely written command joins a first-in first-out queue of bounded  *)
(* length and is executed at most once, in the order of writing.  A        *)
(* command is lost only when the queue is full or when the gateway         *)
(* restarts.  CommandChannel implements this module.                       *)
(***************************************************************************)
EXTENDS Naturals, Sequences, Functions

CONSTANTS
    Cmd,            \* the commands the client may write, each at most once
    CMD_QUEUE_LEN   \* how many commands may wait (app.h)

VARIABLES
    complete,   \* the commands written completely, in order of completion
    waiting,    \* the queue
    running,    \* the command being executed: {} or {c}
    executed,   \* the commands executed, in order
    lost        \* the commands that will never be executed

vars == <<complete, waiting, running, executed, lost>>

Pending == Range(waiting) \cup running

Init == /\ complete = <<>>
        /\ waiting = <<>>
        /\ running = {}
        /\ executed = <<>>
        /\ lost = {}

\* A command arrives and finds room in the queue.
Accept(c) == /\ c \notin Range(complete)
             /\ Len(waiting) < CMD_QUEUE_LEN
             /\ complete' = Append(complete, c)
             /\ waiting' = Append(waiting, c)
             /\ UNCHANGED <<running, executed, lost>>

\* A command arrives and the queue is full: the only reason to refuse it.
Refuse(c) == /\ c \notin Range(complete)
             /\ Len(waiting) >= CMD_QUEUE_LEN
             /\ complete' = Append(complete, c)
             /\ lost' = lost \cup {c}
             /\ UNCHANGED <<waiting, running, executed>>

Take == /\ running = {}
        /\ waiting # <<>>
        /\ running' = {Head(waiting)}
        /\ waiting' = Tail(waiting)
        /\ UNCHANGED <<complete, executed, lost>>

Execute(c) == /\ running = {c}
              /\ running' = {}
              /\ executed' = Append(executed, c)
              /\ UNCHANGED <<complete, waiting, lost>>

\* The gateway restarts: nothing that was pending survives.
Restart == /\ lost' = lost \cup Pending
           /\ waiting' = <<>>
           /\ running' = {}
           /\ UNCHANGED <<complete, executed>>

\* A command whose execution restarts the gateway.
ExecuteRestart(c) == /\ running = {c}
                     /\ executed' = Append(executed, c)
                     /\ lost' = lost \cup Range(waiting)
                     /\ waiting' = <<>>
                     /\ running' = {}
                     /\ UNCHANGED complete

\* A command that arrives before the gateway is ready for it, and restarts it.
ArriveEarly(c) == /\ c \notin Range(complete)
                  /\ Pending = {}
                  /\ complete' = Append(complete, c)
                  /\ lost' = lost \cup {c}
                  /\ UNCHANGED <<waiting, running, executed>>

Next == \/ \E c \in Cmd : \/ Accept(c)
                          \/ Refuse(c)
                          \/ Execute(c)
                          \/ ExecuteRestart(c)
                          \/ ArriveEarly(c)
        \/ Take
        \/ Restart

Spec == Init /\ [][Next]_vars
=============================================================================
