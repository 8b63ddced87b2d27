---------------------------- MODULE ButtonProofs ----------------------------
(***************************************************************************)
(* Proofs about Button, for every capacity of the queue and every pair of  *)
(* durations that lie more than a second apart.                            *)
(***************************************************************************)
EXTENDS Button, TLAPS

\* While a press is timed both timers count with it: each is where the elapsed time
\* says, and its callback has chosen the pattern before the next second begins.
TimersFollow ==
    /\ elapsed < Clear => timer3 = Clear - elapsed /\ callback = 0 /\ flash = 0 /\ normal
    /\ elapsed = Clear => \/ timer3 = 0 /\ callback = 0 /\ flash = 0 /\ normal
                          \/ timer3 = Off /\ callback = 1 /\ flash = 0
                          \/ timer3 = Off /\ callback = 0 /\ flash = 1
    /\ elapsed > Clear => timer3 = Off /\ ledPc = "test"
    /\ elapsed > Clear /\ elapsed < Update => callback = 0 /\ flash = 1
    /\ elapsed < Update => timer8 = Update - elapsed
    /\ elapsed = Update => \/ timer8 = 0 /\ callback = 0 /\ flash = 1
                           \/ timer8 = Off /\ callback = 2 /\ flash = 1 /\ ~normal
                           \/ timer8 = Off /\ callback = 0 /\ flash = 2 /\ ~normal
    /\ elapsed > Update => timer8 = Off /\ callback = 0 /\ flash = 2 /\ ~normal

\* What led_task has made of it.  Until the first timer expires it is not on its way
\* back to the normal display, once the second the press was recognised in is over;
\* from then on until the second one expires it is, or has been, only if it was
\* overtaken.
DisplayFollows ==
    /\ elapsed <= Clear /\ timer3 # Off => ~overtaken /\ (elapsed > 0 => ledPc = "test")
    /\ elapsed >= Clear /\ timer3 = Off /\ timer8 # Off
          => (normal <=> overtaken /\ ledPc = "test") /\ (ledPc = "set" => overtaken)

TimersOff == timer3 = Off /\ timer8 = Off /\ callback = 0

\* The four phases of a plain press: not yet recognised, timed, being answered, and
\* answered.
Waiting == /\ down /\ ~pressKey /\ TimersOff /\ normal /\ flash = 0
           /\ (edges = 1 /\ pc = "idle") \/ (edges = 0 /\ pc = "debounce")
Timed == /\ pressKey /\ TimersFollow /\ DisplayFollows
         /\ \/ down /\ edges = 0 /\ pc = "idle"
            \/ ~down /\ edges = 1 /\ pc = "idle"
            \/ ~down /\ edges = 0 /\ pc = "lifted"
Answering ==
    /\ ~down /\ ~pressKey /\ edges = 0 /\ pc \in {"clear", "update", "short"}
    /\ length \notin Risky =>
        /\ TimersFollow
        /\ elapsed = length \/ (elapsed = length + 1 /\ pc # "update")
        /\ pc = IF length < Clear THEN "short" ELSE IF length < Update THEN "clear" ELSE "update"
Answered ==
    /\ ~down /\ ~pressKey /\ edges = 0 /\ pc = "idle"
    /\ length \notin Risky =>
        /\ TimersOff
        /\ outcome = IF length < Clear THEN "nothing" ELSE IF length < Update THEN "cleared" ELSE "update"
        /\ length < Update => normal /\ flash = 0
        /\ length >= Update => ~normal /\ flash = 3 /\ ledPc = "test"

Phases == plain => Waiting \/ Timed \/ Answering \/ Answered

\* TypeOK in two parts, for provers that like only one of them.
Booleans == down \in BOOLEAN /\ pressKey \in BOOLEAN /\ normal \in BOOLEAN /\ plain \in BOOLEAN
            /\ overtaken \in BOOLEAN
Numbers ==
    /\ edges \in 0..QueueLen /\ elapsed \in 0..Never
    /\ pc \in {"idle", "debounce", "lifted", "clear", "update", "short"}
    /\ timer3 \in 0..Clear \cup {Off} /\ timer8 \in 0..Update \cup {Off}
    /\ callback \in 0..2 /\ flash \in 0..3 /\ ledPc \in {"test", "set"}
    /\ length \in 0..Never
    /\ outcome \in {"none", "nothing", "cleared", "update", "abort"}

Answers == Cleared \/ Short \/ UpdateAsked
Leds == NoPattern \/ BackToNormal \/ OtherLed
-----------------------------------------------------------------------------
LEMMA Durations ==
    /\ Clear \in Nat /\ Update \in Nat /\ Update > Clear + 1 /\ Clear >= 1
    /\ QueueLen \in Nat /\ QueueLen >= 1
    /\ Off = Update + 1 /\ Never = Update + 1
  BY ButtonAssumption DEF Off, Never

LEMMA TypeParts == TypeOK <=> Booleans /\ Numbers
  BY DEF TypeOK, Booleans, Numbers

LEMMA InitInv == Init => Booleans /\ Numbers /\ Phases
<1>1. Init => Booleans
  BY DEF Init, Booleans
<1>2. Init => Numbers
  BY Durations DEF Init, Numbers
<1>3. Init => Phases
  BY DEF Init, Phases
<1> QED
  BY <1>1, <1>2, <1>3

\* Type correctness, action by action.
LEMMA BooleansInv == Booleans /\ Next => Booleans'
<1> SUFFICES ASSUME Booleans, Next PROVE Booleans'
  OBVIOUS
<1>1. CASE Edge
  BY <1>1 DEF Booleans, Edge, timers, leds, Quiet, AtRest
<1>2. CASE Receive \/ NotDown \/ Pressed
  BY <1>2 DEF Booleans, Receive, NotDown, Pressed, Abort, timers, leds, history
<1>3. CASE \E next \in {"clear", "update", "short"} : Lifted(next)
  BY <1>3 DEF Booleans, Lifted, timers, leds
<1>4. CASE Answers
  BY <1>4 DEF Answers, Booleans, Cleared, Short, UpdateAsked, Abort, timers, leds
<1>5. CASE Expire \/ Callback \/ Tick
  BY <1>5 DEF Booleans, Expire, Callback, Tick, leds, history
<1>6. CASE Leds
  BY <1>6 DEF Leds, Booleans, NoPattern, BackToNormal, OtherLed, timers, history
<1> QED
  BY <1>1, <1>2, <1>3, <1>4, <1>5, <1>6 DEF Next, GpioTask, Answers, Leds

LEMMA NumbersInv == Numbers /\ Next => Numbers'
<1> SUFFICES ASSUME Numbers, Next PROVE Numbers'
  OBVIOUS
<1>1. CASE Edge
  BY <1>1, Durations DEF Numbers, Edge, timers, leds
<1>2. CASE Receive \/ NotDown
  BY <1>2, Durations DEF Numbers, Receive, NotDown, timers, leds, history
<1>3. CASE Abort
  BY <1>3, Durations DEF Numbers, Abort
<1>4. CASE Pressed /\ ~Abort
  <2>1. /\ timer3' = Clear /\ timer8' = Update /\ elapsed' = 0 /\ pc' = "idle"
        /\ UNCHANGED <<edges, callback, flash, ledPc, length, outcome>>
    BY <1>4 DEF Pressed, leds, history
  <2>2. Clear \in 0..Clear /\ Update \in 0..Update /\ 0 \in 0..Never
    BY Durations
  <2> QED
    BY <2>1, <2>2 DEF Numbers
<1>5. CASE \E next \in {"clear", "update", "short"} : Lifted(next)
  BY <1>5, Durations DEF Numbers, Lifted, timers, leds
<1>6. CASE Answers
  BY <1>3, <1>6, Durations DEF Answers, Numbers, Cleared, Short, UpdateAsked, timers, leds
<1>7. CASE Expire \/ Callback
  BY <1>7, Durations DEF Numbers, Expire, Callback, history
<1>8. CASE Leds
  BY <1>8, Durations DEF Leds, Numbers, NoPattern, BackToNormal, OtherLed, timers, history
<1>9. CASE Tick
  BY <1>9, Durations DEF Numbers, Tick, Less, leds, history
<1> QED
  BY <1>1, <1>2, <1>3, <1>4, <1>5, <1>6, <1>7, <1>8, <1>9 DEF Next, GpioTask, Answers, Leds, Pressed
-----------------------------------------------------------------------------
\* The timers and the pattern while nothing is due, ...
Display == <<elapsed, timers, leds>>
LEMMA FollowSame ==
    /\ TimersFollow /\ UNCHANGED Display => TimersFollow'
    /\ DisplayFollows /\ UNCHANGED Display => DisplayFollows'
  BY DEF Display, timers, leds, TimersFollow, DisplayFollows

\* ... when one expires or its callback goes on, ...
LEMMA ShowsExpire ==
    Numbers /\ TimersFollow /\ DisplayFollows /\ (Expire \/ Callback) => DisplayFollows'
<1> SUFFICES ASSUME Numbers, TimersFollow, DisplayFollows, Expire \/ Callback
             PROVE  DisplayFollows'
  OBVIOUS
<1>1. elapsed \in Nat /\ timer3 \in Nat /\ timer8 \in Nat /\ callback \in Nat
  BY Durations DEF Numbers
<1>2. elapsed' = elapsed /\ ledPc' = ledPc /\ overtaken' = overtaken
  BY DEF Expire, Callback
<1>3. CASE Expire /\ timer3 = 0
  BY <1>1, <1>2, <1>3, Durations DEF TimersFollow, DisplayFollows, Expire, Numbers
<1>4. CASE Expire /\ timer8 = 0 /\ timer3 # 0
  BY <1>1, <1>2, <1>4, Durations DEF TimersFollow, DisplayFollows, Expire, Numbers
<1>5. CASE Callback
  BY <1>1, <1>2, <1>5, Durations DEF TimersFollow, DisplayFollows, Callback, Numbers
<1> QED
  BY <1>3, <1>4, <1>5 DEF Expire

LEMMA FollowExpire == Numbers /\ TimersFollow /\ (Expire \/ Callback) => TimersFollow'
<1> SUFFICES ASSUME Numbers, TimersFollow, Expire \/ Callback PROVE TimersFollow'
  OBVIOUS
<1>1. elapsed \in Nat /\ timer3 \in Nat /\ timer8 \in Nat /\ callback \in Nat
  BY Durations DEF Numbers
<1>2. elapsed' = elapsed /\ ledPc' = ledPc
  BY DEF Expire, Callback
<1>3. CASE Expire /\ timer3 = 0
  BY <1>1, <1>2, <1>3, Durations DEF TimersFollow, Expire
<1>4. CASE Expire /\ timer8 = 0 /\ timer3 # 0
  BY <1>1, <1>2, <1>4, Durations DEF TimersFollow, Expire
<1>5. CASE Callback
  BY <1>1, <1>2, <1>5, Durations DEF TimersFollow, Callback
<1> QED
  BY <1>3, <1>4, <1>5 DEF Expire

\* ... and when led_task finds no pattern between the two.
LEMMA FollowLeds == Numbers /\ TimersFollow /\ (NoPattern \/ BackToNormal) => TimersFollow'
<1> SUFFICES ASSUME Numbers, TimersFollow, NoPattern \/ BackToNormal PROVE TimersFollow'
  OBVIOUS
<1>1. elapsed \in Nat /\ timer3 \in Nat /\ timer8 \in Nat /\ callback \in Nat
  BY Durations DEF Numbers
<1>2. elapsed' = elapsed /\ flash' = flash /\ UNCHANGED <<timer3, timer8, callback>>
  BY DEF NoPattern, BackToNormal, timers
<1>3. CASE NoPattern
  BY <1>1, <1>2, <1>3, Durations DEF TimersFollow, NoPattern
<1>4. CASE BackToNormal
  BY <1>1, <1>2, <1>4, Durations DEF TimersFollow, BackToNormal
<1> QED
  BY <1>3, <1>4

LEMMA ShowsLeds ==
    Numbers /\ TimersFollow /\ DisplayFollows /\ (NoPattern \/ BackToNormal) => DisplayFollows'
<1> SUFFICES ASSUME Numbers, TimersFollow, DisplayFollows, NoPattern \/ BackToNormal
             PROVE  DisplayFollows'
  OBVIOUS
<1>1. elapsed \in Nat /\ timer3 \in Nat /\ timer8 \in Nat /\ callback \in Nat
  BY Durations DEF Numbers
<1>2. elapsed' = elapsed /\ flash' = flash /\ UNCHANGED <<timer3, timer8, callback>>
  BY DEF NoPattern, BackToNormal, timers
<1>3. CASE NoPattern
  BY <1>1, <1>2, <1>3, Durations DEF TimersFollow, DisplayFollows, NoPattern, Numbers
<1>4. CASE BackToNormal
  BY <1>1, <1>2, <1>4, Durations DEF TimersFollow, DisplayFollows, BackToNormal, Numbers
<1> QED
  BY <1>3, <1>4

\* A second passes only when everything due in it has happened.
LEMMA FollowTick ==
    Numbers /\ TimersFollow /\ Tick /\ (pressKey \/ Slow) => TimersFollow'
  BY Durations DEF Numbers, TimersFollow, Tick, Less, Slow, leds

LEMMA ShowsTick ==
    Numbers /\ TimersFollow /\ DisplayFollows /\ Tick /\ pressKey => DisplayFollows'
  BY Durations DEF Numbers, TimersFollow, DisplayFollows, Tick, Less, leds
-----------------------------------------------------------------------------
\* One lemma per action: a plain press goes from phase to phase.

\* A press begins one, at rest; letting go ends it, if it has been recognised.
LEMMA EdgePhases == Numbers /\ Phases /\ Edge => Phases'
<1> SUFFICES ASSUME Numbers, Phases, Edge, plain' PROVE Phases'
  BY DEF Phases
<1>1. /\ UNCHANGED <<pc, pressKey, callback, flash, normal>>
      /\ UNCHANGED Display /\ UNCHANGED <<timer3, timer8>>
      /\ edges \in Nat
      /\ edges = 0 => edges' = 1
  BY Durations DEF Edge, Display, timers, leds, Numbers
<1>2. CASE ~down
  <2>1. down'
    BY <1>2 DEF Edge
  <2>2. AtRest /\ normal /\ flash = 0
    BY <1>2 DEF Edge
  <2>3. Waiting'
    BY <1>1, <2>1, <2>2 DEF AtRest, Quiet, Waiting, TimersOff
  <2> QED
    BY <2>3 DEF Phases
<1>3. CASE down
  <2>1. ~down'
    BY <1>3 DEF Edge
  <2>2. plain /\ Quiet /\ pressKey
    BY <1>3 DEF Edge
  <2>3. Timed
    BY <1>3, <2>2 DEF Phases, Waiting, Answering, Answered
  <2>4. TimersFollow' /\ DisplayFollows'
    BY <1>1, <2>3, FollowSame DEF Timed
  <2>5. Timed'
    BY <1>1, <2>1, <2>2, <2>4 DEF Timed, Quiet
  <2> QED
    BY <2>5 DEF Phases
<1> QED
  BY <1>2, <1>3

\* gpio_task gets to the interrupt while the level is still that of the edge.
LEMMA ReceivePhases == Numbers /\ Phases /\ (Receive \/ NotDown) => Phases'
<1> SUFFICES ASSUME Numbers, Phases, Receive \/ NotDown, plain' PROVE Phases'
  BY DEF Phases
<1>5. plain /\ UNCHANGED <<down, pressKey>>
  BY DEF Receive, NotDown, history
<1>6. UNCHANGED <<elapsed, timers, leds>>
  BY DEF Receive, NotDown
<1>1. /\ plain /\ UNCHANGED <<down, pressKey, callback, flash, normal>>
      /\ UNCHANGED Display /\ UNCHANGED <<timer3, timer8>>
      /\ edges \in Nat
  BY <1>5, <1>6, Durations DEF Display, timers, leds, Numbers
<1>2. CASE Waiting
  <2>1. Waiting'
    BY <1>1, <1>2 DEF Waiting, TimersOff, Receive, NotDown
  <2> QED
    BY <2>1 DEF Phases
<1>3. CASE Timed
  <2>1. TimersFollow' /\ DisplayFollows'
    BY <1>1, <1>3, FollowSame DEF Timed
  <2>2. ~down /\ edges' = 0 /\ pc' = "lifted" /\ pressKey
    BY <1>1, <1>3 DEF Timed, Receive, NotDown
  <2>3. Timed'
    BY <1>1, <2>1, <2>2 DEF Timed
  <2> QED
    BY <2>3 DEF Phases
<1>4. ~Answering /\ ~Answered
  BY DEF Answering, Answered, Receive, NotDown
<1> QED
  BY <1>1, <1>2, <1>3, <1>4 DEF Phases

\* A plain press finds both timers off.
LEMMA PressedPhases == Phases /\ Pressed => Phases'
<1> SUFFICES ASSUME Phases, Pressed, plain' PROVE Phases'
  BY DEF Phases
<1>1. plain
  BY DEF Pressed, Abort, history
<1>2. Waiting
  BY <1>1 DEF Pressed, Phases, Timed, Answering, Answered
<1>3. /\ timer3' = Clear /\ timer8' = Update /\ elapsed' = 0 /\ pc' = "idle" /\ pressKey' = TRUE
      /\ UNCHANGED <<down, edges, callback, flash, normal>>
      /\ down /\ edges = 0 /\ overtaken' = FALSE
  BY <1>2 DEF Pressed, Waiting, TimersOff
<1>4. TimersFollow' /\ DisplayFollows'
  BY <1>2, <1>3, Durations DEF TimersFollow, DisplayFollows, Waiting, TimersOff
<1>5. Timed'
  BY <1>3, <1>4 DEF Timed
<1> QED
  BY <1>5 DEF Phases

\* The time decides what will be done.
LEMMA LiftedPhases ==
    Numbers /\ Phases /\ (\E next \in {"clear", "update", "short"} : Lifted(next)) => Phases'
<1> SUFFICES ASSUME Numbers, Phases, plain',
                    NEW next \in {"clear", "update", "short"}, Lifted(next)
             PROVE  Phases'
  BY DEF Phases
<1>1. /\ plain /\ pc = "lifted" /\ pc' = next /\ pressKey' = FALSE /\ length' = elapsed
      /\ UNCHANGED <<down, edges, elapsed>> /\ UNCHANGED Display
  BY DEF Lifted, Display, timers, leds
<1>2. Timed
  BY <1>1 DEF Phases, Waiting, Answering, Answered
<1>3. TimersFollow' /\ ~down /\ edges = 0
  BY <1>1, <1>2, FollowSame DEF Timed
<1>4. elapsed \notin Risky =>
        next = IF elapsed < Clear THEN "short" ELSE IF elapsed < Update THEN "clear" ELSE "update"
  <2>1. elapsed \in Nat
    BY Durations DEF Numbers
  <2> QED
    BY <2>1, Durations DEF Lifted, Risky
<1>5. length' \notin Risky' <=> elapsed \notin Risky
  BY <1>1 DEF Risky
<1>6. Answering'
  BY <1>1, <1>3, <1>4, <1>5 DEF Answering
<1> QED
  BY <1>6 DEF Phases

\* Away from the durations the timers are as the answer expects them.
LEMMA AnswerPhases == Numbers /\ Phases /\ Answers => Phases'
<1> SUFFICES ASSUME Numbers, Phases, Answers, plain' PROVE Phases'
  BY DEF Phases
<1>1. /\ plain /\ pc \in {"clear", "short", "update"} /\ pc' = "idle"
      /\ UNCHANGED <<down, length>>
  BY DEF Answers, Cleared, Short, UpdateAsked, Abort
<1>2. Answering
  BY <1>1 DEF Phases, Waiting, Timed, Answered
<1>3. edges' = 0 /\ ~pressKey' /\ ~down
  <2>1. edges = 0 /\ ~pressKey /\ ~down
    BY <1>2 DEF Answering
  <2>2. CASE Abort
    BY <2>1, <2>2 DEF Abort, Answers, Cleared, Short, UpdateAsked
  <2>3. CASE ~Abort
    <3>1. UNCHANGED <<edges, pressKey>>
      BY <2>3 DEF Answers, Cleared, Short, UpdateAsked
    <3> QED
      BY <2>1, <3>1
  <2> QED
    BY <2>2, <2>3
<1>4. CASE length \in Risky
  BY <1>1, <1>3, <1>4 DEF Phases, Answered, Risky
<1>5. CASE length \notin Risky
  <2>1. elapsed \in Nat /\ length \in Nat /\ timer3 \in Nat /\ timer8 \in Nat
    BY Durations DEF Numbers
  <2>2. /\ TimersFollow
        /\ elapsed = length \/ (elapsed = length + 1 /\ pc # "update")
        /\ pc = IF length < Clear THEN "short" ELSE IF length < Update THEN "clear" ELSE "update"
    BY <1>2, <1>5 DEF Answering
  <2>3. CASE length < Clear
    <3>1. elapsed < Clear /\ elapsed < Update /\ pc = "short"
      BY <1>5, <2>1, <2>2, <2>3, Durations DEF Risky
    <3>2. timer3 # Off /\ timer8 # Off /\ callback = 0 /\ flash = 0 /\ normal
      BY <2>1, <2>2, <3>1, Durations DEF TimersFollow
    <3>3. Short
      BY <3>1 DEF Answers, Cleared, UpdateAsked
    <3>4. /\ timer3' = Off /\ timer8' = Off /\ outcome' = "nothing"
          /\ UNCHANGED <<callback, flash, normal>>
      BY <3>2, <3>3 DEF Short, leds
    <3> QED
      BY <1>1, <1>3, <2>1, <2>3, <3>2, <3>4, Durations DEF Phases, Answered, TimersOff, Off
  <2>4. CASE length >= Clear /\ length < Update
    <3>1. elapsed > Clear /\ elapsed < Update /\ pc = "clear"
      BY <1>5, <2>1, <2>2, <2>4, Durations DEF Risky
    <3>2. timer3 = Off /\ timer8 # Off /\ callback = 0
      BY <2>1, <2>2, <3>1, Durations DEF TimersFollow
    <3>3. Cleared
      BY <3>1 DEF Answers, Short, UpdateAsked
    <3>4. /\ timer3' = Off /\ timer8' = Off /\ outcome' = "cleared" /\ callback' = callback
          /\ normal' = TRUE /\ flash' = 0
      BY <3>2, <3>3 DEF Cleared
    <3> QED
      BY <1>1, <1>3, <2>1, <2>4, <3>2, <3>4, Durations DEF Phases, Answered, TimersOff, Off
  <2>5. CASE length >= Update
    <3>1. elapsed > Update /\ pc = "update"
      BY <1>5, <2>1, <2>2, <2>5, Durations DEF Risky
    <3>2. timer3 = Off /\ timer8 = Off /\ callback = 0 /\ ledPc = "test"
      BY <2>1, <2>2, <3>1, Durations DEF TimersFollow
    <3>3. UpdateAsked
      BY <3>1 DEF Answers, Short, Cleared
    <3>4. /\ UNCHANGED <<timer3, timer8, callback, ledPc>> /\ outcome' = "update"
          /\ normal' = FALSE /\ flash' = 3
      BY <3>3 DEF UpdateAsked, timers
    <3> QED
      BY <1>1, <1>3, <2>1, <2>5, <3>2, <3>4, Durations DEF Phases, Answered, TimersOff, Off
  <2> QED
    BY <2>1, <2>3, <2>4, <2>5, Durations
<1> QED
  BY <1>4, <1>5

\* Risky presses apart, what expires while an answer is given is not due yet, and
\* after it nothing can expire.
LEMMA TimerPhases == Numbers /\ Phases /\ (Expire \/ Callback) => Phases'
<1> SUFFICES ASSUME Numbers, Phases, Expire \/ Callback, plain' PROVE Phases'
  BY DEF Phases
<1>1. plain /\ UNCHANGED <<down, edges, pc, pressKey, elapsed, length, outcome>>
  BY DEF Expire, Callback, history
<1>2. elapsed \in Nat /\ length \in Nat
  BY Durations DEF Numbers
<1>3. TimersFollow => TimersFollow'
  BY FollowExpire
<1>4. ~TimersOff
  BY Durations DEF TimersOff, Expire, Callback
<1>5. CASE Timed
  <2>1. Timed'
    BY <1>1, <1>3, <1>5, ShowsExpire DEF Timed
  <2> QED
    BY <2>1 DEF Phases
<1>6. CASE Answering
  <2>1. Answering'
    BY <1>1, <1>3, <1>6 DEF Answering, Risky
  <2> QED
    BY <2>1 DEF Phases
<1>7. CASE Answered
  <2>1. length \in Risky
    BY <1>4, <1>7 DEF Answered
  <2>2. Answered'
    BY <1>1, <1>7, <2>1 DEF Answered, Risky
  <2> QED
    BY <2>2 DEF Phases
<1> QED
  BY <1>1, <1>4, <1>5, <1>6, <1>7 DEF Phases, Waiting

LEMMA LedPhases == Numbers /\ Phases /\ Leds => Phases'
<1> SUFFICES ASSUME Numbers, Phases, Leds, plain' PROVE Phases'
  BY DEF Phases
<1>1. NoPattern \/ BackToNormal
  BY DEF Leds, OtherLed
<1>2. /\ plain /\ UNCHANGED <<down, edges, pc, pressKey, elapsed, length, outcome>>
      /\ UNCHANGED <<timer3, timer8, callback, flash>>
  BY <1>1 DEF NoPattern, BackToNormal, timers, history
<1>3. TimersFollow => TimersFollow'
  BY <1>1, FollowLeds
<1>4. CASE Waiting
  <2>1. normal'
    BY <1>1, <1>4 DEF Waiting, NoPattern, BackToNormal
  <2>2. Waiting'
    BY <1>2, <1>4, <2>1 DEF Waiting, TimersOff
  <2> QED
    BY <2>2 DEF Phases
<1>5. CASE Timed
  <2>1. Timed'
    BY <1>1, <1>2, <1>3, <1>5, ShowsLeds DEF Timed
  <2> QED
    BY <2>1 DEF Phases
<1>6. CASE Answering
  <2>1. Answering'
    BY <1>2, <1>3, <1>6 DEF Answering, Risky
  <2> QED
    BY <2>1 DEF Phases
<1>7. CASE Answered
  <2>1. CASE length \in Risky
    <3>1. Answered'
      BY <1>2, <1>7, <2>1 DEF Answered, Risky
    <3> QED
      BY <3>1 DEF Phases
  <2>2. CASE length \notin Risky
    <3>1. length < Update \/ length >= Update
      BY Durations DEF Numbers
    <3>2. ~NoPattern
      BY <1>7, <2>2, <3>1 DEF Answered, NoPattern
    <3>3. normal' /\ ledPc = "set"
      BY <1>1, <3>2 DEF BackToNormal
    <3>4. ~(length >= Update)
      BY <1>7, <2>2, <3>3 DEF Answered
    <3>5. Answered'
      BY <1>2, <1>7, <3>1, <3>3, <3>4 DEF Answered, TimersOff, Risky
    <3> QED
      BY <3>5 DEF Phases
  <2> QED
    BY <2>1, <2>2
<1> QED
  BY <1>2, <1>4, <1>5, <1>6, <1>7 DEF Phases

LEMMA TickPhases == Numbers /\ Phases /\ Tick => Phases'
<1> SUFFICES ASSUME Numbers, Phases, Tick, plain' PROVE Phases'
  BY DEF Phases
<1>1. /\ plain /\ UNCHANGED <<down, edges, pc, pressKey, length, outcome>>
      /\ UNCHANGED <<callback, flash, normal, ledPc>>
  BY DEF Tick, leds, history
<1>2. TimersOff => TimersOff'
  BY <1>1 DEF Tick, Less, TimersOff, Off
<1>3. CASE Waiting
  <2>1. Waiting'
    BY <1>1, <1>2, <1>3 DEF Waiting
  <2> QED
    BY <2>1 DEF Phases
<1>4. CASE Timed
  <2>1. TimersFollow' /\ DisplayFollows'
    BY <1>4, FollowTick, ShowsTick DEF Timed
  <2>2. Timed'
    BY <1>1, <1>4, <2>1 DEF Timed
  <2> QED
    BY <2>2 DEF Phases
<1>5. CASE Answering
  <2>1. Slow /\ pc # "update"
    BY <1>5 DEF Tick, Answering, Slow
  <2>2. elapsed = length /\ length \in 0..Never
    BY <2>1 DEF Slow, Numbers
  <2>3. elapsed' = length \/ elapsed' = length + 1
    BY <2>1, <2>2 DEF Tick
  <2>4. TimersFollow => TimersFollow'
    BY <2>1, FollowTick
  <2>5. Answering'
    BY <1>1, <1>5, <2>1, <2>3, <2>4 DEF Answering, Risky
  <2> QED
    BY <2>5 DEF Phases
<1>6. CASE Answered
  <2>1. Answered'
    BY <1>1, <1>2, <1>6 DEF Answered, Risky
  <2> QED
    BY <2>1 DEF Phases
<1> QED
  BY <1>1, <1>3, <1>4, <1>5, <1>6 DEF Phases

LEMMA PhasesInv == Numbers /\ Phases /\ Next => Phases'
  BY EdgePhases, ReceivePhases, PressedPhases, LiftedPhases, AnswerPhases, TimerPhases, LedPhases,
     TickPhases
     DEF Next, GpioTask, Answers, Leds

LEMMA SameInv == Booleans /\ Numbers /\ Phases /\ UNCHANGED vars => (Booleans /\ Numbers /\ Phases)'
<1> SUFFICES ASSUME Booleans, Numbers, Phases, UNCHANGED vars PROVE (Booleans /\ Numbers /\ Phases)'
  OBVIOUS
<1>1. /\ UNCHANGED <<down, edges, pc, pressKey, elapsed, timer3, timer8, callback>>
      /\ UNCHANGED <<normal, flash, ledPc, overtaken, plain, length, outcome>>
  BY DEF vars, timers, leds, history
<1>2. Booleans' /\ Numbers'
  BY <1>1 DEF Booleans, Numbers
<1>3. Phases'
  BY <1>1 DEF Phases, Waiting, Timed, Answering, Answered, TimersOff, TimersFollow,
                 DisplayFollows, Risky
<1> QED
  BY <1>2, <1>3

LEMMA Inductive == Spec => [](Booleans /\ Numbers /\ Phases)
<1>1. Booleans /\ Numbers /\ Phases /\ [Next]_vars => (Booleans /\ Numbers /\ Phases)'
  BY BooleansInv, NumbersInv, PhasesInv, SameInv
<1> QED
  BY <1>1, InitInv, PTL DEF Spec
-----------------------------------------------------------------------------
\* Every variable of the button's tasks and timers keeps its type, whatever the
\* capacity of the queue and however the edges fall.
THEOREM TypeCorrect == Spec => []TypeOK
  BY Inductive, TypeParts, PTL

\* A plain press does what the user guide says, whatever the two durations are, as
\* long as they are more than a second apart.
THEOREM PressWorks == Spec => []PlainPressWorks
<1>1. Numbers /\ Phases => PlainPressWorks
  BY DEF Phases, Waiting, Timed, Answering, Answered, PlainPressWorks, Quiet
<1> QED
  BY <1>1, Inductive, PTL

\* While the button is held the pattern announces what letting go will do; between
\* the two durations it is shown, unless and only unless led_task was overtaken by
\* the first callback.
THEOREM HoldShown == Spec => []PatternTellsHold
<1>1. Numbers /\ Phases => PatternTellsHold
  <2> SUFFICES ASSUME Numbers, Phases, plain, down, pressKey
               PROVE  /\ elapsed \in (Clear + 1)..(Update - 1)
                             => flash = 1 /\ (normal <=> overtaken)
                      /\ elapsed > Update => flash = 2 /\ ~normal
    BY DEF PatternTellsHold
  <2>1. TimersFollow /\ DisplayFollows
    BY DEF Phases, Waiting, Timed, Answering, Answered
  <2>2. elapsed \in Nat /\ timer8 \in Nat
    BY Durations DEF Numbers
  <2>3. ASSUME elapsed \in (Clear + 1)..(Update - 1)
        PROVE  flash = 1 /\ (normal <=> overtaken)
    <3>1. elapsed > Clear /\ elapsed < Update /\ elapsed >= Clear
      BY <2>3, Durations
    <3>2. timer3 = Off /\ ledPc = "test" /\ flash = 1 /\ timer8 = Update - elapsed
      BY <2>1, <3>1 DEF TimersFollow
    <3>3. timer8 # Off
      BY <2>2, <3>1, <3>2, Durations
    <3>4. normal <=> overtaken
      BY <2>1, <3>1, <3>2, <3>3 DEF DisplayFollows
    <3> QED
      BY <3>2, <3>4
  <2> QED
    BY <2>1, <2>3 DEF TimersFollow
<1> QED
  BY <1>1, Inductive, PTL

\* After it no timer is left that would change the pattern of the outcome.
THEOREM OutcomeShown == Spec => []PatternTellsOutcome
<1>1. Numbers /\ Phases => PatternTellsOutcome
  <2> SUFFICES ASSUME Numbers, Phases, plain, ~down, Quiet, ~pressKey, length \notin Risky
               PROVE  /\ timer3 = Off /\ timer8 = Off
                      /\ outcome \in {"nothing", "cleared"} => normal /\ flash = 0
                      /\ outcome = "update" => ~normal /\ flash = 3
    BY DEF PatternTellsOutcome
  <2>1. Answered
    BY DEF Phases, Waiting, Timed, Answering, Quiet
  <2>2. length \in Nat
    BY Durations DEF Numbers
  <2> QED
    BY <2>1, <2>2, Durations DEF Answered, TimersOff
<1> QED
  BY <1>1, Inductive, PTL
=============================================================================
