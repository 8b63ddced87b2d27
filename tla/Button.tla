------------------------------- MODULE Button -------------------------------
(***************************************************************************)
(* The button: an interrupt per edge, gpio_task that reads the level when  *)
(* it gets to the interrupt and not when it happened, two timers whose     *)
(* callbacks choose a LED pattern, and led_task that shows it.             *)
(*                                                                         *)
(* Time passes in seconds.  A duration of n ticks is one in [n, n + 1), so *)
(* that it may be exactly n, and a timer of n seconds, started a moment    *)
(* after the time was taken, expires at some point of that second.  The    *)
(* 300 ms of the debouncing fall between two ticks; a second may end       *)
(* while the configuration is cleared or the timers are stopped, but not   *)
(* between an interrupt and gpio_task, nor in the middle of led_task's     *)
(* test.                                                                   *)
(***************************************************************************)
EXTENDS Naturals

CONSTANTS
    QueueLen,       \* capacity of gpio_evt_queue
    Clear, Update   \* the two durations, 3 and 8 seconds

ASSUME ButtonAssumption ==
    QueueLen \in Nat \ {0} /\ Clear \in Nat \ {0} /\ Update \in Nat /\ Update > Clear + 1

VARIABLES
    \* the world
    down,           \* is the button held down?
    \* gpio_task and the timers
    edges,          \* interrupts in gpio_evt_queue
    pc,             \* the next statement of gpio_task
    pressKey,       \* press_key
    elapsed,        \* the time since backup_time was taken, up to Update + 1
    timer3, timer8, \* the seconds left, or Off
    callback,       \* the callback that has not yet chosen its pattern
    \* the LEDs
    normal,         \* normal_working_led
    flash,          \* LED_flash_level
    ledPc,          \* the next statement of led_task
    \* history
    plain,          \* is this press, or was the last, a plain one? (see Edge)
    length,         \* how long was the last press?
    outcome,        \* what came of it: "none", "nothing", "cleared", "update", "abort"
    overtaken       \* has led_task found no pattern since the press was recognised?

timers == <<timer3, timer8, callback>>
leds == <<normal, flash, ledPc, overtaken>>
history == <<plain, length, outcome>>
vars == <<down, edges, pc, pressKey, elapsed, timers, leds, history>>

Off == Update + 1
Never == Update + 1

Init == /\ down = FALSE /\ edges = 0 /\ pc = "idle" /\ pressKey = FALSE /\ elapsed = 0
        /\ timer3 = Off /\ timer8 = Off /\ callback = 0
        /\ normal = TRUE /\ flash = 0 /\ ledPc = "test"
        /\ plain = FALSE /\ length = 0 /\ outcome = "none" /\ overtaken = FALSE
-----------------------------------------------------------------------------
\* An edge.  A press is plain if nothing was going on before it, and if its end
\* comes after it has been recognised: no bounce, no second press in between.
Quiet == edges = 0 /\ pc = "idle"
AtRest == Quiet /\ ~down /\ ~pressKey /\ timer3 = Off /\ timer8 = Off /\ callback = 0
Edge == /\ down' = ~down
        /\ edges' = IF edges < QueueLen THEN edges + 1 ELSE edges
        /\ plain' = IF down THEN plain /\ Quiet /\ pressKey ELSE AtRest /\ normal /\ flash = 0
        /\ outcome' = IF down THEN outcome ELSE "none"
        /\ UNCHANGED <<pc, pressKey, elapsed, timers, leds, length>>

\* A failed ESP_ERROR_CHECK: the gateway restarts.
Abort == /\ outcome' = "abort"
         /\ edges' = 0 /\ pc' = "idle" /\ pressKey' = FALSE /\ elapsed' = 0
         /\ timer3' = Off /\ timer8' = Off /\ callback' = 0
         /\ normal' = TRUE /\ flash' = 0 /\ ledPc' = "test" /\ overtaken' = FALSE
         /\ UNCHANGED <<down, plain, length>>

\* gpio_task: the level is that of now.
Receive == /\ pc = "idle" /\ edges > 0
           /\ edges' = edges - 1
           /\ pc' = IF down THEN "debounce" ELSE IF pressKey THEN "lifted" ELSE "idle"
           /\ UNCHANGED <<down, pressKey, elapsed, timers, leds, history>>
NotDown == /\ pc = "debounce" /\ ~down
           /\ pc' = "idle"
           /\ UNCHANGED <<down, edges, pressKey, elapsed, timers, leds, history>>

\* esp_timer_start_once refuses a timer that is running.
Pressed == /\ pc = "debounce" /\ down
           /\ \/ /\ timer3 = Off /\ timer8 = Off
                 /\ timer3' = Clear /\ timer8' = Update
                 /\ pressKey' = TRUE /\ elapsed' = 0 /\ pc' = "idle" /\ overtaken' = FALSE
                 /\ UNCHANGED <<down, edges, callback, normal, flash, ledPc, history>>
              \/ (timer3 # Off \/ timer8 # Off) /\ Abort

\* The duration d is compared: Clear < d < Update, Update < d, or neither, which
\* includes the two durations exactly.
Lifted(next) ==
    /\ pc = "lifted" /\ pc' = next
    /\ \/ next = "clear"  /\ elapsed \in Clear..(Update - 1)
       \/ next = "update" /\ elapsed >= Update
       \/ next = "short"  /\ (elapsed < Clear \/ elapsed \in {Clear, Update})
    /\ pressKey' = FALSE /\ length' = elapsed
    /\ UNCHANGED <<down, edges, elapsed, timers, leds, plain, outcome>>

\* Mutant: the second timer goes on.
ClearedTimerOn == /\ pc = "clear" /\ timer8 # Off
                  /\ normal' = TRUE /\ flash' = 0
                  /\ outcome' = "cleared" /\ pc' = "idle"
                  /\ UNCHANGED <<down, edges, pressKey, elapsed, timers, ledPc, overtaken>>
                  /\ UNCHANGED <<plain, length>>
\* esp_timer_stop refuses a timer that is not running.
Cleared == /\ pc = "clear"
           /\ \/ /\ timer8 # Off /\ timer8' = Off
                 /\ normal' = TRUE /\ flash' = 0
                 /\ outcome' = "cleared" /\ pc' = "idle"
                 /\ UNCHANGED <<down, edges, pressKey, elapsed, timer3, callback, ledPc>>
                 /\ UNCHANGED <<overtaken, plain, length>>
              \/ timer8 = Off /\ Abort
\* Mutant: both calls name the first timer.
ShortTwice == /\ pc = "short"
              /\ Abort
Short == /\ pc = "short"
         /\ \/ /\ timer3 # Off /\ timer8 # Off
               /\ timer3' = Off /\ timer8' = Off
               /\ outcome' = "nothing" /\ pc' = "idle"
               /\ UNCHANGED <<down, edges, pressKey, elapsed, callback, leds, plain, length>>
            \/ (timer3 = Off \/ timer8 = Off) /\ Abort
UpdateAsked == /\ pc = "update"
               /\ normal' = FALSE /\ flash' = 3
               /\ outcome' = "update" /\ pc' = "idle"
               /\ UNCHANGED <<down, edges, pressKey, elapsed, timers, ledPc, overtaken>>
               /\ UNCHANGED <<plain, length>>

\* The timers.  A callback turns the normal display off, then chooses a pattern.
\* Mutant: both choose the same.
Expire == /\ callback = 0
          /\ \/ timer3 = 0 /\ timer3' = Off /\ callback' = 1 /\ UNCHANGED timer8
             \/ timer8 = 0 /\ timer8' = Off /\ callback' = 2 /\ UNCHANGED timer3
          /\ normal' = FALSE
          /\ UNCHANGED <<down, edges, pc, pressKey, elapsed, flash, ledPc, overtaken, history>>
CallbackSlow == /\ callback # 0 /\ callback' = 0
                /\ flash' = 1
                /\ UNCHANGED <<down, edges, pc, pressKey, elapsed, timer3, timer8>>
                /\ UNCHANGED <<normal, ledPc, overtaken, history>>
Callback == /\ callback # 0 /\ callback' = 0
            /\ flash' = callback
            /\ UNCHANGED <<down, edges, pc, pressKey, elapsed, timer3, timer8>>
            /\ UNCHANGED <<normal, ledPc, overtaken, history>>

\* led_task: no pattern is a reason to return to the normal display.
NoPattern == /\ ledPc = "test" /\ ~normal /\ flash = 0
             /\ ledPc' = "set" /\ overtaken' = TRUE
             /\ UNCHANGED <<down, edges, pc, pressKey, elapsed, timers, normal, flash, history>>
BackToNormal == /\ ledPc = "set" /\ ledPc' = "test"
                /\ normal' = TRUE
                /\ UNCHANGED <<down, edges, pc, pressKey, elapsed, timers, flash, overtaken>>
                /\ UNCHANGED history

\* ota_task ends a run that failed; set_OTA_url asks for one.  Neither looks at the
\* button.
OtherLed == /\ \/ ~normal /\ normal' = TRUE /\ flash' = 0
               \/ normal' = FALSE /\ flash' = 3
            /\ plain' = FALSE
            /\ UNCHANGED <<down, edges, pc, pressKey, elapsed, timers, ledPc, overtaken>>
            /\ UNCHANGED <<length, outcome>>

\* A second.  What is due happens before.
\* Mutant: a timer that is off counts, too.
LessAlways(t) == t - 1
Less(t) == IF t = Off THEN Off ELSE t - 1
Slow == pc \in {"clear", "short"} /\ elapsed = length
Tick == /\ edges = 0 /\ (pc = "idle" \/ Slow) /\ ledPc = "test"
        /\ callback = 0 /\ timer3 # 0 /\ timer8 # 0
        /\ timer3' = Less(timer3) /\ timer8' = Less(timer8)
        /\ elapsed' = IF (pressKey \/ Slow) /\ elapsed < Never THEN elapsed + 1 ELSE elapsed
        /\ UNCHANGED <<down, edges, pc, pressKey, callback, leds, history>>

GpioTask == \/ Receive \/ NotDown \/ Pressed
            \/ \E next \in {"clear", "update", "short"} : Lifted(next)
            \/ Cleared \/ Short \/ UpdateAsked

Next == \/ Edge \/ Tick \/ GpioTask \/ Expire \/ Callback
        \/ NoPattern \/ BackToNormal \/ OtherLed

Spec == Init /\ [][Next]_vars
-----------------------------------------------------------------------------
\* Every variable has its type.
TypeOK ==
    /\ down \in BOOLEAN /\ edges \in 0..QueueLen
    /\ pc \in {"idle", "debounce", "lifted", "clear", "update", "short"}
    /\ pressKey \in BOOLEAN /\ elapsed \in 0..Never
    /\ timer3 \in 0..Clear \cup {Off} /\ timer8 \in 0..Update \cup {Off}
    /\ callback \in 0..2
    /\ normal \in BOOLEAN /\ flash \in 0..3 /\ ledPc \in {"test", "set"}
    /\ plain \in BOOLEAN /\ overtaken \in BOOLEAN /\ length \in 0..Never
    /\ outcome \in {"none", "nothing", "cleared", "update", "abort"}

\* The seconds in which a timer and gpio_task race: the ones before and after the
\* two durations.
Risky == {Clear - 1, Clear, Update - 1, Update}

\* A plain press does what the user guide (2.5) says, and does not restart the
\* gateway, unless the button was let go within a second of one of the durations.
PlainPressWorks ==
    plain /\ ~down /\ Quiet /\ ~pressKey /\ length \notin Risky
        => outcome = IF length < Clear THEN "nothing"
                     ELSE IF length < Update THEN "cleared" ELSE "update"

\* While a plain press lasts the pattern tells what letting go will do (user guide
\* 2.4), from a second after each duration on, with one exception: if led_task gets
\* to run between the two assignments of the first callback, and then only, the
\* LEDs show the normal display all the way to the second duration.
PatternTellsHold ==
    plain /\ down /\ pressKey
        => /\ elapsed \in (Clear + 1)..(Update - 1) => flash = 1 /\ (normal <=> overtaken)
           /\ elapsed > Update => flash = 2 /\ ~normal

\* After it no timer is left running that would change the pattern once more, and
\* the pattern is that of the outcome.
PatternTellsOutcome ==
    plain /\ ~down /\ Quiet /\ ~pressKey /\ length \notin Risky
        => /\ timer3 = Off /\ timer8 = Off
           /\ outcome \in {"nothing", "cleared"} => normal /\ flash = 0
           /\ outcome = "update" => ~normal /\ flash = 3
=============================================================================
