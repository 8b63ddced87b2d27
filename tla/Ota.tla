-------------------------------- MODULE Ota --------------------------------
(***************************************************************************)
(* The firmware update.  Three tasks share ota_group's start bit, the      *)
(* pointer user_ota_url and the LED pattern, without a lock:               *)
(*                                                                         *)
(*   executor    set_OTA_url: replaces the URL, sets the bit               *)
(*   gpio_task   a press of more than 8 s sets the bit                     *)
(*   ota_task    waits for the bit, downloads into the partition that is   *)
(*               not running, makes it the boot partition and restarts     *)
(*                                                                         *)
(* Steps of different tasks interleave between any two accesses to shared  *)
(* state, every call of the update library may fail, and the gateway may   *)
(* restart at any moment; the flash survives that, the rest does not.      *)
(*                                                                         *)
(* Data.  An image is downloaded in blocks; a partition is the image it    *)
(* was last written with and how many blocks of it it holds.               *)
(***************************************************************************)
EXTENDS Integers

CONSTANTS
    Url,         \* the URLs a client may set, and the built-in one
    DefaultUrl,  \* http://firmware.gl-inet.cn/...
    NoUrl,       \* a NULL pointer
    Freed,       \* a pointer to a block that has been freed
    Raw,         \* a pointer to a block whose text is not yet written
    Image,       \* what servers answer with
    Valid,       \* the images that pass the check of esp_ota_end
    Factory,     \* the image the gateway is delivered with
    NoImage,     \* the image in an erased partition
    ImageAt,     \* what is found at a URL
    Size,        \* the blocks of an image
    PartSize     \* the blocks of a partition

ASSUME OtaAssumption ==
    /\ DefaultUrl \in Url
    /\ {NoUrl, Freed, Raw} \cap Url = {}
    /\ NoUrl # Freed /\ NoUrl # Raw /\ Freed # Raw
    /\ Valid \subseteq Image /\ Factory \in Valid /\ NoImage \notin Image
    /\ ImageAt \in [Url -> Image]
    /\ PartSize \in Nat
    /\ Size \in [Image -> Nat \ {0}] /\ Size[Factory] <= PartSize

VARIABLES
    \* flash
    slots,     \* the contents of ota_0 and ota_1
    boot,      \* the partition otadata selects
    \* RAM
    running,   \* the partition the program runs from
    startBit,  \* OTA_START_BIT
    userUrl,   \* user_ota_url: a URL stands for a pointer to its text
    led,       \* normal_working_led and LED_flash_level
    setPc,     \* the next statement of set_OTA_url
    setting,   \* its argument
    pressPc,   \* the next statement of gpio_task after a long press
    otaPc,     \* the next statement of ota_task
    configUrl, \* config.url: the built-in text, the user's block, ...
    image,     \* the image being downloaded
    writeOk,   \* ota_write_err = ESP_OK
    \* history
    asked      \* has a command asked for an update and no run begun since?

flash == <<slots, boot>>
request == <<startBit, led, asked>>
setter == <<setPc, setting>>
download == <<image, writeOk>>
others == <<running, userUrl, setter, pressPc>>   \* what ota_task leaves alone
vars == <<flash, request, others, otaPc, configUrl, download>>

Slot == {0, 1}
Other(s) == 1 - s

Content == [image : Image \cup {NoImage}, blocks : Nat]
Erased == [image |-> NoImage, blocks |-> 0]
NoSetting == [url |-> NoUrl, now |-> FALSE]
Whole(content) == /\ content.image \in Valid
                  /\ content.blocks = Size[content.image]
-----------------------------------------------------------------------------
Init ==
    /\ slots = [s \in Slot |-> IF s = 0 THEN [image |-> Factory, blocks |-> Size[Factory]]
                                        ELSE Erased]
    /\ boot = 0 /\ running = 0
    /\ startBit = FALSE /\ led = "normal" /\ asked = FALSE
    /\ userUrl = NoUrl /\ setPc = "idle" /\ setting = NoSetting
    /\ pressPc = "idle"
    /\ otaPc = "wait" /\ configUrl = "null" /\ image = NoImage /\ writeOk = TRUE

(***************************************************************************)
(* The executor: set_OTA_url, one action per access to shared state.       *)
(***************************************************************************)
\* A command without a URL (len <= 2) keeps the one that is set.  The old
\* text is freed before the pointer to it is cleared.
SetOtaUrl(u, now) ==
    /\ setPc = "idle"
    /\ setting' = [url |-> u, now |-> now]
    /\ IF u # NoUrl /\ userUrl # NoUrl
       THEN /\ setPc' = "null"
            /\ userUrl' = Freed
            /\ configUrl' = IF configUrl = "user" THEN "freed" ELSE configUrl
       ELSE /\ setPc' = IF u = NoUrl THEN "led" ELSE "malloc"
            /\ UNCHANGED <<userUrl, configUrl>>
    /\ UNCHANGED <<flash, running, request, pressPc, otaPc, download>>

SetPointer(at, then, pointer) ==
    /\ setPc = at
    /\ setPc' = then
    /\ userUrl' = pointer
    /\ UNCHANGED <<flash, running, request, setting, pressPc, otaPc, configUrl, download>>

ClearUrl == SetPointer("null", "malloc", NoUrl)
MallocUrl == SetPointer("malloc", "copy", Raw)
CopyUrl == SetPointer("copy", "led", setting.url)

ShowUpdate ==
    /\ setPc = "led"
    /\ IF setting.now
       THEN setPc' = "bit" /\ led' = "update"
       ELSE setPc' = "idle" /\ UNCHANGED led
    /\ setting' = NoSetting
    /\ UNCHANGED <<flash, running, startBit, asked, userUrl, pressPc, otaPc, configUrl,
                   download>>

StartUpdate ==
    /\ setPc = "bit"
    /\ setPc' = "idle"
    /\ startBit' = TRUE /\ asked' = TRUE
    /\ UNCHANGED <<flash, running, led, userUrl, setting, pressPc, otaPc, configUrl, download>>

SetUrl == \/ \E u \in Url \cup {NoUrl}, now \in BOOLEAN : SetOtaUrl(u, now)
          \/ ClearUrl \/ MallocUrl \/ CopyUrl
          \/ ShowUpdate \/ StartUpdate

(***************************************************************************)
(* The button: gpio_task after a press of more than 8 s, in two steps, and *)
(* what the timers and shorter presses do to the LEDs in the meantime.     *)
(***************************************************************************)
LongPress ==
    /\ pressPc = "idle"
    /\ pressPc' = "led"
    /\ startBit' = TRUE
    /\ UNCHANGED <<flash, running, led, asked, userUrl, setter, otaPc, configUrl, download>>

LongPressLed ==
    /\ pressPc = "led"
    /\ pressPc' = "idle"
    /\ led' = "update"
    /\ UNCHANGED <<flash, running, startBit, asked, userUrl, setter, otaPc, configUrl, download>>

OtherLed ==
    /\ led' \in {"normal", "held"}
    /\ UNCHANGED <<flash, running, startBit, asked, userUrl, setter, pressPc, otaPc,
                   configUrl, download>>

Button == LongPress \/ LongPressLed \/ OtherLed

(***************************************************************************)
(* ota_task and esp_http_ota, which it calls.  Every call that can fail    *)
(* does so in a disjunct of its own; a failure ends at "failed".           *)
(***************************************************************************)
Goto(from, to) == otaPc = from /\ otaPc' = to
Fails(from) == Goto(from, "failed") /\ UNCHANGED <<flash, request, others, configUrl, download>>

\* xEventGroupWaitBits does not clear the bit.
WaitStartBit ==
    /\ Goto("wait", "check")
    /\ startBit
    /\ asked' = FALSE
    /\ UNCHANGED <<flash, startBit, led, others, configUrl, download>>

\* user_ota_url is read twice: for the test and for config.url.
CheckUrl ==
    /\ IF userUrl = NoUrl
       THEN Goto("check", "init") /\ configUrl' = "built-in"
       ELSE Goto("check", "pick") /\ UNCHANGED configUrl
    /\ UNCHANGED <<flash, request, others, download>>

PickUrl ==
    /\ Goto("pick", "init")
    /\ configUrl' = IF userUrl = NoUrl THEN "null"
                    ELSE IF userUrl = Freed THEN "freed" ELSE "user"
    /\ UNCHANGED <<flash, request, others, download>>

\* The URLs that esp_http_client_init may find at config.url.  A block that
\* is freed or not yet written may hold any text, a whole URL included.
Texts == IF configUrl = "built-in" THEN {DefaultUrl}
         ELSE IF configUrl = "null" THEN {}
         ELSE IF configUrl = "user" /\ userUrl \in Url THEN {userUrl}
         ELSE Url

\* esp_http_client_init copies the URL; esp_http_client_open connects.  The
\* answer's status is not looked at: an error page is an image like another.
OpenClient ==
    \/ /\ Goto("init", "begin")
       /\ \E u \in Texts : image' = ImageAt[u]
       /\ configUrl' = "null"
       /\ UNCHANGED <<flash, request, others, writeOk>>
    \/ Fails("init")

\* Mutant: the update always goes to ota_1.
UpdateOta1 == 1

\* esp_ota_get_next_update_partition
UpdateSlot == Other(running)

\* Mutant: the partition is selected for booting when it is opened.
BeginOtaSelects ==
    \/ /\ Goto("begin", "read")
       /\ slots' = [slots EXCEPT ![UpdateSlot] = Erased]
       /\ boot' = UpdateSlot
       /\ writeOk' = TRUE
       /\ UNCHANGED <<request, others, configUrl, image>>
    \/ Fails("begin")

\* esp_ota_begin(OTA_SIZE_UNKNOWN) erases the partition.
BeginOta ==
    \/ /\ Goto("begin", "read")
       /\ slots' = [slots EXCEPT ![UpdateSlot] = Erased]
       /\ writeOk' = TRUE
       /\ UNCHANGED <<boot, request, others, configUrl, image>>
    \/ Fails("begin")

\* One turn of the loop: a block is read and written, ...
ReadBlock ==
    /\ otaPc = "read"
    /\ slots[UpdateSlot].blocks < Size[image]
    /\ slots[UpdateSlot].blocks < PartSize
    /\ slots' = [slots EXCEPT ![UpdateSlot] =
                     [image |-> image, blocks |-> @.blocks + 1]]
    /\ UNCHANGED <<boot, request, others, otaPc, configUrl, download>>

\* Mutant: esp_http_client_read is called again when it returns nothing.
KeepReading == Goto("read", "read") /\ UNCHANGED <<flash, request, others, configUrl, download>>

\* ... or the loop is left: at the end of the image or by a connection error,
\* which are not told apart, or because a block cannot be written.
EndOfData == Goto("read", "end") /\ UNCHANGED <<flash, request, others, configUrl, download>>
WriteFails == /\ Goto("read", "end")
              /\ slots[UpdateSlot].blocks < Size[image]
              /\ writeOk' = FALSE
              /\ UNCHANGED <<flash, request, others, configUrl, image>>

\* Mutants: esp_ota_end's error is not looked at; esp_ota_set_boot_partition is
\* not called.
EndOtaUnchecked ==
    /\ IF writeOk THEN Goto("end", "switch") ELSE Goto("end", "failed")
    /\ UNCHANGED <<flash, request, others, configUrl, download>>
EndOtaIsEnough ==
    /\ IF writeOk /\ Whole(slots[UpdateSlot])
       THEN Goto("end", "succeeded")
       ELSE Goto("end", "failed")
    /\ UNCHANGED <<flash, request, others, configUrl, download>>

\* esp_ota_end checks the image; its error and the writer's are errors of the
\* update.
EndOta ==
    /\ IF writeOk /\ Whole(slots[UpdateSlot])
       THEN Goto("end", "switch")
       ELSE Goto("end", "failed")
    /\ UNCHANGED <<flash, request, others, configUrl, download>>

\* Mutant: the partitions are counted up without a wrap.
SetBootNext ==
    \/ /\ Goto("switch", "succeeded")
       /\ boot' = boot + 1
       /\ UNCHANGED <<slots, request, others, configUrl, download>>
    \/ Fails("switch")

SetBootPartition ==
    \/ /\ Goto("switch", "succeeded")
       /\ boot' = UpdateSlot
       /\ UNCHANGED <<slots, request, others, configUrl, download>>
    \/ Fails("switch")

\* Everything in RAM is as after power-on; the bootloader starts the boot
\* partition, or the other one if that holds no image.
Boot ==
    /\ running' = IF Whole(slots[boot]) THEN boot ELSE Other(boot)
    /\ startBit' = FALSE /\ led' = "normal" /\ asked' = FALSE
    /\ userUrl' = NoUrl /\ setPc' = "idle" /\ setting' = NoSetting
    /\ pressPc' = "idle"
    /\ otaPc' = "wait" /\ configUrl' = "null" /\ image' = NoImage /\ writeOk' = TRUE

\* Mutant: the new image is left for the next restart.
ReportNew == Goto("succeeded", "report") /\ UNCHANGED <<flash, request, others, configUrl, download>>

\* Two seconds after status 0 has been sent: esp_restart.
RestartNew == otaPc = "succeeded" /\ Boot /\ UNCHANGED flash

\* The bit is cleared last, five seconds after the LEDs have been reset.
RunFails ==
    /\ Goto("failed", "report")
    /\ led' = "normal"
    /\ UNCHANGED <<flash, startBit, asked, others, configUrl, download>>
ClearStartBit ==
    /\ Goto("report", "wait")
    /\ startBit' = FALSE
    /\ image' = NoImage /\ writeOk' = TRUE
    /\ UNCHANGED <<flash, led, asked, others, configUrl>>

OtaTask == \/ WaitStartBit \/ CheckUrl \/ PickUrl \/ OpenClient \/ BeginOta
           \/ ReadBlock \/ EndOfData \/ WriteFails \/ EndOta \/ SetBootPartition
           \/ RestartNew \/ RunFails \/ ClearStartBit

\* Loss of power, a panic, the RESTART command.
Restart == Boot /\ UNCHANGED flash

Next == SetUrl \/ Button \/ OtaTask \/ Restart

\* ota_task never blocks for ever inside a run: reads time out, delays end and
\* a partition is finite.  Nothing is assumed of clients and servers.
Spec == Init /\ [][Next]_vars /\ WF_vars(OtaTask)
-----------------------------------------------------------------------------
\* Every variable has a value of its kind.
TypeOK ==
    /\ slots \in [Slot -> Content] /\ boot \in Slot /\ running \in Slot
    /\ startBit \in BOOLEAN /\ asked \in BOOLEAN
    /\ led \in {"normal", "held", "update"}
    /\ userUrl \in Url \cup {NoUrl, Freed, Raw}
    /\ setPc \in {"idle", "null", "malloc", "copy", "led", "bit"}
    /\ setting \in [url : Url \cup {NoUrl}, now : BOOLEAN]
    /\ pressPc \in {"idle", "led"}
    /\ otaPc \in {"wait", "check", "pick", "init", "begin", "read", "end", "switch",
                  "succeeded", "failed", "report"}
    /\ configUrl \in {"built-in", "null", "user", "freed"}
    /\ image \in Image \cup {NoImage} /\ writeOk \in BOOLEAN

\* The bootloader always finds a whole, valid image where otadata points,
\* whatever was downloaded and wherever the update was interrupted.
AlwaysBootable == Whole(slots[boot])

\* ota_task's verdict is the truth: a failed run has left the boot partition
\* as it was, and behind a success stands the image of this very run, whole.
VerdictIsTrue ==
    /\ otaPc \in {"failed", "report"} => boot = running
    /\ otaPc = "succeeded" => /\ boot = UpdateSlot
                              /\ slots[boot] = [image |-> image, blocks |-> Size[image]]
                              /\ image \in Valid

\* The partition the program runs from is never written.
RunningNeverWritten == [][slots'[running] = slots[running]]_vars

\* Every run ends, with the bit cleared or with a restart, even if the server
\* keeps sending.
EveryRunEnds == startBit ~> ~startBit

\* An installed image gets to run.
InstalledGetsToRun == boot # running ~> boot = running

\* The tasks keep the promise of FirmwareUpdate.
ImageIn(s) == IF Whole(slots[s]) THEN slots[s].image ELSE NoImage
Update == INSTANCE FirmwareUpdate WITH
              Image <- Valid,
              current <- ImageIn(running),
              next <- ImageIn(boot),
              installed <- boot # running
ImplementsUpdate == Update!Spec

\* User guide 1.4.17: updateNow upgrades at once.  Whoever asks for an update
\* is given one: a run begins after the request.
UpdateNowUpdates == asked ~> ~asked
=============================================================================
