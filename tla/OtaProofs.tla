----------------------------- MODULE OtaProofs -----------------------------
(***************************************************************************)
(* Proofs about Ota, for every set of URLs and images, every size, and     *)
(* every interleaving of the three tasks with failures and restarts.       *)
(***************************************************************************)
EXTENDS Ota, TLAPS

\* Only a run that has succeeded has moved the boot partition away from the
\* running one, and only after the update partition was found to be whole.
Progress ==
    /\ Whole(slots[running])
    /\ otaPc # "succeeded" => boot = running
    /\ otaPc = "succeeded" => boot = UpdateSlot
    /\ otaPc \in {"begin", "read", "end", "switch", "succeeded"} => image \in Image
    /\ otaPc \in {"read", "end", "switch", "succeeded"} =>
           slots[UpdateSlot].image \in {image, NoImage}
    /\ otaPc \in {"switch", "succeeded"} => Whole(slots[UpdateSlot])

IndInv == TypeOK /\ AlwaysBootable /\ Progress

LEMMA SlotFacts ==
    \A s \in Slot : /\ Other(s) \in Slot /\ Other(s) # s /\ Other(Other(s)) = s
                    /\ \A t \in Slot : t = s \/ t = Other(s)
  BY DEF Slot, Other

\* A partition that is written block by block holds a content at every moment.
LEMMA ContentFacts ==
    /\ Erased \in Content /\ Erased.image = NoImage
    /\ \A i \in Image, n \in Nat : [image |-> i, blocks |-> n] \in Content
    /\ \A c \in Content : c.blocks \in Nat /\ c.blocks + 1 \in Nat
  BY DEF Content, Erased

LEMMA InitInv == Init => IndInv
<1> SUFFICES ASSUME Init PROVE IndInv
  OBVIOUS
<1> USE DEF Init
<1>1. /\ slots[0] = [image |-> Factory, blocks |-> Size[Factory]] /\ slots[1] = Erased
      /\ boot = 0 /\ running = 0
  BY DEF Slot
<1>2. Whole(slots[0])
  BY <1>1, OtaAssumption DEF Whole
<1>3. slots \in [Slot -> Content]
  <2>1. Factory \in Image /\ Size[Factory] \in Nat
    BY OtaAssumption
  <2>2. slots[0] \in Content /\ slots[1] \in Content
    BY <1>1, <2>1, ContentFacts
  <2>3. slots = [s \in Slot |-> slots[s]] /\ Slot = {0, 1}
    BY DEF Slot
  <2> QED
    BY <2>2, <2>3
<1>4. TypeOK
  BY <1>1, <1>3, OtaAssumption DEF TypeOK, Slot, NoSetting
<1>5. AlwaysBootable /\ Progress
  BY <1>1, <1>2 DEF AlwaysBootable, Progress
<1> QED
  BY <1>4, <1>5 DEF IndInv

\* The executor, the button: nothing the invariant speaks of changes but types.
LEMMA RequestInv ==
    ASSUME IndInv, SetUrl \/ Button
    PROVE  IndInv'
<1>1. UNCHANGED <<flash, running, otaPc, download>>
  BY DEF SetUrl, Button, SetOtaUrl, SetPointer, ClearUrl, MallocUrl, CopyUrl, ShowUpdate,
         StartUpdate, LongPress, LongPressLed, OtherLed
<1>2. TypeOK'
  <2> USE DEF IndInv, TypeOK, flash, download, request, setter
  <2>1. ASSUME NEW u \in Url \cup {NoUrl}, NEW now \in BOOLEAN, SetOtaUrl(u, now)
        PROVE  TypeOK'
    <3>1. /\ setting' \in [url : Url \cup {NoUrl}, now : BOOLEAN]
          /\ setPc' \in {"null", "led", "malloc"}
          /\ userUrl' \in {userUrl, Freed}
          /\ configUrl' \in {configUrl, "freed"}
      BY <2>1 DEF SetOtaUrl
    <3>2. UNCHANGED <<flash, running, request, pressPc, otaPc, download>>
      BY <2>1 DEF SetOtaUrl
    <3> QED
      BY <3>1, <3>2
  <2>2. CASE ClearUrl \/ MallocUrl \/ CopyUrl
    <3>1. /\ userUrl' \in Url \cup {NoUrl, Raw}
          /\ setPc' \in {"malloc", "copy", "led"}
      BY <2>2 DEF ClearUrl, MallocUrl, CopyUrl, SetPointer
    <3>2. UNCHANGED <<flash, running, request, setting, pressPc, otaPc, configUrl, download>>
      BY <2>2 DEF ClearUrl, MallocUrl, CopyUrl, SetPointer
    <3> QED
      BY <3>1, <3>2
  <2>3. CASE ShowUpdate \/ StartUpdate
    <3>1. startBit' \in BOOLEAN /\ asked' \in BOOLEAN
      BY <2>3 DEF ShowUpdate, StartUpdate
    <3>2. setting' \in {setting, NoSetting} /\ NoSetting \in [url : Url \cup {NoUrl}, now : BOOLEAN]
      BY <2>3 DEF ShowUpdate, StartUpdate, NoSetting
    <3>3. led' \in {led, "update"} /\ setPc' \in {"idle", "bit"}
      BY <2>3 DEF ShowUpdate, StartUpdate
    <3>4. UNCHANGED <<flash, running, userUrl, pressPc, otaPc, configUrl, download>>
      BY <2>3 DEF ShowUpdate, StartUpdate
    <3> QED
      BY <3>1, <3>2, <3>3, <3>4
  <2>4. CASE Button
    <3> USE <2>4 DEF Button, LongPress, LongPressLed, OtherLed
    <3>1. startBit' \in BOOLEAN /\ asked' \in BOOLEAN
      OBVIOUS
    <3>2. led' \in {led, "update", "normal", "held"} /\ pressPc' \in {pressPc, "led", "idle"}
      OBVIOUS
    <3>3. UNCHANGED <<flash, running, userUrl, setter, otaPc, configUrl, download>>
      OBVIOUS
    <3> HIDE <2>4
    <3> QED
      BY <3>1, <3>2, <3>3
  <2> QED
    BY <2>1, <2>2, <2>3, <2>4 DEF SetUrl
<1>3. AlwaysBootable' /\ Progress'
  BY <1>1 DEF IndInv, AlwaysBootable, Progress, flash, download, UpdateSlot, Other, Whole
<1> QED
  BY <1>2, <1>3 DEF IndInv

\* The steps of ota_task that leave the flash alone.
LEMMA NoFlashInv ==
    ASSUME IndInv,
           \/ WaitStartBit \/ CheckUrl \/ PickUrl \/ OpenClient \/ EndOfData \/ WriteFails
           \/ EndOta \/ RunFails \/ ClearStartBit
           \/ \E from \in {"init", "begin", "switch"} : Fails(from)
    PROVE  IndInv'
<1> USE DEF IndInv, flash, request, others, download, setter, Goto, Fails
<1>1. UNCHANGED <<slots, boot, running>>
  BY DEF WaitStartBit, CheckUrl, PickUrl, OpenClient, EndOfData, WriteFails, EndOta,
         RunFails, ClearStartBit
<1>2. AlwaysBootable'
  BY <1>1 DEF AlwaysBootable, Whole
<1>3. CASE WaitStartBit \/ CheckUrl \/ PickUrl \/ RunFails \/ ClearStartBit
  <2> USE <1>3 DEF WaitStartBit, CheckUrl, PickUrl, RunFails, ClearStartBit
  <2>1. TypeOK'
    <3> USE DEF TypeOK
    <3>1. startBit' \in BOOLEAN /\ asked' \in BOOLEAN /\ writeOk' \in BOOLEAN
      OBVIOUS
    <3>2. /\ led' \in {led, "normal"} /\ image' \in {image, NoImage}
          /\ otaPc' \in {"check", "init", "pick", "report", "wait"}
          /\ configUrl' \in {configUrl, "built-in", "null", "user", "freed"}
      OBVIOUS
    <3>3. UNCHANGED <<userUrl, setPc, setting, pressPc>>
      OBVIOUS
    <3> HIDE <1>3
    <3> QED
      BY <1>1, <3>1, <3>2, <3>3
  <2>2. Progress'
    BY <1>1 DEF Progress, UpdateSlot, Other, Whole
  <2> QED
    BY <1>2, <2>1, <2>2
<1>4. CASE /\ Goto("init", "begin")
           /\ \E u \in Texts : image' = ImageAt[u]
           /\ configUrl' = "null"
           /\ UNCHANGED <<flash, request, others, writeOk>>
  <2>1. Texts \subseteq Url
    BY OtaAssumption DEF Texts
  <2>2. image' \in Image
    BY <1>4, <2>1, OtaAssumption
  <2>3. TypeOK'
    BY <1>4, <2>2 DEF TypeOK
  <2>4. Progress'
    BY <1>1, <1>4, <2>2 DEF Progress, UpdateSlot, Other, Whole
  <2> QED
    BY <1>2, <2>3, <2>4
<1>5. CASE EndOfData \/ WriteFails \/ EndOta
  <2> USE <1>5 DEF EndOfData, WriteFails, EndOta
  <2>1. TypeOK'
    <3> USE DEF TypeOK
    <3>1. writeOk' \in BOOLEAN /\ otaPc' \in {otaPc, "end", "switch", "failed"}
      OBVIOUS
    <3>2. UNCHANGED <<startBit, led, asked, userUrl, setPc, setting, pressPc, configUrl, image>>
      OBVIOUS
    <3> HIDE <1>5
    <3> QED
      BY <1>1, <3>1, <3>2
  <2>2. Progress'
    BY <1>1 DEF Progress, UpdateSlot, Other, Whole
  <2> QED
    BY <1>2, <2>1, <2>2
<1>6. CASE \E from \in {"init", "begin", "switch"} : Fails(from)
  <2>1. TypeOK'
    BY <1>6 DEF TypeOK
  <2>2. Progress'
    BY <1>1, <1>6 DEF Progress, UpdateSlot, Other, Whole
  <2> QED
    BY <1>2, <2>1, <2>2
<1> QED
  BY <1>3, <1>4, <1>5, <1>6 DEF OpenClient

\* Erasing and writing only ever touch the update partition.
LEMMA WriteInv ==
    ASSUME IndInv, otaPc \in {"begin", "read"}, otaPc' = "read",
           NEW c \in Content, c.image \in {image, NoImage},
           slots' = [slots EXCEPT ![UpdateSlot] = c],
           UNCHANGED <<boot, running, image>>, writeOk' \in BOOLEAN,
           UNCHANGED <<request, others, configUrl>>
    PROVE  IndInv' /\ slots'[running] = slots[running]
<1>1. /\ running \in Slot /\ boot = running /\ slots \in [Slot -> Content]
      /\ image \in Image /\ Whole(slots[running])
  BY DEF IndInv, TypeOK, Progress
<1>2. UpdateSlot \in Slot /\ UpdateSlot # running
  BY <1>1, SlotFacts DEF UpdateSlot
<1>3. /\ slots' \in [Slot -> Content] /\ slots'[running] = slots[running]
      /\ slots'[UpdateSlot] = c
  BY <1>1, <1>2
<1>4. TypeOK'
  BY <1>3 DEF IndInv, TypeOK, request, others, setter
<1>5. AlwaysBootable'
  BY <1>1, <1>3 DEF AlwaysBootable, Whole
<1>6. Progress'
  BY <1>1, <1>3 DEF Progress, Whole, UpdateSlot
<1> QED
  BY <1>3, <1>4, <1>5, <1>6 DEF IndInv

LEMMA FlashInv ==
    ASSUME IndInv, BeginOta \/ ReadBlock
    PROVE  IndInv' /\ slots'[running] = slots[running]
<1>1. /\ running \in Slot /\ UpdateSlot \in Slot /\ slots \in [Slot -> Content]
      /\ writeOk \in BOOLEAN
  BY SlotFacts DEF IndInv, TypeOK, UpdateSlot
<1>2. CASE ReadBlock
  <2> DEFINE c == [image |-> image, blocks |-> slots[UpdateSlot].blocks + 1]
  <2>1. image \in Image /\ slots[UpdateSlot] \in Content
    BY <1>1, <1>2 DEF ReadBlock, IndInv, Progress
  <2>2. c \in Content /\ c.image = image
    BY <2>1, ContentFacts
  <2>3. slots' = [slots EXCEPT ![UpdateSlot] = c]
    BY <1>2 DEF ReadBlock
  <2> HIDE DEF c
  <2>4. /\ otaPc = "read" /\ otaPc' = "read" /\ writeOk' \in BOOLEAN
        /\ UNCHANGED <<boot, running, image, request, others, configUrl>>
    BY <1>1, <1>2 DEF ReadBlock, others, download
  <2> QED
    BY <2>2, <2>3, <2>4, WriteInv
<1>3. CASE /\ Goto("begin", "read")
           /\ slots' = [slots EXCEPT ![UpdateSlot] = Erased]
           /\ writeOk' = TRUE
           /\ UNCHANGED <<boot, request, others, configUrl, image>>
  <2>1. /\ otaPc = "begin" /\ otaPc' = "read" /\ writeOk' \in BOOLEAN
        /\ UNCHANGED <<boot, running, image, request, others, configUrl>>
    BY <1>3 DEF Goto, others
  <2> QED
    BY <1>3, <2>1, ContentFacts, WriteInv
<1>4. CASE Fails("begin")
  BY <1>4, NoFlashInv DEF Fails, flash, others
<1> QED
  BY <1>2, <1>3, <1>4 DEF BeginOta

LEMMA SwitchInv ==
    ASSUME IndInv, SetBootPartition
    PROVE  IndInv'
<1>1. CASE Fails("switch")
  BY <1>1, NoFlashInv
<1>2. CASE /\ Goto("switch", "succeeded")
           /\ boot' = UpdateSlot
           /\ UNCHANGED <<slots, request, others, configUrl, download>>
  <2> USE <1>2 DEF IndInv, Goto, request, others, setter, download
  <2>1. UpdateSlot \in Slot
    BY SlotFacts DEF TypeOK, UpdateSlot
  <2>2. TypeOK'
    BY <2>1 DEF TypeOK
  <2>3. AlwaysBootable'
    BY DEF Progress, AlwaysBootable, Whole
  <2>4. Progress'
    BY DEF Progress, UpdateSlot, Other, Whole
  <2> QED
    BY <2>2, <2>3, <2>4
<1> QED
  BY <1>1, <1>2 DEF SetBootPartition

LEMMA BootInv ==
    ASSUME IndInv, Boot, UNCHANGED flash
    PROVE  IndInv' /\ running' = boot
<1>1. running' = boot /\ boot \in Slot
  BY DEF Boot, IndInv, AlwaysBootable, TypeOK
<1>2. TypeOK'
  BY <1>1 DEF Boot, IndInv, TypeOK, flash, NoSetting
<1>3. AlwaysBootable' /\ Progress'
  BY <1>1 DEF Boot, IndInv, AlwaysBootable, Progress, Whole, flash
<1> QED
  BY <1>1, <1>2, <1>3 DEF IndInv

LEMMA NextInv == IndInv /\ [Next]_vars => IndInv'
<1> SUFFICES ASSUME IndInv, [Next]_vars PROVE IndInv'
  OBVIOUS
<1>1. CASE UNCHANGED vars
  BY <1>1 DEF vars, flash, request, others, setter, download, IndInv, TypeOK,
              AlwaysBootable, Progress, Whole, UpdateSlot, Other
<1>2. CASE SetUrl \/ Button
  BY <1>2, RequestInv
<1>3. CASE \/ WaitStartBit \/ CheckUrl \/ PickUrl \/ OpenClient \/ EndOfData
           \/ WriteFails \/ EndOta \/ RunFails \/ ClearStartBit
  BY <1>3, NoFlashInv
<1>4. CASE BeginOta \/ ReadBlock
  BY <1>4, FlashInv
<1>5. CASE SetBootPartition
  BY <1>5, SwitchInv
<1>6. CASE RestartNew \/ Restart
  BY <1>6, BootInv DEF RestartNew, Restart
<1> QED
  BY <1>1, <1>2, <1>3, <1>4, <1>5, <1>6 DEF Next, OtaTask

LEMMA Inductive == Spec => []IndInv
  BY InitInv, NextInv, PTL DEF Spec
-----------------------------------------------------------------------------
\* Types: in particular the tasks never follow a pointer outside its kinds.
THEOREM TypeCorrect == Spec => []TypeOK
<1>1. IndInv => TypeOK
  BY DEF IndInv
<1> QED
  BY <1>1, Inductive, PTL

\* Whatever is downloaded and wherever it is interrupted, there is a whole
\* and valid image to boot.
THEOREM BootIsSafe == Spec => []AlwaysBootable
<1>1. IndInv => AlwaysBootable
  BY DEF IndInv
<1> QED
  BY <1>1, Inductive, PTL

\* A failure leaves the boot partition alone, a success installs the image of
\* the run.
THEOREM VerdictCorrect == Spec => []VerdictIsTrue
<1>1. IndInv => VerdictIsTrue
  <2> SUFFICES ASSUME IndInv PROVE VerdictIsTrue
    OBVIOUS
  <2>1. CASE otaPc = "succeeded"
    <3> DEFINE content == slots[UpdateSlot]
    <3>1. /\ boot = UpdateSlot /\ content \in Content /\ Whole(content)
          /\ content.image \in {image, NoImage}
      BY <2>1, SlotFacts DEF IndInv, TypeOK, Progress, UpdateSlot
    <3>2. content.image = image /\ image \in Valid
      BY <3>1, OtaAssumption DEF Whole
    <3>3. content = [image |-> image, blocks |-> Size[image]]
      BY <3>1, <3>2 DEF Whole, Content
    <3> QED
      BY <2>1, <3>1, <3>2, <3>3 DEF VerdictIsTrue
  <2>2. CASE otaPc # "succeeded"
    BY <2>2 DEF IndInv, Progress, VerdictIsTrue
  <2> QED
    BY <2>1, <2>2
<1> QED
  BY <1>1, Inductive, PTL

\* No step writes to the partition the program runs from.
LEMMA KeepsRunning == IndInv /\ [Next]_vars => slots'[running] = slots[running]
<1> SUFFICES ASSUME IndInv, [Next]_vars PROVE slots'[running] = slots[running]
  OBVIOUS
<1>1. CASE BeginOta \/ ReadBlock
  BY <1>1, FlashInv
<1>2. CASE ~(BeginOta \/ ReadBlock)
  <2>1. slots' = slots
    BY <1>2 DEF Next, vars, flash, SetUrl, SetOtaUrl, SetPointer, ClearUrl, MallocUrl,
                CopyUrl, ShowUpdate, StartUpdate, Button, LongPress, LongPressLed,
                OtherLed, OtaTask, WaitStartBit, CheckUrl, PickUrl, OpenClient, Fails,
                EndOfData, WriteFails, EndOta, SetBootPartition, RestartNew, RunFails,
                ClearStartBit, Restart
  <2> QED
    BY <2>1
<1> QED
  BY <1>1, <1>2

THEOREM RunningIsSafe == Spec => RunningNeverWritten
<1>1. IndInv /\ [Next]_vars => [slots'[running] = slots[running]]_vars
  BY KeepsRunning
<1> QED
  BY <1>1, Inductive, PTL DEF Spec, RunningNeverWritten
-----------------------------------------------------------------------------
\* The refinement: what a step of FirmwareUpdate is, in terms of partitions.
LEMMA RefineInit == Init => Update!Init
<1> SUFFICES ASSUME Init PROVE Update!Init
  OBVIOUS
<1>1. slots[0] = [image |-> Factory, blocks |-> Size[Factory]] /\ boot = 0 /\ running = 0
  BY DEF Init, Slot
<1>2. ImageIn(0) = Factory
  BY <1>1, OtaAssumption DEF ImageIn, Whole
<1> QED
  BY <1>1, <1>2 DEF Update!Init

\* Nothing is visible of a step that keeps both partitions in use as they are.
LEMMA RefineStutter ==
    ASSUME slots'[running] = slots[running], slots'[boot] = slots[boot],
           UNCHANGED <<boot, running>>
    PROVE  UNCHANGED Update!vars
<1>1. ImageIn(running)' = ImageIn(running) /\ ImageIn(boot)' = ImageIn(boot)
  BY DEF ImageIn, Whole
<1> QED
  BY <1>1 DEF Update!vars

LEMMA RefineSwitch ==
    ASSUME IndInv, Goto("switch", "succeeded"), boot' = UpdateSlot,
           UNCHANGED <<slots, running>>
    PROVE  Update!Next
<1>1. boot = running /\ boot' # running /\ Whole(slots[UpdateSlot])
  BY SlotFacts DEF IndInv, TypeOK, Progress, Goto, UpdateSlot
<1>2. ImageIn(boot)' = slots[UpdateSlot].image /\ slots[UpdateSlot].image \in Valid
  BY <1>1 DEF ImageIn, Whole
<1>3. ImageIn(running)' = ImageIn(running)
  BY DEF ImageIn, Whole
<1>4. (boot # running)' = TRUE /\ (boot # running) = FALSE
  BY <1>1
<1>5. Update!Install(slots[UpdateSlot].image)
  BY <1>1, <1>2, <1>3, <1>4 DEF Update!Install
<1> QED
  BY <1>2, <1>5 DEF Update!Next

LEMMA RefineBoot ==
    ASSUME IndInv, Boot, UNCHANGED flash
    PROVE  Update!Next
<1>1. running' = boot /\ boot' = boot /\ slots' = slots
  BY BootInv DEF flash
<1>2. ImageIn(running)' = ImageIn(boot) /\ ImageIn(boot)' = ImageIn(boot)
  BY <1>1 DEF ImageIn, Whole
<1>3. (boot # running)' = FALSE
  BY <1>1
<1>4. Update!Restart
  BY <1>2, <1>3 DEF Update!Restart
<1> QED
  BY <1>4 DEF Update!Next

LEMMA RefineNext == IndInv /\ [Next]_vars => [Update!Next]_(Update!vars)
<1> SUFFICES ASSUME IndInv, [Next]_vars PROVE [Update!Next]_(Update!vars)
  OBVIOUS
<1>1. CASE BeginOta \/ ReadBlock
  <2>1. UNCHANGED <<boot, running>>
    BY <1>1 DEF BeginOta, ReadBlock, Fails, flash, others
  <2>2. boot = running
    BY <1>1 DEF BeginOta, ReadBlock, Fails, Goto, IndInv, Progress
  <2> QED
    BY <1>1, <2>1, <2>2, FlashInv, RefineStutter
<1>2. CASE SetBootPartition
  <2>1. CASE Fails("switch")
    BY <2>1, RefineStutter DEF Fails, flash, others
  <2>2. CASE ~Fails("switch")
    BY <1>2, <2>2, RefineSwitch DEF SetBootPartition, others
  <2> QED
    BY <2>1, <2>2
<1>3. CASE RestartNew \/ Restart
  BY <1>3, RefineBoot DEF RestartNew, Restart
<1>4. CASE \/ UNCHANGED vars \/ SetUrl \/ Button
           \/ WaitStartBit \/ CheckUrl \/ PickUrl \/ OpenClient \/ EndOfData
           \/ WriteFails \/ EndOta \/ RunFails \/ ClearStartBit
  <2>1. UNCHANGED <<slots, boot, running>>
    BY <1>4 DEF vars, flash, others, SetUrl, SetOtaUrl, SetPointer, ClearUrl, MallocUrl,
                CopyUrl, ShowUpdate, StartUpdate, Button, LongPress, LongPressLed,
                OtherLed, WaitStartBit, CheckUrl, PickUrl, OpenClient, Fails,
                EndOfData, WriteFails, EndOta, RunFails, ClearStartBit
  <2> QED
    BY <2>1, RefineStutter
<1> QED
  BY <1>1, <1>2, <1>3, <1>4 DEF Next, OtaTask

\* The update, with its two partitions, its download and its three tasks,
\* keeps the promise of FirmwareUpdate.
THEOREM OtaImplementsUpdate == Spec => ImplementsUpdate
<1>1. Init => Update!Init
  BY RefineInit
<1>2. IndInv /\ [Next]_vars => [Update!Next]_(Update!vars)
  BY RefineNext
<1> QED
  BY <1>1, <1>2, Inductive, PTL DEF Spec, ImplementsUpdate, Update!Spec
=============================================================================
