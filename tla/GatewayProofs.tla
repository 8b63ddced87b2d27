--------------------------- MODULE GatewayProofs ---------------------------
(***************************************************************************)
(* Proofs about the parts of the gateway that app_main starts, whatever the*)
(* others and the restarts do: NoResultForgotten for any number of results *)
(* and any capacity of the queue, ConnectionTruth and NothingHangs for any *)
(* choice of the applications that are told of a link, and ParsedAsMeant   *)
(* for all texts, whatever their characters and their lengths.             *)
(***************************************************************************)
EXTENDS Gateway, FiniteSetTheorems, SequenceTheorems, WellFoundedInduction, TLAPS

-----------------------------------------------------------------------------
(***************************************************************************)
(* Increasing sequences of results.                                        *)
(***************************************************************************)
LEMMA AppendResult ==
    ASSUME NEW s \in Seq(Nat), NEW x \in Nat
    PROVE  /\ Append(s, x) \in Seq(Nat)
           /\ Range(Append(s, x)) = Range(s) \cup {x}
<1>1. /\ Append(s, x) \in Seq(Nat) /\ Len(Append(s, x)) = Len(s) + 1
      /\ DOMAIN Append(s, x) = 1..(Len(s) + 1) /\ DOMAIN s = 1..Len(s) /\ Len(s) \in Nat
      /\ \A i \in 1..Len(s) : Append(s, x)[i] = s[i]
      /\ Append(s, x)[Len(s) + 1] = x
  OBVIOUS
<1>2. 1..(Len(s) + 1) = (1..Len(s)) \cup {Len(s) + 1}
  BY <1>1
<1> QED
  BY <1>1, <1>2 DEF Range

LEMMA AppendIncreasing ==
    ASSUME NEW s \in Seq(Nat), NEW x \in Nat, Increasing(s), \A y \in Range(s) : y < x
    PROVE  Increasing(Append(s, x))
BY DEF Increasing, Range

LEMMA TailResult ==
    ASSUME NEW s \in Seq(Nat), s # <<>>, Increasing(s)
    PROVE  /\ Head(s) \in Range(s) /\ Tail(s) \in Seq(Nat)
           /\ Range(s) = {Head(s)} \cup Range(Tail(s))
           /\ \A y \in Range(Tail(s)) : Head(s) < y
           /\ Increasing(Tail(s))
<1>1. /\ Tail(s) \in Seq(Nat) /\ Len(s) \in Nat \ {0} /\ Head(s) = s[1]
      /\ DOMAIN s = 1..Len(s) /\ DOMAIN Tail(s) = 1..(Len(s) - 1)
      /\ \A i \in 1..(Len(s) - 1) : Tail(s)[i] = s[i + 1]
  OBVIOUS
<1>2. \A y \in Range(Tail(s)) : \E i \in 2..Len(s) : y = s[i]
  BY <1>1 DEF Range
<1>3. \A i \in 2..Len(s) : i - 1 \in DOMAIN Tail(s) /\ Tail(s)[i - 1] = s[i]
  BY <1>1
<1>4. \A i \in 1..Len(s) : s[i] \in {Head(s)} \cup Range(Tail(s))
  <2> TAKE i \in 1..Len(s)
  <2>1. CASE i = 1
    BY <2>1, <1>1
  <2>2. CASE i \in 2..Len(s)
    BY <2>2, <1>3 DEF Range
  <2> QED
    BY <2>1, <2>2, <1>1
<1>5. Range(s) = {Head(s)} \cup Range(Tail(s))
  <2>1. Range(s) \subseteq {Head(s)} \cup Range(Tail(s))
    BY <1>1, <1>4 DEF Range
  <2>2. Range(Tail(s)) \subseteq Range(s)
    BY <1>1, <1>2 DEF Range
  <2>3. Head(s) \in Range(s)
    BY <1>1 DEF Range
  <2> QED
    BY <2>1, <2>2, <2>3
<1>6. \A y \in Range(Tail(s)) : Head(s) < y
  BY <1>1, <1>2 DEF Increasing
<1>7. Increasing(Tail(s))
  BY <1>1 DEF Increasing
<1> QED
  BY <1>1, <1>5, <1>6, <1>7

LEMMA ConcatIncreasing ==
    ASSUME NEW s \in Seq(Nat), NEW t \in Seq(Nat), Increasing(s), Increasing(t),
           \A x \in Range(s), y \in Range(t) : x < y
    PROVE  /\ s \o t \in Seq(Nat) /\ Increasing(s \o t)
           /\ Range(s \o t) \subseteq Range(s) \cup Range(t)
<1>1. /\ s \o t \in Seq(Nat) /\ Len(s) \in Nat /\ Len(t) \in Nat
      /\ DOMAIN s = 1..Len(s) /\ DOMAIN t = 1..Len(t)
      /\ DOMAIN (s \o t) = 1..(Len(s) + Len(t))
      /\ \A i \in 1..Len(s) : (s \o t)[i] = s[i]
      /\ \A i \in (Len(s) + 1)..(Len(s) + Len(t)) : (s \o t)[i] = t[i - Len(s)]
  OBVIOUS
<1>2. \A i \in DOMAIN (s \o t) : \/ i \in DOMAIN s
                                \/ (i - Len(s) \in DOMAIN t /\ i \notin DOMAIN s)
  <2>1. \A m, n \in Nat : \A i \in 1..(m + n) : i \in 1..m \/ (i - m \in 1..n /\ i \notin 1..m)
    OBVIOUS
  <2> TAKE i \in DOMAIN (s \o t)
  <2>2. i \in 1..(Len(s) + Len(t)) /\ Len(s) \in Nat /\ Len(t) \in Nat
    BY <1>1
  <2>3. i \in 1..Len(s) \/ (i - Len(s) \in 1..Len(t) /\ i \notin 1..Len(s))
    BY ONLY <2>1, <2>2
  <2> QED
    BY <1>1, <2>3
<1>3. \A i \in DOMAIN s, j \in DOMAIN t : s[i] < t[j]
  BY DEF Range
<1>4. ASSUME NEW i \in DOMAIN (s \o t), NEW j \in DOMAIN (s \o t), i < j
      PROVE  (s \o t)[i] < (s \o t)[j]
  <2>1. CASE i \in DOMAIN s /\ j \in DOMAIN s
    BY <2>1, <1>1, <1>4 DEF Increasing
  <2>2. CASE i \in DOMAIN s /\ j \notin DOMAIN s
    BY <2>2, <1>1, <1>2, <1>3
  <2>3. CASE i \notin DOMAIN s
    <3>1. i - Len(s) \in DOMAIN t /\ j - Len(s) \in DOMAIN t /\ i - Len(s) < j - Len(s)
      BY <2>3, <1>1, <1>2, <1>4
    <3>2. t[i - Len(s)] < t[j - Len(s)]
      BY <3>1 DEF Increasing
    <3> QED
      BY <3>1, <3>2, <1>1
  <2> QED
    BY <2>1, <2>2, <2>3
<1>5. Increasing(s \o t)
  BY <1>4 DEF Increasing
<1>6. Range(s \o t) \subseteq Range(s) \cup Range(t)
  <2>1. \A i \in DOMAIN (s \o t) : (s \o t)[i] \in Range(s) \cup Range(t)
    BY <1>1, <1>2 DEF Range
  <2> QED
    BY <2>1 DEF Range
<1> QED
  BY <1>1, <1>5, <1>6
-----------------------------------------------------------------------------
(***************************************************************************)
(* The invariant.  The two clauses about the history of NoResultForgotten  *)
(* hold after a step because of what transpond_task has in hand and of how *)
(* far it is with it; the order does because nothing it has waits any more,*)
(* and what waits came later.                                              *)
(***************************************************************************)
UploadTypeOK == /\ arrived \in Nat /\ hand \in Nat /\ sent \in BOOLEAN
                /\ scanQueue \in Seq(Nat) /\ published \in Seq(Nat)

Arrived == 1..arrived
OnlyArrived == /\ heap \subseteq Arrived /\ ignored \subseteq Arrived
               /\ unsent \subseteq Arrived /\ Range(published) \subseteq Arrived

Partition == /\ heap = dropped \cup Waiting \cup InHand
             /\ dropped \cap (Waiting \cup InHand) = {}
             /\ Waiting \cap InHand = {}
             /\ ignored \cap heap = {}

Offered == Range(published) \cup unsent
History == /\ Freed \cap WithData \subseteq Offered
           /\ Offered \subseteq WithData \cap (Freed \cup InHand)
           /\ sent => hand # NoResult
           /\ sent /\ hand \in WithData => hand \in Offered

Order == /\ Increasing(published) /\ Increasing(scanQueue)
         /\ \A x \in Range(published), y \in Waiting : x < y
         /\ \A y \in Waiting : hand < y
         /\ hand # NoResult /\ ~sent => \A x \in Range(published) : x < hand

UploadInv == UploadTypeOK /\ OnlyArrived /\ Partition /\ History /\ Order

\* The invariant mentions these variables only.
watched == <<arrived, scanQueue, hand, sent, heap, ignored, dropped, published, unsent>>

LEMMA UploadStart == UploadInit => UploadInv
<1> SUFFICES ASSUME UploadInit PROVE UploadInv
  OBVIOUS
<1>1. Range(scanQueue) = {} /\ Range(published) = {}
  BY DEF UploadInit, Range
<1>2. UploadTypeOK
  <2>1. arrived \in Nat /\ hand \in Nat
    BY DEF UploadInit, NoResult
  <2>2. sent \in BOOLEAN
    BY DEF UploadInit
  <2>3. scanQueue \in Seq(Nat) /\ published \in Seq(Nat)
    BY DEF UploadInit
  <2> QED
    BY <2>1, <2>2, <2>3 DEF UploadTypeOK
<1>3. OnlyArrived
  BY <1>1 DEF OnlyArrived, UploadInit
<1>4. Partition
  BY <1>1 DEF Partition, Waiting, InHand, NoResult, UploadInit
<1>5. History
  <2>1. Freed = {} /\ Offered = {} /\ ~sent
    BY <1>1 DEF Freed, Offered, UploadInit
  <2> QED
    BY <2>1 DEF History
<1>6. Order
  BY <1>1 DEF Order, Increasing, Waiting, UploadInit
<1> QED
  BY <1>2, <1>3, <1>4, <1>5, <1>6 DEF UploadInv

LEMMA UploadRestart == UploadReset => UploadInv'
<1> SUFFICES ASSUME UploadReset PROVE UploadInv'
  OBVIOUS
<1>1. Range(scanQueue') = {} /\ Range(published') = {}
  BY DEF UploadReset, Range
<1>2. UploadTypeOK'
  <2>1. arrived' \in Nat /\ hand' \in Nat
    BY DEF UploadReset, NoResult
  <2>2. sent' \in BOOLEAN
    BY DEF UploadReset
  <2>3. scanQueue' \in Seq(Nat) /\ published' \in Seq(Nat)
    BY DEF UploadReset
  <2> QED
    BY <2>1, <2>2, <2>3 DEF UploadTypeOK
<1>3. OnlyArrived'
  BY <1>1 DEF OnlyArrived, UploadReset
<1>4. Partition'
  BY <1>1 DEF Partition, Waiting, InHand, NoResult, UploadReset
<1>5. History'
  <2>1. Freed' = {} /\ Offered' = {} /\ ~sent'
    BY <1>1 DEF Freed, Offered, UploadReset
  <2> QED
    BY <2>1 DEF History
<1>6. Order'
  BY <1>1 DEF Order, Increasing, Waiting, UploadReset
<1> QED
  BY <1>2, <1>3, <1>4, <1>5, <1>6 DEF UploadInv

LEMMA UploadStutter == UploadInv /\ UNCHANGED watched => UploadInv'
BY DEF UploadInv, UploadTypeOK, OnlyArrived, Arrived, Partition, History, Order, Offered,
       Freed, Waiting, InHand, Increasing, Range, watched

\* What is waiting, in hand or dropped has arrived.
LEMMA InvFacts ==
    ASSUME UploadInv
    PROVE  /\ Waiting \subseteq Arrived /\ dropped \subseteq Arrived
           /\ InHand \subseteq Arrived /\ hand \in Arrived \cup {NoResult}
BY DEF UploadInv, UploadTypeOK, OnlyArrived, Partition, InHand, Arrived, NoResult

\* The next result is none of those, and later than all of them.
LEMMA ArrivesInv ==
    ASSUME UploadInv, Arrives
    PROVE  /\ arrived' = arrived + 1 /\ arrived' \in Nat /\ Newest = arrived'
           /\ Arrived' = Arrived \cup {Newest} /\ Newest \notin Arrived
           /\ \A x \in Arrived : x < Newest
           /\ hand < Newest
BY InvFacts DEF UploadInv, UploadTypeOK, Arrives, Newest, Arrived, NoResult

LEMMA IgnoredStep == UploadInv /\ ResultIgnored => UploadInv'
<1> SUFFICES ASSUME UploadInv, ResultIgnored PROVE UploadInv'
  OBVIOUS
<1>1. UNCHANGED <<scanQueue, hand, sent, heap, dropped, published, unsent>>
  BY DEF ResultIgnored, taskVars
<1>2. ignored' = ignored \cup {Newest} /\ Arrives
  BY DEF ResultIgnored
<1>3. Waiting' = Waiting /\ InHand' = InHand /\ Offered' = Offered
  BY <1>1 DEF Waiting, InHand, Offered
<1>4. UploadTypeOK'
  BY <1>1, <1>2, ArrivesInv DEF UploadInv, UploadTypeOK
<1>5. OnlyArrived'
  BY <1>1, <1>2, ArrivesInv DEF UploadInv, OnlyArrived
<1>6. Partition'
  <2>1. Newest \notin heap
    BY <1>2, ArrivesInv DEF UploadInv, OnlyArrived
  <2> QED
    BY <1>1, <1>2, <1>3, <2>1 DEF UploadInv, Partition
<1>7. History'
  <2>1. Freed' = Freed
    BY <1>1, <1>2, ArrivesInv DEF Freed, Arrived
  <2> QED
    BY <1>1, <1>3, <2>1 DEF UploadInv, History
<1>8. Order'
  BY <1>1, <1>3 DEF UploadInv, Order, Increasing
<1> QED
  BY <1>4, <1>5, <1>6, <1>7, <1>8 DEF UploadInv

LEMMA QueuedStep == UploadInv /\ ResultQueued => UploadInv'
<1> SUFFICES ASSUME UploadInv, ResultQueued PROVE UploadInv'
  OBVIOUS
<1>1. UNCHANGED <<hand, sent, ignored, published, unsent>>
  BY DEF ResultQueued
<1>2. heap' = heap \cup {Newest} /\ Arrives
  BY DEF ResultQueued
<1>3. /\ Newest \in Nat /\ Newest \notin heap \cup ignored \cup dropped \cup Waiting \cup InHand
      /\ Newest \notin Offered
  BY <1>2, ArrivesInv, InvFacts DEF UploadInv, OnlyArrived, Offered
<1>4. InHand' = InHand /\ Offered' = Offered
  BY <1>1 DEF InHand, Offered
<1>5. OnlyArrived'
  BY <1>1, <1>2, ArrivesInv DEF UploadInv, OnlyArrived
<1>6. History'
  <2>1. Freed' = Freed
    BY <1>1, <1>2, ArrivesInv DEF Freed, Arrived
  <2> QED
    BY <1>1, <1>4, <2>1 DEF UploadInv, History
<1>7. CASE scanQueue' = Append(scanQueue, Newest) /\ UNCHANGED dropped
  <2>1. /\ scanQueue' \in Seq(Nat) /\ Waiting' = Waiting \cup {Newest}
    BY <1>3, <1>7, AppendResult DEF UploadInv, UploadTypeOK, Waiting
  <2>2. UploadTypeOK'
    BY <1>1, <1>2, <2>1, ArrivesInv DEF UploadInv, UploadTypeOK
  <2>3. Partition'
    BY <1>1, <1>2, <1>3, <1>4, <1>7, <2>1 DEF UploadInv, Partition
  <2>4. Increasing(scanQueue')
    <3>1. \A y \in Range(scanQueue) : y < Newest
      BY <1>2, ArrivesInv, InvFacts DEF Waiting
    <3> QED
      BY <1>3, <1>7, <3>1, AppendIncreasing DEF UploadInv, UploadTypeOK, Order
  <2>5. \A x \in Range(published) : x < Newest
    BY <1>2, ArrivesInv DEF UploadInv, OnlyArrived
  <2>6. Order'
    BY <1>1, <1>2, <2>1, <2>4, <2>5, ArrivesInv DEF UploadInv, Order, Increasing
  <2> QED
    BY <1>5, <1>6, <2>2, <2>3, <2>6 DEF UploadInv
<1>8. CASE dropped' = dropped \cup {Newest} /\ UNCHANGED scanQueue
  <2>1. Waiting' = Waiting
    BY <1>8 DEF Waiting
  <2>2. UploadTypeOK'
    BY <1>1, <1>2, <1>8, ArrivesInv DEF UploadInv, UploadTypeOK
  <2>3. Partition'
    BY <1>1, <1>2, <1>3, <1>4, <1>8, <2>1 DEF UploadInv, Partition
  <2>4. Order'
    BY <1>1, <1>8, <2>1 DEF UploadInv, Order, Increasing
  <2> QED
    BY <1>5, <1>6, <2>2, <2>3, <2>4 DEF UploadInv
<1> QED
  BY <1>7, <1>8 DEF ResultQueued

LEMMA ReceiveStep == UploadInv /\ ReceiveResult => UploadInv'
<1> SUFFICES ASSUME UploadInv, ReceiveResult PROVE UploadInv'
  OBVIOUS
<1>1. /\ UNCHANGED <<arrived, sent, heap, ignored, dropped, published, unsent>>
      /\ hand = NoResult /\ scanQueue # <<>>
      /\ hand' = Head(scanQueue) /\ scanQueue' = Tail(scanQueue)
  BY DEF ReceiveResult, radioVars, outcome
<1>2. /\ hand' \in Waiting /\ scanQueue' \in Seq(Nat)
      /\ Waiting = {hand'} \cup Waiting'
      /\ \A y \in Waiting' : hand' < y
      /\ Increasing(scanQueue')
  BY <1>1, TailResult DEF UploadInv, UploadTypeOK, Order, Waiting
<1>3. hand' \in Arrived /\ hand' # NoResult /\ hand' \in Nat
  <2>1. hand' \in Arrived
    BY <1>2, InvFacts
  <2> QED
    BY <2>1 DEF UploadInv, UploadTypeOK, Arrived, NoResult
<1>4. InHand = {} /\ InHand' = {hand'} /\ hand' \notin Waiting' /\ ~sent
  <2>1. hand' \notin Waiting'
    BY <1>2, <1>3
  <2> QED
    BY <1>1, <1>3, <2>1 DEF InHand, UploadInv, History
<1>5. UploadTypeOK'
  BY <1>1, <1>2, <1>3 DEF UploadInv, UploadTypeOK
<1>6. OnlyArrived'
  BY <1>1 DEF UploadInv, OnlyArrived, Arrived
<1>7. Partition'
  BY <1>1, <1>2, <1>4 DEF UploadInv, Partition
<1>8. History'
  <2>1. Freed' = Freed /\ Offered' = Offered /\ ~sent'
    BY <1>1, <1>4 DEF Freed, Offered
  <2> QED
    BY <1>4, <2>1 DEF UploadInv, History
<1>9. Order'
  BY <1>1, <1>2 DEF UploadInv, Order, Increasing
<1> QED
  BY <1>5, <1>6, <1>7, <1>8, <1>9 DEF UploadInv

LEMMA SendStep == UploadInv /\ Send2Cloud => UploadInv'
<1> SUFFICES ASSUME UploadInv, Send2Cloud PROVE UploadInv'
  OBVIOUS
<1>1. /\ UNCHANGED <<arrived, scanQueue, hand, heap, ignored, dropped>>
      /\ hand # NoResult /\ ~sent /\ sent' = TRUE
  BY DEF Send2Cloud, radioVars
<1>2. Waiting' = Waiting /\ InHand' = InHand /\ Freed' = Freed /\ Arrived' = Arrived
  BY <1>1 DEF Waiting, InHand, Freed, Arrived
<1>3. InHand = {hand} /\ hand \in Arrived /\ hand \in Nat
  BY <1>1, InvFacts DEF InHand, UploadInv, UploadTypeOK
<1>4. Partition'
  BY <1>1, <1>2 DEF UploadInv, Partition
<1>5. CASE hand \notin WithData /\ UNCHANGED <<published, unsent>>
  <2>1. UploadTypeOK' /\ OnlyArrived' /\ Order' /\ Offered' = Offered
    BY <1>1, <1>2, <1>5
       DEF UploadInv, UploadTypeOK, OnlyArrived, Order, Increasing, Offered
  <2>2. History'
    BY <1>1, <1>2, <1>5, <2>1 DEF UploadInv, History
  <2> QED
    BY <1>4, <2>1, <2>2 DEF UploadInv
<1>6. CASE hand \in WithData /\ published' = Append(published, hand) /\ UNCHANGED unsent
  <2>1. published' \in Seq(Nat) /\ Range(published') = Range(published) \cup {hand}
    BY <1>3, <1>6, AppendResult DEF UploadInv, UploadTypeOK
  <2>2. Increasing(published')
    BY <1>1, <1>3, <1>6, AppendIncreasing DEF UploadInv, UploadTypeOK, Order
  <2>3. UploadTypeOK'
    BY <1>1, <2>1 DEF UploadInv, UploadTypeOK
  <2>4. OnlyArrived'
    BY <1>1, <1>2, <1>3, <1>6, <2>1 DEF UploadInv, OnlyArrived
  <2>5. Offered' = Offered \cup {hand}
    BY <1>6, <2>1 DEF Offered
  <2>6. History'
    BY <1>1, <1>2, <1>3, <1>6, <2>5 DEF UploadInv, History
  <2>7. Order'
    BY <1>1, <1>2, <2>1, <2>2 DEF UploadInv, Order, Increasing
  <2> QED
    BY <1>4, <2>3, <2>4, <2>6, <2>7 DEF UploadInv
<1>7. CASE hand \in WithData /\ unsent' = unsent \cup {hand} /\ UNCHANGED published
  <2>1. UploadTypeOK' /\ OnlyArrived' /\ Order' /\ Offered' = Offered \cup {hand}
    BY <1>1, <1>2, <1>3, <1>7
       DEF UploadInv, UploadTypeOK, OnlyArrived, Order, Increasing, Offered
  <2>2. History'
    BY <1>1, <1>2, <1>3, <1>7, <2>1 DEF UploadInv, History
  <2> QED
    BY <1>4, <2>1, <2>2 DEF UploadInv
<1> QED
  BY <1>5, <1>6, <1>7 DEF Send2Cloud

LEMMA FreeStep == UploadInv /\ FreeResult => UploadInv'
<1> SUFFICES ASSUME UploadInv, FreeResult PROVE UploadInv'
  OBVIOUS
<1>1. /\ UNCHANGED <<arrived, scanQueue, ignored, dropped, published, unsent>>
      /\ hand # NoResult /\ sent /\ ~sent' /\ sent' \in BOOLEAN
      /\ heap' = heap \ {hand} /\ hand' = NoResult
  BY DEF FreeResult, radioVars, outcome
<1>2. Waiting' = Waiting /\ Offered' = Offered /\ InHand' = {} /\ Arrived' = Arrived
  BY <1>1 DEF Waiting, Offered, InHand, Arrived
<1>3. InHand = {hand} /\ hand \in Arrived /\ hand \in heap /\ hand \notin ignored
  BY <1>1, InvFacts DEF InHand, UploadInv, UploadTypeOK, Partition
<1>4. UploadTypeOK'
  BY <1>1 DEF UploadInv, UploadTypeOK, NoResult
<1>5. OnlyArrived'
  BY <1>1, <1>2 DEF UploadInv, OnlyArrived
<1>6. Partition'
  BY <1>1, <1>2, <1>3 DEF UploadInv, Partition
<1>7. History'
  <2>1. Freed' = Freed \cup {hand}
    BY <1>1, <1>3 DEF Freed, Arrived
  <2> QED
    BY <1>1, <1>2, <1>3, <2>1 DEF UploadInv, History
<1>8. Order'
  <2>1. \A y \in Waiting : NoResult < y
    BY InvFacts DEF Arrived, NoResult, UploadInv, UploadTypeOK
  <2> QED
    BY <1>1, <1>2, <2>1 DEF UploadInv, Order, Increasing
<1> QED
  BY <1>4, <1>5, <1>6, <1>7, <1>8 DEF UploadInv

LEMMA UploadStep == UploadInv /\ UploadNext => UploadInv'
<1> SUFFICES ASSUME UploadInv, UploadNext PROVE UploadInv'
  OBVIOUS
<1>1. CASE \/ StartTasks \/ StartScanTask \/ MqttAppStart \/ DestroyClient \/ ReplaceClient
           \/ FlagChanges \/ StartScan \/ ScanEnds \/ CreateScanQueue \/ TakeClient
  <2>1. UNCHANGED watched
    BY <1>1 DEF StartTasks, StartScanTask, MqttAppStart, DestroyClient, ReplaceClient,
                FlagChanges, StartScan, ScanEnds, CreateScanQueue, TakeClient,
                uploadVars, radioVars, mqttVars, taskVars, outcome, watched
  <2> QED
    BY <2>1, UploadStutter
<1>2. CASE ResultIgnored
  BY <1>2, IgnoredStep
<1>3. CASE ResultQueued
  BY <1>3, QueuedStep
<1>4. CASE ReceiveResult
  BY <1>4, ReceiveStep
<1>5. CASE Send2Cloud
  BY <1>5, SendStep
<1>6. CASE FreeResult
  BY <1>6, FreeStep
<1> QED
  BY <1>1, <1>2, <1>3, <1>4, <1>5, <1>6 DEF UploadNext, Mqtt, Radio, TranspondTask
-----------------------------------------------------------------------------
\* What is published, in hand and waiting, one behind the other, is in the order of
\* arrival.
LEMMA OrderIsIncreasing ==
    ASSUME UploadInv
    PROVE  Increasing(published \o (IF hand = NoResult \/ sent THEN <<>> ELSE <<hand>>)
                                \o scanQueue)
<1> DEFINE middle == IF hand = NoResult \/ sent THEN <<>> ELSE <<hand>>
<1>1. /\ middle \in Seq(Nat) /\ Increasing(middle)
      /\ Range(middle) = IF hand = NoResult \/ sent THEN {} ELSE {hand}
  BY DEF UploadInv, UploadTypeOK, Increasing, Range
<1>2. published \in Seq(Nat) /\ scanQueue \in Seq(Nat)
  BY DEF UploadInv, UploadTypeOK
<1>3. Increasing(published) /\ Increasing(scanQueue)
  BY DEF UploadInv, Order
<1>4. \A x \in Range(published), y \in Range(middle) : x < y
  BY <1>1 DEF UploadInv, Order
<1>5. \A x \in Range(published) \cup Range(middle), y \in Range(scanQueue) : x < y
  BY <1>1 DEF UploadInv, Order, Waiting
<1> HIDE DEF middle
<1>6. /\ published \o middle \in Seq(Nat) /\ Increasing(published \o middle)
      /\ Range(published \o middle) \subseteq Range(published) \cup Range(middle)
  BY <1>1, <1>2, <1>3, <1>4, ConcatIncreasing
<1>7. Increasing((published \o middle) \o scanQueue)
  BY <1>2, <1>3, <1>5, <1>6, ConcatIncreasing
<1> QED
  BY <1>7 DEF middle

LEMMA UploadSafe == UploadInv => NoResultForgotten
<1> SUFFICES ASSUME UploadInv PROVE NoResultForgotten
  OBVIOUS
<1>1. Freed \cap WithData \subseteq Range(published) \cup unsent
  BY DEF UploadInv, History, Offered
<1>2. Range(published) \cup unsent \subseteq WithData \cap (Freed \cup InHand)
  BY DEF UploadInv, History, Offered
<1> QED
  BY <1>1, <1>2, OrderIsIncreasing DEF UploadInv, Partition, NoResultForgotten

LEMMA WatchedUnchanged == UNCHANGED uploadVars => UNCHANGED watched
BY DEF uploadVars, radioVars, mqttVars, taskVars, outcome, watched

LEMMA GatewayStep == UploadInv /\ [GatewayNext]_gatewayVars => UploadInv'
<1> SUFFICES ASSUME UploadInv, [GatewayNext]_gatewayVars PROVE UploadInv'
  OBVIOUS
<1>1. CASE Uploads
  BY <1>1, UploadStep DEF Uploads
<1>2. CASE Restart
  BY <1>2, UploadRestart DEF Restart
<1>3. CASE Links \/ Texts \/ UNCHANGED gatewayVars
  BY <1>3, WatchedUnchanged, UploadStutter DEF Links, Texts, gatewayVars
<1> QED
  BY <1>1, <1>2, <1>3 DEF GatewayNext

\* In every behaviour of the gateway no block of a scan result is freed twice, used
\* after it was freed or forgotten (but for the ones dropped at a full queue), every
\* result that got a place is published or offered before its block goes, and in the
\* order of arrival: gap_event_handler and transpond_task, for every number of results
\* and every capacity.
THEOREM ResultsKept == GatewaySpec => []NoResultForgotten
<1>1. GatewayInit => UploadInv
  BY UploadStart DEF GatewayInit
<1>2. UploadInv /\ [GatewayNext]_gatewayVars => UploadInv'
  BY GatewayStep
<1>3. UploadInv => NoResultForgotten
  BY UploadSafe
<1> QED
  BY <1>1, <1>2, <1>3, PTL DEF GatewaySpec

-----------------------------------------------------------------------------
(***************************************************************************)
(* Requests and events, and the ones that are outstanding once.            *)
(***************************************************************************)

\* The parts of a service's table, the flags of the advertising data, what the handlers
\* ask of the stack and what the stack reports to them.
Part == {"create", "char", "descr"}
Flag == {"advData", "scanRsp"}
Request == ({"register"} \X App) \cup (Part \X Server) \cup ({"start"} \X Server)
             \cup ((Flag \cup {"scanParams", "advertise"}) \X {"gap"})
Occurrence == ({"registered"} \X App \X BOOLEAN) \cup (Part \X Server \X BOOLEAN)
                \cup (Flag \X {"gap"} \X BOOLEAN)
                \cup ({"connect", "disconnect"} \X LinkApps \X BOOLEAN)

\* wiped and bleConnect are bounded by the other parts of the invariant only.
BluetoothTypeOK ==
    /\ app \in Step /\ asked \in Seq(Request) /\ events \in Seq(Occurrence)
    /\ registered \in SUBSET App /\ advertising \in BOOLEAN /\ link \in BOOLEAN
    /\ known \in [Server -> SUBSET Part] /\ configDone \in SUBSET Flag
    /\ bleConnect \in Int /\ wiped \in Int /\ serverConnect \in BOOLEAN
    /\ trouble \in BOOLEAN

\* A request or an event without its result; the ones that are outstanding at most once.
Key(x) == <<x[1], x[2]>>
Keys(s) == {Key(s[i]) : i \in DOMAIN s}
Single == {"register", "registered", "advData", "scanRsp", "advertise"} \X (App \cup {"gap"})
          \cup {<<"disconnect", "A">>}
Once(s) == \A i, j \in DOMAIN s : Key(s[i]) = Key(s[j]) /\ Key(s[i]) \in Single => i = j

LEMMA KeysConcat ==
    ASSUME NEW S, NEW s \in Seq(S), NEW t \in Seq(S)
    PROVE  /\ s \o t \in Seq(S)
           /\ Keys(s \o t) = Keys(s) \cup Keys(t)
           /\ Once(s) /\ Once(t) /\ Keys(s) \cap Keys(t) \cap Single = {} => Once(s \o t)
<1>1. /\ s \o t \in Seq(S) /\ Len(s) \in Nat /\ Len(t) \in Nat
      /\ DOMAIN s = 1..Len(s) /\ DOMAIN t = 1..Len(t)
      /\ DOMAIN (s \o t) = 1..(Len(s) + Len(t))
      /\ \A i \in 1..Len(s) : (s \o t)[i] = s[i]
      /\ \A i \in 1..Len(t) : (s \o t)[Len(s) + i] = t[i]
  OBVIOUS
<1>2. \A i \in 1..(Len(s) + Len(t)) : i \in 1..Len(s) \/ \E j \in 1..Len(t) : i = Len(s) + j
  <2> TAKE i \in 1..(Len(s) + Len(t))
  <2>1. CASE i > Len(s)
    <3>1. i - Len(s) \in 1..Len(t) /\ i = Len(s) + (i - Len(s))
      BY <1>1, <2>1
    <3> QED
      BY <3>1
  <2> QED
    BY <1>1, <2>1
<1>3. Keys(s \o t) = Keys(s) \cup Keys(t)
  <2>1. ASSUME NEW i \in 1..(Len(s) + Len(t))
        PROVE  Key((s \o t)[i]) \in Keys(s) \cup Keys(t)
    BY <1>1, <1>2 DEF Keys
  <2>2. \A i \in 1..Len(s) : i \in DOMAIN (s \o t) /\ Key(s[i]) = Key((s \o t)[i])
    BY <1>1
  <2>3. \A i \in 1..Len(t) : Len(s) + i \in DOMAIN (s \o t) /\ Key(t[i]) = Key((s \o t)[Len(s) + i])
    BY <1>1
  <2> QED
    BY <1>1, <2>1, <2>2, <2>3 DEF Keys
<1>4. ASSUME Once(s), Once(t), Keys(s) \cap Keys(t) \cap Single = {}
      PROVE  Once(s \o t)
  <2> DEFINE u == s \o t
  <2> SUFFICES ASSUME NEW i \in DOMAIN u, NEW j \in DOMAIN u, i < j,
                      Key(u[i]) = Key(u[j]), Key(u[i]) \in Single
               PROVE  FALSE
    BY <1>1 DEF Once
  <2>1. CASE j \in 1..Len(s)
    BY <1>1, <1>4, <2>1 DEF Once
  <2>2. CASE i \notin 1..Len(s)
    <3>1. PICK k \in 1..Len(t), l \in 1..Len(t) : i = Len(s) + k /\ j = Len(s) + l
      BY <1>1, <1>2, <2>2, SMTT(30)
    <3>2. u[i] = t[k] /\ u[j] = t[l] /\ k # l
      BY <1>1, <3>1
    <3> QED
      BY <1>1, <1>4, <3>2 DEF Once
  <2>3. CASE i \in 1..Len(s) /\ j \notin 1..Len(s)
    <3>1. Key(u[i]) \in Keys(s)
      BY <1>1, <2>3 DEF Keys
    <3>2. PICK l \in 1..Len(t) : j = Len(s) + l
      BY <1>1, <1>2, <2>3
    <3>3. Key(u[j]) \in Keys(t)
      BY <1>1, <3>2 DEF Keys
    <3> QED
      BY <1>4, <3>1, <3>3
  <2> QED
    BY <2>1, <2>2, <2>3
<1> QED
  BY <1>1, <1>3, <1>4

LEMMA KeysSmall ==
    /\ Keys(<<>>) = {} /\ Once(<<>>)
    /\ \A x : Keys(<<x>>) = {Key(x)} /\ Once(<<x>>)
<1>1. Keys(<<>>) = {} /\ Once(<<>>)
  BY DEF Keys, Once
<1>2. ASSUME NEW x PROVE Keys(<<x>>) = {Key(x)} /\ Once(<<x>>)
  <2>1. DOMAIN <<x>> = {1} /\ <<x>>[1] = x
    OBVIOUS
  <2> QED
    BY <2>1 DEF Keys, Once
<1> QED
  BY <1>1, <1>2

LEMMA KeysAppend ==
    ASSUME NEW S, NEW s \in Seq(S), NEW x \in S
    PROVE  /\ Append(s, x) \in Seq(S)
           /\ Keys(Append(s, x)) = Keys(s) \cup {Key(x)}
           /\ Once(s) /\ (Key(x) \in Single => Key(x) \notin Keys(s)) => Once(Append(s, x))
<1> DEFINE t == <<x>>
<1>1. Append(s, x) = s \o t /\ t \in Seq(S)
  OBVIOUS
<1>2. Keys(t) = {Key(x)} /\ Once(t)
  BY KeysSmall
<1> HIDE DEF t
<1>3. /\ s \o t \in Seq(S) /\ Keys(s \o t) = Keys(s) \cup Keys(t)
      /\ Once(s) /\ Once(t) /\ Keys(s) \cap Keys(t) \cap Single = {} => Once(s \o t)
  BY <1>1, KeysConcat
<1> QED
  BY <1>1, <1>2, <1>3

LEMMA KeysTail ==
    ASSUME NEW S, NEW s \in Seq(S), s # <<>>
    PROVE  /\ Head(s) \in S /\ Tail(s) \in Seq(S)
           /\ Keys(s) = {Key(Head(s))} \cup Keys(Tail(s))
           /\ Once(s) => /\ Once(Tail(s))
                         /\ Key(Head(s)) \in Single => Key(Head(s)) \notin Keys(Tail(s))
<1>1. /\ Head(s) \in S /\ Tail(s) \in Seq(S) /\ Len(s) \in Nat \ {0} /\ Head(s) = s[1]
      /\ DOMAIN s = 1..Len(s) /\ DOMAIN Tail(s) = 1..(Len(s) - 1)
      /\ \A i \in 1..(Len(s) - 1) : Tail(s)[i] = s[i + 1] /\ i + 1 \in 1..Len(s)
  OBVIOUS
<1>2. \A i \in 1..Len(s) : i = 1 \/ (i - 1 \in 1..(Len(s) - 1) /\ Tail(s)[i - 1] = s[i])
  BY <1>1
<1>3. Keys(s) = {Key(Head(s))} \cup Keys(Tail(s))
  <2>1. Keys(Tail(s)) = {Key(Tail(s)[i]) : i \in 1..(Len(s) - 1)}
    BY <1>1 DEF Keys
  <2>2. Keys(s) = {Key(s[i]) : i \in 1..Len(s)}
    BY <1>1 DEF Keys
  <2>3. \A i \in 1..Len(s) : Key(s[i]) \in {Key(Head(s))} \cup Keys(Tail(s))
    BY <1>1, <1>2, <2>1
  <2>4. \A i \in 1..(Len(s) - 1) : Key(Tail(s)[i]) \in Keys(s)
    BY <1>1, <2>2
  <2>5. Key(Head(s)) \in Keys(s)
    <3>1. 1 \in 1..Len(s)
      BY <1>1
    <3> QED
      BY <1>1, <2>2, <3>1
  <2> QED
    BY <2>1, <2>2, <2>3, <2>4, <2>5
<1>4. ASSUME Once(s)
      PROVE  Once(Tail(s)) /\ (Key(Head(s)) \in Single => Key(Head(s)) \notin Keys(Tail(s)))
  <2>1. Once(Tail(s))
    BY <1>1, <1>4 DEF Once
  <2>2. ASSUME Key(Head(s)) \in Single, NEW i \in 1..(Len(s) - 1)
        PROVE  Key(Head(s)) # Key(Tail(s)[i])
    <3>1. Tail(s)[i] = s[i + 1] /\ i + 1 \in 1..Len(s) /\ 1 \in 1..Len(s) /\ i + 1 # 1
      BY <1>1
    <3> QED
      BY <1>1, <1>4, <2>2, <3>1 DEF Once
  <2> QED
    BY <1>1, <2>1, <2>2 DEF Keys
<1> QED
  BY <1>1, <1>3, <1>4

-----------------------------------------------------------------------------
(***************************************************************************)
(* The steps of app_main, and what a handler asks of the stack.            *)
(***************************************************************************)

\* The places of the steps of app_main.
LEMMA Places ==
    /\ Step = {"stack", "A", "B", "cA", "cB", "leds", "tasks", "mqtt", "scan", "done"}
    /\ At("stack") = 1 /\ At("A") = 2 /\ At("B") = 3 /\ At("cA") = 4 /\ At("cB") = 5
    /\ At("leds") = 6 /\ At("tasks") = 7 /\ At("mqtt") = 8 /\ At("scan") = 9 /\ At("done") = 10
<1>1. DOMAIN BootOrder = 1..10
  BY DEF BootOrder
<1>2. 1..10 = {1, 2, 3, 4, 5, 6, 7, 8, 9, 10}
  OBVIOUS
<1>3. /\ BootOrder[1] = "stack" /\ BootOrder[2] = "A" /\ BootOrder[3] = "B"
      /\ BootOrder[4] = "cA" /\ BootOrder[5] = "cB" /\ BootOrder[6] = "leds"
      /\ BootOrder[7] = "tasks" /\ BootOrder[8] = "mqtt" /\ BootOrder[9] = "scan"
      /\ BootOrder[10] = "done"
  BY DEF BootOrder
<1>4. Step = {"stack", "A", "B", "cA", "cB", "leds", "tasks", "mqtt", "scan", "done"}
  BY <1>1, <1>2, <1>3 DEF Step
<1>5. At("stack") = 1 /\ At("A") = 2 /\ At("B") = 3 /\ At("cA") = 4 /\ At("cB") = 5
  BY <1>1, <1>2, <1>3 DEF At
<1>6. At("leds") = 6 /\ At("tasks") = 7 /\ At("mqtt") = 8 /\ At("scan") = 9 /\ At("done") = 10
  BY <1>1, <1>2, <1>3 DEF At
<1> QED
  BY <1>4, <1>5, <1>6

\* app_main only goes forward.
LEMMA DoesNext ==
    ASSUME NEW step \in Step \ {"done"}, Does(step)
    PROVE  app = step /\ app' \in Step /\ At(app') = At(step) + 1
<1>1. /\ BootOrder[2] = "A" /\ BootOrder[3] = "B" /\ BootOrder[4] = "cA"
      /\ BootOrder[5] = "cB" /\ BootOrder[6] = "leds" /\ BootOrder[7] = "tasks"
      /\ BootOrder[8] = "mqtt" /\ BootOrder[9] = "scan" /\ BootOrder[10] = "done"
  BY DEF BootOrder
<1>2. app = step /\ app' = BootOrder[At(step) + 1]
  BY DEF Does, Goto
<1> QED
  BY <1>1, <1>2, Places

\* What an action asks of the stack, n calls with keys of their own.
LEMMA Asked ==
    ASSUME asked \in Seq(Request), NEW requests \in Seq(Request),
           Len(requests) \in 0..3, trouble \in BOOLEAN,
           \A i, j \in DOMAIN requests : i # j => Key(requests[i]) # Key(requests[j]),
           Ask(requests)
    PROVE  /\ asked' \in Seq(Request) /\ trouble' \in BOOLEAN /\ (trouble => trouble')
           /\ Keys(asked) \subseteq Keys(asked')
           /\ Keys(asked') \subseteq Keys(asked) \cup Keys(requests)
           /\ ~trouble' => Keys(asked') = Keys(asked) \cup Keys(requests)
           /\ Once(asked) /\ Keys(asked) \cap Keys(requests) \cap Single = {} => Once(asked')
<1> DEFINE n == Len(requests)
<1>1. n \in 0..3 /\ DOMAIN requests = 1..n /\ \A i \in 1..n : requests[i] \in Request
  OBVIOUS
<1> HIDE DEF n
<1>2. PICK left \in Left(n) : /\ asked' = asked \o [i \in DOMAIN left |-> requests[left[i]]]
                              /\ trouble' = (trouble \/ DOMAIN left # DOMAIN requests)
  BY DEF Ask, n
<1>3. PICK m \in 0..n : left \in [1..m -> 1..n]
  BY DEF Left
<1>4. \A i, j \in 1..m : i < j => left[i] < left[j]
  BY <1>3 DEF Left
<1> DEFINE t == [i \in DOMAIN left |-> requests[left[i]]]
<1>5. /\ t \in Seq(Request) /\ DOMAIN t = 1..m
      /\ \A i \in 1..m : t[i] = requests[left[i]] /\ left[i] \in DOMAIN requests
  <2>1. \A i \in 1..m : left[i] \in 1..n
    BY <1>3
  <2>2. DOMAIN left = 1..m /\ t = [i \in 1..m |-> requests[left[i]]]
    BY <1>3
  <2>3. \A i \in 1..m : requests[left[i]] \in Request
    BY <2>1, <1>1
  <2>4. m \in Nat
    BY <1>3, <1>1
  <2>5. [i \in 1..m |-> requests[left[i]]] \in [1..m -> Request]
    BY <2>3
  <2> HIDE DEF t
  <2> QED
    BY <2>1, <2>2, <2>4, <2>5, <1>1
<1>6. Keys(t) \subseteq Keys(requests)
  BY <1>5 DEF Keys
<1>7. Once(t)
  <2>1. \A i, j \in 1..m : i # j => left[i] # left[j]
    BY <1>1, <1>3, <1>4
  <2> QED
    BY <1>5, <2>1 DEF Once
<1>8. ASSUME DOMAIN left = DOMAIN requests
      PROVE  Keys(requests) \subseteq Keys(t)
  <2>1. m = n
    <3>0. DOMAIN left = 1..m
      BY <1>3
    <3>1. 1..m = 1..n /\ m \in Nat /\ n \in Nat /\ m <= n
      BY <1>1, <1>8, <3>0
    <3>2. m < n => n \in 1..n /\ n \notin 1..m
      BY <3>1
    <3> QED
      BY <3>1, <3>2
  <2>2. \A i \in 1..n : left[i] = i
    <3>1. CASE n = 0
      BY <3>1
    <3>2. CASE n = 1
      BY <1>3, <2>1, <3>2
    <3>3. CASE n = 2
      <4>1. 1 \in 1..m /\ 2 \in 1..m /\ left[1] \in 1..2 /\ left[2] \in 1..2
        BY <1>3, <2>1, <3>3
      <4> QED
        BY <1>4, <4>1, <3>3
    <3>4. CASE n = 3
      <4>1. 1 \in 1..m /\ 2 \in 1..m /\ 3 \in 1..m
        BY <2>1, <3>4
      <4>2. left[1] \in 1..3 /\ left[2] \in 1..3 /\ left[3] \in 1..3
        BY <1>3, <2>1, <3>4, <4>1
      <4> QED
        BY <1>4, <4>1, <4>2, <3>4
    <3> QED
      BY <1>1, <3>1, <3>2, <3>3, <3>4
  <2> QED
    BY <1>1, <1>5, <2>1, <2>2 DEF Keys
<1> HIDE DEF t
<1>9. asked' = asked \o t
  BY <1>2 DEF t
<1>10. /\ asked \o t \in Seq(Request)
       /\ Keys(asked \o t) = Keys(asked) \cup Keys(t)
       /\ Once(asked) /\ Once(t) /\ Keys(asked) \cap Keys(t) \cap Single = {} => Once(asked \o t)
  BY <1>5, KeysConcat
<1> QED
  BY <1>2, <1>6, <1>7, <1>8, <1>9, <1>10

-----------------------------------------------------------------------------
(***************************************************************************)
(* The news of a link.                                                     *)
(***************************************************************************)

LEMMA KeyIs == \A k, a, ok : Key(<<k, a, ok>>) = <<k, a>> /\ Key(<<k, a>>) = <<k, a>>
BY DEF Key

\* A piece of news, and the news of a link, each application's once.
LEMMA NewsFacts ==
    ASSUME NEW kind \in {"connect", "disconnect"}, NEW a \in App, NEW told
    PROVE  /\ News(kind, a, told) \in Seq(Occurrence)
           /\ Keys(News(kind, a, told)) = {<<kind, b>> : b \in {a} \cap told \cap LinkApps}
           /\ Once(News(kind, a, told))
           /\ \A i \in DOMAIN News(kind, a, told) : News(kind, a, told)[i][3]
<1>1. CASE a \in told \cap LinkApps
  <2>1. News(kind, a, told) = << <<kind, a, TRUE>> >>
    BY <1>1 DEF News, Event
  <2>2. <<kind, a, TRUE>> \in Occurrence
    BY <1>1 DEF Occurrence
  <2>3. Keys(News(kind, a, told)) = {<<kind, a>>} /\ Once(News(kind, a, told))
    BY <2>1, KeysSmall, KeyIs
  <2>4. {<<kind, b>> : b \in {a} \cap told \cap LinkApps} = {<<kind, a>>}
    BY <1>1
  <2>5. \A i \in DOMAIN News(kind, a, told) : News(kind, a, told)[i][3]
    <3> DEFINE e == <<kind, a, TRUE>>
    <3>1. e[3] /\ News(kind, a, told) = <<e>>
      BY <2>1
    <3> HIDE DEF e
    <3>2. DOMAIN <<e>> = {1} /\ <<e>>[1] = e
      OBVIOUS
    <3> QED
      BY <3>1, <3>2
  <2>6. News(kind, a, told) \in Seq(Occurrence)
    BY <2>1, <2>2
  <2> QED
    BY <2>3, <2>4, <2>5, <2>6
<1>2. CASE a \notin told \cap LinkApps
  <2>1. News(kind, a, told) = <<>>
    BY <1>2 DEF News
  <2>2. {<<kind, b>> : b \in {a} \cap told \cap LinkApps} = {}
    BY <1>2
  <2> QED
    BY <2>1, <2>2, KeysSmall
<1> QED
  BY <1>1, <1>2

LEMMA LinkEventsFacts ==
    ASSUME NEW kind \in {"connect", "disconnect"}, NEW told
    PROVE  /\ LinkEvents(kind, told) \in Seq(Occurrence)
           /\ Keys(LinkEvents(kind, told)) = {<<kind, a>> : a \in told \cap LinkApps}
           /\ Once(LinkEvents(kind, told))
           /\ \A i \in DOMAIN LinkEvents(kind, told) : LinkEvents(kind, told)[i][3]
<1> DEFINE N(a) == News(kind, a, told)
           K(a) == {<<kind, b>> : b \in {a} \cap told \cap LinkApps}
<1>1. \A a \in App : /\ N(a) \in Seq(Occurrence) /\ Keys(N(a)) = K(a) /\ Once(N(a))
                     /\ \A i \in DOMAIN N(a) : N(a)[i][3]
  BY NewsFacts
<1>2. LinkEvents(kind, told) = ((N("A") \o N("B")) \o N("cA")) \o N("cB")
  BY DEF LinkEvents
<1>3. App = {"A", "B", "cA", "cB"} /\ "A" \in App /\ "B" \in App /\ "cA" \in App /\ "cB" \in App
  BY DEF App, Server
<1>4. /\ K("A") \cap K("B") = {} /\ (K("A") \cup K("B")) \cap K("cA") = {}
      /\ (K("A") \cup K("B") \cup K("cA")) \cap K("cB") = {}
  OBVIOUS
<1> HIDE DEF N, K
<1> DEFINE AB == N("A") \o N("B")
           ABC == AB \o N("cA")
           ABCD == ABC \o N("cB")
<1>5. AB \in Seq(Occurrence) /\ Once(AB) /\ Keys(AB) = K("A") \cup K("B")
  BY <1>1, <1>3, <1>4, KeysConcat
<1> HIDE DEF AB
<1>6. ABC \in Seq(Occurrence) /\ Once(ABC) /\ Keys(ABC) = K("A") \cup K("B") \cup K("cA")
  <2>1. Keys(AB) \cap Keys(N("cA")) \cap Single = {}
    BY <1>1, <1>3, <1>4, <1>5
  <2> QED
    BY <1>1, <1>3, <1>5, <2>1, KeysConcat
<1> HIDE DEF ABC
<1>7. /\ ABCD \in Seq(Occurrence) /\ Once(ABCD)
      /\ Keys(ABCD) = K("A") \cup K("B") \cup K("cA") \cup K("cB")
  <2>1. Keys(ABC) \cap Keys(N("cB")) \cap Single = {}
    BY <1>1, <1>3, <1>4, <1>6
  <2> QED
    BY <1>1, <1>3, <1>6, <2>1, KeysConcat
<1>10. LinkEvents(kind, told) = ABCD
  BY <1>2 DEF AB, ABC
<1> HIDE DEF ABCD
<1>8. K("A") \cup K("B") \cup K("cA") \cup K("cB") = {<<kind, a>> : a \in told \cap LinkApps}
  BY <1>3, LinkAssumption DEF K
<1>9. \A i \in DOMAIN LinkEvents(kind, told) : LinkEvents(kind, told)[i][3]
  BY <1>1, <1>2, <1>3, SMTT(30)
<1> QED
  BY <1>7, <1>8, <1>9, <1>10

-----------------------------------------------------------------------------
(***************************************************************************)
(* What the handlers will have been told once they are through with the    *)
(* events.                                                                 *)
(***************************************************************************)
Hears(before, e, after) ==
    CASE e[1] = "connect"    -> e[2] \notin before /\ after = before \cup {e[2]}
      [] e[1] = "disconnect" -> e[2] \in before /\ after = before \ {e[2]}
      [] OTHER               -> after = before
\* Who has heard from is brought to to by s, without a connection or a disconnection that
\* comes twice.
Hear(s, from, to) ==
    \E heard \in [0..Len(s) -> SUBSET App] :
        /\ heard[0] = from /\ heard[Len(s)] = to
        /\ \A i \in 1..Len(s) : Hears(heard[i - 1], s[i], heard[i])

LEMMA HearNothing == ASSUME NEW from \in SUBSET App PROVE Hear(<<>>, from, from)
<1> DEFINE heard == [i \in 0..0 |-> from]
<1>1. heard \in [0..Len(<<>>) -> SUBSET App] /\ heard[0] = from
  OBVIOUS
<1>2. heard[Len(<<>>)] = from /\ 1..Len(<<>>) = {}
  OBVIOUS
<1> HIDE DEF heard
<1> QED
  BY <1>1, <1>2 DEF Hear

LEMMA HearAppend ==
    ASSUME NEW s \in Seq(Occurrence), NEW e \in Occurrence, NEW from, NEW to,
           Hear(s, from, to), NEW last \in SUBSET App, Hears(to, e, last)
    PROVE  Hear(Append(s, e), from, last)
<1>1. PICK heard \in [0..Len(s) -> SUBSET App] :
        /\ heard[0] = from /\ heard[Len(s)] = to
        /\ \A i \in 1..Len(s) : Hears(heard[i - 1], s[i], heard[i])
  BY DEF Hear
<1>2. /\ Len(s) \in Nat /\ Len(Append(s, e)) = Len(s) + 1
      /\ \A i \in 1..Len(s) : Append(s, e)[i] = s[i]
      /\ Append(s, e)[Len(s) + 1] = e
  OBVIOUS
<1> DEFINE next == [i \in 0..(Len(s) + 1) |-> IF i = Len(s) + 1 THEN last ELSE heard[i]]
<1>3. next \in [0..(Len(s) + 1) -> SUBSET App]
  BY <1>1, <1>2
<1>4. next[0] = from /\ next[Len(s) + 1] = last
  BY <1>1, <1>2
<1>5. \A i \in 1..Len(s) : next[i - 1] = heard[i - 1] /\ next[i] = heard[i]
  BY <1>2
<1>6. next[Len(s)] = to
  BY <1>1, <1>2
<1> HIDE DEF next
<1>7. ASSUME NEW i \in 1..(Len(s) + 1)
      PROVE  Hears(next[i - 1], Append(s, e)[i], next[i])
  <2>1. CASE i \in 1..Len(s)
    BY <1>1, <1>2, <1>5, <2>1
  <2>2. CASE i = Len(s) + 1
    BY <1>2, <1>4, <1>6, <2>2
  <2> QED
    BY <1>2, <2>1, <2>2
<1> QED
  BY <1>2, <1>3, <1>4, <1>7 DEF Hear

LEMMA HearTail ==
    ASSUME NEW s \in Seq(Occurrence), s # <<>>, NEW from, NEW to, Hear(s, from, to)
    PROVE  \E next \in SUBSET App : Hears(from, Head(s), next) /\ Hear(Tail(s), next, to)
<1>1. PICK heard \in [0..Len(s) -> SUBSET App] :
        /\ heard[0] = from /\ heard[Len(s)] = to
        /\ \A i \in 1..Len(s) : Hears(heard[i - 1], s[i], heard[i])
  BY DEF Hear
<1>2. /\ Len(s) \in Nat \ {0} /\ Head(s) = s[1] /\ Len(Tail(s)) = Len(s) - 1
      /\ \A i \in 1..(Len(s) - 1) : Tail(s)[i] = s[i + 1]
  OBVIOUS
<1>3. heard[1] \in SUBSET App /\ Hears(from, Head(s), heard[1])
  BY <1>1, <1>2
<1> DEFINE rest == [i \in 0..(Len(s) - 1) |-> heard[i + 1]]
<1>4. rest \in [0..(Len(s) - 1) -> SUBSET App]
  BY <1>1, <1>2
<1>5. rest[0] = heard[1] /\ rest[Len(s) - 1] = to
  BY <1>1, <1>2
<1>6. ASSUME NEW i \in 1..(Len(s) - 1)
      PROVE  Hears(rest[i - 1], Tail(s)[i], rest[i])
  <2>1. i + 1 \in 1..Len(s) /\ rest[i - 1] = heard[i] /\ rest[i] = heard[i + 1]
    BY <1>2
  <2>2. Hears(heard[(i + 1) - 1], s[i + 1], heard[i + 1])
    BY <1>1, <2>1
  <2>3. (i + 1) - 1 = i
    OBVIOUS
  <2> QED
    BY <1>2, <2>1, <2>2, <2>3
<1> HIDE DEF rest
<1>7. Hear(Tail(s), heard[1], to)
  BY <1>2, <1>4, <1>5, <1>6 DEF Hear
<1> QED
  BY <1>3, <1>7

LEMMA ConcatOne == ASSUME NEW S, NEW s \in Seq(S), NEW x \in S PROVE s \o <<x>> = Append(s, x)
OBVIOUS

LEMMA HearNews ==
    ASSUME NEW s \in Seq(Occurrence), NEW a \in App, NEW from,
           NEW to \in SUBSET App, Hear(s, from, to), NEW told
    PROVE  /\ s \o News("connect", a, told) \in Seq(Occurrence)
           /\ s \o News("disconnect", a, told) \in Seq(Occurrence)
           /\ (a \in told \cap LinkApps => a \notin to) =>
                  Hear(s \o News("connect", a, told), from, to \cup ({a} \cap told \cap LinkApps))
           /\ (a \in told \cap LinkApps => a \in to) =>
                  Hear(s \o News("disconnect", a, told), from, to \ ({a} \cap told \cap LinkApps))
<1>1. CASE a \in told \cap LinkApps
  <2> DEFINE c == <<"connect", a, TRUE>>
             d == <<"disconnect", a, TRUE>>
  <2>1. c \in Occurrence /\ d \in Occurrence
    BY <1>1 DEF Occurrence
  <2>2. /\ s \o News("connect", a, told) = Append(s, c)
        /\ s \o News("disconnect", a, told) = Append(s, d)
    <3>1. News("connect", a, told) = <<c>> /\ News("disconnect", a, told) = <<d>>
      BY <1>1 DEF News, Event
    <3> HIDE DEF c, d
    <3>2. s \o <<c>> = Append(s, c) /\ s \o <<d>> = Append(s, d)
      BY <2>1, ConcatOne
    <3> QED
      BY <3>1, <3>2
  <2>3. {a} \cap told \cap LinkApps = {a}
    BY <1>1
  <2>4. ASSUME a \notin to PROVE Hear(Append(s, c), from, to \cup {a})
    <3>1. Hears(to, c, to \cup {a}) /\ to \cup {a} \in SUBSET App
      BY <2>4 DEF Hears
    <3> HIDE DEF c
    <3> QED
      BY <2>1, <3>1, HearAppend
  <2>5. ASSUME a \in to PROVE Hear(Append(s, d), from, to \ {a})
    <3>1. Hears(to, d, to \ {a}) /\ to \ {a} \in SUBSET App
      BY <2>5 DEF Hears
    <3> HIDE DEF d
    <3> QED
      BY <2>1, <3>1, HearAppend
  <2>6. Append(s, c) \in Seq(Occurrence) /\ Append(s, d) \in Seq(Occurrence)
    BY <2>1
  <2> HIDE DEF c, d
  <2> QED
    BY <1>1, <2>2, <2>3, <2>4, <2>5, <2>6
<1>2. CASE a \notin told \cap LinkApps
  <2>1. News("connect", a, told) = <<>> /\ News("disconnect", a, told) = <<>>
    BY <1>2 DEF News
  <2>2. s \o <<>> = s
    OBVIOUS
  <2> DEFINE T == {a} \cap told \cap LinkApps
  <2>3. T = {}
    BY <1>2
  <2>4. to \cup T = to /\ to \ T = to
    BY <2>3
  <2> HIDE DEF T
  <2>5. Hear(s \o <<>>, from, to \cup T) /\ Hear(s \o <<>>, from, to \ T)
    BY <2>2, <2>4
  <2> QED
    BY <2>1, <2>2, <2>5 DEF T
<1> QED
  BY <1>1, <1>2

LEMMA HearLink ==
    ASSUME NEW s \in Seq(Occurrence), NEW from, NEW to \in SUBSET App, Hear(s, from, to),
           NEW told
    PROVE  /\ told \cap LinkApps \cap to = {} =>
                  Hear(s \o LinkEvents("connect", told), from, to \cup (told \cap LinkApps))
           /\ told \cap LinkApps \subseteq to =>
                  Hear(s \o LinkEvents("disconnect", told), from, to \ (told \cap LinkApps))
<1>1. App = {"A", "B", "cA", "cB"} /\ "A" \in App /\ "B" \in App /\ "cA" \in App /\ "cB" \in App
  BY DEF App, Server
<1> DEFINE K(a) == {a} \cap told \cap LinkApps
<1>2. told \cap LinkApps = K("A") \cup K("B") \cup K("cA") \cup K("cB")
  BY <1>1, LinkAssumption
<1>3. \A a \in App : K(a) \subseteq {a} /\ (a \in told \cap LinkApps <=> a \in K(a))
  OBVIOUS
<1>4. ASSUME NEW kind \in {"connect", "disconnect"}
      PROVE  s \o LinkEvents(kind, told)
               = (((s \o News(kind, "A", told)) \o News(kind, "B", told))
                    \o News(kind, "cA", told)) \o News(kind, "cB", told)
  <2> DEFINE N(a) == News(kind, a, told)
  <2>1. N("A") \in Seq(Occurrence) /\ N("B") \in Seq(Occurrence)
        /\ N("cA") \in Seq(Occurrence) /\ N("cB") \in Seq(Occurrence)
    BY <1>1, NewsFacts
  <2>2. LinkEvents(kind, told) = ((N("A") \o N("B")) \o N("cA")) \o N("cB")
    BY DEF LinkEvents
  <2> HIDE DEF N
  <2> DEFINE AB == N("A") \o N("B")
             ABC == AB \o N("cA")
  <2>0. ASSUME NEW u \in Seq(Occurrence), NEW v \in Seq(Occurrence)
        PROVE  s \o (u \o v) = (s \o u) \o v /\ u \o v \in Seq(Occurrence)
    <3>1. s \o (u \o v) = (s \o u) \o v
      BY ConcatAssociative, SMTT(30)
    <3>2. u \o v \in Seq(Occurrence)
      OBVIOUS
    <3> QED
      BY <3>1, <3>2
  <2>3. AB \in Seq(Occurrence)
    BY <2>1
  <2>4. s \o AB = (s \o N("A")) \o N("B")
    BY <2>0, <2>1
  <2> HIDE DEF AB
  <2>5. ABC \in Seq(Occurrence) /\ s \o ABC = (s \o AB) \o N("cA")
    BY <2>0, <2>1, <2>3
  <2> HIDE DEF ABC
  <2>6. s \o (ABC \o N("cB")) = (s \o ABC) \o N("cB")
    BY <2>0, <2>1, <2>5
  <2> QED
    BY <2>2, <2>4, <2>5, <2>6 DEF AB, ABC, N
<1>5. ASSUME told \cap LinkApps \cap to = {}
      PROVE  Hear(s \o LinkEvents("connect", told), from, to \cup (told \cap LinkApps))
  <2> DEFINE N(a) == News("connect", a, told)
             s1 == s \o N("A")   t1 == to \cup K("A")
             s2 == s1 \o N("B")  t2 == t1 \cup K("B")
             s3 == s2 \o N("cA") t3 == t2 \cup K("cA")
             s4 == s3 \o N("cB") t4 == t3 \cup K("cB")
  <2>1. s1 \in Seq(Occurrence) /\ Hear(s1, from, t1) /\ t1 \in SUBSET App
    BY <1>1, <1>3, <1>5, HearNews
  <2>2. "B" \notin t1 \/ "B" \notin told \cap LinkApps
    BY <1>3, <1>5
  <2> HIDE DEF s1
  <2>3. s2 \in Seq(Occurrence) /\ Hear(s2, from, t2) /\ t2 \in SUBSET App
    <3> HIDE DEF t1
    <3> QED
      BY <1>1, <2>1, <2>2, HearNews
  <2>4. "cA" \notin t2 \/ "cA" \notin told \cap LinkApps
    BY <1>3, <1>5
  <2> HIDE DEF s2
  <2>5. s3 \in Seq(Occurrence) /\ Hear(s3, from, t3) /\ t3 \in SUBSET App
    <3> HIDE DEF t2
    <3> QED
      BY <1>1, <2>3, <2>4, HearNews
  <2>6. "cB" \notin t3 \/ "cB" \notin told \cap LinkApps
    BY <1>3, <1>5
  <2> HIDE DEF s3
  <2>7. Hear(s4, from, t4)
    <3> HIDE DEF t3
    <3> QED
      BY <1>1, <2>5, <2>6, HearNews
  <2>8. t4 = to \cup (told \cap LinkApps)
    BY <1>2
  <2>9. s4 = s \o LinkEvents("connect", told)
    BY <1>4 DEF s1, s2, s3
  <2> HIDE DEF s4, t4
  <2> QED
    BY <2>7, <2>8, <2>9
<1>6. ASSUME told \cap LinkApps \subseteq to
      PROVE  Hear(s \o LinkEvents("disconnect", told), from, to \ (told \cap LinkApps))
  <2> DEFINE N(a) == News("disconnect", a, told)
             s1 == s \o N("A")   t1 == to \ K("A")
             s2 == s1 \o N("B")  t2 == t1 \ K("B")
             s3 == s2 \o N("cA") t3 == t2 \ K("cA")
             s4 == s3 \o N("cB") t4 == t3 \ K("cB")
  <2>1. s1 \in Seq(Occurrence) /\ Hear(s1, from, t1) /\ t1 \in SUBSET App
    BY <1>1, <1>3, <1>6, HearNews
  <2>2. "B" \in t1 \/ "B" \notin told \cap LinkApps
    BY <1>3, <1>6
  <2> HIDE DEF s1
  <2>3. s2 \in Seq(Occurrence) /\ Hear(s2, from, t2) /\ t2 \in SUBSET App
    <3> HIDE DEF t1
    <3> QED
      BY <1>1, <2>1, <2>2, HearNews
  <2>4. "cA" \in t2 \/ "cA" \notin told \cap LinkApps
    BY <1>3, <1>6
  <2> HIDE DEF s2
  <2>5. s3 \in Seq(Occurrence) /\ Hear(s3, from, t3) /\ t3 \in SUBSET App
    <3> HIDE DEF t2
    <3> QED
      BY <1>1, <2>3, <2>4, HearNews
  <2>6. "cB" \in t3 \/ "cB" \notin told \cap LinkApps
    BY <1>3, <1>6
  <2> HIDE DEF s3
  <2>7. Hear(s4, from, t4)
    <3> HIDE DEF t3
    <3> QED
      BY <1>1, <2>5, <2>6, HearNews
  <2>8. t4 = to \ (told \cap LinkApps)
    BY <1>2
  <2>9. s4 = s \o LinkEvents("disconnect", told)
    BY <1>4 DEF s1, s2, s3
  <2> HIDE DEF s4, t4
  <2> QED
    BY <2>7, <2>8, <2>9
<1> QED
  BY <1>5, <1>6

-----------------------------------------------------------------------------
(***************************************************************************)
(* The invariant of Bluetooth, part by part.                               *)
(***************************************************************************)

AdvAsked == <<"advertise", "gap">> \in Keys(asked)
Ended == <<"disconnect", "A">> \in Keys(events)
\* The handler of A has not been told that A is registered, and what follows is to come.
Fresh == "A" \notin registered \/ <<"registered", "A">> \in Keys(events)

\* An application is registered at most once, and only once app_main has come to it.
Registration ==
    /\ Once(asked) /\ Once(events)
    /\ \A a \in App :
        /\ <<"register", a>> \in Keys(asked) =>
               /\ At(app) > At(a) /\ a \notin registered
               /\ <<"registered", a>> \notin Keys(events)
        /\ <<"registered", a>> \in Keys(events) \/ a \in registered => At(app) > At(a)

\* One token is passed on: the two flags, the call to advertise, the advertising, the
\* link and the report of its end exclude each other.
Advertising ==
    /\ Fresh => /\ configDone = {} /\ ~AdvAsked /\ ~advertising /\ ~link /\ ~Ended
                /\ \A f \in Flag : <<f, "gap">> \notin Keys(asked) \cup Keys(events)
    /\ \A f \in Flag : /\ <<f, "gap">> \in Keys(asked) \cup Keys(events) => f \in configDone
                       /\ <<f, "gap">> \notin Keys(asked) \cap Keys(events)
    /\ configDone # {} => ~AdvAsked /\ ~advertising /\ ~link /\ ~Ended
    /\ AdvAsked => ~advertising /\ ~link /\ ~Ended
    /\ advertising => ~link /\ ~Ended
    /\ link => ~Ended

\* The counter, with what app_main wiped out of it, and serverConnect follow the reports
\* that were handled; the ones still to come lead to the applications on the link.
Told == IF link THEN registered \cap LinkApps ELSE {}
Counting ==
    \E heard \in SUBSET App :
        /\ Hear(events, heard, Told)
        /\ serverConnect = ("B" \in heard)
        /\ bleConnect + wiped = Cardinality({a \in heard : Counts(a)})

\* As long as nothing has failed, the token and the construction of each table are with
\* somebody who will pass them on.
AllOk(s) == \A i \in DOMAIN s : s[i][3]
Flight == Keys(asked) \cup Keys(events)
Underway(s) ==
    /\ \/ <<"create", s>> \in Flight
       \/ <<"char", s>> \in Flight /\ "create" \in known[s]
       \/ <<"descr", s>> \in Flight /\ {"create", "char"} \subseteq known[s]
       \/ known[s] = Part
    /\ <<"create", s>> \in Flight \/ <<"start", s>> \in Flight \/ s \in started
Progress == ~trouble =>
    /\ AllOk(events)
    /\ \A a \in App : At(app) > At(a) => a \in registered \/ <<"register", a>> \in Keys(asked)
    /\ "A" \in registered =>
          \/ <<"registered", "A">> \in Keys(events)
          \/ configDone # {} /\ \A f \in configDone : <<f, "gap">> \in Flight
          \/ AdvAsked \/ advertising \/ link \/ Ended
    /\ \A s \in Server \cap registered :
          \/ <<"registered", s>> \in Keys(events)
          \/ Underway(s)

LinksInv == BluetoothTypeOK /\ Registration /\ Advertising /\ Counting /\ Progress

LEMMA RequestForm ==
    ASSUME NEW r \in Request
    PROVE  /\ r = <<r[1], r[2]>>
           /\ \/ r[1] = "register" /\ r[2] \in App
              \/ r[1] \in Part \cup {"start"} /\ r[2] \in Server
              \/ r[1] \in Flag \cup {"scanParams", "advertise"} /\ r[2] = "gap"
BY DEF Request

LEMMA OccurrenceForm ==
    ASSUME NEW e \in Occurrence
    PROVE  /\ e = <<e[1], e[2], e[3]>> /\ e[3] \in BOOLEAN
           /\ \/ e[1] = "registered" /\ e[2] \in App
              \/ e[1] \in Part /\ e[2] \in Server
              \/ e[1] \in Flag /\ e[2] = "gap"
              \/ e[1] \in {"connect", "disconnect"} /\ e[2] \in LinkApps
<1>1. CASE e \in {"registered"} \X App \X BOOLEAN
  BY <1>1
<1>2. CASE e \in Part \X Server \X BOOLEAN
  BY <1>2
<1>3. CASE e \in Flag \X {"gap"} \X BOOLEAN
  BY <1>3
<1>4. CASE e \in {"connect", "disconnect"} \X LinkApps \X BOOLEAN
  BY <1>4
<1> QED
  BY <1>1, <1>2, <1>3, <1>4 DEF Occurrence

LEMMA AllOkFacts ==
    ASSUME NEW S, NEW s \in Seq(S)
    PROVE  /\ \A t \in Seq(S) : AllOk(s) /\ AllOk(t) => AllOk(s \o t)
           /\ s # <<>> /\ AllOk(s) => AllOk(Tail(s)) /\ Head(s)[3]
<1>1. ASSUME NEW t \in Seq(S), AllOk(s), AllOk(t) PROVE AllOk(s \o t)
  <2>1. /\ Len(s) \in Nat /\ Len(t) \in Nat
        /\ DOMAIN s = 1..Len(s) /\ DOMAIN t = 1..Len(t)
        /\ DOMAIN (s \o t) = 1..(Len(s) + Len(t))
        /\ \A i \in 1..Len(s) : (s \o t)[i] = s[i]
        /\ \A i \in 1..Len(t) : (s \o t)[Len(s) + i] = t[i]
    OBVIOUS
  <2>2. ASSUME NEW i \in 1..(Len(s) + Len(t)) PROVE (s \o t)[i][3]
    <3>1. CASE i \in 1..Len(s)
      BY <1>1, <2>1, <3>1 DEF AllOk
    <3>2. CASE i \notin 1..Len(s)
      <4>1. i - Len(s) \in 1..Len(t) /\ i = Len(s) + (i - Len(s))
        BY <2>1, <3>2
      <4> QED
        BY <1>1, <2>1, <4>1 DEF AllOk
    <3> QED
      BY <3>1, <3>2
  <2> QED
    BY <2>1, <2>2 DEF AllOk
<1>2. ASSUME s # <<>>, AllOk(s) PROVE AllOk(Tail(s)) /\ Head(s)[3]
  <2>1. /\ Len(s) \in Nat \ {0} /\ Head(s) = s[1] /\ 1 \in 1..Len(s)
        /\ DOMAIN s = 1..Len(s) /\ DOMAIN Tail(s) = 1..(Len(s) - 1)
        /\ \A i \in 1..(Len(s) - 1) : Tail(s)[i] = s[i + 1] /\ i + 1 \in 1..Len(s)
    BY <1>2
  <2> QED
    BY <1>2, <2>1 DEF AllOk
<1> QED
  BY <1>1, <1>2

\* The stack takes a request.
LEMMA TakesRequest ==
    ASSUME BluetoothTypeOK, Once(asked), NEW ops, NEW ok \in BOOLEAN, Answers(ops, ok)
    PROVE  /\ Head(asked) \in Request /\ Head(asked)[1] \in ops
           /\ Head(asked) = <<Head(asked)[1], Head(asked)[2]>>
           /\ asked' \in Seq(Request) /\ Once(asked') /\ trouble' \in BOOLEAN
           /\ Keys(asked) = {<<Head(asked)[1], Head(asked)[2]>>} \cup Keys(asked')
           /\ <<Head(asked)[1], Head(asked)[2]>> \in Single =>
                  <<Head(asked)[1], Head(asked)[2]>> \notin Keys(asked')
           /\ trouble' = (trouble \/ ~ok)
<1>1. asked # <<>> /\ asked' = Tail(asked) /\ Head(asked)[1] \in ops
  BY DEF Answers
<1>2. asked \in Seq(Request)
  BY DEF BluetoothTypeOK
<1>3. trouble' = (trouble \/ ~ok) /\ trouble' \in BOOLEAN
  BY DEF Answers, BluetoothTypeOK
<1>4. Head(asked) \in Request
  BY <1>1, <1>2, KeysTail
<1> QED
  BY <1>1, <1>2, <1>3, <1>4, KeysTail, RequestForm DEF Key

\* A handler takes an event.
LEMMA TakesEvent ==
    ASSUME BluetoothTypeOK, Once(events), NEW kinds, Handles(kinds)
    PROVE  /\ Head(events) \in Occurrence /\ Head(events)[1] \in kinds /\ events # <<>>
           /\ events' \in Seq(Occurrence) /\ Once(events') /\ events' = Tail(events)
           /\ Keys(events) = {<<Head(events)[1], Head(events)[2]>>} \cup Keys(events')
           /\ <<Head(events)[1], Head(events)[2]>> \in Single =>
                  <<Head(events)[1], Head(events)[2]>> \notin Keys(events')
           /\ AllOk(events) => AllOk(events') /\ Head(events)[3]
<1>1. events # <<>> /\ events' = Tail(events) /\ Head(events)[1] \in kinds
  BY DEF Handles
<1>2. events \in Seq(Occurrence)
  BY DEF BluetoothTypeOK
<1>3. AllOk(events) => AllOk(events') /\ Head(events)[3]
  BY <1>1, <1>2, AllOkFacts
<1> QED
  BY <1>1, <1>2, <1>3, KeysTail DEF Key

-----------------------------------------------------------------------------
(***************************************************************************)
(* What leaves the parts of the invariant alone.                           *)
(***************************************************************************)

Forward == \A a \in App : At(app) > At(a) => At(app') > At(a)

LEMMA RegistrationFrame ==
    ASSUME Registration, Once(asked'), Once(events'), UNCHANGED registered, Forward,
           \A a \in App : <<"register", a>> \in Keys(asked') => <<"register", a>> \in Keys(asked),
           \A a \in App : <<"registered", a>> \in Keys(events') => <<"registered", a>> \in Keys(events)
    PROVE  Registration'
<1>1. ASSUME NEW a \in App, <<"register", a>> \in Keys(asked')
      PROVE  At(app') > At(a) /\ a \notin registered' /\ <<"registered", a>> \notin Keys(events')
  BY <1>1 DEF Registration, Forward
<1>2. ASSUME NEW a \in App, <<"registered", a>> \in Keys(events') \/ a \in registered'
      PROVE  At(app') > At(a)
  BY <1>2 DEF Registration, Forward
<1> QED
  BY <1>1, <1>2 DEF Registration

LEMMA AdvertisingFrame ==
    ASSUME Advertising, UNCHANGED <<configDone, advertising, link>>,
           Fresh' => Fresh, AdvAsked' => AdvAsked, Ended' => Ended,
           \A f \in Flag : /\ <<f, "gap">> \in Keys(asked') => <<f, "gap">> \in Keys(asked)
                           /\ <<f, "gap">> \in Keys(events') => <<f, "gap">> \in Keys(events)
    PROVE  Advertising'
<1>1. configDone' = configDone /\ advertising' = advertising /\ link' = link
  OBVIOUS
<1>2. Fresh' => /\ configDone' = {} /\ ~AdvAsked' /\ ~advertising' /\ ~link' /\ ~Ended'
                /\ \A f \in Flag : <<f, "gap">> \notin Keys(asked') \cup Keys(events')
  BY <1>1 DEF Advertising
<1>3. \A f \in Flag : /\ <<f, "gap">> \in Keys(asked') \cup Keys(events') => f \in configDone'
                      /\ <<f, "gap">> \notin Keys(asked') \cap Keys(events')
  BY <1>1 DEF Advertising
<1>4. /\ configDone' # {} => ~AdvAsked' /\ ~advertising' /\ ~link' /\ ~Ended'
      /\ AdvAsked' => ~advertising' /\ ~link' /\ ~Ended'
      /\ advertising' => ~link' /\ ~Ended'
      /\ link' => ~Ended'
  BY <1>1 DEF Advertising
<1> QED
  BY <1>2, <1>3, <1>4 DEF Advertising

LEMMA CountingFrame ==
    ASSUME BluetoothTypeOK, Counting, Told' = Told, serverConnect' = serverConnect,
           bleConnect' + wiped' = bleConnect + wiped,
           \/ events' = events
           \/ \E e \in Occurrence : /\ events' = Append(events, e)
                                    /\ e[1] \notin {"connect", "disconnect"}
           \/ /\ events # <<>> /\ events' = Tail(events)
              /\ Head(events)[1] \notin {"connect", "disconnect"}
    PROVE  Counting'
<1>1. PICK heard \in SUBSET App :
        /\ Hear(events, heard, Told)
        /\ serverConnect = ("B" \in heard)
        /\ bleConnect + wiped = Cardinality({a \in heard : Counts(a)})
  BY DEF Counting
<1>2. Told \in SUBSET App /\ events \in Seq(Occurrence)
  BY DEF Told, BluetoothTypeOK
<1>3. Hear(events', heard, Told')
  <2>1. CASE events' = events
    BY <1>1, <2>1
  <2>2. ASSUME NEW e \in Occurrence, events' = Append(events, e),
               e[1] \notin {"connect", "disconnect"}
        PROVE  Hear(events', heard, Told')
    <3>1. Hears(Told, e, Told)
      BY <2>2 DEF Hears
    <3> QED
      BY <1>1, <1>2, <2>2, <3>1, HearAppend
  <2>3. CASE /\ events # <<>> /\ events' = Tail(events)
             /\ Head(events)[1] \notin {"connect", "disconnect"}
    <3>1. PICK next \in SUBSET App : Hears(heard, Head(events), next) /\ Hear(Tail(events), next, Told)
      BY <1>1, <1>2, <2>3, HearTail
    <3>2. next = heard
      BY <2>3, <3>1 DEF Hears
    <3> QED
      BY <2>3, <3>1, <3>2
  <2> QED
    BY <2>1, <2>2, <2>3
<1> QED
  BY <1>1, <1>3 DEF Counting

LEMMA UnderwayFrame ==
    ASSUME NEW s, Underway(s), known'[s] = known[s], s \in started => s \in started',
           \A k \in Part \cup {"start"} : <<k, s>> \in Flight => <<k, s>> \in Flight'
    PROVE  Underway(s)'
<1>1. /\ <<"create", s>> \in Flight => <<"create", s>> \in Flight'
      /\ <<"char", s>> \in Flight => <<"char", s>> \in Flight'
      /\ <<"descr", s>> \in Flight => <<"descr", s>> \in Flight'
      /\ <<"start", s>> \in Flight => <<"start", s>> \in Flight'
  BY DEF Part
<1> QED
  BY <1>1 DEF Underway

LEMMA ProgressFrame ==
    ASSUME Progress, ~trouble' => ~trouble /\ AllOk(events'),
           \A a \in App : At(app') > At(a) => At(app) > At(a) \/ <<"register", a>> \in Keys(asked'),
           \A a \in App : <<"register", a>> \in Keys(asked) => <<"register", a>> \in Keys(asked'),
           UNCHANGED <<registered, started, configDone, advertising, link, known>>,
           \A a \in App : <<"registered", a>> \in Keys(events) => <<"registered", a>> \in Keys(events'),
           \A k \in Part \cup Flag \cup {"start"}, w \in Server \cup {"gap"} :
               <<k, w>> \in Flight => <<k, w>> \in Flight',
           AdvAsked => AdvAsked', Ended => Ended', configDone \subseteq Flag
    PROVE  Progress'
<1> SUFFICES ASSUME ~trouble' PROVE Progress'
  BY DEF Progress
<1>1. ~trouble /\ AllOk(events)' /\ Server \subseteq App
  BY DEF App
<1>2. /\ registered' = registered /\ configDone' = configDone /\ advertising' = advertising
      /\ link' = link /\ known' = known /\ started' = started
  OBVIOUS
<1>3. \A a \in App : At(app') > At(a) => a \in registered' \/ <<"register", a>> \in Keys(asked')
  BY <1>1, <1>2 DEF Progress
<1>4. \A f \in configDone : <<f, "gap">> \in Flight => <<f, "gap">> \in Flight'
  OBVIOUS
<1>5. "A" \in App
  BY DEF App, Server
<1>6. "A" \in registered' =>
          \/ <<"registered", "A">> \in Keys(events')
          \/ configDone' # {} /\ \A f \in configDone' : <<f, "gap">> \in Flight'
          \/ AdvAsked' \/ advertising' \/ link' \/ Ended'
  BY <1>1, <1>2, <1>4, <1>5 DEF Progress
<1>7. ASSUME NEW s \in Server \cap registered'
      PROVE  \/ <<"registered", s>> \in Keys(events')
             \/ Underway(s)'
  <2>1. \A k \in Part \cup {"start"} : <<k, s>> \in Flight => <<k, s>> \in Flight'
    OBVIOUS
  <2>2. Underway(s) => Underway(s)'
    BY <1>2, <2>1, UnderwayFrame
  <2>3. <<"registered", s>> \in Keys(events) => <<"registered", s>> \in Keys(events')
    BY <1>1
  <2>4. \/ <<"registered", s>> \in Keys(events)
        \/ Underway(s)
    BY <1>1, <1>2 DEF Progress
  <2> QED
    BY <2>2, <2>3, <2>4
<1> QED
  BY <1>1, <1>3, <1>6, <1>7 DEF Progress

-----------------------------------------------------------------------------
(***************************************************************************)
(* app_main and the stack.                                                 *)
(***************************************************************************)

LEMMA KeysLater ==
    ASSUME BluetoothTypeOK, NEW t \in Seq(Occurrence)
    PROVE  /\ events \o t \in Seq(Occurrence) /\ Keys(events \o t) = Keys(events) \cup Keys(t)
           /\ Once(events) /\ Once(t) /\ Keys(events) \cap Keys(t) \cap Single = {} => Once(events \o t)
           /\ AllOk(events) /\ AllOk(t) => AllOk(events \o t)
<1>1. events \in Seq(Occurrence)
  BY DEF BluetoothTypeOK
<1> QED
  BY <1>1, KeysConcat, AllOkFacts

LEMMA RegistersStep ==
    ASSUME LinksInv, NEW ok \in BOOLEAN, Registers(ok)
    PROVE  LinksInv'
<1> DEFINE a == Head(asked)[2]
           e == <<"registered", a, ok>>
           n == IF ok /\ link THEN LinkEvents("connect", {a}) ELSE <<>>
<1>1. BluetoothTypeOK /\ Registration /\ Advertising /\ Counting /\ Progress
  BY DEF LinksInv
<1>2. /\ Answers({"register"}, ok)
      /\ registered' = IF ok THEN registered \cup {a} ELSE registered
      /\ events' = (Append(events, e)) \o n
      /\ UNCHANGED <<started, scanSet, advertising, link>>
  BY DEF Registers, Event
<1>3. UNCHANGED <<known, configDone, bleConnect, serverConnect, wiped, app>>
  BY <1>2 DEF Answers, countVars
<1>4. /\ asked' \in Seq(Request) /\ Once(asked') /\ trouble' \in BOOLEAN
      /\ Keys(asked) = {<<"register", a>>} \cup Keys(asked')
      /\ <<"register", a>> \notin Keys(asked')
      /\ a \in App /\ trouble' = (trouble \/ ~ok)
  <2>1. /\ Head(asked)[1] = "register" /\ Head(asked) \in Request
        /\ asked' \in Seq(Request) /\ Once(asked') /\ trouble' \in BOOLEAN
        /\ Keys(asked) = {<<"register", a>>} \cup Keys(asked')
        /\ <<"register", a>> \in Single => <<"register", a>> \notin Keys(asked')
        /\ trouble' = (trouble \/ ~ok)
    <3>1. Once(asked) /\ Answers({"register"}, ok)
      BY <1>1, <1>2 DEF Registration
    <3>2. Head(asked)[1] \in {"register"} /\ Head(asked) \in Request
      BY <1>1, <3>1, TakesRequest
    <3>3. /\ asked' \in Seq(Request) /\ Once(asked') /\ trouble' \in BOOLEAN
          /\ Keys(asked) = {<<Head(asked)[1], Head(asked)[2]>>} \cup Keys(asked')
          /\ <<Head(asked)[1], Head(asked)[2]>> \in Single =>
                 <<Head(asked)[1], Head(asked)[2]>> \notin Keys(asked')
          /\ trouble' = (trouble \/ ~ok)
      BY <1>1, <3>1, TakesRequest
    <3>4. Head(asked)[1] = "register"
      BY <3>2
    <3> QED
      BY <3>2, <3>3, <3>4
  <2>2. a \in App
    BY <2>1, RequestForm DEF Part, Flag
  <2> QED
    BY <2>1, <2>2 DEF Single
<1>5. /\ n \in Seq(Occurrence) /\ Once(n) /\ AllOk(n)
      /\ Keys(n) = IF ok /\ link THEN {<<"connect", b>> : b \in {a} \cap LinkApps} ELSE {}
  <2>1. CASE ok /\ link
    BY <2>1, LinkEventsFacts DEF AllOk
  <2>2. CASE ~(ok /\ link)
    <3>1. n = <<>>
      BY <2>2
    <3>2. <<>> \in Seq(Occurrence) /\ Once(<<>>) /\ AllOk(<<>>) /\ Keys(<<>>) = {}
      BY KeysSmall DEF AllOk
    <3> QED
      BY <2>2, <3>1, <3>2
  <2> QED
    BY <2>1, <2>2
<1>6. /\ events' = events \o (<<e>> \o n) /\ events' = (events \o <<e>>) \o n
      /\ <<e>> \o n \in Seq(Occurrence) /\ e \in Occurrence
  <2>1. e \in Occurrence
    BY <1>4 DEF Occurrence
  <2>2. events \in Seq(Occurrence)
    BY <1>1 DEF BluetoothTypeOK
  <2> HIDE DEF e, n
  <2>3. <<e>> \in Seq(Occurrence) /\ events \o <<e>> = Append(events, e)
    BY <2>1, <2>2, ConcatOne
  <2>4. (events \o <<e>>) \o n = events \o (<<e>> \o n) /\ <<e>> \o n \in Seq(Occurrence)
    BY <1>5, <2>2, <2>3, ConcatAssociative
  <2> QED
    BY <1>2, <2>1, <2>3, <2>4
<1>7. /\ events' \in Seq(Occurrence)
      /\ Keys(events') = Keys(events) \cup {<<"registered", a>>} \cup Keys(n)
      /\ <<"registered", a>> \notin Keys(events) /\ Once(events')
      /\ AllOk(events) /\ ok => AllOk(events')
  <2> DEFINE t == <<e>> \o n
  <2>1. Keys(<<e>>) = {<<"registered", a>>} /\ Once(<<e>>) /\ <<e>> \in Seq(Occurrence)
    <3>1. Key(e) = <<"registered", a>>
      BY KeyIs
    <3> HIDE DEF e
    <3> QED
      BY <1>6, <3>1, KeysSmall
  <2>2. Keys(<<e>>) \cap Keys(n) \cap Single = {} /\ Keys(n) \cap Single = {}
    <3>1. Keys(n) \subseteq {<<"connect", b>> : b \in App}
      BY <1>4, <1>5
    <3>2. \A b \in App : <<"connect", b>> \notin Single
      BY DEF Single
    <3> QED
      BY <3>1, <3>2
  <2>3. ok => AllOk(<<e>>)
    <3>1. ok => e[3]
      OBVIOUS
    <3> HIDE DEF e
    <3> QED
      BY <3>1 DEF AllOk
  <2>4. /\ Keys(t) = {<<"registered", a>>} \cup Keys(n) /\ Once(t) /\ t \in Seq(Occurrence)
        /\ ok => AllOk(t)
    <3> HIDE DEF e, n
    <3> DEFINE u == <<e>>
    <3>1. u \in Seq(Occurrence) /\ Once(u) /\ Keys(u) = {<<"registered", a>>} /\ (ok => AllOk(u))
      BY <2>1, <2>3
    <3>2. Keys(u) \cap Keys(n) \cap Single = {}
      BY <2>2
    <3>3. t = u \o n
      OBVIOUS
    <3> HIDE DEF u, t
    <3> QED
      BY <1>5, <3>1, <3>2, <3>3, KeysConcat, AllOkFacts
  <2>5. <<"registered", a>> \notin Keys(events) /\ Once(events)
    BY <1>1, <1>4 DEF Registration
  <2>6. Keys(events) \cap Keys(t) \cap Single = {}
    BY <2>2, <2>4, <2>5
  <2>7. events' = events \o t
    BY <1>6
  <2> HIDE DEF t, e, n
  <2> QED
    BY <1>1, <2>4, <2>5, <2>6, <2>7, KeysLater
<1> HIDE DEF n
<1>8. BluetoothTypeOK'
  BY <1>1, <1>2, <1>3, <1>4, <1>7 DEF BluetoothTypeOK
<1>9. /\ Registration'
      /\ <<"registered", "A">> \in Keys(events') <=>
             a = "A" \/ <<"registered", "A">> \in Keys(events)
  <2>1. Once(asked)' /\ Once(events)'
    BY <1>4, <1>7
  <2>2. ASSUME NEW b \in App, <<"register", b>> \in Keys(asked')
        PROVE  At(app') > At(b) /\ b \notin registered' /\ <<"registered", b>> \notin Keys(events')
    <3>1. b # a /\ <<"register", b>> \in Keys(asked)
      BY <1>4, <2>2
    <3>2. At(app) > At(b) /\ b \notin registered /\ <<"registered", b>> \notin Keys(events)
      BY <1>1, <3>1 DEF Registration
    <3>3. <<"registered", b>> \notin Keys(n)
      BY <1>5
    <3> QED
      BY <1>2, <1>3, <1>7, <3>1, <3>2, <3>3
  <2>3. ASSUME NEW b \in App, <<"registered", b>> \in Keys(events') \/ b \in registered'
        PROVE  At(app') > At(b)
    <3>1. <<"registered", b>> \notin Keys(n)
      BY <1>5
    <3>2. b = a \/ <<"registered", b>> \in Keys(events) \/ b \in registered
      BY <1>2, <1>7, <2>3, <3>1
    <3>3. <<"register", a>> \in Keys(asked)
      BY <1>4
    <3> QED
      BY <1>1, <1>3, <1>4, <3>2, <3>3 DEF Registration
  <2>4. <<"registered", "A">> \notin Keys(n)
    BY <1>5
  <2>5. <<"registered", "A">> \in Keys(events') <=>
             a = "A" \/ <<"registered", "A">> \in Keys(events)
    BY <1>7, <2>4
  <2> QED
    BY <2>1, <2>2, <2>3, <2>5 DEF Registration
<1>10. /\ \A k : k # "registered" /\ k # "connect" =>
               \A w : <<k, w>> \in Keys(events') => <<k, w>> \in Keys(events)
       /\ \A k : k # "register" => \A w : <<k, w>> \in Keys(asked) => <<k, w>> \in Keys(asked')
       /\ Keys(asked') \subseteq Keys(asked) /\ Keys(events) \subseteq Keys(events')
  BY <1>4, <1>5, <1>7
<1>11. Advertising'
  <2>1. (AdvAsked' => AdvAsked) /\ (Ended' => Ended)
    BY <1>10 DEF AdvAsked, Ended
  <2>2. \A f \in Flag : /\ <<f, "gap">> \in Keys(asked') => <<f, "gap">> \in Keys(asked)
                        /\ <<f, "gap">> \in Keys(events') => <<f, "gap">> \in Keys(events)
    BY <1>10 DEF Flag
  <2>3. Fresh' => Fresh
    BY <1>1, <1>2, <1>4, <1>9 DEF Fresh, Registration
  <2> QED
    BY <1>1, <1>2, <1>3, <2>1, <2>2, <2>3, AdvertisingFrame
<1>12. Counting'
  <2>1. PICK heard \in SUBSET App :
          /\ Hear(events, heard, Told)
          /\ serverConnect = ("B" \in heard)
          /\ bleConnect + wiped = Cardinality({b \in heard : Counts(b)})
    BY <1>1 DEF Counting
  <2>2. Told \in SUBSET App /\ a \notin Told /\ events \in Seq(Occurrence)
    BY <1>1, <1>4 DEF Told, Registration, BluetoothTypeOK
  <2> DEFINE later == events \o <<e>>
  <2>3. later \in Seq(Occurrence) /\ Hear(later, heard, Told)
    <3>1. Hears(Told, e, Told)
      BY DEF Hears
    <3> HIDE DEF e
    <3>2. later = Append(events, e) /\ Append(events, e) \in Seq(Occurrence)
      BY <1>6, <2>2, ConcatOne
    <3> HIDE DEF later
    <3> QED
      BY <1>6, <2>1, <2>2, <3>1, <3>2, HearAppend
  <2>4. events' = later \o n
    BY <1>6
  <2> HIDE DEF later, e
  <2>5. Hear(events', heard, Told')
    <3>1. CASE ok /\ link
      <4>1. n = LinkEvents("connect", {a}) /\ Told' = Told \cup ({a} \cap LinkApps)
        BY <1>2, <3>1 DEF n, Told
      <4>2. {a} \cap LinkApps \cap Told = {}
        BY <2>2
      <4> QED
        BY <2>2, <2>3, <2>4, <4>1, <4>2, HearLink
    <3>2. CASE ~(ok /\ link)
      <4>1. n = <<>> /\ Told' = Told
        BY <1>2, <3>2 DEF n, Told
      <4>2. later \o <<>> = later
        BY <2>3
      <4> QED
        BY <2>3, <2>4, <4>1, <4>2
    <3> QED
      BY <3>1, <3>2
  <2> QED
    BY <1>3, <2>1, <2>5 DEF Counting
<1>13. Progress'
  <2> SUFFICES ASSUME ~trouble' PROVE Progress'
    BY DEF Progress
  <2>1. ~trouble /\ ok
    BY <1>4
  <2>2. AllOk(events)'
    BY <1>1, <1>7, <2>1 DEF Progress
  <2>3. \A b \in App : At(app') > At(b) => b \in registered' \/ <<"register", b>> \in Keys(asked')
    BY <1>1, <1>2, <1>3, <1>4, <2>1 DEF Progress
  <2>4. Flight \ {<<"register", a>>} \subseteq Flight' /\ Keys(events) \subseteq Keys(events')
    BY <1>4, <1>7 DEF Flight
  <2>5. <<"registered", a>> \in Keys(events')
    BY <1>7
  <2>6. "A" \in registered' =>
          \/ <<"registered", "A">> \in Keys(events')
          \/ configDone' # {} /\ \A f \in configDone' : <<f, "gap">> \in Flight'
          \/ AdvAsked' \/ advertising' \/ link' \/ Ended'
    <3>1. CASE a = "A"
      BY <2>5, <3>1
    <3>2. CASE a # "A"
      <4>1. "A" \in registered' => "A" \in registered
        BY <1>2, <3>2
      <4>2. \A f \in Flag : <<f, "gap">> # <<"register", a>>
        BY DEF Flag
      <4>3. AdvAsked => AdvAsked'
        BY <1>10 DEF AdvAsked
      <4> QED
        BY <1>1, <1>2, <1>3, <2>1, <2>4, <4>1, <4>2, <4>3 DEF Progress, Ended, BluetoothTypeOK
    <3> QED
      BY <3>1, <3>2
  <2>7. ASSUME NEW s \in Server \cap registered'
        PROVE  \/ <<"registered", s>> \in Keys(events')
               \/ Underway(s)'
    <3>1. CASE a = s
      BY <2>5, <3>1
    <3>2. CASE a # s
      <4>1. s \in Server \cap registered
        BY <1>2, <3>2
      <4> QED
        <5>1. known' = known /\ started' = started
          BY <1>2, <1>3
        <5>2. \A k \in Part \cup {"start"} : <<k, s>> \in Flight => <<k, s>> \in Flight'
          BY <2>4 DEF Part
        <5>3. Underway(s) => Underway(s)'
          BY <5>1, <5>2, UnderwayFrame
        <5> QED
          BY <1>1, <2>1, <2>4, <4>1, <5>3 DEF Progress
    <3> QED
      BY <3>1, <3>2
  <2> QED
    BY <2>2, <2>3, <2>6, <2>7 DEF Progress
<1> QED
  BY <1>8, <1>9, <1>11, <1>12, <1>13 DEF LinksInv

LEMMA LinksStart == BluetoothInit /\ app = "stack" => LinksInv
<1> SUFFICES ASSUME BluetoothInit, app = "stack" PROVE LinksInv
  OBVIOUS
<1>1. /\ asked = <<>> /\ events = <<>> /\ registered = {} /\ ~advertising /\ ~link
      /\ known = [s \in Server |-> {}] /\ configDone = {} /\ bleConnect = 0 /\ wiped = 0
      /\ serverConnect = FALSE /\ advertising = FALSE /\ link = FALSE /\ trouble = FALSE
  BY DEF BluetoothInit
<1>2. Keys(asked) = {} /\ Keys(events) = {} /\ Once(asked) /\ Once(events)
  BY <1>1, KeysSmall
<1>3. BluetoothTypeOK
  <2>1. asked \in Seq(Request) /\ events \in Seq(Occurrence) /\ app \in Step
    BY <1>1, Places
  <2>2. known \in [Server -> SUBSET Part] /\ configDone \in SUBSET Flag /\ registered \in SUBSET App
    BY <1>1
  <2>3. advertising \in BOOLEAN /\ link \in BOOLEAN /\ serverConnect \in BOOLEAN /\ trouble \in BOOLEAN
    BY <1>1
  <2>4. bleConnect \in Int /\ wiped \in Int
    BY <1>1
  <2> QED
    BY <2>1, <2>2, <2>3, <2>4 DEF BluetoothTypeOK
<1>4. Registration
  BY <1>1, <1>2 DEF Registration
<1>5. Advertising
  BY <1>1, <1>2 DEF Advertising, AdvAsked, Ended
<1>6. Counting
  <2>1. Told = {} /\ Hear(events, {}, {})
    BY <1>1, HearNothing DEF Told
  <2>2. Cardinality({a \in {} : Counts(a)}) = 0
    <3>1. {a \in {} : Counts(a)} = {}
      OBVIOUS
    <3> QED
      BY <3>1, FS_EmptySet
  <2> DEFINE heard == {}
  <2>3. heard \in SUBSET App /\ ~("B" \in heard)
    OBVIOUS
  <2>6. serverConnect = ("B" \in heard)
    <3>1. serverConnect = FALSE
      BY <1>1
    <3>2. ("B" \in heard) = FALSE
      BY <2>3
    <3> QED
      BY <3>1, <3>2
  <2>4. bleConnect + wiped = Cardinality({a \in heard : Counts(a)})
    BY <1>1, <2>2
  <2>5. Hear(events, heard, Told)
    BY <2>1
  <2> HIDE DEF heard
  <2> QED
    BY <2>3, <2>4, <2>5, <2>6 DEF Counting
<1>7. Progress
  <2>1. \A a \in App : ~(At(app) > At(a))
    BY Places DEF App, Server
  <2>2. AllOk(events)
    BY <1>1 DEF AllOk
  <2> QED
    BY <1>1, <2>1, <2>2 DEF Progress
<1> QED
  BY <1>3, <1>4, <1>5, <1>6, <1>7 DEF LinksInv

\* app_main goes on, and nothing else happens to Bluetooth but a failure or the count.
LEMMA LinksForward ==
    ASSUME LinksInv, UNCHANGED <<stackVars, known, configDone, serverConnect>>,
           app' \in Step, Forward,
           \/ trouble' = TRUE
           \/ /\ trouble' = trouble
              /\ \A a \in App : At(app') > At(a) => At(app) > At(a),
           \/ UNCHANGED <<bleConnect, wiped>>
           \/ bleConnect' = 0 /\ wiped' = wiped + bleConnect
    PROVE  LinksInv'
<1>1. BluetoothTypeOK /\ Registration /\ Advertising /\ Counting /\ Progress
  BY DEF LinksInv
<1>2. /\ asked' = asked /\ events' = events /\ registered' = registered /\ scanSet' = scanSet
      /\ started' = started
      /\ advertising' = advertising /\ link' = link
      /\ known' = known /\ configDone' = configDone /\ serverConnect' = serverConnect
  BY DEF stackVars
<1>3. Keys(asked') = Keys(asked) /\ Keys(events') = Keys(events) /\ Once(asked') /\ Once(events')
  BY <1>1, <1>2 DEF Registration
<1>4. BluetoothTypeOK'
  <2>1. bleConnect' \in Int /\ wiped' \in Int
    BY <1>1 DEF BluetoothTypeOK
  <2>2. trouble' \in BOOLEAN
    BY <1>1 DEF BluetoothTypeOK
  <2>3. serverConnect' \in BOOLEAN /\ advertising' \in BOOLEAN /\ link' \in BOOLEAN
    BY <1>1, <1>2 DEF BluetoothTypeOK
  <2> QED
    BY <1>1, <1>2, <2>1, <2>2, <2>3 DEF BluetoothTypeOK
<1>5. Registration'
  BY <1>1, <1>2, <1>3, RegistrationFrame
<1>6. Advertising'
  <2>1. (Fresh' => Fresh) /\ (AdvAsked' => AdvAsked) /\ (Ended' => Ended)
    BY <1>2 DEF Fresh, AdvAsked, Ended
  <2> QED
    BY <1>1, <1>2, <1>3, <2>1, AdvertisingFrame
<1>7. Counting'
  <2>1. Told' = Told
    BY <1>2 DEF Told
  <2>2. bleConnect' + wiped' = bleConnect + wiped
    BY <1>1 DEF BluetoothTypeOK
  <2> QED
    BY <1>1, <1>2, <2>1, <2>2, CountingFrame
<1>8. Progress'
  <2>1. CASE trouble' = TRUE
    BY <2>1 DEF Progress
  <2>2. CASE trouble' = trouble /\ \A a \in App : At(app') > At(a) => At(app) > At(a)
    <3>1. /\ ~trouble' => ~trouble /\ AllOk(events')
          /\ (AdvAsked => AdvAsked') /\ (Ended => Ended') /\ configDone \subseteq Flag
          /\ Flight \subseteq Flight'
      BY <1>1, <1>2, <2>2 DEF Progress, AdvAsked, Ended, Flight, BluetoothTypeOK
    <3> QED
      BY <1>1, <1>2, <2>2, <3>1, ProgressFrame
  <2> QED
    BY <2>1, <2>2
<1> QED
  BY <1>4, <1>5, <1>6, <1>7, <1>8 DEF LinksInv

LEMMA StartStackStep == LinksInv /\ StartStack => LinksInv'
<1> SUFFICES ASSUME LinksInv, StartStack PROVE LinksInv'
  OBVIOUS
<1>1. /\ app = "stack" /\ app' \in {"A", "leds"}
      /\ UNCHANGED <<stackVars, known, configDone, serverConnect, bleConnect, wiped>>
  BY DEF StartStack, Goto, countVars
<1>2. Forward /\ app' \in Step
  BY <1>1, Places DEF Forward, App, Server
<1>3. \/ trouble' = TRUE
      \/ trouble' = trouble /\ \A a \in App : At(app') > At(a) => At(app) > At(a)
  <2>1. CASE Goto("A") /\ UNCHANGED trouble
    BY <2>1, Places DEF Goto, App, Server
  <2>2. CASE trouble' = TRUE
    BY <2>2
  <2> QED
    BY <2>1, <2>2 DEF StartStack
<1> QED
  BY <1>1, <1>2, <1>3, LinksForward

LEMMA ResetCountStep == LinksInv /\ ResetCount => LinksInv'
<1> SUFFICES ASSUME LinksInv, ResetCount PROVE LinksInv'
  OBVIOUS
<1>1. /\ Does("leds") /\ bleConnect' = 0 /\ wiped' = wiped + bleConnect
      /\ UNCHANGED <<stackVars, known, configDone, serverConnect, trouble>>
  BY DEF ResetCount
<1>2. app = "leds" /\ app' \in Step /\ At(app') = 7
  BY <1>1, Places, DoesNext
<1>3. Forward /\ \A a \in App : At(app') > At(a) => At(app) > At(a)
  BY <1>2, Places DEF Forward, App, Server
<1> QED
  BY <1>1, <1>2, <1>3, LinksForward

LEMMA RegisterStep ==
    ASSUME LinksInv, NEW a \in App, Register(a)
    PROVE  LinksInv'
<1>1. BluetoothTypeOK /\ Registration /\ Advertising /\ Counting /\ Progress
  BY DEF LinksInv
<1>2. /\ UNCHANGED <<events, registered, started, scanSet, advertising, link,
                     known, configDone, bleConnect, serverConnect, wiped>>
  BY DEF Register, countVars
<1>3. /\ app = a /\ app' \in Step /\ Forward
      /\ Does(a) => At(app') = At(a) + 1
  <2>1. CASE Does(a)
    <3>1. app = a /\ app' \in Step /\ At(app') = At(a) + 1
      BY <2>1, DoesNext, Places DEF App, Server
    <3>2. Forward
      BY <3>1, Places DEF Forward, App, Server
    <3> QED
      BY <3>1, <3>2
  <2>2. CASE app = a /\ Goto("leds")
    <3>1. app' = "leds" /\ app' \in Step /\ Forward
      BY <2>2, Places DEF Goto, Forward, App, Server
    <3>2. a = "cB" \/ ~Does(a)
      BY <3>1, Places, DoesNext DEF App, Server
    <3> QED
      BY <2>2, <3>1, Places, DoesNext DEF App, Server
  <2> QED
    BY <2>1, <2>2 DEF Register
<1>4. CASE trouble' = TRUE /\ UNCHANGED asked
  BY <1>2, <1>3, <1>4, LinksForward DEF stackVars
<1>5. CASE Does(a) /\ asked' = Append(asked, <<"register", a>>) /\ UNCHANGED trouble
  <2>1. <<"register", a>> \in Request /\ Key(<<"register", a>>) = <<"register", a>>
    BY KeyIs DEF Request
  <2>2. <<"register", a>> \notin Keys(asked) /\ At(app) = At(a) /\ At(a) \in Nat
    BY <1>1, <1>3, Places DEF Registration, App, Server
  <2>3. /\ asked' \in Seq(Request) /\ Keys(asked') = Keys(asked) \cup {<<"register", a>>}
        /\ Once(asked')
    <3> DEFINE r == <<"register", a>>
    <3>1. asked \in Seq(Request) /\ Once(asked) /\ r \in Request /\ Key(r) \notin Keys(asked)
          /\ asked' = Append(asked, r) /\ Key(r) = r
      BY <1>1, <1>5, <2>1, <2>2 DEF BluetoothTypeOK, Registration
    <3> HIDE DEF r
    <3>2. asked' \in Seq(Request) /\ Keys(asked') = Keys(asked) \cup {r} /\ Once(asked')
      BY <3>1, KeysAppend
    <3> QED
      BY <3>2 DEF r
  <2>4. BluetoothTypeOK'
    BY <1>1, <1>2, <1>3, <1>5, <2>3 DEF BluetoothTypeOK
  <2>5. Registration'
    <3>1. At(app') > At(a)
      BY <1>3, <1>5, <2>2, DoesNext, Places DEF App, Server
    <3>2. a \notin registered /\ <<"registered", a>> \notin Keys(events)
      BY <1>1, <2>2 DEF Registration
    <3>3. ASSUME NEW b \in App, <<"register", b>> \in Keys(asked')
          PROVE  At(app') > At(b) /\ b \notin registered' /\ <<"registered", b>> \notin Keys(events')
      <4>1. CASE b = a
        BY <1>2, <3>1, <3>2, <4>1
      <4>2. CASE b # a
        <5>1. <<"register", b>> \in Keys(asked)
          BY <2>3, <3>3, <4>2
        <5> QED
          BY <1>1, <1>2, <1>3, <5>1 DEF Registration, Forward
      <4> QED
        BY <4>1, <4>2
    <3>4. ASSUME NEW b \in App, <<"registered", b>> \in Keys(events') \/ b \in registered'
          PROVE  At(app') > At(b)
      BY <1>1, <1>2, <1>3, <3>4 DEF Registration, Forward
    <3>5. Once(events')
      BY <1>1, <1>2 DEF Registration
    <3> QED
      BY <2>3, <3>3, <3>4, <3>5 DEF Registration
  <2>6. Advertising'
    <3>1. (Fresh' => Fresh) /\ (AdvAsked' => AdvAsked) /\ (Ended' => Ended)
      BY <1>2, <2>3 DEF Fresh, AdvAsked, Ended
    <3>2. \A f \in Flag : /\ <<f, "gap">> \in Keys(asked') => <<f, "gap">> \in Keys(asked)
                          /\ <<f, "gap">> \in Keys(events') => <<f, "gap">> \in Keys(events)
      BY <1>2, <2>3 DEF Flag
    <3> QED
      BY <1>1, <1>2, <3>1, <3>2, AdvertisingFrame
  <2>7. Counting'
    <3>1. Told' = Told
      BY <1>2 DEF Told
    <3> QED
      BY <1>1, <1>2, <3>1, CountingFrame
  <2>8. Progress'
    <3>1. ~trouble' => ~trouble /\ AllOk(events')
      BY <1>1, <1>2, <1>5 DEF Progress
    <3>2. \A b \in App : At(app') > At(b) => At(app) > At(b) \/ <<"register", b>> \in Keys(asked')
      <4>1. \A b \in App : At(app') > At(b) => b = a \/ At(app) > At(b)
        BY <1>3, <1>5, Places DEF App, Server
      <4> QED
        BY <2>3, <4>1
    <3>3. (AdvAsked => AdvAsked') /\ (Ended => Ended') /\ configDone \subseteq Flag
      BY <1>1, <1>2, <2>3 DEF AdvAsked, Ended, BluetoothTypeOK
    <3>4. Flight \subseteq Flight'
      BY <1>2, <2>3 DEF Flight
    <3>5. \A b \in App : <<"register", b>> \in Keys(asked) => <<"register", b>> \in Keys(asked')
      BY <2>3
    <3> QED
      BY <1>1, <1>2, <3>1, <3>2, <3>3, <3>4, <3>5, ProgressFrame
  <2> QED
    BY <2>4, <2>5, <2>6, <2>7, <2>8 DEF LinksInv
<1> QED
  BY <1>4, <1>5 DEF Register

\* An answer that is no news of a link: what the events are then.
LEMMA AnswersEvent ==
    ASSUME LinksInv, NEW e \in Occurrence, events' = Append(events, e),
           e[1] \notin {"connect", "disconnect"}, Key(e) \in Single => Key(e) \notin Keys(events)
    PROVE  /\ events' \in Seq(Occurrence) /\ Once(events')
           /\ Keys(events') = Keys(events) \cup {Key(e)}
           /\ AllOk(events) /\ e[3] => AllOk(events')
           /\ UNCHANGED <<registered, link, serverConnect, bleConnect, wiped>> => Counting'
<1>1. BluetoothTypeOK /\ Registration /\ Counting /\ events \in Seq(Occurrence) /\ Once(events)
  BY DEF LinksInv, BluetoothTypeOK, Registration
<1>2. /\ events' \in Seq(Occurrence) /\ Once(events')
      /\ Keys(events') = Keys(events) \cup {Key(e)}
  BY <1>1, KeysAppend
<1>3. AllOk(events) /\ e[3] => AllOk(events')
  <2>1. <<e>> \in Seq(Occurrence) /\ events \o <<e>> = Append(events, e)
    BY <1>1, ConcatOne
  <2>2. e[3] => AllOk(<<e>>)
    BY DEF AllOk
  <2> QED
    BY <1>1, <2>1, <2>2, AllOkFacts
<1>4. UNCHANGED <<registered, link, serverConnect, bleConnect, wiped>> => Counting'
  <2> SUFFICES ASSUME UNCHANGED <<registered, link, serverConnect, bleConnect, wiped>> PROVE Counting'
    OBVIOUS
  <2>1. Told' = Told
    BY DEF Told
  <2> QED
    BY <1>1, <2>1, CountingFrame
<1> QED
  BY <1>2, <1>3, <1>4

LEMMA BuildsStep ==
    ASSUME LinksInv, NEW ok \in BOOLEAN, Builds(ok)
    PROVE  LinksInv'
<1> DEFINE op == Head(asked)[1]
           s == Head(asked)[2]
           e == <<op, s, ok>>
<1>1. BluetoothTypeOK /\ Registration /\ Advertising /\ Counting /\ Progress
  BY DEF LinksInv
<1>2. /\ Answers({"create", "char", "descr"}, ok)
      /\ events' = Append(events, e)
      /\ UNCHANGED <<registered, started, scanSet, advertising, link>>
  BY DEF Builds, Event
<1>3. UNCHANGED <<known, configDone, bleConnect, serverConnect, wiped, app>>
  BY <1>2 DEF Answers, countVars
<1>4. /\ asked' \in Seq(Request) /\ Once(asked') /\ trouble' \in BOOLEAN
      /\ Keys(asked) = {<<op, s>>} \cup Keys(asked')
      /\ op \in Part /\ s \in Server /\ trouble' = (trouble \/ ~ok)
  <2>1. /\ op \in {"create", "char", "descr"} /\ Head(asked) \in Request
        /\ asked' \in Seq(Request) /\ Once(asked') /\ trouble' \in BOOLEAN
        /\ Keys(asked) = {<<op, s>>} \cup Keys(asked')
        /\ trouble' = (trouble \/ ~ok)
    BY <1>1, <1>2, TakesRequest DEF Registration
  <2>2. op \in Part /\ s \in Server
    BY <2>1, RequestForm DEF Part, Flag
  <2> QED
    BY <2>1, <2>2
<1> HIDE DEF op, s
<1>5. /\ e \in Occurrence /\ e[1] \notin {"connect", "disconnect"} /\ Key(e) = <<op, s>>
      /\ Key(e) \notin Single /\ (e[3] <=> ok)
  <2>1. e \in Occurrence
    BY <1>4 DEF Occurrence
  <2>2. Key(e) = <<op, s>>
    BY KeyIs
  <2>3. op \notin {"register", "registered", "advData", "scanRsp", "advertise", "connect", "disconnect"}
    BY <1>4 DEF Part
  <2>4. <<op, s>> \notin Single
    BY <2>3 DEF Single
  <2> QED
    BY <2>1, <2>2, <2>3, <2>4
<1> HIDE DEF e
<1>6. /\ events' \in Seq(Occurrence) /\ Once(events')
      /\ Keys(events') = Keys(events) \cup {<<op, s>>}
      /\ AllOk(events) /\ ok => AllOk(events')
      /\ Counting'
  BY <1>2, <1>3, <1>5, AnswersEvent
<1>7. /\ Keys(asked') \subseteq Keys(asked) /\ Keys(events) \subseteq Keys(events')
      /\ \A k : k \notin Part => \A w : <<k, w>> \in Keys(events') => <<k, w>> \in Keys(events)
      /\ \A k : k \notin Part => \A w : <<k, w>> \in Keys(asked) => <<k, w>> \in Keys(asked')
  BY <1>4, <1>6
<1>8. \A f \in Flag : f \notin Part
  BY DEF Flag, Part
<1>9. "register" \notin Part /\ "registered" \notin Part /\ "advertise" \notin Part /\ "disconnect" \notin Part
  BY DEF Part
<1>10. BluetoothTypeOK'
  BY <1>1, <1>2, <1>3, <1>4, <1>6 DEF BluetoothTypeOK
<1>11. Registration'
  BY <1>1, <1>2, <1>3, <1>4, <1>6, <1>7, <1>9, RegistrationFrame DEF Forward
<1>12. Advertising'
  <2>1. (AdvAsked' => AdvAsked) /\ (Ended' => Ended) /\ (Fresh' => Fresh)
    BY <1>2, <1>7, <1>9 DEF AdvAsked, Ended, Fresh
  <2> QED
    BY <1>1, <1>2, <1>3, <1>7, <1>8, <2>1, AdvertisingFrame
<1>13. Progress'
  <2>1. ~trouble' => ~trouble /\ AllOk(events')
    BY <1>1, <1>4, <1>6 DEF Progress
  <2>2. (AdvAsked => AdvAsked') /\ (Ended => Ended') /\ configDone \subseteq Flag
    BY <1>1, <1>7, <1>9 DEF AdvAsked, Ended, BluetoothTypeOK
  <2>3. Flight \subseteq Flight'
    BY <1>4, <1>6 DEF Flight
  <2>4. \A b \in App : <<"register", b>> \in Keys(asked) => <<"register", b>> \in Keys(asked')
    BY <1>7, <1>9
  <2> QED
    BY <1>1, <1>2, <1>3, <1>7, <2>1, <2>2, <2>3, <2>4, ProgressFrame
<1> QED
  BY <1>6, <1>10, <1>11, <1>12, <1>13 DEF LinksInv

LEMMA ConfiguresStep == LinksInv /\ Configures => LinksInv'
<1> SUFFICES ASSUME LinksInv, Configures PROVE LinksInv'
  OBVIOUS
<1> DEFINE f == Head(asked)[1]
           e == <<f, "gap", TRUE>>
<1>1. BluetoothTypeOK /\ Registration /\ Advertising /\ Counting /\ Progress
  BY DEF LinksInv
<1>2. /\ Answers({"advData", "scanRsp"}, TRUE)
      /\ events' = Append(events, e)
      /\ UNCHANGED <<registered, started, scanSet, advertising, link>>
  BY DEF Configures, Event
<1>3. UNCHANGED <<known, configDone, bleConnect, serverConnect, wiped, app>>
  BY <1>2 DEF Answers, countVars
<1>4. /\ asked' \in Seq(Request) /\ Once(asked') /\ trouble' \in BOOLEAN
      /\ Keys(asked) = {<<f, "gap">>} \cup Keys(asked') /\ <<f, "gap">> \notin Keys(asked')
      /\ f \in Flag /\ (trouble' <=> trouble)
  <2>1. /\ f \in {"advData", "scanRsp"} /\ Head(asked) \in Request
        /\ asked' \in Seq(Request) /\ Once(asked') /\ trouble' \in BOOLEAN
        /\ Keys(asked) = {<<f, Head(asked)[2]>>} \cup Keys(asked')
        /\ <<f, Head(asked)[2]>> \in Single => <<f, Head(asked)[2]>> \notin Keys(asked')
        /\ trouble' = (trouble \/ ~TRUE)
    BY <1>1, <1>2, TakesRequest DEF Registration
  <2>2. f \in Flag /\ Head(asked)[2] = "gap"
    BY <2>1, RequestForm DEF Part, Flag
  <2>3. <<f, "gap">> \in Single
    BY <2>2 DEF Flag, Single
  <2>4. trouble' <=> trouble
    BY <2>1
  <2> QED
    BY <2>1, <2>2, <2>3, <2>4
<1> HIDE DEF f
<1>5. /\ e \in Occurrence /\ e[1] \notin {"connect", "disconnect"} /\ Key(e) = <<f, "gap">>
      /\ e[3]
  <2>1. e \in Occurrence
    BY <1>4 DEF Occurrence
  <2>2. Key(e) = <<f, "gap">>
    BY KeyIs
  <2>3. f \notin {"connect", "disconnect"}
    BY <1>4 DEF Flag
  <2> QED
    BY <2>1, <2>2, <2>3
<1> HIDE DEF e
<1>6. /\ events' \in Seq(Occurrence) /\ Once(events')
      /\ Keys(events') = Keys(events) \cup {<<f, "gap">>}
      /\ AllOk(events) => AllOk(events')
      /\ Counting'
  <2>1. <<f, "gap">> \notin Keys(events)
    BY <1>1, <1>4 DEF Advertising
  <2> QED
    BY <1>2, <1>3, <1>5, <2>1, AnswersEvent
<1>7. /\ Keys(asked') \subseteq Keys(asked) /\ Keys(events) \subseteq Keys(events')
      /\ \A k : k \notin Flag => \A w : <<k, w>> \in Keys(events') => <<k, w>> \in Keys(events)
      /\ \A k : k \notin Flag => \A w : <<k, w>> \in Keys(asked) => <<k, w>> \in Keys(asked')
  BY <1>4, <1>6
<1>9. "register" \notin Flag /\ "registered" \notin Flag /\ "advertise" \notin Flag /\ "disconnect" \notin Flag
  BY DEF Flag
<1>10. BluetoothTypeOK'
  BY <1>1, <1>2, <1>3, <1>4, <1>6 DEF BluetoothTypeOK
<1>11. Registration'
  BY <1>1, <1>2, <1>3, <1>4, <1>6, <1>7, <1>9, RegistrationFrame DEF Forward
<1>12. Advertising'
  <2>1. (AdvAsked' => AdvAsked) /\ (Ended' => Ended) /\ (Fresh' => Fresh)
    BY <1>2, <1>7, <1>9 DEF AdvAsked, Ended, Fresh
  <2>2. Keys(asked') \cup Keys(events') = Keys(asked) \cup Keys(events)
    BY <1>4, <1>6
  <2>3. \A g \in Flag : <<g, "gap">> \notin Keys(asked') \cap Keys(events')
    BY <1>1, <1>4, <1>6 DEF Advertising
  <2> QED
    BY <1>1, <1>2, <1>3, <2>1, <2>2, <2>3 DEF Advertising
<1>13. Progress'
  <2>1. ~trouble' => ~trouble /\ AllOk(events')
    BY <1>1, <1>4, <1>6 DEF Progress
  <2>2. (AdvAsked => AdvAsked') /\ (Ended => Ended') /\ configDone \subseteq Flag
    BY <1>1, <1>7, <1>9 DEF AdvAsked, Ended, BluetoothTypeOK
  <2>3. Flight \subseteq Flight'
    BY <1>4, <1>6 DEF Flight
  <2>4. \A b \in App : <<"register", b>> \in Keys(asked) => <<"register", b>> \in Keys(asked')
    BY <1>7, <1>9
  <2> QED
    BY <1>1, <1>2, <1>3, <1>7, <2>1, <2>2, <2>3, <2>4, ProgressFrame
<1> QED
  BY <1>6, <1>10, <1>11, <1>12, <1>13 DEF LinksInv

LEMMA SetsScanParamsStep ==
    ASSUME LinksInv, NEW ok \in BOOLEAN, SetsScanParams(ok)
    PROVE  LinksInv'
<1> DEFINE w == Head(asked)[2]
<1>1. BluetoothTypeOK /\ Registration /\ Advertising /\ Counting /\ Progress
  BY DEF LinksInv
<1>2. /\ Answers({"scanParams"}, ok) /\ UNCHANGED <<events, registered, started, advertising, link>>
  BY DEF SetsScanParams
<1>3. UNCHANGED <<known, configDone, bleConnect, serverConnect, wiped, app>>
  BY <1>2 DEF Answers, countVars
<1>4. /\ asked' \in Seq(Request) /\ Once(asked') /\ trouble' \in BOOLEAN
      /\ Keys(asked) = {<<"scanParams", w>>} \cup Keys(asked') /\ trouble' = (trouble \/ ~ok)
  BY <1>1, <1>2, TakesRequest DEF Registration
<1> HIDE DEF w
<1>5. \A k : k # "scanParams" => \A v : <<k, v>> \in Keys(asked') <=> <<k, v>> \in Keys(asked)
  BY <1>4
<1>6. Keys(events') = Keys(events) /\ Once(events') /\ AllOk(events)' = AllOk(events)
  BY <1>1, <1>2 DEF Registration
<1>7. (AdvAsked' <=> AdvAsked) /\ (Ended' <=> Ended) /\ (Fresh' <=> Fresh) /\ Told' = Told
  BY <1>2, <1>5, <1>6 DEF AdvAsked, Ended, Fresh, Told
<1>10. BluetoothTypeOK'
  BY <1>1, <1>2, <1>3, <1>4 DEF BluetoothTypeOK
<1>11. Registration'
  BY <1>1, <1>2, <1>3, <1>4, <1>5, <1>6, RegistrationFrame DEF Forward
<1>12. Advertising'
  <2>1. \A f \in Flag : f # "scanParams"
    BY DEF Flag
  <2> QED
    BY <1>1, <1>2, <1>3, <1>5, <1>6, <1>7, <2>1, AdvertisingFrame
<1>13. Counting'
  BY <1>1, <1>2, <1>3, <1>7, CountingFrame
<1>14. Progress'
  <2>1. ~trouble' => ~trouble /\ AllOk(events')
    BY <1>1, <1>2, <1>4 DEF Progress
  <2>2. configDone \subseteq Flag
    BY <1>1 DEF BluetoothTypeOK
  <2>3. \A k \in Part \cup Flag \cup {"start"}, v \in Server \cup {"gap"} : <<k, v>> \in Flight => <<k, v>> \in Flight'
    <3>1. \A k \in Part \cup Flag \cup {"start"} : k # "scanParams"
      BY DEF Part, Flag
    <3> QED
      BY <1>5, <1>6, <3>1 DEF Flight
  <2> QED
    BY <1>1, <1>2, <1>3, <1>5, <1>6, <1>7, <2>1, <2>2, <2>3, ProgressFrame
<1> QED
  BY <1>10, <1>11, <1>12, <1>13, <1>14 DEF LinksInv

LEMMA StartsStep ==
    ASSUME LinksInv, NEW ok \in BOOLEAN, Starts(ok)
    PROVE  LinksInv'
<1> DEFINE w == Head(asked)[2]
<1>1. BluetoothTypeOK /\ Registration /\ Advertising /\ Counting /\ Progress
  BY DEF LinksInv
<1>2. /\ Answers({"start"}, ok) /\ UNCHANGED <<events, registered, advertising, link>>
      /\ started' = IF ok THEN started \cup {w} ELSE started
  BY DEF Starts
<1>3. UNCHANGED <<known, configDone, bleConnect, serverConnect, wiped, app>>
  BY <1>2 DEF Answers, countVars
<1>4. /\ asked' \in Seq(Request) /\ Once(asked') /\ trouble' \in BOOLEAN
      /\ Keys(asked) = {<<"start", w>>} \cup Keys(asked') /\ trouble' = (trouble \/ ~ok)
  BY <1>1, <1>2, TakesRequest DEF Registration
<1> HIDE DEF w
<1>5. \A k : k # "start" => \A v : <<k, v>> \in Keys(asked') <=> <<k, v>> \in Keys(asked)
  BY <1>4
<1>6. Keys(events') = Keys(events) /\ Once(events') /\ AllOk(events)' = AllOk(events)
  BY <1>1, <1>2 DEF Registration
<1>7. (AdvAsked' <=> AdvAsked) /\ (Ended' <=> Ended) /\ (Fresh' <=> Fresh) /\ Told' = Told
  BY <1>2, <1>5, <1>6 DEF AdvAsked, Ended, Fresh, Told
<1>8. \A k \in Part \cup Flag : k # "start"
  BY DEF Part, Flag
<1>10. BluetoothTypeOK'
  BY <1>1, <1>2, <1>3, <1>4 DEF BluetoothTypeOK
<1>11. Registration'
  BY <1>1, <1>2, <1>3, <1>4, <1>5, <1>6, RegistrationFrame DEF Forward
<1>12. Advertising'
  BY <1>1, <1>2, <1>3, <1>5, <1>6, <1>7, <1>8, AdvertisingFrame
<1>13. Counting'
  BY <1>1, <1>2, <1>3, <1>7, CountingFrame
<1>14. Progress'
  <2> SUFFICES ASSUME ~trouble' PROVE Progress'
    BY DEF Progress
  <2>1. ~trouble /\ ok
    BY <1>4
  <2>2. AllOk(events')
    BY <1>1, <1>2, <2>1 DEF Progress
  <2>3. \A a \in App : At(app') > At(a) => a \in registered' \/ <<"register", a>> \in Keys(asked')
    BY <1>1, <1>2, <1>3, <1>5, <2>1 DEF Progress
  <2>4. registered' = registered /\ known' = known /\ configDone' = configDone
        /\ advertising' = advertising /\ link' = link /\ configDone \subseteq Flag
    BY <1>1, <1>2, <1>3 DEF BluetoothTypeOK
  <2>5. \A k : k # "start" => \A v : <<k, v>> \in Flight => <<k, v>> \in Flight'
    BY <1>5, <1>6 DEF Flight
  <2>6. "A" \in registered' =>
          \/ <<"registered", "A">> \in Keys(events')
          \/ configDone' # {} /\ \A g \in configDone' : <<g, "gap">> \in Flight'
          \/ AdvAsked' \/ advertising' \/ link' \/ Ended'
    BY <1>1, <1>6, <1>7, <1>8, <2>1, <2>4, <2>5 DEF Progress
  <2>7. ASSUME NEW s \in Server \cap registered'
        PROVE  \/ <<"registered", s>> \in Keys(events')
               \/ Underway(s)'
    <3>1. /\ <<"create", s>> \in Flight => <<"create", s>> \in Flight'
          /\ <<"char", s>> \in Flight => <<"char", s>> \in Flight'
          /\ <<"descr", s>> \in Flight => <<"descr", s>> \in Flight'
      BY <2>5
    <3>2. <<"start", s>> \in Flight \/ s \in started => <<"start", s>> \in Flight' \/ s \in started'
      BY <1>2, <1>4, <2>1 DEF Flight
    <3>3. Underway(s) => Underway(s)'
      BY <2>4, <3>1, <3>2 DEF Underway
    <3> QED
      BY <1>1, <1>6, <2>1, <2>4, <3>3 DEF Progress
  <2> QED
    BY <2>2, <2>3, <2>6, <2>7 DEF Progress
<1> QED
  BY <1>10, <1>11, <1>12, <1>13, <1>14 DEF LinksInv

LEMMA AdvertisesStep ==
    ASSUME LinksInv, NEW ok \in BOOLEAN, Advertises(ok)
    PROVE  LinksInv'
<1>1. BluetoothTypeOK /\ Registration /\ Advertising /\ Counting /\ Progress
  BY DEF LinksInv
<1>2. /\ Answers({"advertise"}, ok) /\ UNCHANGED <<events, registered, started, link>>
      /\ advertising' = (advertising \/ ok)
  BY DEF Advertises
<1>3. UNCHANGED <<known, configDone, bleConnect, serverConnect, wiped, app>>
  BY <1>2 DEF Answers, countVars
<1>4. /\ asked' \in Seq(Request) /\ Once(asked') /\ trouble' \in BOOLEAN
      /\ Keys(asked) = {<<"advertise", "gap">>} \cup Keys(asked') /\ trouble' = (trouble \/ ~ok)
      /\ ~AdvAsked' /\ AdvAsked
  <2>1. /\ Head(asked)[1] = "advertise" /\ Head(asked) \in Request
        /\ asked' \in Seq(Request) /\ Once(asked') /\ trouble' \in BOOLEAN
        /\ Keys(asked) = {<<"advertise", Head(asked)[2]>>} \cup Keys(asked')
        /\ <<"advertise", Head(asked)[2]>> \in Single => <<"advertise", Head(asked)[2]>> \notin Keys(asked')
        /\ trouble' = (trouble \/ ~ok)
    BY <1>1, <1>2, TakesRequest DEF Registration
  <2>2. Head(asked)[2] = "gap"
    BY <2>1, RequestForm DEF Part, Flag
  <2>3. <<"advertise", "gap">> \in Single
    BY DEF Single
  <2> QED
    BY <2>1, <2>2, <2>3 DEF AdvAsked
<1>5. \A k : k # "advertise" => \A v : <<k, v>> \in Keys(asked') <=> <<k, v>> \in Keys(asked)
  BY <1>4
<1>6. Keys(events') = Keys(events) /\ Once(events')
  BY <1>1, <1>2 DEF Registration
<1>7. (Ended' <=> Ended) /\ (Fresh' <=> Fresh) /\ Told' = Told
  BY <1>2, <1>6 DEF Ended, Fresh, Told
<1>8. ~Fresh /\ configDone = {} /\ ~advertising /\ ~link /\ ~Ended
  BY <1>1, <1>4 DEF Advertising
<1>9. \A k \in Part \cup Flag \cup {"start"} : k # "advertise"
  BY DEF Part, Flag
<1>10. BluetoothTypeOK'
  <2>1. advertising' \in BOOLEAN
    BY <1>1, <1>2 DEF BluetoothTypeOK
  <2> QED
    BY <1>1, <1>2, <1>3, <1>4, <2>1 DEF BluetoothTypeOK
<1>11. Registration'
  BY <1>1, <1>2, <1>3, <1>4, <1>5, <1>6, RegistrationFrame DEF Forward
<1>12. Advertising'
  <2>1. link' = link /\ configDone' = configDone
    BY <1>2, <1>3
  <2>2. \A f \in Flag : <<f, "gap">> \in Keys(asked') <=> <<f, "gap">> \in Keys(asked)
    BY <1>5, <1>9
  <2> QED
    BY <1>1, <1>4, <1>6, <1>7, <1>8, <2>1, <2>2 DEF Advertising
<1>13. Counting'
  BY <1>1, <1>2, <1>3, <1>7, CountingFrame
<1>14. Progress'
  <2> SUFFICES ASSUME ~trouble' PROVE Progress'
    BY DEF Progress
  <2>1. ~trouble /\ advertising'
    BY <1>2, <1>4
  <2>2. AllOk(events')
    BY <1>1, <1>2, <2>1 DEF Progress
  <2>3. \A a \in App : At(app') > At(a) => a \in registered' \/ <<"register", a>> \in Keys(asked')
    BY <1>1, <1>2, <1>3, <1>5, <2>1 DEF Progress
  <2>4. registered' = registered /\ known' = known /\ started' = started
    BY <1>2, <1>3
  <2>5. \A k \in Part \cup {"start"}, s \in Server : <<k, s>> \in Flight => <<k, s>> \in Flight'
    BY <1>5, <1>6, <1>9 DEF Flight
  <2>6. ASSUME NEW s \in Server \cap registered'
        PROVE  \/ <<"registered", s>> \in Keys(events')
               \/ Underway(s)'
    <3>1. Underway(s) => Underway(s)'
      BY <2>4, <2>5, UnderwayFrame
    <3> QED
      BY <1>1, <1>6, <2>1, <2>4, <3>1 DEF Progress
  <2> QED
    BY <2>1, <2>2, <2>3, <2>6 DEF Progress
<1> QED
  BY <1>10, <1>11, <1>12, <1>13, <1>14 DEF LinksInv

LEMMA LinkUpStep == LinksInv /\ LinkUp => LinksInv'
<1> SUFFICES ASSUME LinksInv, LinkUp PROVE LinksInv'
  OBVIOUS
<1> DEFINE n == LinkEvents("connect", registered)
<1>1. BluetoothTypeOK /\ Registration /\ Advertising /\ Counting /\ Progress
  BY DEF LinksInv
<1>2. /\ advertising /\ link' = TRUE /\ advertising' = FALSE /\ events' = events \o n
      /\ UNCHANGED <<asked, registered, started, known, configDone, bleConnect, serverConnect, wiped,
                     trouble, app>>
  BY DEF LinkUp, countVars
<1>3. /\ n \in Seq(Occurrence) /\ Once(n) /\ AllOk(n)
      /\ Keys(n) = {<<"connect", a>> : a \in registered \cap LinkApps}
  BY LinkEventsFacts DEF AllOk
<1> HIDE DEF n
<1>4. Keys(n) \cap Single = {}
  BY <1>3 DEF Single
<1>5. /\ events' \in Seq(Occurrence) /\ Once(events') /\ Keys(events') = Keys(events) \cup Keys(n)
      /\ AllOk(events) => AllOk(events')
  BY <1>1, <1>2, <1>3, <1>4, KeysLater DEF Registration
<1>6. \A k : k # "connect" => \A v : <<k, v>> \in Keys(events') <=> <<k, v>> \in Keys(events)
  BY <1>3, <1>5
<1>7. Keys(asked') = Keys(asked) /\ Once(asked')
  BY <1>1, <1>2 DEF Registration
<1>8. (AdvAsked' <=> AdvAsked) /\ (Ended' <=> Ended) /\ (Fresh' <=> Fresh)
  BY <1>2, <1>6, <1>7 DEF AdvAsked, Ended, Fresh
<1>9. ~Fresh /\ configDone = {} /\ ~AdvAsked /\ ~link /\ ~Ended
  BY <1>1, <1>2 DEF Advertising
<1>10. BluetoothTypeOK'
  <2>1. advertising' \in BOOLEAN /\ link' \in BOOLEAN
    BY <1>2
  <2> QED
    BY <1>1, <1>2, <1>5, <2>1 DEF BluetoothTypeOK
<1>11. Registration'
  BY <1>1, <1>2, <1>5, <1>6, <1>7, RegistrationFrame DEF Forward
<1>12. Advertising'
  <2>1. \A f \in Flag : f # "connect"
    BY DEF Flag
  <2>2. ~advertising' /\ configDone' = {}
    BY <1>2, <1>9
  <2> QED
    BY <1>1, <1>6, <1>7, <1>8, <1>9, <2>1, <2>2 DEF Advertising
<1>13. Counting'
  <2>1. PICK heard \in SUBSET App :
          /\ Hear(events, heard, Told)
          /\ serverConnect = ("B" \in heard)
          /\ bleConnect + wiped = Cardinality({b \in heard : Counts(b)})
    BY <1>1 DEF Counting
  <2>2. Told = {} /\ Told' = registered \cap LinkApps /\ events \in Seq(Occurrence)
    BY <1>1, <1>2, <1>9 DEF Told, BluetoothTypeOK
  <2>3. Hear(events', heard, Told')
    <3>1. Told \cup (registered \cap LinkApps) = Told' /\ registered \cap LinkApps \cap Told = {}
      BY <2>2
    <3>2. Told \in SUBSET App
      BY <2>2
    <3>3. Hear(events \o LinkEvents("connect", registered), heard, Told \cup (registered \cap LinkApps))
      BY <2>1, <2>2, <3>1, <3>2, HearLink
    <3> QED
      BY <1>2, <3>1, <3>3 DEF n
  <2> QED
    BY <1>2, <2>1, <2>3 DEF Counting
<1>14. Progress'
  <2> SUFFICES ASSUME ~trouble' PROVE Progress'
    BY DEF Progress
  <2>1. ~trouble /\ link'
    BY <1>2
  <2>2. AllOk(events')
    BY <1>1, <1>5, <2>1 DEF Progress
  <2>3. \A a \in App : At(app') > At(a) => a \in registered' \/ <<"register", a>> \in Keys(asked')
    BY <1>1, <1>2, <1>7, <2>1 DEF Progress
  <2>4. registered' = registered /\ known' = known /\ started' = started
    BY <1>2
  <2>5. Flight \subseteq Flight' /\ Keys(events) \subseteq Keys(events')
    BY <1>5, <1>7 DEF Flight
  <2>6. ASSUME NEW s \in Server \cap registered'
        PROVE  \/ <<"registered", s>> \in Keys(events')
               \/ Underway(s)'
    <3>1. Underway(s) => Underway(s)'
      BY <2>4, <2>5, UnderwayFrame
    <3> QED
      BY <1>1, <2>1, <2>4, <2>5, <3>1 DEF Progress
  <2> QED
    BY <2>1, <2>2, <2>3, <2>6 DEF Progress
<1> QED
  BY <1>10, <1>11, <1>12, <1>13, <1>14 DEF LinksInv

LEMMA LinkDownStep == LinksInv /\ LinkDown => LinksInv'
<1> SUFFICES ASSUME LinksInv, LinkDown PROVE LinksInv'
  OBVIOUS
<1> DEFINE n == LinkEvents("disconnect", registered)
<1>1. BluetoothTypeOK /\ Registration /\ Advertising /\ Counting /\ Progress
  BY DEF LinksInv
<1>2. /\ link /\ link' = FALSE /\ events' = events \o n
      /\ UNCHANGED <<asked, registered, started, advertising, known, configDone, bleConnect, serverConnect,
                     wiped, trouble, app>>
  BY DEF LinkDown, countVars
<1>3. /\ n \in Seq(Occurrence) /\ Once(n) /\ AllOk(n)
      /\ Keys(n) = {<<"disconnect", a>> : a \in registered \cap LinkApps}
  BY LinkEventsFacts DEF AllOk
<1> HIDE DEF n
<1>4. ~Fresh /\ configDone = {} /\ ~AdvAsked /\ ~advertising /\ ~Ended
  BY <1>1, <1>2 DEF Advertising
<1>5. /\ events' \in Seq(Occurrence) /\ Once(events') /\ Keys(events') = Keys(events) \cup Keys(n)
      /\ AllOk(events) => AllOk(events')
  <2>1. Keys(n) \cap Single \subseteq {<<"disconnect", "A">>}
    BY <1>3 DEF Single
  <2>2. Keys(events) \cap Keys(n) \cap Single = {}
    BY <1>4, <2>1 DEF Ended
  <2> QED
    BY <1>1, <1>2, <1>3, <2>2, KeysLater DEF Registration
<1>6. \A k : k # "disconnect" => \A v : <<k, v>> \in Keys(events') <=> <<k, v>> \in Keys(events)
  BY <1>3, <1>5
<1>7. Keys(asked') = Keys(asked) /\ Once(asked')
  BY <1>1, <1>2 DEF Registration
<1>8. (AdvAsked' <=> AdvAsked) /\ (Fresh' <=> Fresh)
  BY <1>2, <1>6, <1>7 DEF AdvAsked, Fresh
<1>9. "A" \in registered => Ended'
  BY <1>3, <1>5, LinkAssumption DEF Ended, Server
<1>10. BluetoothTypeOK'
  <2>1. link' \in BOOLEAN
    BY <1>2
  <2> QED
    BY <1>1, <1>2, <1>5, <2>1 DEF BluetoothTypeOK
<1>11. Registration'
  BY <1>1, <1>2, <1>5, <1>6, <1>7, RegistrationFrame DEF Forward
<1>12. Advertising'
  <2>1. \A f \in Flag : f # "disconnect"
    BY DEF Flag
  <2>2. ~advertising' /\ configDone' = {} /\ ~link' /\ ~AdvAsked' /\ ~Fresh'
    BY <1>2, <1>4, <1>8
  <2> QED
    BY <1>1, <1>4, <1>6, <1>7, <2>1, <2>2 DEF Advertising
<1>13. Counting'
  <2>1. PICK heard \in SUBSET App :
          /\ Hear(events, heard, Told)
          /\ serverConnect = ("B" \in heard)
          /\ bleConnect + wiped = Cardinality({b \in heard : Counts(b)})
    BY <1>1 DEF Counting
  <2>2. Told = registered \cap LinkApps /\ Told' = {} /\ events \in Seq(Occurrence)
        /\ Told \in SUBSET App
    BY <1>1, <1>2 DEF Told, BluetoothTypeOK
  <2>3. Hear(events', heard, Told')
    <3>1. Told \ (registered \cap LinkApps) = Told' /\ registered \cap LinkApps \subseteq Told
      BY <2>2
    <3>2. Hear(events \o LinkEvents("disconnect", registered), heard, Told \ (registered \cap LinkApps))
      BY <2>1, <2>2, <3>1, HearLink
    <3> QED
      BY <1>2, <3>1, <3>2 DEF n
  <2> QED
    BY <1>2, <2>1, <2>3 DEF Counting
<1>14. Progress'
  <2> SUFFICES ASSUME ~trouble' PROVE Progress'
    BY DEF Progress
  <2>1. ~trouble
    BY <1>2
  <2>2. AllOk(events')
    BY <1>1, <1>5, <2>1 DEF Progress
  <2>3. \A a \in App : At(app') > At(a) => a \in registered' \/ <<"register", a>> \in Keys(asked')
    BY <1>1, <1>2, <1>7, <2>1 DEF Progress
  <2>4. registered' = registered /\ known' = known /\ started' = started
    BY <1>2
  <2>5. Flight \subseteq Flight' /\ Keys(events) \subseteq Keys(events')
    BY <1>5, <1>7 DEF Flight
  <2>6. ASSUME NEW s \in Server \cap registered'
        PROVE  \/ <<"registered", s>> \in Keys(events')
               \/ Underway(s)'
    <3>1. Underway(s) => Underway(s)'
      BY <2>4, <2>5, UnderwayFrame
    <3> QED
      BY <1>1, <2>1, <2>4, <2>5, <3>1 DEF Progress
  <2> QED
    BY <1>9, <2>2, <2>3, <2>4, <2>6 DEF Progress
<1> QED
  BY <1>10, <1>11, <1>12, <1>13, <1>14 DEF LinksInv

-----------------------------------------------------------------------------
(***************************************************************************)
(* The handlers of the profiles.                                           *)
(***************************************************************************)

\* A success that is reported has happened.
Honest == {e \in Occurrence : e[1] = "registered" /\ e[3] => e[2] \in registered}
Confirmed == events \in Seq(Honest)

\* One call, or none that is new.
LEMMA AskedOne ==
    ASSUME LinksInv, NEW k, NEW w, <<k, w>> \in Request, Ask(<< <<k, w>> >>),
           <<k, w>> \in Single => <<k, w>> \notin Keys(asked)
    PROVE  /\ asked' \in Seq(Request) /\ Once(asked') /\ trouble' \in BOOLEAN /\ (trouble => trouble')
           /\ Keys(asked) \subseteq Keys(asked') /\ Keys(asked') \subseteq Keys(asked) \cup {<<k, w>>}
           /\ ~trouble' => <<k, w>> \in Keys(asked')
<1> DEFINE r == <<k, w>>
           rs == <<r>>
<1>1. r \in Request /\ Key(r) = r /\ Ask(rs) /\ (r \in Single => r \notin Keys(asked))
  BY KeyIs
<1>2. asked \in Seq(Request) /\ Once(asked) /\ trouble \in BOOLEAN
  BY DEF LinksInv, BluetoothTypeOK, Registration
<1> HIDE DEF r
<1>3. rs \in Seq(Request) /\ Len(rs) \in 0..3 /\ DOMAIN rs = {1} /\ Keys(rs) = {r}
  BY <1>1, KeysSmall
<1> HIDE DEF rs
<1>4. \A i, j \in DOMAIN rs : i # j => Key(rs[i]) # Key(rs[j])
  BY <1>3
<1>5. Keys(asked) \cap Keys(rs) \cap Single = {}
  BY <1>1, <1>3
<1>6. /\ asked' \in Seq(Request) /\ trouble' \in BOOLEAN /\ (trouble => trouble')
      /\ Keys(asked) \subseteq Keys(asked')
      /\ Keys(asked') \subseteq Keys(asked) \cup Keys(rs)
      /\ ~trouble' => Keys(asked') = Keys(asked) \cup Keys(rs)
      /\ Once(asked')
  BY <1>1, <1>2, <1>3, <1>4, <1>5, Asked
<1> QED
  BY <1>3, <1>6 DEF r

\* Two calls, of which neither, one or both are new.
LEMMA AskedTwo ==
    ASSUME LinksInv, NEW k, NEW l, NEW w, k # l, <<k, w>> \in Request, <<l, w>> \in Request,
           <<k, w>> \notin Single, <<l, w>> \notin Single, Ask(<< <<k, w>>, <<l, w>> >>)
    PROVE  /\ asked' \in Seq(Request) /\ Once(asked') /\ trouble' \in BOOLEAN /\ (trouble => trouble')
           /\ Keys(asked) \subseteq Keys(asked')
           /\ Keys(asked') \subseteq Keys(asked) \cup {<<k, w>>, <<l, w>>}
           /\ ~trouble' => {<<k, w>>, <<l, w>>} \subseteq Keys(asked')
<1> DEFINE r == <<k, w>>
           q == <<l, w>>
           rs == <<r, q>>
<1>1. /\ r \in Request /\ q \in Request /\ Key(r) = r /\ Key(q) = q /\ r # q /\ Ask(rs)
      /\ r \notin Single /\ q \notin Single
  BY KeyIs
<1>2. asked \in Seq(Request) /\ Once(asked) /\ trouble \in BOOLEAN
  BY DEF LinksInv, BluetoothTypeOK, Registration
<1> HIDE DEF r, q
<1>3. rs \in Seq(Request) /\ Len(rs) \in 0..3 /\ DOMAIN rs = {1, 2} /\ rs[1] = r /\ rs[2] = q
  BY <1>1
<1> HIDE DEF rs
<1>4. /\ \A i, j \in DOMAIN rs : i # j => Key(rs[i]) # Key(rs[j])
      /\ Keys(rs) = {r, q}
  BY <1>1, <1>3 DEF Keys
<1>5. Keys(asked) \cap Keys(rs) \cap Single = {}
  BY <1>1, <1>4
<1>6. /\ asked' \in Seq(Request) /\ trouble' \in BOOLEAN /\ (trouble => trouble')
      /\ Keys(asked) \subseteq Keys(asked')
      /\ Keys(asked') \subseteq Keys(asked) \cup Keys(rs)
      /\ ~trouble' => Keys(asked') = Keys(asked) \cup Keys(rs)
      /\ Once(asked')
  BY <1>1, <1>2, <1>3, <1>4, <1>5, Asked
<1> QED
  BY <1>4, <1>6 DEF r, q

LEMMA FirstFacts ==
    ASSUME NEW a \in App
    PROVE  /\ First(a) \in Seq(Request) /\ Len(First(a)) \in 0..3
           /\ \A i, j \in DOMAIN First(a) : i # j => Key(First(a)[i]) # Key(First(a)[j])
           /\ Keys(First(a)) = CASE a = "A"  -> {<<"advData", "gap">>, <<"scanRsp", "gap">>, <<"create", "A">>}
                                 [] a = "B"  -> {<<"create", "B">>}
                                 [] a = "cA" -> {<<"scanParams", "gap">>}
                                 [] a = "cB" -> {}
<1>1. /\ <<"advData", "gap">> \in Request /\ <<"scanRsp", "gap">> \in Request
      /\ <<"create", "A">> \in Request /\ <<"create", "B">> \in Request
      /\ <<"scanParams", "gap">> \in Request
  BY DEF Request, Part, Flag, Server
<1>2. CASE a = "A"
  <2> DEFINE x == <<"advData", "gap">>
             y == <<"scanRsp", "gap">>
             z == <<"create", "A">>
             t == <<x, y, z>>
  <2>1. First(a) = t /\ x \in Request /\ y \in Request /\ z \in Request
    BY <1>1, <1>2 DEF First
  <2>2. Key(x) = x /\ Key(y) = y /\ Key(z) = z /\ x # y /\ y # z /\ x # z
    BY KeyIs
  <2> HIDE DEF x, y, z
  <2>3. t \in Seq(Request) /\ Len(t) = 3 /\ DOMAIN t = {1, 2, 3} /\ t[1] = x /\ t[2] = y /\ t[3] = z
    BY <2>1
  <2> HIDE DEF t
  <2>4. \A i, j \in DOMAIN t : i # j => Key(t[i]) # Key(t[j])
    BY <2>2, <2>3
  <2>5. Keys(t) = {x, y, z}
    BY <2>2, <2>3 DEF Keys
  <2> QED
    BY <1>2, <2>1, <2>3, <2>4, <2>5 DEF x, y, z
<1>3. ASSUME NEW r, r \in Request, First(a) = <<r>>, Key(r) = r
      PROVE  /\ First(a) \in Seq(Request) /\ Len(First(a)) \in 0..3
             /\ \A i, j \in DOMAIN First(a) : i # j => Key(First(a)[i]) # Key(First(a)[j])
             /\ Keys(First(a)) = {r}
  <2>1. <<r>> \in Seq(Request) /\ Len(<<r>>) = 1 /\ DOMAIN <<r>> = {1}
    BY <1>3
  <2> QED
    BY <1>3, <2>1, KeysSmall
<1>4. CASE a = "B"
  <2>1. First(a) = << <<"create", "B">> >>
    BY <1>4 DEF First
  <2> DEFINE r == <<"create", "B">>
  <2>2. Key(r) = r /\ r \in Request
    BY <1>1, KeyIs
  <2>3. First(a) = <<r>>
    BY <2>1
  <2> HIDE DEF r
  <2>4. Keys(First(a)) = {r} /\ First(a) \in Seq(Request) /\ Len(First(a)) \in 0..3
        /\ \A i, j \in DOMAIN First(a) : i # j => Key(First(a)[i]) # Key(First(a)[j])
    BY <1>3, <2>2, <2>3
  <2> QED
    BY <1>4, <2>4 DEF r
<1>5. CASE a = "cA"
  <2>1. First(a) = << <<"scanParams", "gap">> >>
    BY <1>5 DEF First
  <2> DEFINE r == <<"scanParams", "gap">>
  <2>2. Key(r) = r /\ r \in Request
    BY <1>1, KeyIs
  <2>3. First(a) = <<r>>
    BY <2>1
  <2> HIDE DEF r
  <2>4. Keys(First(a)) = {r} /\ First(a) \in Seq(Request) /\ Len(First(a)) \in 0..3
        /\ \A i, j \in DOMAIN First(a) : i # j => Key(First(a)[i]) # Key(First(a)[j])
    BY <1>3, <2>2, <2>3
  <2> QED
    BY <1>5, <2>4 DEF r
<1>6. CASE a = "cB"
  <2>1. First(a) = <<>>
    BY <1>6 DEF First
  <2>2. <<>> \in Seq(Request) /\ Len(<<>>) = 0 /\ DOMAIN <<>> = {}
    OBVIOUS
  <2>3. Keys(First(a)) = {}
    BY <2>1, KeysSmall
  <2>4. \A i, j \in DOMAIN First(a) : i # j => Key(First(a)[i]) # Key(First(a)[j])
    BY <2>1, <2>2
  <2>5. First(a) \in Seq(Request) /\ Len(First(a)) \in 0..3
    BY <2>1, <2>2
  <2> QED
    BY <1>6, <2>3, <2>4, <2>5
<1> QED
  BY <1>2, <1>4, <1>5, <1>6 DEF App, Server

LEMMA OnRegisteredStep ==
    ASSUME LinksInv, Confirmed, OnRegistered
    PROVE  LinksInv'
<1> DEFINE a == Head(events)[2]
           ok == Head(events)[3]
<1>1. BluetoothTypeOK /\ Registration /\ Advertising /\ Counting /\ Progress
  BY DEF LinksInv
<1>2. /\ Handles({"registered"})
      /\ IF ok THEN Ask(First(a)) ELSE Quietly
      /\ configDone' = IF ok /\ a = "A" THEN {"advData", "scanRsp"} ELSE configDone
      /\ UNCHANGED <<known, bleConnect, serverConnect>>
  BY DEF OnRegistered
<1>3. UNCHANGED <<registered, started, advertising, link, wiped, app>>
  BY <1>2 DEF Handles
<1>4. /\ events # <<>> /\ events' = Tail(events) /\ events' \in Seq(Occurrence) /\ Once(events')
      /\ Keys(events) = {<<"registered", a>>} \cup Keys(events')
      /\ <<"registered", a>> \notin Keys(events')
      /\ a \in App /\ ok \in BOOLEAN /\ (AllOk(events) => AllOk(events') /\ ok)
      /\ Head(events)[1] = "registered"
  <2>1. /\ Head(events) \in Occurrence /\ Head(events)[1] = "registered" /\ events # <<>>
        /\ events' \in Seq(Occurrence) /\ Once(events') /\ events' = Tail(events)
        /\ Keys(events) = {<<"registered", a>>} \cup Keys(events')
        /\ <<"registered", a>> \in Single => <<"registered", a>> \notin Keys(events')
        /\ AllOk(events) => AllOk(events') /\ ok
    BY <1>1, <1>2, TakesEvent DEF Registration
  <2>2. a \in App /\ ok \in BOOLEAN
    BY <2>1, OccurrenceForm DEF Part, Flag
  <2>3. <<"registered", a>> \in Single
    BY <2>2 DEF Single
  <2> QED
    BY <2>1, <2>2, <2>3
<1>5. ok => a \in registered
  <2>1. Head(events) \in Honest
    BY <1>4 DEF Confirmed
  <2> QED
    BY <1>4, <2>1 DEF Honest
<1> HIDE DEF a, ok
<1>6. a = "A" => Fresh
  BY <1>4 DEF Fresh
<1> DEFINE new == Keys(First(a))
<1>7. /\ new \cap Single = IF a = "A" THEN {<<"advData", "gap">>, <<"scanRsp", "gap">>} ELSE {}
      /\ a \in Server => <<"create", a>> \in new
      /\ a # "A" => \A f \in Flag : <<f, "gap">> \notin new
      /\ a = "A" => \A f \in Flag : <<f, "gap">> \in new
      /\ <<"advertise", "gap">> \notin new /\ \A b : <<"register", b>> \notin new
  <2>1. CASE a = "A"
    <3>1. new = {<<"advData", "gap">>, <<"scanRsp", "gap">>, <<"create", "A">>}
      BY <1>4, <2>1, FirstFacts
    <3> HIDE DEF new
    <3>2. <<"create", "A">> \notin Single /\ <<"advData", "gap">> \in Single /\ <<"scanRsp", "gap">> \in Single
      BY DEF Single
    <3> QED
      BY <2>1, <3>1, <3>2 DEF Flag
  <2>2. CASE a = "B"
    <3>1. new = {<<"create", "B">>}
      BY <1>4, <2>2, FirstFacts
    <3> HIDE DEF new
    <3>2. <<"create", "B">> \notin Single
      BY DEF Single
    <3> QED
      BY <2>2, <3>1, <3>2 DEF Flag
  <2>3. CASE a = "cA"
    <3>1. new = {<<"scanParams", "gap">>}
      BY <1>4, <2>3, FirstFacts
    <3> HIDE DEF new
    <3>2. <<"scanParams", "gap">> \notin Single
      BY DEF Single
    <3> QED
      BY <2>3, <3>1, <3>2 DEF Flag, Server
  <2>4. CASE a = "cB"
    <3>1. new = {}
      BY <1>4, <2>4, FirstFacts
    <3> HIDE DEF new
    <3> QED
      BY <2>4, <3>1 DEF Server
  <2> QED
    BY <1>4, <2>1, <2>2, <2>3, <2>4 DEF App, Server
<1>8. /\ asked' \in Seq(Request) /\ Once(asked') /\ trouble' \in BOOLEAN /\ (trouble => trouble')
      /\ Keys(asked) \subseteq Keys(asked') /\ Keys(asked') \subseteq Keys(asked) \cup new
      /\ ok /\ ~trouble' => new \subseteq Keys(asked')
      /\ ~ok => Keys(asked') = Keys(asked)
  <2>1. CASE ok
    <3>1. Keys(asked) \cap new \cap Single = {}
      BY <1>1, <1>6, <1>7 DEF Advertising, Flag
    <3>2. asked \in Seq(Request) /\ Once(asked) /\ trouble \in BOOLEAN /\ Ask(First(a))
      BY <1>1, <1>2, <2>1 DEF BluetoothTypeOK, Registration
    <3> QED
      BY <1>4, <2>1, <3>1, <3>2, FirstFacts, Asked
  <2>2. CASE ~ok
    <3>1. asked' = asked /\ trouble' = trouble /\ Once(asked)
      BY <1>1, <1>2, <2>2 DEF Quietly, Registration
    <3>2. Once(asked') /\ Keys(asked') = Keys(asked)
      BY <3>1
    <3> QED
      BY <1>1, <2>2, <3>1, <3>2 DEF BluetoothTypeOK
  <2> QED
    BY <2>1, <2>2
<1> HIDE DEF new
<1>9. /\ \A b : <<"register", b>> \in Keys(asked') => <<"register", b>> \in Keys(asked)
      /\ Keys(events') \subseteq Keys(events)
      /\ AdvAsked' <=> AdvAsked
      /\ \A k : k # "registered" => \A w : <<k, w>> \in Keys(events) => <<k, w>> \in Keys(events')
      /\ Ended' <=> Ended
  BY <1>4, <1>7, <1>8 DEF AdvAsked, Ended
<1>10. BluetoothTypeOK'
  <2>1. configDone' \in SUBSET Flag
    BY <1>1, <1>2 DEF BluetoothTypeOK, Flag
  <2> QED
    BY <1>1, <1>2, <1>3, <1>4, <1>8, <2>1 DEF BluetoothTypeOK
<1>11. Registration'
  BY <1>1, <1>3, <1>4, <1>8, <1>9, RegistrationFrame DEF Forward
<1>12. Advertising'
  <2>1. CASE ok /\ a = "A"
    <3>1. /\ ~AdvAsked /\ ~advertising /\ ~link /\ ~Ended
          /\ \A f \in Flag : <<f, "gap">> \notin Keys(asked) \cup Keys(events)
      BY <1>1, <1>6, <2>1 DEF Advertising
    <3>2. ~Fresh' /\ ~AdvAsked' /\ ~advertising' /\ ~link' /\ ~Ended' /\ configDone' = Flag
      BY <1>2, <1>3, <1>4, <1>5, <1>9, <2>1, <3>1 DEF Fresh, Flag
    <3>3. \A f \in Flag : <<f, "gap">> \notin Keys(events')
      BY <1>9, <3>1
    <3> QED
      BY <3>2, <3>3 DEF Advertising
  <2>2. CASE ~(ok /\ a = "A")
    <3>1. configDone' = configDone
      BY <1>2, <2>2
    <3>2. ASSUME Fresh' PROVE Fresh
      BY <1>3, <1>9, <3>2 DEF Fresh
    <3>3. \A f \in Flag : <<f, "gap">> \in Keys(asked') => <<f, "gap">> \in Keys(asked)
      BY <1>7, <1>8, <2>2
    <3> QED
      BY <1>1, <1>3, <1>9, <3>1, <3>2, <3>3, AdvertisingFrame
  <2> QED
    BY <2>1, <2>2
<1>13. Counting'
  <2>1. Told' = Told
    BY <1>3 DEF Told
  <2>2. Head(events)[1] \notin {"connect", "disconnect"}
    BY <1>4
  <2> QED
    BY <1>1, <1>2, <1>3, <1>4, <2>1, <2>2, CountingFrame
<1>14. Progress'
  <2> SUFFICES ASSUME ~trouble' PROVE Progress'
    BY DEF Progress
  <2>1. ~trouble /\ ok /\ AllOk(events')
    BY <1>1, <1>4, <1>8 DEF Progress
  <2>2. new \subseteq Keys(asked') /\ registered' = registered /\ known' = known
      /\ started' = started
    BY <1>2, <1>3, <1>8, <2>1
  <2>3. \A b \in App : At(app') > At(b) => b \in registered' \/ <<"register", b>> \in Keys(asked')
    BY <1>1, <1>3, <1>8, <2>1 DEF Progress
  <2>4. \A k : k # "registered" => \A w : <<k, w>> \in Flight => <<k, w>> \in Flight'
    BY <1>8, <1>9 DEF Flight
  <2>5. \A b : b # a => (<<"registered", b>> \in Keys(events) => <<"registered", b>> \in Keys(events'))
    BY <1>4
  <2>6. "A" \in registered' =>
          \/ <<"registered", "A">> \in Keys(events')
          \/ configDone' # {} /\ \A f \in configDone' : <<f, "gap">> \in Flight'
          \/ AdvAsked' \/ advertising' \/ link' \/ Ended'
    <3>1. CASE a = "A"
      <4>1. configDone' = Flag
        BY <1>2, <2>1, <3>1 DEF Flag
      <4>2. \A f \in Flag : <<f, "gap">> \in Flight'
        BY <1>7, <2>2, <3>1 DEF Flight
      <4>3. Flag # {}
        BY DEF Flag
      <4> QED
        BY <4>1, <4>2, <4>3
    <3>2. CASE a # "A"
      <4>1. configDone' = configDone /\ advertising' = advertising /\ link' = link
        BY <1>2, <1>3, <3>2
      <4>2. \A f \in configDone : f # "registered"
        BY <1>1 DEF BluetoothTypeOK, Flag
      <4>3. <<"registered", "A">> \in Keys(events) => <<"registered", "A">> \in Keys(events')
        BY <2>5, <3>2
      <4> QED
        BY <1>1, <1>9, <2>1, <2>2, <2>4, <4>1, <4>2, <4>3 DEF Progress
    <3> QED
      BY <3>1, <3>2
  <2>7. ASSUME NEW s \in Server \cap registered'
        PROVE  \/ <<"registered", s>> \in Keys(events')
               \/ Underway(s)'
    <3>1. CASE a = s
      <4>1. <<"create", s>> \in Flight'
        BY <1>7, <2>2, <3>1 DEF Flight
      <4> QED
        BY <4>1 DEF Underway
    <3>2. CASE a # s
      <4>1. \A k \in Part \cup {"start"} : <<k, s>> \in Flight => <<k, s>> \in Flight'
        BY <2>4 DEF Part
      <4>2. Underway(s) => Underway(s)'
        BY <2>2, <4>1, UnderwayFrame
      <4> QED
        BY <1>1, <2>1, <2>2, <2>5, <3>2, <4>2 DEF Progress
    <3> QED
      BY <3>1, <3>2
  <2> QED
    BY <2>1, <2>3, <2>6, <2>7 DEF Progress
<1> QED
  BY <1>10, <1>11, <1>12, <1>13, <1>14 DEF LinksInv

LEMMA OnBuiltStep == LinksInv /\ OnBuilt => LinksInv'
<1> SUFFICES ASSUME LinksInv, OnBuilt PROVE LinksInv'
  OBVIOUS
<1> DEFINE part == Head(events)[1]
           s == Head(events)[2]
           ok == Head(events)[3]
<1>1. BluetoothTypeOK /\ Registration /\ Advertising /\ Counting /\ Progress
  BY DEF LinksInv
<1>2. /\ Handles({"create", "char", "descr"})
      /\ known' = [known EXCEPT ![s] = IF ok THEN @ \cup {part} ELSE @]
      /\ CASE part = "create" -> Ask(<< <<"start", s>>, <<"char", s>> >>)
           [] part = "char"   -> Ask(<< <<"descr", s>> >>)
           [] part = "descr"  -> Quietly
      /\ UNCHANGED <<configDone, bleConnect, serverConnect>>
  BY DEF OnBuilt
<1>3. UNCHANGED <<registered, started, advertising, link, wiped, app>>
  BY <1>2 DEF Handles
<1>4. /\ events # <<>> /\ events' = Tail(events) /\ events' \in Seq(Occurrence) /\ Once(events')
      /\ Keys(events) = {<<part, s>>} \cup Keys(events')
      /\ part \in Part /\ s \in Server /\ ok \in BOOLEAN /\ (AllOk(events) => AllOk(events') /\ ok)
      /\ Head(events)[1] = part
  <2>1. /\ Head(events) \in Occurrence /\ part \in {"create", "char", "descr"} /\ events # <<>>
        /\ events' \in Seq(Occurrence) /\ Once(events') /\ events' = Tail(events)
        /\ Keys(events) = {<<part, s>>} \cup Keys(events')
        /\ AllOk(events) => AllOk(events') /\ ok
    BY <1>1, <1>2, TakesEvent DEF Registration
  <2>2. part \in Part /\ s \in Server /\ ok \in BOOLEAN
    BY <2>1, OccurrenceForm DEF Part, Flag
  <2> QED
    BY <2>1, <2>2
<1> HIDE DEF part, s, ok
<1>5. /\ asked' \in Seq(Request) /\ Once(asked') /\ trouble' \in BOOLEAN /\ (trouble => trouble')
      /\ Keys(asked) \subseteq Keys(asked')
      /\ Keys(asked') \subseteq Keys(asked) \cup ((Part \cup {"start"}) \X Server)
      /\ ~trouble' /\ part = "create" => {<<"start", s>>, <<"char", s>>} \subseteq Keys(asked')
      /\ ~trouble' /\ part = "char" => <<"descr", s>> \in Keys(asked')
  <2>1. \A k \in Part : <<k, s>> \in Request /\ <<k, s>> \notin Single /\ <<k, s>> \in Part \X Server
    BY <1>4 DEF Request, Part, Single
  <2>2. "char" \in Part /\ "descr" \in Part
    BY DEF Part
  <2>3. CASE part = "create"
    <3>1. Ask(<< <<"start", s>>, <<"char", s>> >>)
      BY <1>2, <2>3
    <3>2. <<"char", s>> \in Request /\ <<"char", s>> \notin Single /\ <<"char", s>> \in Part \X Server
      BY <2>1, <2>2
    <3>3. <<"start", s>> \in Request /\ <<"start", s>> \notin Single
      BY <1>4 DEF Request, Single
    <3>4. /\ asked' \in Seq(Request) /\ Once(asked') /\ trouble' \in BOOLEAN /\ (trouble => trouble')
          /\ Keys(asked) \subseteq Keys(asked')
          /\ Keys(asked') \subseteq Keys(asked) \cup {<<"start", s>>, <<"char", s>>}
          /\ ~trouble' => {<<"start", s>>, <<"char", s>>} \subseteq Keys(asked')
      BY <3>1, <3>2, <3>3, AskedTwo
    <3>5. {<<"start", s>>, <<"char", s>>} \subseteq (Part \cup {"start"}) \X Server
      BY <1>4, <2>2
    <3> QED
      BY <2>3, <3>4, <3>5
  <2>4. CASE part = "char"
    <3>1. Ask(<< <<"descr", s>> >>)
      BY <1>2, <2>4
    <3>2. <<"descr", s>> \in Request /\ <<"descr", s>> \notin Single /\ <<"descr", s>> \in Part \X Server
      BY <2>1, <2>2
    <3> QED
      BY <2>4, <3>1, <3>2, AskedOne
  <2>5. CASE part = "descr"
    <3>1. asked' = asked /\ trouble' = trouble /\ Once(asked)
      BY <1>1, <1>2, <2>5 DEF Quietly, Registration
    <3>2. Once(asked') /\ Keys(asked') = Keys(asked)
      BY <3>1
    <3> QED
      BY <1>1, <2>5, <3>1, <3>2 DEF BluetoothTypeOK
  <2> QED
    BY <1>4, <2>3, <2>4, <2>5 DEF Part
<1>6. /\ known' \in [Server -> SUBSET Part]
      /\ \A t \in Server : t # s => known'[t] = known[t]
      /\ known[s] \subseteq known'[s] /\ (ok => part \in known'[s])
  BY <1>1, <1>2, <1>4 DEF BluetoothTypeOK
<1>7. /\ \A b : <<"register", b>> \in Keys(asked') <=> <<"register", b>> \in Keys(asked)
      /\ \A f \in Flag : <<f, "gap">> \in Keys(asked') <=> <<f, "gap">> \in Keys(asked)
      /\ AdvAsked' <=> AdvAsked
  BY <1>5 DEF AdvAsked, Part, Flag
<1>8. /\ \A k : k \notin Part => \A w : <<k, w>> \in Keys(events) <=> <<k, w>> \in Keys(events')
      /\ \A k, w : w # s => (<<k, w>> \in Keys(events) <=> <<k, w>> \in Keys(events'))
      /\ \A k, w : k # part => (<<k, w>> \in Keys(events) <=> <<k, w>> \in Keys(events'))
  BY <1>4
<1>9. "registered" \notin Part /\ "disconnect" \notin Part /\ \A f \in Flag : f \notin Part
  BY DEF Part, Flag
<1>10. (Ended' <=> Ended) /\ (Fresh' <=> Fresh) /\ Told' = Told
  BY <1>3, <1>8, <1>9 DEF Ended, Fresh, Told
<1>11. BluetoothTypeOK'
  BY <1>1, <1>2, <1>3, <1>4, <1>5, <1>6 DEF BluetoothTypeOK
<1>12. Registration'
  BY <1>1, <1>3, <1>4, <1>5, <1>7, <1>8, <1>9, RegistrationFrame DEF Forward
<1>13. Advertising'
  <2>1. UNCHANGED <<configDone, advertising, link>>
    BY <1>2, <1>3
  <2> QED
    BY <1>1, <1>7, <1>8, <1>9, <1>10, <2>1, AdvertisingFrame
<1>14. Counting'
  <2>1. Head(events)[1] \notin {"connect", "disconnect"}
    BY <1>4 DEF Part
  <2> QED
    BY <1>1, <1>2, <1>3, <1>4, <1>10, <2>1, CountingFrame
<1>15. Progress'
  <2> SUFFICES ASSUME ~trouble' PROVE Progress'
    BY DEF Progress
  <2>1. ~trouble /\ ok /\ AllOk(events')
    BY <1>1, <1>4, <1>5 DEF Progress
  <2>2. registered' = registered /\ started' = started /\ configDone' = configDone /\ advertising' = advertising /\ link' = link
    BY <1>2, <1>3
  <2>3. \A b \in App : At(app') > At(b) => b \in registered' \/ <<"register", b>> \in Keys(asked')
    BY <1>1, <1>3, <1>7, <2>1 DEF Progress
  <2>4. \A f \in Flag : <<f, "gap">> \in Flight => <<f, "gap">> \in Flight'
    BY <1>7, <1>8, <1>9 DEF Flight
  <2>5. "A" \in registered' =>
          \/ <<"registered", "A">> \in Keys(events')
          \/ configDone' # {} /\ \A f \in configDone' : <<f, "gap">> \in Flight'
          \/ AdvAsked' \/ advertising' \/ link' \/ Ended'
    <3>1. configDone \subseteq Flag
      BY <1>1 DEF BluetoothTypeOK
    <3> QED
      BY <1>1, <1>7, <1>8, <1>9, <1>10, <2>1, <2>2, <2>4, <3>1 DEF Progress
  <2>6. ASSUME NEW t \in Server \cap registered'
        PROVE  \/ <<"registered", t>> \in Keys(events')
               \/ Underway(t)'
    <3>1. \/ <<"registered", t>> \in Keys(events)
          \/ Underway(t)
      BY <1>1, <2>1, <2>2 DEF Progress
    <3>2. <<"registered", t>> \in Keys(events) => <<"registered", t>> \in Keys(events')
      BY <1>8, <1>9
    <3>3. CASE t # s
      <4>1. known'[t] = known[t] /\ \A k : <<k, t>> \in Flight => <<k, t>> \in Flight'
        BY <1>5, <1>6, <1>8, <3>3 DEF Flight
      <4>2. Underway(t) => Underway(t)'
        BY <2>2, <4>1, UnderwayFrame
      <4> QED
        BY <3>1, <3>2, <4>2
    <3>4. CASE t = s
      <4>1. \A k : k # part => (<<k, t>> \in Flight => <<k, t>> \in Flight')
        BY <1>5, <1>8 DEF Flight
      <4>2. known[t] \subseteq known'[t] /\ part \in known'[t] /\ known'[t] \subseteq Part
        <5>1. known[t] \subseteq known'[t] /\ part \in known'[t] /\ known'[t] \in SUBSET Part
          BY <1>4, <1>6, <2>1, <3>4
        <5> QED
          BY <5>1
      <4>3. CASE part = "create"
        <5>1. <<"char", t>> \in Flight' /\ <<"start", t>> \in Flight' /\ "create" \in known'[t]
          BY <1>5, <3>4, <4>2, <4>3 DEF Flight
        <5> QED
          BY <5>1 DEF Underway
      <4>4. CASE part = "char"
        <5>1. <<"descr", t>> \in Flight'
          BY <1>5, <3>4, <4>4 DEF Flight
        <5>2. part # "create" /\ part # "descr" /\ part # "start"
          BY <4>4
        <5> QED
          BY <2>2, <3>1, <3>2, <4>1, <4>2, <4>4, <5>1, <5>2 DEF Part, Underway
      <4>5. CASE part = "descr"
        <5>1. part # "create" /\ part # "char" /\ part # "start"
          BY <4>5
        <5> QED
          BY <2>2, <3>1, <3>2, <4>1, <4>2, <4>5, <5>1 DEF Part, Underway
      <4> QED
        BY <1>4, <4>3, <4>4, <4>5 DEF Part
    <3> QED
      BY <3>3, <3>4
  <2> QED
    BY <2>1, <2>3, <2>5, <2>6 DEF Progress
<1> QED
  BY <1>11, <1>12, <1>13, <1>14, <1>15 DEF LinksInv

LEMMA OnConfiguredStep == LinksInv /\ OnConfigured => LinksInv'
<1> SUFFICES ASSUME LinksInv, OnConfigured PROVE LinksInv'
  OBVIOUS
<1> DEFINE f == Head(events)[1]
<1>1. BluetoothTypeOK /\ Registration /\ Advertising /\ Counting /\ Progress
  BY DEF LinksInv
<1>2. /\ Handles({"advData", "scanRsp"})
      /\ configDone' = configDone \ {f}
      /\ IF configDone' = {} THEN Ask(<< <<"advertise", "gap">> >>) ELSE Quietly
      /\ UNCHANGED <<known, bleConnect, serverConnect>>
  BY DEF OnConfigured
<1>3. UNCHANGED <<registered, started, advertising, link, wiped, app>>
  BY <1>2 DEF Handles
<1>4. /\ events # <<>> /\ events' = Tail(events) /\ events' \in Seq(Occurrence) /\ Once(events')
      /\ Keys(events) = {<<f, "gap">>} \cup Keys(events') /\ <<f, "gap">> \notin Keys(events')
      /\ f \in Flag /\ (AllOk(events) => AllOk(events')) /\ Head(events)[1] = f
  <2>1. /\ Head(events) \in Occurrence /\ f \in {"advData", "scanRsp"} /\ events # <<>>
        /\ events' \in Seq(Occurrence) /\ Once(events') /\ events' = Tail(events)
        /\ Keys(events) = {<<f, Head(events)[2]>>} \cup Keys(events')
        /\ <<f, Head(events)[2]>> \in Single => <<f, Head(events)[2]>> \notin Keys(events')
        /\ AllOk(events) => AllOk(events')
    BY <1>1, <1>2, TakesEvent DEF Registration
  <2>2. f \in Flag /\ Head(events)[2] = "gap"
    BY <2>1, OccurrenceForm DEF Part, Flag
  <2>3. <<f, "gap">> \in Single
    BY <2>2 DEF Single, Flag
  <2> QED
    BY <2>1, <2>2, <2>3
<1> HIDE DEF f
<1>5. f \in configDone /\ ~AdvAsked /\ ~advertising /\ ~link /\ ~Ended /\ ~Fresh
      /\ <<f, "gap">> \notin Keys(asked)
  BY <1>1, <1>4 DEF Advertising
<1>6. /\ asked' \in Seq(Request) /\ Once(asked') /\ trouble' \in BOOLEAN /\ (trouble => trouble')
      /\ Keys(asked) \subseteq Keys(asked') /\ Keys(asked') \subseteq Keys(asked) \cup {<<"advertise", "gap">>}
      /\ configDone' = {} /\ ~trouble' => AdvAsked'
      /\ configDone' # {} => ~AdvAsked'
  <2>1. CASE configDone' = {}
    <3>1. Ask(<< <<"advertise", "gap">> >>)
      BY <1>2, <2>1
    <3>2. <<"advertise", "gap">> \in Request /\ <<"advertise", "gap">> \notin Keys(asked)
      BY <1>5 DEF Request, AdvAsked
    <3> QED
      BY <2>1, <3>1, <3>2, AskedOne DEF AdvAsked
  <2>2. CASE configDone' # {}
    <3>1. asked' = asked /\ trouble' = trouble /\ Once(asked)
      BY <1>1, <1>2, <2>2 DEF Quietly, Registration
    <3>2. Once(asked') /\ Keys(asked') = Keys(asked)
      BY <3>1
    <3> QED
      BY <1>1, <1>5, <2>2, <3>1, <3>2 DEF BluetoothTypeOK, AdvAsked
  <2> QED
    BY <2>1, <2>2
<1>7. /\ \A k : k # "advertise" => \A w : <<k, w>> \in Keys(asked') <=> <<k, w>> \in Keys(asked)
      /\ \A k : k # f => \A w : <<k, w>> \in Keys(events') <=> <<k, w>> \in Keys(events)
  BY <1>4, <1>6
<1>8. f # "registered" /\ f # "disconnect" /\ \A g \in Flag : g # "advertise"
  BY <1>4 DEF Flag
<1>9. ~Ended' /\ ~Fresh' /\ ~advertising' /\ ~link' /\ Told' = Told
  BY <1>3, <1>5, <1>7, <1>8 DEF Ended, Fresh, Told
<1>10. BluetoothTypeOK'
  <2>1. configDone' \in SUBSET Flag
    BY <1>1, <1>2 DEF BluetoothTypeOK
  <2> QED
    BY <1>1, <1>2, <1>3, <1>4, <1>6, <2>1 DEF BluetoothTypeOK
<1>11. Registration'
  BY <1>1, <1>3, <1>4, <1>6, <1>7, <1>8, RegistrationFrame DEF Forward
<1>12. Advertising'
  <2>1. ASSUME NEW g \in Flag
        PROVE  /\ <<g, "gap">> \in Keys(asked') \cup Keys(events') => g \in configDone'
               /\ <<g, "gap">> \notin Keys(asked') \cap Keys(events')
    <3>1. <<g, "gap">> \in Keys(asked') <=> <<g, "gap">> \in Keys(asked)
      BY <1>7, <1>8
    <3>2. CASE g = f
      BY <1>4, <1>5, <3>1, <3>2
    <3>3. CASE g # f
      BY <1>1, <1>2, <1>7, <3>1, <3>3 DEF Advertising
    <3> QED
      BY <3>2, <3>3
  <2> QED
    BY <1>6, <1>9, <2>1 DEF Advertising
<1>13. Counting'
  <2>1. Head(events)[1] \notin {"connect", "disconnect"}
    BY <1>4 DEF Flag
  <2> QED
    BY <1>1, <1>2, <1>3, <1>4, <1>9, <2>1, CountingFrame
<1>14. Progress'
  <2> SUFFICES ASSUME ~trouble' PROVE Progress'
    BY DEF Progress
  <2>1. ~trouble /\ AllOk(events')
    BY <1>1, <1>4, <1>6 DEF Progress
  <2>2. registered' = registered /\ known' = known /\ started' = started
    BY <1>2, <1>3
  <2>3. \A b \in App : At(app') > At(b) => b \in registered' \/ <<"register", b>> \in Keys(asked')
    BY <1>1, <1>3, <1>6, <2>1 DEF Progress
  <2>4. \A k, w : k # f => (<<k, w>> \in Flight => <<k, w>> \in Flight')
    BY <1>6, <1>7 DEF Flight
  <2>5. "A" \in registered' =>
          \/ <<"registered", "A">> \in Keys(events')
          \/ configDone' # {} /\ \A g \in configDone' : <<g, "gap">> \in Flight'
          \/ AdvAsked' \/ advertising' \/ link' \/ Ended'
    <3>1. CASE configDone' = {}
      BY <1>6, <3>1
    <3>2. CASE configDone' # {} /\ "A" \in registered
      <4>1. <<"registered", "A">> \notin Keys(events)
        BY <1>5 DEF Fresh
      <4>2. \A g \in configDone : <<g, "gap">> \in Flight
        BY <1>1, <1>5, <2>1, <3>2, <4>1 DEF Progress
      <4> QED
        BY <1>2, <2>4, <3>2, <4>2
    <3> QED
      BY <2>2, <3>1, <3>2
  <2>6. ASSUME NEW s \in Server \cap registered'
        PROVE  \/ <<"registered", s>> \in Keys(events')
               \/ Underway(s)'
    <3>1. \A k \in Part \cup {"start"} : <<k, s>> \in Flight => <<k, s>> \in Flight'
      BY <1>4, <2>4 DEF Flag, Part
    <3>2. Underway(s) => Underway(s)'
      BY <2>2, <3>1, UnderwayFrame
    <3> QED
      BY <1>1, <1>7, <1>8, <2>1, <2>2, <3>2 DEF Progress
  <2> QED
    BY <2>1, <2>3, <2>5, <2>6 DEF Progress
<1> QED
  BY <1>10, <1>11, <1>12, <1>13, <1>14 DEF LinksInv

\* The counter counts the two applications that count.
LEMMA CountIs ==
    ASSUME NEW heard \in SUBSET App, NEW a \in App
    PROVE  LET n(s) == Cardinality({b \in s : Counts(b)}) IN
           /\ n(heard) \in Nat
           /\ a \notin heard => n(heard \cup {a}) = IF Counts(a) THEN n(heard) + 1 ELSE n(heard)
           /\ a \in heard => n(heard \ {a}) = IF Counts(a) THEN n(heard) - 1 ELSE n(heard)
<1> DEFINE C(s) == {b \in s : Counts(b)}
<1>1. IsFiniteSet(C(heard))
  <2>1. IsFiniteSet({"B", "cB"})
    <3>1. IsFiniteSet({"B"} \cup {"cB"})
      BY FS_Singleton, FS_AddElement
    <3>2. {"B"} \cup {"cB"} = {"B", "cB"}
      OBVIOUS
    <3> QED
      BY <3>1, <3>2
  <2>2. C(heard) \in SUBSET {"B", "cB"}
    BY DEF Counts
  <2> QED
    BY <2>1, <2>2, FS_Subset
<1>2. ASSUME a \notin heard
      PROVE  Cardinality(C(heard \cup {a})) = IF Counts(a) THEN Cardinality(C(heard)) + 1 ELSE Cardinality(C(heard))
  <2>1. C(heard \cup {a}) = IF Counts(a) THEN C(heard) \cup {a} ELSE C(heard)
    BY DEF Counts
  <2>2. a \notin C(heard)
    BY <1>2
  <2> HIDE DEF C
  <2> QED
    BY <1>1, <2>1, <2>2, FS_AddElement
<1>3. ASSUME a \in heard
      PROVE  Cardinality(C(heard \ {a})) = IF Counts(a) THEN Cardinality(C(heard)) - 1 ELSE Cardinality(C(heard))
  <2>1. C(heard \ {a}) = IF Counts(a) THEN C(heard) \ {a} ELSE C(heard)
    BY DEF Counts
  <2>2. Counts(a) => a \in C(heard)
    BY <1>3
  <2> HIDE DEF C
  <2> QED
    BY <1>1, <2>1, <2>2, FS_RemoveElement
<1>4. Cardinality(C(heard)) \in Nat
  BY <1>1, FS_CardinalityType
<1> QED
  BY <1>2, <1>3, <1>4

LEMMA OnConnectStep == LinksInv /\ OnConnect => LinksInv'
<1> SUFFICES ASSUME LinksInv, OnConnect PROVE LinksInv'
  OBVIOUS
<1> DEFINE a == Head(events)[2]
<1>1. BluetoothTypeOK /\ Registration /\ Advertising /\ Counting /\ Progress
  BY DEF LinksInv
<1>2. /\ Handles({"connect"})
      /\ bleConnect' = IF Counts(a) THEN bleConnect + 1 ELSE bleConnect
      /\ serverConnect' = IF a = "B" THEN TRUE ELSE serverConnect
      /\ UNCHANGED <<known, configDone, asked>>
  BY DEF OnConnect, Quietly
<1>3. UNCHANGED <<registered, started, advertising, link, wiped, app>>
  BY <1>2 DEF Handles
<1>4. /\ Head(events) \in Occurrence /\ Head(events)[1] = "connect" /\ events # <<>>
      /\ events' \in Seq(Occurrence) /\ Once(events') /\ events' = Tail(events)
      /\ Keys(events) = {<<"connect", a>>} \cup Keys(events')
      /\ AllOk(events) => AllOk(events') /\ Head(events)[3]
  BY <1>1, <1>2, TakesEvent DEF Registration
<1>5. a \in App
  BY <1>4, OccurrenceForm, LinkAssumption DEF Part, Flag
<1> HIDE DEF a
<1>6. \A k : k # "connect" => \A w : <<k, w>> \in Keys(events') <=> <<k, w>> \in Keys(events)
  BY <1>4
<1>7. Keys(asked') = Keys(asked) /\ Once(asked') /\ asked' = asked
  BY <1>1, <1>2 DEF Registration
<1>8. (AdvAsked' <=> AdvAsked) /\ (Ended' <=> Ended) /\ (Fresh' <=> Fresh) /\ Told' = Told
  BY <1>3, <1>6, <1>7 DEF AdvAsked, Ended, Fresh, Told
<1>9. trouble' = trouble
  BY DEF OnConnect, Quietly
<1>10. BluetoothTypeOK'
  <2>1. bleConnect' \in Int
    BY <1>1, <1>2 DEF BluetoothTypeOK
  <2>3. serverConnect' \in BOOLEAN
    <3>1. CASE a = "B"
      BY <1>2, <3>1
    <3>2. CASE a # "B"
      <4>1. serverConnect' = serverConnect /\ serverConnect \in BOOLEAN
        BY <1>1, <1>2, <3>2 DEF BluetoothTypeOK
      <4> QED
        BY <4>1
    <3> QED
      BY <3>1, <3>2
  <2>2. trouble' \in BOOLEAN
    BY <1>1, <1>9 DEF BluetoothTypeOK
  <2> QED
    BY <1>1, <1>2, <1>3, <1>4, <1>7, <2>1, <2>2, <2>3 DEF BluetoothTypeOK
<1>11. Registration'
  BY <1>1, <1>3, <1>4, <1>6, <1>7, RegistrationFrame DEF Forward
<1>12. Advertising'
  <2>1. \A f \in Flag : f # "connect"
    BY DEF Flag
  <2> QED
    BY <1>1, <1>2, <1>3, <1>6, <1>7, <1>8, <2>1, AdvertisingFrame
<1>13. Counting'
  <2>1. PICK heard \in SUBSET App :
          /\ Hear(events, heard, Told)
          /\ serverConnect = ("B" \in heard)
          /\ bleConnect + wiped = Cardinality({b \in heard : Counts(b)})
    BY <1>1 DEF Counting
  <2>2. PICK next \in SUBSET App : Hears(heard, Head(events), next) /\ Hear(Tail(events), next, Told)
    BY <1>1, <1>4, <2>1, HearTail DEF BluetoothTypeOK
  <2>3. a \notin heard /\ next = heard \cup {a}
    BY <1>4, <2>2 DEF Hears, a
  <2>4. serverConnect' = ("B" \in next)
    <3>1. CASE a = "B"
      <4>1. ("B" \in next) = TRUE
        BY <2>3, <3>1
      <4>2. serverConnect' = TRUE
        BY <1>2, <3>1
      <4> QED
        BY <4>1, <4>2
    <3>2. CASE a # "B"
      <4>1. ("B" \in next) = ("B" \in heard)
        BY <2>3, <3>2
      <4>2. serverConnect' = serverConnect
        BY <1>2, <3>2
      <4> QED
        BY <2>1, <4>1, <4>2
    <3> QED
      BY <3>1, <3>2
  <2>5. bleConnect' + wiped' = Cardinality({b \in next : Counts(b)})
    <3>1. /\ Cardinality({b \in heard : Counts(b)}) \in Nat
          /\ Cardinality({b \in next : Counts(b)}) =
                IF Counts(a) THEN Cardinality({b \in heard : Counts(b)}) + 1
                             ELSE Cardinality({b \in heard : Counts(b)})
      BY <1>5, <2>3, CountIs
    <3> QED
      BY <1>1, <1>2, <1>3, <2>1, <3>1 DEF BluetoothTypeOK
  <2>6. Hear(events', next, Told')
    BY <1>4, <1>8, <2>2
  <2> QED
    BY <2>4, <2>5, <2>6 DEF Counting
<1>14. Progress'
  <2>1. ~trouble' => ~trouble /\ AllOk(events')
    BY <1>1, <1>4, <1>9 DEF Progress
  <2>2. configDone \subseteq Flag
    BY <1>1 DEF BluetoothTypeOK
  <2>3. \A k \in Part \cup Flag \cup {"start"}, v \in Server \cup {"gap"} : <<k, v>> \in Flight => <<k, v>> \in Flight'
    <3>1. \A k \in Part \cup Flag \cup {"start"} : k # "connect"
      BY DEF Part, Flag
    <3> QED
      BY <1>6, <1>7, <3>1 DEF Flight
  <2> QED
    BY <1>1, <1>2, <1>3, <1>6, <1>7, <1>8, <2>1, <2>2, <2>3, ProgressFrame
<1> QED
  BY <1>10, <1>11, <1>12, <1>13, <1>14 DEF LinksInv

LEMMA OnDisconnectStep == LinksInv /\ OnDisconnect => LinksInv'
<1> SUFFICES ASSUME LinksInv, OnDisconnect PROVE LinksInv'
  OBVIOUS
<1> DEFINE a == Head(events)[2]
<1>1. BluetoothTypeOK /\ Registration /\ Advertising /\ Counting /\ Progress
  BY DEF LinksInv
<1>2. /\ Handles({"disconnect"})
      /\ IF a = "A" THEN Ask(<< <<"advertise", "gap">> >>) ELSE Quietly
      /\ bleConnect' = IF Counts(a) THEN bleConnect - 1 ELSE bleConnect
      /\ serverConnect' = IF a = "B" THEN FALSE ELSE serverConnect
      /\ UNCHANGED <<known, configDone>>
  BY DEF OnDisconnect
<1>3. UNCHANGED <<registered, started, advertising, link, wiped, app>>
  BY <1>2 DEF Handles
<1>4. /\ Head(events) \in Occurrence /\ Head(events)[1] = "disconnect" /\ events # <<>>
      /\ events' \in Seq(Occurrence) /\ Once(events') /\ events' = Tail(events)
      /\ Keys(events) = {<<"disconnect", a>>} \cup Keys(events')
      /\ <<"disconnect", a>> \in Single => <<"disconnect", a>> \notin Keys(events')
      /\ AllOk(events) => AllOk(events') /\ Head(events)[3]
  BY <1>1, <1>2, TakesEvent DEF Registration
<1>5. a \in App
  BY <1>4, OccurrenceForm, LinkAssumption DEF Part, Flag
<1> HIDE DEF a
<1>6. /\ \A k : k # "disconnect" => \A w : <<k, w>> \in Keys(events') <=> <<k, w>> \in Keys(events)
      /\ \A w : w # a => (<<"disconnect", w>> \in Keys(events') <=> <<"disconnect", w>> \in Keys(events))
  BY <1>4
<1>7. a = "A" => Ended /\ ~AdvAsked /\ ~advertising /\ ~link /\ configDone = {} /\ ~Fresh /\ ~Ended'
  <2>1. <<"disconnect", "A">> \in Single
    BY DEF Single
  <2>2. a = "A" => Ended /\ ~Ended'
    BY <1>4, <2>1 DEF Ended
  <2> QED
    BY <1>1, <2>2 DEF Advertising
<1>8. /\ asked' \in Seq(Request) /\ Once(asked') /\ trouble' \in BOOLEAN /\ (trouble => trouble')
      /\ Keys(asked) \subseteq Keys(asked') /\ Keys(asked') \subseteq Keys(asked) \cup {<<"advertise", "gap">>}
      /\ a = "A" /\ ~trouble' => AdvAsked'
      /\ a # "A" => (AdvAsked' <=> AdvAsked)
  <2>1. CASE a = "A"
    <3>1. Ask(<< <<"advertise", "gap">> >>)
      BY <1>2, <2>1
    <3>2. <<"advertise", "gap">> \in Request /\ <<"advertise", "gap">> \notin Keys(asked)
      BY <1>7, <2>1 DEF Request, AdvAsked
    <3> QED
      BY <2>1, <3>1, <3>2, AskedOne DEF AdvAsked
  <2>2. CASE a # "A"
    <3>1. asked' = asked /\ trouble' = trouble /\ Once(asked)
      BY <1>1, <1>2, <2>2 DEF Quietly, Registration
    <3>2. Once(asked') /\ Keys(asked') = Keys(asked)
      BY <3>1
    <3> QED
      BY <1>1, <2>2, <3>1, <3>2 DEF BluetoothTypeOK, AdvAsked
  <2> QED
    BY <2>1, <2>2
<1>9. /\ \A k : k # "advertise" => \A w : <<k, w>> \in Keys(asked') <=> <<k, w>> \in Keys(asked)
      /\ Fresh' <=> Fresh
      /\ Told' = Told
      /\ a # "A" => (Ended' <=> Ended)
  BY <1>3, <1>6, <1>8 DEF Fresh, Told, Ended
<1>15. \A k \in Part \cup Flag \cup {"start"} : k # "disconnect" /\ k # "advertise"
  BY DEF Part, Flag
<1>10. BluetoothTypeOK'
  <2>1. bleConnect' \in Int
    BY <1>1, <1>2 DEF BluetoothTypeOK
  <2>3. serverConnect' \in BOOLEAN
    <3>1. CASE a = "B"
      BY <1>2, <3>1
    <3>2. CASE a # "B"
      <4>1. serverConnect' = serverConnect /\ serverConnect \in BOOLEAN
        BY <1>1, <1>2, <3>2 DEF BluetoothTypeOK
      <4> QED
        BY <4>1
    <3> QED
      BY <3>1, <3>2
  <2> QED
    BY <1>1, <1>2, <1>3, <1>4, <1>8, <2>1, <2>3 DEF BluetoothTypeOK
<1>11. Registration'
  BY <1>1, <1>3, <1>4, <1>6, <1>8, <1>9, RegistrationFrame DEF Forward
<1>12. Advertising'
  <2>1. \A f \in Flag : /\ <<f, "gap">> \in Keys(asked') <=> <<f, "gap">> \in Keys(asked)
                        /\ <<f, "gap">> \in Keys(events') <=> <<f, "gap">> \in Keys(events)
    BY <1>6, <1>9, <1>15
  <2>2. configDone' = configDone /\ advertising' = advertising /\ link' = link
    BY <1>2, <1>3
  <2>3. CASE a = "A"
    BY <1>1, <1>7, <1>9, <2>1, <2>2, <2>3 DEF Advertising
  <2>4. CASE a # "A"
    BY <1>1, <1>8, <1>9, <2>1, <2>2, <2>4, AdvertisingFrame
  <2> QED
    BY <2>3, <2>4
<1>13. Counting'
  <2>1. PICK heard \in SUBSET App :
          /\ Hear(events, heard, Told)
          /\ serverConnect = ("B" \in heard)
          /\ bleConnect + wiped = Cardinality({b \in heard : Counts(b)})
    BY <1>1 DEF Counting
  <2>2. PICK next \in SUBSET App : Hears(heard, Head(events), next) /\ Hear(Tail(events), next, Told)
    BY <1>1, <1>4, <2>1, HearTail DEF BluetoothTypeOK
  <2>3. a \in heard /\ next = heard \ {a}
    BY <1>4, <2>2 DEF Hears, a
  <2>4. serverConnect' = ("B" \in next)
    <3>1. CASE a = "B"
      <4>1. ("B" \in next) = FALSE
        BY <2>3, <3>1
      <4>2. serverConnect' = FALSE
        BY <1>2, <3>1
      <4> QED
        BY <4>1, <4>2
    <3>2. CASE a # "B"
      <4>1. ("B" \in next) = ("B" \in heard)
        BY <2>3, <3>2
      <4>2. serverConnect' = serverConnect
        BY <1>2, <3>2
      <4> QED
        BY <2>1, <4>1, <4>2
    <3> QED
      BY <3>1, <3>2
  <2>5. bleConnect' + wiped' = Cardinality({b \in next : Counts(b)})
    <3>1. /\ Cardinality({b \in heard : Counts(b)}) \in Nat
          /\ Cardinality({b \in next : Counts(b)}) =
                IF Counts(a) THEN Cardinality({b \in heard : Counts(b)}) - 1
                             ELSE Cardinality({b \in heard : Counts(b)})
      BY <1>5, <2>3, CountIs
    <3> QED
      BY <1>1, <1>2, <1>3, <2>1, <3>1 DEF BluetoothTypeOK
  <2>6. Hear(events', next, Told')
    BY <1>4, <1>9, <2>2
  <2> QED
    BY <2>4, <2>5, <2>6 DEF Counting
<1>14. Progress'
  <2> SUFFICES ASSUME ~trouble' PROVE Progress'
    BY DEF Progress
  <2>1. ~trouble /\ AllOk(events')
    BY <1>1, <1>4, <1>8 DEF Progress
  <2>2. registered' = registered /\ started' = started /\ known' = known /\ configDone' = configDone
        /\ advertising' = advertising /\ link' = link
    BY <1>2, <1>3
  <2>3. \A b \in App : At(app') > At(b) => b \in registered' \/ <<"register", b>> \in Keys(asked')
    BY <1>1, <1>3, <1>8, <2>1 DEF Progress
  <2>4. \A k \in Part \cup Flag \cup {"start"} : \A w : <<k, w>> \in Flight => <<k, w>> \in Flight'
    BY <1>6, <1>9, <1>15 DEF Flight
  <2>5. "A" \in registered' =>
          \/ <<"registered", "A">> \in Keys(events')
          \/ configDone' # {} /\ \A g \in configDone' : <<g, "gap">> \in Flight'
          \/ AdvAsked' \/ advertising' \/ link' \/ Ended'
    <3>1. CASE a = "A"
      BY <1>8, <2>1, <3>1
    <3>2. CASE a # "A"
      <4>1. configDone \subseteq Flag
        BY <1>1 DEF BluetoothTypeOK
      <4> QED
        BY <1>1, <1>6, <1>8, <1>9, <2>1, <2>2, <2>4, <3>2, <4>1 DEF Progress
    <3> QED
      BY <3>1, <3>2
  <2>6. ASSUME NEW s \in Server \cap registered'
        PROVE  \/ <<"registered", s>> \in Keys(events')
               \/ Underway(s)'
    <3>1. Underway(s) => Underway(s)'
      BY <2>2, <2>4, UnderwayFrame
    <3> QED
      BY <1>1, <1>6, <2>1, <2>2, <3>1 DEF Progress
  <2> QED
    BY <2>1, <2>3, <2>5, <2>6 DEF Progress
<1> QED
  BY <1>10, <1>11, <1>12, <1>13, <1>14 DEF LinksInv

-----------------------------------------------------------------------------
(***************************************************************************)
(* The rest of the gateway, and the theorems about Bluetooth.              *)
(***************************************************************************)

LEMMA SameApp ==
    ASSUME LinksInv, UNCHANGED app
    PROVE  app' \in Step /\ Forward /\ \A a \in App : At(app') > At(a) => At(app) > At(a)
BY DEF LinksInv, BluetoothTypeOK, Forward

LEMMA UploadsApp ==
    UploadNext => UNCHANGED app \/ Does("tasks") \/ Does("mqtt") \/ Does("scan")
<1>1. StartTasks \/ StartScanTask => Does("tasks") \/ Does("scan")
  BY DEF StartTasks, StartScanTask
<1>2. Mqtt => UNCHANGED app \/ Does("mqtt")
  BY DEF Mqtt, MqttAppStart, DestroyClient, ReplaceClient, FlagChanges
<1>3. Radio => UNCHANGED app
  BY DEF Radio, StartScan, ScanEnds, ResultIgnored, ResultQueued
<1>4. TranspondTask => UNCHANGED app
  BY DEF TranspondTask, CreateScanQueue, ReceiveResult, TakeClient, Send2Cloud, FreeResult
<1> QED
  BY <1>1, <1>2, <1>3, <1>4 DEF UploadNext

LEMMA UploadsStep == LinksInv /\ UploadNext /\ UNCHANGED bluetoothVars => LinksInv'
<1> SUFFICES ASSUME LinksInv, UploadNext, UNCHANGED bluetoothVars PROVE LinksInv'
  OBVIOUS
<1>1. UNCHANGED <<stackVars, known, configDone, serverConnect, bleConnect, wiped>>
  BY DEF bluetoothVars, countVars
<1>2. trouble' = trouble
  BY DEF bluetoothVars
<1>3. app' \in Step /\ Forward /\ \A a \in App : At(app') > At(a) => At(app) > At(a)
  <2>1. CASE UNCHANGED app
    BY <2>1, SameApp
  <2>2. ASSUME NEW step \in {"tasks", "mqtt", "scan"}, Does(step)
        PROVE  app' \in Step /\ Forward /\ \A a \in App : At(app') > At(a) => At(app) > At(a)
    <3>1. app = step /\ app' \in Step /\ At(app') = At(step) + 1
      BY <2>2, DoesNext, Places
    <3> QED
      BY <2>2, <3>1, Places DEF Forward, App, Server
  <2> QED
    BY <2>1, <2>2, UploadsApp
<1> QED
  BY <1>1, <1>2, <1>3, LinksForward

LEMMA LinksStutter == LinksInv /\ UNCHANGED <<app, bluetoothVars>> => LinksInv'
<1> SUFFICES ASSUME LinksInv, UNCHANGED <<app, bluetoothVars>> PROVE LinksInv'
  OBVIOUS
<1>1. UNCHANGED <<stackVars, known, configDone, serverConnect, bleConnect, wiped>>
  BY DEF bluetoothVars, countVars
<1>2. trouble' = trouble
  BY DEF bluetoothVars
<1> QED
  BY <1>1, <1>2, SameApp, LinksForward

LEMMA TextsApp == TextNext => UNCHANGED app
BY DEF TextNext, Done, Serve

LEMMA NewsHonest ==
    ASSUME NEW kind \in {"connect", "disconnect"}, NEW told
    PROVE  LinkEvents(kind, told) \in Seq(Honest)
<1> DEFINE n == LinkEvents(kind, told)
<1>1. n \in Seq(Occurrence) /\ Keys(n) = {<<kind, a>> : a \in told \cap LinkApps}
  BY LinkEventsFacts
<1> HIDE DEF n
<1>2. Len(n) \in Nat /\ DOMAIN n = 1..Len(n)
  BY <1>1
<1>3. ASSUME NEW i \in 1..Len(n) PROVE n[i] \in Honest
  <2>1. n[i] \in Occurrence /\ Key(n[i]) \in Keys(n)
    BY <1>1, <1>2 DEF Keys
  <2>2. n[i][1] = kind
    BY <1>1, <2>1 DEF Key
  <2> QED
    BY <2>1, <2>2 DEF Honest
<1>4. n \in Seq(Honest)
  BY <1>1, <1>2, <1>3
<1> QED
  BY <1>4 DEF n

\* Nothing but a restart makes the stack forget an application.
LEMMA ConfirmedFrame ==
    ASSUME Confirmed, registered' = registered,
           \/ events' = events
           \/ events # <<>> /\ events' = Tail(events)
           \/ \E e \in Occurrence : e[1] # "registered" /\ events' = Append(events, e)
           \/ \E kind \in {"connect", "disconnect"} : events' = events \o LinkEvents(kind, registered)
    PROVE  Confirmed'
<1> DEFINE H == Honest'
<1>1. H = Honest
  BY DEF Honest
<1> HIDE DEF H
<1>2. events \in Seq(H)
  BY <1>1 DEF Confirmed
<1>3. ASSUME events' = events PROVE events' \in Seq(H)
  BY <1>2, <1>3
<1>4. ASSUME events # <<>>, events' = Tail(events) PROVE events' \in Seq(H)
  BY <1>2, <1>4
<1>5. ASSUME NEW e \in Occurrence, e[1] # "registered", events' = Append(events, e)
      PROVE  events' \in Seq(H)
  <2>1. e \in H
    BY <1>1, <1>5 DEF Honest
  <2> QED
    BY <1>2, <1>5, <2>1
<1>6. ASSUME NEW kind \in {"connect", "disconnect"}, events' = events \o LinkEvents(kind, registered)
      PROVE  events' \in Seq(H)
  <2>1. LinkEvents(kind, registered) \in Seq(H)
    BY <1>1, NewsHonest
  <2> QED
    BY <1>2, <1>6, <2>1
<1>7. events' \in Seq(H)
  BY <1>3, <1>4, <1>5, <1>6
<1> QED
  BY <1>7 DEF Confirmed, H

LEMMA RegistersConfirmed ==
    ASSUME LinksInv, Confirmed, NEW ok \in BOOLEAN, Registers(ok)
    PROVE  Confirmed'
<1> DEFINE H == Honest'
           a == Head(asked)[2]
           e == <<"registered", a, ok>>
           n == IF ok /\ link THEN LinkEvents("connect", {a}) ELSE <<>>
<1>1. /\ registered' = IF ok THEN registered \cup {a} ELSE registered
      /\ events' = Append(events, e) \o n /\ Answers({"register"}, ok)
  BY DEF Registers, Event
<1>2. e \in Occurrence
  <2>1. Head(asked) \in Request /\ Head(asked)[1] = "register"
    BY <1>1, TakesRequest DEF LinksInv, Registration
  <2>2. a \in App
    BY <2>1, RequestForm DEF Part, Flag
  <2> QED
    BY <2>2 DEF Occurrence
<1>3. Honest \subseteq H
  BY <1>1 DEF Honest
<1>4. e \in H
  BY <1>1, <1>2 DEF Honest
<1>5. n \in Seq(Honest)
  <2>1. CASE ok /\ link
    BY <2>1, NewsHonest
  <2>2. CASE ~(ok /\ link)
    BY <2>2
  <2> QED
    BY <2>1, <2>2
<1> HIDE DEF H, e, n
<1>6. \A s \in Seq(Honest) : s \in Seq(H)
  BY <1>3
<1>7. events \in Seq(H) /\ n \in Seq(H)
  BY <1>5, <1>6 DEF Confirmed
<1>8. events' \in Seq(H)
  BY <1>1, <1>4, <1>7
<1> QED
  BY <1>8 DEF Confirmed, H

\* The inductive invariant.
BluetoothInv == LinksInv /\ Confirmed

LEMMA BluetoothStart == BluetoothInit /\ app = "stack" => BluetoothInv
<1> SUFFICES ASSUME BluetoothInit, app = "stack" PROVE BluetoothInv
  OBVIOUS
<1>1. events = <<>>
  BY DEF BluetoothInit
<1>2. Confirmed
  BY <1>1 DEF Confirmed
<1> QED
  BY <1>2, LinksStart DEF BluetoothInv

LEMMA BluetoothRestart == BluetoothReset /\ app' = "stack" => BluetoothInv'
<1>1. (BluetoothInit /\ app = "stack")' => BluetoothInv'
  BY BluetoothStart, PTL
<1>2. BluetoothReset /\ app' = "stack" => (BluetoothInit /\ app = "stack")'
  BY DEF BluetoothReset, BluetoothInit
<1> QED
  BY <1>1, <1>2

LEMMA StackConfirmed ==
    ASSUME BluetoothInv, Stack \/ LinkUp \/ LinkDown
    PROVE  Confirmed'
<1>1. LinksInv /\ Confirmed /\ asked \in Seq(Request) /\ Once(asked)
  BY DEF BluetoothInv, LinksInv, BluetoothTypeOK, Registration
<1>2. ASSUME NEW ok \in BOOLEAN, Registers(ok) PROVE Confirmed'
  BY <1>1, <1>2, RegistersConfirmed
<1>3. ASSUME NEW ok \in BOOLEAN, Builds(ok) PROVE Confirmed'
  <2> DEFINE e == <<Head(asked)[1], Head(asked)[2], ok>>
  <2>1. /\ Answers({"create", "char", "descr"}, ok)
        /\ events' = Append(events, e) /\ registered' = registered
    BY <1>3 DEF Builds, Event
  <2>2. Head(asked) \in Request /\ Head(asked)[1] \in Part
    BY <1>1, <2>1, TakesRequest DEF LinksInv, Part
  <2>3. Head(asked)[2] \in Server /\ "register" \notin Part /\ "registered" \notin Part
        /\ Part \cap (Flag \cup {"start", "scanParams", "advertise"}) = {}
    BY <2>2, RequestForm DEF Part, Flag
  <2>4. e \in Occurrence /\ e[1] # "registered"
    BY <2>2, <2>3 DEF Occurrence
  <2> HIDE DEF e
  <2> QED
    BY <1>1, <2>1, <2>4, ConfirmedFrame
<1>4. ASSUME Configures PROVE Confirmed'
  <2> DEFINE e == <<Head(asked)[1], "gap", TRUE>>
  <2>1. /\ Answers({"advData", "scanRsp"}, TRUE)
        /\ events' = Append(events, e) /\ registered' = registered
    BY <1>4 DEF Configures, Event
  <2>2. Head(asked)[1] \in Flag
    BY <1>1, <2>1, TakesRequest DEF LinksInv, Flag
  <2>3. e \in Occurrence /\ e[1] # "registered"
    BY <2>2 DEF Occurrence, Flag
  <2> HIDE DEF e
  <2> QED
    BY <1>1, <2>1, <2>3, ConfirmedFrame
<1>5. ASSUME NEW ok \in BOOLEAN, SetsScanParams(ok) \/ Starts(ok) \/ Advertises(ok) PROVE Confirmed'
  <2>1. events' = events /\ registered' = registered
    BY <1>5 DEF SetsScanParams, Starts, Advertises
  <2> QED
    BY <1>1, <2>1, ConfirmedFrame
<1>6. ASSUME LinkUp \/ LinkDown PROVE Confirmed'
  <2>1. /\ registered' = registered
        /\ \E kind \in {"connect", "disconnect"} : events' = events \o LinkEvents(kind, registered)
    BY <1>6 DEF LinkUp, LinkDown
  <2> QED
    BY <1>1, <2>1, ConfirmedFrame
<1> QED
  BY <1>2, <1>3, <1>4, <1>5, <1>6 DEF Stack

LEMMA BluetoothStep == BluetoothInv /\ BluetoothNext => BluetoothInv'
<1> SUFFICES ASSUME BluetoothInv, BluetoothNext PROVE BluetoothInv'
  OBVIOUS
<1>1. LinksInv /\ Confirmed
  BY DEF BluetoothInv
<1>2. CASE InitBle
  <2>1. LinksInv'
    BY <1>1, <1>2, StartStackStep, RegisterStep, ResetCountStep DEF InitBle
  <2>2. events' = events /\ registered' = registered
    BY <1>2 DEF InitBle, StartStack, Register, ResetCount, stackVars
  <2> QED
    BY <1>1, <2>1, <2>2, ConfirmedFrame DEF BluetoothInv
<1>3. CASE Stack \/ LinkUp \/ LinkDown
  <2>1. LinksInv'
    BY <1>1, <1>3, ConfiguresStep, RegistersStep, BuildsStep, SetsScanParamsStep, StartsStep, AdvertisesStep,
       LinkUpStep, LinkDownStep DEF Stack
  <2> QED
    BY <1>3, <2>1, StackConfirmed DEF BluetoothInv
<1>4. CASE Callback
  <2>1. LinksInv'
    BY <1>1, <1>4, OnRegisteredStep, OnBuiltStep, OnConfiguredStep, OnConnectStep, OnDisconnectStep
       DEF Callback
  <2>2. events # <<>> /\ events' = Tail(events) /\ registered' = registered
    BY <1>4 DEF Callback, OnRegistered, OnBuilt, OnConfigured, OnConnect, OnDisconnect, Handles
  <2> QED
    BY <1>1, <2>1, <2>2, ConfirmedFrame DEF BluetoothInv
<1> QED
  BY <1>2, <1>3, <1>4 DEF BluetoothNext

LEMMA BluetoothKept == BluetoothInv /\ [GatewayNext]_gatewayVars => BluetoothInv'
<1> SUFFICES ASSUME BluetoothInv, [GatewayNext]_gatewayVars PROVE BluetoothInv'
  OBVIOUS
<1>1. CASE Links
  BY <1>1, BluetoothStep DEF Links
<1>2. CASE Uploads
  <2>1. LinksInv' /\ events' = events /\ registered' = registered
    BY <1>2, UploadsStep DEF Uploads, BluetoothInv, bluetoothVars, stackVars
  <2> QED
    BY <2>1, ConfirmedFrame DEF BluetoothInv
<1>3. CASE Texts \/ UNCHANGED gatewayVars
  <2>1. UNCHANGED <<app, bluetoothVars>>
    BY <1>3, TextsApp DEF Texts, gatewayVars
  <2>2. LinksInv' /\ events' = events /\ registered' = registered
    BY <2>1, LinksStutter DEF BluetoothInv, bluetoothVars, stackVars
  <2> QED
    BY <2>2, ConfirmedFrame DEF BluetoothInv
<1>4. CASE Restart
  BY <1>4, BluetoothRestart DEF Restart, Goto
<1> QED
  BY <1>1, <1>2, <1>3, <1>4 DEF GatewayNext

LEMMA LinksTruth == BluetoothInv => ConnectionTruth
<1> SUFFICES ASSUME BluetoothInv PROVE ConnectionTruth
  OBVIOUS
<1>1. LinksInv
  BY DEF BluetoothInv
<1>2. advertising => ~link
  BY <1>1 DEF LinksInv, Advertising
<1>3. ASSUME Quiet
      PROVE  serverConnect = ("B" \in Told) /\ bleConnect + wiped = Cardinality({a \in Told : Counts(a)})
  <2>1. PICK heard \in SUBSET App :
          /\ Hear(events, heard, Told)
          /\ serverConnect = ("B" \in heard)
          /\ bleConnect + wiped = Cardinality({b \in heard : Counts(b)})
    BY <1>1 DEF LinksInv, Counting
  <2>2. heard = Told
    BY <1>3, <2>1 DEF Hear, Quiet
  <2> QED
    BY <2>1, <2>2
<1> QED
  BY <1>2, <1>3 DEF ConnectionTruth, Told

LEMMA LinksComplete == BluetoothInv => NothingHangs
<1> SUFFICES ASSUME BluetoothInv, ~trouble, Quiet, Past("B") PROVE Available
  BY DEF NothingHangs
<1>1. Progress /\ app \in Step /\ Keys(asked) = {} /\ Keys(events) = {} /\ ~AdvAsked /\ ~Ended
  BY KeysSmall DEF BluetoothInv, LinksInv, BluetoothTypeOK, Quiet, AdvAsked, Ended
<1>2. \A s \in Server : At(app) > At(s) /\ s \in App
  BY <1>1, Places DEF Past, Server, App
<1>3. \A s \in Server : s \in registered
  BY <1>1, <1>2 DEF Progress
<1>4. advertising \/ link
  BY <1>1, <1>3 DEF Progress, Flight, Server
<1>5. \A s \in Server : Underway(s)
  BY <1>1, <1>3 DEF Progress
<1>6. \A s \in Server : known[s] = Part /\ s \in started
  BY <1>1, <1>5 DEF Underway, Flight
<1> QED
  BY <1>4, <1>6 DEF Available, Part

\* In every behaviour of the gateway it does not advertise while a client is connected,
\* and whenever no report is outstanding the count of connections and serverConnect agree
\* with the link, but for what init_ble wiped out: the handlers of both profiles, for
\* every choice of the applications that are told of a link.
THEOREM ConnectionsTold == GatewaySpec => []ConnectionTruth
<1>1. GatewayInit => BluetoothInv
  BY BluetoothStart DEF GatewayInit
<1>2. BluetoothInv => ConnectionTruth
  BY LinksTruth
<1> QED
  BY <1>1, <1>2, BluetoothKept, PTL DEF GatewaySpec

\* In every behaviour of the gateway, if no call has failed and nothing is outstanding
\* after init_ble has started both servers, the gateway advertises or has a client, and
\* both services are complete and started: no handler drops the thread of requests and
\* answers.
THEOREM StartsUp == GatewaySpec => []NothingHangs
<1>1. GatewayInit => BluetoothInv
  BY BluetoothStart DEF GatewayInit
<1>2. BluetoothInv => NothingHangs
  BY LinksComplete
<1> QED
  BY <1>1, <1>2, BluetoothKept, PTL DEF GatewaySpec

-----------------------------------------------------------------------------
(***************************************************************************)
(* Texts: places of characters in them, and what they are cut into.        *)
(***************************************************************************)
\* Least and greatest elements, as Min and Max choose them.
LEMMA LeastNatural ==
    ASSUME NEW T, T \subseteq Nat, T # {}
    PROVE  Min(T) \in T /\ \A k \in T : Min(T) <= k
<1>1. PICK m \in T : \A k \in T : <<k, m>> \notin OpToRel(<, Nat)
  BY WFMin, NatLessThanWellFounded, Zenon
<1>2. \A k \in T : k \in Nat /\ m \in Nat /\ ~(k < m)
  BY <1>1 DEF OpToRel
<1>3. \E x \in T : \A k \in T : x <= k
  BY <1>2
<1> QED
  BY <1>3 DEF Min

LEMMA Greatest ==
    ASSUME NEW T, NEW m \in T, T \subseteq Nat, \A k \in T : k <= m
    PROVE  Max(T) = m
<1>1. \E x \in T : \A k \in T : x >= k
  OBVIOUS
<1>2. Max(T) \in T /\ \A k \in T : Max(T) >= k
  BY <1>1 DEF Max
<1>3. Max(T) \in Nat /\ m \in Nat /\ Max(T) <= m /\ Max(T) >= m
  BY <1>2
<1> QED
  BY <1>3

\* strchr: the first place of a character, or none.
LEMMA PlaceFound ==
    ASSUME NEW char, NEW text, Len(text) \in Nat, Contains(text, char)
    PROVE  /\ Place(char, text) \in 1..Len(text) /\ text[Place(char, text)] = char
           /\ \A i \in 1..Len(text) : text[i] = char => Place(char, text) <= i
<1> DEFINE T == {i \in 1..Len(text) : text[i] = char}
<1>1. T # {} /\ T \subseteq Nat
  BY DEF Contains
<1>2. Place(char, text) = Min(T)
  BY <1>1 DEF Place, SelectInSeq
<1>3. Min(T) \in T /\ \A k \in T : Min(T) <= k
  <2> HIDE DEF T
  <2> QED
    BY <1>1, LeastNatural
<1> QED
  BY <1>2, <1>3

LEMMA PlaceIs ==
    ASSUME NEW char, NEW text, Len(text) \in Nat,
           NEW n \in 1..Len(text), text[n] = char, \A i \in 1..(n - 1) : text[i] # char
    PROVE  Place(char, text) = n
<1>1. Contains(text, char)
  BY DEF Contains
<1>2. /\ Place(char, text) \in 1..Len(text) /\ text[Place(char, text)] = char
      /\ Place(char, text) <= n
  BY <1>1, PlaceFound
<1> QED
  BY <1>2

LEMMA PlaceNone ==
    ASSUME NEW char, NEW text, ~Contains(text, char)
    PROVE  Place(char, text) = Len(text) + 1
BY DEF Place

\* What two texts in a row are cut into.
LEMMA Pieces ==
    ASSUME NEW S, NEW s \in Seq(S), NEW t \in Seq(S)
    PROVE  /\ UpTo(s \o t, Len(s)) = s
           /\ From(s \o t, Len(s) + 1) = t
<1>1. /\ s \o t \in Seq(S) /\ Len(s) \in Nat /\ Len(t) \in Nat /\ Len(s \o t) = Len(s) + Len(t)
      /\ \A i \in 1..Len(s) : (s \o t)[i] = s[i]
      /\ \A i \in 1..Len(t) : (s \o t)[Len(s) + i] = t[i]
  OBVIOUS
<1> DEFINE u == s \o t
<1> HIDE DEF u
<1>2. SubSeq(u, 1, Len(s)) = s
  BY <1>1 DEF u
<1>3. SubSeq(u, Len(s) + 1, Len(s) + Len(t)) = t
  BY <1>1 DEF u
<1> QED
  BY <1>1, <1>2, <1>3 DEF UpTo, From, u

\* What the memory behind a body may hold.
Memory == Chars \cup {NUL}

LEMMA TextFacts ==
    /\ "@" \in Chars /\ ":" \in Chars /\ IsText(Scheme) /\ IsText(<<>>) /\ Len(Scheme) = 7
    /\ \A s, t : IsText(s) /\ IsText(t) => IsText(s \o t) /\ Len(s \o t) = Len(s) + Len(t)
    /\ \A s : IsText(s) => s \in Seq(Memory) /\ Len(s) \in Nat /\ ~Contains(s, NUL)
<1>1. "@" \in Chars /\ ":" \in Chars /\ "m" \in Chars /\ "q" \in Chars /\ "t" \in Chars /\ "/" \in Chars
      /\ NUL \notin Chars
  BY TextAssumption
<1>2. IsText(Scheme) /\ Len(Scheme) = 7
  BY <1>1 DEF Scheme, IsText
<1>3. \A s, t : IsText(s) /\ IsText(t) => IsText(s \o t) /\ Len(s \o t) = Len(s) + Len(t)
  BY DEF IsText
<1>4. \A s : IsText(s) => s \in Seq(Memory) /\ Len(s) \in Nat /\ ~Contains(s, NUL)
  BY <1>1 DEF IsText, Memory, Contains
<1>5. IsText(<<>>)
  BY DEF IsText
<1> QED
  BY <1>1, <1>2, <1>3, <1>4, <1>5

\* A separator behind a text that does not have it.
LEMMA Separated ==
    ASSUME NEW S, NEW s \in Seq(S), NEW t \in Seq(S), NEW c \in S
    PROVE  /\ s \o <<c>> \o t \in Seq(S) /\ Len(s \o <<c>> \o t) = Len(s) + 1 + Len(t)
           /\ (s \o <<c>> \o t)[Len(s) + 1] = c
           /\ \A i \in 1..Len(s) : (s \o <<c>> \o t)[i] = s[i]
           /\ UpTo(s \o <<c>> \o t, Len(s)) = s
           /\ From(s \o <<c>> \o t, Len(s) + 2) = t
           /\ ~Contains(s, c) => Place(c, s \o <<c>> \o t) = Len(s) + 1
           /\ Contains(s, c) => Place(c, s \o <<c>> \o t) \in 1..Len(s)
<1> DEFINE h == s \o <<c>>
           u == s \o <<c>> \o t
<1>1. h \in Seq(S) /\ Len(h) = Len(s) + 1 /\ h[Len(s) + 1] = c /\ Len(s) \in Nat /\ Len(t) \in Nat
      /\ \A i \in 1..Len(s) : h[i] = s[i]
  OBVIOUS
<1>2. u = h \o t
  OBVIOUS
<1> HIDE DEF h
<1>3. u \in Seq(S) /\ Len(u) = Len(s) + 1 + Len(t)
      /\ \A i \in 1..(Len(s) + 1) : u[i] = h[i]
  BY <1>1, <1>2
<1>4. From(u, Len(s) + 2) = t
  <2>1. From(h \o t, Len(h) + 1) = t
    BY <1>1, Pieces
  <2>2. Len(h) + 1 = Len(s) + 2
    BY <1>1
  <2> QED
    BY <1>2, <2>1, <2>2
<1>5. UpTo(u, Len(s)) = s
  <2>1. u = s \o (<<c>> \o t) /\ <<c>> \o t \in Seq(S)
    OBVIOUS
  <2> HIDE DEF u
  <2> DEFINE v == <<c>> \o t
  <2>2. u = s \o v /\ v \in Seq(S)
    BY <2>1
  <2> HIDE DEF v
  <2> QED
    BY <2>2, Pieces
<1>6. u[Len(s) + 1] = c /\ \A i \in 1..Len(s) : u[i] = s[i]
  BY <1>1, <1>3
<1> HIDE DEF u
<1>7. ASSUME ~Contains(s, c) PROVE Place(c, u) = Len(s) + 1
  <2>1. \A i \in 1..Len(s) : u[i] # c
    BY <1>6, <1>7 DEF Contains
  <2>2. Len(u) \in Nat /\ Len(s) + 1 \in 1..Len(u) /\ Len(s) = (Len(s) + 1) - 1
    BY <1>1, <1>3
  <2>3. \A i \in 1..((Len(s) + 1) - 1) : u[i] # c
    BY <2>1, <2>2
  <2> DEFINE n == Len(s) + 1
  <2>4. n \in 1..Len(u) /\ u[n] = c /\ \A i \in 1..(n - 1) : u[i] # c
    BY <1>6, <2>2, <2>3
  <2> HIDE DEF n
  <2>5. Place(c, u) = n
    BY <2>2, <2>4, PlaceIs
  <2> QED
    BY <2>5 DEF n
<1>8. ASSUME Contains(s, c) PROVE Place(c, u) \in 1..Len(s)
  <2>1. PICK i \in 1..Len(s) : u[i] = c
    BY <1>6, <1>8 DEF Contains
  <2>2. Contains(u, c) /\ i \in 1..Len(u)
    BY <1>1, <1>3, <2>1 DEF Contains
  <2>3. Len(u) \in Nat
    BY <1>1, <1>3
  <2>4. Place(c, u) \in 1..Len(u) /\ Place(c, u) <= i
    BY <2>1, <2>2, <2>3, PlaceFound
  <2> QED
    BY <1>1, <2>1, <2>4
<1> QED
  BY <1>3, <1>4, <1>5, <1>6, <1>7, <1>8 DEF u

\* Memory that begins with a text and has a zero behind it is that text, as a string.
\* A text with its terminator is a string.
LEMMA StringIs == ASSUME NEW t, IsText(t) PROVE CString(t \o <<NUL>>) = t
<1> DEFINE e == <<>>
           u == t \o <<NUL>> \o e
<1>1. t \in Seq(Memory) /\ NUL \in Memory /\ ~Contains(t, NUL) /\ e \in Seq(Memory) /\ Len(t) \in Nat
  BY TextFacts DEF Memory
<1>2. t \o <<NUL>> = u
  BY <1>1
<1> HIDE DEF e
<1>3. Place(NUL, t \o <<NUL>> \o e) = Len(t) + 1 /\ UpTo(t \o <<NUL>> \o e, Len(t)) = t
  BY <1>1, Separated
<1>4. Place(NUL, u) = Len(t) + 1 /\ UpTo(u, Len(t)) = t
  BY <1>3
<1> HIDE DEF u
<1>5. (Len(t) + 1) - 1 = Len(t)
  BY <1>1
<1> QED
  BY <1>2, <1>4, <1>5 DEF CString

\* The start of a text.
LEMMA Start ==
    ASSUME NEW S, NEW s \in Seq(S), NEW n \in 0..Len(s)
    PROVE  UpTo(s, n) \in Seq(S) /\ Len(UpTo(s, n)) = n /\ \A i \in 1..n : UpTo(s, n)[i] = s[i]
BY DEF UpTo

\* No result that a handler is to have is one of the others.
LEMMA NotOverflow ==
    /\ \A a, b : Overflow # [ssid |-> a, password |-> b]
    /\ \A a : Overflow # [uri |-> a]
    /\ \A a, b : Overflow # [topic |-> a, qos |-> b]
    /\ \A a : Overflow # [message |-> a] /\ Nothing # [message |-> a] /\ Overflow # Nothing
<1>1. DOMAIN Overflow = {"overflow"} /\ DOMAIN Nothing = {"op"}
  BY DEF Overflow, Nothing
<1>2. /\ \A a, b : DOMAIN [ssid |-> a, password |-> b] = {"ssid", "password"}
      /\ \A a : DOMAIN [uri |-> a] = {"uri"}
      /\ \A a, b : DOMAIN [topic |-> a, qos |-> b] = {"topic", "qos"}
      /\ \A a : DOMAIN [message |-> a] = {"message"}
  OBVIOUS
<1>3. "ssid" # "overflow" /\ "uri" # "overflow" /\ "topic" # "overflow" /\ "message" # "overflow"
      /\ "message" # "op" /\ "overflow" # "op"
  OBVIOUS
<1> QED
  BY <1>1, <1>2, <1>3

LEMMA Terminated ==
    ASSUME NEW S, NEW t \in Seq(S), NEW e \in Seq(S), NEW z \in Seq(S)
    PROVE  /\ t \o e \o z \in Seq(S) /\ Len(t \o e \o z) >= Len(t) /\ Len(t \o e \o z) \in Nat
           /\ UpTo(t \o e \o z, Len(t)) = t
<1> DEFINE v == e \o z
<1>1. v \in Seq(S) /\ t \o e \o z = t \o v
  OBVIOUS
<1> HIDE DEF v
<1>2. t \o v \in Seq(S) /\ Len(t \o v) = Len(t) + Len(v) /\ Len(v) \in Nat /\ Len(t) \in Nat
  BY <1>1
<1>3. UpTo(t \o v, Len(t)) = t
  BY <1>1, Pieces
<1> QED
  BY <1>1, <1>2, <1>3

\* The memory of a body in two parts with a separator between them.
Body(s, c, p, e, text, value) ==
    /\ IsText(s) /\ c \in Chars /\ IsText(p) /\ IsText(e)
    /\ text = s \o <<c>> \o p /\ value = text \o e \o <<NUL>>
LEMMA TwoParts ==
    ASSUME NEW s, NEW c, NEW p, NEW e, NEW text, NEW value, Body(s, c, p, e, text, value)
    PROVE  /\ IsText(text) /\ Len(text) = Len(s) + 1 + Len(p)
           /\ value \in Seq(Memory) /\ Len(value) >= Len(text) /\ Len(value) \in Nat
           /\ UpTo(value, Len(text)) = text /\ UpTo(value, Len(s)) = s
           /\ From(value, Len(s) + 2) = p \o e \o <<NUL>>
           /\ CString(value) = text \o e
           /\ ~Contains(s, c) => Place(c, text) = Len(s) + 1
           /\ Contains(s, c) => Place(c, text) \in 1..Len(s)
<1> DEFINE z == <<NUL>>
           m == <<c>>
           h == s \o m
           t == h \o p
           tail == p \o e \o z
           v == t \o e \o z
<1>0. IsText(s) /\ c \in Chars /\ IsText(p) /\ IsText(e)
  BY DEF Body
<1>1. s \in Seq(Chars) /\ p \in Seq(Chars) /\ Len(s) \in Nat /\ Len(p) \in Nat /\ IsText(t)
  BY <1>0 DEF IsText
<1>2. /\ Len(t) = Len(s) + 1 + Len(p)
      /\ ~Contains(s, c) => Place(c, t) = Len(s) + 1
      /\ Contains(s, c) => Place(c, t) \in 1..Len(s)
  BY <1>0, <1>1, Separated
<1>3. /\ s \in Seq(Memory) /\ p \in Seq(Memory) /\ e \in Seq(Memory) /\ t \in Seq(Memory)
      /\ z \in Seq(Memory) /\ m \in Seq(Memory) /\ c \in Memory
  BY <1>0, <1>1, TextFacts DEF Memory
<1>4. h \in Seq(Memory)
  BY <1>3
<1>5. v = h \o tail /\ tail \in Seq(Memory)
  <2>1. p \in Seq(Memory) /\ e \in Seq(Memory) /\ z \in Seq(Memory)
    BY <1>3
  <2> HIDE DEF h, z
  <2>2. h \o p \o e \o z = h \o (p \o e \o z) /\ p \o e \o z \in Seq(Memory)
    BY <1>4, <2>1
  <2> QED
    BY <2>2
<1>6. /\ v \in Seq(Memory) /\ Len(v) >= Len(t) /\ UpTo(v, Len(t)) = t /\ Len(v) \in Nat
  <2>1. t \in Seq(Memory) /\ e \in Seq(Memory) /\ z \in Seq(Memory)
    BY <1>3
  <2> HIDE DEF t, z
  <2> QED
    BY <2>1, Terminated
<1>7. UpTo(v, Len(s)) = s /\ From(v, Len(s) + 2) = tail
  <2> HIDE DEF tail, v
  <2>1. v = s \o <<c>> \o tail
    BY <1>5
  <2> QED
    BY <1>3, <1>5, <2>1, Separated
<1>8. CString(v) = t \o e
  <2> HIDE DEF t
  <2> DEFINE u == t \o e
  <2>1. IsText(u)
    BY <1>0, <1>1, TextFacts
  <2>2. v = u \o <<NUL>>
    OBVIOUS
  <2> HIDE DEF u, v
  <2>3. CString(u \o <<NUL>>) = u
    BY <2>1, StringIs
  <2> QED
    BY <2>2, <2>3 DEF u
<1>9. s \o <<c>> \o p = t /\ t \o e \o <<NUL>> = v /\ p \o e \o <<NUL>> = tail
  OBVIOUS
<1>10. text = t /\ value = v
  BY <1>9 DEF Body
<1> HIDE DEF t, v, tail
<1> QED
  BY <1>1, <1>2, <1>6, <1>7, <1>8, <1>9, <1>10

LEMMA WifiParsed ==
    ASSUME NEW s, IsText(s), NEW p, IsText(p), NEW e, IsText(e)
    PROVE  LET text == s \o <<"@">> \o p
           IN  SetWifiConfig(text \o e \o <<NUL>>, Len(text)) = [ssid |-> s, password |-> p]
               <=> /\ ~Contains(s, "@") /\ Fits(Len(s), SSID_SIZE)
                   /\ p # <<>> => Fits(Len(p \o e), PASSWORD_SIZE)
<1> DEFINE text == s \o <<"@">> \o p
           value == text \o e \o <<NUL>>
           num == Place("@", UpTo(value, Len(text))) - 1
           passwordNum == Len(text) - num - 1
           rest == CString(From(value, num + 2))
           made == [ssid |-> UpTo(value, num),
                    password |-> IF passwordNum = 0 THEN <<>> ELSE UpTo(rest, passwordNum)]
<1>1. /\ IsText(text) /\ Len(text) = Len(s) + 1 + Len(p)
      /\ value \in Seq(Memory) /\ Len(value) >= Len(text)
      /\ UpTo(value, Len(text)) = text /\ UpTo(value, Len(s)) = s
      /\ From(value, Len(s) + 2) = p \o e \o <<NUL>>
      /\ ~Contains(s, "@") => Place("@", text) = Len(s) + 1
      /\ Contains(s, "@") => Place("@", text) \in 1..Len(s)
  <2> DEFINE at == "@"
  <2>1. Body(s, at, p, e, text, value)
    BY TextFacts DEF Body
  <2> HIDE DEF at, text, value
  <2>2. /\ IsText(text) /\ Len(text) = Len(s) + 1 + Len(p)
        /\ value \in Seq(Memory) /\ Len(value) >= Len(text)
        /\ UpTo(value, Len(text)) = text /\ UpTo(value, Len(s)) = s
        /\ From(value, Len(s) + 2) = p \o e \o <<NUL>>
        /\ ~Contains(s, at) => Place(at, text) = Len(s) + 1
        /\ Contains(s, at) => Place(at, text) \in 1..Len(s)
    BY <2>1, TwoParts
  <2> QED
    BY <2>2 DEF at
<1>2. SetWifiConfig(value, Len(text)) =
          IF ~Fits(num, SSID_SIZE) \/ (passwordNum # 0 /\ ~Fits(Len(rest), PASSWORD_SIZE))
          THEN Overflow ELSE made
  BY DEF SetWifiConfig
<1>3. /\ Len(s) \in Nat /\ Len(p) \in Nat /\ (p = <<>> <=> Len(p) = 0)
      /\ p \in Seq(Chars) /\ e \in Seq(Chars)
  BY DEF IsText
<1> HIDE DEF text, value
<1>4. CASE ~Contains(s, "@")
  <2>1. num = Len(s) /\ passwordNum = Len(p)
    BY <1>1, <1>3, <1>4
  <2>2. rest = p \o e
    <3> DEFINE t == p \o e
    <3>1. IsText(t)
      BY TextFacts
    <3>2. From(value, num + 2) = t \o <<NUL>>
      BY <1>1, <2>1
    <3> HIDE DEF t, num
    <3>3. CString(t \o <<NUL>>) = t
      BY <3>1, StringIs
    <3> QED
      BY <3>2, <3>3 DEF t
  <2>3. UpTo(rest, Len(p)) = p
    BY <1>3, <2>2, Pieces
  <2>4. made = [ssid |-> s, password |-> p]
    BY <1>1, <1>3, <2>1, <2>3
  <2> HIDE DEF num, passwordNum, rest, made
  <2> QED
    BY <1>2, <1>3, <1>4, <2>1, <2>2, <2>4, NotOverflow DEF value, text
<1>5. CASE Contains(s, "@")
  <2>1. num \in 0..(Len(s) - 1) /\ num \in 0..Len(value)
    BY <1>1, <1>3, <1>5
  <2>2. Len(UpTo(value, num)) = num
    BY <1>1, <2>1, Start
  <2>3. UpTo(value, num) # s
    BY <1>3, <2>1, <2>2
  <2>4. made # [ssid |-> s, password |-> p]
    BY <2>3
  <2> HIDE DEF num, passwordNum, rest, made
  <2> QED
    BY <1>2, <1>5, <2>4, NotOverflow DEF value, text
<1> QED
  BY <1>4, <1>5

\* A body followed by its residue.
Whole(t, e, value) == IsText(t) /\ IsText(e) /\ value = t \o e \o <<NUL>>
LEMMA WholeFacts ==
    ASSUME NEW t, NEW e, NEW value, Whole(t, e, value)
    PROVE  /\ CString(value) = t \o e /\ UpTo(t \o e, Len(t)) = t
           /\ Len(t \o e) \in Nat /\ (t \o e = t <=> e = <<>>)
<1>1. IsText(t) /\ IsText(e) /\ t \in Seq(Chars) /\ e \in Seq(Chars)
  BY DEF Whole, IsText
<1>2. CString(value) = t \o e
  <2> DEFINE u == t \o e
  <2>1. IsText(u) /\ value = u \o <<NUL>>
    BY <1>1, TextFacts DEF Whole
  <2> HIDE DEF u
  <2>2. CString(u \o <<NUL>>) = u
    BY <2>1, StringIs
  <2> QED
    BY <2>1, <2>2 DEF u
<1>3. UpTo(t \o e, Len(t)) = t
  BY <1>1, Pieces
<1>4. Len(t \o e) \in Nat /\ (t \o e = t <=> e = <<>>)
  <2>1. Len(t \o e) = Len(t) + Len(e) /\ Len(t) \in Nat /\ Len(e) \in Nat
    BY <1>1
  <2>2. t \o e = t => Len(e) = 0
    BY <2>1
  <2>3. Len(e) = 0 => e = <<>>
    BY <1>1
  <2>4. e = <<>> => t \o e = t
    BY <1>1
  <2> QED
    BY <2>1, <2>2, <2>3, <2>4
<1> QED
  BY <1>2, <1>3, <1>4

\* set_mqtt_uri copies the residue along, unsubscribe_mqtt passes it on.
LEMMA UriParsed ==
    ASSUME NEW t, NEW e, NEW value, Whole(t, e, value)
    PROVE  SetMqttUri(value, Len(t)) = [uri |-> t] <=> Fits(Len(t \o e), URI_SIZE)
BY WholeFacts, NotOverflow DEF SetMqttUri

LEMMA UnsubscribeParsed ==
    ASSUME NEW t, NEW e, NEW value, Whole(t, e, value)
    PROVE  UnsubscribeMqtt(value) = [topic |-> t] <=> e = <<>>
BY WholeFacts DEF UnsubscribeMqtt

\* Two characters in front of a text.
LEMMA Headed ==
    ASSUME NEW S, NEW a \in S, NEW b \in S, NEW t \in Seq(S)
    PROVE  /\ <<a, b>> \o t \in Seq(S) /\ Len(<<a, b>> \o t) = Len(t) + 2 /\ Len(t) \in Nat
           /\ (<<a, b>> \o t)[1] = a /\ (<<a, b>> \o t)[2] = b
           /\ From(<<a, b>> \o t, 3) = t
           /\ \A n \in 1..(Len(t) + 1) : From(<<a, b>> \o t, n + 2) = From(t, n)
           /\ \A n \in 0..Len(t) : SubSeq(<<a, b>> \o t, 3, n + 2) = UpTo(t, n)
<1> DEFINE u == <<a, b>> \o t
<1>1. /\ u \in Seq(S) /\ Len(u) = Len(t) + 2 /\ Len(t) \in Nat /\ u[1] = a /\ u[2] = b
      /\ \A i \in 1..Len(t) : u[i + 2] = t[i]
  OBVIOUS
<1> HIDE DEF u
<1>2. ASSUME NEW n \in 0..Len(t) PROVE SubSeq(u, 3, n + 2) = UpTo(t, n)
  BY <1>1 DEF UpTo
<1>3. ASSUME NEW n \in 1..(Len(t) + 1) PROVE From(u, n + 2) = From(t, n)
  BY <1>1 DEF From
<1>4. From(t, 1) = t /\ 1 \in 1..(Len(t) + 1) /\ 1 + 2 = 3
  BY <1>1 DEF From
<1>5. From(u, 3) = t
  BY <1>3, <1>4
<1> QED
  BY <1>1, <1>2, <1>3, <1>5 DEF u

\* mqtt_notify_pack and create_return_notify: too long a message is left out.
LEMMA MessagePacked ==
    ASSUME NEW t, IsText(t), NEW d, IsText(d), NOTIFY_SIZE \in Nat
    PROVE  (NotifyPack(t, d) = [message |-> t \o <<"@">> \o d] \/ NotifyPack(t, d) = Nothing)
             <=> (Len(t \o d) + 1 + Header <= NOTIFY_SIZE \/ Len(t \o d) > NOTIFY_SIZE)
<1>1. Len(t \o d) = Len(t) + Len(d) /\ Len(t) \in Nat /\ Len(d) \in Nat
  BY TextFacts
<1> DEFINE m == t \o <<"@">> \o d
           len == Len(t) + Len(d)
<1>2. NotifyPack(t, d) = IF len > NOTIFY_SIZE THEN Nothing
                         ELSE IF len + 1 + Header > NOTIFY_SIZE THEN Overflow ELSE [message |-> m]
  BY DEF NotifyPack
<1>3. len \in Nat /\ Header = 4 /\ Len(t \o d) = len
  BY <1>1 DEF Header
<1> HIDE DEF m, len
<1>4. (NotifyPack(t, d) = [message |-> m] \/ NotifyPack(t, d) = Nothing)
        <=> (len + 1 + Header <= NOTIFY_SIZE \/ len > NOTIFY_SIZE)
  BY <1>2, <1>3, NotOverflow
<1> QED
  BY <1>3, <1>4 DEF m

\* The digits of a byte of an advertisement.
LEMMA DigitValue == \A i \in 1..16 : Value(Digit[i]) = i - 1
<1>1. /\ Digit[1] = "0" /\ Digit[2] = "1" /\ Digit[3] = "2" /\ Digit[4] = "3"
      /\ Digit[5] = "4" /\ Digit[6] = "5" /\ Digit[7] = "6" /\ Digit[8] = "7"
      /\ Digit[9] = "8" /\ Digit[10] = "9" /\ Digit[11] = "a" /\ Digit[12] = "b"
      /\ Digit[13] = "c" /\ Digit[14] = "d" /\ Digit[15] = "e" /\ Digit[16] = "f"
      /\ Len(Digit) = 16
  BY DEF Digit
<1> SUFFICES ASSUME NEW i \in 1..16 PROVE Value(Digit[i]) = i - 1
  OBVIOUS
<1>2. \A j \in 1..(i - 1) : Digit[j] # Digit[i]
  <2>1. i \in {1, 2, 3, 4} => \A j \in 1..(i - 1) : Digit[j] # Digit[i]
    BY <1>1
  <2>2. i \in {5, 6, 7, 8} => \A j \in 1..(i - 1) : Digit[j] # Digit[i]
    BY <1>1
  <2>3. i \in {9, 10, 11, 12} => \A j \in 1..(i - 1) : Digit[j] # Digit[i]
    BY <1>1
  <2>4. i \in {13, 14, 15, 16} => \A j \in 1..(i - 1) : Digit[j] # Digit[i]
    BY <1>1
  <2> QED
    BY <2>1, <2>2, <2>3, <2>4
<1> DEFINE char == Digit[i]
<1>3. Len(Digit) \in Nat /\ i \in 1..Len(Digit) /\ Digit[i] = char /\ \A j \in 1..(i - 1) : Digit[j] # char
  BY <1>1, <1>2
<1> HIDE DEF char
<1>4. Place(char, Digit) = i
  BY <1>3, PlaceIs
<1> QED
  BY <1>4 DEF Value, char

LEMMA ByteWritten ==
    ASSUME NEW n \in 0..255
    PROVE  16 * Value(Itoa16(n).text[1]) + Value(Itoa16(n).text[2]) = n
<1> DEFINE hi == ((n \div 16) % 16) + 1
           lo == (n % 16) + 1
<1>1. hi \in 1..16 /\ lo \in 1..16 /\ 16 * (hi - 1) + (lo - 1) = n
  OBVIOUS
<1>2. Itoa16(n).text[1] = Digit[hi] /\ Itoa16(n).text[2] = Digit[lo]
  BY DEF Itoa16
<1> HIDE DEF hi, lo
<1>3. Value(Digit[hi]) = hi - 1 /\ Value(Digit[lo]) = lo - 1
  BY <1>1, DigitValue
<1> QED
  BY <1>1, <1>2, <1>3

\* A body of a character, an @ and a text, followed by its residue.
Marked(q, t, e, text, value) ==
    /\ q \in Chars /\ IsText(t) /\ IsText(e)
    /\ text = <<q, "@">> \o t /\ value = text \o e \o <<NUL>>
LEMMA MarkedFacts ==
    ASSUME NEW q, NEW t, NEW e, NEW text, NEW value, Marked(q, t, e, text, value)
    PROVE  /\ Len(text) = Len(t) + 2 /\ Len(t) \in Nat
           /\ value[1] = q /\ value[2] = "@"
           /\ SubSeq(value, 3, Len(text)) = t
           /\ From(value, 3) = t \o e \o <<NUL>>
           /\ \A n \in 1..(Len(t \o e \o <<NUL>>) + 1) : From(value, n + 2) = From(t \o e \o <<NUL>>, n)
<1> DEFINE z == <<NUL>>
           at == "@"
           h == <<q, at>>
           w == t \o e \o z
<1>1. q \in Memory /\ at \in Memory /\ t \in Seq(Memory) /\ e \in Seq(Memory) /\ z \in Seq(Memory)
  BY TextFacts DEF Marked, Memory
<1>2. h \in Seq(Memory)
  BY <1>1
<1>3. (h \o t) \o e \o z = h \o (t \o e \o z) /\ t \o e \o z \in Seq(Memory)
  <2> HIDE DEF h, z
  <2> QED
    BY <1>1, <1>2, SMTT(30)
<1>4. value = <<q, at>> \o w /\ text = <<q, at>> \o t
  BY <1>3 DEF Marked
<1>5. UpTo(w, Len(t)) = t /\ Len(w) >= Len(t) /\ w \in Seq(Memory)
  <2> HIDE DEF z
  <2> QED
    BY <1>1, Terminated
<1> HIDE DEF w, at, h, z
<1>6. /\ Len(text) = Len(t) + 2 /\ Len(t) \in Nat
  BY <1>1, <1>4, Headed
<1>7. /\ value[1] = q /\ value[2] = at /\ Len(w) \in Nat
      /\ From(value, 3) = w
      /\ \A n \in 1..(Len(w) + 1) : From(value, n + 2) = From(w, n)
      /\ \A n \in 0..Len(w) : SubSeq(value, 3, n + 2) = UpTo(w, n)
  <2> DEFINE u == <<q, at>> \o w
  <2>1. /\ u[1] = q /\ u[2] = at /\ Len(w) \in Nat
        /\ From(u, 3) = w
        /\ \A n \in 1..(Len(w) + 1) : From(u, n + 2) = From(w, n)
        /\ \A n \in 0..Len(w) : SubSeq(u, 3, n + 2) = UpTo(w, n)
    BY <1>1, <1>5, Headed
  <2>2. value = u
    BY <1>4
  <2> HIDE DEF u
  <2> QED
    BY <2>1, <2>2
<1>8. SubSeq(value, 3, Len(text)) = t
  BY <1>5, <1>6, <1>7
<1> QED
  BY <1>6, <1>7, <1>8 DEF w, z, at

\* subscribe_mqtt and publish_mqtt read what follows the quality and its @.
LEMMA SubscribeParsed ==
    ASSUME NEW q, NEW t, NEW e, NEW text, NEW value, Marked(q, t, e, text, value)
    PROVE  SubscribeMqtt(value, Len(text)) = [topic |-> t, qos |-> q] <=> Fits(Len(t), TOPIC_SIZE)
<1>1. /\ Len(text) = Len(t) + 2 /\ Len(t) \in Nat /\ value[1] = q /\ value[2] = "@"
      /\ SubSeq(value, 3, Len(text)) = t
  BY MarkedFacts
<1>2. Len(text) - 2 = Len(t)
  BY <1>1
<1>3. SubscribeMqtt(value, Len(text))
        = IF ~Fits(Len(t), TOPIC_SIZE) THEN Overflow ELSE [topic |-> t, qos |-> q]
  BY <1>1, <1>2 DEF SubscribeMqtt
<1> QED
  BY <1>3, NotOverflow

LEMMA PublishParsed ==
    ASSUME NEW q, NEW t, IsText(t), NEW d, IsText(d), NEW e, NEW text, NEW value,
           Marked(q, t \o <<"@">> \o d, e, text, value)
    PROVE  PublishMqtt(value, Len(text)) = [topic |-> t, qos |-> q, data |-> d]
             <=> ~Contains(t, "@") /\ (d = <<>> => e = <<>>)
<1> DEFINE z == <<NUL>>
           at == "@"
           body == t \o <<at>> \o d
           w == body \o e \o z
           tail == d \o e \o z
           num == Place(at, w) - 1
           topic == UpTo(w, num)
           data == From(value, Len(topic) + 4)
           n == Len(text) - (Len(topic) + 3)
<1>1. /\ Len(text) = Len(body) + 2 /\ value[1] = q /\ value[2] = at /\ From(value, 3) = w
      /\ \A i \in 1..(Len(w) + 1) : From(value, i + 2) = From(w, i)
  <2>1. Marked(q, body, e, text, value)
    OBVIOUS
  <2> HIDE DEF body
  <2>2. w = body \o e \o <<NUL>>
    OBVIOUS
  <2> HIDE DEF w
  <2>3. Len(text) = Len(body) + 2 /\ value[1] = q /\ value[2] = "@"
    BY <2>1, MarkedFacts
  <2>4. From(value, 3) = body \o e \o <<NUL>>
    BY <2>1, MarkedFacts
  <2>5. \A i \in 1..(Len(body \o e \o <<NUL>>) + 1) : From(value, i + 2) = From(body \o e \o <<NUL>>, i)
    BY <2>1, MarkedFacts, SMTT(30)
  <2> QED
    BY <2>2, <2>3, <2>4, <2>5
<1>2. /\ IsText(e) /\ at \in Chars /\ at \in Memory /\ d \in Seq(Memory) /\ e \in Seq(Memory)
      /\ z \in Seq(Memory) /\ t \in Seq(Memory) /\ Len(t) \in Nat /\ Len(d) \in Nat
      /\ d \in Seq(Chars) /\ e \in Seq(Chars) /\ t \in Seq(Chars)
  BY TextFacts DEF Marked, Memory, IsText
<1>3. Body(t, at, d, e, body, w)
  BY <1>2 DEF Body
<1>4. /\ Len(body) = Len(t) + 1 + Len(d) /\ w \in Seq(Memory) /\ Len(w) >= Len(body) /\ Len(w) \in Nat
      /\ UpTo(w, Len(t)) = t /\ From(w, Len(t) + 2) = tail
  <2> HIDE DEF body, w, at
  <2> QED
    BY <1>3, TwoParts
<1>5. /\ tail \in Seq(Memory) /\ w = t \o <<at>> \o tail
  <2> DEFINE h == t \o <<at>>
  <2>1. h \in Seq(Memory) /\ w = h \o d \o e \o z /\ t \o <<at>> \o tail = h \o tail
    BY <1>2
  <2>2. d \in Seq(Memory) /\ e \in Seq(Memory) /\ z \in Seq(Memory) /\ h \in Seq(Memory)
    BY <1>2, <2>1
  <2> HIDE DEF h, z, w, at, body
  <2>3. h \o d \o e \o z = h \o (d \o e \o z) /\ d \o e \o z \in Seq(Memory)
    BY <2>2
  <2> QED
    BY <2>1, <2>3
<1>6. /\ ~Contains(t, at) => Place(at, w) = Len(t) + 1
      /\ Contains(t, at) => Place(at, w) \in 1..Len(t)
  <2> HIDE DEF w, tail, at
  <2> QED
    BY <1>2, <1>5, Separated
<1>7. PublishMqtt(value, Len(text)) =
          [topic |-> topic, qos |-> q, data |-> IF n = 0 THEN CString(data) ELSE UpTo(data, n)]
  BY <1>1 DEF PublishMqtt
<1> HIDE DEF w, body, tail
<1>8. CASE ~Contains(t, at)
  <2>1. topic = t /\ num = Len(t)
    BY <1>2, <1>4, <1>6, <1>8
  <2>2. data = tail
    <3>1. Len(topic) + 4 = (Len(t) + 2) + 2 /\ Len(t) + 2 \in 1..(Len(w) + 1)
      BY <1>2, <1>4, <2>1
    <3> HIDE DEF topic
    <3>2. data = From(value, (Len(t) + 2) + 2)
      BY <3>1
    <3> HIDE DEF data
    <3>3. From(value, (Len(t) + 2) + 2) = From(w, Len(t) + 2)
      BY <1>1, <3>1
    <3> QED
      BY <1>4, <3>2, <3>3
  <2>3. n = Len(d)
    BY <1>1, <1>2, <1>4, <2>1
  <2>4. UpTo(tail, Len(d)) = d
    <3> HIDE DEF z
    <3> QED
      BY <1>2, Terminated DEF tail
  <2>5. ASSUME d = <<>> PROVE CString(tail) = e
    <3>1. tail = e \o <<NUL>>
      BY <1>2, <2>5 DEF tail
    <3> QED
      BY <1>2, <3>1, StringIs
  <2>6. Len(d) = 0 <=> d = <<>>
    BY <1>2
  <2> HIDE DEF topic, data, n
  <2>7. CASE d = <<>>
    <3>1. PublishMqtt(value, Len(text)) = [topic |-> t, qos |-> q, data |-> e]
      BY <1>7, <2>1, <2>2, <2>3, <2>5, <2>6, <2>7
    <3> QED
      BY <1>8, <2>7, <3>1
  <2>8. CASE d # <<>>
    <3>1. PublishMqtt(value, Len(text)) = [topic |-> t, qos |-> q, data |-> d]
      BY <1>7, <2>1, <2>2, <2>3, <2>4, <2>6, <2>8
    <3> QED
      BY <1>8, <2>8, <3>1
  <2> QED
    BY <2>7, <2>8
<1>9. CASE Contains(t, at)
  <2>1. num \in 0..(Len(t) - 1) /\ num \in 0..Len(w)
    BY <1>2, <1>4, <1>6, <1>9
  <2>2. Len(topic) = num
    BY <1>4, <2>1, Start
  <2>3. topic # t
    BY <1>2, <2>1, <2>2
  <2> HIDE DEF topic, data, n
  <2> QED
    BY <1>7, <1>9, <2>3
<1> QED
  BY <1>8, <1>9

LEMMA StateRead ==
    ASSUME NEW c \in BOOLEAN, NEW n \in BOOLEAN, NEW ip, IsText(ip), ~Contains(ip, "@"),
           NEW ssid, IsText(ssid)
    PROVE  LET reply == GetNetworkState(c, n, ip, ssid).reply IN
           /\ (reply[1] = "1") = c /\ reply[2] = "@" /\ (reply[3] = "1") = n /\ reply[4] = "@"
           /\ c => UpTo(From(reply, 5), Place("@", From(reply, 5)) - 1) = ip
           /\ c /\ ~n => From(reply, 5) = ip \o <<"@">> \o ssid
<1> DEFINE at == "@"
           x == IF c THEN "1" ELSE "0"
           y == IF n THEN "1" ELSE "0"
           a == IF c THEN ip ELSE <<>>
           b == IF c /\ ~n THEN <<at>> \o ssid ELSE <<>>
           h == <<x, at, y, at>>
           reply == h \o a \o b
<1>1. x \in Chars /\ y \in Chars /\ at \in Chars
  BY TextAssumption
<1>2. a \in Seq(Chars) /\ b \in Seq(Chars) /\ ip \in Seq(Chars) /\ ssid \in Seq(Chars)
  BY <1>1 DEF IsText
<1>3. GetNetworkState(c, n, ip, ssid).reply = reply
  BY DEF GetNetworkState
<1>4. (x = "1") = c /\ (y = "1") = n
  <2>1. CASE c
    BY <2>1
  <2>2. CASE ~c
    BY <2>2
  <2> QED
    BY <2>1, <2>2
<1>5. c => a = ip
  OBVIOUS
<1>6. /\ c /\ ~n => b = <<at>> \o ssid
      /\ ~(c /\ ~n) => b = <<>>
  OBVIOUS
<1> HIDE DEF x, y, a, b, at
<1>7. h \in Seq(Chars) /\ Len(h) = 4 /\ h[1] = x /\ h[2] = at /\ h[3] = y /\ h[4] = at
  BY <1>1
<1> HIDE DEF h
<1> DEFINE v == a \o b
<1>8. v \in Seq(Chars) /\ reply = h \o v
  BY <1>2, <1>7
<1> HIDE DEF v
<1> HIDE DEF reply
<1>9. reply[1] = x /\ reply[2] = at /\ reply[3] = y /\ reply[4] = at
  <2>0. h \in Seq(Chars) /\ v \in Seq(Chars)
    BY <1>7, <1>8
  <2>1. \A i \in 1..Len(h) : (h \o v)[i] = h[i]
    BY <2>0
  <2>2. 1 \in 1..Len(h) /\ 2 \in 1..Len(h) /\ 3 \in 1..Len(h) /\ 4 \in 1..Len(h)
    BY <1>7
  <2>3. reply[1] = h[1] /\ reply[2] = h[2] /\ reply[3] = h[3] /\ reply[4] = h[4]
    BY <1>8, <2>1, <2>2
  <2> QED
    BY <1>7, <2>3
<1>10. From(reply, 5) = v
  <2>1. From(h \o v, Len(h) + 1) = v
    BY <1>7, <1>8, Pieces
  <2> QED
    BY <1>7, <1>8, <2>1
<1>11. ASSUME c, ~n PROVE v = ip \o <<at>> \o ssid
  <2> DEFINE m == <<at>>
  <2>1. m \in Seq(Chars) /\ ip \in Seq(Chars) /\ ssid \in Seq(Chars)
    BY <1>1, <1>2
  <2>2. a = ip /\ b = m \o ssid
    BY <1>5, <1>6, <1>11
  <2> HIDE DEF m
  <2>3. ip \o (m \o ssid) = ip \o m \o ssid
    BY <2>1
  <2> QED
    BY <2>2, <2>3 DEF m, v
<1>12. ASSUME c PROVE UpTo(v, Place(at, v) - 1) = ip
  <2>1. CASE ~n
    <3> DEFINE k == ip \o <<at>> \o ssid
    <3>1. ~Contains(ip, at)
      BY DEF at
    <3>2. Place(at, k) = Len(ip) + 1 /\ UpTo(k, Len(ip)) = ip
      BY <1>1, <1>2, <3>1, Separated
    <3>3. v = k
      BY <1>11, <1>12, <2>1
    <3> HIDE DEF k
    <3>4. Place(at, k) - 1 = Len(ip)
      BY <1>2, <3>2
    <3> QED
      BY <3>2, <3>3, <3>4
  <2>2. CASE n
    <3>1. v = ip
      BY <1>2, <1>5, <1>6, <1>12, <2>2 DEF v
    <3>2. Place(at, ip) - 1 = Len(ip)
      BY <1>2, PlaceNone DEF at
    <3>3. UpTo(ip, Len(ip)) = ip
      BY <1>2 DEF UpTo
    <3> QED
      BY <3>1, <3>2, <3>3
  <2> QED
    BY <2>1, <2>2
<1> QED
  BY <1>3, <1>4, <1>9, <1>10, <1>11, <1>12 DEF at

-----------------------------------------------------------------------------
(***************************************************************************)
(* get_mqtt_config: where the password is in the uri, and that it alone is *)
(* left out.                                                               *)
(***************************************************************************)
\* A text of two parts around a character: its pieces, place by place.
Around(s, c, t, u) == IsText(s) /\ c \in Chars /\ IsText(t) /\ u = s \o <<c>> \o t
LEMMA AroundFacts ==
    ASSUME NEW s, NEW c, NEW t, NEW u, Around(s, c, t, u)
    PROVE  /\ IsText(u) /\ Len(s) \in Nat /\ Len(t) \in Nat
           /\ Len(u) = Len(s) + 1 + Len(t) /\ u[Len(s) + 1] = c
           /\ \A i \in 1..Len(s) : u[i] = s[i]
           /\ \A i \in 1..Len(t) : u[Len(s) + 1 + i] = t[i]
           /\ UpTo(u, Len(s)) = s
<1>1. s \in Seq(Chars) /\ t \in Seq(Chars) /\ c \in Chars /\ Len(s) \in Nat /\ Len(t) \in Nat
  BY DEF Around, IsText
<1> DEFINE v == s \o <<c>> \o t
<1>2. /\ v \in Seq(Chars) /\ Len(v) = Len(s) + 1 + Len(t) /\ v[Len(s) + 1] = c
      /\ \A i \in 1..Len(s) : v[i] = s[i]
      /\ UpTo(v, Len(s)) = s
  BY <1>1, Separated
<1>4. \A i \in 1..Len(t) : v[Len(s) + 1 + i] = t[i]
  BY <1>1
<1>6. u = v
  BY DEF Around
<1> HIDE DEF v
<1> QED
  BY <1>1, <1>2, <1>4, <1>6 DEF IsText

LEMMA AroundRest ==
    ASSUME NEW s, NEW c, NEW t, NEW u, Around(s, c, t, u)
    PROVE  From(u, Len(s) + 1) = <<c>> \o t
<1> DEFINE v == s \o <<c>> \o t
           m == <<c>>
           w == m \o t
<1>1. s \in Seq(Chars) /\ t \in Seq(Chars) /\ c \in Chars
  BY DEF Around, IsText
<1>2. v = s \o w /\ w \in Seq(Chars)
  BY <1>1
<1>3. From(v, Len(s) + 1) = w
  <2> HIDE DEF v, w
  <2> QED
    BY <1>1, <1>2, Pieces
<1>4. u = v
  BY DEF Around
<1> HIDE DEF v
<1> QED
  BY <1>3, <1>4

LEMMA GreatestNatural ==
    ASSUME NEW T, T # {}, NEW hi \in Nat, T \subseteq 0..hi
    PROVE  Max(T) \in T /\ \A i \in T : i <= Max(T)
<1> DEFINE R == {hi - i : i \in T}
<1>1. R \subseteq Nat /\ R # {} /\ T \subseteq Nat
  <2>1. \A i \in T : i \in 0..hi
    OBVIOUS
  <2>2. \A i \in T : hi - i \in Nat /\ i \in Nat
    BY <2>1
  <2> QED
    BY <2>2
<1>2. PICK m \in R : \A n \in R : m <= n
  <2> HIDE DEF R
  <2> QED
    BY <1>1, LeastNatural
<1>3. PICK j \in T : m = hi - j
  BY <1>2
<1>4. ASSUME NEW i \in T PROVE i <= j
  <2>1. hi - j <= hi - i
    BY <1>2, <1>3
  <2> QED
    BY <1>1, <2>1
<1>5. Max(T) = j
  <2> HIDE DEF R
  <2> QED
    BY <1>1, <1>4, Greatest
<1> QED
  BY <1>4, <1>5

\* The first place of a character from n on.
LEMMA FirstFrom ==
    ASSUME NEW u, IsText(u), NEW c, NEW n \in Nat \ {0}, NEW last \in n..Len(u), u[last] = c
    PROVE  LET at == Place(c, From(u, n)) + (n - 1) IN
           /\ at \in n..last /\ u[at] = c /\ \A i \in n..(at - 1) : u[i] # c
<1> DEFINE r == From(u, n)
<1>1. /\ u \in Seq(Chars) /\ Len(u) \in Nat
  BY DEF IsText
<1>2. /\ r \in Seq(Chars) /\ Len(r) = Len(u) - (n - 1) /\ Len(r) \in Nat
      /\ \A i \in 1..Len(r) : r[i] = u[i + (n - 1)]
  BY <1>1 DEF From
<1> HIDE DEF r
<1>3. last - (n - 1) \in 1..Len(r) /\ r[last - (n - 1)] = c
  <2>1. last - (n - 1) \in 1..Len(r) /\ (last - (n - 1)) + (n - 1) = last
    BY <1>1, <1>2
  <2>2. r[last - (n - 1)] = u[(last - (n - 1)) + (n - 1)]
    BY <1>2, <2>1
  <2> QED
    BY <2>1, <2>2
<1>4. Contains(r, c)
  BY <1>3 DEF Contains
<1> DEFINE p == Place(c, r)
<1>5. p \in 1..Len(r) /\ r[p] = c /\ \A i \in 1..Len(r) : r[i] = c => p <= i
  BY <1>2, <1>4, PlaceFound
<1> HIDE DEF p
<1>6. p + (n - 1) \in n..last /\ u[p + (n - 1)] = c
  BY <1>1, <1>2, <1>3, <1>5
<1>7. ASSUME NEW i \in n..((p + (n - 1)) - 1) PROVE u[i] # c
  <2>1. i - (n - 1) \in 1..Len(r) /\ i - (n - 1) < p /\ (i - (n - 1)) + (n - 1) = i
    BY <1>1, <1>2, <1>5
  <2>2. r[i - (n - 1)] = u[(i - (n - 1)) + (n - 1)]
    BY <1>2, <2>1
  <2>3. r[i - (n - 1)] # c
    BY <1>2, <1>5, <2>1
  <2> QED
    BY <2>1, <2>2, <2>3
<1> DEFINE at == p + (n - 1)
<1>8. at \in n..last /\ u[at] = c /\ \A i \in n..(at - 1) : u[i] # c
  <2>1. \A i \in n..(at - 1) : u[i] # c
    BY <1>2, <1>5, <1>7
  <2> QED
    BY <1>6, <2>1
<1>9. at = Place(c, From(u, n)) + (n - 1)
  BY DEF p, r
<1> HIDE DEF at
<1> QED
  BY <1>8, <1>9

\* The uri and what is to be left of it.
Uri(A, colon, password, B, sign, host, U, E) ==
    Around(A, colon, password, B) /\ Around(B, sign, host, U) /\ Around(A, sign, host, E)
LEMMA UriFacts ==
    ASSUME NEW A, NEW colon, NEW password, NEW B, NEW sign, NEW host, NEW U, NEW E,
           Uri(A, colon, password, B, sign, host, U, E)
    PROVE  /\ IsText(U) /\ IsText(E) /\ Len(A) \in Nat /\ Len(password) \in Nat /\ Len(host) \in Nat
           /\ Len(U) = Len(A) + Len(password) + 2 + Len(host) /\ Len(E) = Len(A) + 1 + Len(host)
           /\ U[Len(A) + 1] = colon /\ U[Len(A) + Len(password) + 2] = sign /\ E[Len(A) + 1] = sign
           /\ \A i \in 1..Len(A) : U[i] = A[i] /\ E[i] = A[i]
           /\ \A i \in 1..Len(password) : U[Len(A) + 1 + i] = password[i]
           /\ UpTo(U, Len(A)) = A
<1>1. Around(A, colon, password, B)
  BY DEF Uri
<1>1a. Around(B, sign, host, U)
  BY DEF Uri
<1>1b. Around(A, sign, host, E)
  BY DEF Uri
<1>2. /\ IsText(B) /\ Len(A) \in Nat /\ Len(password) \in Nat
      /\ Len(B) = Len(A) + 1 + Len(password) /\ B[Len(A) + 1] = colon
      /\ \A i \in 1..Len(A) : B[i] = A[i]
      /\ \A i \in 1..Len(password) : B[Len(A) + 1 + i] = password[i]
      /\ UpTo(B, Len(A)) = A
  BY <1>1, AroundFacts
<1>3. /\ IsText(U) /\ Len(host) \in Nat /\ Len(U) = Len(B) + 1 + Len(host)
      /\ U[Len(B) + 1] = sign
      /\ \A i \in 1..Len(B) : U[i] = B[i]
  BY <1>1a, AroundFacts
<1>4. /\ IsText(E) /\ Len(E) = Len(A) + 1 + Len(host) /\ E[Len(A) + 1] = sign
      /\ \A i \in 1..Len(A) : E[i] = A[i]
  BY <1>1b, AroundFacts
<1>5. /\ Len(B) + 1 = Len(A) + Len(password) + 2 /\ Len(A) + 1 \in 1..Len(B)
      /\ \A i \in 1..Len(password) : Len(A) + 1 + i \in 1..Len(B)
  BY <1>2
<1>6. UpTo(U, Len(A)) = UpTo(B, Len(A))
  <2>1. B \in Seq(Chars) /\ Len(A) \in 0..Len(B) /\ Len(A) \in 0..Len(U)
    BY <1>2, <1>3 DEF IsText
  <2> QED
    BY <1>3, <2>1 DEF UpTo
<1> QED
  BY <1>2, <1>3, <1>4, <1>5, <1>6
Behind(sign, host) == <<sign>> \o host
LEMMA UriRest ==
    ASSUME NEW A, NEW colon, NEW password, NEW B, NEW sign, NEW host, NEW U, NEW E,
           Uri(A, colon, password, B, sign, host, U, E)
    PROVE  From(U, Len(A) + Len(password) + 2) = Behind(sign, host)
<1>1. Around(A, colon, password, B) /\ Around(B, sign, host, U)
  BY DEF Uri
<1>2. Len(B) = Len(A) + 1 + Len(password) /\ Len(A) \in Nat /\ Len(password) \in Nat
  BY <1>1, AroundFacts
<1>3. From(U, Len(B) + 1) = <<sign>> \o host
  BY <1>1, AroundRest
<1>4. Len(B) + 1 = Len(A) + Len(password) + 2
  BY <1>2
<1> QED
  BY <1>3, <1>4 DEF Behind
LEMMA UriJoined ==
    ASSUME NEW A, NEW colon, NEW password, NEW B, NEW sign, NEW host, NEW U, NEW E,
           Uri(A, colon, password, B, sign, host, U, E)
    PROVE  E = A \o Behind(sign, host)
<1> DEFINE m == <<sign>>
<1>1. A \in Seq(Chars) /\ m \in Seq(Chars) /\ host \in Seq(Chars)
  BY DEF Uri, Around, IsText
<1>2. E = A \o m \o host
  BY DEF Uri, Around
<1> HIDE DEF m
<1>3. A \o m \o host = A \o (m \o host)
  BY <1>1
<1> QED
  BY <1>2, <1>3 DEF m, Behind

\* What follows in a text from a place on.
LEMMA Rest ==
    ASSUME NEW u, IsText(u), NEW n \in 1..Len(u)
    PROVE  IsText(From(u, n)) /\ Len(From(u, n)) = Len(u) - n + 1 /\ From(u, n)[1] = u[n]
BY DEF IsText, From

\* Where the second of two texts starts.
LEMMA Joined ==
    ASSUME NEW s, IsText(s), NEW t, IsText(t), t # <<>>
    PROVE  /\ Len(s \o t) = Len(s) + Len(t) /\ Len(s) \in Nat /\ Len(t) \in Nat
           /\ (s \o t)[Len(s) + 1] = t[1]
BY DEF IsText

\* What is kept of the uri: what comes before its last : and what follows its @.
Kept(k, U, at) == (IF k = 0 THEN <<>> ELSE UpTo(U, k - 1)) \o From(U, at)

\* The part between the last : before the first @ and that @ is the password.
LEMMA PasswordLeftOut ==
    ASSUME NEW A, NEW colon, NEW password, NEW B, NEW sign, NEW host, NEW U, NEW E,
           Uri(A, colon, password, B, sign, host, U, E), colon # sign, Len(A) >= 7, A[1] # sign,
           NEW at \in 8..(Len(A) + Len(password) + 2), U[at] = sign, \A i \in 8..(at - 1) : U[i] # sign,
           NEW k,
           \/ k = 0 /\ \A i \in 8..at : U[i] # colon
           \/ k \in 8..at /\ U[k] = colon /\ \A i \in 8..at : U[i] = colon => i <= k
    PROVE  Kept(k, U, at) = E
             <=> /\ \A i \in 8..Len(A) : A[i] # sign
                 /\ \A i \in 1..Len(password) : password[i] # sign /\ password[i] # colon
<1> DEFINE a == Len(A)
           b == Len(password)
           W == From(U, at)
           K == IF k = 0 THEN <<>> ELSE UpTo(U, k - 1)
<1>1. /\ IsText(U) /\ IsText(E) /\ a \in Nat /\ b \in Nat /\ Len(host) \in Nat
      /\ Len(U) = a + b + 2 + Len(host) /\ Len(E) = a + 1 + Len(host)
      /\ U[a + 1] = colon /\ U[a + b + 2] = sign /\ E[a + 1] = sign
      /\ \A i \in 1..a : U[i] = A[i] /\ E[i] = A[i]
      /\ \A i \in 1..b : U[a + 1 + i] = password[i]
  BY UriFacts
<1>2. UpTo(U, a) = A /\ From(U, a + b + 2) = Behind(sign, host) /\ E = A \o Behind(sign, host)
  <2>1. UpTo(U, a) = A
    BY UriFacts
  <2>2. From(U, a + b + 2) = Behind(sign, host)
    BY UriRest
  <2>3. E = A \o Behind(sign, host)
    BY UriJoined
  <2> QED
    BY <2>1, <2>2, <2>3
<1>3. at \in 8..(a + b + 2) /\ a >= 7
  OBVIOUS
<1>4. IsText(W) /\ Len(W) = Len(U) - at + 1 /\ W[1] = sign /\ W # <<>>
  <2>1. at \in 1..Len(U)
    BY <1>1, <1>3
  <2>2. IsText(W) /\ Len(W) = Len(U) - at + 1 /\ W[1] = U[at]
    BY <1>1, <2>1, Rest
  <2>3. Len(W) > 0
    BY <1>1, <2>1, <2>2
  <2> HIDE DEF W
  <2>4. W # <<>>
    BY <2>3
  <2> QED
    BY <2>2, <2>4
<1>5. IsText(K) /\ Len(K) = IF k = 0 THEN 0 ELSE k - 1
  <2>1. CASE k = 0
    <3>1. K = <<>>
      BY <2>1
    <3> HIDE DEF K
    <3> QED
      BY <2>1, <3>1 DEF IsText
  <2>2. CASE k # 0
    <3>1. K = UpTo(U, k - 1) /\ U \in Seq(Chars) /\ k \in 8..at
      BY <1>1, <2>2 DEF IsText
    <3>2. k - 1 \in 0..Len(U)
      BY <1>1, <1>3, <3>1
    <3> HIDE DEF K
    <3>3. UpTo(U, k - 1) \in Seq(Chars) /\ Len(UpTo(U, k - 1)) = k - 1
      BY <3>1, <3>2, Start
    <3> QED
      BY <2>2, <3>1, <3>3 DEF IsText
  <2> QED
    BY <2>1, <2>2
<1> HIDE DEF a, b, W
<1>6. ASSUME \A i \in 8..a : A[i] # sign, \A i \in 1..b : password[i] # sign /\ password[i] # colon
      PROVE  K \o W = E
  <2>1. at = a + b + 2
    <3>1. ASSUME at \in 8..a PROVE FALSE
      <4>1. at \in 1..a /\ A[at] # sign
        BY <1>1, <1>6, <3>1
      <4>2. U[at] = A[at]
        BY <1>1, <4>1
      <4> QED
        BY <4>1, <4>2
    <3>2. at # a + 1
      BY <1>1
    <3>3. ASSUME at \in (a + 2)..(a + 1 + b) PROVE FALSE
      <4>1. at - (a + 1) \in 1..b /\ at = a + 1 + (at - (a + 1))
        BY <1>1, <1>3, <3>3
      <4> DEFINE j == at - (a + 1)
      <4>2. j \in 1..b /\ at = a + 1 + j
        BY <4>1
      <4> HIDE DEF j
      <4>3. U[at] = password[j]
        BY <1>1, <4>2
      <4> QED
        BY <1>6, <4>2, <4>3
    <3> QED
      BY <1>1, <1>3, <3>1, <3>2, <3>3
  <2>2. k = a + 1
    <3>1. a + 1 \in 8..at /\ U[a + 1] = colon
      BY <1>1, <1>3, <2>1, SMTT(30)
    <3>2. k \in 8..at /\ U[k] = colon /\ a + 1 <= k
      BY <3>1
    <3>3. k # at
      BY <3>2
    <3>4. ASSUME k \in (a + 2)..(a + 1 + b) PROVE FALSE
      <4>1. k - (a + 1) \in 1..b /\ k = a + 1 + (k - (a + 1))
        BY <1>1, <1>3, <3>4
      <4> DEFINE j == k - (a + 1)
      <4>2. j \in 1..b /\ k = a + 1 + j
        BY <4>1
      <4> HIDE DEF j
      <4>3. U[k] = password[j]
        BY <1>1, <4>2
      <4> QED
        BY <1>6, <3>2, <4>2, <4>3
    <3> QED
      BY <1>1, <1>3, <2>1, <3>2, <3>3, <3>4
  <2>3. K = A
    <3>1. k # 0 /\ k - 1 = a
      BY <1>1, <2>2
    <3> QED
      BY <1>2, <3>1
  <2>4. W = Behind(sign, host)
    BY <1>2, <2>1 DEF W
  <2> HIDE DEF K
  <2> QED
    BY <1>2, <2>3, <2>4
<1> HIDE DEF K
<1>7. ASSUME K \o W = E
      PROVE  /\ \A i \in 8..a : A[i] # sign
             /\ \A i \in 1..b : password[i] # sign /\ password[i] # colon
  <2>1. Len(E) = Len(K) + Len(W) /\ E[Len(K) + 1] = sign
    BY <1>4, <1>5, <1>7, Joined
  <2>2. k # 0
    <3>1. ASSUME k = 0 PROVE E[1] = sign
      BY <1>5, <2>1, <3>1
    <3>2. E[1] = A[1]
      BY <1>1, <1>3
    <3> QED
      BY <3>1, <3>2
  <2>3. k \in 8..at /\ U[k] = colon /\ Len(K) = k - 1 /\ \A i \in 8..at : U[i] = colon => i <= k
    BY <1>5, <2>2
  <2>4. E[k] = sign /\ at - k = b + 1
    BY <1>1, <1>3, <1>4, <2>1, <2>3
  <2>5. k > a
    BY <1>1, <1>3, <2>3, <2>4
  <2>6. k = a + 1 /\ at = a + b + 2
    BY <1>1, <1>3, <2>3, <2>4, <2>5
  <2>7. ASSUME NEW i \in 8..a PROVE A[i] # sign
    <3>1. i \in 1..a /\ i \in 8..(at - 1)
      BY <1>1, <1>3, <2>6
    <3>2. U[i] = A[i]
      BY <1>1, <3>1
    <3>3. U[i] # sign
      BY <3>1
    <3> QED
      BY <3>2, <3>3
  <2>8. ASSUME NEW i \in 1..b PROVE password[i] # sign /\ password[i] # colon
    <3>1. a + 1 + i \in 8..(at - 1) /\ a + 1 + i \in 8..at /\ a + 1 + i > k
      BY <1>1, <1>3, <2>6
    <3>2. U[a + 1 + i] = password[i]
      BY <1>1
    <3>3. ~(a + 1 + i <= k)
      BY <1>1, <2>6, <3>1
    <3> QED
      BY <2>3, <3>1, <3>2, <3>3
  <2> QED
    BY <2>7, <2>8
<1> QED
  BY <1>6, <1>7 DEF a, b, K, W, Kept

\* Two characters in front do not make texts equal.
LEMMA Cancel ==
    ASSUME NEW S, NEW a \in S, NEW b \in S, NEW s \in Seq(S), NEW t \in Seq(S)
    PROVE  <<a, b>> \o s = <<a, b>> \o t <=> s = t
<1> DEFINE u == <<a, b>> \o s
           v == <<a, b>> \o t
<1>1. From(u, 3) = s
  BY Headed
<1>2. From(v, 3) = t
  BY Headed
<1> HIDE DEF u, v
<1>3. u = v => s = t
  BY <1>1, <1>2
<1> QED
  BY <1>3 DEF u, v

\* What get_mqtt_config answers, from the places of the last : and of the @.
Replied(c, k, U, at) == <<IF c THEN "1" ELSE "0", "@">> \o (IF k = 0 THEN <<>> ELSE UpTo(U, k - 1))
                          \o From(U, at)

LEMMA ReplyIs ==
    ASSUME NEW c, NEW U, NEW at, at = Place("@", From(U, 8)) + 7, at \in Nat, Len(U) \in Nat, at <= Len(U),
           NEW k, k = IF {i \in 8..at : U[i] = ":"} # {} THEN Max({i \in 8..at : U[i] = ":"}) ELSE 0
    PROVE  GetMqttConfig(c, U) = [reply |-> Replied(c, k, U, at)]
<1>1. Len(Scheme) = 7 /\ ~(at > Len(U)) /\ Len(Scheme) + 1 = 8
  BY TextFacts
<1>2. Place("@", From(U, Len(Scheme) + 1)) + Len(Scheme) = at
  BY <1>1
<1>3. SelectLastInSubSeq(U, Len(Scheme) + 1, IF at > Len(U) THEN Len(U) ELSE at, LAMBDA d : d = ":") = k
  BY <1>1 DEF SelectLastInSubSeq
<1> QED
  BY <1>1, <1>2, <1>3 DEF GetMqttConfig, Replied

\* The last : up to the @, or 0.
LEMMA LastColon ==
    ASSUME NEW U, NEW colon, NEW hi \in Nat
    PROVE  LET T == {i \in 8..hi : U[i] = colon}
               k == IF T # {} THEN Max(T) ELSE 0
           IN  \/ k = 0 /\ \A i \in 8..hi : U[i] # colon
               \/ k \in 8..hi /\ U[k] = colon /\ \A i \in 8..hi : U[i] = colon => i <= k
<1> DEFINE T == {i \in 8..hi : U[i] = colon}
<1>1. CASE T = {}
  BY <1>1
<1>2. CASE T # {}
  <2>1. T \subseteq 0..hi
    OBVIOUS
  <2> DEFINE m == Max(T)
  <2>2. m \in T /\ \A i \in T : i <= m
    <3> HIDE DEF T
    <3> QED
      BY <1>2, <2>1, GreatestNatural
  <2> HIDE DEF m
  <2>3. m \in 8..hi /\ U[m] = colon /\ \A i \in 8..hi : U[i] = colon => i <= m
    BY <2>2
  <2> QED
    BY <1>2, <2>3 DEF m
<1> QED
  BY <1>1, <1>2

\* A name behind the scheme.
LEMMA Schemed ==
    ASSUME NEW user, IsText(user)
    PROVE  LET A == Scheme \o user IN
           /\ IsText(A) /\ Len(A) = 7 + Len(user) /\ Len(user) \in Nat /\ A[1] = "m"
           /\ \A i \in 1..Len(user) : A[i + 7] = user[i]
<1>1. Scheme \in Seq(Chars) /\ Len(Scheme) = 7 /\ user \in Seq(Chars) /\ Len(user) \in Nat
  BY TextFacts DEF IsText
<1>2. Scheme[1] = "m"
  BY DEF Scheme
<1> DEFINE s == Scheme
<1> HIDE DEF s
<1>3. s \in Seq(Chars) /\ Len(s) = 7 /\ user \in Seq(Chars) /\ Len(user) \in Nat /\ s[1] = "m"
  BY <1>1, <1>2 DEF s
<1>3a. s \in Seq(Chars) /\ user \in Seq(Chars) /\ 1 \in 1..Len(s)
  BY <1>3
<1>3b. s \o user \in Seq(Chars) /\ Len(s \o user) = Len(s) + Len(user) /\ (s \o user)[1] = s[1]
  BY ONLY <1>3a
<1>3c. \A i \in 1..Len(user) : (s \o user)[Len(s) + i] = user[i]
  BY ONLY <1>3a
<1> DEFINE A == s \o user
<1> HIDE DEF A
<1>4. A \in Seq(Chars) /\ Len(A) = 7 + Len(user) /\ A[1] = "m"
  BY <1>3, <1>3b DEF A
<1>5. ASSUME NEW i \in 1..Len(user) PROVE A[i + 7] = user[i]
  <2>1. Len(s) + i = i + 7
    BY <1>3
  <2>2. A[Len(s) + i] = user[i]
    BY <1>3c DEF A
  <2> QED
    BY <2>1, <2>2
<1> QED
  BY <1>3, <1>4, <1>5 DEF s, A, IsText

\* A character that is in neither of two texts.
LEMMA NotIn ==
    ASSUME NEW S, NEW s \in Seq(S), NEW t \in Seq(S), NEW c
    PROVE  ~Contains(s \o t, c) <=> (\A i \in 1..Len(s) : s[i] # c) /\ \A i \in 1..Len(t) : t[i] # c
<1> DEFINE u == s \o t
<1>1. /\ Len(s) \in Nat /\ Len(t) \in Nat /\ Len(u) = Len(s) + Len(t)
      /\ \A i \in 1..Len(s) : u[i] = s[i]
  OBVIOUS
<1>2. \A i \in 1..Len(t) : u[Len(s) + i] = t[i]
  OBVIOUS
<1> HIDE DEF u
<1>3. ASSUME ~Contains(u, c), NEW i \in 1..Len(s) PROVE s[i] # c
  BY <1>1, <1>3 DEF Contains
<1>4. ASSUME ~Contains(u, c), NEW i \in 1..Len(t) PROVE t[i] # c
  <2>1. Len(s) + i \in 1..Len(u) /\ u[Len(s) + i] = t[i]
    BY <1>1, <1>2
  <2> QED
    BY <1>4, <2>1 DEF Contains
<1>5. ASSUME \A i \in 1..Len(s) : s[i] # c, \A i \in 1..Len(t) : t[i] # c, NEW j \in 1..Len(u)
      PROVE  u[j] # c
  <2>1. CASE j \in 1..Len(s)
    BY <1>1, <1>5, <2>1
  <2>2. CASE j \notin 1..Len(s)
    <3> DEFINE i == j - Len(s)
    <3>1. i \in 1..Len(t) /\ Len(s) + i = j
      BY <1>1, <2>2
    <3> HIDE DEF i
    <3> QED
      BY <1>2, <1>5, <3>1
  <2> QED
    BY <2>1, <2>2
<1>6. ~Contains(u, c) <=> \A j \in 1..Len(u) : u[j] # c
  BY DEF Contains
<1> QED
  BY <1>3, <1>4, <1>5, <1>6 DEF u

\* The uri, and what is to be answered.
UriText(user, password, host) == Scheme \o user \o <<":">> \o password \o <<"@">> \o host
Answer(c, user, host) == <<IF c THEN "1" ELSE "0", "@">> \o Scheme \o user \o <<"@">> \o host

\* The password is left out of the uri, and nothing else, exactly if it holds neither separator
\* and the user none.
LEMMA ConfigParsed ==
    ASSUME NEW c \in BOOLEAN, NEW user, IsText(user), NEW password, IsText(password),
           NEW host, IsText(host)
    PROVE  GetMqttConfig(c, UriText(user, password, host)) = [reply |-> Answer(c, user, host)]
           <=> ~Contains(user \o password, "@") /\ ~Contains(password, ":")
<1> DEFINE colon == ":"
           sign == "@"
           x == IF c THEN "1" ELSE "0"
           A == Scheme \o user
           B == A \o <<colon>> \o password
           U == B \o <<sign>> \o host
           E == A \o <<sign>> \o host
           at == Place(sign, From(U, 8)) + 7
           T == {i \in 8..at : U[i] = colon}
           k == IF T # {} THEN Max(T) ELSE 0
           K == IF k = 0 THEN <<>> ELSE UpTo(U, k - 1)
           W == From(U, at)
<1>1. x \in Chars /\ colon \in Chars /\ sign \in Chars /\ colon # sign /\ sign # "m"
  BY TextAssumption
<1>2. /\ IsText(A) /\ Len(A) = 7 + Len(user) /\ Len(user) \in Nat /\ A[1] = "m"
      /\ \A i \in 1..Len(user) : A[i + 7] = user[i]
  BY Schemed
<1> HIDE DEF A, colon, sign
<1>3. Uri(A, colon, password, B, sign, host, U, E)
  <2>1. Around(A, colon, password, B)
    BY <1>1, <1>2 DEF Around
  <2>2. IsText(B)
    <3> HIDE DEF B
    <3> QED
      BY <2>1, AroundFacts
  <2>3. Around(B, sign, host, U) /\ Around(A, sign, host, E)
    <3> HIDE DEF B
    <3> QED
      BY <1>1, <1>2, <2>2 DEF Around
  <2> QED
    BY <2>1, <2>3 DEF Uri
<1> DEFINE a == Len(A)
           b == Len(password)
<1> HIDE DEF B, U, E
<1>4. /\ IsText(U) /\ IsText(E) /\ a \in Nat /\ b \in Nat /\ Len(host) \in Nat
      /\ Len(U) = a + b + 2 + Len(host) /\ Len(E) = a + 1 + Len(host)
      /\ U[a + b + 2] = sign
  BY <1>3, UriFacts
<1>5. at \in 8..(a + b + 2) /\ U[at] = sign /\ \A i \in 8..(at - 1) : U[i] # sign
  <2> DEFINE last == a + b + 2
  <2>1. last \in 8..Len(U) /\ U[last] = sign
    BY <1>2, <1>4
  <2> HIDE DEF last, a, b
  <2>2. LET p == Place(sign, From(U, 8)) + (8 - 1) IN
        p \in 8..last /\ U[p] = sign /\ \A i \in 8..(p - 1) : U[i] # sign
    BY <1>4, <2>1, FirstFrom
  <2> DEFINE q == Place(sign, From(U, 8))
  <2> HIDE DEF q
  <2>3. at = q + 7 /\ q + (8 - 1) = q + 7
    BY DEF q
  <2>4. LET p == q + (8 - 1) IN
        p \in 8..last /\ U[p] = sign /\ \A i \in 8..(p - 1) : U[i] # sign
    BY <2>2 DEF q
  <2> HIDE DEF at
  <2> QED
    BY <2>3, <2>4 DEF last
<1> DEFINE place == at
<1>6. at \in Nat /\ Len(U) \in Nat /\ at <= Len(U)
  <2> HIDE DEF at, a, b
  <2> QED
    BY <1>4, <1>5
<1>7. \/ k = 0 /\ \A i \in 8..at : U[i] # colon
      \/ k \in 8..at /\ U[k] = colon /\ \A i \in 8..at : U[i] = colon => i <= k
  <2> HIDE DEF at
  <2> QED
    BY <1>6, LastColon
<1>8. GetMqttConfig(c, U) = [reply |-> Replied(c, k, U, at)]
  <2>1. at = Place("@", From(U, 8)) + 7
    BY DEF sign
  <2>2. k = IF {i \in 8..at : U[i] = ":"} # {} THEN Max({i \in 8..at : U[i] = ":"}) ELSE 0
    BY DEF colon
  <2> HIDE DEF at, k
  <2> QED
    BY <1>6, <2>1, <2>2, ReplyIs DEF sign
<1> HIDE DEF at, k
<1>8a. Replied(c, k, U, at) = <<x, sign>> \o K \o W
  BY DEF Replied, sign
<1>9. Kept(k, U, at) = E <=> /\ \A i \in 8..a : A[i] # sign
                     /\ \A i \in 1..b : password[i] # sign /\ password[i] # colon
  <2>1. Len(A) >= 7 /\ A[1] # sign /\ at \in 8..(Len(A) + Len(password) + 2)
    BY <1>1, <1>2, <1>5
  <2> QED
    BY <1>1, <1>3, <1>5, <1>7, <2>1, PasswordLeftOut
<1>9a. Kept(k, U, at) = K \o W
  BY DEF Kept
<1>10. (\A i \in 8..a : A[i] # sign) <=> \A i \in 1..Len(user) : user[i] # sign
  <2>1. ASSUME \A i \in 8..a : A[i] # sign, NEW i \in 1..Len(user) PROVE user[i] # sign
    <3>1. i + 7 \in 8..a /\ A[i + 7] = user[i]
      BY <1>2
    <3> QED
      BY <2>1, <3>1
  <2>2. ASSUME \A i \in 1..Len(user) : user[i] # sign, NEW i \in 8..a PROVE A[i] # sign
    <3>1. i - 7 \in 1..Len(user) /\ (i - 7) + 7 = i
      BY <1>2
    <3>2. A[(i - 7) + 7] = user[i - 7]
      BY <1>2, <3>1
    <3> QED
      BY <2>2, <3>1, <3>2
  <2> HIDE DEF a
  <2> QED
    BY <2>1, <2>2
<1>11. ~Contains(user \o password, sign) <=> /\ \A i \in 1..Len(user) : user[i] # sign
                                           /\ \A i \in 1..b : password[i] # sign
  <2>1. user \in Seq(Chars) /\ password \in Seq(Chars)
    BY DEF IsText
  <2> QED
    BY <2>1, NotIn
<1>12. ~Contains(password, colon) <=> \A i \in 1..b : password[i] # colon
  BY <1>4 DEF Contains
<1>13. <<x, sign>> \o K \o W = <<x, sign>> \o Scheme \o user \o <<sign>> \o host <=> K \o W = E
  <2>1. IsText(K) /\ IsText(W)
    <3>1. IsText(W)
      <4>1. at \in 1..Len(U)
        BY <1>4, <1>5
      <4> QED
        BY <1>4, <4>1, Rest
    <3>2. CASE k = 0
      BY <3>1, <3>2, TextFacts
    <3>3. CASE k # 0
      <4>1. k - 1 \in 0..Len(U) /\ U \in Seq(Chars)
        BY <1>4, <1>5, <1>7, <3>3 DEF IsText
      <4>2. UpTo(U, k - 1) \in Seq(Chars)
        BY <4>1, Start
      <4> QED
        BY <3>1, <3>3, <4>2 DEF IsText
    <3> QED
      BY <3>2, <3>3
  <2> DEFINE h == <<x, sign>>
             m == <<sign>>
             s == Scheme
  <2> HIDE DEF K, W
  <2>2. h \in Seq(Chars) /\ K \in Seq(Chars) /\ W \in Seq(Chars) /\ m \in Seq(Chars)
        /\ user \in Seq(Chars) /\ host \in Seq(Chars) /\ s \in Seq(Chars)
    BY <1>1, <2>1, TextFacts DEF IsText
  <2> HIDE DEF h, m, s
  <2>3. h \o K \o W = h \o (K \o W) /\ K \o W \in Seq(Chars)
    BY <2>2
  <2>4. h \o s \o user \o m \o host = h \o (s \o user \o m \o host)
    <3>1. h \o s \o user = h \o (s \o user) /\ s \o user \in Seq(Chars) /\ m \o host \in Seq(Chars)
      BY <2>2
    <3> DEFINE su == s \o user
               mh == m \o host
    <3>2. h \o s \o user = h \o su /\ su \in Seq(Chars)
      BY <3>1
    <3> HIDE DEF su
    <3>3. h \in Seq(Chars) /\ su \in Seq(Chars) /\ m \in Seq(Chars) /\ host \in Seq(Chars)
      BY <2>2, <3>2
    <3>4. (h \o su) \o m \o host = h \o (su \o m \o host)
      BY ONLY <3>3, SMTT(30)
    <3> QED
      BY <3>2, <3>4 DEF su
  <2>5. s \o user \o m \o host = E
    BY DEF A, E, s, m
  <2>6. E \in Seq(Chars)
    BY <1>4 DEF IsText
  <2> DEFINE kw == K \o W
  <2>7. h \o K \o W = h \o kw /\ kw \in Seq(Chars)
    BY <2>3
  <2>8. h \o s \o user \o m \o host = h \o E
    BY <2>4, <2>5
  <2> HIDE DEF kw
  <2>9. h \o kw = h \o E <=> kw = E
    BY <1>1, <2>6, <2>7, Cancel, SMTT(30) DEF h
  <2>10. h \o K \o W = h \o s \o user \o m \o host <=> kw = E
    BY <2>7, <2>8, <2>9
  <2> QED
    BY <2>10 DEF h, m, s, kw
<1>14. GetMqttConfig(c, U) = [reply |-> <<x, sign>> \o Scheme \o user \o <<sign>> \o host]
         <=> K \o W = E
  <2> DEFINE g == GetMqttConfig(c, U)
             r == <<x, sign>> \o K \o W
             q == <<x, sign>> \o Scheme \o user \o <<sign>> \o host
             same == K \o W = E
  <2>1. g = [reply |-> r]
    BY <1>8, <1>8a
  <2>2. r = q <=> same
    BY <1>13
  <2> HIDE DEF g, r, q, same
  <2>3. g = [reply |-> q] <=> r = q
    BY <2>1
  <2>4. g = [reply |-> q] <=> same
    BY <2>2, <2>3
  <2> QED
    BY <2>4 DEF g, q, same
<1>15. GetMqttConfig(c, U) = [reply |-> <<x, sign>> \o Scheme \o user \o <<sign>> \o host]
         <=> ~Contains(user \o password, sign) /\ ~Contains(password, colon)
  <2> DEFINE kw == K \o W
             answered == GetMqttConfig(c, U)
                           = [reply |-> <<x, sign>> \o Scheme \o user \o <<sign>> \o host]
  <2>1. answered <=> kw = E
    BY <1>14
  <2>2. kw = E <=> /\ \A i \in 8..a : A[i] # sign
                   /\ \A i \in 1..b : password[i] # sign /\ password[i] # colon
    BY <1>9, <1>9a
  <2> HIDE DEF kw, answered
  <2>3. answered <=> ~Contains(user \o password, sign) /\ ~Contains(password, colon)
    BY <1>10, <1>11, <1>12, <2>1, <2>2
  <2> QED
    BY <2>3 DEF answered
<1> QED
  BY <1>15 DEF U, B, A, colon, sign, x, UriText, Answer

-----------------------------------------------------------------------------
(***************************************************************************)
(* Every request that is handled, and the theorem: what the handler made   *)
(* of it is known until it is done.                                        *)
(***************************************************************************)
\* A request that is being handled.
Served == /\ IsRequest(request) /\ IsText(behind) /\ result = Handled(request, behind)

LEMMA WifiServed ==
    ASSUME Served, request.op = "wifi" PROVE AsMeant(request) <=> Safe(request)
<1> DEFINE s == request.ssid
           p == request.password
<1>1. IsText(s) /\ IsText(p) /\ IsText(behind)
  BY DEF Served, IsRequest
<1>2. result = SetWifiConfig(s \o <<"@">> \o p \o behind \o <<NUL>>, Len(s \o <<"@">> \o p))
  BY DEF Served, Handled, Text
<1>3. AsMeant(request) <=> result = [ssid |-> s, password |-> p]
  BY DEF AsMeant
<1>4. Safe(request) <=> /\ ~Contains(s, "@") /\ Fits(Len(s), SSID_SIZE)
                        /\ p # <<>> => Fits(Len(p \o behind), PASSWORD_SIZE)
  BY DEF Safe
<1> HIDE DEF s, p
<1> QED
  BY <1>1, <1>2, <1>3, <1>4, WifiParsed

LEMMA UriIsText ==
    ASSUME NEW u, IsText(u), NEW p, IsText(p), NEW h, IsText(h)
    PROVE  IsText(Scheme \o u \o <<":">> \o p \o <<"@">> \o h)
<1> DEFINE s == Scheme
           c == <<":">>
           m == <<"@">>
<1>1. s \in Seq(Chars) /\ u \in Seq(Chars) /\ c \in Seq(Chars) /\ p \in Seq(Chars) /\ m \in Seq(Chars)
      /\ h \in Seq(Chars)
  BY TextFacts DEF IsText
<1> HIDE DEF s, c, m
<1>2. s \o u \o c \o p \o m \o h \in Seq(Chars)
  BY ONLY <1>1
<1> QED
  BY <1>2 DEF s, c, m, IsText

LEMMA UriServed ==
    ASSUME Served, request.op = "uri" PROVE AsMeant(request) <=> Safe(request)
<1> DEFINE t == Text(request)
           value == t \o behind \o <<NUL>>
<1>1. IsText(request.user) /\ IsText(request.password) /\ IsText(request.host) /\ IsText(behind)
  BY DEF Served, IsRequest
<1>2. t = Scheme \o request.user \o <<":">> \o request.password \o <<"@">> \o request.host
  BY DEF Text
<1>3. IsText(t)
  BY <1>1, <1>2, UriIsText
<1> HIDE DEF t
<1>4. Whole(t, behind, value)
  BY <1>1, <1>3 DEF Whole
<1>5. result = SetMqttUri(value, Len(t))
  BY DEF Served, Handled, t
<1>6. AsMeant(request) <=> result = [uri |-> t]
  BY DEF AsMeant, t
<1>7. Safe(request) <=> Fits(Len(t \o behind), URI_SIZE)
  BY DEF Safe, t
<1> HIDE DEF value
<1> QED
  BY <1>4, <1>5, <1>6, <1>7, UriParsed

LEMMA SubscribeServed ==
    ASSUME Served, request.op = "subscribe" PROVE AsMeant(request) <=> Safe(request)
<1> DEFINE q == request.qos
           t == request.topic
           text == <<q, "@">> \o t
           value == text \o behind \o <<NUL>>
<1>1. q \in Chars /\ IsText(t) /\ IsText(behind)
  BY DEF Served, IsRequest
<1>2. Marked(q, t, behind, text, value)
  BY <1>1 DEF Marked
<1>3. result = SubscribeMqtt(value, Len(text))
  BY DEF Served, Handled, Text
<1>4. AsMeant(request) <=> result = [topic |-> t, qos |-> q]
  BY DEF AsMeant
<1>5. Safe(request) <=> Fits(Len(t), TOPIC_SIZE)
  BY DEF Safe
<1> HIDE DEF q, t, text, value
<1> QED
  BY <1>2, <1>3, <1>4, <1>5, SubscribeParsed

LEMMA UnsubscribeServed ==
    ASSUME Served, request.op = "unsubscribe" PROVE AsMeant(request) <=> Safe(request)
<1> DEFINE t == request.topic
           value == t \o behind \o <<NUL>>
<1>1. IsText(t) /\ IsText(behind)
  BY DEF Served, IsRequest
<1>2. Whole(t, behind, value)
  BY <1>1 DEF Whole
<1>3. result = UnsubscribeMqtt(value)
  BY DEF Served, Handled, Text
<1>4. AsMeant(request) <=> result = [topic |-> t]
  BY DEF AsMeant
<1>5. Safe(request) <=> behind = <<>>
  BY DEF Safe
<1> HIDE DEF t, value
<1> QED
  BY <1>2, <1>3, <1>4, <1>5, UnsubscribeParsed

LEMMA PublishServed ==
    ASSUME Served, request.op = "publish" PROVE AsMeant(request) <=> Safe(request)
<1> DEFINE q == request.qos
           t == request.topic
           d == request.data
           body == t \o <<"@">> \o d
           text == <<q, "@">> \o body
           value == text \o behind \o <<NUL>>
<1>1. q \in Chars /\ IsText(t) /\ IsText(d) /\ IsText(behind)
  BY DEF Served, IsRequest
<1> HIDE DEF q, t, d
<1>2. IsText(body)
  BY <1>1, TextFacts, Separated DEF IsText
<1>3. Text(request) = <<q, "@">> \o t \o <<"@">> \o d
  BY DEF Text, q, t, d
<1>4. <<q, "@">> \o t \o <<"@">> \o d = text
  <2> DEFINE h == <<q, "@">>
             m == <<"@">>
  <2>1. h \in Seq(Chars) /\ m \in Seq(Chars) /\ t \in Seq(Chars) /\ d \in Seq(Chars)
    BY <1>1, TextFacts DEF IsText
  <2> HIDE DEF h, m
  <2>2. h \o t \o m \o d = h \o (t \o m \o d)
    BY ONLY <2>1
  <2> QED
    BY <2>2 DEF h, m
<1>5. Marked(q, body, behind, text, value)
  BY <1>1, <1>2 DEF Marked
<1>6. result = PublishMqtt(value, Len(text))
  BY <1>3, <1>4 DEF Served, Handled
<1>7. AsMeant(request) <=> result = [topic |-> t, qos |-> q, data |-> d]
  BY DEF AsMeant, t, q, d
<1>8. Safe(request) <=> ~Contains(t, "@") /\ (d = <<>> => behind = <<>>)
  BY DEF Safe, t, d
<1> HIDE DEF text, value
<1> QED
  BY <1>1, <1>5, <1>6, <1>7, <1>8, PublishParsed DEF body

LEMMA ConfigServed ==
    ASSUME Served, request.op = "config" PROVE AsMeant(request) <=> Safe(request)
<1> DEFINE c == request.connected
           user == request.user
           password == request.password
           host == request.host
<1>1. IsText(user) /\ IsText(password) /\ IsText(host) /\ c \in BOOLEAN
  BY DEF Served, IsRequest
<1>2. result = GetMqttConfig(c, UriText(user, password, host))
  BY DEF Served, Handled, Text, UriText
<1>3. AsMeant(request) <=> result = [reply |-> Answer(c, user, host)]
  BY DEF AsMeant, Answer
<1>4. Safe(request) <=> ~Contains(user \o password, "@") /\ ~Contains(password, ":")
  BY DEF Safe
<1> HIDE DEF c, user, password, host
<1> QED
  BY <1>1, <1>2, <1>3, <1>4, ConfigParsed

LEMMA StateServed ==
    ASSUME Served, request.op = "state" PROVE AsMeant(request) <=> Safe(request)
<1> DEFINE c == request.connected
           n == request.ethernet
           ip == request.ip
           ssid == request.ssid
           reply == GetNetworkState(c, n, ip, ssid).reply
<1>1. c \in BOOLEAN /\ n \in BOOLEAN /\ IsText(ssid) /\ IsText(ip) /\ ~Contains(ip, "@")
  BY DEF Served, IsRequest
<1>2. result = GetNetworkState(c, n, ip, ssid)
  BY DEF Served, Handled
<1>3. AsMeant(request) <=>
        LET rest == From(result.reply, 5)
        IN  /\ (result.reply[1] = "1") = c /\ result.reply[2] = "@"
            /\ (result.reply[3] = "1") = n /\ result.reply[4] = "@"
            /\ c => UpTo(rest, Place("@", rest) - 1) = ip
            /\ c /\ ~n => rest = ip \o <<"@">> \o ssid
  BY DEF AsMeant
<1>4. Safe(request)
  BY DEF Safe
<1> HIDE DEF c, n, ip, ssid
<1>5. /\ (reply[1] = "1") = c /\ reply[2] = "@" /\ (reply[3] = "1") = n /\ reply[4] = "@"
      /\ c => UpTo(From(reply, 5), Place("@", From(reply, 5)) - 1) = ip
      /\ c /\ ~n => From(reply, 5) = ip \o <<"@">> \o ssid
  BY <1>1, StateRead
<1> HIDE DEF reply
<1>6. result.reply = reply
  BY <1>2 DEF reply
<1> QED
  BY <1>3, <1>4, <1>5, <1>6

LEMMA MessageServed ==
    ASSUME Served, request.op = "message" PROVE AsMeant(request) <=> Safe(request)
<1> DEFINE t == request.topic
           d == request.data
<1>1. IsText(t) /\ IsText(d) /\ NOTIFY_SIZE \in Nat
  BY TextAssumption DEF Served, IsRequest
<1>2. result = NotifyPack(t, d)
  BY DEF Served, Handled
<1>3. AsMeant(request) <=> result = [message |-> t \o <<"@">> \o d] \/ result = Nothing
  BY DEF AsMeant
<1>4. Safe(request) <=> Len(t \o d) + 1 + Header <= NOTIFY_SIZE \/ Len(t \o d) > NOTIFY_SIZE
  BY DEF Safe
<1> HIDE DEF t, d
<1> QED
  BY <1>1, <1>2, <1>3, <1>4, MessagePacked

LEMMA ByteServed ==
    ASSUME Served, request.op = "byte" PROVE AsMeant(request) <=> Safe(request)
<1>1. request.n \in 0..255
  BY DEF Served, IsRequest
<1>2. result = Itoa16(request.n)
  BY DEF Served, Handled
<1>3. AsMeant(request) <=> 16 * Value(result.text[1]) + Value(result.text[2]) = request.n
  BY DEF AsMeant
<1>4. Safe(request)
  BY DEF Safe
<1> QED
  BY <1>1, <1>2, <1>3, <1>4, ByteWritten

\* What is known of the request that is handled.
TextInv == request # Nothing =>
    request \in Requests /\ behind \in Residues /\ result = Handled(request, behind)

LEMMA TextSafe == TextInv => ParsedAsMeant
<1> SUFFICES ASSUME TextInv, request # Nothing PROVE AsMeant(request) <=> Safe(request)
  BY DEF ParsedAsMeant
<1>1. Served
  BY TextAssumption DEF TextInv, Served
<1>2. request.op \in {"wifi", "uri", "subscribe", "unsubscribe", "publish", "config", "state",
                    "message", "byte"}
  BY <1>1 DEF Served, IsRequest
<1> QED
  BY <1>1, <1>2, WifiServed, UriServed, SubscribeServed, UnsubscribeServed, PublishServed, ConfigServed,
     StateServed, MessageServed, ByteServed

\* Whatever the texts that clients send, and the residue behind them: a request comes out as the guide
\* means it exactly if it is safe (TextCommands.tla, ParsedAsMeant).
THEOREM TextsParsed == GatewaySpec => []ParsedAsMeant
<1>1. GatewayInit => TextInv
  BY DEF GatewayInit, TextInit, TextInv
<1>2. TextInv /\ [GatewayNext]_gatewayVars => TextInv'
  <2> SUFFICES ASSUME TextInv, [GatewayNext]_gatewayVars PROVE TextInv'
    OBVIOUS
  <2>1. CASE UNCHANGED textVars
    BY <2>1 DEF TextInv, textVars
  <2>2. CASE TextReset
    BY <2>2 DEF TextInv, TextReset
  <2>3. CASE TextNext
    BY <2>2, <2>3 DEF TextInv, TextNext, Done, Serve
  <2> QED
    BY <2>1, <2>2, <2>3 DEF GatewayNext, Links, Uploads, Texts, Restart, gatewayVars
<1>3. TextInv => ParsedAsMeant
  BY TextSafe
<1> QED
  BY <1>1, <1>2, <1>3, PTL DEF GatewaySpec
=============================================================================
