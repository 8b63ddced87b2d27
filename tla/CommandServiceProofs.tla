----------------------- MODULE CommandServiceProofs -----------------------
(***************************************************************************)
(* What follows from the promise of CommandService alone, however it is    *)
(* implemented: no command is forgotten or executed twice, and commands    *)
(* are executed in the order in which they were written.  The proofs about *)
(* CommandChannel take these facts over through its refinement mapping.    *)
(***************************************************************************)
EXTENDS CommandService, SequenceTheorems, TLAPS

Typed == /\ complete \in Seq(Cmd) /\ waiting \in Seq(Cmd) /\ executed \in Seq(Cmd)
         /\ running \subseteq Cmd /\ lost \subseteq Cmd

\* Every command written completely is in exactly one place.
Accounted == /\ Range(complete) = Range(executed) \cup Pending \cup lost
             /\ Range(executed) \cap (Pending \cup lost) = {}
             /\ Range(waiting) \cap (running \cup lost) = {}
             /\ running \cap lost = {}

\* No command waits twice: the one that is taken is not also left behind.
WaitsOnce == \A i, j \in DOMAIN waiting : waiting[i] = waiting[j] => i = j

\* In the sequence s, a comes before b.
Before(s, a, b) == \E p, q \in DOMAIN s : p < q /\ s[p] = a /\ s[q] = b

\* Executed, running, waiting: each in the order of completion, and what was
\* executed before what runs, what runs before what waits.
Ordered == /\ \A i, j \in DOMAIN executed : i < j => Before(complete, executed[i], executed[j])
           /\ \A i, j \in DOMAIN waiting : i < j => Before(complete, waiting[i], waiting[j])
           /\ \A a \in Range(executed), b \in Pending : Before(complete, a, b)
           /\ \A a \in running, b \in Range(waiting) : Before(complete, a, b)

ServiceInv == Typed /\ Accounted /\ WaitsOnce /\ Ordered

LEMMA RangeAppend ==
    ASSUME NEW s \in Seq(Cmd), NEW c \in Cmd
    PROVE  /\ Range(Append(s, c)) = Range(s) \cup {c} /\ Append(s, c) \in Seq(Cmd)
           /\ DOMAIN s = 1..Len(s) /\ DOMAIN Append(s, c) = 1..(Len(s) + 1)
           /\ \A i \in 1..Len(s) : Append(s, c)[i] = s[i]
           /\ Append(s, c)[Len(s) + 1] = c
           /\ Len(s) \in Nat
<1> DEFINE t == Append(s, c)
<1>1. /\ t \in Seq(Cmd) /\ Len(t) = Len(s) + 1 /\ Len(s) \in Nat
      /\ \A i \in 1..Len(s) : t[i] = s[i]
      /\ t[Len(s) + 1] = c
  BY AppendProperties, LenProperties
<1>2. DOMAIN s = 1..Len(s) /\ DOMAIN t = 1..(Len(s) + 1)
  BY <1>1, LenProperties
<1> HIDE DEF t
<1>3. Range(t) = Range(s) \cup {c}
  <2>1. ASSUME NEW x \in Range(t) PROVE x \in Range(s) \cup {c}
    <3>1. PICK i \in 1..(Len(s) + 1) : x = t[i]
      BY <1>2 DEF Range
    <3>2. i \in 1..Len(s) \/ i = Len(s) + 1
      BY <1>1
    <3> QED
      BY <1>1, <1>2, <3>1, <3>2 DEF Range
  <2>2. c \in Range(t)
    <3>1. Len(s) + 1 \in 1..(Len(s) + 1)
      BY <1>1
    <3> QED
      BY <1>1, <1>2, <3>1 DEF Range
  <2>3. ASSUME NEW x \in Range(s) PROVE x \in Range(t)
    <3>1. PICK i \in 1..Len(s) : x = s[i]
      BY <1>2 DEF Range
    <3>2. i \in 1..(Len(s) + 1)
      BY <1>1
    <3> QED
      BY <1>1, <1>2, <3>1, <3>2 DEF Range
  <2> QED
    BY <2>1, <2>2, <2>3
<1> QED
  BY <1>1, <1>2, <1>3 DEF t

LEMMA RangeTail ==
    ASSUME NEW s \in Seq(Cmd), s # <<>>
    PROVE  /\ Tail(s) \in Seq(Cmd) /\ Head(s) = s[1] /\ Head(s) \in Cmd
           /\ Len(s) \in Nat /\ Len(s) > 0
           /\ DOMAIN s = 1..Len(s) /\ DOMAIN Tail(s) = 1..(Len(s) - 1)
           /\ \A i \in 1..(Len(s) - 1) : Tail(s)[i] = s[i + 1]
           /\ Range(s) = Range(Tail(s)) \cup {Head(s)}
<1> DEFINE t == Tail(s)
<1>1. /\ t \in Seq(Cmd) /\ Head(s) = s[1] /\ Head(s) \in Cmd
      /\ Len(t) = Len(s) - 1 /\ Len(s) \in Nat /\ Len(s) > 0
      /\ \A i \in 1..(Len(s) - 1) : t[i] = s[i + 1]
  BY HeadTailProperties, LenProperties, EmptySeq
<1>2. DOMAIN s = 1..Len(s) /\ DOMAIN t = 1..(Len(s) - 1)
  BY <1>1, LenProperties
<1> HIDE DEF t
<1>3. ASSUME NEW x \in Range(s) PROVE x \in Range(t) \cup {Head(s)}
  <2>1. PICK i \in 1..Len(s) : x = s[i]
    BY <1>2 DEF Range
  <2>2. CASE i = 1
    BY <1>1, <2>1, <2>2
  <2>3. CASE i # 1
    <3>1. i - 1 \in 1..(Len(s) - 1) /\ (i - 1) + 1 = i
      BY <1>1, <2>3
    <3>2. t[i - 1] = x
      BY <1>1, <2>1, <3>1
    <3> QED
      BY <1>2, <3>1, <3>2 DEF Range
  <2> QED
    BY <2>2, <2>3
<1>4. ASSUME NEW x \in Range(t) PROVE x \in Range(s)
  <2>1. PICK i \in 1..(Len(s) - 1) : x = t[i]
    BY <1>2 DEF Range
  <2>2. i + 1 \in 1..Len(s) /\ x = s[i + 1]
    BY <1>1, <2>1
  <2> QED
    BY <1>2, <2>2 DEF Range
<1>5. Head(s) \in Range(s)
  <2>1. 1 \in 1..Len(s)
    BY <1>1
  <2> QED
    BY <1>1, <1>2, <2>1 DEF Range
<1> QED
  BY <1>1, <1>2, <1>3, <1>4, <1>5 DEF t

LEMMA RangeEmpty == Range(<<>>) = {} /\ <<>> \in Seq(Cmd) /\ DOMAIN <<>> = {}
  BY DEF Range

LEMMA ServiceInit == Init => ServiceInv
  BY RangeEmpty DEF Init, ServiceInv, Typed, Accounted, WaitsOnce, Ordered, Pending

\* A new completion comes after everything completed so far.
LEMMA LaterCompletion ==
    ASSUME Typed, NEW c \in Cmd, complete' = Append(complete, c)
    PROVE  /\ complete' \in Seq(Cmd) /\ Range(complete)' = Range(complete) \cup {c}
           /\ \A a, b \in Cmd : Before(complete, a, b) => Before(complete', a, b)
           /\ \A a \in Range(complete) : Before(complete', a, c)
<1> DEFINE n == Len(complete)
<1>1. /\ complete' \in Seq(Cmd) /\ Range(complete') = Range(complete) \cup {c}
      /\ DOMAIN complete = 1..n /\ DOMAIN complete' = 1..(n + 1)
      /\ \A i \in 1..n : complete'[i] = complete[i]
      /\ complete'[n + 1] = c
      /\ n \in Nat
  BY RangeAppend DEF Typed
<1> HIDE DEF n
<1>2. ASSUME NEW a \in Cmd, NEW b \in Cmd, Before(complete, a, b) PROVE Before(complete', a, b)
  <2>1. PICK p \in 1..n, q \in 1..n : p < q /\ complete[p] = a /\ complete[q] = b
    BY <1>1, <1>2 DEF Before
  <2>2. p \in 1..(n + 1) /\ q \in 1..(n + 1)
    BY <1>1
  <2> QED
    BY <1>1, <2>1, <2>2 DEF Before
<1>3. ASSUME NEW a \in Range(complete) PROVE Before(complete', a, c)
  <2>1. PICK p \in 1..n : complete[p] = a
    BY <1>1 DEF Range
  <2>2. p \in 1..(n + 1) /\ n + 1 \in 1..(n + 1) /\ p < n + 1
    BY <1>1
  <2> QED
    BY <1>1, <2>1, <2>2 DEF Before
<1>4. Range(complete)' = Range(complete')
  BY DEF Range
<1> QED
  BY <1>1, <1>2, <1>3, <1>4

LEMMA ArrivalInv ==
    ASSUME ServiceInv, NEW c \in Cmd, Accept(c) \/ Refuse(c) \/ ArriveEarly(c)
    PROVE  ServiceInv'
<1>1. /\ Typed /\ Accounted /\ WaitsOnce /\ Ordered
  BY DEF ServiceInv
<1>2. /\ complete' = Append(complete, c) /\ c \notin Range(complete)
      /\ UNCHANGED <<running, executed>>
  BY DEF Accept, Refuse, ArriveEarly
<1>3. /\ complete' \in Seq(Cmd) /\ Range(complete)' = Range(complete) \cup {c}
      /\ \A a, b \in Cmd : Before(complete, a, b) => Before(complete', a, b)
      /\ \A a \in Range(complete) : Before(complete', a, c)
  BY <1>1, <1>2, LaterCompletion
<1>4. Range(executed)' = Range(executed)
  BY <1>2 DEF Range
<1>5. /\ DOMAIN executed = 1..Len(executed) /\ DOMAIN waiting = 1..Len(waiting)
      /\ \A i \in DOMAIN executed : executed[i] \in Cmd
      /\ \A i \in DOMAIN waiting : waiting[i] \in Cmd
  BY <1>1, LenProperties, ElementOfSeq DEF Typed
<1>6. Range(executed) \subseteq Cmd /\ Range(waiting) \subseteq Cmd /\ running \subseteq Cmd
  BY <1>1, <1>5 DEF Range, Typed
<1>7. CASE UNCHANGED waiting /\ lost' = lost \cup {c}
  <2>1. Range(waiting)' = Range(waiting)
    BY <1>7 DEF Range
  <2>2. Typed'
    BY <1>1, <1>2, <1>3, <1>7 DEF Typed
  <2>3. Accounted'
    BY <1>1, <1>2, <1>3, <1>4, <1>7, <2>1 DEF Accounted, Pending
  <2>4. WaitsOnce'
    BY <1>1, <1>7 DEF WaitsOnce
  <2>5. Ordered'
    <3>1. \A i, j \in DOMAIN executed : i < j => Before(complete', executed[i], executed[j])
      BY <1>1, <1>2, <1>3, <1>5 DEF Ordered
    <3>2. \A i, j \in DOMAIN waiting : i < j => Before(complete', waiting[i], waiting[j])
      BY <1>1, <1>3, <1>5, <1>7 DEF Ordered
    <3>3. \A a \in Range(executed), b \in Pending : Before(complete', a, b)
      BY <1>1, <1>3, <1>6 DEF Ordered, Pending
    <3>4. \A a \in running, b \in Range(waiting) : Before(complete', a, b)
      BY <1>1, <1>3, <1>6 DEF Ordered
    <3> QED
      BY <1>2, <1>4, <1>7, <2>1, <3>1, <3>2, <3>3, <3>4 DEF Ordered, Pending
  <2> QED
    BY <2>2, <2>3, <2>4, <2>5 DEF ServiceInv
<1>8. CASE waiting' = Append(waiting, c) /\ UNCHANGED lost
  <2> DEFINE n == Len(waiting)
  <2>1. /\ waiting' \in Seq(Cmd) /\ Range(waiting') = Range(waiting) \cup {c}
        /\ DOMAIN waiting = 1..n /\ DOMAIN waiting' = 1..(n + 1)
        /\ \A i \in 1..n : waiting'[i] = waiting[i]
        /\ waiting'[n + 1] = c
        /\ n \in Nat
    BY <1>1, <1>8, RangeAppend DEF Typed
  <2> HIDE DEF n
  <2>2. Range(waiting)' = Range(waiting) \cup {c}
    BY <2>1 DEF Range
  <2>3. \A i \in 1..(n + 1) : i \in 1..n \/ i = n + 1
    BY <2>1
  <2>4. Typed'
    BY <1>1, <1>2, <1>3, <1>8, <2>1 DEF Typed
  <2>5. Accounted'
    BY <1>1, <1>2, <1>3, <1>4, <1>8, <2>2 DEF Accounted, Pending
  <2>6. \A i \in 1..n : waiting[i] # c /\ waiting[i] \in Range(complete)
    <3>1. \A i \in 1..n : waiting[i] \in Range(waiting)
      BY <2>1 DEF Range
    <3> QED
      BY <1>1, <1>2, <3>1 DEF Accounted, Pending
  <2>7. WaitsOnce'
    BY <1>1, <2>1, <2>3, <2>6 DEF WaitsOnce
  <2>8. Ordered'
    <3>1. \A i, j \in DOMAIN executed : i < j => Before(complete', executed[i], executed[j])
      BY <1>1, <1>2, <1>3, <1>5 DEF Ordered
    <3>2. ASSUME NEW i \in 1..(n + 1), NEW j \in 1..(n + 1), i < j
          PROVE  Before(complete', waiting'[i], waiting'[j])
      <4>1. i \in 1..n
        BY <2>1, <3>2
      <4>2. CASE j \in 1..n
        <5>1. Before(complete, waiting[i], waiting[j])
          BY <1>1, <2>1, <3>2, <4>1, <4>2 DEF Ordered
        <5>2. waiting[i] \in Cmd /\ waiting[j] \in Cmd
          BY <1>5, <2>1, <4>1, <4>2
        <5> QED
          BY <1>3, <2>1, <4>1, <4>2, <5>1, <5>2
      <4>3. CASE j = n + 1
        BY <1>3, <2>1, <2>6, <4>1, <4>3
      <4> QED
        BY <2>3, <4>2, <4>3
    <3>3. \A a \in Range(executed) : a \in Range(complete)
      BY <1>1 DEF Accounted
    <3>4. \A a \in Range(executed), b \in Pending \cup {c} : Before(complete', a, b)
      BY <1>1, <1>3, <1>6, <3>3 DEF Ordered, Pending
    <3>5. \A a \in running : a \in Range(complete)
      BY <1>1 DEF Accounted, Pending
    <3>6. \A a \in running, b \in Range(waiting) \cup {c} : Before(complete', a, b)
      BY <1>1, <1>3, <1>6, <3>5 DEF Ordered
    <3> QED
      BY <1>2, <1>4, <2>1, <2>2, <3>1, <3>2, <3>4, <3>6 DEF Ordered, Pending
  <2> QED
    BY <2>4, <2>5, <2>7, <2>8 DEF ServiceInv
<1> QED
  BY <1>7, <1>8 DEF Accept, Refuse, ArriveEarly

\* Taking the first of the queue: it waits nowhere else and is older than the rest.
LEMMA TakeInv == ServiceInv /\ Take => ServiceInv'
<1> SUFFICES ASSUME ServiceInv, Take PROVE ServiceInv'
  OBVIOUS
<1> DEFINE n == Len(waiting)
           h == Head(waiting)
<1>1. Typed /\ Accounted /\ WaitsOnce /\ Ordered
  BY DEF ServiceInv
<1>2. /\ running = {} /\ waiting # <<>> /\ running' = {h} /\ waiting' = Tail(waiting)
      /\ UNCHANGED <<complete, executed, lost>>
  BY DEF Take
<1>3. /\ waiting' \in Seq(Cmd) /\ h = waiting[1] /\ h \in Cmd
      /\ n \in Nat /\ n > 0
      /\ DOMAIN waiting = 1..n /\ DOMAIN waiting' = 1..(n - 1)
      /\ \A i \in 1..(n - 1) : waiting'[i] = waiting[i + 1]
      /\ Range(waiting) = Range(waiting') \cup {h}
  BY <1>1, <1>2, RangeTail DEF Typed
<1>4. Range(waiting)' = Range(waiting')
  BY DEF Range
<1> HIDE DEF n, h
<1>5. /\ 1 \in 1..n
      /\ \A i \in 1..(n - 1) : i + 1 \in 1..n /\ 1 < i + 1
      /\ \A i, j \in 1..(n - 1) : (i < j => i + 1 < j + 1) /\ (i + 1 = j + 1 => i = j)
  BY <1>3
<1>6. h \notin Range(waiting')
  <2> SUFFICES ASSUME NEW i \in 1..(n - 1), waiting'[i] = h PROVE FALSE
    BY <1>3 DEF Range
  <2>1. i + 1 \in 1..n /\ 1 < i + 1 /\ i + 1 \in Int
    BY <1>5
  <2>2. waiting[i + 1] = waiting[1]
    BY <1>3
  <2>3. i + 1 = 1
    BY <1>1, <1>3, <1>5, <2>1, <2>2 DEF WaitsOnce
  <2> QED
    BY <2>1, <2>3
<1>7. Pending' = Pending /\ Range(executed)' = Range(executed) /\ Range(complete)' = Range(complete)
  BY <1>2, <1>3, <1>4 DEF Pending, Range
<1>8. Typed'
  BY <1>1, <1>2, <1>3 DEF Typed
<1>9. Accounted'
  BY <1>1, <1>2, <1>3, <1>4, <1>6, <1>7 DEF Accounted, Pending
<1>10. WaitsOnce'
  <2> SUFFICES ASSUME NEW i \in 1..(n - 1), NEW j \in 1..(n - 1), waiting'[i] = waiting'[j]
               PROVE  i = j
    BY <1>3 DEF WaitsOnce
  <2>1. waiting[i + 1] = waiting[j + 1] /\ i + 1 \in DOMAIN waiting /\ j + 1 \in DOMAIN waiting
    BY <1>3, <1>5
  <2>2. i + 1 = j + 1
    BY <1>1, <2>1 DEF WaitsOnce
  <2> QED
    BY <1>5, <2>2
<1>11. Ordered'
  <2>1. \A i, j \in DOMAIN executed' : i < j => Before(complete', executed'[i], executed'[j])
    BY <1>1, <1>2 DEF Ordered
  <2>2. \A i, j \in DOMAIN waiting' : i < j => Before(complete', waiting'[i], waiting'[j])
    BY <1>1, <1>2, <1>3, <1>5 DEF Ordered
  <2>3. \A a \in Range(executed), b \in Pending : Before(complete', a, b)
    BY <1>1, <1>2 DEF Ordered
  <2>4. ASSUME NEW b \in Range(waiting') PROVE Before(complete', h, b)
    <3>1. PICK i \in 1..(n - 1) : b = waiting[i + 1]
      BY <1>3 DEF Range
    <3> QED
      BY <1>1, <1>2, <1>3, <1>5, <3>1 DEF Ordered
  <2> QED
    BY <1>2, <1>4, <1>7, <2>1, <2>2, <2>3, <2>4 DEF Ordered
<1> QED
  BY <1>8, <1>9, <1>10, <1>11 DEF ServiceInv

\* What is executed is younger than everything executed before.
LEMMA ExecutionOrdered ==
    ASSUME ServiceInv, NEW c \in Cmd, running = {c}, executed' = Append(executed, c)
    PROVE  /\ executed' \in Seq(Cmd) /\ Range(executed)' = Range(executed) \cup {c}
           /\ \A i, j \in DOMAIN executed' : i < j => Before(complete, executed'[i], executed'[j])
           /\ \A a \in Range(executed)', b \in Range(waiting) : Before(complete, a, b)
<1> DEFINE n == Len(executed)
<1>1. Typed /\ Ordered
  BY DEF ServiceInv
<1>2. /\ executed' \in Seq(Cmd) /\ Range(executed') = Range(executed) \cup {c}
      /\ DOMAIN executed = 1..n /\ DOMAIN executed' = 1..(n + 1)
      /\ \A i \in 1..n : executed'[i] = executed[i]
      /\ executed'[n + 1] = c
      /\ n \in Nat
  BY <1>1, RangeAppend DEF Typed
<1> HIDE DEF n
<1>3. Range(executed)' = Range(executed')
  BY DEF Range
<1>4. ASSUME NEW i \in 1..(n + 1), NEW j \in 1..(n + 1), i < j
      PROVE  Before(complete, executed'[i], executed'[j])
  <2>1. i \in 1..n /\ (j \in 1..n \/ j = n + 1)
    BY <1>2, <1>4
  <2>2. CASE j \in 1..n
    BY <1>1, <1>2, <1>4, <2>1, <2>2 DEF Ordered
  <2>3. CASE j = n + 1
    <3>1. executed[i] \in Range(executed)
      BY <1>2, <2>1 DEF Range
    <3> QED
      BY <1>1, <1>2, <2>1, <2>3, <3>1 DEF Ordered, Pending
  <2> QED
    BY <2>1, <2>2, <2>3
<1>5. \A a \in Range(executed) \cup {c}, b \in Range(waiting) : Before(complete, a, b)
  BY <1>1 DEF Ordered, Pending
<1> QED
  BY <1>2, <1>3, <1>4, <1>5

LEMMA ExecuteInv ==
    ASSUME ServiceInv, NEW c \in Cmd, Execute(c) PROVE ServiceInv'
<1>1. Typed /\ Accounted /\ WaitsOnce /\ Ordered
  BY DEF ServiceInv
<1>2. /\ running = {c} /\ running' = {} /\ executed' = Append(executed, c)
      /\ UNCHANGED <<complete, waiting, lost>>
  BY DEF Execute
<1>3. /\ executed' \in Seq(Cmd) /\ Range(executed)' = Range(executed) \cup {c}
      /\ \A i, j \in DOMAIN executed' : i < j => Before(complete, executed'[i], executed'[j])
      /\ \A a \in Range(executed)', b \in Range(waiting) : Before(complete, a, b)
  BY <1>2, ExecutionOrdered
<1>4. Range(waiting)' = Range(waiting) /\ Range(complete)' = Range(complete)
  BY <1>2 DEF Range
<1>5. Typed'
  BY <1>1, <1>2, <1>3 DEF Typed
<1>6. Accounted'
  BY <1>1, <1>2, <1>3, <1>4 DEF Accounted, Pending
<1>7. WaitsOnce'
  BY <1>1, <1>2 DEF WaitsOnce
<1>8. Ordered'
  <2>1. \A i, j \in DOMAIN waiting' : i < j => Before(complete', waiting'[i], waiting'[j])
    BY <1>1, <1>2 DEF Ordered
  <2> QED
    BY <1>2, <1>3, <1>4, <2>1 DEF Ordered, Pending
<1> QED
  BY <1>5, <1>6, <1>7, <1>8 DEF ServiceInv

\* A restart leaves only what has been executed.
LEMMA RestartInv ==
    ASSUME ServiceInv, Restart \/ \E c \in Cmd : ExecuteRestart(c) PROVE ServiceInv'
<1>1. Typed /\ Accounted /\ WaitsOnce /\ Ordered
  BY DEF ServiceInv
<1>2. /\ waiting' = <<>> /\ running' = {} /\ complete' = complete
  BY DEF Restart, ExecuteRestart
<1>3. Range(waiting)' = {} /\ Range(complete)' = Range(complete) /\ DOMAIN waiting' = {}
  BY <1>2, RangeEmpty DEF Range
<1>4. Range(waiting) \subseteq Cmd
  BY <1>1, ElementOfSeq, LenProperties DEF Range, Typed
<1>5. WaitsOnce'
  BY <1>3 DEF WaitsOnce
<1>6. CASE Restart
  <2>1. lost' = lost \cup Pending /\ executed' = executed
    BY <1>6 DEF Restart
  <2>2. Range(executed)' = Range(executed)
    BY <2>1 DEF Range
  <2>3. Typed'
    BY <1>1, <1>2, <1>4, <2>1, RangeEmpty DEF Typed, Pending
  <2>4. Accounted'
    BY <1>1, <1>2, <1>3, <2>1, <2>2 DEF Accounted, Pending
  <2>5. Ordered'
    BY <1>1, <1>2, <1>3, <2>1 DEF Ordered, Pending
  <2> QED
    BY <1>5, <2>3, <2>4, <2>5 DEF ServiceInv
<1>7. ASSUME NEW c \in Cmd, ExecuteRestart(c) PROVE ServiceInv'
  <2>1. running = {c} /\ executed' = Append(executed, c) /\ lost' = lost \cup Range(waiting)
    BY <1>7 DEF ExecuteRestart
  <2>2. /\ executed' \in Seq(Cmd) /\ Range(executed)' = Range(executed) \cup {c}
        /\ \A i, j \in DOMAIN executed' : i < j => Before(complete, executed'[i], executed'[j])
    BY <2>1, ExecutionOrdered
  <2>3. Typed'
    BY <1>1, <1>2, <1>4, <2>1, <2>2, RangeEmpty DEF Typed
  <2>4. Accounted'
    BY <1>1, <1>2, <1>3, <2>1, <2>2 DEF Accounted, Pending
  <2>5. Ordered'
    BY <1>2, <1>3, <2>2 DEF Ordered, Pending
  <2> QED
    BY <1>5, <2>3, <2>4, <2>5 DEF ServiceInv
<1> QED
  BY <1>6, <1>7

LEMMA ServiceNext == ServiceInv /\ [Next]_vars => ServiceInv'
<1> SUFFICES ASSUME ServiceInv, [Next]_vars PROVE ServiceInv'
  OBVIOUS
<1>1. CASE UNCHANGED vars
  <2>1. UNCHANGED <<complete, waiting, running, executed, lost>>
    BY <1>1 DEF vars
  <2>2. Typed' /\ WaitsOnce'
    BY <2>1 DEF ServiceInv, Typed, WaitsOnce
  <2>3. /\ Range(complete)' = Range(complete) /\ Range(executed)' = Range(executed)
        /\ Range(waiting)' = Range(waiting) /\ Pending' = Pending
    BY <2>1 DEF Range, Pending
  <2>4. Accounted' /\ Ordered'
    BY <2>1, <2>3 DEF ServiceInv, Accounted, Ordered
  <2> QED
    BY <2>2, <2>4 DEF ServiceInv
<1>2. CASE \E c \in Cmd : Accept(c) \/ Refuse(c) \/ ArriveEarly(c)
  BY <1>2, ArrivalInv
<1>3. CASE \E c \in Cmd : Execute(c)
  BY <1>3, ExecuteInv
<1>4. CASE Restart \/ \E c \in Cmd : ExecuteRestart(c)
  BY <1>4, RestartInv
<1>5. CASE Take
  BY <1>5, TakeInv
<1> QED
  BY <1>1, <1>2, <1>3, <1>4, <1>5 DEF Next

\* The promise alone already forgets no command, executes none twice and keeps
\* the order of writing, whatever is dropped at a full queue or by a restart.
THEOREM ServiceSound == Spec => []ServiceInv
  BY ServiceInit, ServiceNext, PTL DEF Spec
=============================================================================
