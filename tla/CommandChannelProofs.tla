----------------------- MODULE CommandChannelProofs -----------------------
(***************************************************************************)
(* Proofs about CommandChannel, for every set of commands, every capacity  *)
(* and every way of splitting commands into writes.                        *)
(***************************************************************************)
EXTENDS CommandChannel, SequenceTheorems, TLAPS

\* Units(c, first, n) is a sequence of n units of c, numbered from first.
LEMMA UnitsSeq ==
    \A c \in Cmd, first \in Nat, n \in Nat : Units(c, first, n) \in Seq(Unit)
  BY DEF Units, Unit

LEMMA UnitsLen ==
    \A c \in Cmd, first \in Nat, n \in Nat : Len(Units(c, first, n)) = n
  BY DEF Units

LEMMA UnitsHead ==
    \A c \in Cmd, first \in Nat, n \in Nat \ {0} :
        /\ Units(c, first, n)[1] = [cmd |-> c, at |-> first]
        /\ CmdOf(Units(c, first, n)) = c
<1> TAKE c \in Cmd, first \in Nat, n \in Nat \ {0}
<1>1. Units(c, first, n)[1] = [cmd |-> c, at |-> first]
  BY DEF Units
<1> QED
  BY <1>1 DEF CmdOf

\* Cutting a command anywhere and putting it together gives it back.
LEMMA UnitsConcat ==
    ASSUME NEW c \in Cmd, NEW k \in Nat, NEW n \in Nat
    PROVE  Units(c, 1, k) \o Units(c, k + 1, n) = Units(c, 1, k + n)
  BY DEF Units

\* What get_ble_command leaves in its buffer, in or beyond it.
Announced(message) ==
    Len(message) > CMD_MAX_LEN =>
        \E c \in Cmd : Declared[c] >= Len(message) /\ message = Units(c, 1, Len(message))

\* One call of get_ble_command while the receiver follows the client: it
\* returns 0 exactly when the declared length is reached, and then the message
\* is the whole command; otherwise the receiver goes on following the client.
LEMMA GetBleCommandFollows ==
    ASSUME TypeOK, ReceiverFollowsClient, ~OutOfBounds,
           NEW c \in Cmd, NEW n \in 0..Mtu,
           writing \in {c, NoCmd},
           writing = NoCmd => sent[c] = 0 /\ n > 0
    PROVE  LET r == GetBleCommand(Units(c, sent[c] + 1, n))
           IN  /\ r.message \in Seq(Unit) /\ r.length \in Int
               /\ Announced(r.message)
               /\ r.ret = 0 /\ Len(r.message) <= CMD_MAX_LEN <=> Completes(c, n)
               /\ r.ret = 0 => r.message = Whole(c)
               /\ IF sent[c] + n < Declared[c]
                  THEN /\ r.message = Units(c, 1, sent[c] + n)
                       /\ r.length = Declared[c] - (sent[c] + n)
                  ELSE r.message = <<>> \/ r.length <= 0
<1> DEFINE k == sent[c]
           d == Declared[c]
           value == Units(c, k + 1, n)
           r == GetBleCommand(value)
<1>1. /\ n \in Nat /\ k \in Nat /\ d \in Nat /\ CMD_MAX_LEN \in Nat
      /\ n <= CMD_MAX_LEN /\ d = Declared[c]
  BY ChannelAssumption DEF TypeOK
<1>20. Len(Units(c, 1, d)) = d
  BY <1>1, UnitsLen
<1> SUFFICES /\ r.message \in Seq(Unit) /\ r.length \in Int
             /\ \/ ~(Len(r.message) > CMD_MAX_LEN)
                \/ k + n <= d /\ r.message = Units(c, 1, k + n)
             /\ r.ret = 0 <=> n > 0 /\ k + n = d
             /\ r.ret = 0 => r.message = Units(c, 1, d)
             /\ IF k + n < d
                THEN r.message = Units(c, 1, k + n) /\ r.length = d - (k + n)
                ELSE r.message = <<>> \/ r.length <= 0
  <2> HIDE DEF r
  <2>1. SUFFICES ASSUME \/ ~(Len(r.message) > CMD_MAX_LEN)
                        \/ k + n <= d /\ r.message = Units(c, 1, k + n),
                        r.ret = 0 <=> n > 0 /\ k + n = d,
                        r.ret = 0 => r.message = Units(c, 1, d)
                 PROVE  /\ Announced(r.message)
                        /\ r.ret = 0 /\ Len(r.message) <= CMD_MAX_LEN <=> Completes(c, n)
    BY DEF Whole, r
  <2>2. Announced(r.message)
    <3>1. CASE ~(Len(r.message) > CMD_MAX_LEN)
      BY <3>1 DEF Announced
    <3>2. CASE k + n <= d /\ r.message = Units(c, 1, k + n)
      <4>1. Len(r.message) = k + n
        <5>1. k + n \in Nat /\ 1 \in Nat
          BY <1>1
        <5> QED
          BY <3>2, <5>1, UnitsLen
      <4>2. Declared[c] >= Len(r.message)
        BY <1>1, <3>2, <4>1
      <4> QED
        BY <3>2, <4>1, <4>2 DEF Announced
    <3> QED
      BY <2>1, <3>1, <3>2
  <2>3. r.ret = 0 => Len(r.message) = d
    BY <1>20, <2>1
  <2>4. r.ret = 0 /\ Len(r.message) <= CMD_MAX_LEN <=> n > 0 /\ k + n = d /\ d <= CMD_MAX_LEN
    BY <2>1, <2>3
  <2> QED
    BY <2>2, <2>4 DEF Completes
<1>2. /\ recvMessage \in Seq(Unit) /\ recvLength \in Int
      /\ Len(recvMessage) <= CMD_MAX_LEN
  BY ChannelAssumption, LenProperties DEF TypeOK, OutOfBounds
<1>3. IF writing = c
      THEN /\ k > 0
           /\ IF k < d THEN recvMessage = Units(c, 1, k) /\ recvLength = d - k
                       ELSE recvMessage = <<>> \/ recvLength <= 0
      ELSE k = 0 /\ n > 0
  BY ChannelAssumption DEF ReceiverFollowsClient
<1> HIDE DEF k, d
<1> DEFINE first == k + 1
           last == k + n
<1>14. first \in Nat /\ first = k + 1 /\ last \in Nat /\ last = k + n
  BY <1>1
<1>15. value = Units(c, first, n)
  OBVIOUS
<1> HIDE DEF first, last, value
<1>16. /\ n \in Nat /\ k \in Nat /\ first \in Nat /\ last \in Nat /\ 1 \in Nat
  BY <1>1, <1>14
<1>4. value \in Seq(Unit) /\ Len(value) = n
  BY <1>15, <1>16, UnitsSeq, UnitsLen
<1>5. n > 0 => /\ value # <<>> /\ CmdOf(value) = c
               /\ value[1].at = 1 <=> k = 0
  <2>1. n > 0 => CmdOf(value) = c /\ value[1] = [cmd |-> c, at |-> first]
    BY <1>15, <1>16, UnitsHead
  <2> QED
    BY <1>1, <1>4, <1>14, <2>1
<1>6. k = 0 => first = 1 /\ last = n /\ value = Units(c, 1, n)
  BY <1>1, <1>14, <1>15
<1>7. recvMessage = Units(c, 1, k) => recvMessage \o value = Units(c, 1, last)
  <2>1. Units(c, 1, k) \o Units(c, k + 1, n) = Units(c, 1, k + n)
    BY <1>16, UnitsConcat
  <2> QED
    BY <2>1, <1>15 DEF first, last
<1>8. /\ Units(c, 1, last) \in Seq(Unit) /\ Len(Units(c, 1, last)) = last
      /\ k > 0 => Units(c, 1, k) # <<>>
  <2>1. Units(c, 1, last) \in Seq(Unit) /\ Len(Units(c, 1, last)) = last
    BY <1>16, UnitsSeq, UnitsLen
  <2>2. k > 0 => Units(c, 1, k) # <<>>
    <3>1. Len(Units(c, 1, k)) = k
      BY <1>16, UnitsLen
    <3> QED
      BY <1>16, <3>1
  <2> QED
    BY <2>1, <2>2
<1>9. CASE n = 0
  <2>1. r = [ret |-> 1, message |-> recvMessage, length |-> recvLength]
    BY <1>4, <1>9 DEF GetBleCommand, NewCommand, Continuation, Took, Result
  <2> QED
    BY <1>1, <1>2, <1>3, <1>9, <2>1
<1>10. CASE n > 0 /\ k = 0 /\ d = 0
  <2>1. value[1].at = 1 /\ Declared[CmdOf(value)] = 0
    BY <1>1, <1>5, <1>10
  <2>2. r = [ret |-> 2, message |-> recvMessage, length |-> 0]
    BY <1>1, <1>4, <1>10, <2>1 DEF GetBleCommand, NewCommand, Continuation, Took, Result
  <2> QED
    BY <1>1, <1>2, <1>10, <2>2
<1>11. CASE n > 0 /\ k = 0 /\ d > 0
  <2>1. r = [ret |-> IF d - n = 0 THEN 0 ELSE 5, message |-> value, length |-> d - n]
    BY <1>1, <1>4, <1>5, <1>11 DEF GetBleCommand, NewCommand, Continuation, Took, Result
  <2> QED
    BY <1>1, <1>4, <1>6, <1>11, <2>1
<1>12. CASE n > 0 /\ k > 0 /\ k >= d
  <2>1. r = [ret |-> 4, message |-> recvMessage, length |-> recvLength]
    BY <1>1, <1>2, <1>3, <1>4, <1>5, <1>12 DEF GetBleCommand, NewCommand, Continuation, Took, Result
  <2> QED
    BY <1>1, <1>2, <1>3, <1>12, <2>1
<1>13. CASE n > 0 /\ k > 0 /\ k < d
  <2>1. /\ recvMessage = Units(c, 1, k) /\ recvMessage # <<>>
        /\ recvLength = d - k /\ recvLength > 0
    BY <1>1, <1>3, <1>8, <1>13
  <2>2. CASE d - k < n
    <3>1. r = [ret |-> 3, message |-> <<>>, length |-> recvLength]
      BY <1>1, <1>4, <1>5, <1>13, <2>1, <2>2 DEF GetBleCommand, NewCommand, Continuation, Took, Result
    <3> QED
      BY <1>1, <1>2, <1>13, <2>2, <3>1
  <2>3. CASE d - k >= n
    <3>1. r = [ret |-> IF d - k - n = 0 THEN 0 ELSE 5,
               message |-> recvMessage \o value, length |-> d - k - n]
      BY <1>1, <1>4, <1>5, <1>13, <2>1, <2>3 DEF GetBleCommand, NewCommand, Continuation, Took, Result
    <3>2. r.message = Units(c, 1, last)
      BY <1>7, <2>1, <3>1
    <3>3. r.message \in Seq(Unit) /\ Len(r.message) = last
      BY <1>8, <3>2
    <3>4. r.length = d - last /\ (r.ret = 0 <=> d = last) /\ last <= d
      <4> HIDE DEF r
      <4>1. r.length = d - k - n /\ r.ret = IF d - k - n = 0 THEN 0 ELSE 5
        BY <3>1
      <4>2. d - k - n = d - last /\ (d - k - n = 0 <=> d = last) /\ last <= d
        BY <1>1, <1>14, <2>3
      <4> QED
        BY <4>1, <4>2
    <3> QED
      <4> HIDE DEF r
      <4>1. k + n < d => r.message = Units(c, 1, k + n) /\ r.length = d - (k + n)
        BY <1>14, <3>2, <3>4
      <4>2. r.ret = 0 => r.message = Units(c, 1, d)
        BY <3>2, <3>4
      <4> QED
        BY <1>1, <1>14, <1>13, <3>3, <3>4, <4>1, <4>2
  <2> QED
    BY <1>1, <2>2, <2>3
<1> QED
  BY <1>1, <1>9, <1>10, <1>11, <1>12, <1>13
-----------------------------------------------------------------------------
\* The receiver counts what the client counts, and nothing waits in a queue
\* that does not exist: what makes the invariants inductive.
Bookkeeping ==
    /\ ~prepareBuf => lastEnd = 0
    /\ \A i \in DOMAIN complete : Declared[complete[i]] <= sent[complete[i]]
    /\ ~queueReady => cmdQueue = <<>> /\ bleCmd = <<>>

IndInv == /\ TypeOK
          /\ OverrunIsDeclared
          /\ ReceiverFollowsClient
          /\ OnlyWholeCommandsQueued
          /\ PreparedFollowsClient
          /\ Bookkeeping

\* What becomes of a long write, which no other part of the invariant rests on.
PrepareInv == PrepareTypeOK /\ PreparedFollowsClient /\ (~prepareBuf => lastEnd = 0)

\* A whole block names its command.
LEMMA WholeProperties ==
    ASSUME NEW c \in Cmd, Declared[c] > 0
    PROVE  /\ Whole(c) \in Seq(Unit) /\ Whole(c) # <<>>
           /\ CmdOf(Whole(c)) = c
<1> DEFINE d == Declared[c]
<1>1. d \in Nat \ {0} /\ d \in Nat /\ 1 \in Nat
  BY ChannelAssumption
<1>2. Whole(c) = Units(c, 1, d)
  BY DEF Whole
<1> HIDE DEF d
<1>3. Len(Units(c, 1, d)) = d
  BY <1>1, UnitsLen
<1>4. Units(c, 1, d) \in Seq(Unit)
  BY <1>1, UnitsSeq
<1>5. CmdOf(Units(c, 1, d)) = c
  BY <1>1, UnitsHead
<1> QED
  BY <1>1, <1>2, <1>3, <1>4, <1>5

\* What a write does to the variables the invariants speak of.
LEMMA WriteStep ==
    ASSUME IndInv, ~OutOfBounds, NEW c \in Cmd, NEW n \in 0..Mtu, WriteFragment(c, n)
    PROVE  /\ sent' \in [Cmd -> Nat] /\ \A b \in Cmd : sent[b] <= sent'[b]
           /\ sent'[c] = sent[c] + n
           /\ writing' \in {c, NoCmd} /\ link' = link
           /\ recvMessage' \in Seq(Unit) /\ recvLength' \in Int
           /\ Announced(recvMessage')
           /\ writing' = c => sent'[c] > 0
           /\ IF sent'[c] < Declared[c]
              THEN /\ recvMessage' = Units(c, 1, sent'[c])
                   /\ recvLength' = Declared[c] - sent'[c]
              ELSE recvMessage' = <<>> \/ recvLength' <= 0
           /\ \/ ~Completes(c, n) /\ UNCHANGED <<complete, cmdQueue, lost>>
              \/ /\ Completes(c, n) /\ complete' = Append(complete, c)
                 /\ queueReady
                 /\ \/ /\ Len(cmdQueue) < CMD_QUEUE_LEN
                       /\ cmdQueue' = Append(cmdQueue, Whole(c))
                       /\ lost' = lost
                    \/ /\ Len(cmdQueue) = CMD_QUEUE_LEN
                       /\ cmdQueue' = cmdQueue
                       /\ lost' = lost \cup {c}
           /\ UNCHANGED <<queueReady, bleCmd, executed>>
<1> DEFINE r == GetBleCommand(Units(c, sent[c] + 1, n))
<1>1. /\ n \in Nat /\ sent[c] \in Nat /\ Declared[c] \in Nat
      /\ sent \in [Cmd -> Nat] /\ NoCmd # c
  BY ChannelAssumption DEF IndInv, TypeOK
<1>2. /\ writing \in {c, NoCmd}
      /\ writing = NoCmd => sent[c] = 0 /\ n > 0
      /\ sent' = [sent EXCEPT ![c] = @ + n] /\ link' = link
      /\ writing' \in {c, NoCmd}
  BY DEF WriteFragment, ClientWrites
<1>3. sent'[c] = sent[c] + n /\ sent' \in [Cmd -> Nat] /\ \A b \in Cmd : sent[b] <= sent'[b]
  BY <1>1, <1>2
<1>4. writing = c => sent[c] > 0
  BY <1>1 DEF IndInv, ReceiverFollowsClient
<1>5. /\ r.message \in Seq(Unit) /\ r.length \in Int
      /\ Announced(r.message)
      /\ r.ret = 0 /\ Len(r.message) <= CMD_MAX_LEN <=> Completes(c, n)
      /\ r.ret = 0 => r.message = Whole(c)
      /\ IF sent[c] + n < Declared[c]
         THEN /\ r.message = Units(c, 1, sent[c] + n)
              /\ r.length = Declared[c] - (sent[c] + n)
         ELSE r.message = <<>> \/ r.length <= 0
  <2>1. TypeOK /\ ReceiverFollowsClient
    BY DEF IndInv
  <2> QED
    BY <1>2, <2>1, GetBleCommandFollows
<1>6. Completes(c, n) => sent[c] + n = Declared[c] /\ Declared[c] > 0
  BY <1>1 DEF Completes
<1>7. recvLength' = r.length /\ UNCHANGED <<queueReady, bleCmd, executed>>
  BY DEF WriteFragment
<1> HIDE DEF r
<1>8. CASE Completes(c, n)
  <2>1. r.message = Whole(c) /\ CmdOf(Whole(c)) = c
    BY <1>5, <1>6, <1>8, WholeProperties
  <2>5. r.ret = 0 /\ Len(r.message) <= CMD_MAX_LEN /\ Len(r.message) \in Int
    BY <1>5, <1>8, LenProperties
  <2>2. /\ recvMessage' = <<>> /\ complete' = Append(complete, c) /\ queueReady
        /\ \/ /\ Len(cmdQueue) < CMD_QUEUE_LEN
              /\ cmdQueue' = Append(cmdQueue, Whole(c))
              /\ lost' = lost
           \/ /\ Len(cmdQueue) = CMD_QUEUE_LEN
              /\ cmdQueue' = cmdQueue
              /\ lost' = lost \cup {c}
    BY <1>8, <2>1, <2>5, ChannelAssumption DEF WriteFragment, Enqueue, r
  <2>3. recvMessage' \in Seq(Unit) /\ Announced(recvMessage')
    BY <2>2, ChannelAssumption, EmptySeq DEF Announced
  <2> QED
    BY <1>1, <1>2, <1>3, <1>4, <1>5, <1>6, <1>7, <1>8, <2>2, <2>3
<1>9. CASE ~Completes(c, n)
  <2>1. recvMessage' = r.message /\ UNCHANGED <<complete, cmdQueue, lost>>
    BY <1>5, <1>9 DEF WriteFragment, Enqueue, r
  <2> QED
    BY <1>1, <1>2, <1>3, <1>4, <1>5, <1>7, <1>9, <2>1
<1> QED
  BY <1>8, <1>9
-----------------------------------------------------------------------------
LEMMA AppendElements ==
    ASSUME NEW S, NEW s \in Seq(S), NEW e \in S
    PROVE  /\ Append(s, e) \in Seq(S) /\ Len(Append(s, e)) = Len(s) + 1
           /\ \A i \in DOMAIN Append(s, e) :
                 \/ i \in DOMAIN s /\ Append(s, e)[i] = s[i]
                 \/ Append(s, e)[i] = e
  OBVIOUS

LEMMA NonEmpty ==
    \A s \in Seq(Unit) : s # <<>> => Len(s) \in Nat \ {0} /\ 1 \in DOMAIN s /\ s[1] \in Unit
<1> TAKE s \in Seq(Unit)
<1>1. Len(s) \in Nat /\ DOMAIN s = 1..Len(s) /\ \A i \in 1..Len(s) : s[i] \in Unit
  BY LenProperties, ElementOfSeq
<1>2. s # <<>> => Len(s) # 0
  BY EmptySeq
<1> QED
  BY <1>1, <1>2

\* All units of a whole block belong to its command.
LEMMA OneCommand ==
    ASSUME NEW b \in Seq(Unit), b # <<>>, b = Whole(CmdOf(b))
    PROVE  {u.cmd : u \in Range(b)} = {CmdOf(b)}
<1>1. 1 \in DOMAIN b
  BY NonEmpty
<1>2. \A i \in DOMAIN b : b[i].cmd = CmdOf(b)
  BY DEF Whole, Units
<1> QED
  BY <1>1, <1>2 DEF Range, CmdOf

LEMMA InitInv == Init => IndInv
<1> SUFFICES ASSUME Init PROVE IndInv
  OBVIOUS
<1> USE DEF Init
<1>1. TypeOK /\ Len(recvMessage) = 0
  <2>1. /\ <<>> \in Seq(Unit) /\ <<>> \in Seq(Seq(Unit)) /\ <<>> \in Seq(Cmd)
        /\ Len(<<>>) = 0 /\ Len(<<>>) <= CMD_QUEUE_LEN
        /\ 0 \in Int /\ [c \in Cmd |-> 0] \in [Cmd -> Nat]
    BY ChannelAssumption
  <2> QED
    BY <2>1 DEF TypeOK, PrepareTypeOK
<1>2. OverrunIsDeclared
  BY <1>1, ChannelAssumption DEF OverrunIsDeclared
<1>3. ReceiverFollowsClient
  BY DEF ReceiverFollowsClient
<1>4. OnlyWholeCommandsQueued /\ Bookkeeping
  BY DEF OnlyWholeCommandsQueued, Bookkeeping
<1>5. PreparedFollowsClient
  BY ChannelAssumption DEF PreparedFollowsClient
<1> QED
  BY <1>1, <1>2, <1>3, <1>4, <1>5 DEF IndInv

\* One part of a long write: the first one fits if it begins at 0, every other one
\* is compared with the buffer's size.
LEMMA CollectInv ==
    ASSUME PrepareInv, NEW n \in 0..Mtu, NEW o \in Offset, Collect(n, o)
    PROVE  PrepareInv'
<1>1. /\ n \in Nat /\ o \in Nat /\ n <= PREPARE_BUF_MAX_SIZE /\ PREPARE_BUF_MAX_SIZE \in Nat
  BY ChannelAssumption
<1>2. prepareLen \in Nat /\ lastEnd \in Nat /\ prepareBuf \in BOOLEAN /\ consecutive \in BOOLEAN
  BY DEF PrepareInv, PrepareTypeOK
<1>3. /\ consecutive => prepareLen = lastEnd /\ lastEnd <= PREPARE_BUF_MAX_SIZE
      /\ ~prepareBuf => prepareLen = 0 /\ consecutive /\ lastEnd = 0
  BY DEF PrepareInv, PreparedFollowsClient
<1>4. ASSUME NEW len \in Nat, Put(len, n, o),
             consecutive /\ o = lastEnd => len = o /\ o + n <= PREPARE_BUF_MAX_SIZE
      PROVE  PrepareInv'
  <2>1. /\ prepareBuf' = TRUE /\ prepareLen' = len + n /\ lastEnd' = o + n
        /\ consecutive' = (consecutive /\ o = lastEnd)
    BY <1>4 DEF Put
  <2>2. consecutive' \in BOOLEAN
    BY <2>1
  <2>3. prepareLen' \in Nat /\ lastEnd' \in Nat
    BY <1>1, <1>4, <2>1
  <2>4. consecutive' => prepareLen' = lastEnd' /\ lastEnd' <= PREPARE_BUF_MAX_SIZE
    BY <1>1, <1>4, <2>1
  <2>5. prepareBuf' \in BOOLEAN /\ prepareBuf'
    BY <2>1
  <2> QED
    BY <2>2, <2>3, <2>4, <2>5 DEF PrepareInv, PrepareTypeOK, PreparedFollowsClient
<1>5. CASE ~prepareBuf /\ Put(0, n, o)
  <2>1. o = lastEnd => 0 = o /\ o + n <= PREPARE_BUF_MAX_SIZE
    BY <1>1, <1>3, <1>5
  <2> QED
    BY <1>4, <1>5, <2>1
<1>6. CASE ~prepareBuf /\ NoMem
  BY <1>2, <1>3, <1>6 DEF NoMem, PrepareInv, PrepareTypeOK, PreparedFollowsClient
<1>7. CASE prepareBuf /\ o + n <= PREPARE_BUF_MAX_SIZE /\ Put(prepareLen, n, o)
  BY <1>2, <1>3, <1>4, <1>7
<1>8. CASE UNCHANGED prepareVars
  BY <1>2, <1>3, <1>8 DEF prepareVars, PrepareInv, PrepareTypeOK, PreparedFollowsClient
<1> QED
  BY <1>5, <1>6, <1>7, <1>8 DEF Collect

LEMMA PrepareStep ==
    ASSUME IndInv, [Next]_vars
    PROVE  PrepareInv'
<1>1. PrepareInv
  BY DEF IndInv, TypeOK, Bookkeeping, PrepareInv
<1>2. CASE \E c \in Cmd, n \in 0..Mtu : PreparePart(c, n)
  BY <1>1, <1>2, CollectInv DEF PreparePart
<1>3. CASE UNCHANGED prepareVars
  BY <1>1, <1>3 DEF prepareVars, PrepareInv, PrepareTypeOK, PreparedFollowsClient
<1>4. CASE prepareBuf' = FALSE /\ prepareLen' = 0 /\ lastEnd' = 0 /\ consecutive' = TRUE
  <2>1. prepareBuf' \in BOOLEAN /\ consecutive' \in BOOLEAN /\ ~prepareBuf' /\ consecutive'
    BY <1>4
  <2>2. /\ lastEnd' \in Nat /\ prepareLen' \in Nat /\ lastEnd' <= PREPARE_BUF_MAX_SIZE
        /\ prepareLen' = lastEnd' /\ prepareLen' = 0 /\ lastEnd' = 0
    BY <1>4, ChannelAssumption
  <2> QED
    BY <2>1, <2>2 DEF PrepareInv, PrepareTypeOK, PreparedFollowsClient
<1>5. \/ \E c \in Cmd, n \in 0..Mtu : PreparePart(c, n)
      \/ UNCHANGED prepareVars
      \/ prepareBuf' = FALSE /\ prepareLen' = 0 /\ lastEnd' = 0 /\ consecutive' = TRUE
  BY DEF Next, Client, Executor, vars, PlainWrite, EarlyCommand, ExecuteWrite, Connect, Disconnect,
         CreateQueue, ReceiveCommand, ExecuteCommand, ExecuteRestart, Restart, ResetRam
<1> QED
  BY <1>2, <1>3, <1>4, <1>5

\* The invariant over a restart, by whatever way it comes about.
LEMMA ResetInv ==
    ASSUME IndInv, PrepareInv', ResetRam, sent' \in [Cmd -> Nat],
           complete' \in Seq(Cmd), executed' \in Seq(Cmd), lost' \subseteq Cmd,
           \A i \in DOMAIN complete' : Declared[complete'[i]] <= sent'[complete'[i]]
    PROVE  IndInv'
<1> USE DEF ResetRam
<1>1. TypeOK' /\ Len(recvMessage') = 0
  <2>1. /\ <<>> \in Seq(Unit) /\ <<>> \in Seq(Seq(Unit)) /\ <<>> \in Seq(Cmd)
        /\ Len(<<>>) = 0 /\ Len(<<>>) <= CMD_QUEUE_LEN
        /\ 0 \in Int /\ [c \in Cmd |-> 0] \in [Cmd -> Nat]
    BY ChannelAssumption
  <2> QED
    BY <2>1 DEF TypeOK, IndInv, PrepareInv
<1>2. OverrunIsDeclared'
  BY <1>1, ChannelAssumption DEF OverrunIsDeclared
<1>3. ReceiverFollowsClient'
  BY DEF ReceiverFollowsClient
<1>4. OnlyWholeCommandsQueued' /\ Bookkeeping'
  BY DEF OnlyWholeCommandsQueued, Bookkeeping
<1> QED
  BY <1>1, <1>2, <1>3, <1>4 DEF IndInv, PrepareInv

\* Queue and executor only ever hold commands.
LEMMA PendingAreCommands ==
    ASSUME IndInv
    PROVE  /\ \A i \in DOMAIN cmdQueue : CmdOf(cmdQueue[i]) \in Cmd
           /\ Queued \subseteq Cmd /\ Held \subseteq Cmd
           /\ bleCmd # <<>> => CmdOf(bleCmd) \in Cmd /\ Held = {CmdOf(bleCmd)}
<1>1. \A b \in Seq(Unit) : b # <<>> => CmdOf(b) \in Cmd
  BY NonEmpty DEF CmdOf, Unit
<1>2. ASSUME NEW i \in DOMAIN cmdQueue
      PROVE  CmdOf(cmdQueue[i]) \in Cmd
  <2>1. cmdQueue[i] \in Seq(Unit)
    BY ElementOfSeq DEF IndInv, TypeOK
  <2>2. cmdQueue[i] # <<>>
    BY DEF IndInv, OnlyWholeCommandsQueued
  <2> QED
    BY <2>1, <2>2, <1>1
<1>3. Queued \subseteq Cmd
  BY <1>2 DEF Queued
<1>4. ASSUME bleCmd # <<>>
      PROVE  CmdOf(bleCmd) \in Cmd /\ Held = {CmdOf(bleCmd)}
  <2>1. bleCmd \in Seq(Unit) /\ bleCmd = Whole(CmdOf(bleCmd))
    BY <1>4 DEF IndInv, TypeOK, OnlyWholeCommandsQueued
  <2> QED
    BY <1>1, <1>4, <2>1, OneCommand DEF Held
<1>5. bleCmd = <<>> => Held = {}
  BY DEF Held, Range
<1> QED
  BY <1>2, <1>3, <1>4, <1>5

\* The units a client writes are counted, and a command is complete when its
\* declared length has been counted.
LEMMA CompletionCounted ==
    ASSUME IndInv, NEW c \in Cmd, NEW n \in 0..Mtu,
           sent' = [sent EXCEPT ![c] = @ + n],
           complete' = IF Completes(c, n) THEN Append(complete, c) ELSE complete
    PROVE  /\ complete' \in Seq(Cmd) /\ sent' \in [Cmd -> Nat]
           /\ \A i \in DOMAIN complete' : Declared[complete'[i]] <= sent'[complete'[i]]
<1>1. /\ n \in Nat /\ sent \in [Cmd -> Nat] /\ complete \in Seq(Cmd)
      /\ \A b \in Cmd : Declared[b] \in Nat /\ sent[b] \in Nat
  <2>1. n \in Nat /\ \A b \in Cmd : Declared[b] \in Nat
    BY ChannelAssumption
  <2>2. sent \in [Cmd -> Nat] /\ complete \in Seq(Cmd)
    BY DEF IndInv, TypeOK
  <2> QED
    BY <2>1, <2>2
<1>2. sent' \in [Cmd -> Nat] /\ sent'[c] = sent[c] + n /\ \A b \in Cmd : sent[b] <= sent'[b]
  BY <1>1
<1>3. \A i \in DOMAIN complete : complete[i] \in Cmd /\ Declared[complete[i]] <= sent[complete[i]]
  BY <1>1 DEF IndInv, Bookkeeping
<1>4. \A i \in DOMAIN complete : Declared[complete[i]] <= sent'[complete[i]]
  BY <1>1, <1>2, <1>3
<1>5. CASE ~Completes(c, n)
  BY <1>1, <1>2, <1>4, <1>5
<1>6. CASE Completes(c, n)
  <2>1. Declared[c] <= sent'[c]
    BY <1>1, <1>2, <1>6 DEF Completes
  <2> DEFINE longer == Append(complete, c)
  <2>2. /\ longer \in Seq(Cmd)
        /\ \A i \in DOMAIN longer : \/ i \in DOMAIN complete /\ longer[i] = complete[i]
                                    \/ longer[i] = c
    BY <1>1, AppendElements
  <2>3. complete' = longer
    BY <1>6
  <2> HIDE DEF longer
  <2>4. \A i \in DOMAIN longer : Declared[longer[i]] <= sent'[longer[i]]
    BY <1>4, <2>1, <2>2
  <2> QED
    BY <1>2, <2>2, <2>3, <2>4
<1> QED
  BY <1>5, <1>6

LEMMA WriteFragmentInv ==
    ASSUME IndInv, PrepareInv', ~OutOfBounds,
           NEW c \in Cmd, NEW n \in 0..Mtu, WriteFragment(c, n)
    PROVE  IndInv'
<1>1. /\ sent' \in [Cmd -> Nat] /\ \A b \in Cmd : sent[b] <= sent'[b]
      /\ sent'[c] = sent[c] + n
      /\ writing' \in {c, NoCmd} /\ link' = link
      /\ recvMessage' \in Seq(Unit) /\ recvLength' \in Int
      /\ Announced(recvMessage')
      /\ writing' = c => sent'[c] > 0
      /\ IF sent'[c] < Declared[c]
         THEN /\ recvMessage' = Units(c, 1, sent'[c])
              /\ recvLength' = Declared[c] - sent'[c]
         ELSE recvMessage' = <<>> \/ recvLength' <= 0
      /\ UNCHANGED <<queueReady, bleCmd, executed>>
  BY WriteStep
<1>2. \/ ~Completes(c, n) /\ UNCHANGED <<complete, cmdQueue, lost>>
      \/ /\ Completes(c, n) /\ complete' = Append(complete, c)
         /\ queueReady
         /\ \/ /\ Len(cmdQueue) < CMD_QUEUE_LEN
               /\ cmdQueue' = Append(cmdQueue, Whole(c))
               /\ lost' = lost
            \/ /\ Len(cmdQueue) = CMD_QUEUE_LEN
               /\ cmdQueue' = cmdQueue
               /\ lost' = lost \cup {c}
  BY WriteStep
<1>3. Completes(c, n) => /\ Declared[c] > 0 /\ sent'[c] = Declared[c]
                         /\ Whole(c) \in Seq(Unit) /\ Whole(c) # <<>>
                         /\ CmdOf(Whole(c)) = c
  <2>1. Completes(c, n) => Declared[c] > 0 /\ sent'[c] = Declared[c]
    BY <1>1, ChannelAssumption DEF Completes, IndInv, TypeOK
  <2> QED
    BY <2>1, WholeProperties
<1>4. TypeOK'
  <2>1. complete' \in Seq(Cmd) /\ lost' \subseteq Cmd
    BY <1>2, AppendElements DEF IndInv, TypeOK
  <2>2. cmdQueue' \in Seq(Seq(Unit)) /\ Len(cmdQueue') <= CMD_QUEUE_LEN
    <3>1. /\ cmdQueue \in Seq(Seq(Unit)) /\ Len(cmdQueue) <= CMD_QUEUE_LEN
          /\ Len(cmdQueue) \in Nat /\ CMD_QUEUE_LEN \in Nat
      BY ChannelAssumption, LenProperties DEF IndInv, TypeOK
    <3>2. Completes(c, n) => /\ Append(cmdQueue, Whole(c)) \in Seq(Seq(Unit))
                             /\ Len(Append(cmdQueue, Whole(c))) = Len(cmdQueue) + 1
      <4> DEFINE Blocks == Seq(Unit)
      <4>1. Completes(c, n) => Whole(c) \in Blocks
        BY <1>3
      <4>2. cmdQueue \in Seq(Blocks)
        BY <3>1
      <4> HIDE DEF Blocks
      <4>3. Completes(c, n) => /\ Append(cmdQueue, Whole(c)) \in Seq(Blocks)
                               /\ Len(Append(cmdQueue, Whole(c))) = Len(cmdQueue) + 1
        BY <4>1, <4>2, AppendElements
      <4> QED
        BY <4>3 DEF Blocks
    <3>3. CASE cmdQueue' = cmdQueue
      BY <3>1, <3>3
    <3>4. CASE /\ Completes(c, n) /\ Len(cmdQueue) < CMD_QUEUE_LEN
               /\ cmdQueue' = Append(cmdQueue, Whole(c))
      BY <3>1, <3>2, <3>4
    <3> QED
      BY <1>2, <3>3, <3>4
  <2> QED
    BY <1>1, <2>1, <2>2 DEF IndInv, TypeOK, PrepareInv
<1>5. OverrunIsDeclared'
  BY <1>1 DEF OverrunIsDeclared, Announced
<1>6. ReceiverFollowsClient'
  BY <1>1 DEF ReceiverFollowsClient
<1>7. OnlyWholeCommandsQueued'
  <2> DEFINE IsWhole(block) == block # <<>> /\ block = Whole(CmdOf(block))
  <2>1. \A i \in DOMAIN cmdQueue : IsWhole(cmdQueue[i])
    BY DEF IndInv, OnlyWholeCommandsQueued
  <2>2. Completes(c, n) => IsWhole(Whole(c))
    BY <1>3
  <2> HIDE DEF IsWhole
  <2>3. \A i \in DOMAIN cmdQueue' : IsWhole(cmdQueue'[i])
    <3>1. cmdQueue \in Seq(Seq(Unit))
      BY DEF IndInv, TypeOK
    <3>2. Completes(c, n) => \A i \in DOMAIN Append(cmdQueue, Whole(c)) :
              IsWhole(Append(cmdQueue, Whole(c))[i])
      BY <1>3, <2>1, <2>2, <3>1, AppendElements
    <3> QED
      BY <1>2, <2>1, <3>2
  <2>4. bleCmd # <<>> => IsWhole(bleCmd)
    BY DEF IndInv, OnlyWholeCommandsQueued, IsWhole
  <2> QED
    BY <1>1, <2>3, <2>4 DEF OnlyWholeCommandsQueued, IsWhole
<1>8. Bookkeeping'
  <2>1. \A i \in DOMAIN complete' : Declared[complete'[i]] <= sent'[complete'[i]]
    BY CompletionCounted DEF WriteFragment, ClientWrites
  <2>2. ~queueReady' => cmdQueue' = <<>> /\ bleCmd' = <<>>
    BY <1>1, <1>2 DEF IndInv, Bookkeeping
  <2> QED
    BY <2>1, <2>2 DEF Bookkeeping, PrepareInv
<1> QED
  BY <1>4, <1>5, <1>6, <1>7, <1>8 DEF IndInv, PrepareInv

LEMMA EarlyCommandInv ==
    ASSUME IndInv, PrepareInv', NEW c \in Cmd, NEW n \in 0..Mtu, EarlyCommand(c, n)
    PROVE  IndInv'
<1>1. /\ complete' \in Seq(Cmd) /\ sent' \in [Cmd -> Nat]
      /\ \A i \in DOMAIN complete' : Declared[complete'[i]] <= sent'[complete'[i]]
  BY CompletionCounted DEF EarlyCommand
<1>2. executed' \in Seq(Cmd) /\ lost' \subseteq Cmd /\ ResetRam
  BY PendingAreCommands DEF EarlyCommand, IndInv, TypeOK
<1> QED
  BY <1>1, <1>2, ResetInv

LEMMA RestartInv ==
    ASSUME IndInv, PrepareInv', ExecuteRestart \/ Restart
    PROVE  IndInv'
<1>1. /\ complete' = complete /\ sent' = sent /\ ResetRam
      /\ lost' = lost \cup Queued \/ lost' = lost \cup Queued \cup Held
  BY DEF ExecuteRestart, Restart
<1>2. executed' \in Seq(Cmd)
  <2>1. executed \in Seq(Cmd)
    BY DEF IndInv, TypeOK
  <2>2. CASE Restart
    BY <2>1, <2>2 DEF Restart
  <2>3. CASE ExecuteRestart
    <3>1. CmdOf(bleCmd) \in Cmd /\ executed' = Append(executed, CmdOf(bleCmd))
      BY <2>3, PendingAreCommands DEF ExecuteRestart
    <3> QED
      BY <2>1, <3>1, AppendElements
  <2> QED
    BY <2>2, <2>3
<1>3. /\ complete \in Seq(Cmd) /\ sent \in [Cmd -> Nat] /\ lost' \subseteq Cmd
      /\ \A i \in DOMAIN complete : Declared[complete[i]] <= sent[complete[i]]
  BY <1>1, PendingAreCommands DEF IndInv, TypeOK, Bookkeeping
<1> QED
  BY <1>1, <1>2, <1>3, ResetInv

\* The steps that leave the receive buffer alone.
LEMMA OtherStepsInv ==
    ASSUME IndInv, PrepareInv',
           ExecuteWrite \/ Connect \/ Disconnect \/ CreateQueue \/ ReceiveCommand \/ ExecuteCommand
    PROVE  IndInv'
<1> USE DEF IndInv, PrepareInv, clientVars, recvVars, execVars, history
<1>1. CASE ExecuteWrite \/ Connect \/ Disconnect
  <2> USE <1>1 DEF ExecuteWrite, Connect, Disconnect
  <2>1. TypeOK' /\ OverrunIsDeclared'
    BY DEF TypeOK, OverrunIsDeclared
  <2>2. ReceiverFollowsClient'
    BY DEF ReceiverFollowsClient
  <2>3. OnlyWholeCommandsQueued' /\ Bookkeeping'
    BY DEF OnlyWholeCommandsQueued, Bookkeeping
  <2> QED
    BY <2>1, <2>2, <2>3
<1>2. CASE CreateQueue
  <2> USE <1>2 DEF CreateQueue
  <2>1. TypeOK' /\ OverrunIsDeclared'
    BY DEF TypeOK, OverrunIsDeclared
  <2>2. ReceiverFollowsClient'
    BY DEF ReceiverFollowsClient
  <2>3. OnlyWholeCommandsQueued' /\ Bookkeeping'
    BY DEF OnlyWholeCommandsQueued, Bookkeeping
  <2> QED
    BY <2>1, <2>2, <2>3
<1>3. CASE ReceiveCommand
  <2> DEFINE Blocks == Seq(Unit)
  <2>1. cmdQueue \in Seq(Blocks) /\ cmdQueue # <<>> /\ Len(cmdQueue) <= CMD_QUEUE_LEN
    BY <1>3 DEF ReceiveCommand, TypeOK
  <2> HIDE DEF Blocks
  <2>2. /\ Head(cmdQueue) = cmdQueue[1] /\ 1 \in DOMAIN cmdQueue
        /\ Head(cmdQueue) \in Blocks /\ Tail(cmdQueue) \in Seq(Blocks)
        /\ Len(Tail(cmdQueue)) <= CMD_QUEUE_LEN
        /\ \A i \in DOMAIN Tail(cmdQueue) :
              i + 1 \in DOMAIN cmdQueue /\ Tail(cmdQueue)[i] = cmdQueue[i + 1]
    BY <2>1, ChannelAssumption, HeadTailProperties
  <2>3. cmdQueue' = Tail(cmdQueue) /\ bleCmd' = Head(cmdQueue) /\ queueReady
    BY <1>3 DEF ReceiveCommand
  <2>4. TypeOK' /\ OverrunIsDeclared'
    BY <1>3, <2>2, <2>3 DEF ReceiveCommand, TypeOK, OverrunIsDeclared, Blocks
  <2>5. ReceiverFollowsClient' /\ Bookkeeping'
    BY <1>3, <2>3 DEF ReceiveCommand, ReceiverFollowsClient, Bookkeeping
  <2>6. OnlyWholeCommandsQueued'
    BY <2>2, <2>3 DEF OnlyWholeCommandsQueued
  <2> QED
    BY <2>4, <2>5, <2>6
<1>4. CASE ExecuteCommand
  <2> USE <1>4 DEF ExecuteCommand
  <2>1. executed' \in Seq(Cmd) /\ <<>> \in Seq(Unit)
    BY PendingAreCommands, AppendElements DEF TypeOK
  <2>2. TypeOK' /\ OverrunIsDeclared'
    BY <2>1 DEF TypeOK, OverrunIsDeclared
  <2>3. ReceiverFollowsClient'
    BY DEF ReceiverFollowsClient
  <2>4. OnlyWholeCommandsQueued' /\ Bookkeeping'
    BY DEF OnlyWholeCommandsQueued, Bookkeeping
  <2> QED
    BY <2>2, <2>3, <2>4
<1> QED
  BY <1>1, <1>2, <1>3, <1>4

LEMMA NextInv == IndInv /\ [Next]_vars => IndInv'
<1> SUFFICES ASSUME IndInv, [Next]_vars PROVE IndInv'
  OBVIOUS
<1>1. CASE UNCHANGED vars
  BY <1>1 DEF vars, clientVars, recvVars, execVars, history, prepareVars, IndInv, TypeOK,
              OverrunIsDeclared, ReceiverFollowsClient, OnlyWholeCommandsQueued,
              PrepareTypeOK, PreparedFollowsClient, Bookkeeping
<1>2. PrepareInv'
  BY PrepareStep
<1>3. CASE ~OutOfBounds /\ \E c \in Cmd, n \in 0..Mtu : WriteFragment(c, n) \/ EarlyCommand(c, n)
  BY <1>2, <1>3, WriteFragmentInv, EarlyCommandInv
<1>4. CASE ExecuteRestart \/ Restart
  BY <1>2, <1>4, RestartInv
<1>5. CASE ExecuteWrite \/ Connect \/ Disconnect \/ CreateQueue \/ ReceiveCommand \/ ExecuteCommand
  BY <1>2, <1>5, OtherStepsInv
<1> QED
  BY <1>1, <1>3, <1>4, <1>5 DEF Next, Client, Executor, PlainWrite, PreparePart

LEMMA Inductive == Spec => []IndInv
  BY InitInv, NextInv, PTL DEF Spec
-----------------------------------------------------------------------------
\* The queue never grows beyond its capacity, no block is ever anything but
\* a sequence of units.
THEOREM TypeCorrect == Spec => []TypeOK
<1>1. IndInv => TypeOK
  BY DEF IndInv
<1> QED
  BY <1>1, Inductive, PTL

\* Nothing but a command that announces more than ble_recv_message holds makes
\* get_ble_command write beyond it, for every split of every command into writes
\* and with a disconnect between any two of them.
THEOREM OverrunOnlyDeclared == Spec => []OverrunIsDeclared
<1>1. IndInv => OverrunIsDeclared
  BY DEF IndInv
<1> QED
  BY <1>1, Inductive, PTL

\* In particular, as long as no client announces more than ble_recv_message holds
\* nothing is written beyond it, whatever stale length the receiver starts from.
COROLLARY RecvBufferSafe ==
    ASSUME \A c \in Cmd : Declared[c] <= CMD_MAX_LEN
    PROVE  Spec => [](Len(recvMessage) <= CMD_MAX_LEN)
<1>1. IndInv => Len(recvMessage) <= CMD_MAX_LEN
  <2> SUFFICES ASSUME IndInv PROVE Len(recvMessage) <= CMD_MAX_LEN
    OBVIOUS
  <2> DEFINE n == Len(recvMessage)
  <2>1. n \in Nat /\ CMD_MAX_LEN \in Nat /\ \A c \in Cmd : Declared[c] \in Nat
    BY ChannelAssumption, LenProperties DEF IndInv, TypeOK
  <2>2. n > CMD_MAX_LEN => \E c \in Cmd : Declared[c] >= n
    BY DEF IndInv, OverrunIsDeclared
  <2> HIDE DEF n
  <2>3. n <= CMD_MAX_LEN
    BY <2>1, <2>2
  <2> QED
    BY <2>3 DEF n
<1> QED
  BY <1>1, Inductive, PTL

\* The receive state of the gateway and the progress of the client agree
\* whenever a command is under way.
THEOREM ReceiverInStep == Spec => []ReceiverFollowsClient
<1>1. IndInv => ReceiverFollowsClient
  BY DEF IndInv
<1> QED
  BY <1>1, Inductive, PTL

\* Parts that start at 0 and follow each other stay inside prepare_buf, whose first
\* part is copied unchecked, and prepare_len is what they have filled.
THEOREM PreparedInStep == Spec => []PreparedFollowsClient
<1>1. IndInv => PreparedFollowsClient
  BY DEF IndInv
<1> QED
  BY <1>1, Inductive, PTL

\* What is queued and executed are commands as their clients declared them,
\* complete and unmixed.
THEOREM WholeCommands == Spec => []OnlyWholeCommandsQueued
<1>1. IndInv => OnlyWholeCommandsQueued
  BY DEF IndInv
<1> QED
  BY <1>1, Inductive, PTL
-----------------------------------------------------------------------------
\* The refinement.  What the executor has taken and what waits, as the service
\* sees them.
waitingCmds == [i \in DOMAIN cmdQueue |-> CmdOf(cmdQueue[i])]

LEMMA AppendIs ==
    ASSUME NEW S, NEW s \in Seq(S), NEW e \in S
    PROVE  Append(s, e) = [i \in 1..(Len(s) + 1) |-> IF i = Len(s) + 1 THEN e ELSE s[i]]
<1> DEFINE longer == Append(s, e)
           n == Len(s)
<1>1. /\ longer \in Seq(S) /\ Len(longer) = n + 1 /\ n \in Nat
      /\ \A i \in 1..n : longer[i] = s[i]
      /\ longer[n + 1] = e
  BY AppendProperties, LenProperties
<1>2. longer = [i \in 1..Len(longer) |-> longer[i]]
  BY <1>1, LenProperties
<1> HIDE DEF longer, n
<1>3. longer = [i \in 1..(n + 1) |-> IF i = n + 1 THEN e ELSE s[i]]
  BY <1>1, <1>2
<1> QED
  BY <1>3 DEF longer, n

LEMMA TailIs ==
    ASSUME NEW S, NEW s \in Seq(S), Len(s) > 0
    PROVE  /\ s # <<>> /\ Head(s) = s[1]
           /\ Tail(s) = [i \in 1..(Len(s) - 1) |-> s[i + 1]]
<1> DEFINE rest == Tail(s)
           n == Len(s)
<1>1. s # <<>> /\ n \in Nat
  BY LenProperties, EmptySeq
<1>2. /\ Head(s) = s[1] /\ rest \in Seq(S) /\ Len(rest) = n - 1
      /\ \A i \in 1..Len(rest) : rest[i] = s[i + 1]
  BY <1>1, HeadTailProperties
<1>3. rest = [i \in 1..Len(rest) |-> rest[i]]
  BY <1>2, LenProperties
<1> HIDE DEF rest, n
<1>4. rest = [i \in 1..(n - 1) |-> s[i + 1]]
  BY <1>1, <1>2, <1>3
<1> QED
  BY <1>1, <1>2, <1>4 DEF rest, n

LEMMA MapQueue ==
    ASSUME IndInv
    PROVE  /\ waitingCmds \in Seq(Cmd) /\ Len(waitingCmds) = Len(cmdQueue)
           /\ Service!Range(waitingCmds) = Queued
<1>1. cmdQueue \in Seq(Seq(Unit))
  BY DEF IndInv, TypeOK
<1>2. DOMAIN cmdQueue = 1..Len(cmdQueue) /\ Len(cmdQueue) \in Nat
  BY <1>1, LenProperties
<1>3. \A i \in DOMAIN cmdQueue : CmdOf(cmdQueue[i]) \in Cmd
  BY PendingAreCommands
<1>4. waitingCmds \in Seq(Cmd) /\ Len(waitingCmds) = Len(cmdQueue)
  BY <1>2, <1>3 DEF waitingCmds
<1>5. Service!Range(waitingCmds) = Queued
  BY DEF Service!Range, waitingCmds, Queued
<1> QED
  BY <1>4, <1>5

LEMMA MapAppend ==
    ASSUME IndInv, NEW b \in Seq(Unit), CmdOf(b) \in Cmd,
           cmdQueue' = Append(cmdQueue, b)
    PROVE  waitingCmds' = Append(waitingCmds, CmdOf(b))
<1> DEFINE Blocks == Seq(Unit)
           longer == Append(cmdQueue, b)
<1>1. cmdQueue \in Seq(Blocks) /\ b \in Blocks
  BY DEF IndInv, TypeOK
<1> HIDE DEF Blocks
<1>2. /\ longer \in Seq(Blocks) /\ Len(longer) = Len(cmdQueue) + 1
      /\ \A i \in 1..Len(cmdQueue) : longer[i] = cmdQueue[i]
      /\ longer[Len(cmdQueue) + 1] = b
      /\ Len(cmdQueue) \in Nat
  BY <1>1, AppendProperties, LenProperties
<1>3. DOMAIN cmdQueue = 1..Len(cmdQueue) /\ DOMAIN longer = 1..(Len(cmdQueue) + 1)
  BY <1>1, <1>2, LenProperties
<1>4. cmdQueue' = longer
  OBVIOUS
<1> HIDE DEF longer
<1>5. waitingCmds' = [i \in 1..(Len(cmdQueue) + 1) |-> CmdOf(longer[i])]
  BY <1>3, <1>4 DEF waitingCmds, CmdOf
<1>6. waitingCmds = [i \in 1..Len(cmdQueue) |-> CmdOf(cmdQueue[i])]
  BY <1>3 DEF waitingCmds
<1>7. waitingCmds \in Seq(Cmd) /\ Len(waitingCmds) = Len(cmdQueue)
  BY MapQueue
<1>8. Append(waitingCmds, CmdOf(b)) =
          [i \in 1..(Len(cmdQueue) + 1) |->
              IF i = Len(cmdQueue) + 1 THEN CmdOf(b) ELSE waitingCmds[i]]
  BY <1>7, AppendIs
<1> QED
  BY <1>2, <1>5, <1>6, <1>8

LEMMA MapTail ==
    ASSUME IndInv, cmdQueue # <<>>, cmdQueue' = Tail(cmdQueue)
    PROVE  /\ waitingCmds # <<>> /\ waitingCmds' = Tail(waitingCmds)
           /\ Head(waitingCmds) = CmdOf(Head(cmdQueue))
<1> DEFINE Blocks == Seq(Unit)
<1>1. cmdQueue \in Seq(Blocks)
  BY DEF IndInv, TypeOK
<1> HIDE DEF Blocks
<1>2. /\ Len(cmdQueue) \in Nat /\ Len(cmdQueue) > 0 /\ DOMAIN cmdQueue = 1..Len(cmdQueue)
      /\ Head(cmdQueue) = cmdQueue[1]
      /\ Tail(cmdQueue) \in Seq(Blocks) /\ Len(Tail(cmdQueue)) = Len(cmdQueue) - 1
      /\ \A i \in 1..(Len(cmdQueue) - 1) : Tail(cmdQueue)[i] = cmdQueue[i + 1]
  BY <1>1, LenProperties, HeadTailProperties, EmptySeq
<1>3. DOMAIN Tail(cmdQueue) = 1..(Len(cmdQueue) - 1)
  BY <1>2, LenProperties
<1>4. waitingCmds = [i \in 1..Len(cmdQueue) |-> CmdOf(cmdQueue[i])]
  BY <1>2 DEF waitingCmds
<1>5. waitingCmds' = [i \in 1..(Len(cmdQueue) - 1) |-> CmdOf(cmdQueue[i + 1])]
  BY <1>2, <1>3 DEF waitingCmds, CmdOf
<1>6. waitingCmds \in Seq(Cmd) /\ Len(waitingCmds) = Len(cmdQueue)
  BY MapQueue
<1>7. /\ waitingCmds # <<>> /\ Head(waitingCmds) = waitingCmds[1]
      /\ Tail(waitingCmds) = [i \in 1..(Len(cmdQueue) - 1) |-> waitingCmds[i + 1]]
  BY <1>2, <1>6, TailIs
<1> QED
  BY <1>2, <1>4, <1>5, <1>7

LEMMA MapEmpty == cmdQueue = <<>> => waitingCmds = <<>>
  BY DEF waitingCmds

\* A command is completed once: the client never writes it again.
LEMMA FreshCompletion ==
    ASSUME IndInv, NEW c \in Cmd, NEW n \in Nat, Completes(c, n)
    PROVE  c \notin Service!Range(complete)
<1>1. \A i \in DOMAIN complete : Declared[complete[i]] <= sent[complete[i]]
  BY DEF IndInv, Bookkeeping
<1>2. sent[c] \in Nat /\ Declared[c] \in Nat /\ sent[c] < Declared[c]
  BY ChannelAssumption DEF IndInv, TypeOK, Completes
<1>3. \A i \in DOMAIN complete : complete[i] # c
  BY <1>1, <1>2
<1> QED
  BY <1>3 DEF Service!Range

LEMMA RefineInit == Init => Service!Init
<1> SUFFICES ASSUME Init PROVE Service!Init
  OBVIOUS
<1>1. waitingCmds = <<>> /\ Held = {}
  BY MapEmpty DEF Init, Held, Range
<1> QED
  BY <1>1 DEF Init, Service!Init, waitingCmds

\* A fragment is invisible to the service unless it completes its command.
LEMMA RefineWrite ==
    ASSUME IndInv, ~OutOfBounds, NEW c \in Cmd, NEW n \in 0..Mtu, WriteFragment(c, n)
    PROVE  [Service!Next]_(Service!vars)
<1>1. UNCHANGED <<queueReady, bleCmd, executed>>
  BY WriteStep
<1>2. \/ ~Completes(c, n) /\ UNCHANGED <<complete, cmdQueue, lost>>
      \/ /\ Completes(c, n) /\ complete' = Append(complete, c)
         /\ queueReady
         /\ \/ /\ Len(cmdQueue) < CMD_QUEUE_LEN
               /\ cmdQueue' = Append(cmdQueue, Whole(c))
               /\ lost' = lost
            \/ /\ Len(cmdQueue) = CMD_QUEUE_LEN
               /\ cmdQueue' = cmdQueue
               /\ lost' = lost \cup {c}
  BY WriteStep
<1>3. Held' = Held /\ Len(waitingCmds) = Len(cmdQueue)
  BY <1>1, MapQueue DEF Held
<1>4. cmdQueue' = cmdQueue => waitingCmds' = waitingCmds
  BY DEF waitingCmds, CmdOf
<1>5. CASE ~Completes(c, n) /\ UNCHANGED <<complete, cmdQueue, lost>>
  BY <1>1, <1>3, <1>4, <1>5 DEF Service!vars, waitingCmds
<1>6. Completes(c, n) => c \notin Service!Range(complete)
  BY FreshCompletion
<1>7. CASE /\ Completes(c, n) /\ complete' = Append(complete, c)
           /\ Len(cmdQueue) < CMD_QUEUE_LEN
           /\ cmdQueue' = Append(cmdQueue, Whole(c))
           /\ lost' = lost
  <2>1. Declared[c] > 0
    BY <1>7, ChannelAssumption DEF IndInv, TypeOK, Completes
  <2>2. waitingCmds' = Append(waitingCmds, c)
    BY <1>7, <2>1, WholeProperties, MapAppend
  <2>3. Service!Accept(c)
    BY <1>1, <1>3, <1>6, <1>7, <2>2 DEF Service!Accept, waitingCmds
  <2> QED
    BY <2>3 DEF Service!Next
<1>8. CASE /\ Completes(c, n) /\ complete' = Append(complete, c)
           /\ Len(cmdQueue) = CMD_QUEUE_LEN
           /\ cmdQueue' = cmdQueue
           /\ lost' = lost \cup {c}
  <2>1. Len(waitingCmds) >= CMD_QUEUE_LEN
    BY <1>3, <1>8, ChannelAssumption
  <2>2. Service!Refuse(c)
    BY <1>1, <1>3, <1>4, <1>6, <1>8, <2>1 DEF Service!Refuse, waitingCmds
  <2> QED
    BY <2>2 DEF Service!Next
<1> QED
  BY <1>2, <1>5, <1>7, <1>8

\* Get_ble_command returns 0 for an early command just as for a later one.
LEMMA RefineEarly ==
    ASSUME IndInv, ~OutOfBounds, NEW c \in Cmd, NEW n \in 0..Mtu, EarlyCommand(c, n)
    PROVE  Service!ArriveEarly(c)
<1>1. Completes(c, n)
  <2>1. TypeOK /\ ReceiverFollowsClient
    BY DEF IndInv
  <2>2. /\ writing \in {c, NoCmd}
        /\ writing = NoCmd => sent[c] = 0 /\ n > 0
        /\ GetBleCommand(Units(c, sent[c] + 1, n)).ret = 0
        /\ Len(GetBleCommand(Units(c, sent[c] + 1, n)).message) <= CMD_MAX_LEN
    BY DEF EarlyCommand
  <2> QED
    BY <2>1, <2>2, GetBleCommandFollows
<1>2. c \notin Service!Range(complete)
  BY <1>1, FreshCompletion
<1>3. cmdQueue = <<>> /\ bleCmd = <<>> /\ cmdQueue' = <<>> /\ bleCmd' = <<>>
  BY DEF EarlyCommand, ResetRam, IndInv, Bookkeeping
<1>4. Held = {} /\ Held' = {} /\ Queued = {}
  BY <1>3 DEF Held, Queued, Range
<1>5. waitingCmds = <<>> /\ waitingCmds' = <<>> /\ Service!Range(waitingCmds) = {}
  BY <1>3, <1>4, MapQueue DEF waitingCmds
<1>6. /\ complete' = Append(complete, c)
      /\ lost' = lost \cup {c}
      /\ executed' = executed
  BY <1>1, <1>4 DEF EarlyCommand
<1> QED
  BY <1>2, <1>4, <1>5, <1>6 DEF Service!ArriveEarly, Service!Pending, waitingCmds

\* Everything that empties the queue at once.
LEMMA RefineRestart ==
    ASSUME IndInv, ExecuteRestart \/ Restart
    PROVE  Service!Next
<1>1. cmdQueue' = <<>> /\ bleCmd' = <<>> /\ complete' = complete
  BY DEF ExecuteRestart, Restart, ResetRam
<1>2. waitingCmds' = <<>> /\ Held' = {}
  BY <1>1 DEF waitingCmds, Held, Range
<1>3. Service!Range(waitingCmds) = Queued
  BY MapQueue
<1>4. CASE Restart
  <2>1. Service!Restart
    BY <1>1, <1>2, <1>3, <1>4 DEF Restart, Service!Restart, Service!Pending, waitingCmds
  <2> QED
    BY <2>1 DEF Service!Next
<1>5. CASE ExecuteRestart
  <2>1. CmdOf(bleCmd) \in Cmd /\ Held = {CmdOf(bleCmd)}
    BY <1>5, PendingAreCommands DEF ExecuteRestart
  <2>2. Service!ExecuteRestart(CmdOf(bleCmd))
    BY <1>1, <1>2, <1>3, <1>5, <2>1
       DEF ExecuteRestart, Service!ExecuteRestart, waitingCmds
  <2> QED
    BY <2>1, <2>2 DEF Service!Next
<1> QED
  BY <1>4, <1>5

LEMMA HeadIsWhole ==
    ASSUME IndInv, cmdQueue # <<>>
    PROVE  {u.cmd : u \in Range(Head(cmdQueue))} = {CmdOf(Head(cmdQueue))}
<1> DEFINE Blocks == Seq(Unit)
<1>1. cmdQueue \in Seq(Blocks)
  BY DEF IndInv, TypeOK
<1> HIDE DEF Blocks
<1>2. Head(cmdQueue) = cmdQueue[1] /\ 1 \in DOMAIN cmdQueue
  BY <1>1, HeadTailProperties, LenProperties, EmptySeq
<1>3. /\ cmdQueue[1] \in Seq(Unit) /\ cmdQueue[1] # <<>>
      /\ cmdQueue[1] = Whole(CmdOf(cmdQueue[1]))
  BY <1>1, <1>2, ElementOfSeq DEF Blocks, IndInv, OnlyWholeCommandsQueued
<1> QED
  BY <1>2, <1>3, OneCommand

LEMMA RefineExecutor ==
    ASSUME IndInv, ReceiveCommand \/ ExecuteCommand
    PROVE  Service!Next
<1>1. CASE ReceiveCommand
  <2>1. /\ bleCmd = <<>> /\ cmdQueue # <<>>
        /\ bleCmd' = Head(cmdQueue) /\ cmdQueue' = Tail(cmdQueue)
        /\ UNCHANGED <<complete, executed, lost>>
    BY <1>1 DEF ReceiveCommand, history
  <2>2. /\ waitingCmds # <<>> /\ waitingCmds' = Tail(waitingCmds)
        /\ Head(waitingCmds) = CmdOf(Head(cmdQueue))
    BY <2>1, MapTail
  <2>3. Held = {}
    BY <2>1 DEF Held, Range
  <2>4. Held' = {CmdOf(Head(cmdQueue))}
    BY <2>1, HeadIsWhole DEF Held
  <2>5. Service!Take
    BY <2>1, <2>2, <2>3, <2>4 DEF Service!Take, waitingCmds
  <2> QED
    BY <2>5 DEF Service!Next
<1>2. CASE ExecuteCommand
  <2>1. CmdOf(bleCmd) \in Cmd /\ Held = {CmdOf(bleCmd)}
    BY <1>2, PendingAreCommands DEF ExecuteCommand
  <2>2. Held' = {} /\ waitingCmds' = waitingCmds
    BY <1>2 DEF ExecuteCommand, Held, Range, waitingCmds, CmdOf
  <2>3. Service!Execute(CmdOf(bleCmd))
    BY <1>2, <2>1, <2>2 DEF ExecuteCommand, Service!Execute, waitingCmds
  <2> QED
    BY <2>1, <2>3 DEF Service!Next
<1> QED
  BY <1>1, <1>2

LEMMA RefineNext ==
    IndInv /\ [Next]_vars => [Service!Next]_(Service!vars)
<1> SUFFICES ASSUME IndInv, [Next]_vars PROVE [Service!Next]_(Service!vars)
  OBVIOUS
<1>1. CASE \/ UNCHANGED vars
           \/ ExecuteWrite \/ Connect \/ Disconnect \/ CreateQueue
  <2>1. UNCHANGED <<complete, cmdQueue, bleCmd, executed, lost>>
    BY <1>1 DEF vars, execVars, history, ExecuteWrite, Connect, Disconnect, CreateQueue
  <2>2. waitingCmds' = waitingCmds /\ Held' = Held
    BY <2>1 DEF waitingCmds, CmdOf, Held
  <2> QED
    BY <2>1, <2>2 DEF Service!vars, waitingCmds
<1>2. CASE ~OutOfBounds /\ \E c \in Cmd, n \in 0..Mtu : WriteFragment(c, n)
  BY <1>2, RefineWrite
<1>3. CASE ~OutOfBounds /\ \E c \in Cmd, n \in 0..Mtu : EarlyCommand(c, n)
  BY <1>3, RefineEarly DEF Service!Next
<1>4. CASE ExecuteRestart \/ Restart
  BY <1>4, RefineRestart
<1>5. CASE ReceiveCommand \/ ExecuteCommand
  BY <1>5, RefineExecutor
<1> QED
  BY <1>1, <1>2, <1>3, <1>4, <1>5 DEF Next, Client, Executor, PlainWrite, PreparePart

\* The path from the client's fragments to the executor keeps the promise of
\* a first-in first-out queue that loses a command only when it is full or
\* when the gateway restarts.
THEOREM ChannelImplementsService == Spec => ImplementsService
<1>1. Init => Service!Init
  BY RefineInit
<1>2. IndInv /\ [Next]_vars => [Service!Next]_(Service!vars)
  BY RefineNext
<1> QED
  BY <1>1, <1>2, Inductive, PTL DEF Spec, ImplementsService, Service!Spec
-----------------------------------------------------------------------------
\* What CommandServiceProofs shows of the service, read through the same mapping.
Sound == INSTANCE CommandServiceProofs WITH
             waiting <- [i \in DOMAIN cmdQueue |-> CmdOf(cmdQueue[i])],
             running <- Held

LEMMA SoundInit == Init => Sound!ServiceInv
<1>1. Sound!Init => Sound!ServiceInv
  BY Sound!ServiceInit
<1>2. Sound!Init <=> Service!Init
  BY DEF Sound!Init, Service!Init
<1> QED
  BY <1>1, <1>2, RefineInit

\* The two instances of CommandService are the same specification.
LEMMA SameStep == [Service!Next]_(Service!vars) => [Sound!Next]_(Sound!vars)
<1>1. UNCHANGED Service!vars <=> UNCHANGED Sound!vars
  BY DEF Sound!vars, Service!vars
<1>2. /\ Service!Range(complete) = Sound!Range(complete)
      /\ Service!Range(waitingCmds) = Sound!Range(waitingCmds)
  BY DEF Service!Range, Sound!Range
<1>3. Service!Pending = Sound!Pending
  BY <1>2 DEF Service!Pending, Sound!Pending, waitingCmds
<1>4. ASSUME NEW c \in Cmd
      PROVE  /\ Service!Accept(c) => Sound!Accept(c)
             /\ Service!Refuse(c) => Sound!Refuse(c)
             /\ Service!ArriveEarly(c) => Sound!ArriveEarly(c)
  BY <1>2, <1>3 DEF Service!Accept, Sound!Accept, Service!Refuse, Sound!Refuse,
                    Service!ArriveEarly, Sound!ArriveEarly
<1>5. ASSUME NEW c \in Cmd
      PROVE  /\ Service!Execute(c) => Sound!Execute(c)
             /\ Service!ExecuteRestart(c) => Sound!ExecuteRestart(c)
  BY <1>2, <1>3 DEF Service!Execute, Sound!Execute, Service!ExecuteRestart, Sound!ExecuteRestart, waitingCmds
<1>6. Service!Take => Sound!Take
  BY DEF Service!Take, Sound!Take
<1>7. Service!Restart => Sound!Restart
  BY <1>3 DEF Service!Restart, Sound!Restart
<1> QED
  BY <1>1, <1>4, <1>5, <1>6, <1>7 DEF Service!Next, Sound!Next

LEMMA SoundInv == Spec => []Sound!ServiceInv
<1>1. Sound!ServiceInv /\ [Sound!Next]_(Sound!vars) => Sound!ServiceInv'
  BY Sound!ServiceNext
<1>2. IndInv /\ [Next]_vars => [Sound!Next]_(Sound!vars)
  BY RefineNext, SameStep
<1>3. Init => Sound!ServiceInv
  BY SoundInit
<1> QED
  BY <1>1, <1>2, <1>3, Inductive, PTL DEF Spec
-----------------------------------------------------------------------------
\* An element of three sequences in a row is an element of one of them.
LEMMA Thirds ==
    ASSUME NEW S, NEW a \in Seq(S), NEW b \in Seq(S), NEW d \in Seq(S)
    PROVE  /\ Len(a) \in Nat /\ Len(b) \in Nat /\ Len(d) \in Nat
           /\ \A i \in DOMAIN (a \o b \o d) : i \in Int /\
                \/ i \in DOMAIN a /\ (a \o b \o d)[i] = a[i]
                \/ /\ i > Len(a) /\ i - Len(a) \in DOMAIN b
                   /\ (a \o b \o d)[i] = b[i - Len(a)]
                \/ /\ i > Len(a) + Len(b) /\ i - (Len(a) + Len(b)) \in DOMAIN d
                   /\ (a \o b \o d)[i] = d[i - (Len(a) + Len(b))]
  OBVIOUS

LEMMA Forgotten == IndInv /\ Sound!ServiceInv => NoCommandForgotten
<1> SUFFICES ASSUME IndInv, Sound!ServiceInv PROVE NoCommandForgotten
  OBVIOUS
<1>1. Sound!Range(waitingCmds) = Queued
  BY MapQueue DEF Service!Range, Sound!Range
<1>2. /\ Sound!Range(complete) = Range(complete) /\ Sound!Range(executed) = Range(executed)
  BY DEF Sound!Range, Range
<1>3. Sound!Accounted
  BY DEF Sound!ServiceInv
<1> QED
  BY <1>1, <1>2, <1>3 DEF NoCommandForgotten, Sound!Accounted, Sound!Pending, waitingCmds

LEMMA InOrder == IndInv /\ Sound!ServiceInv => ExecutedInOrder
<1> SUFFICES ASSUME IndInv, Sound!ServiceInv PROVE ExecutedInOrder
  OBVIOUS
<1> DEFINE held == IF bleCmd = <<>> THEN <<>> ELSE <<CmdOf(bleCmd)>>
           log == executed \o held \o waitingCmds
           E == Len(executed)
           H == Len(held)
           Older(a, b) == \E p, q \in DOMAIN complete : p < q /\ complete[p] = a /\ complete[q] = b
<1>1. Sound!Range(waitingCmds) = Queued /\ waitingCmds \in Seq(Cmd)
  BY MapQueue DEF Service!Range, Sound!Range
<1>2. held \in Seq(Cmd) /\ \A i \in DOMAIN held : i = 1 /\ held[i] \in Held
  <2>1. CASE bleCmd = <<>>
    BY <2>1
  <2>2. CASE bleCmd # <<>>
    BY <2>2, PendingAreCommands
  <2> QED
    BY <2>1, <2>2
<1>3. executed \in Seq(Cmd) /\ \A i \in DOMAIN executed : executed[i] \in Sound!Range(executed)
  BY DEF IndInv, TypeOK, Sound!Range
<1>4. \A i \in DOMAIN waitingCmds : waitingCmds[i] \in Sound!Range(waitingCmds)
  BY DEF Sound!Range
<1>5. /\ \A i, j \in DOMAIN executed : i < j => Older(executed[i], executed[j])
      /\ \A i, j \in DOMAIN waitingCmds : i < j => Older(waitingCmds[i], waitingCmds[j])
      /\ \A a \in Sound!Range(executed), b \in Sound!Range(waitingCmds) \cup Held : Older(a, b)
      /\ \A a \in Held, b \in Sound!Range(waitingCmds) : Older(a, b)
  BY DEF Sound!ServiceInv, Sound!Ordered, Sound!Before, Sound!Pending, waitingCmds
<1> SUFFICES ASSUME NEW i \in DOMAIN log, NEW j \in DOMAIN log, i < j
             PROVE  Older(log[i], log[j])
  BY DEF ExecutedInOrder, waitingCmds
<1>6. E \in Nat /\ H \in Nat
  BY <1>2, <1>3, LenProperties
<1>7. ASSUME NEW k \in DOMAIN log
      PROVE  /\ k \in Int
             /\ \/ k \in DOMAIN executed /\ log[k] = executed[k]
                \/ k > E /\ k - E \in DOMAIN held /\ log[k] = held[k - E]
                \/ /\ k > E + H /\ k - (E + H) \in DOMAIN waitingCmds
                   /\ log[k] = waitingCmds[k - (E + H)]
  BY <1>1, <1>2, <1>3, Thirds
<1> HIDE DEF log, Older
<1>8. i \in Int /\ j \in Int
  BY <1>7
<1>9. DOMAIN executed = 1..E
  BY <1>3, LenProperties
<1> HIDE DEF E, H, held
<1>10. CASE j \in DOMAIN executed /\ log[j] = executed[j]
  <2>1. i \in DOMAIN executed /\ log[i] = executed[i]
    BY <1>6, <1>7, <1>8, <1>9, <1>10
  <2> QED
    BY <1>5, <1>10, <2>1
<1>11. CASE j > E /\ j - E \in DOMAIN held /\ log[j] = held[j - E]
  <2>1. j - E = 1 /\ log[j] \in Held
    BY <1>2, <1>11
  <2>2. i <= E
    BY <1>6, <1>8, <2>1
  <2>3. i \in DOMAIN executed /\ log[i] = executed[i]
    BY <1>6, <1>7, <1>8, <2>2
  <2> QED
    BY <1>3, <1>5, <2>1, <2>3
<1>12. CASE /\ j > E + H /\ j - (E + H) \in DOMAIN waitingCmds
            /\ log[j] = waitingCmds[j - (E + H)]
  <2>1. log[j] \in Sound!Range(waitingCmds)
    BY <1>4, <1>12
  <2>2. CASE i \in DOMAIN executed /\ log[i] = executed[i]
    BY <1>3, <1>5, <2>1, <2>2
  <2>3. CASE i - E \in DOMAIN held /\ log[i] = held[i - E]
    BY <1>2, <1>5, <2>1, <2>3
  <2>4. CASE i - (E + H) \in DOMAIN waitingCmds /\ log[i] = waitingCmds[i - (E + H)]
    <3>1. i - (E + H) < j - (E + H)
      BY <1>6, <1>8
    <3> QED
      BY <1>5, <1>12, <2>4, <3>1
  <2> QED
    BY <1>7, <2>2, <2>3, <2>4
<1> QED
  BY <1>7, <1>10, <1>11, <1>12

\* Every completed command is executed, pending or accounted for as lost, and never
\* two of these: nothing is forgotten between the receiver, the queue and the
\* executor, and nothing is executed twice.
THEOREM NothingForgotten == Spec => []NoCommandForgotten
  BY Inductive, SoundInv, Forgotten, PTL

\* opcode_handle sees the commands in the order in which clients completed them.
THEOREM InWrittenOrder == Spec => []ExecutedInOrder
  BY Inductive, SoundInv, InOrder, PTL
=============================================================================
