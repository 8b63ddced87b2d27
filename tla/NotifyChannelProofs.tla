------------------------ MODULE NotifyChannelProofs ------------------------
(***************************************************************************)
(* Proofs about NotifyChannel, for every set of messages of every length,  *)
(* every size of a piece and of the buffer, and any number of waiting      *)
(* events.                                                                 *)
(***************************************************************************)
EXTENDS NotifyChannel, TLAPS

\* A number and its last multiple of c: what the pieces of a message add up to.
LEMMA ModAdd ==
    ASSUME NEW a \in Nat, NEW c \in Nat \ {0}, a % c = 0
    PROVE  (a + c) % c = 0
<1> DEFINE q == a \div c
           r == (a + c) \div c
           s == (a + c) % c
<1>1. a = q * c /\ q \in Int
  OBVIOUS
<1>2. r \in Int /\ s \in 0..(c - 1) /\ a + c = r * c + s
  OBVIOUS
<1> HIDE DEF q, r, s
<1>3. (q + 1 - r) * c = s /\ q + 1 - r \in Int
  BY <1>1, <1>2
<1>4. ASSUME q + 1 - r > 0 PROVE FALSE
  <2>1. (q + 1 - r) * c >= c
    BY <1>3, <1>4
  <2> QED
    BY <1>2, <1>3, <2>1
<1>5. ASSUME q + 1 - r < 0 PROVE FALSE
  <2>1. (q + 1 - r) * c < 0
    BY <1>3, <1>5
  <2> QED
    BY <1>2, <1>3, <2>1
<1>6. s = 0
  BY <1>3, <1>4, <1>5
<1> QED
  BY <1>6 DEF s

\* Replacing the last digit of a number below a multiple of the base by any digit
\* stays below it.
LEMMA DigitBound ==
    ASSUME NEW s \in Nat, NEW r \in Nat \ {0}, NEW n \in Nat, n % r = 0, s < n,
           NEW d \in 0..(r - 1)
    PROVE  (s \div r) * r + d \in 0..(n - 1)
<1>1. PICK k \in Nat : n = k * r
  OBVIOUS
<1>2. PICK q \in Nat : q = s \div r /\ q * r <= s
  OBVIOUS
<1>3. q < k
  BY <1>1, <1>2
<1>4. q * r + r <= k * r
  BY <1>3
<1> QED
  BY <1>1, <1>2, <1>4

\* The two statements that write the length field keep it in its range.
LEMMA DigitsFit ==
    ASSUME NEW s \in Lengths, NEW l \in Nat
    PROVE  (s \div Radix) * Radix + (l % Radix) \in Lengths
<1> DEFINE n == CMD_MAX_LEN + Radix
<1>1. /\ Radix \in Nat \ {0} /\ CMD_MAX_LEN \in Nat /\ CMD_MAX_LEN % Radix = 0
      /\ s \in 0..(CMD_MAX_LEN + Radix - 1)
  BY NotifyAssumption DEF Lengths
<1>2. l % Radix \in 0..(Radix - 1)
  BY <1>1
<1>3. n % Radix = 0
  BY <1>1, ModAdd
<1>4. n \in Nat /\ s \in Nat /\ s < n /\ Lengths = 0..(n - 1)
  BY <1>1 DEF Lengths
<1> HIDE DEF n
<1> QED
  BY <1>1, <1>2, <1>3, <1>4, DigitBound
-----------------------------------------------------------------------------
(***************************************************************************)
(* Types, and the pieces of a message.                                     *)
(***************************************************************************)
\* A task between the statements of create_return_notify has a message, which fits if
\* its body has been copied, and only a task in the loop of send_ble_notify has handed
\* over anything.
Building == \A t \in Task : pc[t] \in Inside => msg[t] \in Msg
Copied == \A t \in Task : pc[t] \in {"high", "low"} => Size[msg[t]] <= CMD_MAX_LEN
Handing == \A t \in Task : pc[t] \notin {"piece", "wipe"} => out[t] = <<>>

IndInv == TypeOK /\ Building /\ Copied /\ Handing /\ SendsWhatItRead

\* What is typed, of the connection and of the tasks.
ConnectionType ==
    /\ link \in BOOLEAN /\ advertising \in BOOLEAN
    /\ events \in Seq(Event)
    /\ enable \in BOOLEAN /\ serverConnect \in BOOLEAN /\ descr \in {"never", "on", "off"}
BufferType ==
    cells \in [1..CMD_MAX_LEN -> Msg \cup {NoMsg}] /\ length \in Lengths
PcType == pc \in [Task -> {"idle", "overrun"} \cup Inside \cup Sending]
OutType == out \in [Task -> Seq(Msg \cup {NoMsg})]
TasksType ==
    /\ PcType
    /\ msg \in [Task -> Msg \cup {NoMsg}]
    /\ total \in [Task -> Lengths]
    /\ OutType
    /\ alone \in [Task -> BOOLEAN]
    /\ orphan \in [Task -> BOOLEAN]

LEMMA TypeParts == TypeOK <=> ConnectionType /\ BufferType /\ TasksType
  BY DEF TypeOK, ConnectionType, BufferType, TasksType, PcType, OutType

LEMMA ConstantTypes ==
    /\ Chunk \in Nat \ {0} /\ Radix \in Nat \ {0, 1} /\ CMD_MAX_LEN \in Nat
    /\ Radix + 1 < CMD_MAX_LEN
    /\ \A m \in Msg : Size[m] \in Nat \ {0}
    /\ 0 \in Lengths /\ Radix + 1 \in Lengths /\ Lengths \subseteq Nat
    /\ \A n \in Nat : n <= CMD_MAX_LEN => n \in Lengths
  BY NotifyAssumption DEF Lengths

LEMMA InitInv == Init => IndInv
<1> SUFFICES ASSUME Init PROVE IndInv
  OBVIOUS
<1>1. ConnectionType
  <2>1. <<>> \in Seq(Event)
    OBVIOUS
  <2> QED
    BY <2>1 DEF Init, ConnectionType
<1>2. BufferType
  BY ConstantTypes DEF Init, BufferType, Blank
<1>3. TasksType
  BY ConstantTypes DEF Init, TasksType, PcType, OutType, Inside, Sending
<1>4. Building /\ Copied /\ Handing /\ SendsWhatItRead
  BY DEF Init, Building, Copied, Handing, SendsWhatItRead, Inside
<1> QED
  BY <1>1, <1>2, <1>3, <1>4, TypeParts DEF IndInv

\* A restart is a new beginning.
LEMMA RestartInv == Restart => IndInv'
<1>1. Restart => Init'
  BY DEF Restart, Init
<1> QED
  BY <1>1, InitInv, PTL

\* The connection moves, the tasks do not.
LEMMA ConnectionInv == IndInv /\ (World \/ BluetoothTask) => IndInv'
<1> SUFFICES ASSUME IndInv, World \/ BluetoothTask PROVE IndInv'
  OBVIOUS
<1>1. ConnectionType /\ BufferType /\ TasksType
  BY TypeParts DEF IndInv
<1>2. UNCHANGED <<buffer, pc, msg, total, out, alone>>
  BY DEF World, Connect, Disconnect, WriteDescr, BluetoothTask, Up, Down, DescrWritten, Handle,
         tasks
<1>6. orphan' \in [Task -> BOOLEAN]
  <2>1. orphan' = orphan \/ orphan' = [t \in Task |-> orphan[t] \/ pc[t] = "piece"]
    BY DEF World, Connect, Disconnect, WriteDescr, BluetoothTask, Up, Down, DescrWritten, Handle,
           tasks
  <2> QED
    BY <1>1, <2>1 DEF TasksType
<1>3. ConnectionType'
  <2>1. {"up", "down", "on", "off", "other"} \subseteq Event
    BY DEF Event
  <2>2. CASE World
    <3>1. PICK e \in Event : events' = Append(events, e)
      BY <2>1, <2>2 DEF World, Connect, Disconnect, WriteDescr
    <3>2. events' \in Seq(Event)
      BY <1>1, <3>1 DEF ConnectionType
    <3>3. link' \in BOOLEAN /\ advertising' \in BOOLEAN /\ UNCHANGED known
      BY <1>1, <2>2 DEF World, Connect, Disconnect, WriteDescr, ConnectionType
    <3> QED
      BY <1>1, <3>2, <3>3 DEF ConnectionType, known
  <2>3. CASE BluetoothTask
    <3>1. link' = link /\ events' = Tail(events) /\ events # <<>>
      BY <2>3 DEF BluetoothTask, Up, Down, DescrWritten, Handle
    <3>2. events' \in Seq(Event)
      BY <1>1, <3>1 DEF ConnectionType
    <3>3. enable' \in BOOLEAN /\ serverConnect' \in BOOLEAN /\ advertising' \in BOOLEAN
      BY <1>1, <2>3 DEF BluetoothTask, Up, Down, ProfileADown, ProfileBDown, DescrWritten,
                        ConnectionType
    <3>4. descr' \in {"never", "on", "off"}
      BY <1>1, <2>3 DEF BluetoothTask, Up, Down, DescrWritten, ConnectionType
    <3> QED
      BY <1>1, <3>1, <3>2, <3>3, <3>4 DEF ConnectionType
  <2> QED
    BY <2>2, <2>3
<1>4. BufferType' /\ TasksType'
  BY <1>1, <1>2, <1>6 DEF BufferType, TasksType, PcType, OutType, buffer
<1>5. (Building /\ Copied /\ Handing /\ SendsWhatItRead)'
  BY <1>2 DEF IndInv, Building, Copied, Handing, SendsWhatItRead
<1> QED
  BY <1>3, <1>4, <1>5, TypeParts DEF IndInv, TypeOK, ConnectionType, BufferType, TasksType,
                                     PcType, OutType

\* A task enters.
LEMMA EnterInv ==
    ASSUME IndInv, NEW t \in Task, NEW m \in Msg \cup {NoMsg}, NEW first,
           (first = "clear" /\ m \in Msg) \/ first = "enabled", Enter(t, m, first)
    PROVE  IndInv'
<1>1. ConnectionType /\ BufferType /\ TasksType
  BY TypeParts DEF IndInv
<1>2. /\ pc' = [pc EXCEPT ![t] = first] /\ msg' = [msg EXCEPT ![t] = m]
      /\ pc[t] = "idle"
      /\ UNCHANGED <<connection, known, buffer, total, out, orphan>>
  BY DEF Enter
<1>3. alone' \in [Task -> BOOLEAN]
  BY DEF Enter
<1>4. first \in {"idle", "overrun"} \cup Inside \cup Sending
  BY DEF Inside, Sending
<1>5. PcType'
  BY <1>1, <1>2, <1>4 DEF TasksType, PcType
<1>6. TasksType'
  BY <1>1, <1>2, <1>3, <1>5 DEF TasksType, OutType
<1>7. ConnectionType' /\ BufferType'
  BY <1>1, <1>2 DEF ConnectionType, BufferType, connection, known, buffer
<1>8. Building'
  BY <1>1, <1>2 DEF IndInv, Building, TasksType, PcType, Inside
<1>11. Copied'
  BY <1>1, <1>2 DEF IndInv, Copied, TasksType, PcType
<1>9. Handing'
  BY <1>1, <1>2 DEF IndInv, Handing, TasksType, PcType
<1>10. SendsWhatItRead'
  BY <1>1, <1>2 DEF IndInv, SendsWhatItRead, TasksType, PcType
<1> QED
  BY <1>6, <1>7, <1>8, <1>9, <1>10, <1>11 DEF IndInv, TypeOK, ConnectionType, BufferType,
                                       TasksType, PcType, OutType

\* A statement of create_return_notify: the buffer keeps its type, nothing is handed
\* over.
LEMMA BuildInv ==
    ASSUME IndInv, NEW t \in Task, CreateReturnNotify(t)
    PROVE  IndInv'
<1>1. ConnectionType /\ BufferType /\ TasksType
  BY TypeParts DEF IndInv
<1>2. PICK next \in Inside \cup {"idle", "overrun", "enabled"} :
         /\ pc[t] \in Inside /\ pc' = [pc EXCEPT ![t] = next]
         /\ next \in Inside => msg' = msg
         /\ next = "high" => Size[msg[t]] <= CMD_MAX_LEN
         /\ next = "low" => pc[t] = "high"
  BY DEF CreateReturnNotify, Clear, Header, Body, BodyBeyond, High, Low, At, Inside
<1>3. /\ UNCHANGED <<connection, known, alone, total, out, orphan>>
      /\ msg' = msg \/ msg' = [msg EXCEPT ![t] = NoMsg]
  BY DEF CreateReturnNotify, Clear, Header, Body, BodyBeyond, High, Low, At
<1>4. msg[t] \in Msg
  BY <1>2 DEF IndInv, Building
<1>5. cells' \in [1..CMD_MAX_LEN -> Msg \cup {NoMsg}]
  BY <1>1, <1>4, ConstantTypes DEF CreateReturnNotify, Clear, Header, Body, BodyBeyond, High,
                                   Low, Blank, BufferType, buffer
<1>6. length' \in Lengths
  <2>1. length \in Lengths /\ length \in Nat /\ Size[msg[t]] \in Nat
    BY <1>1, <1>4, ConstantTypes DEF BufferType
  <2>2. CASE High(t)
    <3>1. Size[msg[t]] \in Lengths
      BY <2>1, <2>2, ConstantTypes DEF High, At, IndInv, Copied
    <3> QED
      BY <2>1, <2>2, <3>1, DigitsFit DEF High
  <2>4. CASE Low(t)
    BY <2>1, <2>4, DigitsFit DEF Low
  <2>3. CASE Clear(t) \/ Header(t) \/ Body(t) \/ BodyBeyond(t)
    BY <2>1, <2>3, ConstantTypes DEF Clear, Header, Body, BodyBeyond, buffer
  <2> QED
    BY <2>2, <2>3, <2>4 DEF CreateReturnNotify
<1>7. BufferType' /\ ConnectionType'
  BY <1>1, <1>3, <1>5, <1>6 DEF BufferType, ConnectionType, connection, known
<1>8. PcType'
  BY <1>1, <1>2 DEF TasksType, PcType, Sending
<1>9. TasksType'
  BY <1>1, <1>3, <1>8 DEF TasksType, OutType
<1>10. Building'
  BY <1>1, <1>2, <1>3, <1>4 DEF IndInv, Building, TasksType, PcType, Inside
<1>13. Copied'
  BY <1>1, <1>2, <1>3 DEF IndInv, Copied, TasksType, PcType, Inside
<1>11. Handing'
  BY <1>1, <1>2, <1>3 DEF IndInv, Handing, TasksType, PcType, Inside
<1>12. SendsWhatItRead'
  BY <1>1, <1>2, <1>3 DEF IndInv, SendsWhatItRead, TasksType, PcType, Inside
<1> QED
  BY <1>7, <1>9, <1>10, <1>11, <1>12, <1>13 DEF IndInv, TypeOK, ConnectionType, BufferType,
                                         TasksType, PcType, OutType

\* A piece is full or completes the length that was read.
LEMMA PieceIs ==
    ASSUME IndInv, NEW t \in Task, pc[t] = "piece"
    PROVE  LET left == total[t] - Len(out[t])
           IN  /\ Piece(t, total[t]) \in Seq(Msg \cup {NoMsg})
               /\ Len(Piece(t, total[t])) = IF left > Chunk THEN Chunk ELSE left
<1> DEFINE sent == Len(out[t])
           left == total[t] - sent
           n == IF left > Chunk THEN Chunk ELSE left
           part == [i \in 1..n |-> IF sent + i <= CMD_MAX_LEN THEN cells[sent + i] ELSE NoMsg]
<1>1. ConnectionType /\ BufferType /\ TasksType
  BY TypeParts DEF IndInv
<1>2. sent \in Nat /\ total[t] \in Nat /\ sent <= total[t]
  <2>1. out[t] \in Seq(Msg \cup {NoMsg}) /\ total[t] \in Nat
    BY <1>1, ConstantTypes DEF TasksType, OutType
  <2>2. out[t] # <<>> => sent < total[t]
    BY DEF IndInv, SendsWhatItRead
  <2>3. out[t] = <<>> => sent = 0
    OBVIOUS
  <2> QED
    BY <2>1, <2>2, <2>3
<1>3. n \in Nat
  BY <1>2, ConstantTypes
<1>4. Piece(t, total[t]) = part
  BY DEF Piece
<1>5. /\ cells \in [1..CMD_MAX_LEN -> Msg \cup {NoMsg}]
      /\ CMD_MAX_LEN \in Nat
  BY <1>1, ConstantTypes DEF BufferType
<1> HIDE DEF sent, n
<1>6. part \in [1..n -> Msg \cup {NoMsg}]
  BY <1>2, <1>3, <1>5
<1> HIDE DEF part
<1>7. part \in Seq(Msg \cup {NoMsg}) /\ Len(part) = n
  BY <1>3, <1>6
<1> QED
  BY <1>4, <1>7 DEF sent, n

\* What one task hands over is its own affair.
LEMMA OtherTasksSend ==
    ASSUME Handing, SendsWhatItRead, NEW t \in Task,
           \A u \in Task \ {t} : pc'[u] = pc[u] /\ out'[u] = out[u] /\ total'[u] = total[u],
           pc'[t] \notin {"piece", "wipe"} => out'[t] = <<>>,
           pc'[t] = "wipe" => Len(out'[t]) = total'[t],
           pc'[t] = "piece" => Len(out'[t]) % Chunk = 0,
           pc'[t] = "piece" /\ out'[t] # <<>> => Len(out'[t]) < total'[t]
    PROVE  Handing' /\ SendsWhatItRead'
<1>1. ASSUME NEW u \in Task
      PROVE  /\ pc'[u] \notin {"piece", "wipe"} => out'[u] = <<>>
             /\ pc'[u] = "wipe" => Len(out'[u]) = total'[u]
             /\ pc'[u] = "piece" => Len(out'[u]) % Chunk = 0
             /\ pc'[u] = "piece" /\ out'[u] # <<>> => Len(out'[u]) < total'[u]
  <2>1. CASE u = t
    BY <2>1
  <2>2. CASE u # t
    <3>1. pc'[u] = pc[u] /\ out'[u] = out[u] /\ total'[u] = total[u]
      BY <2>2
    <3>2. /\ pc[u] \notin {"piece", "wipe"} => out[u] = <<>>
          /\ pc[u] = "wipe" => Len(out[u]) = total[u]
          /\ pc[u] = "piece" => Len(out[u]) % Chunk = 0
          /\ pc[u] = "piece" /\ out[u] # <<>> => Len(out[u]) < total[u]
      BY DEF Handing, SendsWhatItRead
    <3> QED
      BY <3>1, <3>2
  <2> QED
    BY <2>1, <2>2
<1> QED
  BY <1>1 DEF Handing, SendsWhatItRead

\* A statement of send_ble_notify.
LEMMA SendInv ==
    ASSUME IndInv, NEW t \in Task, SendBleNotify(t)
    PROVE  IndInv'
<1>1. ConnectionType /\ BufferType /\ TasksType
  BY TypeParts DEF IndInv
<1>2. PICK next \in Sending \cup {"idle"} :
         /\ pc[t] \in Sending /\ pc' = [pc EXCEPT ![t] = next]
  BY DEF SendBleNotify, NotEnabled, ReadLength, SendPiece, Wipe, At, Sending
<1>3. /\ UNCHANGED <<connection, known, alone>>
      /\ msg' = msg \/ msg' = [msg EXCEPT ![t] = NoMsg]
      /\ \/ orphan' = orphan
         \/ orphan' = [orphan EXCEPT ![t] = ~link]
         \/ orphan' = [orphan EXCEPT ![t] = FALSE]
  BY DEF SendBleNotify, NotEnabled, ReadLength, SendPiece, Wipe, At
<1>4. BufferType' /\ ConnectionType'
  <2>1. UNCHANGED buffer \/ (cells' = Blank /\ length' = 0)
    BY DEF SendBleNotify, NotEnabled, ReadLength, SendPiece, Wipe
  <2>2. BufferType'
    BY <1>1, <2>1, ConstantTypes DEF Blank, BufferType, buffer
  <2> QED
    BY <1>1, <1>3, <2>2 DEF ConnectionType, connection, known
<1>5. PcType'
  BY <1>1, <1>2 DEF TasksType, PcType
<1>13. orphan' \in [Task -> BOOLEAN]
  BY <1>1, <1>3 DEF TasksType, ConnectionType
<1>14. Copied'
  BY <1>1, <1>2, <1>3 DEF IndInv, Copied, TasksType, PcType, Sending
<1>6. total' \in [Task -> Lengths]
  BY <1>1, ConstantTypes DEF SendBleNotify, NotEnabled, ReadLength, SendPiece, Wipe,
                             TasksType, BufferType
<1>7. Building'
  BY <1>1, <1>2, <1>3 DEF IndInv, Building, TasksType, PcType, Inside, Sending
<1>8. \A u \in Task \ {t} : pc'[u] = pc[u] /\ out'[u] = out[u] /\ total'[u] = total[u]
  BY <1>1, <1>2 DEF SendBleNotify, NotEnabled, ReadLength, SendPiece, Wipe,
                          TasksType, PcType, OutType
<1> Handing /\ SendsWhatItRead
  BY DEF IndInv
<1>9. ASSUME SendPiece(t)
      PROVE  OutType' /\ Handing' /\ SendsWhatItRead'
  <2> DEFINE piece == Piece(t, total[t])
             left == total[t] - Len(out[t])
  <2>1. /\ pc[t] = "piece" /\ pc'[t] = IF left > Chunk THEN "piece" ELSE "wipe"
        /\ out' = [out EXCEPT ![t] = out[t] \o piece] /\ total' = total
    BY <1>1, <1>9 DEF SendPiece, At, TasksType, PcType
  <2>2. /\ piece \in Seq(Msg \cup {NoMsg})
        /\ Len(piece) = IF left > Chunk THEN Chunk ELSE left
    BY <2>1, PieceIs
  <2>3. out[t] \in Seq(Msg \cup {NoMsg}) /\ total[t] \in Nat
    BY <1>1, ConstantTypes DEF TasksType, OutType
  <2> HIDE DEF piece
  <2>4. out[t] \o piece \in Seq(Msg \cup {NoMsg}) /\ Len(out[t] \o piece) = Len(out[t]) + Len(piece)
    BY <2>2, <2>3
  <2>5. OutType' /\ out'[t] = out[t] \o piece
    BY <1>1, <2>1, <2>4 DEF TasksType, OutType
  <2>6. CASE left > Chunk
    <3>1. Len(out'[t]) = Len(out[t]) + Chunk /\ Len(out'[t]) < total'[t]
      BY <2>1, <2>2, <2>3, <2>4, <2>5, <2>6, ConstantTypes
    <3>2. Len(out[t]) % Chunk = 0 /\ Len(out[t]) \in Nat
      BY <2>1, <2>3 DEF IndInv, SendsWhatItRead
    <3>3. Len(out'[t]) % Chunk = 0
      BY <3>1, <3>2, ModAdd, ConstantTypes
    <3>4. pc'[t] = "piece"
      BY <2>1, <2>6
    <3> QED
      BY <1>8, <2>5, <3>1, <3>3, <3>4, OtherTasksSend
  <2>7. CASE ~(left > Chunk)
    <3>1. Len(out'[t]) = total'[t]
      BY <2>1, <2>2, <2>3, <2>4, <2>5, <2>7, ConstantTypes
    <3>2. pc'[t] = "wipe"
      BY <2>1, <2>7
    <3> QED
      BY <1>8, <2>5, <3>1, <3>2, OtherTasksSend
  <2> QED
    BY <2>6, <2>7
<1>10. ASSUME NotEnabled(t) \/ ReadLength(t) \/ Wipe(t)
       PROVE  OutType' /\ Handing' /\ SendsWhatItRead'
  <2>1. pc'[t] = "idle" \/ pc'[t] = "piece"
    BY <1>1, <1>10 DEF NotEnabled, ReadLength, Wipe, At, TasksType, PcType
  <2>2. (out' = out /\ out[t] = <<>>) \/ out' = [out EXCEPT ![t] = <<>>]
    BY <1>10 DEF NotEnabled, ReadLength, Wipe, At, IndInv, Handing
  <2>3. <<>> \in Seq(Msg \cup {NoMsg})
    OBVIOUS
  <2>4. out'[t] = <<>> /\ OutType'
    BY <1>1, <2>2, <2>3 DEF TasksType, OutType
  <2>5. Len(<<>>) = 0 /\ 0 % Chunk = 0
    BY ConstantTypes
  <2> QED
    BY <1>8, <2>1, <2>4, <2>5, OtherTasksSend
<1>11. OutType' /\ Handing' /\ SendsWhatItRead'
  BY <1>9, <1>10 DEF SendBleNotify
<1>12. TasksType'
  BY <1>1, <1>3, <1>5, <1>6, <1>11, <1>13 DEF TasksType
<1> QED
  BY <1>4, <1>7, <1>11, <1>12, <1>14 DEF IndInv, TypeOK, ConnectionType, BufferType,
                                  TasksType, PcType, OutType

LEMMA NextInv == IndInv /\ [Next]_vars => IndInv'
<1> SUFFICES ASSUME IndInv, [Next]_vars PROVE IndInv'
  OBVIOUS
<1>1. CASE World \/ BluetoothTask
  BY <1>1, ConnectionInv
<1>2. CASE Opcode \/ MqttData \/ OtaStatus \/ ButtonReply
  <2>1. {"executor", "mqtt", "ota", "gpio"} \subseteq Task
    BY DEF Task
  <2> QED
    BY <1>2, <2>1, EnterInv DEF Opcode, MqttData, OtaStatus, ButtonReply, Build, SendOnly
<1>3. ASSUME NEW t \in Task, CreateReturnNotify(t) \/ SendBleNotify(t) PROVE IndInv'
  BY <1>3, BuildInv, SendInv
<1>4. CASE UNCHANGED vars
  BY <1>4 DEF vars, connection, known, buffer, tasks, IndInv, TypeOK, Building, Copied, Handing,
              SendsWhatItRead
<1> QED
  BY <1>1, <1>2, <1>3, <1>4, RestartInv DEF Next, Step

LEMMA Inductive == Spec => []IndInv
  BY InitInv, NextInv, PTL DEF Spec

\* Every variable has its type: the length field, whose two digits may be those of two
\* messages, exceeds the buffer by less than one high digit.
THEOREM TypeCorrect == Spec => []TypeOK
<1>1. IndInv => TypeOK
  BY DEF IndInv
<1> QED
  BY <1>1, Inductive, PTL

\* One call of send_ble_notify hands over full pieces and a last one that completes
\* the length it has read, whatever happens to the buffer meanwhile.
THEOREM SendsExactly == Spec => []SendsWhatItRead
<1>1. IndInv => SendsWhatItRead
  BY DEF IndInv
<1> QED
  BY <1>1, Inductive, PTL
-----------------------------------------------------------------------------
(***************************************************************************)
(* A notification that is built and sent undisturbed.                      *)
(***************************************************************************)
\* Nobody is in the two functions beside a task that is alone there.
Undisturbed == \A t \in Task : pc[t] # "idle" /\ alone[t] => \A u \in Task \ {t} : pc[u] = "idle"

LEMMA StepUndisturbed == TypeOK /\ Undisturbed /\ [Next]_vars => Undisturbed'
<1> SUFFICES ASSUME TypeOK, Undisturbed, [Next]_vars PROVE Undisturbed'
  OBVIOUS
<1>1. CASE UNCHANGED <<pc, alone>>
  BY <1>1 DEF Undisturbed
<1>2. CASE World \/ BluetoothTask
  BY <1>1, <1>2 DEF World, BluetoothTask, Connect, Disconnect, WriteDescr, Up, Down,
                    DescrWritten, Handle, tasks
<1>3. ASSUME NEW t \in Task, NEW m, NEW first, Enter(t, m, first) PROVE Undisturbed'
  <2> DEFINE busy == {u \in Task : pc[u] # "idle"}
  <2>1. /\ pc' = [pc EXCEPT ![t] = first] /\ pc[t] = "idle"
        /\ alone' = [u \in Task |-> u \notin busy /\ (u = t => busy = {})]
    BY <1>3 DEF Enter
  <2>2. \A u \in Task : u # t => pc'[u] = pc[u]
    BY <2>1 DEF TypeOK
  <2>3. ASSUME NEW v \in Task, pc'[v] # "idle", alone'[v], NEW u \in Task \ {v}
        PROVE  pc'[u] = "idle"
    BY <2>1, <2>2, <2>3
  <2> QED
    BY <2>3 DEF Undisturbed
<1>4. CASE Opcode \/ MqttData \/ OtaStatus \/ ButtonReply
  <2>1. {"executor", "mqtt", "ota", "gpio"} \subseteq Task
    BY DEF Task
  <2> QED
    BY <1>3, <1>4, <2>1 DEF Opcode, MqttData, OtaStatus, ButtonReply, Build, SendOnly
<1>5. ASSUME NEW t \in Task, CreateReturnNotify(t) \/ SendBleNotify(t) PROVE Undisturbed'
  <2>1. PICK next : pc' = [pc EXCEPT ![t] = next] /\ pc[t] # "idle" /\ alone' = alone
    BY <1>5 DEF CreateReturnNotify, SendBleNotify, Clear, Header, Body, BodyBeyond, High, Low,
                NotEnabled, ReadLength, SendPiece, Wipe, At
  <2>2. \A u \in Task : u # t => pc'[u] = pc[u]
    BY <2>1 DEF TypeOK
  <2> QED
    BY <2>1, <2>2 DEF Undisturbed
<1>6. CASE Restart
  BY <1>6 DEF Restart, Undisturbed
<1> QED
  BY <1>1, <1>2, <1>4, <1>5, <1>6 DEF Next, Step, vars, tasks

\* How far the message of a task that is alone has come.
Holds(t, n) == \A i \in 1..n : cells[i] = msg[t]
Progress(t) ==
    /\ pc[t] \in {"enabled", "piece", "wipe"} => Size[msg[t]] <= CMD_MAX_LEN
    /\ pc[t] = "body" => cells[1] = msg[t]
    /\ pc[t] = "high" => Holds(t, Size[msg[t]])
    /\ pc[t] = "low" => Holds(t, Size[msg[t]]) /\ length \div Radix = Size[msg[t]] \div Radix
    /\ pc[t] = "enabled" => Holds(t, Size[msg[t]]) /\ length = Size[msg[t]]
    /\ pc[t] \in {"piece", "wipe"} => /\ Holds(t, Size[msg[t]]) /\ total[t] = Size[msg[t]]
                                     /\ \A i \in 1..Len(out[t]) : out[t][i] = msg[t]
Whole == \A t \in Task : alone[t] /\ msg[t] \in Msg => Progress(t)

\* The high digit is kept by a low one, and the two make up the number.
LEMMA TwoDigits ==
    ASSUME NEW s \in Nat, NEW r \in Nat \ {0}, NEW d \in 0..(r - 1)
    PROVE  ((s \div r) * r + d) \div r = s \div r /\ (s \div r) * r + (s % r) = s
  OBVIOUS

\* A statement of create_return_notify takes the message on.
LEMMA BuildProgress ==
    ASSUME IndInv, NEW t \in Task, Progress(t), CreateReturnNotify(t), msg'[t] \in Msg
    PROVE  Progress(t)'
<1> DEFINE m == msg[t]
<1>1. BufferType /\ TasksType /\ Building /\ Copied
  BY TypeParts DEF IndInv
<1>2. m \in Msg
  BY <1>1 DEF CreateReturnNotify, Clear, Header, Body, BodyBeyond, High, Low, At, Building, Inside
<1>3. /\ Size[m] \in Nat \ {0} /\ Size[m] \in Nat /\ length \in Nat
      /\ Radix \in Nat \ {0} /\ CMD_MAX_LEN \in Nat /\ 1 \in 1..CMD_MAX_LEN
  BY <1>1, <1>2, ConstantTypes DEF BufferType
<1>4. msg'[t] = m
  <2>1. msg' = msg \/ msg' = [msg EXCEPT ![t] = NoMsg]
    BY DEF CreateReturnNotify, Clear, Header, Body, BodyBeyond, High, Low
  <2>2. msg'[t] # NoMsg
    BY NotifyAssumption
  <2> QED
    BY <1>1, <2>1, <2>2 DEF TasksType
<1>5. ASSUME NEW here, NEW next, At(t, here, next) PROVE pc[t] = here /\ pc'[t] = next
  BY <1>1, <1>5 DEF At, TasksType, PcType
<1> HIDE DEF m
<1>6. CASE Clear(t)
  BY <1>5, <1>6 DEF Clear, Progress
<1>7. CASE Header(t)
  <2>1. pc'[t] = "body" /\ cells'[1] = m
    BY <1>1, <1>3, <1>5, <1>7 DEF Header, BufferType, m
  <2> QED
    BY <1>4, <2>1 DEF Progress
<1>8. CASE Body(t)
  <2>1. pc[t] = "body" /\ pc'[t] = "high"
    BY <1>5, <1>8 DEF Body
  <2>2. cells[1] = m
    BY <2>1 DEF Progress, m
  <2>3. \A i \in 1..Size[m] : cells'[i] = m
    <3>1. Size[m] <= CMD_MAX_LEN
      BY <1>8 DEF Body, m
    <3>2. cells' = [i \in 1..CMD_MAX_LEN |-> IF i \in 2..Size[m] THEN m ELSE cells[i]]
      BY <1>8 DEF Body, m
    <3>3. ASSUME NEW i \in 1..Size[m] PROVE i \in 1..CMD_MAX_LEN /\ (i = 1 \/ i \in 2..Size[m])
      BY <1>3, <3>1
    <3> QED
      BY <2>2, <3>2, <3>3
  <2> QED
    BY <1>4, <2>1, <2>3 DEF Progress, Holds
<1>11. CASE BodyBeyond(t)
  BY <1>5, <1>11 DEF BodyBeyond, Progress
<1>9. CASE High(t)
  <2>1. pc[t] = "high" /\ pc'[t] = "low" /\ cells' = cells
    BY <1>5, <1>9 DEF High
  <2>2. \A i \in 1..Size[m] : cells'[i] = m
    BY <2>1 DEF Progress, Holds, m
  <2>3. length' = (Size[m] \div Radix) * Radix + (length % Radix) /\ length % Radix \in 0..(Radix - 1)
    BY <1>3, <1>9 DEF High, m
  <2>4. length' \div Radix = Size[m] \div Radix
    BY <1>3, <2>3, TwoDigits
  <2> QED
    BY <1>4, <2>1, <2>2, <2>4 DEF Progress, Holds
<1>10. CASE Low(t)
  <2>1. pc[t] = "low" /\ pc'[t] \in {"idle", "enabled"} /\ cells' = cells
    BY <1>5, <1>10 DEF Low
  <2>2. \A i \in 1..Size[m] : cells'[i] = m
    BY <2>1 DEF Progress, Holds, m
  <2>3. length' = (Size[m] \div Radix) * Radix + (Size[m] % Radix)
    BY <1>10, <2>1 DEF Low, Progress, m
  <2>4. length' = Size[m]
    <3>1. 0 \in 0..(Radix - 1)
      BY <1>3
    <3> QED
      BY <1>3, <2>3, <3>1, TwoDigits
  <2>5. Size[m] <= CMD_MAX_LEN
    BY <1>1, <2>1 DEF Copied, m
  <2> QED
    BY <1>4, <2>1, <2>2, <2>4, <2>5 DEF Progress, Holds
<1> QED
  BY <1>6, <1>7, <1>8, <1>9, <1>10, <1>11 DEF CreateReturnNotify

\* What holds of the elements of two sequences holds of the two in a row.
LEMMA AllOfBoth ==
    ASSUME NEW S, NEW a \in Seq(S), NEW b \in Seq(S), NEW m,
           \A i \in 1..Len(a) : a[i] = m, \A i \in 1..Len(b) : b[i] = m
    PROVE  \A i \in 1..Len(a \o b) : (a \o b)[i] = m
  OBVIOUS

\* A statement of send_ble_notify hands over nothing but the message.
LEMMA SendProgress ==
    ASSUME IndInv, NEW t \in Task, Progress(t), SendBleNotify(t), msg[t] \in Msg
    PROVE  Progress(t)'
<1> DEFINE m == msg[t]
<1>1. BufferType /\ TasksType /\ Handing /\ SendsWhatItRead
  BY TypeParts DEF IndInv
<1>2. Size[m] \in Nat /\ CMD_MAX_LEN \in Nat /\ Chunk \in Nat \ {0}
  BY ConstantTypes
<1>3. ASSUME NEW here, NEW next, At(t, here, next) PROVE pc[t] = here /\ pc'[t] = next
  BY <1>1, <1>3 DEF At, TasksType, PcType
<1>4. CASE NotEnabled(t) \/ Wipe(t)
  BY <1>3, <1>4 DEF NotEnabled, Wipe, Progress
<1>5. CASE ReadLength(t)
  <2>1. pc[t] = "enabled" /\ pc'[t] = "piece" /\ msg' = msg /\ cells' = cells /\ out' = out
    BY <1>3, <1>5 DEF ReadLength, buffer
  <2>2. total'[t] = Size[m] /\ Holds(t, Size[m]) /\ Size[m] <= CMD_MAX_LEN
    BY <1>1, <1>5, <2>1 DEF ReadLength, TasksType, Progress
  <2>3. out[t] = <<>>
    BY <1>1, <2>1 DEF Handing
  <2> QED
    BY <2>1, <2>2, <2>3 DEF Progress, Holds
<1>6. CASE SendPiece(t)
  <2> DEFINE sent == Len(out[t])
             left == total[t] - sent
             n == IF left > Chunk THEN Chunk ELSE left
             piece == Piece(t, total[t])
  <2>1. /\ pc[t] = "piece" /\ pc'[t] \in {"piece", "wipe"}
        /\ msg' = msg /\ cells' = cells /\ total' = total
        /\ out' = [out EXCEPT ![t] = out[t] \o piece]
    BY <1>3, <1>6 DEF SendPiece, buffer
  <2>2. /\ total[t] = Size[m] /\ Holds(t, Size[m]) /\ Size[m] <= CMD_MAX_LEN
        /\ \A i \in 1..sent : out[t][i] = m
    BY <2>1 DEF Progress
  <2>3. piece \in Seq(Msg \cup {NoMsg}) /\ Len(piece) = n
    BY <2>1, PieceIs
  <2>4. out[t] \in Seq(Msg \cup {NoMsg}) /\ sent \in Nat
    BY <1>1 DEF TasksType, OutType
  <2>5. sent <= total[t]
    <3>1. out[t] # <<>> => sent < total[t]
      BY <1>1, <2>1 DEF SendsWhatItRead
    <3>2. out[t] = <<>> => sent = 0
      OBVIOUS
    <3> QED
      BY <1>2, <2>2, <2>4, <3>1, <3>2
  <2>6. n \in Nat /\ sent + n <= Size[m]
    BY <1>2, <2>2, <2>4, <2>5
  <2>7. piece = [i \in 1..n |-> IF sent + i <= CMD_MAX_LEN THEN cells[sent + i] ELSE NoMsg]
    BY DEF Piece
  <2> HIDE DEF sent, n
  <2>9. ASSUME NEW i \in 1..n PROVE piece[i] = m
    <3>2. sent + i \in 1..Size[m] /\ sent + i <= CMD_MAX_LEN
      BY <1>2, <2>2, <2>4, <2>6
    <3>1. piece[i] = cells[sent + i]
      BY <2>7, <3>2
    <3> QED
      BY <2>2, <3>1, <3>2 DEF Holds
  <2> HIDE DEF piece
  <2>10. out'[t] = out[t] \o piece
    BY <1>1, <2>1 DEF TasksType, OutType
  <2>11. \A i \in 1..Len(out'[t]) : out'[t][i] = m
    <3>1. \A i \in 1..Len(out[t]) : out[t][i] = m
      BY <2>2 DEF sent
    <3>2. \A i \in 1..Len(piece) : piece[i] = m
      BY <2>3, <2>9
    <3> QED
      BY <2>3, <2>4, <2>10, <3>1, <3>2, AllOfBoth
  <2> QED
    BY <2>1, <2>2, <2>11 DEF Progress, Holds
<1> QED
  BY <1>4, <1>5, <1>6 DEF SendBleNotify

LEMMA StepWhole == IndInv /\ Undisturbed /\ Whole /\ [Next]_vars => Whole'
<1> SUFFICES ASSUME IndInv, Undisturbed, Whole, [Next]_vars PROVE Whole'
  OBVIOUS
<1>1. TasksType
  BY TypeParts DEF IndInv
<1>2. CASE UNCHANGED <<buffer, pc, msg, total, out, alone>>
  BY <1>2 DEF Whole, Progress, Holds, buffer
<1>3. CASE World \/ BluetoothTask
  BY <1>2, <1>3 DEF World, BluetoothTask, Connect, Disconnect, WriteDescr, Up, Down,
                    DescrWritten, Handle, tasks
<1>7. CASE Restart
  <2>1. \A t \in Task : msg'[t] = NoMsg
    BY <1>7 DEF Restart
  <2> QED
    BY <2>1, NotifyAssumption DEF Whole
<1>4. ASSUME NEW t \in Task, NEW m \in Msg \cup {NoMsg}, NEW first,
             first = "clear" \/ (first = "enabled" /\ m = NoMsg), Enter(t, m, first)
      PROVE  Whole'
  <2>1. /\ pc' = [pc EXCEPT ![t] = first] /\ msg' = [msg EXCEPT ![t] = m]
        /\ \A u \in Task \ {t} : alone'[u] => pc[u] = "idle"
    BY <1>4 DEF Enter
  <2>2. ASSUME NEW u \in Task, alone'[u], msg'[u] \in Msg PROVE Progress(u)'
    <3>1. pc'[u] \in {"idle", "clear"}
      BY <1>1, <1>4, <2>1, <2>2, NotifyAssumption DEF TasksType, PcType
    <3> QED
      BY <3>1 DEF Progress
  <2> QED
    BY <2>2 DEF Whole
<1>5. CASE Opcode \/ MqttData \/ OtaStatus \/ ButtonReply
  <2>1. {"executor", "mqtt", "ota", "gpio"} \subseteq Task
    BY DEF Task
  <2> QED
    BY <1>4, <1>5, <2>1 DEF Opcode, MqttData, OtaStatus, ButtonReply, Build, SendOnly
<1>6. ASSUME NEW t \in Task, CreateReturnNotify(t) \/ SendBleNotify(t) PROVE Whole'
  <2>1. PICK next : pc' = [pc EXCEPT ![t] = next] /\ pc[t] # "idle" /\ alone' = alone
    BY <1>6 DEF CreateReturnNotify, SendBleNotify, Clear, Header, Body, BodyBeyond, High, Low,
                NotEnabled, ReadLength, SendPiece, Wipe, At
  <2>2. msg' = msg \/ msg' = [msg EXCEPT ![t] = NoMsg]
    BY <1>6 DEF CreateReturnNotify, SendBleNotify, Clear, Header, Body, BodyBeyond, High, Low,
                NotEnabled, ReadLength, SendPiece, Wipe
  <2>3. ASSUME NEW u \in Task, u # t, alone'[u] PROVE Progress(u)'
    <3>1. pc'[u] = "idle"
      BY <1>1, <2>1, <2>3 DEF Undisturbed, TasksType, PcType
    <3> QED
      BY <3>1 DEF Progress
  <2>4. ASSUME alone'[t], msg'[t] \in Msg PROVE Progress(t)'
    <3>1. msg[t] \in Msg
      BY <1>1, <2>2, <2>4, NotifyAssumption DEF TasksType
    <3>2. Progress(t)
      BY <2>1, <2>4, <3>1 DEF Whole
    <3> QED
      BY <1>6, <2>4, <3>1, <3>2, BuildProgress, SendProgress
  <2> QED
    BY <2>3, <2>4 DEF Whole
<1> QED
  BY <1>2, <1>3, <1>5, <1>6, <1>7 DEF Next, Step, vars, tasks

\* A notification during whose construction and sending no other task has entered
\* the two functions reaches the stack whole.
THEOREM WholeIfAlone == Spec => []WholeWhenAlone
<1>1. Init => Undisturbed /\ Whole
  BY DEF Init, Undisturbed, Whole, Progress
<1>2. IndInv /\ Whole => WholeWhenAlone
  <2> SUFFICES ASSUME IndInv, Whole, NEW t \in Task, pc[t] = "wipe", alone[t],
                      msg[t] # NoMsg
               PROVE  out[t] = [i \in 1..Size[msg[t]] |-> msg[t]]
    BY DEF WholeWhenAlone
  <2>1. msg[t] \in Msg /\ out[t] \in Seq(Msg \cup {NoMsg})
    BY DEF IndInv, TypeOK
  <2>2. Len(out[t]) = Size[msg[t]] /\ \A i \in 1..Len(out[t]) : out[t][i] = msg[t]
    BY <2>1 DEF IndInv, SendsWhatItRead, Whole, Progress
  <2> QED
    BY <2>1, <2>2
<1>3. IndInv => TypeOK
  BY DEF IndInv
<1> QED
  BY <1>1, <1>2, <1>3, Inductive, StepUndisturbed, StepWhole, PTL DEF Spec
-----------------------------------------------------------------------------
(***************************************************************************)
(* The connection.                                                         *)
(***************************************************************************)
\* What the Bluetooth task has yet to learn.  While a client is connected no end of a
\* connection waits, and the beginning of this one has been handled or waits; when it
\* has left, either everything has been handled, or the end is the last event that
\* waits and nobody can connect before.
Following ==
    IF link
    THEN /\ ~advertising
         /\ \A i \in 1..Len(events) : events[i] # "down"
         /\ serverConnect \/ \E i \in 1..Len(events) : events[i] = "up"
    ELSE \/ events = <<>> /\ advertising /\ ~serverConnect
         \/ /\ events # <<>> /\ ~advertising
            /\ \A i \in 1..Len(events) : events[i] = "down" <=> i = Len(events)

LEMMA AppendIs ==
    ASSUME NEW s \in Seq(Event), NEW e \in Event
    PROVE  /\ Len(Append(s, e)) = Len(s) + 1 /\ Len(s) \in Nat
           /\ \A i \in 1..Len(s) : Append(s, e)[i] = s[i]
           /\ Append(s, e)[Len(s) + 1] = e
  OBVIOUS

LEMMA TailIs ==
    ASSUME NEW s \in Seq(Event), s # <<>>
    PROVE  /\ Len(s) \in Nat \ {0} /\ Len(Tail(s)) = Len(s) - 1 /\ Head(s) = s[1]
           /\ \A i \in 1..(Len(s) - 1) : Tail(s)[i] = s[i + 1]
           /\ Tail(s) = <<>> <=> Len(s) = 1
<1>1. /\ Len(s) \in Nat \ {0} /\ Len(Tail(s)) = Len(s) - 1 /\ Head(s) = s[1]
      /\ Tail(s) \in Seq(Event)
      /\ \A i \in 1..(Len(s) - 1) : Tail(s)[i] = s[i + 1]
  OBVIOUS
<1>2. \A t \in Seq(Event) : t = <<>> <=> Len(t) = 0
  OBVIOUS
<1> QED
  BY <1>1, <1>2

\* The client and the controller.
LEMMA WorldFollows ==
    ASSUME TypeOK, Following, World PROVE Following'
<1>1. events \in Seq(Event) /\ link \in BOOLEAN /\ link' \in BOOLEAN
  BY DEF TypeOK, World, Connect, Disconnect, WriteDescr
<1>2. CASE Connect
  <2>1. /\ ~link /\ advertising /\ link' /\ ~advertising' /\ serverConnect' = serverConnect
        /\ events' = Append(events, "up")
    BY <1>2 DEF Connect, known
  <2>2. events = <<>>
    BY <2>1 DEF Following
  <2>3. Len(events') = 1 /\ events'[1] = "up"
    BY <2>1, <2>2
  <2> QED
    BY <2>1, <2>3 DEF Following
<1>3. CASE Disconnect
  <2>1. /\ link /\ ~link' /\ advertising' = advertising
        /\ events' = Append(events, "down") /\ "down" \in Event
    BY <1>3 DEF Disconnect, Event
  <2>2. ~advertising /\ \A i \in 1..Len(events) : events[i] # "down"
    BY <2>1 DEF Following
  <2>3. /\ Len(events') = Len(events) + 1 /\ Len(events) \in Nat
        /\ \A i \in 1..Len(events) : events'[i] = events[i]
        /\ events'[Len(events) + 1] = "down"
    BY <1>1, <2>1, AppendIs
  <2>4. \A i \in 1..Len(events') : events'[i] = "down" <=> i = Len(events')
    BY <2>2, <2>3
  <2>5. events' # <<>>
    BY <2>3
  <2> QED
    BY <2>1, <2>2, <2>4, <2>5 DEF Following
<1>4. ASSUME NEW value \in {"on", "off", "other"}, WriteDescr(value) PROVE Following'
  <2>1. /\ link /\ link' = link /\ advertising' = advertising /\ serverConnect' = serverConnect
        /\ events' = Append(events, value) /\ value \in Event /\ value # "down"
    BY <1>4 DEF WriteDescr, known, Event
  <2>2. /\ ~advertising /\ \A i \in 1..Len(events) : events[i] # "down"
        /\ serverConnect \/ \E i \in 1..Len(events) : events[i] = "up"
    BY <2>1 DEF Following
  <2>3. /\ Len(events') = Len(events) + 1 /\ Len(events) \in Nat
        /\ \A i \in 1..Len(events) : events'[i] = events[i]
        /\ events'[Len(events) + 1] = value
    BY <1>1, <2>1, AppendIs
  <2>4. \A i \in 1..Len(events') : events'[i] # "down"
    BY <2>1, <2>2, <2>3
  <2>5. serverConnect' \/ \E i \in 1..Len(events') : events'[i] = "up"
    BY <2>1, <2>2, <2>3
  <2> QED
    BY <2>1, <2>2, <2>4, <2>5 DEF Following
<1> QED
  BY <1>2, <1>3, <1>4 DEF World

\* The Bluetooth task.
LEMMA HandlersFollow ==
    ASSUME TypeOK, Following, BluetoothTask PROVE Following'
<1>1. PICK event \in Event : Handle(event) /\ event = Head(events)
  BY DEF BluetoothTask, Up, Down, DescrWritten, Handle, Event
<1>2. events \in Seq(Event) /\ events # <<>> /\ events' = Tail(events) /\ link' = link
  BY <1>1 DEF Handle, TypeOK
<1>3. /\ Len(events) \in Nat \ {0} /\ Len(events') = Len(events) - 1 /\ event = events[1]
      /\ \A i \in 1..(Len(events) - 1) : events'[i] = events[i + 1]
      /\ events' = <<>> <=> Len(events) = 1
  BY <1>1, <1>2, TailIs
<1>4. CASE event = "down"
  <2>1. Down
    BY <1>1, <1>4 DEF BluetoothTask, Up, DescrWritten, Handle
  <2>2. advertising' /\ ~serverConnect'
    BY <2>1 DEF Down, ProfileADown, ProfileBDown
  <2> DEFINE n == Len(events)
  <2>a. 1 \in 1..n /\ events[1] = "down"
    BY <1>3, <1>4
  <2> HIDE DEF n
  <2>3. ~link
    <3>1. link => \A i \in 1..n : events[i] # "down"
      BY DEF Following, n
    <3> QED
      BY <2>a, <3>1
  <2>4. Len(events) = 1
    <3>1. \A i \in 1..n : events[i] = "down" <=> i = n
      BY <1>2, <2>3 DEF Following, n
    <3> QED
      BY <2>a, <3>1 DEF n
  <2> QED
    BY <1>2, <1>3, <2>2, <2>3, <2>4 DEF Following
<1>5. CASE event # "down"
  <2>0. Up \/ DescrWritten
    BY <1>1, <1>5 DEF BluetoothTask, Down, Handle
  <2>1. advertising' = advertising /\ (serverConnect' <=> serverConnect \/ event = "up")
    <3>1. advertising' = advertising
      BY <2>0 DEF Up, DescrWritten
    <3>2. ASSUME Up PROVE serverConnect' /\ event = "up"
      BY <1>1, <3>2 DEF Up, Handle
    <3>3. ASSUME DescrWritten PROVE serverConnect' = serverConnect /\ event # "up"
      BY <1>1, <3>3 DEF DescrWritten, Handle
    <3> QED
      BY <2>0, <3>1, <3>2, <3>3
  <2>2. CASE link
    <3>1. /\ ~advertising /\ \A i \in 1..Len(events) : events[i] # "down"
          /\ serverConnect \/ \E i \in 1..Len(events) : events[i] = "up"
      BY <2>2 DEF Following
    <3>2. \A i \in 1..Len(events') : events'[i] # "down"
      BY <1>3, <3>1
    <3>3. ASSUME NEW i \in 1..Len(events), events[i] = "up", event # "up"
          PROVE  \E j \in 1..Len(events') : events'[j] = "up"
      <4>1. i - 1 \in 1..Len(events') /\ events'[i - 1] = events[i]
        BY <1>3, <3>3
      <4> QED
        BY <3>3, <4>1
    <3>4. serverConnect' \/ \E i \in 1..Len(events') : events'[i] = "up"
      BY <2>1, <3>1, <3>3
    <3> QED
      BY <1>2, <2>1, <2>2, <3>1, <3>2, <3>4 DEF Following
  <2>3. CASE ~link
    <3>1. /\ ~advertising
          /\ \A i \in 1..Len(events) : events[i] = "down" <=> i = Len(events)
      BY <1>2, <2>3 DEF Following
    <3>2. Len(events) # 1
      BY <1>3, <1>5, <3>1
    <3>3. \A i \in 1..Len(events') : events'[i] = "down" <=> i = Len(events')
      BY <1>3, <3>1
    <3> QED
      BY <1>2, <1>3, <2>1, <2>3, <3>1, <3>2, <3>3 DEF Following
  <2> QED
    BY <2>2, <2>3
<1> QED
  BY <1>4, <1>5

LEMMA StepFollows == TypeOK /\ Following /\ [Next]_vars => Following'
<1> SUFFICES ASSUME TypeOK, Following, [Next]_vars PROVE Following'
  OBVIOUS
<1>1. CASE World
  BY <1>1, WorldFollows
<1>2. CASE BluetoothTask
  BY <1>2, HandlersFollow
<1>3. CASE UNCHANGED <<connection, known>>
  BY <1>3 DEF connection, known, Following
<1>4. CASE Opcode \/ MqttData \/ OtaStatus \/ ButtonReply
  BY <1>3, <1>4 DEF Opcode, MqttData, OtaStatus, ButtonReply, Build, SendOnly, Enter
<1>5. ASSUME NEW t \in Task, CreateReturnNotify(t) \/ SendBleNotify(t) PROVE Following'
  BY <1>3, <1>5 DEF CreateReturnNotify, SendBleNotify, Clear, Header, Body, BodyBeyond, High, Low,
                    NotEnabled, ReadLength, SendPiece, Wipe, At
<1>6. CASE Restart
  BY <1>6 DEF Restart, Following
<1> QED
  BY <1>1, <1>2, <1>3, <1>4, <1>5, <1>6 DEF Next, Step, vars

\* When the Bluetooth task has caught up, for any number of waiting events, the flag
\* is right and the gateway advertises whenever no client is connected.
THEOREM ConnectionFollowed == Spec => []FollowsConnection
<1>1. Init => Following
  BY DEF Init, Following
<1>2. TypeOK /\ Following => FollowsConnection
  <2> SUFFICES ASSUME TypeOK, Following, events = <<>> PROVE serverConnect = link /\ advertising = ~link
    BY DEF FollowsConnection
  <2>1. CASE link
    <3>1. 1..Len(events) = {}
      OBVIOUS
    <3>2. serverConnect /\ ~advertising
      BY <2>1, <3>1 DEF Following
    <3> QED
      BY <2>1, <3>2 DEF TypeOK
  <2>2. CASE ~link
    BY <2>2 DEF Following, TypeOK
  <2> QED
    BY <2>1, <2>2
<1> QED
  BY <1>1, <1>2, StepFollows, TypeCorrect, PTL DEF Spec
-----------------------------------------------------------------------------
(***************************************************************************)
(* The subscription.                                                       *)
(***************************************************************************)
\* The flag is set for a client that has subscribed, and a call whose client has not
\* left is for that client, which is still connected.
Subscribed == enable => descr # "never"
Addressed == \A t \in Task : pc[t] = "piece" /\ ~orphan[t] => link /\ descr # "never"

LEMMA StepSubscribed == Subscribed /\ [Next]_vars => Subscribed'
<1> SUFFICES ASSUME Subscribed, [Next]_vars PROVE Subscribed'
  OBVIOUS
<1>1. CASE Up
  BY <1>1 DEF Up, Subscribed
<1>2. CASE Down
  BY <1>2 DEF Down, ProfileADown, Subscribed
<1>3. CASE DescrWritten
  BY <1>3 DEF DescrWritten, Subscribed
<1>4. CASE UNCHANGED known
  BY <1>4 DEF known, Subscribed
<1>5. CASE World
  BY <1>4, <1>5 DEF World, Connect, Disconnect, WriteDescr
<1>6. CASE Opcode \/ MqttData \/ OtaStatus \/ ButtonReply
  BY <1>4, <1>6 DEF Opcode, MqttData, OtaStatus, ButtonReply, Build, SendOnly, Enter
<1>7. ASSUME NEW t \in Task, CreateReturnNotify(t) \/ SendBleNotify(t)
      PROVE  Subscribed'
  BY <1>4, <1>7 DEF CreateReturnNotify, SendBleNotify, Clear, Header, Body, BodyBeyond, High, Low,
                    NotEnabled, ReadLength, SendPiece, Wipe, At
<1>8. CASE Restart
  BY <1>8 DEF Restart, Subscribed
<1> QED
  BY <1>1, <1>2, <1>3, <1>4, <1>5, <1>6, <1>7, <1>8 DEF Next, Step, BluetoothTask, vars

\* The end of a connection is handled only when nobody is connected.
LEMMA DownAfterLink ==
    ASSUME TypeOK, Following, Down PROVE ~link
<1>1. /\ events \in Seq(Event) /\ events # <<>> /\ Head(events) = "down"
  BY DEF Down, Handle, TypeOK
<1>2. Len(events) \in Nat \ {0} /\ events[1] = "down"
  BY <1>1, TailIs
<1>3. 1 \in 1..Len(events)
  BY <1>2
<1> QED
  BY <1>2, <1>3 DEF Following

LEMMA StepAddressed ==
    TypeOK /\ Following /\ Subscribed /\ Addressed /\ [Next]_vars => Addressed'
<1> SUFFICES ASSUME TypeOK, Following, Subscribed, Addressed, [Next]_vars PROVE Addressed'
  OBVIOUS
<1>1. pc \in [Task -> {"idle", "overrun"} \cup Inside \cup Sending]
      /\ orphan \in [Task -> BOOLEAN]
  BY DEF TypeOK
<1>2. CASE UNCHANGED <<link, descr, pc, orphan>>
  BY <1>2 DEF Addressed
<1>3. CASE World
  <2>1. CASE Connect \/ \E value \in {"on", "off", "other"} : WriteDescr(value)
    BY <2>1 DEF Connect, WriteDescr, known, tasks, Addressed
  <2>2. CASE Disconnect
    BY <1>1, <2>2 DEF Disconnect, Addressed
  <2> QED
    BY <1>3, <2>1, <2>2 DEF World
<1>4. CASE BluetoothTask
  <2>1. link' = link /\ pc' = pc /\ orphan' = orphan
    BY <1>4 DEF BluetoothTask, Up, Down, DescrWritten, Handle, tasks
  <2>2. CASE Down
    <3>1. ~link
      BY <2>2, DownAfterLink
    <3> QED
      BY <2>1, <3>1 DEF Addressed
  <2>3. CASE Up \/ DescrWritten
    <3>1. descr # "never" => descr' # "never"
      BY <2>3 DEF Up, DescrWritten
    <3> QED
      BY <2>1, <3>1 DEF Addressed
  <2> QED
    BY <1>4, <2>2, <2>3 DEF BluetoothTask
<1>5. ASSUME NEW t \in Task, NEW first \in {"clear", "enabled"}, NEW m, Enter(t, m, first)
      PROVE  Addressed'
  <2>1. pc' = [pc EXCEPT ![t] = first] /\ UNCHANGED <<link, descr, orphan>>
    BY <1>5 DEF Enter, connection, known
  <2> QED
    BY <1>1, <2>1 DEF Addressed
<1>6. CASE Opcode \/ MqttData \/ OtaStatus \/ ButtonReply
  <2>1. {"executor", "mqtt", "ota", "gpio"} \subseteq Task
    BY DEF Task
  <2> QED
    BY <1>5, <1>6, <2>1 DEF Opcode, MqttData, OtaStatus, ButtonReply, Build, SendOnly
<1>7. ASSUME NEW t \in Task, CreateReturnNotify(t) \/ SendBleNotify(t)
      PROVE  Addressed'
  <2>1. UNCHANGED <<link, descr>>
    BY <1>7 DEF CreateReturnNotify, SendBleNotify, Clear, Header, Body, BodyBeyond, High, Low,
                NotEnabled, ReadLength, SendPiece, Wipe, At, connection, known
  <2>2. \A u \in Task \ {t} : pc'[u] = pc[u] /\ orphan'[u] = orphan[u]
    BY <1>1, <1>7 DEF CreateReturnNotify, SendBleNotify, Clear, Header, Body, BodyBeyond, High, Low,
                      NotEnabled, ReadLength, SendPiece, Wipe, At
  <2>3. pc'[t] = "piece" =>
            \/ pc[t] = "piece" /\ orphan'[t] = orphan[t]
            \/ enable /\ orphan'[t] = ~link
    BY <1>1, <1>7 DEF CreateReturnNotify, SendBleNotify, Clear, Header, Body, BodyBeyond, High, Low,
                      NotEnabled, ReadLength, SendPiece, Wipe, At
  <2> QED
    BY <2>1, <2>2, <2>3 DEF Addressed, Subscribed
<1>8. CASE Restart
  BY <1>8 DEF Restart, Addressed
<1> QED
  BY <1>2, <1>3, <1>4, <1>6, <1>7, <1>8 DEF Next, Step, vars, connection, known, tasks

\* Every piece that reaches a client reaches one that has enabled notifications on this
\* very connection, except for the rest of a call whose client has left.
THEOREM SubscribersOnly == Spec => OnlyToSubscribers
<1>1. Init => Following /\ Subscribed /\ Addressed
  BY DEF Init, Following, Subscribed, Addressed
<1>2. Addressed => [\A t \in Task : pc[t] = "piece" /\ Len(out'[t]) > Len(out[t]) /\ link
                                      => descr # "never" \/ orphan[t]]_vars
  BY DEF Addressed
<1> QED
  BY <1>1, <1>2, StepFollows, StepSubscribed, StepAddressed, TypeCorrect, PTL
     DEF Spec, OnlyToSubscribers
=============================================================================
