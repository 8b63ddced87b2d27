--------------------------- MODULE TextCommands ---------------------------
(***************************************************************************)
(* What the handlers of the executor make of the texts that the user guide *)
(* tells a client to send, and what a client gets to read.                 *)
(*                                                                         *)
(* A request is what the client means, a record; Text(r) is the body it    *)
(* sends for it according to the guide, and Handled(r, residue) is what the*)
(* handler makes of that body: what it passes on to a library, or answers. *)
(*                                                                         *)
(* Data.  A text is a sequence of characters without NUL.  The body of a   *)
(* command lies at the end of a heap block and is not terminated: what     *)
(* follows in memory, up to the next zero, is its residue.  A handler that *)
(* writes past one of its arrays yields Overflow.                          *)
(***************************************************************************)
EXTENDS Integers, Sequences, SequencesExt, Boot

CONSTANTS
    Chars,          \* the characters of a text
    Requests,       \* the requests the client may make
    Residues,       \* what may follow a body
    TOPIC_SIZE,     \* size of topic in subscribe_mqtt
    URI_SIZE,       \* size of tmp in set_mqtt_uri
    SSID_SIZE,      \* size of tmp_ssid in set_wifi_config
    PASSWORD_SIZE,  \* size of tmp_password in set_wifi_config
    NOTIFY_SIZE     \* size of tmpBuf in mqtt_notify_pack and of ble_send_message

VARIABLES
    request,        \* the request that is handled, or Nothing
    behind,         \* the residue of its body
    result          \* what was made of it

textVars == <<request, behind, result>>

Nothing == [op |-> "none"]
Overflow == [overflow |-> TRUE]
NUL == "nul"
Scheme == <<"m", "q", "t", "t", ":", "/", "/">>

\* The body for a request (user guide, 1.4 and 1.5).
Text(r) == CASE r.op = "wifi"        -> r.ssid \o <<"@">> \o r.password
             [] r.op = "subscribe"   -> <<r.qos, "@">> \o r.topic
             [] r.op = "unsubscribe" -> r.topic
             [] r.op = "publish"     -> <<r.qos, "@">> \o r.topic \o <<"@">> \o r.data
             [] r.op \in {"uri", "config"} ->
                    Scheme \o r.user \o <<":">> \o r.password \o <<"@">> \o r.host
             [] OTHER -> <<>>

\* What a request may be: texts that are strings of C, an address of IP without an @, and
\* a byte.
IsText(s) == s \in Seq(Chars)
IsRequest(r) ==
    CASE r.op = "wifi"        -> IsText(r.ssid) /\ IsText(r.password)
      [] r.op = "subscribe"   -> r.qos \in Chars /\ IsText(r.topic)
      [] r.op = "unsubscribe" -> IsText(r.topic)
      [] r.op = "publish"     -> r.qos \in Chars /\ IsText(r.topic) /\ IsText(r.data)
      [] r.op = "uri"         -> IsText(r.user) /\ IsText(r.password) /\ IsText(r.host)
      [] r.op = "config"      -> /\ IsText(r.user) /\ IsText(r.password) /\ IsText(r.host)
                                 /\ r.connected \in BOOLEAN
      [] r.op = "state"       -> /\ r.connected \in BOOLEAN /\ r.ethernet \in BOOLEAN
                                 /\ IsText(r.ssid) /\ IsText(r.ip) /\ ~Contains(r.ip, "@")
      [] r.op = "message"     -> IsText(r.topic) /\ IsText(r.data)
      [] r.op = "byte"        -> r.n \in 0..255
      [] OTHER                -> FALSE

ASSUME TextAssumption ==
    /\ {"0", "1", "m", "q", "t", "/", ":", "@"} \subseteq Chars /\ NUL \notin Chars
    /\ \A r \in Requests : IsRequest(r)
    /\ \A residue \in Residues : IsText(residue)
    /\ {TOPIC_SIZE, URI_SIZE, SSID_SIZE, PASSWORD_SIZE, NOTIFY_SIZE} \subseteq Nat
-----------------------------------------------------------------------------
(***************************************************************************)
(* The library of C.                                                       *)
(***************************************************************************)
\* The first place of a character in a text, or the place behind it.
Place(char, text) == IF Contains(text, char) THEN SelectInSeq(text, LAMBDA c : c = char)
                     ELSE Len(text) + 1
UpTo(text, n) == SubSeq(text, 1, n)
From(text, i) == SubSeq(text, i, Len(text))

\* strlen, strcpy: memory as a string.
CString(memory) == UpTo(memory, Place(NUL, memory) - 1)

\* A string of n characters with its terminator, in an array.
Fits(n, size) == n + 1 <= size
-----------------------------------------------------------------------------
(***************************************************************************)
(* The handlers.  len is the length of the body, value the memory it is in.*)
(***************************************************************************)
\* The name is what comes before the first @.  An empty password clears the array,
\* any other is copied up to the next zero and cut to its length.
SetWifiConfig(value, len) ==
    LET num == Place("@", UpTo(value, len)) - 1
        passwordNum == len - num - 1
        rest == CString(From(value, num + 2))
    IN  IF ~Fits(num, SSID_SIZE) \/ (passwordNum # 0 /\ ~Fits(Len(rest), PASSWORD_SIZE))
        THEN Overflow
        ELSE [ssid |-> UpTo(value, num),
              password |-> IF passwordNum = 0 THEN <<>> ELSE UpTo(rest, passwordNum)]

\* strcpy takes the residue along, create_string cuts it off.
SetMqttUri(value, len) ==
    LET tmp == CString(value)
    IN  IF ~Fits(Len(tmp), URI_SIZE) THEN Overflow ELSE [uri |-> UpTo(tmp, len)]

SubscribeMqtt(value, len) ==
    IF value[2] # "@" THEN Nothing
    ELSE IF ~Fits(len - 2, TOPIC_SIZE) THEN Overflow
    ELSE [topic |-> SubSeq(value, 3, len), qos |-> value[1]]

\* The library takes the topic for a string.
UnsubscribeMqtt(value) == [topic |-> CString(value)]

\* The @ behind the topic becomes its terminator.  Mutant: it is not counted.
PublishUncounted(value, len) ==
    LET topic == UpTo(From(value, 3), Place("@", From(value, 3)) - 1)
        data == From(value, Len(topic) + 4)
        n == len - (Len(topic) + 2)
    IN  IF value[2] # "@" THEN Nothing
        ELSE [topic |-> topic, qos |-> value[1],
              data |-> IF n = 0 THEN CString(data) ELSE UpTo(data, n)]
\* The library takes data of length 0 for a string.
PublishMqtt(value, len) ==
    LET topic == UpTo(From(value, 3), Place("@", From(value, 3)) - 1)
        data == From(value, Len(topic) + 4)
        n == len - (Len(topic) + 3)
    IN  IF value[2] # "@" THEN Nothing
        ELSE [topic |-> topic, qos |-> value[1],
              data |-> IF n = 0 THEN CString(data) ELSE UpTo(data, n)]

\* Everything between the last : before the first @ and that @ is left out of the
\* uri, from behind the scheme on; without an @ the whole uri follows once more.
GetMqttConfig(connected, uri) ==
    LET at == Place("@", From(uri, Len(Scheme) + 1)) + Len(Scheme)
        start == SelectLastInSubSeq(uri, Len(Scheme) + 1, IF at > Len(uri) THEN Len(uri) ELSE at,
                                    LAMBDA c : c = ":")
        kept == IF start = 0 THEN <<>> ELSE UpTo(uri, start - 1)
    IN  [reply |-> <<IF connected THEN "1" ELSE "0", "@">> \o kept
                       \o (IF at > Len(uri) THEN uri ELSE From(uri, at))]

GetNetworkState(connected, ethernet, ip, ssid) ==
    [reply |-> <<IF connected THEN "1" ELSE "0", "@", IF ethernet THEN "1" ELSE "0", "@">>
                 \o (IF connected THEN ip ELSE <<>>)
                 \o (IF connected /\ ~ethernet THEN <<"@">> \o ssid ELSE <<>>)]

\* mqtt_notify_pack compares topic and data with the size of the buffers, which also
\* have to hold the @, and create_return_notify's four bytes in front.
Header == 4
NotifyPack(topic, data) ==
    LET len == Len(topic) + Len(data)
    IN  IF len > NOTIFY_SIZE THEN Nothing
        ELSE IF len + 1 + Header > NOTIFY_SIZE THEN Overflow
        ELSE [message |-> topic \o <<"@">> \o data]

\* A byte of an advertisement as two digits.
Digit == <<"0", "1", "2", "3", "4", "5", "6", "7", "8", "9", "a", "b", "c", "d", "e", "f">>
Itoa16(n) == [text |-> <<Digit[((n \div 16) % 16) + 1], Digit[(n % 16) + 1]>>]

Handled(r, residue) ==
    LET value == Text(r) \o residue \o <<NUL>>
        len == Len(Text(r))
    IN  CASE r.op = "wifi"        -> SetWifiConfig(value, len)
          [] r.op = "uri"         -> SetMqttUri(value, len)
          [] r.op = "subscribe"   -> SubscribeMqtt(value, len)
          [] r.op = "unsubscribe" -> UnsubscribeMqtt(value)
          [] r.op = "publish"     -> PublishMqtt(value, len)
          [] r.op = "config"      -> GetMqttConfig(r.connected, Text(r))
          [] r.op = "state"       -> GetNetworkState(r.connected, r.ethernet, r.ip, r.ssid)
          [] r.op = "message"     -> NotifyPack(r.topic, r.data)
          [] r.op = "byte"        -> Itoa16(r.n)

TextInit == request = Nothing /\ behind = <<>> /\ result = Nothing

TextReset == request' = Nothing /\ behind' = <<>> /\ result' = Nothing

\* The executor, or the task of the MQTT client, handles a request, and is done with it.
Serve(r, residue) == /\ Past("mqtt") /\ request = Nothing
                     /\ request' = r /\ behind' = residue
                     /\ result' = Handled(r, residue)
                     /\ UNCHANGED app
Done == request # Nothing /\ TextReset /\ UNCHANGED app
TextNext == Done \/ \E r \in Requests, residue \in Residues : Serve(r, residue)
-----------------------------------------------------------------------------
\* The value of a digit.
Value(d) == Place(d, Digit) - 1

\* Did the request come out as it was meant?  A reply is read as the guide says: its
\* fields are between the @'s, and the password is not in it.
AsMeant(r) ==
    CASE r.op = "wifi"        -> result = [ssid |-> r.ssid, password |-> r.password]
      [] r.op = "uri"         -> result = [uri |-> Text(r)]
      [] r.op = "subscribe"   -> result = [topic |-> r.topic, qos |-> r.qos]
      [] r.op = "unsubscribe" -> result = [topic |-> r.topic]
      [] r.op = "publish"     -> result = [topic |-> r.topic, qos |-> r.qos, data |-> r.data]
      [] r.op = "config"      -> result = [reply |-> <<IF r.connected THEN "1" ELSE "0", "@">>
                                                     \o Scheme \o r.user \o <<"@">> \o r.host]
      [] r.op = "state"       ->
             LET rest == From(result.reply, 5)
             IN  /\ (result.reply[1] = "1") = r.connected /\ result.reply[2] = "@"
                 /\ (result.reply[3] = "1") = r.ethernet /\ result.reply[4] = "@"
                 /\ r.connected => UpTo(rest, Place("@", rest) - 1) = r.ip
                 /\ r.connected /\ ~r.ethernet => rest = r.ip \o <<"@">> \o r.ssid
      [] r.op = "message"     -> \/ result = [message |-> r.topic \o <<"@">> \o r.data]
                                 \/ result = Nothing
      [] r.op = "byte"        -> 16 * Value(result.text[1]) + Value(result.text[2]) = r.n

\* What the handlers need for it: separators that are none of the text's own, room
\* for the text and, where it is copied as a string, for its residue, and no residue
\* where the library takes the body for a string.
Safe(r) ==
    CASE r.op = "wifi"        -> /\ ~Contains(r.ssid, "@") /\ Fits(Len(r.ssid), SSID_SIZE)
                                 /\ r.password # <<>> =>
                                        Fits(Len(r.password \o behind), PASSWORD_SIZE)
      [] r.op = "uri"         -> Fits(Len(Text(r) \o behind), URI_SIZE)
      [] r.op = "subscribe"   -> Fits(Len(r.topic), TOPIC_SIZE)
      [] r.op = "unsubscribe" -> behind = <<>>
      [] r.op = "publish"     -> ~Contains(r.topic, "@") /\ (r.data = <<>> => behind = <<>>)
      [] r.op = "config"      -> ~Contains(r.user \o r.password, "@") /\ ~Contains(r.password, ":")
      [] r.op = "message"     -> \/ Len(r.topic \o r.data) + 1 + Header <= NOTIFY_SIZE
                                 \/ Len(r.topic \o r.data) > NOTIFY_SIZE
      [] OTHER -> TRUE

\* Every request in the form of the guide reaches the library, or the client, as it was
\* meant: exactly if it is safe.
ParsedAsMeant == request # Nothing => (AsMeant(request) <=> Safe(request))
=============================================================================
