---------------------------- MODULE BluetoothProofs ----------------------------
(***************************************************************************)
(* For any number of paths of any lengths: what NIOS acknowledges is, as   *)
(* far as the buffer can hold it, the path the phone then strikes off.     *)
(***************************************************************************)
EXTENDS Bluetooth, SequenceTheorems, TLAPS

(***************************************************************************)
(* Why, as an inductive invariant.  The port holds one byte each way at    *)
(* most; the sign that strikes a path off has been sent before NIOS has    *)
(* seen another sign; a '#' that NIOS will begin with is the one of the    *)
(* message being sent; and what NIOS has received, with the byte in the    *)
(* port, is as much of that message as the phone has sent.                 *)
(***************************************************************************)

\* The port holds a byte or none, each way.
PortInv == /\ rx = {} \/ \E b \in Bytes : rx = {b}
           /\ tx \in {{}, {Request}, {Sign("=")}}

\* While NIOS receives, the phone is not about to strike a path off.
StrikeInv == pc \in {"await", "receive", "reply"} => tx # {Sign("=")}

AwaitInv == pc = "await" /\ rx = {Sign("#")} /\ fault # "cut" => sent = 1

\* The characters received are the first of the path.
Prefix == /\ Len(buf) <= Length[path]
          /\ \A i \in 1 .. Len(buf) : buf[i] = Char(path, i)

ReceiveInv ==
    pc = "receive" =>
        /\ Len(buf) < number_of_chars
        /\ fault # "cut" =>
             /\ Prefix
             /\ \/ rx = {} /\ sent = Len(buf) + 1
                \/ /\ rx = {Message(path)[Len(buf) + 2]}
                   /\ sent = IF Len(buf) = Length[path] THEN 0 ELSE Len(buf) + 2

\* It is all of them, or the buffer is full.
ReplyInv ==
    pc = "reply" /\ fault # "cut" =>
        Prefix /\ (Len(buf) = Length[path] \/ Len(buf) = number_of_chars)

BluetoothInv == /\ TypeOK /\ PortInv /\ StrikeInv /\ AwaitInv /\ ReceiveInv /\ ReplyInv
-------------------------------------------------------------------------------
(* The messages.                                                            *)

LEMMA LengthType ==
  number_of_chars \in Nat \ {0} /\ \A id \in Ids : Length[id] \in Nat
<1>1. MAX_N_POINTS * PointChars = PointChars * MAX_N_POINTS
      /\ MAX_N_POINTS * PointChars \in Nat
  BY BluetoothAssumption
<1>2. QED BY <1>1, BluetoothAssumption DEF Ids, number_of_chars

\* The signs are bytes, and no character is a sign.
LEMMA SignsAreBytes ==
  /\ \A s \in {"#", "?", "=", "request", "none"} : Sign(s) \in Bytes
  /\ Request \in Bytes /\ Phantom \in Bytes
  /\ Sign("#") # Sign("?") /\ Sign("#") # Sign("=") /\ Sign("#") # Request
  /\ Sign("=") # Request
  BY DEF Bytes, Signs, Sign, Request, Phantom

LEMMA CharsAreBytes ==
  ASSUME NEW id \in Ids, NEW i \in 1 .. Length[id]
  PROVE  /\ Char(id, i) \in Bytes
         /\ Char(id, i) # Sign("#") /\ Char(id, i) # Sign("?")
  BY DEF Bytes, Char, Sign

LEMMA PathType == ASSUME NEW id \in Ids PROVE Path(id) \in Seq(Bytes) /\ Len(Path(id)) = Length[id]
<1>1. Path(id) \in [1 .. Length[id] -> Bytes]
  BY CharsAreBytes DEF Path
<1>2. QED BY <1>1, LengthType

\* What the buffer has room for is as many characters as it can hold, or all.
LEMMA RoomForType ==
  ASSUME NEW id \in Ids, NEW n \in Nat, n <= Length[id], n <= number_of_chars,
         n = Length[id] \/ n = number_of_chars
  PROVE  /\ RoomFor(id) \in Seq(Bytes) /\ Len(RoomFor(id)) = n
         /\ \A i \in 1 .. n : RoomFor(id)[i] = Char(id, i)
<1>1. Length[id] \in Nat /\ number_of_chars \in Nat \ {0}
  BY LengthType
<1>2. Path(id) \in Seq(Bytes) /\ Len(Path(id)) = Length[id]
      /\ \A i \in 1 .. Length[id] : Path(id)[i] = Char(id, i)
  BY PathType DEF Path
<1>3. CASE Length[id] <= number_of_chars
  <2>1. RoomFor(id) = Path(id) /\ n = Length[id]
    BY <1>1, <1>3 DEF RoomFor
  <2>2. QED BY <1>2, <2>1
<1>4. CASE number_of_chars < Length[id]
  <2>1. RoomFor(id) = SubSeq(Path(id), 1, n) /\ n = number_of_chars
    BY <1>1, <1>4 DEF RoomFor
  <2>2. /\ SubSeq(Path(id), 1, n) \in Seq(Bytes) /\ Len(SubSeq(Path(id), 1, n)) = n
        /\ \A i \in 1 .. n : SubSeq(Path(id), 1, n)[i] = Path(id)[i]
    BY <1>1, <1>2, <1>4, <2>1
  <2>3. QED BY <1>1, <1>2, <1>4, <2>1, <2>2
<1>5. QED BY <1>1, <1>3, <1>4

\* A message, byte by byte.
LEMMA MessageAt ==
  ASSUME NEW id \in Ids
  PROVE  /\ Len(Message(id)) = Length[id] + 2
         /\ Message(id)[1] = Sign("#")
         /\ \A i \in 1 .. Length[id] : Message(id)[i + 1] = Char(id, i)
         /\ Message(id)[Length[id] + 2] = Sign("?")
<1> DEFINE begin == <<Sign("#")>>
           end   == <<Sign("?")>>
<1>1. Length[id] \in Nat /\ Path(id) \in Seq(Bytes) /\ Len(Path(id)) = Length[id]
      /\ \A i \in 1 .. Length[id] : Path(id)[i] = Char(id, i)
  BY PathType, LengthType DEF Path
<1>2. begin \in Seq(Bytes) /\ Len(begin) = 1 /\ begin[1] = Sign("#")
      /\ end \in Seq(Bytes) /\ Len(end) = 1 /\ end[1] = Sign("?")
  BY SignsAreBytes
<1> HIDE DEF begin, end
<1>3. /\ begin \o Path(id) \in Seq(Bytes) /\ Len(begin \o Path(id)) = Length[id] + 1
      /\ (begin \o Path(id))[1] = Sign("#")
      /\ \A i \in 1 .. Length[id] : (begin \o Path(id))[i + 1] = Char(id, i)
  <2>1. /\ begin \o Path(id) \in Seq(Bytes)
        /\ Len(begin \o Path(id)) = Len(begin) + Len(Path(id))
        /\ \A i \in 1 .. Len(begin) + Len(Path(id)) : (begin \o Path(id))[i] =
             IF i <= Len(begin) THEN begin[i] ELSE Path(id)[i - Len(begin)]
    BY <1>1, <1>2, ConcatProperties
  <2>2. ASSUME NEW i \in 1 .. Length[id] PROVE (begin \o Path(id))[i + 1] = Char(id, i)
    <3>1. i + 1 \in 1 .. Len(begin) + Len(Path(id)) /\ ~(i + 1 <= Len(begin))
          /\ i + 1 - Len(begin) = i
      BY <1>1, <1>2
    <3>2. QED BY <1>1, <2>1, <3>1
  <2>3. 1 \in 1 .. Len(begin) + Len(Path(id)) /\ 1 <= Len(begin)
    BY <1>1, <1>2
  <2>4. QED BY <1>1, <1>2, <2>1, <2>2, <2>3
<1> DEFINE first == begin \o Path(id)
<1> HIDE DEF first
<1>4. first \in Seq(Bytes) /\ Len(first) = Length[id] + 1 /\ first[1] = Sign("#")
      /\ \A i \in 1 .. Length[id] : first[i + 1] = Char(id, i)
  BY <1>3 DEF first
<1>5. /\ Len(first \o end) = Len(first) + Len(end)
      /\ \A i \in 1 .. Len(first) + Len(end) :
           (first \o end)[i] = IF i <= Len(first) THEN first[i] ELSE end[i - Len(first)]
  BY <1>2, <1>4, ConcatProperties
<1>6. Message(id) = first \o end
  BY DEF Message, first, begin, end
<1>7. (first \o end)[1] = Sign("#")
  <2>1. 1 \in 1 .. Len(first) + Len(end) /\ 1 <= Len(first)
    BY <1>1, <1>2, <1>4
  <2>2. QED BY <1>4, <1>5, <2>1
<1>8. ASSUME NEW i \in 1 .. Length[id] PROVE (first \o end)[i + 1] = Char(id, i)
  <2>1. i + 1 \in 1 .. Len(first) + Len(end) /\ i + 1 <= Len(first)
    BY <1>1, <1>2, <1>4
  <2>2. QED BY <1>4, <1>5, <2>1
<1>9. (first \o end)[Length[id] + 2] = Sign("?")
  <2>1. Length[id] + 2 \in 1 .. Len(first) + Len(end) /\ ~(Length[id] + 2 <= Len(first))
        /\ Length[id] + 2 - Len(first) = 1
    BY <1>1, <1>2, <1>4
  <2>2. QED BY <1>2, <1>5, <2>1
<1>10. Len(first \o end) = Length[id] + 2
  BY <1>1, <1>2, <1>4, <1>5
<1>11. QED BY <1>6, <1>7, <1>8, <1>9, <1>10

\* What the phone sends next, in the words of the invariant.
LEMMA SendsNext ==
  ASSUME NEW b, TypeOK, Sends(b)
  PROVE  /\ path' = path /\ sent' \in 0 .. Length[path] + 1 /\ asked' \in BOOLEAN
         /\ b \in Bytes
         /\ b = Message(path)[sent + 1]
         /\ sent' = IF sent = Length[path] + 1 THEN 0 ELSE sent + 1
         /\ b = Sign("#") => sent = 0
<1>1. path \in Ids /\ sent \in 0 .. Length[path] + 1 /\ Length[path] \in Nat
  BY LengthType DEF TypeOK
<1>2. path' = path /\ b = Message(path)[sent + 1] /\ asked' \in BOOLEAN
  BY DEF Sends, TypeOK
<1>3. sent' = IF sent = Length[path] + 1 THEN 0 ELSE sent + 1
  BY <1>1, MessageAt DEF Sends
<1>4. sent' \in 0 .. Length[path] + 1
  BY <1>1, <1>3 DEF TypeOK
<1>5. b \in Bytes /\ (b = Sign("#") => sent = 0)
  <2>1. CASE sent = 0
    BY <1>1, <1>2, <2>1, MessageAt, SignsAreBytes
  <2>2. CASE sent \in 1 .. Length[path]
    BY <1>1, <1>2, <2>2, MessageAt, CharsAreBytes
  <2>3. CASE sent = Length[path] + 1
    <3>1. b = Sign("?") BY <1>1, <1>2, <2>3, MessageAt
    <3>2. QED BY <3>1, SignsAreBytes
  <2>4. QED BY <1>1, <2>1, <2>2, <2>3
<1>6. QED BY <1>2, <1>3, <1>4, <1>5
-------------------------------------------------------------------------------
(* The steps.                                                               *)

LEMMA InitInv == Init => BluetoothInv
<1> SUFFICES ASSUME Init PROVE BluetoothInv
  OBVIOUS
<1>1. path \in Ids /\ 0 \in Nat /\ Length[path] \in Nat
  <2>1. path \in Ids BY BluetoothAssumption DEF Init, Ids
  <2>2. QED BY <2>1, LengthType
<1>2. 0 \in 0 .. Length[path] + 1 /\ 0 <= number_of_chars
  BY <1>1, LengthType
<1>3. TypeOK
  <2>1. <<>> \in Seq(Bytes) /\ Len(<<>>) = 0
    BY EmptySeq
  <2>2. buf \in Seq(Bytes) /\ Len(buf) <= number_of_chars /\ sent \in 0 .. Length[path] + 1
    BY <1>2, <2>1 DEF Init
  <2>3. rx \subseteq Bytes /\ got \in Bytes /\ tx \subseteq {Request, Sign("=")}
    BY SignsAreBytes DEF Init, Port!Init
  <2>4. QED BY <1>1, <2>2, <2>3 DEF Init, TypeOK
<1>4. PortInv /\ StrikeInv /\ AwaitInv /\ ReceiveInv /\ ReplyInv
  BY SignsAreBytes DEF Init, Port!Init, PortInv, StrikeInv, AwaitInv, ReceiveInv, ReplyInv
<1>5. QED BY <1>1, <1>3, <1>4 DEF BluetoothInv, Init

\* A byte arrives.  While NIOS receives, it is the next of the message.
LEMMA ArriveStep == BluetoothInv /\ Arrive => BluetoothInv'
<1> SUFFICES ASSUME BluetoothInv, Arrive PROVE BluetoothInv'
  OBVIOUS
<1>1. PICK b \in Bytes : Sends(b) /\ Port!Receive(b)
  BY DEF Arrive
<1>2. /\ path' = path /\ sent' \in 0 .. Length[path] + 1 /\ asked' \in BOOLEAN
      /\ b = Message(path)[sent + 1]
      /\ sent' = IF sent = Length[path] + 1 THEN 0 ELSE sent + 1
      /\ b = Sign("#") => sent = 0
  BY <1>1, SendsNext DEF BluetoothInv
<1>3. /\ rx' = {b} /\ got' = got /\ tx' = tx /\ pc' = pc /\ buf' = buf /\ fault' = fault
  BY <1>1 DEF Arrive, Port!Receive
<1>4. path \in Ids /\ Length[path] \in Nat /\ sent \in Nat
  BY LengthType DEF BluetoothInv, TypeOK
<1>5. TypeOK'
  BY <1>2, <1>3, <1>4 DEF BluetoothInv, TypeOK, number_of_chars
<1>6. PortInv' /\ StrikeInv'
  BY <1>3 DEF BluetoothInv, PortInv, StrikeInv
<1>7. AwaitInv'
  BY <1>2, <1>3, <1>4 DEF AwaitInv
<1>8. ReceiveInv'
  <2>1. CASE pc # "receive" BY <1>3, <2>1 DEF ReceiveInv
  <2>2. CASE pc = "receive"
    <3>1. rx = {} BY <2>2 DEF Arrive, Polling
    <3>2. Len(buf) < number_of_chars
      BY <2>2 DEF BluetoothInv, ReceiveInv
    <3>3. ASSUME fault # "cut"
          PROVE  /\ Prefix' /\ rx' = {Message(path')[Len(buf') + 2]}
                 /\ sent' = IF Len(buf') = Length[path'] THEN 0 ELSE Len(buf') + 2
      <4>1. Prefix /\ sent = Len(buf) + 1
        BY <2>2, <3>1, <3>3 DEF BluetoothInv, ReceiveInv
      <4>2. Len(buf) \in Nat BY DEF BluetoothInv, TypeOK
      <4>3. Prefix' BY <1>2, <1>3, <4>1 DEF Prefix
      <4>4. QED BY <1>2, <1>3, <1>4, <4>1, <4>2, <4>3
    <3>4. QED BY <1>3, <3>2, <3>3 DEF ReceiveInv, number_of_chars
  <2>3. QED BY <2>1, <2>2
<1>9. ReplyInv'
  BY <1>2, <1>3 DEF BluetoothInv, ReplyInv, Prefix, number_of_chars
<1>10. QED BY <1>2, <1>5, <1>6, <1>7, <1>8, <1>9 DEF BluetoothInv

\* The port has sent a byte: a request, or the sign that strikes the path off,
\* which NIOS is not receiving then.
LEMMA DeliverStep == BluetoothInv /\ Deliver => BluetoothInv'
<1> SUFFICES ASSUME BluetoothInv, Deliver PROVE BluetoothInv'
  OBVIOUS
<1>1. tx' = {} /\ rx' = rx /\ got' = got /\ pc' = pc /\ buf' = buf /\ fault' = fault
  BY DEF Deliver, Port!Sent
<1>2. path \in Ids /\ Length[path] \in Nat /\ sent \in Nat
  BY LengthType DEF BluetoothInv, TypeOK
<1>3. PortInv' /\ StrikeInv'
  BY <1>1 DEF BluetoothInv, PortInv, StrikeInv
<1>4. CASE tx = {Request} /\ asked' = TRUE /\ UNCHANGED <<path, sent>>
  <2>1. TypeOK'
    BY <1>1, <1>4 DEF BluetoothInv, TypeOK, number_of_chars
  <2>2. AwaitInv' /\ ReceiveInv' /\ ReplyInv'
    BY <1>1, <1>4 DEF BluetoothInv, AwaitInv, ReceiveInv, ReplyInv, Prefix, number_of_chars
  <2>3. QED BY <1>3, <2>1, <2>2 DEF BluetoothInv
<1>5. CASE tx = {Sign("=")} /\ asked' = FALSE /\ sent' = 0 /\ path' = (path + 1) % N
  <2>1. path' \in Ids BY <1>2, <1>5, BluetoothAssumption DEF Ids
  <2>2. TypeOK'
    <3>1. sent' \in 0 .. Length[path'] + 1
      BY <1>5, <2>1, LengthType
    <3>2. QED BY <1>1, <1>5, <2>1, <3>1 DEF BluetoothInv, TypeOK, number_of_chars
  <2>3. pc \notin {"await", "receive", "reply"}
    BY <1>5 DEF BluetoothInv, StrikeInv
  <2>4. AwaitInv' /\ ReceiveInv' /\ ReplyInv'
    BY <1>1, <2>3 DEF BluetoothInv, AwaitInv, ReceiveInv, ReplyInv, number_of_chars
  <2>5. QED BY <1>3, <2>2, <2>4 DEF BluetoothInv
<1>6. QED BY <1>4, <1>5 DEF Deliver

\* The phone is asked once more, or the connection breaks: what NIOS had begun to
\* receive is cut then.
LEMMA PhoneStep == BluetoothInv /\ (SendAgain \/ Break) => BluetoothInv'
<1> SUFFICES ASSUME BluetoothInv, SendAgain \/ Break PROVE BluetoothInv'
  OBVIOUS
<1>1. path \in Ids /\ Length[path] \in Nat /\ sent \in Nat /\ Len(buf) \in Nat
  BY LengthType DEF BluetoothInv, TypeOK
<1>2. CASE SendAgain
  <2>1. rx' = rx /\ got' = got /\ tx' = tx /\ pc' = pc /\ buf' = buf /\ path' = path
        /\ sent' = sent /\ fault' = fault /\ asked' = TRUE
    BY <1>2 DEF SendAgain, portVars
  <2>2. TypeOK' BY <2>1 DEF BluetoothInv, TypeOK, number_of_chars
  <2>3. PortInv' /\ StrikeInv' /\ AwaitInv' /\ ReceiveInv' /\ ReplyInv'
    BY <2>1 DEF BluetoothInv, PortInv, StrikeInv, AwaitInv, ReceiveInv, ReplyInv, Prefix,
       number_of_chars
  <2>4. QED BY <2>1, <2>2, <2>3 DEF BluetoothInv
<1>3. CASE Break
  <2>1. rx' = rx /\ got' = got /\ tx' = tx /\ pc' = pc /\ buf' = buf /\ path' = path
        /\ sent' = 0 /\ asked' = FALSE
    BY <1>3 DEF Break, portVars
  <2>2. /\ fault' \in {"none", "silent", "cut"}
        /\ fault' # "cut" => fault # "cut" /\ ~(sent > 0 /\ Begun)
    BY <1>3 DEF Break, BluetoothInv, TypeOK
  <2>3. sent' \in 0 .. Length[path'] + 1
    BY <1>1, <2>1
  <2>4. TypeOK'
    BY <2>1, <2>2, <2>3 DEF BluetoothInv, TypeOK, number_of_chars
  <2>5. PortInv' /\ StrikeInv'
    BY <2>1 DEF BluetoothInv, PortInv, StrikeInv
  <2>6. AwaitInv'
    BY <1>1, <2>1, <2>2 DEF BluetoothInv, AwaitInv, Begun
  <2>7. ReceiveInv'
    <3>1. pc = "receive" /\ fault' # "cut" => fault # "cut" /\ sent = 0
      BY <1>1, <2>2 DEF Begun
    <3>2. pc = "receive" => Len(buf) < number_of_chars
      BY DEF BluetoothInv, ReceiveInv
    <3>3. pc = "receive" /\ fault' # "cut" =>
            Prefix /\ rx = {Message(path)[Len(buf) + 2]} /\ Len(buf) = Length[path]
      BY <1>1, <3>1 DEF BluetoothInv, ReceiveInv
    <3>4. Prefix => Prefix' BY <2>1 DEF Prefix
    <3>5. QED BY <1>1, <2>1, <3>2, <3>3, <3>4 DEF ReceiveInv, number_of_chars
  <2>8. ReplyInv'
    BY <2>1, <2>2 DEF BluetoothInv, ReplyInv, Prefix, number_of_chars
  <2>9. QED BY <2>3, <2>4, <2>5, <2>6, <2>7, <2>8 DEF BluetoothInv
<1>4. QED BY <1>2, <1>3

\* A download begins, with no fault yet.
LEMMA StartStep == BluetoothInv /\ Start => BluetoothInv'
  BY DEF BluetoothInv, Start, portVars, phoneVars, TypeOK, PortInv, StrikeInv, AwaitInv,
     ReceiveInv, ReplyInv, number_of_chars

\* A request, and a look at the port: when a sign is seen, the port is empty and
\* no sign that strikes off is on its way.
LEMMA AskStep == BluetoothInv /\ Ask => BluetoothInv'
<1> SUFFICES ASSUME BluetoothInv, Ask PROVE BluetoothInv'
  OBVIOUS
<1>1. pc = "request" /\ tx' = {Request} /\ buf' = buf /\ fault' = fault
      /\ pc' = (IF rx # {} /\ IsSign(got') THEN "await" ELSE "request")
  BY DEF Ask, Port!Put
<1>2. path \in Ids /\ Length[path] \in Nat /\ sent \in Nat
  BY LengthType DEF BluetoothInv, TypeOK
<1>3. /\ rx' = {} /\ got' \in Bytes
      /\ path' = path /\ sent' \in 0 .. Length[path] + 1 /\ asked' \in BOOLEAN
  <2>1. CASE rx = {} /\ UNCHANGED <<rx, got, phoneVars>>
    BY <1>2, <2>1 DEF phoneVars, BluetoothInv, TypeOK
  <2>2. CASE Port!Take /\ UNCHANGED phoneVars
    BY <1>2, <2>2 DEF phoneVars, BluetoothInv, TypeOK, Port!Take
  <2>3. ASSUME NEW b \in Bytes, Sends(b), Port!TakeNew(b) \/ Port!Take PROVE <1>3
    BY <2>3, SendsNext DEF BluetoothInv, TypeOK, Port!Take, Port!TakeNew
  <2>4. QED BY <2>1, <2>2, <2>3 DEF Ask, LookOnce
<1>5. TypeOK'
  BY <1>1, <1>3 DEF BluetoothInv, TypeOK, number_of_chars
<1>6. PortInv' /\ StrikeInv'
  <2>1. {Request} # {Sign("=")} BY SignsAreBytes
  <2>2. QED BY <1>1, <1>3, <2>1 DEF PortInv, StrikeInv
<1>7. AwaitInv' /\ ReceiveInv' /\ ReplyInv'
  BY <1>1, <1>3 DEF AwaitInv, ReceiveInv, ReplyInv
<1>8. QED BY <1>3, <1>5, <1>6, <1>7 DEF BluetoothInv

\* The '#' that NIOS begins with is the first byte of the message being sent.
LEMMA AwaitStep == BluetoothInv /\ AwaitPath => BluetoothInv'
<1> SUFFICES ASSUME BluetoothInv, AwaitPath PROVE BluetoothInv'
  OBVIOUS
<1>1. /\ pc = "await" /\ got' \in rx /\ rx' = {} /\ tx' = tx /\ fault' = fault
      /\ path' = path /\ sent' = sent /\ asked' = asked
      /\ IF got' = Sign("#") THEN pc' = "receive" /\ buf' = <<>> ELSE pc' = pc /\ buf' = buf
  BY DEF AwaitPath, Port!Take, phoneVars
<1>2. rx = {got'} /\ got' \in Bytes
  BY <1>1 DEF BluetoothInv, PortInv
<1>3. path \in Ids /\ Length[path] \in Nat /\ number_of_chars \in Nat \ {0}
  BY LengthType DEF BluetoothInv, TypeOK
<1>4. buf' \in Seq(Bytes) /\ Len(buf') <= number_of_chars
  <2>1. <<>> \in Seq(Bytes) /\ Len(<<>>) = 0 /\ 0 <= number_of_chars
    BY <1>3, EmptySeq
  <2>2. QED BY <1>1, <2>1 DEF BluetoothInv, TypeOK
<1>5. TypeOK'
  BY <1>1, <1>2, <1>4 DEF BluetoothInv, TypeOK, number_of_chars
<1>6. PortInv' /\ StrikeInv' /\ AwaitInv' /\ ReplyInv'
  BY <1>1 DEF BluetoothInv, PortInv, StrikeInv, AwaitInv, ReplyInv
<1>7. ReceiveInv'
  <2>1. CASE got' # Sign("#") BY <1>1, <2>1 DEF ReceiveInv
  <2>2. CASE got' = Sign("#")
    <3>1. fault # "cut" => sent = 1
      BY <1>1, <1>2, <2>2 DEF BluetoothInv, AwaitInv
    <3>2. buf' = <<>> /\ Len(buf') = 0
      BY <1>1, <2>2
    <3>3. Prefix'
      BY <1>1, <1>3, <3>2 DEF Prefix
    <3>4. QED BY <1>1, <1>3, <3>1, <3>2, <3>3 DEF ReceiveInv, number_of_chars
  <2>3. QED BY <2>1, <2>2
<1>8. QED BY <1>1, <1>5, <1>6, <1>7 DEF BluetoothInv

\* A byte received is the next character of the path, or the '?' after the last.
LEMMA ReceiveStep == BluetoothInv /\ receive_string => BluetoothInv'
<1> SUFFICES ASSUME BluetoothInv, receive_string PROVE BluetoothInv'
  OBVIOUS
<1>1. /\ pc = "receive" /\ got' \in rx /\ rx' = {} /\ tx' = tx /\ fault' = fault
      /\ path' = path /\ sent' = sent /\ asked' = asked
  BY DEF receive_string, Port!Take, phoneVars
<1>2. rx = {got'} /\ got' \in Bytes
  BY <1>1 DEF BluetoothInv, PortInv
<1>3. /\ path \in Ids /\ Length[path] \in Nat /\ number_of_chars \in Nat
      /\ buf \in Seq(Bytes) /\ Len(buf) \in Nat /\ Len(buf) < number_of_chars
  BY <1>1, LengthType DEF BluetoothInv, TypeOK, ReceiveInv
<1>4. PortInv'
  BY <1>1 DEF BluetoothInv, PortInv
<1>5. pc' \in {"receive", "reply"} => StrikeInv' /\ AwaitInv'
  BY <1>1 DEF BluetoothInv, StrikeInv, AwaitInv
<1>6. ASSUME fault # "cut"
      PROVE  /\ Prefix
             /\ got' = Message(path)[Len(buf) + 2]
             /\ sent = IF Len(buf) = Length[path] THEN 0 ELSE Len(buf) + 2
  <2>1. rx # {} BY <1>1
  <2>2. QED BY <1>1, <1>2, <1>6, <2>1 DEF BluetoothInv, ReceiveInv
<1>7. CASE got' = Sign("?")
  <2>1. pc' = "reply" /\ buf' = buf
    BY <1>7 DEF receive_string
  <2>2. TypeOK'
    BY <1>1, <1>2, <2>1 DEF BluetoothInv, TypeOK, number_of_chars
  <2>3. ASSUME fault # "cut" PROVE Len(buf) = Length[path]
    <3>1. SUFFICES ASSUME Len(buf) # Length[path] PROVE FALSE
      OBVIOUS
    <3>2. Len(buf) + 1 \in 1 .. Length[path]
      BY <1>3, <1>6, <2>3, <3>1 DEF Prefix
    <3>3. got' = Char(path, Len(buf) + 1)
      BY <1>3, <1>6, <2>3, <3>2, MessageAt
    <3>4. QED BY <1>3, <1>7, <3>2, <3>3, CharsAreBytes
  <2>4. Prefix => Prefix' BY <1>1, <2>1 DEF Prefix
  <2>5. ReplyInv' /\ ReceiveInv'
    BY <1>1, <1>6, <2>1, <2>3, <2>4 DEF ReplyInv, ReceiveInv
  <2>6. QED BY <1>4, <1>5, <2>1, <2>2, <2>5 DEF BluetoothInv
<1>8. CASE got' # Sign("?")
  <2>1. buf' = Append(buf, got') /\ pc' = (IF Len(buf') = number_of_chars THEN "reply" ELSE pc)
    BY <1>8 DEF receive_string
  <2>2. /\ buf' \in Seq(Bytes) /\ Len(buf') = Len(buf) + 1
        /\ \A i \in 1 .. Len(buf) : buf'[i] = buf[i]
        /\ buf'[Len(buf) + 1] = got'
    BY <1>2, <1>3, <2>1, AppendProperties
  <2>3. Len(buf') <= number_of_chars
    BY <1>3, <2>2
  <2>4. TypeOK'
    <3>1. pc' \in {"receive", "reply"} BY <1>1, <2>1
    <3>2. QED BY <1>1, <1>2, <2>2, <2>3, <3>1 DEF BluetoothInv, TypeOK, number_of_chars
  <2>5. ASSUME fault # "cut"
        PROVE  Prefix' /\ sent = Len(buf') + 1
    <3>1. Len(buf) # Length[path]
      BY <1>3, <1>6, <1>8, <2>5, MessageAt
    <3>2. Len(buf) + 1 \in 1 .. Length[path]
      BY <1>3, <1>6, <2>5, <3>1 DEF Prefix
    <3>3. got' = Char(path, Len(buf) + 1)
      BY <1>3, <1>6, <2>5, <3>2, MessageAt
    <3>4. \A i \in 1 .. Len(buf') : buf'[i] = Char(path, i)
      <4>1. TAKE i \in 1 .. Len(buf')
      <4>2. CASE i = Len(buf) + 1 BY <2>2, <3>3, <4>2
      <4>3. CASE i \in 1 .. Len(buf) BY <1>6, <2>2, <2>5, <4>3 DEF Prefix
      <4>4. QED BY <1>3, <2>2, <4>2, <4>3
    <3>5. QED BY <1>1, <1>3, <1>6, <2>2, <2>5, <3>1, <3>2, <3>4 DEF Prefix
  <2>6. ReceiveInv'
    <3>1. pc' = "receive" => Len(buf') < number_of_chars
      BY <1>1, <1>3, <2>1, <2>2, <2>3
    <3>2. QED BY <1>1, <2>5, <3>1 DEF ReceiveInv, number_of_chars
  <2>7. ReplyInv'
    BY <1>1, <2>1, <2>5 DEF ReplyInv, number_of_chars
  <2>8. pc' \in {"receive", "reply"} BY <1>1, <2>1
  <2>9. QED BY <1>4, <1>5, <2>4, <2>6, <2>7, <2>8 DEF BluetoothInv
<1>9. QED BY <1>7, <1>8

\* The path is struck off and stored.
LEMMA ReplyStep == BluetoothInv /\ (Acknowledge \/ Store) => BluetoothInv'
<1> SUFFICES ASSUME BluetoothInv, Acknowledge \/ Store PROVE BluetoothInv'
  OBVIOUS
<1>2. CASE Acknowledge
  <2>1. /\ pc = "reply" /\ pc' = "store" /\ tx' = {Sign("=")}
        /\ rx' = rx /\ got' = got /\ buf' = buf /\ fault' = fault
        /\ path' = path /\ sent' = sent /\ asked' = asked
    BY <1>2 DEF Acknowledge, Port!Put, phoneVars
  <2>2. TypeOK'
    BY <2>1 DEF BluetoothInv, TypeOK, number_of_chars
  <2>3. PortInv' /\ StrikeInv' /\ AwaitInv' /\ ReceiveInv' /\ ReplyInv'
    BY <2>1 DEF PortInv, StrikeInv, AwaitInv, ReceiveInv, ReplyInv, BluetoothInv
  <2>4. QED BY <2>1, <2>2, <2>3 DEF BluetoothInv
<1>3. CASE Store
  BY <1>3 DEF BluetoothInv, Store, portVars, phoneVars, TypeOK, PortInv, StrikeInv, AwaitInv,
     ReceiveInv, ReplyInv, number_of_chars
<1>4. QED BY <1>2, <1>3

LEMMA BluetoothStep == BluetoothInv /\ [Next]_vars => BluetoothInv'
<1>1. CASE UNCHANGED vars
  BY <1>1 DEF vars, portVars, phoneVars, BluetoothInv, TypeOK, PortInv, StrikeInv, AwaitInv,
     ReceiveInv, ReplyInv, Prefix, number_of_chars
<1>2. QED
  BY <1>1, StartStep, AskStep, AwaitStep, ReceiveStep, ReplyStep, ArriveStep, DeliverStep,
     PhoneStep DEF Next, processBT
-------------------------------------------------------------------------------
(* The theorems.                                                            *)

\* Under every loss of bytes, unasked message and broken connection, what NIOS
\* has received and what the phone has sent stay in step.
THEOREM BluetoothInvariant == Spec => []BluetoothInv
<1>1. QED BY InitInv, BluetoothStep, PTL DEF Spec

\* Buffer, port and phone keep their types: the path never outgrows the buffer.
THEOREM BluetoothTypeCorrect == Spec => []TypeOK
<1>1. BluetoothInv => TypeOK BY DEF BluetoothInv
<1>2. QED BY <1>1, BluetoothInvariant, PTL

\* The phone is told to strike off a path only when NIOS has all of it that the
\* buffer can hold, nothing else, and it is the path the phone will strike off.
THEOREM AckCorrect == Spec => AckedIsReceived
<1>1. ASSUME BluetoothInv, Acknowledge PROVE buf = RoomFor(path) \/ fault = "cut"
  <2>1. SUFFICES ASSUME fault # "cut" PROVE buf = RoomFor(path)
    OBVIOUS
  <2>2. Prefix /\ (Len(buf) = Length[path] \/ Len(buf) = number_of_chars)
    BY <1>1, <2>1 DEF BluetoothInv, ReplyInv, Acknowledge
  <2>3. path \in Ids /\ buf \in Seq(Bytes) /\ Len(buf) <= number_of_chars
    BY <1>1 DEF BluetoothInv, TypeOK
  <2>4. RoomFor(path) \in Seq(Bytes) /\ Len(RoomFor(path)) = Len(buf)
        /\ \A i \in 1 .. Len(buf) : RoomFor(path)[i] = Char(path, i)
    BY <2>2, <2>3, RoomForType DEF Prefix
  <2>5. \A i \in 1 .. Len(buf) : buf[i] = RoomFor(path)[i]
    BY <2>2, <2>4 DEF Prefix
  <2>6. QED BY <2>3, <2>4, <2>5, SeqEqual
<1>2. BluetoothInv /\ [Next]_vars => [Acknowledge => buf = RoomFor(path) \/ fault = "cut"]_vars
  BY <1>1
<1>3. QED BY <1>2, BluetoothInvariant, PTL DEF Spec, AckedIsReceived
===============================================================================
