--------------------------- MODULE TouchScreenProofs ---------------------------
(***************************************************************************)
(* For any number of packets told apart: what GetPress and GetRelease      *)
(* answer is one report of the touch controller, made after the call       *)
(* began, and a release is not missed by a call that asks for it at once.  *)
(***************************************************************************)
EXTENDS TouchScreen, SequenceTheorems, TLAPS

(***************************************************************************)
(* Why, as an inductive invariant.  The port never holds more than the     *)
(* byte sent last; what a call has read is the beginning of the packet     *)
(* being sent, which is not an old one; and a call that followed a press   *)
(* at once finds its report still to come, or waiting.                     *)
(***************************************************************************)

Calling == pc \in {"press", "release"}

\* The byte the controller sent last.
Last == Byte(packet.kind, packet.id, sent - 1)

PortInv == rx \in {{}, {Phantom}, {Last}}

\* Outside a call nothing is read; a byte is left over for the first read only.
PointInv == /\ pc \in {"reset", "away"} => point = <<>>
            /\ pc = "init" => Len(point) < 3
            /\ leftover => Calling /\ ~direct /\ point = <<>>

\* A call in the middle of a packet, without a byte lost in a read.
PacketInv ==
    Calling /\ point # <<>> /\ ~raced =>
        /\ packet.kind = pc
        /\ \A i \in 1 .. Len(point) : point[i] = Byte(pc, packet.id, i - 1)
        /\ sent = IF rx = {} THEN Len(point) ELSE Len(point) + 1

\* Nothing of a packet that was complete before the call.
FreshInv ==
    Calling => /\ sent < 5 => packet.id \notin old
               /\ point # <<>> => /\ packet.id \notin old /\ rx # {Phantom}
                                  /\ \A i \in 1 .. Len(point) : point[i].id \notin old

TouchInv == TypeOK /\ PortInv /\ PointInv /\ PacketInv /\ FreshInv /\ ReleaseNotMissed
-------------------------------------------------------------------------------
(* Bytes.                                                                   *)

\* The parts of a byte, and that it is one.
LEMMA ByteType ==
  /\ \A kind, id, part : /\ Byte(kind, id, part).kind = kind
                         /\ Byte(kind, id, part).id = id
                         /\ Byte(kind, id, part).part = part
  /\ \A kind \in {"press", "release"}, id \in Ids, part \in 0 .. 4 :
        Byte(kind, id, part) \in Bytes
  /\ Phantom \in Bytes /\ Phantom.kind = "none"
  /\ \A i \in 1 .. 3 : Enable[i] \in Bytes
  BY DEF Byte, Bytes, Phantom

\* How much of a packet a call has read.
LEMMA PointLength == TypeOK => point \in Seq(Bytes) /\ Len(point) \in Nat /\ Len(point) < 5
<1>1. TypeOK => point \in Seq(Bytes) /\ Len(point) < 5
  BY DEF TypeOK
<1>2. QED BY <1>1, LenProperties

\* What the controller sends next: the next byte of its packet, or the header of
\* a new one, which is not an old one from then on.
LEMMA SendsNext ==
  ASSUME NEW b, TypeOK, Sends(b)
  PROVE  /\ packet' \in [kind : {"press", "release"}, id : Ids] /\ sent' \in 1 .. 5
         /\ old' \subseteq old /\ commands' = commands /\ finger' = finger
         /\ b = Last' /\ b \in Bytes
         /\ IF sent < 5 THEN packet' = packet /\ sent' = sent + 1 /\ old' = old
                        ELSE sent' = 1 /\ packet'.id \notin old'
<1>1. /\ b = Last' /\ commands' = commands /\ finger' = finger
      /\ old' = IF sent = 5 THEN old \ {packet'.id} ELSE old
  BY DEF Sends, Last
<1>2. CASE NewPacket
  <2>1. (packet.id + 1) % N \in Ids
    BY TouchAssumption DEF TypeOK, Ids
  <2>2. packet' \in [kind : {"press", "release"}, id : Ids] /\ sent' = 1 /\ sent = 5
    BY <1>2, <2>1 DEF NewPacket
  <2>3. b \in Bytes
    BY <1>1, <2>2, ByteType DEF Last
  <2>4. QED BY <1>1, <2>2, <2>3
<1>3. CASE SamePacket
  <2>1. packet' = packet /\ sent' = sent + 1 /\ sent \in 1 .. 4
    BY <1>3 DEF SamePacket, TypeOK
  <2>2. b \in Bytes
    BY <1>1, <2>1, ByteType DEF Last, TypeOK
  <2>3. QED BY <1>1, <2>1, <2>2 DEF TypeOK
<1>4. QED BY <1>2, <1>3 DEF Sends

\* A header in the port is the controller's last byte.
LEMMA HeaderIsLast ==
  ASSUME TypeOK, PortInv, NEW b \in rx, Calling, IsHeader(b)
  PROVE  b = Last /\ sent = 1 /\ packet.kind = pc /\ packet.id = b.id
<1>1. b # Phantom
  BY ByteType DEF Calling, IsHeader
<1>2. b = Last BY <1>1 DEF PortInv
<1>3. QED BY <1>2, ByteType DEF IsHeader, Last, TypeOK
-------------------------------------------------------------------------------
(* The controller, the user and Init_Touch.                                 *)

LEMMA InitInv == Init => TouchInv
<1> SUFFICES ASSUME Init PROVE TouchInv
  OBVIOUS
<1>1. 0 \in Ids BY TouchAssumption DEF Ids
<1>2. <<>> \in Seq(Bytes) /\ Len(<<>>) = 0
  BY EmptySeq
<1>3. TypeOK
  <2>1. rx \subseteq Bytes /\ got \in Bytes /\ tx = {}
    BY ByteType DEF Init, Port!Init
  <2>2. point \in Seq(Bytes) /\ Len(point) < 5 /\ commands \in Seq(Bytes)
    BY <1>2 DEF Init
  <2>3. packet \in [kind : {"press", "release"}, id : Ids] /\ sent \in 1 .. 5
    BY <1>1 DEF Init
  <2>4. QED BY <2>1, <2>2, <2>3 DEF Init, TypeOK
<1>4. PortInv /\ PointInv /\ PacketInv /\ FreshInv /\ ReleaseNotMissed
  BY <1>2 DEF Init, Port!Init, PortInv, PointInv, PacketInv, FreshInv, ReleaseNotMissed, Calling
<1>5. QED BY <1>3, <1>4 DEF TouchInv

\* A byte arrives.
LEMMA ArriveStep == TouchInv /\ Arrive => TouchInv'
<1> SUFFICES ASSUME TouchInv, Arrive PROVE TouchInv'
  OBVIOUS
<1> USE DEF TouchInv
<1>1. PICK b \in Bytes : Sends(b) /\ Port!Receive(b)
  BY DEF Arrive
<1>2. /\ packet' \in [kind : {"press", "release"}, id : Ids] /\ sent' \in 1 .. 5
      /\ old' \subseteq old /\ commands' = commands /\ finger' = finger
      /\ b = Last' /\ b \in Bytes
      /\ IF sent < 5 THEN packet' = packet /\ sent' = sent + 1 /\ old' = old
                     ELSE sent' = 1 /\ packet'.id \notin old'
  BY <1>1, SendsNext
<1>3. /\ rx' = {b} /\ got' = got /\ tx' = tx /\ pc' = pc /\ call' = call /\ point' = point
      /\ raced' = raced /\ direct' = direct /\ leftover' = FALSE
  BY <1>1 DEF Arrive, Port!Receive
<1>4. pc = "away" \/ rx = {} \/ leftover
  BY DEF Arrive
<1>5. TypeOK' BY <1>2, <1>3 DEF TypeOK
<1>6. PortInv' BY <1>2, <1>3 DEF PortInv
<1>7. PointInv' BY <1>3 DEF PointInv, Calling
<1>8. PacketInv'
  <2>1. SUFFICES ASSUME Calling, point # <<>>, ~raced PROVE PacketInv'
    BY <1>3 DEF PacketInv, Calling
  <2>2. rx = {} BY <1>4, <2>1 DEF PointInv, Calling
  <2>3. Len(point) \in Nat /\ Len(point) < 5
    BY PointLength
  <2>4. sent < 5 BY <2>1, <2>2, <2>3 DEF PacketInv
  <2>5. QED BY <1>2, <1>3, <2>1, <2>2, <2>4 DEF PacketInv, Calling
<1>9. FreshInv'
  <2>1. SUFFICES ASSUME Calling PROVE FreshInv'
    BY <1>3 DEF FreshInv, Calling
  <2>2. packet'.id \notin old'
    BY <1>2, <2>1 DEF FreshInv, TypeOK
  <2>3. rx' # {Phantom}
    <3>1. packet'.kind # "none"
      BY <1>2
    <3>2. b = Byte(packet'.kind, packet'.id, sent' - 1)
      BY <1>2 DEF Last
    <3>3. b.kind = packet'.kind
      BY <3>2, ByteType
    <3>4. b # Phantom BY <3>1, <3>3, ByteType
    <3>5. QED BY <1>3, <3>4
  <2>4. QED BY <1>2, <1>3, <2>1, <2>2, <2>3 DEF FreshInv
<1>10. ReleaseNotMissed'
  <2>1. SUFFICES ASSUME pc = "release", direct, point = <<>>, ~Reported'
                 PROVE  rx' = {Byte("release", packet'.id, 0)} /\ sent' = 1
    BY <1>3 DEF ReleaseNotMissed
  <2>2. rx = {} BY <1>4, <2>1 DEF PointInv
  <2>3. Reported BY <2>1, <2>2 DEF ReleaseNotMissed
  <2>4. sent' = 1 /\ packet'.kind = "release"
    BY <1>2, <2>1, <2>3 DEF Reported, TypeOK
  <2>5. QED BY <1>2, <1>3, <2>4 DEF Last
<1>11. QED BY <1>5, <1>6, <1>7, <1>8, <1>9, <1>10

\* The port has sent a command, or the user moves a finger.
LEMMA OutsideStep == TouchInv /\ (Deliver \/ Finger) => TouchInv'
<1> SUFFICES ASSUME TouchInv, Deliver \/ Finger PROVE TouchInv'
  OBVIOUS
<1> USE DEF TouchInv
<1>1. /\ rx' = rx /\ got' = got /\ pc' = pc /\ call' = call /\ point' = point /\ raced' = raced
      /\ direct' = direct /\ leftover' = leftover /\ packet' = packet /\ sent' = sent /\ old' = old
  BY DEF Deliver, Finger, Port!Sent, portVars, niosVars
<1>2. tx' \subseteq tx /\ commands' \in Seq(Bytes) /\ finger' \in BOOLEAN
  <2>1. CASE Deliver
    <3>1. PICK b \in tx : commands' = Append(commands, b)
      BY <2>1 DEF Deliver
    <3>2. b \in Bytes BY <3>1, ByteType DEF TypeOK
    <3>3. QED BY <2>1, <3>1, <3>2, AppendProperties DEF Deliver, Port!Sent, TypeOK
  <2>2. CASE Finger
    BY <2>2 DEF Finger, portVars, TypeOK
  <2>3. QED BY <2>1, <2>2
<1>3. TypeOK' BY <1>1, <1>2 DEF TypeOK
<1>4. QED
  BY <1>1, <1>3 DEF PortInv, PointInv, PacketInv, FreshInv, ReleaseNotMissed, Calling, Last, Reported

\* Init_Touch: the port is reset and three commands are written.
LEMMA InitTouchStep == TouchInv /\ (MasterReset \/ WriteEnable) => TouchInv'
<1> SUFFICES ASSUME TouchInv, MasterReset \/ WriteEnable PROVE TouchInv'
  OBVIOUS
<1> USE DEF TouchInv
<1>1. <<>> \in Seq(Bytes) /\ Len(<<>>) = 0
  BY EmptySeq
<1>2. CASE MasterReset
  <2>1. /\ pc = "reset" /\ pc' = "init" /\ rx' = {Phantom} /\ tx' = {} /\ got' = got
        /\ UNCHANGED <<deviceVars, call, point, leftover, raced, direct, old>>
    BY <1>2 DEF MasterReset, Port!Reset
  <2>2. point' = <<>> BY <2>1 DEF PointInv
  <2>3. TypeOK'
    BY <2>1, ByteType DEF TypeOK, deviceVars
  <2>4. QED
    BY <1>1, <2>1, <2>2, <2>3 DEF PortInv, PointInv, PacketInv, FreshInv, ReleaseNotMissed, Calling
<1>3. CASE WriteEnable
  <2>1. /\ pc = "init" /\ tx' = {Enable[Len(point) + 1]}
        /\ UNCHANGED <<rx, got, deviceVars, call, leftover, raced, direct, old>>
        /\ IF Len(point) = 2 THEN pc' = "away" /\ point' = <<>>
           ELSE pc' = pc /\ point' = Append(point, Enable[Len(point) + 1])
    BY <1>3 DEF WriteEnable, Port!Put
  <2>2. point \in Seq(Bytes) /\ Len(point) \in Nat /\ Len(point) < 3
    BY <2>1, PointLength DEF PointInv
  <2>3. Len(point) + 1 \in 1 .. 3
    BY <2>2
  <2>4. Enable[Len(point) + 1] \in Bytes
    BY <2>3, ByteType
  <2>5. point' \in Seq(Bytes) /\ Len(point') < 3
    <3>1. CASE Len(point) = 2 BY <1>1, <2>1, <3>1
    <3>2. CASE Len(point) # 2
      <4>1. point' = Append(point, Enable[Len(point) + 1]) BY <2>1, <3>2
      <4>2. point' \in Seq(Bytes) /\ Len(point') = Len(point) + 1
        BY <2>2, <2>4, <4>1, AppendProperties
      <4>3. Len(point) + 1 < 3
        <5> DEFINE n == Len(point)
        <5>1. n \in Nat /\ n < 3 /\ n # 2 BY <2>2, <3>2
        <5> HIDE DEF n
        <5>2. n + 1 < 3 BY <5>1
        <5>3. QED BY <5>2 DEF n
      <4>4. QED BY <4>2, <4>3
    <3>3. QED BY <3>1, <3>2
  <2>6. tx' \subseteq {Enable[i] : i \in 1 .. 3} /\ pc' \in {"init", "away"}
    BY <2>1, <2>3
  <2>7. TypeOK'
    <3>1. Len(point') < 5 BY <2>2, <2>5, LenProperties
    <3>2. QED BY <2>1, <2>5, <2>6, <3>1 DEF TypeOK, deviceVars
  <2>8. PointInv'
    BY <2>1, <2>5, <2>6 DEF PointInv, Calling
  <2>9. PortInv' /\ PacketInv' /\ FreshInv' /\ ReleaseNotMissed'
    BY <2>1, <2>6 DEF PortInv, PacketInv, FreshInv, ReleaseNotMissed, Calling, Last, deviceVars
  <2>10. QED BY <2>7, <2>8, <2>9
<1>4. QED BY <1>2, <1>3
-------------------------------------------------------------------------------
(* GetPress and GetRelease.                                                 *)

\* A call begins: what it may be answered with is still to come.
LEMMA BeginFresh ==
  ASSUME TypeOK, NEW name \in {"press", "release"}, Begin(name),
         packet' = packet, sent' = sent, point' = <<>>
  PROVE  /\ pc' = name /\ direct' \in BOOLEAN /\ leftover' \in BOOLEAN /\ old' \subseteq Ids
         /\ FreshInv' /\ ~(leftover' /\ direct')
         /\ direct' => pc # "away" /\ ~raced
<1>1. /\ pc' = name
      /\ direct' = (pc # "away" /\ ~raced) /\ leftover' = (rx # {} /\ pc = "away")
      /\ old' = Ids \ (IF sent < 5 THEN {packet.id} ELSE {})
  BY DEF Begin
<1>2. FreshInv' BY <1>1 DEF FreshInv
<1>3. QED BY <1>1, <1>2

\* After a pause.
LEMMA ResumeStep == TouchInv /\ Resume => TouchInv'
<1> SUFFICES ASSUME TouchInv, Resume PROVE TouchInv'
  OBVIOUS
<1> USE DEF TouchInv
<1>1. PICK name \in {"press", "release"} : Begin(name)
  BY DEF Resume
<1>2. /\ pc = "away" /\ point = <<>> /\ point' = <<>>
      /\ UNCHANGED <<portVars, deviceVars, call, point, raced>>
  BY DEF Resume, PointInv
<1>3. /\ pc' = name /\ ~direct' /\ leftover' \in BOOLEAN /\ direct' \in BOOLEAN
      /\ old' \subseteq Ids /\ FreshInv'
  BY <1>1, <1>2, BeginFresh DEF deviceVars
<1>4. TypeOK'
  BY <1>2, <1>3 DEF TypeOK, portVars, deviceVars
<1>5. PortInv' /\ PointInv' /\ PacketInv' /\ ReleaseNotMissed'
  BY <1>2, <1>3 DEF PortInv, PointInv, PacketInv, ReleaseNotMissed, Last, Calling, portVars,
     deviceVars
<1>6. QED BY <1>3, <1>4, <1>5

\* What a read while no header has been seen yields: a header is the first byte
\* of the packet being sent, of which no more was sent unless a byte was lost.
LEMMA ReadHeader ==
  ASSUME TouchInv, Calling, Read
  PROVE  /\ got' \in Bytes /\ rx' = {} /\ leftover' = FALSE /\ raced' \in BOOLEAN
         /\ packet' \in [kind : {"press", "release"}, id : Ids] /\ sent' \in 1 .. 5
         /\ old' \subseteq Ids /\ commands' = commands /\ finger' = finger
         /\ sent' < 5 => packet'.id \notin old'
         /\ ~leftover => packet' = packet /\ sent' = sent /\ got' \in rx
         /\ IsHeader(got') => /\ got' = Byte(pc, packet'.id, 0) /\ packet'.kind = pc
                              /\ packet'.id \notin old'
                              /\ ~raced' => sent' = 1
<1> USE DEF TouchInv
<1>1. CASE Port!Take /\ UNCHANGED <<deviceVars, old>> /\ raced' = FALSE
  <2>1. got' \in rx /\ rx' = {} /\ leftover' = FALSE
        /\ packet' = packet /\ sent' = sent /\ old' = old /\ commands' = commands
        /\ finger' = finger
    BY <1>1 DEF Read, Port!Take, deviceVars
  <2>2. got' \in Bytes /\ sent \in 1 .. 5 /\ old \subseteq Ids
        /\ packet \in [kind : {"press", "release"}, id : Ids]
    BY <2>1 DEF TypeOK
  <2>3. sent < 5 => packet.id \notin old
    BY DEF FreshInv
  <2>4. ASSUME IsHeader(got')
        PROVE  got' = Byte(pc, packet'.id, 0) /\ packet'.kind = pc /\ sent' = 1
    <3>1. got' = Last /\ sent = 1 /\ packet.kind = pc
      BY <2>1, <2>4, HeaderIsLast
    <3>2. QED BY <2>1, <3>1 DEF Last
  <2>5. sent' < 5 => packet'.id \notin old'
    BY <2>1, <2>3
  <2>6. IsHeader(got') => packet'.id \notin old'
    BY <2>4, <2>5
  <2>7. QED BY <1>1, <2>1, <2>2, <2>4, <2>5, <2>6
<1>2. ASSUME leftover, NEW b \in Bytes, Sends(b),
             \/ Port!TakeNew(b) /\ raced' = FALSE
             \/ Port!Take /\ raced' = TRUE
      PROVE  /\ got' \in Bytes /\ rx' = {} /\ leftover' = FALSE /\ raced' \in BOOLEAN
             /\ packet' \in [kind : {"press", "release"}, id : Ids] /\ sent' \in 1 .. 5
             /\ old' \subseteq Ids /\ commands' = commands /\ finger' = finger
             /\ sent' < 5 => packet'.id \notin old'
             /\ IsHeader(got') => /\ got' = Byte(pc, packet'.id, 0) /\ packet'.kind = pc
                                  /\ packet'.id \notin old'
                                  /\ ~raced' => sent' = 1
  <2>1. /\ packet' \in [kind : {"press", "release"}, id : Ids] /\ sent' \in 1 .. 5
        /\ old' \subseteq old /\ commands' = commands /\ finger' = finger
        /\ b = Last'
        /\ IF sent < 5 THEN packet' = packet /\ sent' = sent + 1 /\ old' = old
                       ELSE sent' = 1 /\ packet'.id \notin old'
    BY <1>2, SendsNext
  <2>2. rx' = {} /\ leftover' = FALSE /\ raced' \in BOOLEAN /\ got' \in Bytes
    BY <1>2 DEF Read, Port!Take, Port!TakeNew, TypeOK
  <2>3. old \subseteq Ids /\ sent \in 1 .. 5
    BY DEF TypeOK
  <2>4. packet'.id \notin old'
    BY <2>1, <2>3 DEF FreshInv
  <2>5. CASE Port!TakeNew(b) /\ raced' = FALSE
    <3>1. got' = Byte(packet'.kind, packet'.id, sent' - 1)
      BY <2>1, <2>5 DEF Port!TakeNew, Last
    <3>2. got'.kind = packet'.kind /\ got'.part = sent' - 1
      BY <3>1, ByteType
    <3>3. IsHeader(got') => packet'.kind = pc /\ sent' = 1
      BY <2>1, <3>2 DEF IsHeader
    <3>4. QED BY <2>1, <2>2, <2>3, <2>4, <3>1, <3>3
  <2>6. CASE Port!Take /\ raced' = TRUE
    <3>1. got' \in rx BY <2>6 DEF Port!Take
    <3>2. IsHeader(got') => got' = Byte(pc, packet.id, 0) /\ packet.kind = pc /\ sent = 1
      BY <3>1, HeaderIsLast DEF Last
    <3>3. IsHeader(got') => got' = Byte(pc, packet'.id, 0) /\ packet'.kind = pc
      BY <2>1, <3>2
    <3>4. QED BY <2>1, <2>2, <2>3, <2>4, <2>6, <3>3
  <2>7. QED BY <1>2, <2>5, <2>6
<1>3. QED BY <1>1, <1>2 DEF Read

\* The loop that waits for a header.
LEMMA HeaderStep == TouchInv /\ WaitForHeader => TouchInv'
<1> SUFFICES ASSUME TouchInv, WaitForHeader PROVE TouchInv'
  OBVIOUS
<1> USE DEF TouchInv
<1>1. /\ Calling /\ point = <<>> /\ Read
      /\ point' = IF IsHeader(got') THEN <<got'>> ELSE <<>>
      /\ tx' = tx /\ pc' = pc /\ call' = call /\ direct' = direct
  BY DEF WaitForHeader, Calling
<1>2. /\ got' \in Bytes /\ rx' = {} /\ leftover' = FALSE /\ raced' \in BOOLEAN
      /\ packet' \in [kind : {"press", "release"}, id : Ids] /\ sent' \in 1 .. 5
      /\ old' \subseteq Ids /\ commands' = commands /\ finger' = finger
      /\ sent' < 5 => packet'.id \notin old'
      /\ ~leftover => packet' = packet /\ sent' = sent /\ got' \in rx
      /\ IsHeader(got') => /\ got' = Byte(pc, packet'.id, 0) /\ packet'.kind = pc
                           /\ packet'.id \notin old'
                           /\ ~raced' => sent' = 1
  BY <1>1, ReadHeader
<1>3. /\ <<>> \in Seq(Bytes) /\ Len(<<>>) = 0
      /\ <<got'>> \in Seq(Bytes) /\ Len(<<got'>>) = 1 /\ <<got'>>[1] = got' /\ <<got'>> # <<>>
  BY <1>2
<1>4. point' \in Seq(Bytes) /\ Len(point') < 5
  BY <1>1, <1>3
<1>5. TypeOK'
  BY <1>1, <1>2, <1>4 DEF TypeOK
<1>6. PortInv' /\ PointInv'
  BY <1>1, <1>2 DEF PortInv, PointInv, Calling
<1>7. PacketInv' /\ FreshInv'
  <2>1. CASE ~IsHeader(got')
    BY <1>1, <1>2, <2>1 DEF PacketInv, FreshInv
  <2>2. CASE IsHeader(got')
    <3>1. point' = <<got'>> /\ Len(point') = 1 /\ point'[1] = got'
      BY <1>1, <1>3, <2>2
    <3>2. got'.id = packet'.id
      BY <1>2, <2>2, ByteType
    <3>3. FreshInv'
      BY <1>1, <1>2, <2>2, <3>1, <3>2 DEF FreshInv
    <3>4. PacketInv'
      BY <1>1, <1>2, <2>2, <3>1 DEF PacketInv
    <3>5. QED BY <3>3, <3>4
  <2>3. QED BY <2>1, <2>2
<1>8. ReleaseNotMissed'
  <2>1. SUFFICES ASSUME pc = "release", direct, ~IsHeader(got'), ~Reported'
                 PROVE  FALSE
    BY <1>1, <1>3 DEF ReleaseNotMissed
  <2>2. ~leftover BY <2>1 DEF PointInv
  <2>3. ~Reported /\ got' \in rx BY <1>2, <2>1, <2>2 DEF Reported
  <2>4. got' = Byte("release", packet.id, 0)
    BY <1>1, <2>1, <2>3 DEF ReleaseNotMissed
  <2>5. IsHeader(got')
    BY <2>1, <2>4, ByteType DEF IsHeader
  <2>6. QED BY <2>1, <2>5
<1>9. QED BY <1>5, <1>6, <1>7, <1>8

\* A read in the middle of a packet takes the byte the controller sent last.
LEMMA CoordinateRead ==
  ASSUME TouchInv, ReadCoordinate
  PROVE  /\ Calling /\ Len(point) \in 1 .. 4 /\ point # <<>> /\ ~leftover
         /\ got' = Last /\ got' \in Bytes /\ rx' = {} /\ tx' = tx /\ raced' = raced
         /\ UNCHANGED deviceVars
         /\ got'.id = packet.id /\ packet.id \notin old
         /\ \A i \in 1 .. Len(point) : point[i].id \notin old
         /\ ~raced => /\ packet.kind = pc /\ sent = Len(point) + 1
                      /\ \A i \in 1 .. Len(point) : point[i] = Byte(pc, packet.id, i - 1)
<1> USE DEF TouchInv
<1>1. /\ Calling /\ Len(point) \in 1 .. 4 /\ got' \in rx /\ rx' = {}
      /\ tx' = tx /\ raced' = raced /\ UNCHANGED deviceVars
  BY DEF ReadCoordinate, Calling, Port!Take
<1>2. point # <<>>
  <2>1. Len(<<>>) = 0 BY EmptySeq
  <2>2. QED BY <1>1, <2>1
<1>3. ~leftover BY <1>2 DEF PointInv
<1>4. rx = {Last} /\ got' = Last /\ got' \in Bytes
  <2>1. rx # {Phantom} /\ rx # {} BY <1>1, <1>2 DEF FreshInv
  <2>2. rx = {Last} BY <2>1 DEF PortInv
  <2>3. QED BY <1>1, <2>2 DEF TypeOK
<1>5. got'.id = packet.id
  BY <1>4, ByteType DEF Last
<1>6. packet.id \notin old /\ \A i \in 1 .. Len(point) : point[i].id \notin old
  BY <1>1, <1>2 DEF FreshInv
<1>7. ~raced => /\ packet.kind = pc /\ sent = Len(point) + 1
                /\ \A i \in 1 .. Len(point) : point[i] = Byte(pc, packet.id, i - 1)
  BY <1>1, <1>2, <1>4 DEF PacketInv
<1>8. QED BY <1>1, <1>2, <1>3, <1>4, <1>5, <1>6, <1>7

\* The four bytes that follow a header, and the return of the call.
LEMMA CoordinateStep == TouchInv /\ ReadCoordinate => TouchInv'
<1> SUFFICES ASSUME TouchInv, ReadCoordinate PROVE TouchInv'
  OBVIOUS
<1> USE DEF TouchInv
<1>1. /\ Calling /\ Len(point) \in 1 .. 4 /\ point # <<>> /\ ~leftover
      /\ got' = Last /\ got' \in Bytes /\ rx' = {} /\ tx' = tx /\ raced' = raced
      /\ UNCHANGED deviceVars
      /\ got'.id = packet.id /\ packet.id \notin old
      /\ \A i \in 1 .. Len(point) : point[i].id \notin old
      /\ ~raced => /\ packet.kind = pc /\ sent = Len(point) + 1
                   /\ \A i \in 1 .. Len(point) : point[i] = Byte(pc, packet.id, i - 1)
  BY CoordinateRead
<1>2. packet' = packet /\ sent' = sent /\ commands' = commands /\ finger' = finger
  BY <1>1 DEF deviceVars
<1>3. PortInv' BY <1>1 DEF PortInv
<1>4. CASE Len(point) = 4
  <2>1. Return /\ call' = pc /\ point' = <<>>
    BY <1>4 DEF ReadCoordinate, Return
  <2>2. point' \in Seq(Bytes) /\ Len(point') < 5
    <3>1. <<>> \in Seq(Bytes) /\ Len(<<>>) = 0 BY EmptySeq
    <3>2. QED BY <2>1, <3>1
  <2>3. CASE pc' = "away" /\ direct' = FALSE /\ UNCHANGED <<leftover, old>>
    <3>1. TypeOK' BY <1>1, <1>2, <2>1, <2>2, <2>3 DEF TypeOK, Calling
    <3>2. QED BY <1>1, <1>3, <2>1, <2>3, <3>1 DEF PointInv, PacketInv, FreshInv,
               ReleaseNotMissed, Calling
  <2>4. ASSUME pc = "press", NEW name \in {"press", "release"}, Begin(name)
        PROVE  TouchInv'
    <3>1. /\ pc' = name /\ direct' \in BOOLEAN /\ leftover' \in BOOLEAN /\ old' \subseteq Ids
          /\ FreshInv' /\ ~(leftover' /\ direct')
          /\ direct' => pc # "away" /\ ~raced
      BY <1>2, <2>1, <2>4, BeginFresh
    <3>2. TypeOK' BY <1>1, <1>2, <2>1, <2>2, <3>1 DEF TypeOK, Calling
    <3>3. PointInv' /\ PacketInv'
      BY <2>1, <3>1 DEF PointInv, PacketInv, Calling
    <3>4. ReleaseNotMissed'
      BY <1>1, <1>2, <2>4, <3>1 DEF ReleaseNotMissed, Reported
    <3>5. QED BY <1>3, <3>1, <3>2, <3>3, <3>4
  <2>5. QED BY <2>1, <2>3, <2>4 DEF Return
<1>5. CASE Len(point) # 4
  <2>1. point' = Append(point, got') /\ UNCHANGED <<pc, call, direct, leftover, old>>
    BY <1>5 DEF ReadCoordinate
  <2>2. point \in Seq(Bytes) BY PointLength
  <2>3. /\ point' \in Seq(Bytes) /\ Len(point') = Len(point) + 1 /\ point' # <<>>
        /\ \A i \in 1 .. Len(point) : point'[i] = point[i]
        /\ point'[Len(point) + 1] = got'
    BY <1>1, <2>1, <2>2, AppendProperties
  <2>4. Len(point') \in 1 .. 4 BY <1>1, <1>5, <2>3
  <2>5. TypeOK' BY <1>1, <1>2, <2>1, <2>3, <2>4 DEF TypeOK
  <2>6. PointInv' /\ ReleaseNotMissed'
    BY <1>1, <2>1, <2>3 DEF PointInv, ReleaseNotMissed, Calling
  <2>7. \A i \in 1 .. Len(point') : i \in 1 .. Len(point) \/ i = Len(point) + 1
    BY <1>1, <2>3
  <2>8. FreshInv'
    <3>1. \A i \in 1 .. Len(point') : point'[i].id \notin old
      BY <1>1, <2>3, <2>7
    <3>2. QED BY <1>1, <1>2, <2>1, <3>1 DEF FreshInv
  <2>9. PacketInv'
    <3>1. SUFFICES ASSUME ~raced PROVE PacketInv'
      BY <1>1 DEF PacketInv
    <3>2. got' = Byte(pc, packet.id, Len(point))
      BY <1>1, <3>1 DEF Last
    <3>3. \A i \in 1 .. Len(point') : point'[i] = Byte(pc, packet.id, i - 1)
      <4>1. (Len(point) + 1) - 1 = Len(point) BY <1>1
      <4>2. QED BY <1>1, <2>3, <2>7, <3>1, <3>2, <4>1
    <3>4. QED BY <1>1, <1>2, <2>1, <2>3, <3>1, <3>3 DEF PacketInv
  <2>10. QED BY <1>3, <2>5, <2>6, <2>8, <2>9
<1>6. QED BY <1>4, <1>5

LEMMA TouchStep == TouchInv /\ [Next]_vars => TouchInv'
<1>1. ASSUME TouchInv, UNCHANGED vars PROVE TouchInv'
  BY <1>1 DEF vars, portVars, deviceVars, niosVars, TouchInv, TypeOK, PortInv, PointInv, PacketInv,
     FreshInv, ReleaseNotMissed, Calling, Last, Reported
<1>2. QED
  BY <1>1, InitTouchStep, ResumeStep, HeaderStep, CoordinateStep, ArriveStep, OutsideStep
     DEF Next, Nios
-------------------------------------------------------------------------------
(* The theorems.                                                            *)

\* Whatever the pauses between calls, a call and the controller stay in step.
THEOREM TouchInvariant == Spec => []TouchInv
<1>1. QED BY InitInv, TouchStep, PTL DEF Spec

\* Port, controller and calls keep their types.
THEOREM TouchTypeCorrect == Spec => []TypeOK
<1>1. TouchInv => TypeOK BY DEF TouchInv
<1>2. QED BY <1>1, TouchInvariant, PTL

\* A GetRelease that follows its GetPress at once cannot miss the release.
THEOREM ReleaseCorrect == Spec => []ReleaseNotMissed
<1>1. TouchInv => ReleaseNotMissed BY DEF TouchInv
<1>2. QED BY <1>1, TouchInvariant, PTL

\* A call returns in one step only, the read of the fifth byte.
LEMMA ReturnsInRead == TouchInv /\ [Next]_vars /\ Returns => ReadCoordinate
<1> SUFFICES ASSUME TouchInv, [Next]_vars, Returns PROVE ReadCoordinate
  OBVIOUS
<1>1. Len(<<>>) = 0 BY EmptySeq
<1>2. point # <<>> /\ point' # point /\ pc \in {"press", "release"}
  BY <1>1 DEF Returns
<1>3. ~UNCHANGED vars BY <1>2 DEF vars, niosVars
<1>4. ~Arrive /\ ~Deliver /\ ~Finger
  BY <1>2 DEF Arrive, Deliver, Finger, niosVars
<1>5. ~MasterReset /\ ~WriteEnable /\ ~Resume /\ ~WaitForHeader
  BY <1>2 DEF MasterReset, WriteEnable, Resume, WaitForHeader
<1>6. QED BY <1>3, <1>4, <1>5 DEF Next, Nios

LEMMA FiveBytes ==
  ASSUME NEW S, NEW f \in [1 .. 5 -> S] PROVE f \in Seq(S) /\ Len(f) = 5
<1>1. f = [i \in 1 .. 5 |-> f[i]] /\ \A i \in 1 .. 5 : f[i] \in S OBVIOUS
<1>2. DOMAIN f = 1 .. 5 OBVIOUS
<1>3. f \in Seq(S) BY <1>1
<1>4. QED BY <1>2, <1>3, LenProperties

\* The bytes of an answer.
LEMMA AnswerBytes ==
  ASSUME TouchInv, ReadCoordinate, Len(point) = 4
  PROVE  /\ Answer \in Seq(Bytes) /\ Len(Answer) = 5
         /\ \A i \in 1 .. 4 : Answer[i] = point[i]
         /\ Answer[5] = got'
<1>1. got' \in Bytes BY CoordinateRead
<1>2. point \in Seq(Bytes) BY PointLength DEF TouchInv
<1> DEFINE n == Len(point)
<1>3. /\ Answer \in Seq(Bytes) /\ Len(Answer) = n + 1
      /\ \A i \in 1 .. n : Answer[i] = point[i]
      /\ Answer[n + 1] = got'
  <2>1. \A s \in Seq(Bytes), e \in Bytes :
          /\ Append(s, e) \in Seq(Bytes) /\ Len(Append(s, e)) = Len(s) + 1
          /\ \A i \in 1 .. Len(s) : Append(s, e)[i] = s[i]
          /\ Append(s, e)[Len(s) + 1] = e
    BY AppendProperties
  <2>2. QED BY <1>1, <1>2, <2>1, Zenon DEF Answer
<1>4. n = 4 OBVIOUS
<1>5. n + 1 = 5 BY <1>4
<1> HIDE DEF n
<1>6. Answer \in Seq(Bytes) /\ Len(Answer) = 5 BY ONLY <1>3, <1>5
<1>7. \A i \in 1 .. 4 : Answer[i] = point[i] BY ONLY <1>3, <1>4
<1>8. Answer[5] = got' BY ONLY <1>3, <1>5
<1>9. QED BY <1>6, <1>7, <1>8

\* A call returns the bytes of one report of its kind, in order, unless one was
\* lost in the clocks in which the header was read.
THEOREM OnePacketCorrect == Spec => AnswerIsOnePacket
<1>1. ASSUME TouchInv, [Next]_vars, Returns, ~raced
      PROVE  \E id \in Ids : Answer = Packet(pc, id)
  <2>1. ReadCoordinate /\ Len(point) = 4
    BY <1>1, ReturnsInRead DEF Returns
  <2>2. /\ Calling /\ packet.kind = pc /\ sent = 5 /\ got' = Last
        /\ \A i \in 1 .. 4 : point[i] = Byte(pc, packet.id, i - 1)
    BY <1>1, <2>1, CoordinateRead
  <2>3. /\ Answer \in Seq(Bytes) /\ Len(Answer) = 5
        /\ \A i \in 1 .. 5 : Answer[i] = Byte(pc, packet.id, i - 1)
    <3>1. got' = Byte(pc, packet.id, 5 - 1) BY <2>2 DEF Last
    <3>2. \A i \in 1 .. 5 : i \in 1 .. 4 \/ i = 5 OBVIOUS
    <3>3. /\ Answer \in Seq(Bytes) /\ Len(Answer) = 5
          /\ \A i \in 1 .. 4 : Answer[i] = point[i]
          /\ Answer[5] = got'
      BY <1>1, <2>1, AnswerBytes
    <3>4. ASSUME NEW i \in 1 .. 5 PROVE Answer[i] = Byte(pc, packet.id, i - 1)
      <4>1. CASE i \in 1 .. 4 BY <2>2, <3>3, <4>1
      <4>2. CASE i = 5 BY <3>1, <3>3, <4>2
      <4>3. QED BY <3>2, <4>1, <4>2
    <3>5. QED BY <3>3, <3>4
  <2>4. packet.id \in Ids BY <1>1 DEF TouchInv, TypeOK
  <2>5. Packet(pc, packet.id) \in Seq(Bytes) /\ Len(Packet(pc, packet.id)) = 5
    <3>1. \A i \in 1 .. 5 : Byte(pc, packet.id, i - 1) \in Bytes
      BY <2>2, <2>4, ByteType DEF Calling
    <3>2. Packet(pc, packet.id) \in [1 .. 5 -> Bytes] BY <3>1 DEF Packet
    <3>3. QED BY <3>2, FiveBytes
  <2>6. \A i \in 1 .. 5 : Packet(pc, packet.id)[i] = Byte(pc, packet.id, i - 1)
    BY DEF Packet
  <2>7. Answer = Packet(pc, packet.id)
    BY <2>3, <2>5, <2>6, SeqEqual
  <2>8. QED BY <2>4, <2>7
<1>2. TouchInv /\ [Next]_vars =>
        [Returns /\ ~raced => \E id \in Ids : Answer = Packet(pc, id)]_vars
  BY <1>1
<1>3. QED BY <1>2, TouchInvariant, PTL DEF Spec, AnswerIsOnePacket

\* Nothing of a packet complete before the call is taken for an answer.
THEOREM FreshCorrect == Spec => AnswerIsFresh
<1>1. ASSUME TouchInv, [Next]_vars, Returns
      PROVE  \A i \in 1 .. 5 : Answer[i].id \notin old
  <2>1. ReadCoordinate /\ Len(point) = 4
    BY <1>1, ReturnsInRead DEF Returns
  <2>2. /\ got'.id = packet.id /\ packet.id \notin old
        /\ \A i \in 1 .. 4 : point[i].id \notin old
    BY <1>1, <2>1, CoordinateRead
  <2>3. \A i \in 1 .. 5 : i \in 1 .. 4 \/ i = 5 OBVIOUS
  <2>4. (\A i \in 1 .. 4 : Answer[i] = point[i]) /\ Answer[5] = got'
    BY <1>1, <2>1, AnswerBytes
  <2>5. ASSUME NEW i \in 1 .. 5 PROVE Answer[i].id \notin old
    <3>1. CASE i \in 1 .. 4 BY <2>2, <2>4, <3>1
    <3>2. CASE i = 5 BY <2>2, <2>4, <3>2
    <3>3. QED BY <2>3, <3>1, <3>2
  <2>6. QED BY <2>5
<1>2. TouchInv /\ [Next]_vars => [Returns => \A i \in 1 .. 5 : Answer[i].id \notin old]_vars
  BY <1>1
<1>3. QED BY <1>2, TouchInvariant, PTL DEF Spec, AnswerIsFresh
===============================================================================
