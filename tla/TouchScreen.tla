------------------------------ MODULE TouchScreen ------------------------------
(***************************************************************************)
(* The touch screen: Init_Touch, GetPress and GetRelease of touchScreen.c, *)
(* called in the order main.c and sub_menus.c call them, over a serial     *)
(* port (SerialBuffer, which SerialPort implements) whose other end is the *)
(* touch controller.                                                       *)
(*                                                                         *)
(* A byte is known by where it comes from: the part of a packet, whose     *)
(* part 0 is the header 0x81 or 0x80 and parts 1 to 4 are the coordinates. *)
(* NIOS polls hundreds of times per byte, so while it polls it takes each  *)
(* byte before the next arrives, except the one it comes back to after     *)
(* drawing or a download.                                                  *)
(***************************************************************************)
EXTENDS Integers, Sequences

CONSTANT N   \* the packets that are told apart: ids go round

ASSUME TouchAssumption == N \in Nat \ {0}

VARIABLES
    rx, got, tx,  \* the port
    pc,           \* "reset", "init": Init_Touch; "press": GetPress;
                  \* "release": GetRelease; "away": anything but the touch screen
    call,         \* the call that returned last
    point,        \* the bytes of a packet that the call has read
    commands,     \* what the controller has received
    finger,       \* the user touches the screen
    packet, sent, \* the packet the controller sends, and how much of it is sent
    leftover,     \* the byte waiting was there when NIOS came back
    raced,        \* a byte was lost in the clocks in which the header was read
    direct,       \* the call followed at once one that lost no byte
    old           \* the packets complete when the call began

portVars   == <<rx, got, tx>>
deviceVars == <<commands, finger, packet, sent>>
niosVars   == <<pc, call, point, leftover, raced, direct>>
vars       == <<portVars, deviceVars, niosVars, old>>

Ids == 0 .. N - 1
Byte(kind, id, part) == [kind |-> kind, id |-> id, part |-> part]
Enable  == [i \in 1 .. 3 |-> Byte("command", 0, i)]   \* 0x55, 0x01, 0x12
Phantom == Byte("none", 0, 0)
Bytes == [kind : {"press", "release"}, id : Ids, part : 0 .. 4]
         \cup {Enable[i] : i \in 1 .. 3} \cup {Phantom}
Packet(kind, id) == [i \in 1 .. 5 |-> Byte(kind, id, i - 1)]

Port == INSTANCE SerialBuffer
-------------------------------------------------------------------------------
(* The controller and the user.                                             *)

\* Once enabled the controller reports every change of the finger and, as
\* often as it likes, a finger that stays down.
Reported == packet.kind = "press"
NewPacket == /\ commands = Enable /\ sent = 5 /\ (finger \/ Reported)
             /\ packet' = [kind |-> IF finger THEN "press" ELSE "release",
                           id |-> (packet.id + 1) % N]
             /\ sent' = 1
SamePacket == sent < 5 /\ sent' = sent + 1 /\ UNCHANGED packet

Sends(b) == /\ NewPacket \/ SamePacket
            /\ b = Byte(packet'.kind, packet'.id, sent' - 1)
            /\ UNCHANGED <<commands, finger>>
            /\ old' = IF sent = 5 THEN old \ {packet'.id} ELSE old

\* A byte arrives: at any time while NIOS is away, else once the last is taken.
Arrive == /\ pc = "away" \/ rx = {} \/ leftover
          /\ \E b \in Bytes : Sends(b) /\ Port!Receive(b)
          /\ leftover' = FALSE
          /\ UNCHANGED <<tx, pc, call, point, raced, direct>>

\* The port has sent a byte NIOS wrote.
Deliver == /\ Port!Sent /\ \E b \in tx : commands' = Append(commands, b)
           /\ UNCHANGED <<rx, got, finger, packet, sent, niosVars, old>>

\* The user presses or lifts, not faster than an enabled controller reports it.
Finger == /\ finger = Reported \/ commands # Enable
          /\ finger' = ~finger
          /\ UNCHANGED <<portVars, commands, packet, sent, niosVars, old>>
-------------------------------------------------------------------------------
(* Init_Touch.                                                              *)

MasterReset == /\ pc = "reset" /\ pc' = "init" /\ Port!Reset
               /\ UNCHANGED <<deviceVars, call, point, leftover, raced, direct, old>>

\* point stands for the loop counter i: the commands written so far.
WriteEnableUnpolled ==
    /\ pc = "init" /\ tx' = {Enable[Len(point) + 1]}
    /\ IF Len(point) = 2 THEN pc' = "away" /\ point' = <<>>
                         ELSE UNCHANGED pc /\ point' = Append(point, Enable[Len(point) + 1])
    /\ UNCHANGED <<rx, got, deviceVars, call, leftover, raced, direct, old>>
WriteEnable ==
    /\ pc = "init" /\ Port!Put(Enable[Len(point) + 1])
    /\ IF Len(point) = 2 THEN pc' = "away" /\ point' = <<>>
                         ELSE UNCHANGED pc /\ point' = Append(point, Enable[Len(point) + 1])
    /\ UNCHANGED <<rx, got, deviceVars, call, leftover, raced, direct, old>>
-------------------------------------------------------------------------------
(* GetPress and GetRelease.                                                 *)

\* A call begins, after a pause or at once.
Begin(name) == /\ pc' = name
               /\ direct' = (pc # "away" /\ ~raced) /\ leftover' = (rx # {} /\ pc = "away")
               /\ old' = Ids \ (IF sent < 5 THEN {packet.id} ELSE {})

\* After a press comes a release, at once or after drawing, except that a menu
\* asks for another press when its own button was touched; after a release the
\* screen is drawn, and a press comes next.
Resume == /\ pc = "away"
          /\ Begin(IF call = "press" THEN "release" ELSE "press")
          /\ UNCHANGED <<portVars, deviceVars, call, point, raced>>

Return == /\ call' = pc /\ point' = <<>>
          /\ \/ pc' = "away" /\ direct' = FALSE /\ UNCHANGED <<leftover, old>>
             \/ pc = "press" /\ (Begin("press") \/ Begin("release"))

\* A read after a poll that showed a byte.  When NIOS is late the next byte may
\* arrive in the clocks of the read: it is read instead, or it is lost.
Read == /\ leftover' = FALSE
        /\ \/ Port!Take /\ UNCHANGED <<deviceVars, old>> /\ raced' = FALSE
           \/ /\ leftover
              /\ \E b \in Bytes : /\ Sends(b)
                                 /\ \/ Port!TakeNew(b) /\ raced' = FALSE
                                    \/ Port!Take       /\ raced' = TRUE

\* WaitForTouch of GetPress, the first loop of GetRelease: what is not the
\* header waited for is dropped.
IsHeaderOfAnyKind(b) == b.part = 0
IsAnyPart(b) == b.kind = pc
IsHeader(b) == b.part = 0 /\ b.kind = pc
WaitForHeader ==
    /\ pc \in {"press", "release"} /\ point = <<>>
    /\ Read
    /\ point' = IF IsHeader(got') THEN <<got'>> ELSE <<>>
    /\ UNCHANGED <<tx, pc, call, direct>>

\* The four bytes that follow are the coordinates, whatever they are.
ReadFifthByte ==
    /\ pc \in {"press", "release"} /\ Len(point) \in 1 .. 5
    /\ Port!Take
    /\ IF Len(point) = 5 THEN Return
       ELSE point' = Append(point, got') /\ UNCHANGED <<pc, call, direct, leftover, old>>
    /\ UNCHANGED <<tx, deviceVars, raced>>
ReadCoordinate ==
    /\ pc \in {"press", "release"} /\ Len(point) \in 1 .. 4
    /\ Port!Take
    /\ IF Len(point) = 4 THEN Return
       ELSE point' = Append(point, got') /\ UNCHANGED <<pc, call, direct, leftover, old>>
    /\ UNCHANGED <<tx, deviceVars, raced>>
-------------------------------------------------------------------------------
Init == /\ Port!Init
        /\ pc = "reset" /\ call = "release" /\ point = <<>> /\ commands = <<>>
        /\ finger = FALSE /\ packet = [kind |-> "release", id |-> 0] /\ sent = 5
        /\ leftover = FALSE /\ raced = FALSE /\ direct = FALSE /\ old = {}

Nios == MasterReset \/ WriteEnable \/ Resume \/ WaitForHeader \/ ReadCoordinate
Next == Nios \/ Arrive \/ Deliver \/ Finger
Spec == Init /\ [][Next]_vars

\* NIOS runs, the port sends, the controller completes what it must report, and
\* the user goes on touching the screen.
FairSpec == /\ Spec
            /\ WF_vars(Nios) /\ WF_vars(Deliver) /\ WF_vars(Finger)
            /\ WF_vars(Arrive)
-------------------------------------------------------------------------------
(* Properties.                                                              *)

TypeOK ==
    /\ rx \subseteq Bytes /\ got \in Bytes /\ tx \subseteq {Enable[i] : i \in 1 .. 3}
    /\ pc \in {"reset", "init", "press", "release", "away"} /\ call \in {"press", "release"}
    /\ point \in Seq(Bytes) /\ Len(point) < 5
    /\ commands \in Seq(Bytes) /\ finger \in BOOLEAN
    /\ packet \in [kind : {"press", "release"}, id : Ids] /\ sent \in 1 .. 5
    /\ {leftover, raced, direct} \subseteq BOOLEAN /\ old \subseteq Ids

\* The bytes a call ends with, in the step in which it returns.
Returns == pc \in {"press", "release"} /\ Len(point) = 4 /\ point' = <<>>
Answer  == Append(point, got')

\* A call returns the coordinates of one report of the kind it waits for: its
\* bytes are those of one packet, in order, unless one was lost in the clocks in
\* which NIOS, back from drawing, read the header.
AnswerIsOnePacket ==
    [][Returns /\ ~raced => \E id \in Ids : Answer = Packet(pc, id)]_vars

\* And it answers what the user does now: nothing of a packet complete before
\* the call is ever taken for an answer, whatever happened while NIOS was away.
AnswerIsFresh ==
    [][Returns => \A i \in 1 .. 5 : Answer[i].id \notin old]_vars

\* A GetRelease that follows its GetPress at once cannot miss the release: until
\* it has read it, the controller has not reported it or the port holds it.
ReleaseNotMissed ==
    pc = "release" /\ direct /\ point = <<>> /\ ~Reported
        => rx = {Byte("release", packet.id, 0)} /\ sent = 1

\* No call waits for ever while the user goes on touching the screen, and the
\* controller is enabled to begin with.
CallsReturn == /\ \A name \in {"press", "release"} :
                     pc = name /\ point = <<>> ~> pc = name /\ Len(point) = 4
               /\ Len(point) = 4 ~> point = <<>>
===============================================================================
