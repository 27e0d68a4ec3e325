------------------------------- MODULE Bluetooth -------------------------------
(***************************************************************************)
(* The download of a path: processBT of bluetooth.c over a serial port     *)
(* (SerialBuffer, which SerialPort implements) whose other end is a phone. *)
(*                                                                         *)
(* A request is one byte here: it takes NIOS seconds to write one, with    *)
(* 100 ms between two characters, in which what arrives is not read.  The  *)
(* character NIOS looks at follows the last one written at once, before    *)
(* the phone can answer it.  While NIOS polls it takes each byte before    *)
(* the next arrives.  A path is the characters between '#' and '?', of any *)
(* number: what the buffer has no room for is nowhere checked.             *)
(***************************************************************************)
EXTENDS Integers, Sequences

CONSTANTS
    N,                         \* the paths that are told apart: ids go round
    Length,                    \* the number of characters of each
    MAX_N_POINTS, PointChars   \* the points of a set, the characters expected of each

\* Nothing makes the phone keep to the sizes the buffer is computed from.
ASSUME BluetoothAssumption ==
    /\ N \in Nat \ {0} /\ MAX_N_POINTS \in Nat \ {0} /\ PointChars \in Nat \ {0}
    /\ Length \in [0 .. N - 1 -> Nat]

VARIABLES
    rx, got, tx,   \* the port
    pc,            \* where processBT is; "away": it is not called
    buf,           \* the characters received
    path, sent,    \* the path the phone offers, and the characters of its
                   \* message that it has sent, 0 when it sends none
    asked,         \* the phone is to send the path
    fault          \* whether the phone broke off a message that NIOS waited for

portVars  == <<rx, got, tx>>
phoneVars == <<path, sent, asked>>
vars      == <<portVars, pc, buf, phoneVars, fault>>

Ids == 0 .. N - 1
Char(id, i) == [sym |-> "c", id |-> id, pos |-> i]
Sign(s)     == [sym |-> s, id |-> 0, pos |-> 0]
Request     == Sign("request")
Phantom     == Sign("none")
Signs       == {Sign(s) : s \in {"#", "?", "=", "request", "none"}}
Bytes == Signs \cup UNION {{Char(id, i) : i \in 1 .. Length[id]} : id \in Ids}

Path(id) == [i \in 1 .. Length[id] |-> Char(id, i)]
Message(id) == <<Sign("#")>> \o Path(id) \o <<Sign("?")>>

Port == INSTANCE SerialBuffer
-------------------------------------------------------------------------------
(* The phone.                                                               *)

\* It answers a request with a message, and sends one after the other.
Sends(b) ==
    /\ sent > 0 \/ asked
    /\ b = Message(path)[sent + 1]
    /\ sent' = IF sent + 1 = Len(Message(path)) THEN 0 ELSE sent + 1
    /\ asked' = (asked /\ sent > 0)
    /\ UNCHANGED path

Polling == pc \in {"await", "receive"}

Arrive == /\ ~Polling \/ rx = {}
          /\ \E b \in Bytes : Sends(b) /\ Port!Receive(b)
          /\ UNCHANGED <<tx, pc, buf, fault>>

\* A request reaches the phone, or the sign that it may strike the path off.
Deliver ==
    /\ Port!Sent /\ UNCHANGED <<rx, got, pc, buf, fault>>
    /\ \/ tx = {Request} /\ asked' = TRUE /\ UNCHANGED <<path, sent>>
       \/ tx = {Sign("=")} /\ asked' = FALSE /\ sent' = 0 /\ path' = (path + 1) % N

\* The user of the phone sends the path unasked.
SendAgain == ~asked /\ asked' = TRUE /\ UNCHANGED <<portVars, pc, buf, path, sent, fault>>

\* NIOS has, or is about to take, the first byte of the message.
Begun == \/ pc = "receive"
         \/ pc = "await" /\ rx = {Sign("#")}

\* The connection breaks: what the phone was to send is lost.
Break == /\ sent > 0 \/ asked
         /\ sent' = 0 /\ asked' = FALSE
         /\ fault' = IF fault = "cut" \/ (sent > 0 /\ Begun) THEN "cut"
                     ELSE IF pc = "await" THEN "silent" ELSE fault
         /\ UNCHANGED <<portVars, pc, buf, path>>
-------------------------------------------------------------------------------
(* processBT.                                                               *)

Start == /\ pc = "away" /\ pc' = "request" /\ fault' = "none"
         /\ UNCHANGED <<portVars, buf, phoneVars>>

\* getchar_btport after a request: no byte, the byte waiting, or, when the next
\* arrives in the clocks of the read, either of the two.
LookOnce == \/ rx = {} /\ UNCHANGED <<rx, got, phoneVars>>
            \/ Port!Take /\ UNCHANGED phoneVars
            \/ \E b \in Bytes : Sends(b) /\ (Port!TakeNew(b) \/ Port!Take)

IsSignHashOnly(b) == b = Sign("#")
IsSign(b) == b \in {Sign("#"), Sign("?")}

\* The first loop: ask until a sign of the phone is seen.
Ask ==
    /\ pc = "request" /\ Port!Put(Request) /\ LookOnce
    /\ pc' = IF rx # {} /\ IsSign(got') THEN "await" ELSE "request"
    /\ UNCHANGED <<buf, fault>>

\* The second loop: the message that counts begins with the next '#'.
AwaitPathAny ==
    /\ pc = "await" /\ Port!Take
    /\ pc' = "receive" /\ buf' = <<>>
    /\ UNCHANGED <<tx, phoneVars, fault>>
AwaitPath ==
    /\ pc = "await" /\ Port!Take
    /\ IF got' = Sign("#") THEN pc' = "receive" /\ buf' = <<>> ELSE UNCHANGED <<pc, buf>>
    /\ UNCHANGED <<tx, phoneVars, fault>>

\* The length of the buffer.
number_of_chars == PointChars * MAX_N_POINTS + 1

\* The string ends with a '?', or when the buffer is full: the terminator is then
\* written behind it.  (A byte 0 would end it too; the phone sends none.)
receive_string_unbounded ==
    /\ pc = "receive" /\ Port!Take
    /\ IF got' = Sign("?") THEN pc' = "reply" /\ UNCHANGED buf
       ELSE buf' = Append(buf, got') /\ UNCHANGED pc
    /\ UNCHANGED <<tx, phoneVars, fault>>
receive_string ==
    /\ pc = "receive" /\ Port!Take
    /\ IF got' = Sign("?") THEN pc' = "reply" /\ UNCHANGED buf
       ELSE /\ buf' = Append(buf, got')
            /\ pc' = IF Len(buf') = number_of_chars THEN "reply" ELSE pc
    /\ UNCHANGED <<tx, phoneVars, fault>>

Acknowledge == /\ pc = "reply" /\ Port!Put(Sign("=")) /\ pc' = "store"
               /\ UNCHANGED <<rx, got, buf, phoneVars, fault>>

\* The path goes into the ring and to the card (DataSets, SdCard).
Store == pc = "store" /\ pc' = "away" /\ UNCHANGED <<portVars, buf, phoneVars, fault>>
-------------------------------------------------------------------------------
Init == /\ Port!Init
        /\ pc = "away" /\ buf = <<>> /\ fault = "none"
        /\ path = 0 /\ sent = 0 /\ asked = FALSE

processBT == Ask \/ AwaitPath \/ receive_string \/ Acknowledge \/ Store
Next == Start \/ processBT \/ Arrive \/ Deliver \/ SendAgain \/ Break
Spec == Init /\ [][Next]_vars

\* NIOS runs, the port sends, and the phone sends what it is to send.
FairSpec == Spec /\ WF_vars(processBT) /\ WF_vars(Deliver) /\ WF_vars(Arrive)
-------------------------------------------------------------------------------
(* Properties.                                                              *)

TypeOK ==
    /\ rx \subseteq Bytes /\ got \in Bytes /\ tx \subseteq {Request, Sign("=")}
    /\ pc \in {"away", "request", "await", "receive", "reply", "store"}
    /\ buf \in Seq(Bytes) /\ Len(buf) <= number_of_chars
    /\ path \in Ids /\ sent \in 0 .. Length[path] + 1
    /\ asked \in BOOLEAN /\ fault \in {"none", "silent", "cut"}

\* What the buffer has room for of a path: all of it, or its first characters.
RoomFor(id) == IF Length[id] <= number_of_chars THEN Path(id)
               ELSE SubSeq(Path(id), 1, number_of_chars)

\* The phone is told to strike off a path only when NIOS has all of it that the
\* buffer can hold, nothing else, and it is the path the phone will strike off: no
\* path is lost, stored twice or mixed with another, however the bytes of earlier
\* messages, or of a broken one, were lost while NIOS wrote requests.  Only a message
\* broken off while it is received (fault = "cut") is joined to the next.
AckedIsReceived == [][Acknowledge => buf = RoomFor(path) \/ fault = "cut"]_vars

\* "Receives a string from the bluetooth dongle into the given buffer"
\* (bluetooth.c:46): so there is room in it for the terminator that receive_string
\* writes after the last character.  There is not when the loop ended because the
\* buffer was full (bluetooth.c:63): after two messages joined by a broken
\* connection, or a path of number_of_chars characters or more.
TerminatorFits == pc \in {"reply", "store"} => Len(buf) < number_of_chars

\* A download ends, although the look that ends the requests eats a sign of the
\* answer and another answer must follow: with a phone that answers each request
\* once, before NIOS has written the next, and a connection that does not break
\* when NIOS has stopped asking.
PromptPhone == <>[][Ask => ~asked /\ sent = 0]_vars
DownloadEnds ==
    PromptPhone /\ <>[][~Break]_vars => (pc = "request" ~> pc = "away" \/ fault # "none")
===============================================================================
