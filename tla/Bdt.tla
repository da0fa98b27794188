-------------------------------- MODULE Bdt --------------------------------
(***************************************************************************)
(* Binary data transmission over the serial line (core/bdt.c, build option *)
(* BINARY_DATA_TRANSMISSION): data is collected in a buffer and sent in     *)
(* packages with a sequence number and a check sum; a package is repeated   *)
(* until its acknowledgement, three bytes, has been read.  The line loses   *)
(* packages and single bytes of acknowledgements.  The receiver is another  *)
(* program: it drops what fails the check sum, takes the package it expects *)
(* and acknowledges whatever it has taken.                                  *)
(***************************************************************************)
EXTENDS Integers, Sequences, FiniteSets, SequencesExt

CONSTANTS
    Bytes,          \* what can be sent
    Program,        \* the calls of the sender: a sequence of records
    MAX_LEN,        \* bytes of a package of a chunk's head
    SendMax,        \* bytes of a package of data (1111 in bdtSend)
    FirstSeq,       \* packages this transmission has sent before Program; bdtStart: 0
    MaxLine, MaxAcks, MaxLosses     \* bounds

Calls == [op : {"start", "stop"}] \cup [op : {"chunk"}, id : Seq(Bytes), compressed : BOOLEAN]
         \cup [op : {"send"}, data : Seq(Bytes)]

\* A transmission is started once, and the head of a chunk leaves a package of
\* data its room (16 bytes, 1111 and 2048 in the code, where a longer head
\* would make the room of bdtAddToBuffer wrap around).
ASSUME BdtAssumption ==
    /\ {MAX_LEN, SendMax, FirstSeq, MaxLine, MaxAcks, MaxLosses} \subseteq Nat
    /\ 0 < SendMax /\ SendMax <= MAX_LEN /\ MaxLine > 0 /\ MaxAcks >= 3
    /\ {"start", "stop", "head"} \subseteq Bytes
    /\ Program \in Seq(Calls) /\ Program # << >>
    /\ \A i \in DOMAIN Program :
         /\ Program[i].op = "start" => i = 1 /\ FirstSeq = 0
         /\ Program[i].op = "chunk" => 1 + Len(Program[i].id) <= SendMax

VARIABLES
    call,           \* index of the running call of Program
    todo,           \* what that call has still to do
    buf,            \* bdtOutBuf
    bdtSeqNum,
    package,        \* the package bdtSendBuffer repeats, or NoPackage
    line,           \* packages on their way
    acks,           \* bytes on their way back
    ackBuf, ackPos, \* bdtAckBuf and pos
    received, expected, losses, sent

bdtVars == <<call, todo, buf, bdtSeqNum, package, line, acks, ackBuf, ackPos, received, expected, losses, sent>>

Complement(n) == 255 - n
NoPackage == [seq |-> -1, data |-> << >>, plain |-> TRUE]

bdtBufferInit(plain) == [data |-> << >>, plain |-> plain]

(***************************************************************************)
(* A call is a sequence of steps: flush the buffer, start a new one, add    *)
(* bytes to it.                                                            *)
(***************************************************************************)

Flush == [op |-> "flush"]
New(plain) == [op |-> "new", plain |-> plain]
Add(bytes, max) == [op |-> "add", bytes |-> bytes, max |-> max]

bdtStart == <<New(TRUE), Add(<<"start">>, MAX_LEN), Flush>>
bdtStop == <<Flush, New(TRUE), Add(<<"stop">>, MAX_LEN), Flush>>
bdtStartChunk(id, compressed) ==
    <<Flush, New(TRUE), Add(<<"head">>, MAX_LEN), Add(id, MAX_LEN)>>
    \o IF compressed THEN <<Flush, New(FALSE)>> ELSE << >>
bdtSend(data) == <<Add(data, SendMax)>>

StepsOf(c) ==
    CASE c.op = "start" -> bdtStart
      [] c.op = "stop" -> bdtStop
      [] c.op = "chunk" -> bdtStartChunk(c.id, c.compressed)
      [] c.op = "send" -> bdtSend(c.data)

\* What the calls are to bring to the other side.
PayloadOf(c) == FlattenSeq([i \in DOMAIN StepsOf(c) |-> IF StepsOf(c)[i].op = "add" THEN StepsOf(c)[i].bytes ELSE << >>])

BdtInit ==
    /\ call = 1 /\ todo = StepsOf(Program[1]) /\ buf = bdtBufferInit(TRUE)
    /\ bdtSeqNum = FirstSeq /\ package = NoPackage
    /\ line = << >> /\ acks = << >> /\ ackBuf = <<0, 0, 0>> /\ ackPos = 0
    /\ received = << >> /\ expected = FirstSeq /\ losses = 0
    /\ sent = << >>

Sending == package # NoPackage
Unchanged == UNCHANGED <<line, acks, ackBuf, ackPos, received, expected, losses>>

\* bdtSendBuffer gives the package the next number; len and sign of the
\* length say how it is coded.
bdtSendBuffer(b) ==
    /\ package' = [seq |-> bdtSeqNum % 256, data |-> b.data, plain |-> b.plain]
    /\ bdtSeqNum' = bdtSeqNum + 1
    /\ buf' = [b EXCEPT !.data = << >>]
    /\ sent' = Append(sent, b.data)

bdtFlushBuffer ==
    /\ ~Sending /\ todo # << >> /\ Head(todo).op = "flush"
    /\ todo' = Tail(todo)
    /\ IF buf.data # << >> THEN bdtSendBuffer(buf) ELSE UNCHANGED <<package, bdtSeqNum, buf, sent>>
    /\ UNCHANGED call /\ Unchanged

NewBuffer ==
    /\ ~Sending /\ todo # << >> /\ Head(todo).op = "new"
    /\ todo' = Tail(todo) /\ buf' = bdtBufferInit(Head(todo).plain)
    /\ UNCHANGED <<call, bdtSeqNum, package, sent>> /\ Unchanged

\* One round of the loop, if there is anything to add; the rest of the bytes
\* stays to be added.
bdtAddToBuffer ==
    LET a == Head(todo)
        room == a.max - Len(buf.data)
        l == IF Len(a.bytes) < room THEN Len(a.bytes) ELSE room
        b == [buf EXCEPT !.data = @ \o SubSeq(a.bytes, 1, l)]
    IN /\ ~Sending /\ todo # << >> /\ a.op = "add"
       /\ todo' = IF l = Len(a.bytes) THEN Tail(todo)
                  ELSE <<[a EXCEPT !.bytes = SubSeq(@, l + 1, Len(@))]>> \o Tail(todo)
       /\ IF a.bytes # << >> /\ Len(b.data) = a.max THEN bdtSendBuffer(b)
          ELSE buf' = b /\ UNCHANGED <<package, bdtSeqNum, sent>>
       /\ UNCHANGED call /\ Unchanged

NextCall ==
    /\ ~Sending /\ todo = << >> /\ call < Len(Program)
    /\ call' = call + 1
    /\ todo' = StepsOf(Program[call + 1])
    /\ UNCHANGED <<buf, bdtSeqNum, package, sent>> /\ Unchanged

\* bdtSendBytes, the first time and whenever the time for the
\* acknowledgement is over.
SendPackage ==
    /\ Sending /\ Len(line) < MaxLine
    /\ line' = Append(line, package)
    /\ UNCHANGED <<call, todo, buf, bdtSeqNum, package, acks, ackBuf, ackPos, received, expected, losses, sent>>

AckMatches_NoNumber(ring, pos, num) ==
    /\ ring[(pos % 3) + 1] = 65
    /\ ring[((pos + 1) % 3) + 1] = Complement(ring[((pos + 2) % 3) + 1])
\* bdtAck reads a byte into a ring of three and looks at the ring.
AckMatches(ring, pos, num) ==
    /\ ring[(pos % 3) + 1] = 65
    /\ ring[((pos + 1) % 3) + 1] = num
    /\ ring[((pos + 2) % 3) + 1] = Complement(num)
bdtAck ==
    /\ Sending /\ acks # << >>
    /\ acks' = Tail(acks)
    /\ ackBuf' = [ackBuf EXCEPT ![ackPos + 1] = Head(acks)]
    /\ ackPos' = (ackPos + 1) % 3
    /\ package' = IF AckMatches(ackBuf', ackPos', package.seq) THEN NoPackage ELSE package
    /\ UNCHANGED <<call, todo, buf, bdtSeqNum, line, received, expected, losses, sent>>

(***************************************************************************)
(* The line and the other side                                             *)
(***************************************************************************)

Arrives ==
    /\ line # << >> /\ Len(acks) + 3 <= MaxAcks
    /\ line' = Tail(line)
    /\ IF Head(line).seq = expected % 256
       THEN received' = Append(received, Head(line).data) /\ expected' = expected + 1
       ELSE UNCHANGED <<received, expected>>
    /\ acks' = acks \o <<65, Head(line).seq, Complement(Head(line).seq)>>
    /\ UNCHANGED <<call, todo, buf, bdtSeqNum, package, ackBuf, ackPos, losses, sent>>

LosesPackage ==
    /\ line # << >> /\ losses < MaxLosses
    /\ line' = Tail(line) /\ losses' = losses + 1
    /\ UNCHANGED <<call, todo, buf, bdtSeqNum, package, acks, ackBuf, ackPos, received, expected, sent>>
LosesByte ==
    /\ losses < MaxLosses
    /\ \E i \in DOMAIN acks : acks' = RemoveAt(acks, i)
    /\ losses' = losses + 1
    /\ UNCHANGED <<call, todo, buf, bdtSeqNum, package, line, ackBuf, ackPos, received, expected, sent>>

BdtNext ==
    \/ bdtFlushBuffer \/ NewBuffer \/ bdtAddToBuffer \/ NextCall \/ SendPackage \/ bdtAck
    \/ Arrives \/ LosesPackage \/ LosesByte

BdtSpec == BdtInit /\ [][BdtNext]_bdtVars

(***************************************************************************)
(* Property                                                                *)
(***************************************************************************)

\* The calls so far, byte by byte.
GivenSoFar == FlattenSeq([i \in 1..call |-> PayloadOf(Program[i])])

\* No package after the first has had a number divisible by 128.  The three
\* bytes of an acknowledgement say its number and its complement, and those of
\* 127 are those of 128 the other way round: two repeated acknowledgements of
\* 127 that lose the right two bytes read like one of 128 (255 and 0 alike).
NoTurn == \A k \in (FirstSeq + 1)..(bdtSeqNum - 1) : k % 128 # 0

\* Every byte reaches the other side once and in order, however often the
\* line loses packages or bytes of acknowledgements: up to the number 128, a
\* package the sender has gone past has been taken; and what was sent, with
\* what the buffer still holds, is always what the calls so far have been given
\* (bdt.c 197-302).
BdtInOrder ==
    /\ NoTurn => IsPrefix(received, sent) /\ (~Sending => received = sent)
    /\ todo = << >> => FlattenSeq(sent) \o buf.data = GivenSoFar
=============================================================================
