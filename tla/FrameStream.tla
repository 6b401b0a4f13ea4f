----------------------------- MODULE FrameStream -----------------------------
(***************************************************************************)
(* Frames over a byte stream: a client sends frames back to back, TCP cuts *)
(* the bytes anywhere, and Server::HandleClient puts each piece it receives*)
(* behind the rest of the last one and takes frames out of it              *)
(* (Frame::ReadStream) until there is none.  Each pass through the loop of *)
(* ReadStream is a step.                                                   *)
(*                                                                         *)
(* The code only ever erases bytes from the front of the buffer, so that   *)
(* the buffer is always one stretch of the stream, from byte low + 1 to    *)
(* byte high.  What the bytes are matters only where a frame begins: the   *)
(* magic number is taken to occur nowhere else.  The length in a header is *)
(* what the client wrote there, and need not be that of the frame.         *)
(***************************************************************************)
EXTENDS Integers, Sequences, FiniteSets

CONSTANTS MagicSize,      \* 4 bytes in the code
          HeaderSize,     \* sizeof(Header): 36 bytes in the code
          MaxFrameSize,   \* MAX_FRAME_SIZE: 1024 bytes in the code
          MaxReceive,     \* BUFFER_SIZE: 4096 bytes in the code
          FrameSizes,     \* the sizes of the frames that clients send
          Lies,           \* lengths that headers may have whatever their frame's size
          MaxFrames       \* bound: how many frames are ever sent

ASSUME FrameAssumption ==
  /\ {MagicSize, HeaderSize, MaxFrameSize, MaxReceive, MaxFrames} \subseteq Nat \ {0}
  /\ MagicSize <= HeaderSize
  /\ HeaderSize <= MaxFrameSize
  /\ \A size \in FrameSizes : size \in Nat /\ size >= HeaderSize
  /\ Lies \subseteq Nat

VARIABLES sent,        \* where each frame ends in the stream, in the order sent
          lengths,     \* what the length in its header is
          low, high,   \* the part of the stream that is in the buffer
          from,        \* history: what low was when the last piece came
          reading,     \* TRUE while the loop of HandleClient runs
          data,        \* whose payload the Frame object of HandleClient has
          delivered,   \* what OnFrame was called with, in order
          kind         \* TRUE while clients and network have been kind

vars == <<sent, lengths, low, high, from, reading, data, delivered, kind>>

\* A frame as OnFrame sees it: which one, and whose payload it carries.
NoData == 0
Delivery == [frame : 1..MaxFrames, data : 0..MaxFrames]

\* The byte before the first one of frame i, and its last one.
End(i) == IF i = 0 THEN 0 ELSE sent[i]
Start(i) == End(i - 1)
Sent == DOMAIN sent
StreamSize == End(Len(sent))

\* Mutant of HeaderAt: a header that fills the buffer is refused.
HeaderAndMoreAt(p, h) ==
  /\ h - p > HeaderSize
  /\ h - p <= MaxFrameSize
  /\ \E i \in Sent : Start(i) = p

\* ReadHeader accepts a buffer that holds the bytes from p to h.
HeaderAt(p, h) ==
  /\ h - p >= HeaderSize
  /\ h - p <= MaxFrameSize
  /\ \E i \in Sent : Start(i) = p

FrameAt(p) == CHOOSE i \in Sent : Start(i) = p

\* Mutant of Complete: half a packet will do.
HeaderIsEnough(i, h) == h >= Start(i) + HeaderSize

\* Not half a packet, going by the length in the header.
Complete(i, h) == h >= Start(i) + lengths[i]

\* ReadBytes does not fail.  That a frame is complete and not longer than
\* MaxFrameSize is known by then.
Readable(i) == lengths[i] >= HeaderSize

\* Mutant of SkipByte: throws away what it does not understand.
SkipAll(p, h) == h

\* Without a header at the front, one byte is erased.
SkipByte(p, h) == p + 1

\* Mutant of PayloadOf: the first payload stays.
FirstPayload(i, d) == IF d = NoData THEN i ELSE d

\* A frame that is only a header leaves the payload of the Frame object as it
\* was, and HandleClient uses one object for all the frames of a piece.
PayloadOf(i, d) == IF lengths[i] = HeaderSize THEN d ELSE i

-----------------------------------------------------------------------------
Init ==
  /\ sent = <<>>
  /\ lengths = <<>>
  /\ low = 0
  /\ high = 0
  /\ from = 0
  /\ reading = FALSE
  /\ data = NoData
  /\ delivered = <<>>
  /\ kind = TRUE

\* A kind client gives each header the size of its frame, as ToBytes does.
Send(size, length) ==
  /\ Len(sent) < MaxFrames
  /\ sent' = Append(sent, StreamSize + size)
  /\ lengths' = Append(lengths, length)
  /\ kind' = (kind /\ length = size)
  /\ UNCHANGED <<low, high, from, reading, data, delivered>>

\* A network that is kind to this code: no piece ends inside a header, and no
\* piece makes the buffer larger than a frame may be.
Kind(h) ==
  /\ h - low <= MaxFrameSize
  /\ \A i \in Sent : h \notin (Start(i) + 1)..(Start(i) + HeaderSize - 1)

\* HandleClient: one recv of n bytes, and a new Frame object.
Receive(n) ==
  /\ ~reading
  /\ n \in 1..MaxReceive
  /\ high + n <= StreamSize
  /\ high' = high + n
  /\ from' = low
  /\ reading' = TRUE
  /\ data' = NoData
  /\ kind' = (kind /\ Kind(high'))
  /\ UNCHANGED <<sent, lengths, low, delivered>>

\* The loop of ReadStream: less than a magic number is left.
StopAtRest ==
  /\ reading
  /\ high - low < MagicSize
  /\ reading' = FALSE
  /\ UNCHANGED <<sent, lengths, low, high, from, data, delivered, kind>>

SkipToHeader ==
  /\ reading
  /\ high - low >= MagicSize
  /\ ~HeaderAt(low, high)
  /\ low' = SkipByte(low, high)
  /\ UNCHANGED <<sent, lengths, high, from, reading, data, delivered, kind>>

StopAtHalf ==
  /\ reading
  /\ HeaderAt(low, high)
  /\ ~Complete(FrameAt(low), high)
  /\ reading' = FALSE
  /\ UNCHANGED <<sent, lengths, low, high, from, data, delivered, kind>>

\* A frame that is whole but for the length in its header: ReadBytes fails.
SkipUnreadable ==
  /\ reading
  /\ HeaderAt(low, high)
  /\ Complete(FrameAt(low), high)
  /\ ~Readable(FrameAt(low))
  /\ low' = SkipByte(low, high)
  /\ UNCHANGED <<sent, lengths, high, from, reading, data, delivered, kind>>

\* As many bytes as the header says are handed to OnFrame.
TakeFrame ==
  /\ reading
  /\ HeaderAt(low, high)
  /\ Complete(FrameAt(low), high)
  /\ Readable(FrameAt(low))
  /\ low' = low + lengths[FrameAt(low)]
  /\ data' = PayloadOf(FrameAt(low), data)
  /\ delivered' = Append(delivered, [frame |-> FrameAt(low), data |-> data'])
  /\ UNCHANGED <<sent, lengths, high, from, reading, kind>>

Next ==
  \/ \E size \in FrameSizes : \E length \in {size} \cup Lies : Send(size, length)
  \/ \E n \in 1..MaxReceive : Receive(n)
  \/ StopAtRest
  \/ SkipToHeader
  \/ StopAtHalf
  \/ SkipUnreadable
  \/ TakeFrame

Spec == Init /\ [][Next]_vars

-----------------------------------------------------------------------------
Delivered == {delivered[k].frame : k \in DOMAIN delivered}

\* However the bytes are cut, whatever the headers say and whatever was lost
\* before: no frame comes twice, none comes before there are as many bytes as its
\* header says, none whose header says less than a header, and they keep their
\* order.
OnceAndInOrder ==
  /\ \A k, m \in DOMAIN delivered : k < m => delivered[k].frame < delivered[m].frame
  /\ \A i \in Delivered : Start(i) + lengths[i] <= high /\ lengths[i] >= HeaderSize

\* A frame that has a payload is delivered with its own.
PayloadOfFrame ==
  \A k \in DOMAIN delivered :
    LET i == delivered[k].frame
    IN  lengths[i] > HeaderSize => delivered[k].data = i

\* A header that asks for no bytes of the next frame, and one that is right.
Modest(i) == Start(i) + lengths[i] <= End(i)
Honest(i) == Start(i) + lengths[i] = End(i)

\* The parser finds its way back: when the loop is over, each frame that was in
\* the buffer from its first byte to its last has been delivered, however much
\* was thrown away before, unless the buffer had more bytes than a frame may, its
\* header is wrong, or one in front of it asks for more than its own frame.
FindsNextFrame ==
  ~reading /\ high - from <= MaxFrameSize =>
    \A i \in Sent :
      /\ from <= Start(i) /\ End(i) <= high /\ Honest(i)
      /\ \A j \in Sent : from <= Start(j) /\ j < i => Modest(j)
      => i \in Delivered

\* Every frame that has arrived has been delivered.  The code detects half a
\* packet (Frame.cpp:55) and keeps what is less than a header (Frame.cpp:71),
\* but erases the first byte of half a header.
NothingLost == \A i \in Sent : End(i) <= high => i \in Delivered

\* With kind clients on a kind network the code does what its comments say.
KindLosesNothing == kind /\ ~reading => NothingLost

=============================================================================
