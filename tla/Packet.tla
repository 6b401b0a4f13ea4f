------------------------------- MODULE Packet -------------------------------
(***************************************************************************)
(* Class Packet (core/Packet.cpp): a message type and named parameters of  *)
(* seven types, written to bytes and read back.  One packet is composed    *)
(* step by step; what a receiver reads from its bytes is an operator.      *)
(*                                                                         *)
(* A number is written from its lowest byte up.  A byte has Base values    *)
(* (256 in the code), and the integers have Width32 and Width64 bytes (4   *)
(* and 8); offsets, lengths and checks are those of the code.  ReadBytes   *)
(* does not look at the end of the buffer: it goes on with what lies       *)
(* behind it in memory, which may be anything, and so does FromData.       *)
(***************************************************************************)
EXTENDS Integers, Sequences, FiniteSets, SequencesExt

CONSTANTS Base,         \* values of a byte
          Width32,      \* bytes of a uint32_t and of an int
          Width64,      \* bytes of a uint64_t
          Keys,         \* the names of the parameters, as bytes
          MsgTypeKey,   \* the name "msgType", as bytes
          Values,       \* the values given to parameters
          MsgTypes,     \* the types of messages, None = 0 among them
          Memories      \* what may lie behind a buffer, up to where reading crashes

\* The alternatives of ValueType, by index.
Int32 == 0
UInt8 == 1
UInt32 == 2
UInt64 == 3
Text == 4
Truth == 5
Blob == 6

Typed(index, value) == [index |-> index, value |-> value]

Byte == 0 .. Base - 1

\* What byte k + 1 of a number counts: a power of Base.
Place[k \in 0 .. Width64] == IF k = 0 THEN 1 ELSE Base * Place[k - 1]

Numbers(width) == 0 .. Place[width] - 1

\* Texts and blobs whose length can be written.
Sized(bytes) == bytes \in Seq(Byte) /\ Len(bytes) \in Numbers(Width32)

\* What C++ lets a parameter be.
IsValue(v) ==
  /\ v = Typed(v.index, v.value)
  /\ \/ v.index = Int32 /\ v.value \in Int
     \/ v.index = UInt8 /\ v.value \in Byte
     \/ v.index = UInt32 /\ v.value \in Numbers(Width32)
     \/ v.index = UInt64 /\ v.value \in Numbers(Width64)
     \/ v.index = Truth /\ v.value \in BOOLEAN
     \/ v.index \in {Text, Blob} /\ Sized(v.value)

ASSUME WidthAssumption ==
  /\ Base \in Nat /\ Base > Blob
  /\ Width32 \in Nat \ {0} /\ Width64 \in Nat /\ Width32 <= Width64
ASSUME KeysAssumption ==
  /\ MsgTypeKey \in Keys /\ \A key \in Keys : Sized(key)
  /\ IsFiniteSet(Keys) /\ Cardinality(Keys) \in Numbers(Width32)
ASSUME ValuesAssumption == \A value \in Values : IsValue(value)
ASSUME MsgTypesAssumption == 0 \in MsgTypes /\ MsgTypes \subseteq Numbers(Width32)
ASSUME MemoriesAssumption == \A behind \in Memories : behind \in Seq(Byte)

VARIABLES msgType, params     \* the packet that is being composed

packetVars == <<msgType, params>>

None == 0

-----------------------------------------------------------------------------
(* Bytes. *)

\* Mutant of WriteBytes: the highest byte comes first.
WriteBytesReversed(n, width) == [k \in 1 .. width |-> (n \div Place[width - k]) % Base]

\* A negative number counts down from the top.
WriteBytes(n, width) == [k \in 1 .. width |-> (n \div Place[k - 1]) % Base]

Number(bytes) ==
  LET Low[k \in 0 .. Len(bytes)] ==
        IF k = 0 THEN 0 ELSE Low[k - 1] + bytes[k] * Place[k - 1]
  IN  Low[Len(bytes)]

\* A length and as many bytes.
WriteSized(bytes) == WriteBytes(Len(bytes), Width32) \o bytes

WriteValue(v) ==
  CASE v.index \in {Int32, UInt32}    -> WriteBytes(v.value, Width32)
    [] v.index = UInt64             -> WriteBytes(v.value, Width64)
    [] v.index = UInt8              -> <<v.value>>
    [] v.index = Truth            -> <<IF v.value THEN 1 ELSE 0>>
    [] v.index \in {Text, Blob}  -> WriteSized(v.value)

WriteParam(key, v) == WriteSized(key) \o <<v.index>> \o WriteValue(v)

\* The parameters come in the order of the map; no property depends on which.
Serialize(type, ps) ==
  LET keys == SetToSeq(DOMAIN ps)
      Buffer[k \in 0 .. Len(keys)] ==
        IF k = 0 THEN WriteBytes(type, Width32) \o WriteBytes(Len(keys), Width32)
        ELSE Buffer[k - 1] \o WriteParam(keys[k], ps[keys[k]])
  IN  Buffer[Len(keys)]

-----------------------------------------------------------------------------
(* Reading: a cursor over the memory; after a failure nothing is read.      *)

\* A buffer of `size` bytes, and what lies behind it.
Memory(buffer, behind) == [bytes |-> buffer \o behind, size |-> Len(buffer)]

Failed(cursor, how) == [offset |-> cursor.offset, got |-> cursor.got, result |-> how]

Left(memory, cursor) == memory.size - cursor.offset

Moved(cursor, n, got) == [offset |-> cursor.offset + n, got |-> got, result |-> "true"]

Take(memory, cursor, n) == SubSeq(memory.bytes, cursor.offset + 1, cursor.offset + n)

\* ReadBytes of a number.  Its check does nothing: the bytes behind the buffer
\* are read like those in it, as far as there is memory.
ReadNumber(memory, cursor, width) ==
  IF cursor.result # "true" THEN cursor
  ELSE IF Len(memory.bytes) - cursor.offset < width THEN Failed(cursor, "crash")
  ELSE Moved(cursor, width, Number(Take(memory, cursor, width)))

\* n bytes, for which there is a check.
ReadChecked(memory, cursor, n) ==
  IF cursor.result # "true" THEN cursor
  ELSE IF Left(memory, cursor) < n THEN Failed(cursor, "false")
  ELSE Moved(cursor, n, Take(memory, cursor, n))

\* The two of WriteSized.
ReadSized(memory, cursor) ==
  LET size == ReadNumber(memory, cursor, Width32)
  IN  IF size.result = "true" THEN ReadChecked(memory, size, size.got) ELSE size

\* The bytes of a value.  For an index that no type has none are read.
ReadRaw(memory, cursor, index) ==
  CASE index \in {Int32, UInt32} -> ReadChecked(memory, cursor, Width32)
    [] index = UInt64          -> ReadChecked(memory, cursor, Width64)
    [] index \in {UInt8, Truth} -> ReadChecked(memory, cursor, 1)
    [] index \in {Text, Blob}   -> ReadSized(memory, cursor)
    [] OTHER                   -> cursor

\* What they mean.  An int is read as a uint32_t.
Meaning(index, bytes) ==
  CASE index \in {Int32, UInt32} -> Typed(UInt32, Number(bytes))
    [] index \in {UInt8, UInt64} -> Typed(index, Number(bytes))
    [] index = Truth           -> Typed(Truth, Number(bytes) # 0)
    [] index \in {Text, Blob}   -> Typed(index, bytes)
    [] OTHER                   -> Typed(Int32, 0)

ReadValue(memory, cursor, index) ==
  LET raw == ReadRaw(memory, cursor, index)
  IN  IF raw.result = "true" THEN Moved(raw, 0, Meaning(index, raw.got)) ELSE raw

\* One parameter is added to ps, or replaces one that is there.
ReadParam(memory, t) ==
  LET key   == ReadSized(memory, t.cursor)
      index == ReadChecked(memory, key, 1)
      value == IF index.result = "true" THEN ReadValue(memory, index, index.got[1]) ELSE index
  IN  IF value.result = "true"
      THEN [cursor |-> value,
            ps |-> [k \in DOMAIN t.ps \cup {key.got} |->
                      IF k = key.got THEN value.got ELSE t.ps[k]]]
      ELSE [cursor |-> value, ps |-> t.ps]

\* Mutant of ReadNext: parameters are read as long as there are bytes.
ReadWhatThereIs(memory, t) ==
  IF t.cursor.result = "true" /\ Left(memory, t.cursor) > 0 THEN ReadParam(memory, t) ELSE t

ReadNext(memory, t) == IF t.cursor.result = "true" THEN ReadParam(memory, t) ELSE t

ReadParams(memory, t, n) ==
  LET After[k \in 0 .. n] == IF k = 0 THEN t ELSE ReadNext(memory, After[k - 1])
  IN  After[n]

\* FromData on a packet that has just been constructed: Packet() has entered the
\* parameter msgType with None, which stays unless the bytes have another.
FromData(buffer, behind) ==
  LET memory == Memory(buffer, behind)
      type  == ReadNumber(memory, [offset |-> 0, got |-> 0, result |-> "true"], Width32)
      count == ReadNumber(memory, type, Width32)
      fresh == [cursor |-> count, ps |-> [k \in {MsgTypeKey} |-> Typed(UInt32, None)]]
      read  == IF count.result = "true" THEN ReadParams(memory, fresh, count.got) ELSE fresh
  IN  [result  |-> read.cursor.result,
       msgType |-> IF type.result = "true" THEN type.got ELSE None,
       params  |-> read.ps]

\* GetParam<T>(key, default): another type is as good as absent.
GetParam(ps, key, index, default) ==
  IF key \in DOMAIN ps /\ ps[key].index = index THEN ps[key].value ELSE default

-----------------------------------------------------------------------------
(* Composing a packet. *)

\* Packet(sessionId, type)
PacketInit ==
  /\ msgType \in MsgTypes
  /\ params = [k \in {MsgTypeKey} |-> Typed(UInt32, msgType)]

AddParam(key, value) ==
  /\ params' = [k \in DOMAIN params \cup {key} |-> IF k = key THEN value ELSE params[k]]
  /\ UNCHANGED msgType

\* Also what SendResponse of Handler does when it replaces all parameters.
ClearParams ==
  /\ params' = [k \in {} |-> Typed(Int32, 0)]
  /\ UNCHANGED msgType

PacketNext ==
  ClearParams \/ \E key \in Keys \ {MsgTypeKey}, value \in Values : AddParam(key, value)

PacketSpec == PacketInit /\ [][PacketNext]_packetVars

-----------------------------------------------------------------------------
\* What is read from the bytes of a packet is that packet, whatever lies behind
\* them, with two exceptions: an int, which is written with its own index and
\* read as a uint32_t, so that the GetParam of the type it was added with gives
\* the default (the rating in the answers of core/Handler.cpp:41 is one), and the
\* parameter msgType, which is None when the sender has replaced the parameters.
RoundTrip ==
  \A behind \in Memories :
    LET got == FromData(Serialize(msgType, params), behind)
    IN  /\ got.result = "true"
        /\ got.msgType = msgType
        /\ DOMAIN got.params = DOMAIN params \cup {MsgTypeKey}
        /\ \A key \in DOMAIN params :
             LET p == params[key]
             IN  IF p.index = Int32
                 THEN /\ GetParam(got.params, key, UInt32, None) = p.value % Place[Width32]
                      /\ GetParam(got.params, key, Int32, None) = None
                 ELSE got.params[key] = p
        /\ MsgTypeKey \notin DOMAIN params => got.params[MsgTypeKey] = Typed(UInt32, None)

\* FromData finds the number of parameters, and it is 0.
FindsNone(memory) ==
  /\ Len(memory.bytes) >= Width32 + Width32
  /\ Number(SubSeq(memory.bytes, Width32 + 1, Width32 + Width32)) = 0

\* A packet that was cut off is taken for a complete one in one case only, that
\* of a cut in front of the end of the number of parameters when ReadBytes
\* completes that number to 0 (core/Packet.cpp:24, 99); the answer is then a
\* packet without parameters.  A cut anywhere behind is noticed whatever
\* ReadBytes finds: the check that follows each length sees that the offset is
\* past the end.
CutIsNoticed ==
  LET buffer == Serialize(msgType, params)
  IN  \A n \in 0 .. Len(buffer) - 1, behind \in Memories :
        LET cut == SubSeq(buffer, 1, n)
            got == FromData(cut, behind)
        IN  /\ got.result = "true" <=> n < Width32 + Width32 /\ FindsNone(Memory(cut, behind))
            /\ got.result = "true" => got.params = [k \in {MsgTypeKey} |-> Typed(UInt32, None)]

=============================================================================
