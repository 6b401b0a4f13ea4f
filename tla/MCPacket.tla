------------------------------ MODULE MCPacket ------------------------------
(* Model-checking instance of Packet: bytes of seven values, which is room    *)
(* for the indexes of the types, and for each type its extreme values.        *)
EXTENDS Packet

SmallKeys == {<<>>, <<1>>, <<2, 1>>}
SmallMsgTypeKey == <<2, 1>>

SmallValues ==
  {Typed(Int32, n) : n \in {-1, 0, 5}} \cup {Typed(UInt8, n) : n \in {0, 6}}
    \cup {Typed(UInt32, n) : n \in {0, 10, 48}} \cup {Typed(UInt64, n) : n \in {0, 100, 342}}
    \cup {Typed(Truth, b) : b \in BOOLEAN}
    \cup {Typed(t, s) : t \in {Text, Blob}, s \in {<<>>, <<0>>, <<6, 1, 3>>}}

\* Nothing that can be read, too little for a number, zeros, counts and lengths of
\* which the first or the second byte is not 0.
SmallMemories ==
  {<<>>, <<0>>, <<0, 0, 0, 0, 0, 0, 0>>, <<1, 0, 0, 1, 0, 0, 0>>, <<0, 0, 1, 0, 0, 0, 0>>,
   <<0, 1, 0, 0, 0, 0, 0>>, <<6, 6, 6, 6, 6, 6, 6>>}

=============================================================================
