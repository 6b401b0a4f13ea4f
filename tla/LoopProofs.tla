------------------------------ MODULE LoopProofs ------------------------------
(***************************************************************************)
(* What the loops of the program compute.  The properties of FrameStream,  *)
(* for frames of any sizes, any limits and any number of frames; those of  *)
(* Packet, for a byte of any number of values, integers of any width and   *)
(* any parameters that C++ allows; and those of AiPlayer, for boards of    *)
(* any size, stones of any worth and a search of any depth.  They share    *)
(* the lemmas about loops.                                                 *)
(***************************************************************************)
EXTENDS FrameStream, Packet, AiPlayer, FiniteSetTheorems, SequenceTheorems,
        WellFoundedInduction, TLAPS

-----------------------------------------------------------------------------
(* Loops. *)

LEMMA LeastNumber ==
  ASSUME NEW T \in SUBSET Nat, T # {}
  PROVE  \E x \in T : \A y \in T : x <= y
<1> DEFINE R == OpToRel(<, Nat)
<1>1. IsWellFoundedOn(R, Nat)  BY NatLessThanWellFounded
<1>2. \A x, y \in Nat : <<y, x>> \in R <=> y < x  BY DEF OpToRel
<1> HIDE DEF R
<1>3. \E x \in T : \A y \in T : ~(<<y, x>> \in R)  BY <1>1, WFMin
<1>4. \A x, y \in T : x \in Int /\ y \in Int /\ (~(y < x) => x <= y)  OBVIOUS
<1> QED  BY <1>2, <1>3, <1>4

\* What holds at the start and after each pass holds all the way.
LEMMA Upward ==
  ASSUME NEW N \in Nat, NEW P, 0 \in P, \A k \in 0 .. N - 1 : k \in P => k + 1 \in P
  PROVE  \A k \in 0 .. N : k \in P
<1> SUFFICES ASSUME NEW j \in 0 .. N, j \notin P PROVE FALSE  OBVIOUS
<1> DEFINE T == {k \in 0 .. N : k \notin P}
<1>1. T \in SUBSET Nat /\ j \in T  OBVIOUS
<1>2. PICK x \in T : \A y \in T : x <= y
  <2> HIDE DEF T
  <2> QED  BY <1>1, LeastNumber
<1>3. x \in 0 .. N /\ x \notin P /\ x # 0  BY <1>2
<1>4. x - 1 \in 0 .. N - 1 /\ x - 1 \in 0 .. N /\ ~(x <= x - 1) /\ (x - 1) + 1 = x
  BY <1>3
<1>5. x - 1 \in P  BY <1>2, <1>4
<1> QED  BY <1>3, <1>4, <1>5

\* The passes of a loop over values of V, and what its variable goes through.
Passes(N, V) == [1 .. N -> [V -> V]]

IsRun(f, N, V, v0, G) ==
  f \in [0 .. N -> V] /\ f[0] = v0 /\ \A k \in 1 .. N : f[k] = G[k][f[k - 1]]

\* A loop of N passes comes to an end.
LEMMA LoopEnds ==
  ASSUME NEW N \in Nat, NEW V, NEW v0 \in V, NEW G \in Passes(N, V)
  PROVE  \E f : IsRun(f, N, V, v0, G)
<1>0. G \in [1 .. N -> [V -> V]]  BY DEF Passes
<1> DEFINE Runs(f, n) == \A k \in 0 .. n : f[k] = IF k = 0 THEN v0 ELSE G[k][f[k - 1]]
           P == {n \in 0 .. N : \E f \in [0 .. N -> V] : Runs(f, n)}
<1>1. 0 \in P
  <2>1. PICK f \in [0 .. N -> V] : f = [k \in 0 .. N |-> v0]  OBVIOUS
  <2>2. Runs(f, 0)  BY <2>1
  <2> QED  BY <2>2
<1>2. ASSUME NEW n \in 0 .. N - 1, n \in P PROVE n + 1 \in P
  <2>1. PICK f \in [0 .. N -> V] : Runs(f, n)  BY <1>2
  <2>2. n + 1 \in 1 .. N /\ n \in 0 .. N /\ n + 1 \in 0 .. N  BY <1>2
  <2>3. PICK v \in V : v = G[n + 1][f[n]]  BY <1>0, <2>2
  <2>4. PICK g \in [0 .. N -> V] : g = [f EXCEPT ![n + 1] = v]  BY <2>2
  <2>5. \A k \in 0 .. n : g[k] = f[k]  BY <2>2, <2>4
  <2>6. g[n + 1] = G[n + 1][g[n]]
    <3>1. n \in 0 .. n  BY <2>2
    <3>2. g[n] = f[n]  BY <3>1, <2>5
    <3> QED  BY <2>2, <2>3, <2>4, <3>2
  <2>7. Runs(g, n + 1)
    <3> SUFFICES ASSUME NEW k \in 0 .. n + 1
                 PROVE  g[k] = IF k = 0 THEN v0 ELSE G[k][g[k - 1]]
      OBVIOUS
    <3>1. CASE k = n + 1
      <4>1. k # 0 /\ k - 1 = n  BY <3>1, <2>2
      <4> QED  BY <2>6, <3>1, <4>1
    <3>2. CASE k # n + 1
      <4>1. k \in 0 .. n /\ (k # 0 => k - 1 \in 0 .. n)  BY <3>2, <2>2
      <4>2. f[k] = IF k = 0 THEN v0 ELSE G[k][f[k - 1]]  BY <2>1, <4>1
      <4> QED  BY <2>5, <4>1, <4>2
    <3> QED  BY <3>1, <3>2
  <2> QED  BY <2>2, <2>7
<1>3. N \in P
  <2> HIDE DEF P
  <2>1. \A k \in 0 .. N : k \in P  BY <1>1, <1>2, Upward
  <2> QED  BY <2>1
<1>4. PICK f \in [0 .. N -> V] : Runs(f, N)  BY <1>3
<1>5. f[0] = v0 /\ \A k \in 1 .. N : f[k] = G[k][f[k - 1]]
  <2>1. 0 \in 0 .. N /\ \A k \in 1 .. N : k \in 0 .. N /\ k # 0  OBVIOUS
  <2> QED  BY <1>4, <2>1
<1> QED  BY <1>5 DEF IsRun

\* What holds at the start and is kept by each pass.
LEMMA Stays ==
  ASSUME NEW N \in Nat, NEW V, NEW g, g[0] \in V,
         \A k \in 1 .. N : g[k - 1] \in V => g[k] \in V
  PROVE  \A k \in 0 .. N : g[k] \in V
<1> DEFINE P == {k \in 0 .. N : g[k] \in V}
<1>1. 0 \in P  OBVIOUS
<1>2. ASSUME NEW k \in 0 .. N - 1, k \in P PROVE k + 1 \in P
  <2>1. k + 1 \in 1 .. N /\ k + 1 \in 0 .. N /\ (k + 1) - 1 = k  OBVIOUS
  <2> QED  BY <1>2, <2>1
<1>3. \A k \in 0 .. N : k \in P
  <2> HIDE DEF P
  <2> QED  BY <1>1, <1>2, Upward
<1> QED  BY <1>3

LEMMA Division ==
  ASSUME NEW a \in Int, NEW m \in Nat, m > 0
  PROVE  /\ a \div m \in Int /\ a % m \in 0 .. m - 1
         /\ a = (a \div m) * m + (a % m)
<1>1. a \div m \in Int /\ a % m \in 0 .. m - 1  OBVIOUS
<1>2. (a \div m) * m <= a /\ a < (a \div m) * m + m  OBVIOUS
<1>3. a % m = a - (a \div m) * m  OBVIOUS
<1> QED  BY <1>1, <1>2, <1>3

LEMMA OneRemainder ==
  ASSUME NEW m \in Nat, m > 0, NEW p \in Int, NEW q \in Int,
         NEW r \in 0 .. m - 1, NEW s \in 0 .. m - 1, p * m + r = q * m + s
  PROVE  r = s
<1>1. (p - q) * m = s - r  OBVIOUS
<1>2. CASE p - q >= 1
  <2>1. (p - q) * m >= m  BY <1>2
  <2> QED  BY <1>1, <2>1
<1>3. CASE p - q <= -1
  <2>1. (p - q) * m <= -m  BY <1>3
  <2> QED  BY <1>1, <2>1
<1>4. CASE p - q = 0
  <2>1. (p - q) * m = 0  BY <1>4
  <2> QED  BY <1>1, <2>1
<1> QED  BY <1>2, <1>3, <1>4

-----------------------------------------------------------------------------
(* Frames. *)

\* Types; the stream is long enough for the buffer.
TypeOK ==
  /\ sent \in Seq(Nat) /\ Len(sent) <= MaxFrames
  /\ lengths \in Seq(Nat) /\ Len(lengths) = Len(sent)
  /\ from \in Nat /\ low \in Nat /\ high \in Nat
  /\ from <= low /\ low <= high /\ high <= StreamSize
  /\ data \in 0..Len(sent)
  /\ delivered \in Seq(Delivery)

\* Frames lie one behind the other, none shorter than a header.
FramesInOrder ==
  /\ \A i \in Sent : Start(i) + HeaderSize <= End(i)
  /\ \A i, j \in Sent : i < j => End(i) <= Start(j)

\* What was delivered has been erased from the buffer.
DeliveredIsErased ==
  /\ \A k, m \in DOMAIN delivered : k < m => delivered[k].frame < delivered[m].frame
  /\ \A i \in Delivered : i \in Sent /\ Start(i) + lengths[i] <= low /\ lengths[i] >= HeaderSize

\* What the loop is to find from a place on.
Findable(i, place) ==
  /\ place <= Start(i) /\ End(i) <= high /\ Honest(i)
  /\ \A j \in Sent : place <= Start(j) /\ j < i => Modest(j)

\* What the loop has not delivered yet is still in front of it.
StillToFind ==
  high - from <= MaxFrameSize =>
    \A i \in Sent : Findable(i, from) => i \in Delivered \/ (reading /\ low <= Start(i))

\* With kind clients and a kind network the buffer begins with a frame and holds at least the
\* header of each frame that begins in it; all before it has been delivered.
KindKeepsFrames ==
  kind =>
    /\ \E j \in 0..Len(sent) : End(j) = low
    /\ \A i \in Sent : End(i) <= low => i \in Delivered
    /\ Kind(high)
    /\ \A i \in Sent : Honest(i)
    /\ ~reading => NothingLost

IInv ==
  /\ TypeOK
  /\ FramesInOrder
  /\ DeliveredIsErased
  /\ PayloadOfFrame
  /\ StillToFind
  /\ KindKeepsFrames

-----------------------------------------------------------------------------
(* Frames and the stream. *)

LEMMA SizesAreNumbers ==
  /\ MagicSize \in Nat /\ HeaderSize \in Nat /\ MaxFrameSize \in Nat
  /\ MaxReceive \in Nat /\ MaxFrames \in Nat
  /\ 0 < MagicSize /\ MagicSize <= HeaderSize
  /\ \A size \in FrameSizes : size \in Nat /\ size >= HeaderSize
BY FrameAssumption

\* Where frames begin and end.
LEMMA FrameFacts ==
  ASSUME TypeOK, FramesInOrder
  PROVE  /\ Len(sent) \in Nat /\ Sent = 1 .. Len(sent)
         /\ \A j \in 0 .. Len(sent) : End(j) \in Nat /\ End(j) <= StreamSize
         /\ \A i \in Sent : /\ Start(i) \in Nat /\ End(i) \in Nat
                            /\ Start(i) + HeaderSize <= End(i)
                            /\ Start(i) < End(i) /\ lengths[i] \in Nat
         /\ \A i, j \in Sent : i < j => End(i) <= Start(j) /\ Start(i) < Start(j)
         /\ StreamSize \in Nat
<1>1. Len(sent) \in Nat /\ Sent = 1 .. Len(sent) /\ \A i \in Sent : sent[i] \in Nat
  BY DEF TypeOK, Sent
<1>2. \A j \in 0 .. Len(sent) : End(j) \in Nat
  BY <1>1 DEF End
<1>3. \A i \in Sent : i - 1 \in 0 .. Len(sent) /\ i \in 0 .. Len(sent)  BY <1>1
<1>3a. \A i \in Sent : lengths[i] \in Nat
  <2>1. lengths \in Seq(Nat) /\ Len(lengths) = Len(sent)  BY DEF TypeOK
  <2> QED  BY <1>1, <2>1
<1>4. \A i \in Sent : /\ Start(i) \in Nat /\ End(i) \in Nat
                      /\ Start(i) + HeaderSize <= End(i)
                      /\ Start(i) < End(i)
  BY <1>2, <1>3, SizesAreNumbers DEF Start, FramesInOrder
<1>5. \A i, j \in Sent : i < j => End(i) <= Start(j) /\ Start(i) < Start(j)
  BY <1>4 DEF FramesInOrder
<1>6. StreamSize \in Nat  BY <1>1, <1>2 DEF StreamSize
<1>7. ASSUME NEW j \in 0 .. Len(sent) PROVE End(j) <= StreamSize
  <2>1. CASE j = Len(sent)  BY <1>6, <2>1 DEF StreamSize
  <2>2. CASE j = 0  BY <1>6, <2>2 DEF End
  <2>3. CASE j # 0 /\ j # Len(sent)
    <3>1. j \in Sent /\ Len(sent) \in Sent /\ j < Len(sent)  BY <1>1, <2>3
    <3>2. End(j) <= Start(Len(sent)) /\ Start(Len(sent)) < End(Len(sent))
      BY <1>4, <1>5, <3>1
    <3> QED  BY <1>4, <3>1, <3>2 DEF StreamSize
  <2> QED  BY <2>1, <2>2, <2>3
<1> QED  BY <1>1, <1>2, <1>3a, <1>4, <1>5, <1>6, <1>7

\* The frame at the front of the buffer.
LEMMA FrontFrame ==
  ASSUME HeaderAt(low, high)
  PROVE  FrameAt(low) \in Sent /\ Start(FrameAt(low)) = low
BY DEF HeaderAt, FrameAt

\* A buffer that begins with a frame and does not end within its header is
\* empty or begins with a header.
LEMMA KindHasHeader ==
  ASSUME IInv, kind, low < high
  PROVE  HeaderAt(low, high)
<1>1. PICK j \in 0 .. Len(sent) : End(j) = low  BY DEF IInv, KindKeepsFrames
<1>2. /\ Len(sent) \in Nat /\ Sent = 1 .. Len(sent)
      /\ low \in Nat /\ high \in Nat /\ high <= StreamSize
      /\ high - low <= MaxFrameSize
      /\ \A i \in Sent : high \notin (Start(i) + 1)..(Start(i) + HeaderSize - 1)
  BY FrameFacts DEF IInv, TypeOK, KindKeepsFrames, Kind
<1>3. j # Len(sent)  BY <1>1, <1>2 DEF StreamSize
<1>4. j + 1 \in Sent /\ Start(j + 1) = low
  <2>1. j + 1 \in Sent /\ (j + 1) - 1 = j  BY <1>2, <1>3
  <2> QED  BY <1>1, <2>1 DEF Start
<1>5. high \notin (low + 1)..(low + HeaderSize - 1)  BY <1>2, <1>4
<1>6. high - low >= HeaderSize  BY <1>2, <1>5, SizesAreNumbers
<1> QED  BY <1>2, <1>4, <1>6 DEF HeaderAt

-----------------------------------------------------------------------------
LEMMA InitIInv == Init => IInv
<1> SUFFICES ASSUME Init PROVE IInv  OBVIOUS
<1>1. /\ sent = <<>> /\ lengths = <<>> /\ delivered = <<>> /\ Sent = {} /\ Delivered = {}
      /\ Len(sent) = 0 /\ StreamSize = 0
  BY DEF Init, Sent, Delivered, StreamSize, End
<1>2. TypeOK  BY <1>1, SizesAreNumbers DEF TypeOK, Init, NoData
<1>3. FramesInOrder /\ DeliveredIsErased /\ PayloadOfFrame /\ StillToFind
  BY <1>1 DEF FramesInOrder, DeliveredIsErased, PayloadOfFrame, StillToFind
<1>4. KindKeepsFrames
  <2>1. 0 \in 0 .. Len(sent) /\ End(0) = low  BY <1>1 DEF Init, End
  <2>2. Kind(high)  BY <1>1, SizesAreNumbers DEF Init, Kind
  <2> QED  BY <1>1, <2>1, <2>2 DEF KindKeepsFrames, NothingLost
<1> QED  BY <1>2, <1>3, <1>4 DEF IInv

\* A step of the server changes no frame.
LEMMA SameFrames ==
  ASSUME sent' = sent, lengths' = lengths, FramesInOrder
  PROVE  /\ FramesInOrder'
         /\ Sent' = Sent /\ StreamSize' = StreamSize
         /\ \A i : End(i)' = End(i) /\ Start(i)' = Start(i)
         /\ \A i : Honest(i)' = Honest(i) /\ Modest(i)' = Modest(i)
<1>1. /\ FramesInOrder'
      /\ Sent' = Sent /\ StreamSize' = StreamSize
      /\ \A i : End(i)' = End(i) /\ Start(i)' = Start(i)
  BY DEF FramesInOrder, Sent, StreamSize, End, Start
<1>2. \A i : Honest(i)' = Honest(i) /\ Modest(i)' = Modest(i)
  BY <1>1 DEF Honest, Modest
<1> QED  BY <1>1, <1>2

\* What is to be found from one place is to be found from a later one.
LEMMA FindableLater ==
  ASSUME IInv, NEW i \in Sent, Findable(i, from), low <= Start(i)
  PROVE  Findable(i, low)
<1>1. from \in Nat /\ low \in Nat /\ from <= low /\ \A j \in Sent : Start(j) \in Nat
  BY FrameFacts DEF IInv, TypeOK
<1>2. \A j \in Sent : low <= Start(j) => from <= Start(j)  BY <1>1
<1> QED  BY <1>2 DEF Findable

LEMMA SameDelivered ==
  ASSUME delivered' = delivered
  PROVE  Delivered' = Delivered
BY DEF Delivered

LEMMA SendIInv ==
  ASSUME IInv, NEW size \in FrameSizes, NEW length \in {size} \cup Lies, Send(size, length)
  PROVE  IInv'
<1>0. PICK n \in Nat : n = Len(sent)  BY FrameFacts DEF IInv
<1>1. /\ n \in Nat /\ Sent = 1 .. n /\ StreamSize \in Nat
      /\ \A j \in 0 .. n : End(j) \in Nat /\ End(j) <= StreamSize
      /\ \A i \in Sent : /\ Start(i) \in Nat /\ End(i) \in Nat
                         /\ Start(i) + HeaderSize <= End(i)
      /\ \A i, j \in Sent : i < j => End(i) <= Start(j)
  BY <1>0, FrameFacts DEF IInv
<1>1a. length \in Nat
  <2>1. size \in Nat /\ Lies \subseteq Nat  BY SizesAreNumbers, FrameAssumption
  <2> QED  BY <2>1
<1>1b. /\ lengths' = Append(lengths, length)
       /\ kind' = (kind /\ length = size)
  BY DEF Send
<1>2. /\ sent' = Append(sent, StreamSize + size) /\ n < MaxFrames
      /\ UNCHANGED <<low, high, from, reading, data, delivered>>
      /\ size \in Nat /\ size >= HeaderSize /\ HeaderSize \in Nat /\ 0 < HeaderSize
  BY <1>0, SizesAreNumbers DEF Send
<1>3. /\ sent' \in Seq(Nat) /\ Len(sent') = n + 1 /\ Sent' = Sent \cup {n + 1}
      /\ \A i \in Sent : sent'[i] = sent[i]
      /\ sent'[n + 1] = StreamSize + size
      /\ n + 1 \notin Sent
  <2>1. sent \in Seq(Nat) /\ Len(sent) = n  BY <1>0 DEF IInv, TypeOK
  <2>2. StreamSize + size \in Nat  BY <1>1, <1>2
  <2>3. PICK e \in Nat : e = StreamSize + size  BY <2>2
  <2>4. sent' = Append(sent, e)  BY <1>2, <2>3
  <2>5. Sent = 1 .. n /\ n \in Nat  BY <1>1
  <2>6. sent' \in Seq(Nat) /\ Len(sent') = n + 1  BY <2>1, <2>3, <2>4
  <2>7. Sent' = 1 .. n + 1  BY <2>6 DEF Sent
  <2> QED  BY <2>1, <2>3, <2>4, <2>5, <2>6, <2>7
<1>4. \A j \in 0 .. n : End(j)' = End(j)  BY <1>1, <1>3 DEF End
<1>5. End(n + 1)' = StreamSize + size /\ StreamSize' = StreamSize + size
  BY <1>1, <1>3 DEF End, StreamSize
<1>6. \A i \in Sent : Start(i)' = Start(i) /\ End(i)' = End(i)
  <2>1. \A i \in Sent : i \in 0 .. n /\ i - 1 \in 0 .. n  BY <1>1
  <2> QED  BY <1>4, <2>1 DEF Start
<1>7. Start(n + 1)' = StreamSize
  <2>1. (n + 1) - 1 = n /\ n \in 0 .. n  BY <1>1
  <2>2. Start(n + 1)' = End(n)'  BY <2>1 DEF Start
  <2> QED  BY <1>0, <1>4, <2>1, <2>2 DEF StreamSize
<1>7a. /\ lengths' \in Seq(Nat) /\ Len(lengths') = n + 1
       /\ \A i \in Sent : lengths'[i] = lengths[i] /\ lengths[i] \in Nat
       /\ lengths'[n + 1] = length
  <2>1. lengths \in Seq(Nat) /\ Len(lengths) = n  BY <1>0 DEF IInv, TypeOK
  <2>2. n \in Nat /\ Sent = 1 .. n  BY <1>1
  <2> QED  BY <1>1a, <1>1b, <2>1, <2>2
<1>7b. \A i \in Sent : (Honest(i)' <=> Honest(i)) /\ (Modest(i)' <=> Modest(i))
  BY <1>6, <1>7a DEF Honest, Modest
<1>8. TypeOK'
  <2>1. high <= StreamSize'  BY <1>1, <1>2, <1>5 DEF IInv, TypeOK
  <2>2. n + 1 <= MaxFrames  BY <1>1, <1>2, SizesAreNumbers
  <2>3. data \in 0 .. n + 1  BY <1>0, <1>1 DEF IInv, TypeOK
  <2> QED  BY <1>2, <1>3, <1>7a, <2>1, <2>2, <2>3 DEF IInv, TypeOK
<1>9. FramesInOrder'
  <2>1. \A i \in Sent' : Start(i)' + HeaderSize <= End(i)'
    BY <1>1, <1>2, <1>3, <1>5, <1>6, <1>7
  <2>2. ASSUME NEW i \in Sent', NEW j \in Sent', i < j PROVE End(i)' <= Start(j)'
    <3>1. i \in Sent /\ i \in 0 .. n  BY <1>1, <1>3, <2>2
    <3>2. CASE j \in Sent  BY <1>1, <1>6, <2>2, <3>1, <3>2
    <3>3. CASE j = n + 1  BY <1>1, <1>6, <1>7, <3>1, <3>3
    <3> QED  BY <1>3, <3>2, <3>3
  <2> QED  BY <2>1, <2>2 DEF FramesInOrder
<1>10. Delivered' = Delivered /\ \A i \in Delivered : i \in Sent
  BY <1>2, SameDelivered DEF IInv, DeliveredIsErased
<1>11. DeliveredIsErased'
  BY <1>2, <1>3, <1>6, <1>7a, <1>10 DEF IInv, DeliveredIsErased
<1>12. PayloadOfFrame'
  <2>1. \A k \in DOMAIN delivered : delivered[k].frame \in Sent
    BY <1>10 DEF Delivered
  <2> QED  BY <1>2, <1>7a, <2>1 DEF IInv, PayloadOfFrame
<1>13. high < End(n + 1)' /\ low < End(n + 1)' /\ high <= Start(n + 1)'
  BY <1>1, <1>2, <1>5, <1>7 DEF IInv, TypeOK
<1>14. low \in Nat /\ high \in Nat /\ End(n + 1)' \in Nat /\ Start(n + 1)' \in Nat
  BY <1>1, <1>2, <1>5, <1>7 DEF IInv, TypeOK
<1>15. StillToFind'
  <2> SUFFICES ASSUME high' - from' <= MaxFrameSize, NEW i \in Sent', Findable(i, from)'
               PROVE  i \in Delivered' \/ (reading' /\ low' <= Start(i)')
    BY DEF StillToFind
  <2>1. /\ from' <= Start(i)' /\ End(i)' <= high' /\ Honest(i)'
        /\ \A j \in Sent' : from' <= Start(j)' /\ j < i => Modest(j)'
    BY DEF Findable
  <2>2. i \in Sent
    <3>1. i # n + 1  BY <1>2, <1>13, <1>14, <2>1
    <3> QED  BY <1>3, <3>1
  <2>3. Findable(i, from)  BY <1>2, <1>3, <1>6, <1>7b, <2>1, <2>2 DEF Findable
  <2> QED  BY <1>2, <1>6, <1>10, <2>2, <2>3 DEF IInv, StillToFind
<1>16. KindKeepsFrames'
  <2> SUFFICES ASSUME kind, length = size PROVE KindKeepsFrames'  BY <1>1b DEF KindKeepsFrames
  <2>1. \E j \in 0 .. n + 1 : End(j)' = low
    BY <1>0, <1>1, <1>4 DEF IInv, KindKeepsFrames
  <2>2. \A i \in Sent' : End(i)' <= low' => i \in Delivered'
    BY <1>2, <1>3, <1>6, <1>10, <1>13, <1>14 DEF IInv, KindKeepsFrames
  <2>3. Kind(high)'
    <3>1. high - low <= MaxFrameSize
          /\ \A i \in Sent : high \notin (Start(i) + 1)..(Start(i) + HeaderSize - 1)
      BY DEF IInv, KindKeepsFrames, Kind
    <3>2. high \notin (Start(n + 1)' + 1)..(Start(n + 1)' + HeaderSize - 1)
      BY <1>13, <1>14
    <3> QED  BY <1>2, <1>3, <1>6, <3>1, <3>2 DEF Kind
  <2>4. ~reading => NothingLost'
    BY <1>2, <1>3, <1>6, <1>10, <1>13, <1>14 DEF IInv, KindKeepsFrames, NothingLost
  <2>5. \A i \in Sent' : Honest(i)'
    <3>1. Honest(n + 1)'  BY <1>5, <1>7, <1>7a DEF Honest
    <3> QED  BY <1>3, <1>7b, <3>1 DEF IInv, KindKeepsFrames
  <2> QED  BY <1>2, <1>3, <2>1, <2>2, <2>3, <2>4, <2>5 DEF KindKeepsFrames
<1> QED  BY <1>8, <1>9, <1>11, <1>12, <1>15, <1>16 DEF IInv

LEMMA ReceiveIInv ==
  ASSUME IInv, NEW n, Receive(n)
  PROVE  IInv'
<1>1. /\ ~reading /\ n \in 1 .. MaxReceive /\ high + n <= StreamSize
      /\ high' = high + n /\ from' = low /\ reading' = TRUE /\ data' = 0
      /\ kind' = (kind /\ Kind(high'))
      /\ UNCHANGED <<sent, lengths, low, delivered>>
  BY DEF Receive, NoData
<1>2. /\ FramesInOrder' /\ Sent' = Sent /\ StreamSize' = StreamSize
      /\ \A i : End(i)' = End(i) /\ Start(i)' = Start(i)
      /\ \A i : Honest(i)' = Honest(i) /\ Modest(i)' = Modest(i)
      /\ Delivered' = Delivered
  BY <1>1, SameFrames, SameDelivered DEF IInv
<1>3. /\ Len(sent) \in Nat
      /\ \A i \in Sent : Start(i) \in Nat /\ End(i) \in Nat /\ Start(i) < End(i)
  BY FrameFacts DEF IInv
<1>4. TypeOK'
  BY <1>1, <1>2, <1>3, SizesAreNumbers DEF IInv, TypeOK
<1>5. DeliveredIsErased'  BY <1>1, <1>2 DEF IInv, DeliveredIsErased
<1>6. PayloadOfFrame'  BY <1>1, <1>2 DEF IInv, PayloadOfFrame
<1>7. StillToFind'
  <2>1. \A i \in Sent : Findable(i, from)' => from' <= Start(i)'  BY DEF Findable
  <2> QED  BY <1>1, <1>2, <2>1 DEF StillToFind
<1>8. KindKeepsFrames'
  <2>1. Kind(high)' <=> Kind(high')  BY <1>1, <1>2 DEF Kind
  <2> QED  BY <1>1, <1>2, <2>1 DEF IInv, KindKeepsFrames
<1> QED  BY <1>2, <1>4, <1>5, <1>6, <1>7, <1>8 DEF IInv

\* The loop ends: nothing that is complete is left in the buffer.
LEMMA StopIInv ==
  ASSUME IInv, reading, reading' = FALSE,
         UNCHANGED <<sent, lengths, low, high, from, data, delivered, kind>>,
         \A i \in Sent : ~Findable(i, low)
  PROVE  IInv'
<1>1. /\ FramesInOrder' /\ Sent' = Sent /\ StreamSize' = StreamSize
      /\ \A i : End(i)' = End(i) /\ Start(i)' = Start(i)
      /\ \A i : Honest(i)' = Honest(i) /\ Modest(i)' = Modest(i)
      /\ Delivered' = Delivered
  BY SameFrames, SameDelivered DEF IInv
<1>2. /\ Len(sent) \in Nat /\ Sent = 1 .. Len(sent)
      /\ \A i \in Sent : Start(i) \in Nat /\ End(i) \in Nat /\ lengths[i] \in Nat
      /\ \A i, j \in Sent : i < j => End(i) <= Start(j)
      /\ low \in Nat /\ high \in Nat
  BY FrameFacts DEF IInv, TypeOK
<1>3. TypeOK'  BY <1>1 DEF IInv, TypeOK
<1>4. DeliveredIsErased'  BY <1>1 DEF IInv, DeliveredIsErased
<1>5. PayloadOfFrame'  BY <1>1 DEF IInv, PayloadOfFrame
<1>6. StillToFind'
  <2>1. \A i \in Sent : Findable(i, from)' => Findable(i, from)
    BY <1>1 DEF Findable
  <2>2. \A i \in Sent : Findable(i, from) => ~(low <= Start(i))
    BY FindableLater
  <2> QED  BY <1>1, <2>1, <2>2 DEF IInv, StillToFind
<1>7. KindKeepsFrames'
  <2>1. Kind(high)' <=> Kind(high)  BY <1>1 DEF Kind
  <2>2. ASSUME kind, NEW i \in Sent, End(i) <= high PROVE i \in Delivered
    <3>1. PICK j \in 0 .. Len(sent) : End(j) = low
      BY <2>2 DEF IInv, KindKeepsFrames
    <3>2. ~(low <= Start(i))
      <4>1. \A m \in Sent : Honest(m) /\ Modest(m)
        BY <1>2, <2>2 DEF IInv, KindKeepsFrames, Honest, Modest
      <4> QED  BY <2>2, <4>1 DEF Findable
    <3>3. End(i) <= low
      <4>1. CASE i <= j
        <5>1. j \in Sent  BY <1>2, <4>1
        <5>2. i = j \/ End(i) <= Start(j)  BY <1>2, <4>1, <5>1
        <5>3. Start(j) <= End(j)
          BY <5>1, FrameFacts DEF IInv
        <5> QED  BY <1>2, <3>1, <5>1, <5>2, <5>3
      <4>2. CASE j < i
        <5>1. CASE j = i - 1  BY <3>1, <3>2, <1>2, <5>1 DEF Start
        <5>2. CASE j < i - 1
          <6>1. i - 1 \in Sent /\ j < i - 1  BY <1>2, <4>2, <5>2
          <6>2. low <= Start(i)
            <7>1. CASE j = 0  BY <1>2, <3>1, <7>1 DEF End
            <7>2. CASE j # 0
              <8>1. j \in Sent  BY <1>2, <7>2
              <8> QED  BY <1>2, <3>1, <4>2, <8>1
            <7> QED  BY <7>1, <7>2
          <6> QED  BY <3>2, <6>2
        <5> QED  BY <1>2, <4>2, <5>1, <5>2
      <4> QED  BY <1>2, <4>1, <4>2
    <3> QED  BY <2>2, <3>3 DEF IInv, KindKeepsFrames
  <2>3. kind => NothingLost'  BY <1>1, <2>2 DEF NothingLost
  <2> QED  BY <1>1, <2>1, <2>3 DEF IInv, KindKeepsFrames
<1> QED  BY <1>1, <1>3, <1>4, <1>5, <1>6, <1>7 DEF IInv

LEMMA StopAtRestIInv ==
  ASSUME IInv, StopAtRest
  PROVE  IInv'
<1>1. ASSUME NEW i \in Sent PROVE ~Findable(i, low)
  <2>1. /\ Start(i) \in Nat /\ End(i) \in Nat /\ Start(i) + HeaderSize <= End(i)
        /\ low \in Nat /\ high \in Nat /\ high - low < MagicSize
    BY FrameFacts DEF IInv, TypeOK, StopAtRest
  <2>2. low <= Start(i) => high < End(i)  BY <2>1, SizesAreNumbers
  <2> QED  BY <2>1, <2>2 DEF Findable
<1> QED  BY <1>1, StopIInv DEF StopAtRest

LEMMA StopAtHalfIInv ==
  ASSUME IInv, StopAtHalf
  PROVE  IInv'
<1> DEFINE f == FrameAt(low)
<1>1. f \in Sent /\ Start(f) = low /\ ~(high >= Start(f) + lengths[f])
  BY FrontFrame DEF StopAtHalf, Complete
<1> HIDE DEF f
<1>2. /\ Sent = 1 .. Len(sent) /\ Len(sent) \in Nat
      /\ \A i \in Sent : /\ Start(i) \in Nat /\ End(i) \in Nat /\ Start(i) < End(i)
                         /\ lengths[i] \in Nat
      /\ \A i, j \in Sent : i < j => End(i) <= Start(j) /\ Start(i) < Start(j)
      /\ high \in Nat /\ low \in Nat
  BY FrameFacts DEF IInv, TypeOK
<1>3. ASSUME NEW i \in Sent, Findable(i, low) PROVE FALSE
  <2>1. /\ low <= Start(i) /\ End(i) <= high /\ Start(i) + lengths[i] = End(i)
        /\ \A j \in Sent : low <= Start(j) /\ j < i => Start(j) + lengths[j] <= End(j)
    BY <1>3 DEF Findable, Honest, Modest
  <2>2. CASE i = f  BY <1>1, <1>2, <2>1, <2>2
  <2>3. CASE f < i
    <3>1. Start(f) + lengths[f] <= End(f)  BY <1>1, <1>2, <2>1, <2>3
    <3>2. End(f) <= Start(i) /\ Start(i) < End(i)  BY <1>1, <1>2, <2>3
    <3> QED  BY <1>1, <1>2, <2>1, <3>1, <3>2
  <2>4. CASE i < f  BY <1>1, <1>2, <2>1, <2>4
  <2> QED  BY <1>1, <1>2, <2>2, <2>3, <2>4
<1> QED  BY <1>3, StopIInv DEF StopAtHalf

\* One byte is erased that does not begin a frame the loop is to find.
LEMMA SkipIInv ==
  ASSUME IInv, reading, low < high, low' = low + 1, ~kind,
         UNCHANGED <<sent, lengths, high, from, reading, data, delivered, kind>>,
         high - from <= MaxFrameSize =>
           \A i \in Sent : Start(i) = low /\ End(i) <= high => ~Honest(i)
  PROVE  IInv'
<1>2. /\ FramesInOrder' /\ Sent' = Sent /\ StreamSize' = StreamSize
      /\ \A i : End(i)' = End(i) /\ Start(i)' = Start(i)
      /\ \A i : Honest(i)' = Honest(i) /\ Modest(i)' = Modest(i)
      /\ Delivered' = Delivered
  BY SameFrames, SameDelivered DEF IInv
<1>3. /\ \A i \in Sent : Start(i) \in Nat /\ End(i) \in Nat /\ lengths[i] \in Nat
      /\ low \in Nat /\ high \in Nat /\ from \in Nat /\ from <= low
      /\ \A i \in Delivered : i \in Sent
  BY FrameFacts DEF IInv, TypeOK, DeliveredIsErased
<1>4. low + 1 <= high  BY <1>3
<1>5. TypeOK'  BY <1>2, <1>3, <1>4 DEF IInv, TypeOK
<1>6. DeliveredIsErased'
  <2>1. \A i \in Delivered : Start(i) + lengths[i] <= low + 1
    BY <1>3 DEF IInv, DeliveredIsErased
  <2> QED  BY <1>2, <2>1 DEF IInv, DeliveredIsErased
<1>7. PayloadOfFrame'  BY <1>2 DEF IInv, PayloadOfFrame
<1>8. StillToFind'
  <2> SUFFICES ASSUME high - from <= MaxFrameSize, NEW i \in Sent, Findable(i, from)'
               PROVE  i \in Delivered \/ (reading /\ low + 1 <= Start(i))
    BY <1>2 DEF StillToFind
  <2>1. Findable(i, from)  BY <1>2 DEF Findable
  <2>2. i \in Delivered \/ low <= Start(i)  BY <2>1 DEF IInv, StillToFind
  <2>3. Start(i) # low  BY <2>1 DEF Findable
  <2> QED  BY <1>3, <2>2, <2>3
<1>10. KindKeepsFrames'  BY DEF KindKeepsFrames
<1> QED  BY <1>2, <1>5, <1>6, <1>7, <1>8, <1>10 DEF IInv

LEMMA SkipToHeaderIInv ==
  ASSUME IInv, SkipToHeader
  PROVE  IInv'
<1>1. /\ reading /\ high - low >= MagicSize /\ ~HeaderAt(low, high)
      /\ low' = low + 1
      /\ UNCHANGED <<sent, lengths, high, from, reading, data, delivered, kind>>
  BY DEF SkipToHeader, SkipByte
<1>2. /\ \A i \in Sent : /\ Start(i) \in Nat /\ End(i) \in Nat
                         /\ Start(i) + HeaderSize <= End(i)
      /\ low \in Nat /\ high \in Nat /\ from \in Nat /\ from <= low
  BY FrameFacts DEF IInv, TypeOK
<1>3. low < high  BY <1>1, <1>2, SizesAreNumbers
<1>4. ~kind  BY <1>1, <1>3, KindHasHeader
<1>5. ASSUME high - from <= MaxFrameSize, NEW i \in Sent, Start(i) = low, End(i) <= high
      PROVE  FALSE
  <2>1. high - low >= HeaderSize /\ high - low <= MaxFrameSize
    BY <1>2, <1>5, SizesAreNumbers
  <2> QED  BY <1>1, <1>5, <2>1 DEF HeaderAt
<1> QED  BY <1>1, <1>3, <1>4, <1>5, SkipIInv

LEMMA SkipUnreadableIInv ==
  ASSUME IInv, SkipUnreadable
  PROVE  IInv'
<1> DEFINE f == FrameAt(low)
<1>1. /\ f \in Sent /\ Start(f) = low /\ ~(lengths[f] >= HeaderSize)
      /\ reading /\ low' = low + 1 /\ high - low >= HeaderSize
      /\ UNCHANGED <<sent, lengths, high, from, reading, data, delivered, kind>>
  BY FrontFrame DEF SkipUnreadable, SkipByte, Readable, HeaderAt
<1> HIDE DEF f
<1>2. /\ \A i \in Sent : /\ Start(i) \in Nat /\ End(i) \in Nat /\ lengths[i] \in Nat
                         /\ Start(i) + HeaderSize <= End(i)
      /\ \A i, j \in Sent : i < j => Start(i) < Start(j)
      /\ low \in Nat /\ high \in Nat /\ Sent = 1 .. Len(sent) /\ Len(sent) \in Nat
  BY FrameFacts DEF IInv, TypeOK
<1>3. low < high  BY <1>1, <1>2, SizesAreNumbers
<1>4. ~Honest(f)  BY <1>1, <1>2, SizesAreNumbers DEF Honest
<1>5. \A i \in Sent : Start(i) = low => i = f  BY <1>1, <1>2
<1>6. ~kind  BY <1>1, <1>4 DEF IInv, KindKeepsFrames
<1> QED  BY <1>1, <1>3, <1>4, <1>5, <1>6, SkipIInv

LEMMA TakeFrameIInv ==
  ASSUME IInv, TakeFrame
  PROVE  IInv'
<1> DEFINE f == FrameAt(low)
           d == PayloadOf(f, data)
           n == Len(delivered)
           e == low + lengths[f]
<1>1. /\ f \in Sent /\ Start(f) = low /\ high >= e /\ lengths[f] >= HeaderSize
      /\ reading /\ low' = e /\ data' = d
      /\ delivered' = Append(delivered, [frame |-> f, data |-> d])
      /\ UNCHANGED <<sent, lengths, high, from, reading, kind>>
  BY FrontFrame DEF TakeFrame, Complete, Readable
<1>1a. e = Start(f) + lengths[f]  BY <1>1
<1> HIDE DEF f
<1>2. /\ FramesInOrder' /\ Sent' = Sent /\ StreamSize' = StreamSize
      /\ \A i : End(i)' = End(i) /\ Start(i)' = Start(i)
      /\ \A i : Honest(i)' = Honest(i) /\ Modest(i)' = Modest(i)
  BY <1>1, SameFrames DEF IInv
<1>3. /\ Sent = 1 .. Len(sent) /\ Len(sent) \in Nat /\ Len(sent) <= MaxFrames
      /\ \A i \in Sent : /\ Start(i) \in Nat /\ End(i) \in Nat /\ Start(i) < End(i)
                         /\ lengths[i] \in Nat
      /\ \A i, j \in Sent : i < j => End(i) <= Start(j) /\ Start(i) < Start(j)
      /\ low \in Nat /\ high \in Nat /\ from \in Nat /\ from <= low
      /\ data \in 0 .. Len(sent)
  BY FrameFacts DEF IInv, TypeOK
<1>3a. e \in Nat /\ low < e  BY <1>1, <1>3, SizesAreNumbers
<1> HIDE DEF e
<1>4. d \in 0 .. Len(sent) /\ f \in 1 .. MaxFrames /\ d \in 0 .. MaxFrames
  <2>1. d \in {data, f}  BY SMTT(30) DEF PayloadOf
  <2> HIDE DEF d
  <2> QED  BY <1>1, <1>3, <2>1, SizesAreNumbers
<1>5. d = f \/ lengths[f] = HeaderSize  BY DEF PayloadOf
<1> HIDE DEF d
<1>6. /\ delivered \in Seq(Delivery) /\ delivered' \in Seq(Delivery)
      /\ n \in Nat /\ DOMAIN delivered = 1 .. n
      /\ DOMAIN delivered' = 1 .. n + 1
      /\ \A k \in 1 .. n : delivered'[k] = delivered[k]
      /\ delivered'[n + 1] = [frame |-> f, data |-> d]
  <2>1. [frame |-> f, data |-> d] \in Delivery  BY <1>4 DEF Delivery
  <2>2. delivered \in Seq(Delivery)  BY DEF IInv, TypeOK
  <2> QED  BY <1>1, <2>1, <2>2
<1> HIDE DEF n
<1>7. Delivered' = Delivered \cup {f}
  <2>1. \A k \in DOMAIN delivered' : k \in DOMAIN delivered \/ k = n + 1  BY <1>6
  <2>2. n + 1 \in DOMAIN delivered' /\ delivered'[n + 1].frame = f
        /\ \A k \in DOMAIN delivered : k \in DOMAIN delivered'
    BY <1>6
  <2> QED  BY <1>6, <2>1, <2>2 DEF Delivered
<1>8. \A i \in Delivered : i \in Sent /\ Start(i) + lengths[i] <= low /\ lengths[i] >= HeaderSize
  BY DEF IInv, DeliveredIsErased
<1>9. TypeOK'
  BY <1>1, <1>2, <1>3, <1>3a, <1>4, <1>6 DEF IInv, TypeOK
<1>10. DeliveredIsErased'
  <2>1. \A i \in Delivered : i < f
    <3> TAKE i \in Delivered
    <3>1. i \in Sent /\ Start(i) < low
      <4>1. /\ i \in Sent /\ Start(i) + lengths[i] <= low /\ lengths[i] >= HeaderSize
            /\ Start(i) \in Nat /\ lengths[i] \in Nat /\ low \in Nat
        BY <1>3, <1>8
      <4> QED  BY <4>1, SizesAreNumbers
    <3>2. i = f \/ f < i => low <= Start(i)  BY <1>1, <1>3, <3>1
    <3> QED  BY <1>1, <1>3, <3>1, <3>2
  <2>2. \A k \in 1 .. n : delivered'[k].frame < f
    <3>1. \A k \in 1 .. n : delivered[k].frame \in Delivered  BY <1>6 DEF Delivered
    <3> QED  BY <1>6, <2>1, <3>1
  <2>3. \A k, m \in 1 .. n + 1 : k < m => delivered'[k].frame < delivered'[m].frame
    <3> SUFFICES ASSUME NEW k \in 1 .. n + 1, NEW m \in 1 .. n + 1, k < m
                 PROVE  delivered'[k].frame < delivered'[m].frame
      OBVIOUS
    <3>1. k \in 1 .. n  BY <1>6
    <3>2. CASE m = n + 1
      <4>1. delivered'[m].frame = f  BY <1>6, <3>2
      <4> QED  BY <2>2, <3>1, <4>1
    <3>3. CASE m \in 1 .. n
      <4>1. delivered[k].frame < delivered[m].frame
        BY <1>6, <3>1, <3>3 DEF IInv, DeliveredIsErased
      <4> QED  BY <1>6, <3>1, <3>3, <4>1
    <3> QED  BY <1>6, <3>2, <3>3
  <2>4. \A i \in Delivered' :
          i \in Sent' /\ Start(i)' + lengths'[i] <= low' /\ lengths'[i] >= HeaderSize
    <3>1. \A i \in Delivered : Start(i) + lengths[i] <= e  BY <1>3, <1>3a, <1>8
    <3>2. Start(f) + lengths[f] <= e  BY <1>1a, <1>3a
    <3> QED  BY <1>1, <1>2, <1>7, <1>8, <3>1, <3>2
  <2> QED  BY <1>6, <2>3, <2>4 DEF DeliveredIsErased
<1>11. PayloadOfFrame'
  <2> SUFFICES ASSUME NEW k \in 1 .. n + 1,
                      lengths[delivered'[k].frame] > HeaderSize
               PROVE  delivered'[k].data = delivered'[k].frame
    BY <1>1, <1>2, <1>6 DEF PayloadOfFrame
  <2>1. CASE k = n + 1
    <3>1. delivered'[k].frame = f /\ delivered'[k].data = d  BY <1>6, <2>1
    <3>2. lengths[f] > HeaderSize  BY <3>1
    <3>3. d = f  BY <1>1, <1>3, <1>5, <3>2, SizesAreNumbers
    <3> QED  BY <3>1, <3>3
  <2>2. CASE k \in 1 .. n
    BY <1>6, <2>2 DEF IInv, PayloadOfFrame
  <2> QED  BY <1>6, <2>1, <2>2
<1>12. StillToFind'
  <2> SUFFICES ASSUME high - from <= MaxFrameSize, NEW i \in Sent, Findable(i, from)',
                      i \notin Delivered, i # f
               PROVE  e <= Start(i)
    BY <1>1, <1>2, <1>7 DEF StillToFind
  <2>1. Findable(i, from)  BY <1>1, <1>2 DEF Findable
  <2>2. low <= Start(i)  BY <2>1 DEF IInv, StillToFind
  <2>3. f < i  BY <1>1, <1>3, <2>2
  <2>4. e <= End(f)
    <3>1. from <= Start(f)  BY <1>1, <1>3
    <3>2. Modest(f)  BY <1>1, <2>1, <2>3, <3>1 DEF Findable
    <3> QED  BY <1>1a, <3>2 DEF Modest
  <2>5. End(f) <= Start(i)  BY <1>1, <1>3, <2>3
  <2> QED  BY <1>1, <1>3, <1>3a, <2>4, <2>5
<1>13. KindKeepsFrames'
  <2> SUFFICES ASSUME kind PROVE KindKeepsFrames'  BY <1>1 DEF KindKeepsFrames
  <2>0. e = End(f)  BY <1>1, <1>1a DEF IInv, KindKeepsFrames, Honest
  <2>1. \E j \in 0 .. Len(sent)' : End(j)' = low'
    BY <1>1, <1>2, <1>3, <2>0
  <2>2. ASSUME NEW i \in Sent, End(i) <= End(f) PROVE i \in Delivered \cup {f}
    <3>1. CASE i = f  BY <3>1
    <3>2. CASE i < f
      <4>1. End(i) <= low  BY <1>1, <1>3, <3>2
      <4> QED  BY <4>1 DEF IInv, KindKeepsFrames
    <3>3. CASE f < i
      <4>1. End(f) <= Start(i) /\ Start(i) < End(i)  BY <1>1, <1>3, <3>3
      <4> QED  BY <1>1, <1>3, <2>2, <4>1
    <3> QED  BY <1>1, <1>3, <3>1, <3>2, <3>3
  <2>3. Kind(high)'
    <3>1. /\ high - low <= MaxFrameSize
          /\ \A i \in Sent : high \notin (Start(i) + 1)..(Start(i) + HeaderSize - 1)
      BY DEF IInv, KindKeepsFrames, Kind
    <3>2. low <= End(f) /\ End(f) \in Nat  BY <1>1, <1>3
    <3>3. high - End(f) <= MaxFrameSize  BY <1>3, <3>1, <3>2, SizesAreNumbers
    <3> QED  BY <1>1, <1>2, <2>0, <3>1, <3>3 DEF Kind
  <2>4. \A i \in Sent' : Honest(i)'  BY <1>2 DEF IInv, KindKeepsFrames
  <2> QED  BY <1>1, <1>2, <1>7, <2>0, <2>1, <2>2, <2>3, <2>4 DEF KindKeepsFrames
<1> QED  BY <1>2, <1>9, <1>10, <1>11, <1>12, <1>13 DEF IInv

\* The invariant of the stream: frames do not overlap, what was delivered has
\* been erased, and what is complete and was in the buffer is still in front of
\* the loop of ReadStream.
THEOREM FrameIInv == Spec => []IInv
<1>1. IInv /\ [Next]_vars => IInv'
  <2> SUFFICES ASSUME IInv, [Next]_vars PROVE IInv'  OBVIOUS
  <2>1. ASSUME NEW size \in FrameSizes, NEW length \in {size} \cup Lies, Send(size, length)
        PROVE  IInv'
    BY <2>1, SendIInv
  <2>2. ASSUME NEW n \in 1..MaxReceive, Receive(n) PROVE IInv'  BY <2>2, ReceiveIInv
  <2>3. CASE StopAtRest  BY <2>3, StopAtRestIInv
  <2>4. CASE SkipToHeader  BY <2>4, SkipToHeaderIInv
  <2>5. CASE StopAtHalf  BY <2>5, StopAtHalfIInv
  <2>6. CASE TakeFrame  BY <2>6, TakeFrameIInv
  <2>7. CASE SkipUnreadable  BY <2>7, SkipUnreadableIInv
  <2>8. CASE UNCHANGED vars
    <3>1. /\ FramesInOrder' /\ Sent' = Sent /\ StreamSize' = StreamSize
          /\ \A i : End(i)' = End(i) /\ Start(i)' = Start(i)
          /\ \A i : Honest(i)' = Honest(i) /\ Modest(i)' = Modest(i)
          /\ Delivered' = Delivered
      BY <2>8, SameFrames, SameDelivered DEF IInv, vars
    <3>2. \A i : Findable(i, from)' <=> Findable(i, from)  BY <2>8, <3>1 DEF vars, Findable
    <3> QED
      BY <2>8, <3>1, <3>2 DEF IInv, vars, TypeOK, DeliveredIsErased, PayloadOfFrame,
                              StillToFind, KindKeepsFrames, Kind, NothingLost
  <2> QED  BY <2>1, <2>2, <2>3, <2>4, <2>5, <2>6, <2>7, <2>8 DEF Next
<1> QED  BY <1>1, InitIInv, PTL DEF Spec

-----------------------------------------------------------------------------
\* However the network cuts the stream and whatever lengths the headers have,
\* HandleClient delivers each frame at most once, in the order of sending, and
\* not before there are as many bytes as its header says.
THEOREM FrameOnceAndInOrder == Spec => []OnceAndInOrder
<1>1. IInv => OnceAndInOrder
  <2> SUFFICES ASSUME IInv, NEW i \in Delivered
               PROVE  Start(i) + lengths[i] <= high /\ lengths[i] >= HeaderSize
    BY DEF IInv, DeliveredIsErased, OnceAndInOrder
  <2>1. i \in Sent /\ Start(i) + lengths[i] <= low /\ lengths[i] >= HeaderSize
    BY DEF IInv, DeliveredIsErased
  <2>2. Start(i) \in Nat /\ lengths[i] \in Nat /\ low \in Nat /\ high \in Nat /\ low <= high
    BY <2>1, FrameFacts DEF IInv, TypeOK
  <2> QED  BY <2>1, <2>2
<1> QED  BY <1>1, FrameIInv, PTL

\* ReadBytes gives each frame with a payload its own, though all frames of a
\* piece share one Frame object.
THEOREM FramePayloadCorrect == Spec => []PayloadOfFrame
<1>1. IInv => PayloadOfFrame  BY DEF IInv
<1> QED  BY <1>1, FrameIInv, PTL

\* ReadStream resynchronises: it delivers every frame that lies in the buffer as
\* a whole, unless the buffer is longer than ReadHeader accepts, the header of the
\* frame is wrong, or one in front of it asks for more than its own frame.
THEOREM FrameFindsNext == Spec => []FindsNextFrame
<1>1. IInv => FindsNextFrame  BY DEF IInv, StillToFind, Findable, FindsNextFrame
<1> QED  BY <1>1, FrameIInv, PTL

\* As long as the headers are right, no piece ends in a header and the buffer
\* stays within a frame's maximal size, ReadStream loses no frame.
THEOREM FrameKindLosesNothing == Spec => []KindLosesNothing
<1>1. IInv => KindLosesNothing  BY DEF IInv, KindKeepsFrames, KindLosesNothing
<1> QED  BY <1>1, FrameIInv, PTL

-----------------------------------------------------------------------------
(* Bytes of numbers. *)

LEMMA Widths ==
  /\ Base \in Nat /\ Base > 0
  /\ Width32 \in Nat /\ Width64 \in Nat /\ 0 < Width32 /\ Width32 <= Width64
BY WidthAssumption DEF Blob

LEMMA PlaceIsLoop ==
  Place = [k \in 0 .. Width64 |-> IF k = 0 THEN 1 ELSE Base * Place[k - 1]]
<1>1. PICK G : G = [k \in 1 .. Width64 |-> [v \in Nat |-> Base * v]]  OBVIOUS
<1>2. G \in Passes(Width64, Nat)
  <2>1. \A v \in Nat : Base * v \in Nat  BY Widths
  <2> QED  BY <1>1, <2>1 DEF Passes
<1>3. PICK f : IsRun(f, Width64, Nat, 1, G)
  <2>1. 1 \in Nat  OBVIOUS
  <2>2. Width64 \in Nat  BY Widths
  <2> QED  BY <1>2, <2>1, <2>2, LoopEnds
<1>3a. /\ f \in [0 .. Width64 -> Nat] /\ f[0] = 1
      /\ \A k \in 1 .. Width64 : f[k] = G[k][f[k - 1]]
  BY <1>3 DEF IsRun
<1>4. \A k \in 1 .. Width64 : G[k][f[k - 1]] = Base * f[k - 1]
  <2> SUFFICES ASSUME NEW k \in 1 .. Width64 PROVE G[k][f[k - 1]] = Base * f[k - 1]
    OBVIOUS
  <2>1. k - 1 \in 0 .. Width64  BY Widths
  <2>2. f[k - 1] \in Nat  BY <1>3a, <2>1
  <2> QED  BY <1>1, <2>1, <2>2
<1>5. f = [k \in 0 .. Width64 |-> IF k = 0 THEN 1 ELSE Base * f[k - 1]]
  <2>1. \A k \in 0 .. Width64 : k # 0 => k \in 1 .. Width64  BY Widths
  <2>2. \A k \in 0 .. Width64 : f[k] = IF k = 0 THEN 1 ELSE Base * f[k - 1]
    BY <1>3a, <1>4, <2>1
  <2> QED  BY <1>3a, <2>2
<1>6. \E g : g = [k \in 0 .. Width64 |-> IF k = 0 THEN 1 ELSE Base * g[k - 1]]
  BY <1>5
<1> QED  BY <1>6, Zenon DEF Place

LEMMA PlaceFacts ==
  /\ Place[0] = 1
  /\ \A k \in 1 .. Width64 : Place[k] = Base * Place[k - 1]
  /\ \A k \in 0 .. Width64 : Place[k] \in Nat /\ Place[k] > 0
<1>1. Place[0] = 1 /\ \A k \in 1 .. Width64 : Place[k] = Base * Place[k - 1]
  <2>1. 0 \in 0 .. Width64 /\ \A k \in 1 .. Width64 : k \in 0 .. Width64 /\ k # 0
    BY Widths
  <2> QED  BY <2>1, PlaceIsLoop
<1> DEFINE P == {k \in 0 .. Width64 : Place[k] \in Nat /\ Place[k] > 0}
<1>2. 0 \in P  BY <1>1, Widths
<1>3. ASSUME NEW k \in 0 .. Width64 - 1, k \in P PROVE k + 1 \in P
  <2>1. k + 1 \in 1 .. Width64 /\ k + 1 \in 0 .. Width64 /\ (k + 1) - 1 = k  BY Widths
  <2>2. Place[k + 1] = Base * Place[k]  BY <1>1, <2>1
  <2>3. \A v \in Nat : v > 0 => Base * v \in Nat /\ Base * v > 0  BY Widths
  <2> QED  BY <1>3, <2>1, <2>2, <2>3
<1>4. \A k \in 0 .. Width64 : k \in P
  <2> HIDE DEF P
  <2> QED  BY <1>2, <1>3, Upward, Widths
<1> QED  BY <1>1, <1>4

\* The lowest bytes of a number and the next one.
LEMMA OneMoreByte ==
  ASSUME NEW a \in Int, NEW m \in Nat, m > 0, NEW b \in Nat, b > 0
  PROVE  a % (b * m) = (a % m) + ((a \div m) % b) * m
<1>1. PICK q \in Int, r \in 0 .. m - 1 : q = a \div m /\ r = a % m /\ a = q * m + r
  BY Division
<1>2. PICK z \in Int, d \in 0 .. b - 1 : d = q % b /\ q = z * b + d
  BY Division
<1>3. b * m \in Nat /\ b * m > 0
  <2> QED  OBVIOUS
<1>4. PICK y \in Int, s \in 0 .. b * m - 1 : s = a % (b * m) /\ a = y * (b * m) + s
  BY <1>3, Division
<1>5. PICK t \in Int : t = d * m + r  OBVIOUS
<1>6. t \in 0 .. b * m - 1
  <2>1. d * m >= 0  OBVIOUS
  <2>2. d * m <= (b - 1) * m  OBVIOUS
  <2>3. (b - 1) * m = b * m - m  OBVIOUS
  <2> QED  BY <1>5, <2>1, <2>2, <2>3
<1>7. a = z * (b * m) + t
  <2>1. q * m = (z * b) * m + d * m  BY <1>2
  <2>2. (z * b) * m = z * (b * m)  OBVIOUS
  <2> QED  BY <1>1, <1>5, <2>1, <2>2
<1>8. s = t  BY <1>3, <1>4, <1>6, <1>7, OneRemainder
<1> QED  BY <1>1, <1>2, <1>4, <1>5, <1>8

\* What the loop of ReadBytes adds up.
LEMMA NumberRuns ==
  ASSUME NEW s \in Seq(Byte), Len(s) <= Width64
  PROVE  \E sum \in [0 .. Len(s) -> Nat] :
           /\ Number(s) = sum[Len(s)]
           /\ sum[0] = 0
           /\ \A k \in 1 .. Len(s) : sum[k] = sum[k - 1] + s[k] * Place[k - 1]
<1>1. /\ Len(s) \in Nat
      /\ \A k \in 1 .. Len(s) : k - 1 \in 0 .. Len(s) /\ Place[k - 1] \in Nat /\ s[k] \in Nat
  <2>1. Len(s) \in Nat /\ \A k \in 1 .. Len(s) : s[k] \in Byte  OBVIOUS
  <2>2. \A k \in 1 .. Len(s) : k - 1 \in 0 .. Len(s) /\ k - 1 \in 0 .. Width64
    BY <2>1, Widths
  <2>3. \A b \in Byte : b \in Nat  BY Widths DEF Byte
  <2> QED  BY <2>1, <2>2, <2>3, PlaceFacts
<1>2. PICK G : G = [k \in 1 .. Len(s) |-> [v \in Nat |-> v + s[k] * Place[k - 1]]]
  OBVIOUS
<1>3. G \in Passes(Len(s), Nat)
  <2>1. \A k \in 1 .. Len(s) : s[k] * Place[k - 1] \in Nat
    <3>1. \A x, y \in Nat : x * y \in Nat  OBVIOUS
    <3> QED  BY <1>1, <3>1
  <2>2. \A k \in 1 .. Len(s), v \in Nat : v + s[k] * Place[k - 1] \in Nat
    BY <2>1
  <2> QED  BY <1>2, <2>2 DEF Passes
<1>4. PICK f : IsRun(f, Len(s), Nat, 0, G)
  <2>1. 0 \in Nat  OBVIOUS
  <2> QED  BY <1>1, <1>3, <2>1, LoopEnds
<1>5. /\ f \in [0 .. Len(s) -> Nat] /\ f[0] = 0
      /\ \A k \in 1 .. Len(s) : f[k] = G[k][f[k - 1]]
  BY <1>4 DEF IsRun
<1>6. \A k \in 1 .. Len(s) : f[k] = f[k - 1] + s[k] * Place[k - 1]
  <2> SUFFICES ASSUME NEW k \in 1 .. Len(s) PROVE f[k] = f[k - 1] + s[k] * Place[k - 1]
    OBVIOUS
  <2>1. f[k - 1] \in Nat  BY <1>1, <1>5
  <2> QED  BY <1>2, <1>5, <2>1
<1> DEFINE IsLow(sum) == sum = [k \in 0 .. Len(s) |->
                                  IF k = 0 THEN 0 ELSE sum[k - 1] + s[k] * Place[k - 1]]
<1>7. IsLow(f)
  <2>1. \A k \in 0 .. Len(s) : k # 0 => k \in 1 .. Len(s)  BY <1>1
  <2>2. \A k \in 0 .. Len(s) : f[k] = IF k = 0 THEN 0 ELSE f[k - 1] + s[k] * Place[k - 1]
    BY <1>5, <1>6, <2>1
  <2> QED  BY <1>5, <2>2
<1>8. PICK sum : IsLow(sum) /\ Number(s) = sum[Len(s)]
  <2>1. \E g : IsLow(g)  BY <1>7
  <2>2. IsLow(CHOOSE g : IsLow(g))
    <3> HIDE DEF IsLow
    <3> QED  BY <2>1, Zenon
  <2>3. Number(s) = (CHOOSE g : IsLow(g))[Len(s)]  BY Zenon DEF Number
  <2> HIDE DEF IsLow
  <2> QED  BY <2>2, <2>3, Zenon
<1>9. /\ sum[0] = 0
      /\ \A k \in 1 .. Len(s) : sum[k] = sum[k - 1] + s[k] * Place[k - 1]
  <2>1. 0 \in 0 .. Len(s) /\ \A k \in 1 .. Len(s) : k \in 0 .. Len(s) /\ k # 0  BY <1>1
  <2> QED  BY <1>8, <2>1
<1>10. sum \in [0 .. Len(s) -> Nat]
  <2> DEFINE P == {k \in 0 .. Len(s) : sum[k] \in Nat}
  <2>1. 0 \in P  BY <1>1, <1>9
  <2>2. ASSUME NEW k \in 0 .. Len(s) - 1, k \in P PROVE k + 1 \in P
    <3>1. k + 1 \in 1 .. Len(s) /\ k + 1 \in 0 .. Len(s) /\ (k + 1) - 1 = k  BY <1>1
    <3>2. sum[k + 1] = sum[k] + s[k + 1] * Place[k]  BY <1>9, <3>1
    <3>3. Place[k] \in Nat /\ s[k + 1] \in Nat  BY <1>1, <3>1
    <3>4. s[k + 1] * Place[k] \in Nat  BY <3>3
    <3> QED  BY <2>2, <3>1, <3>2, <3>4
  <2>3. \A k \in 0 .. Len(s) : k \in P
    <3> HIDE DEF P
    <3> QED  BY <1>1, <2>1, <2>2, Upward
  <2> QED  BY <1>8, <2>3
<1> QED  BY <1>8, <1>9, <1>10

LEMMA NumberIsNat ==
  ASSUME NEW s \in Seq(Byte), Len(s) <= Width64 PROVE Number(s) \in Nat
<1>1. PICK sum \in [0 .. Len(s) -> Nat] : Number(s) = sum[Len(s)]  BY NumberRuns
<1>2. Len(s) \in 0 .. Len(s)  OBVIOUS
<1> QED  BY <1>1, <1>2

LEMMA WriteBytesFacts ==
  ASSUME NEW n \in Int, NEW w \in 0 .. Width64
  PROVE  WriteBytes(n, w) \in Seq(Byte) /\ Len(WriteBytes(n, w)) = w
<1>1. ASSUME NEW k \in 1 .. w PROVE (n \div Place[k - 1]) % Base \in Byte
  <2>1. k - 1 \in 0 .. Width64  BY Widths
  <2>2. Place[k - 1] \in Nat /\ Place[k - 1] > 0  BY <2>1, PlaceFacts
  <2>3. n \div Place[k - 1] \in Int  BY <2>2, Division
  <2>4. (n \div Place[k - 1]) % Base \in 0 .. Base - 1  BY <2>3, Widths, Division
  <2> QED  BY <2>4 DEF Byte
<1> QED  BY <1>1 DEF WriteBytes

\* What is read from the bytes of a number is the number, as unsigned.
LEMMA NumberOfBytes ==
  ASSUME NEW n \in Int, NEW w \in 0 .. Width64
  PROVE  Number(WriteBytes(n, w)) = n % Place[w]
<1>1. PICK s \in Seq(Byte) : s = WriteBytes(n, w) /\ Len(s) = w  BY WriteBytesFacts
<1>2. w \in Nat /\ w <= Width64  BY Widths
<1>3. PICK sum \in [0 .. w -> Nat] :
        /\ Number(s) = sum[w]
        /\ sum[0] = 0
        /\ \A k \in 1 .. w : sum[k] = sum[k - 1] + s[k] * Place[k - 1]
  BY <1>1, <1>2, NumberRuns
<1> DEFINE rest == [k \in 0 .. w |-> n % Place[k]]
<1>3b. \A k \in 0 .. w : rest[k] = n % Place[k]  OBVIOUS
<1> HIDE DEF rest
<1> DEFINE P == {k \in 0 .. w : sum[k] = rest[k]}
<1>4. 0 \in P
  <2>1. n % 1 = 0  OBVIOUS
  <2>2. 0 \in 0 .. w  BY <1>2
  <2>3. sum[0] = rest[0]  BY <1>3, <1>3b, <2>1, <2>2, PlaceFacts
  <2> QED  BY <2>2, <2>3
<1>5. ASSUME NEW k \in 0 .. w - 1, k \in P PROVE k + 1 \in P
  <2>1. /\ k + 1 \in 1 .. w /\ k + 1 \in 0 .. w /\ (k + 1) - 1 = k
        /\ k + 1 \in 1 .. Width64 /\ k \in 0 .. Width64
    BY <1>2, Widths
  <2>2. s[k + 1] = (n \div Place[k]) % Base  BY <1>1, <2>1 DEF WriteBytes
  <2>3. sum[k + 1] = sum[k] + s[k + 1] * Place[k]  BY <1>3, <2>1
  <2>4. Place[k] \in Nat /\ Place[k] > 0 /\ Place[k + 1] = Base * Place[k]
    BY <2>1, PlaceFacts
  <2>5. n % (Base * Place[k]) = (n % Place[k]) + ((n \div Place[k]) % Base) * Place[k]
    BY <2>4, Widths, OneMoreByte
  <2>6. sum[k] = n % Place[k]
    <3>1. sum[k] = rest[k]  BY <1>5
    <3> QED  BY <2>1, <3>1, <1>3b
  <2>7. sum[k + 1] = n % Place[k + 1]  BY <2>2, <2>3, <2>4, <2>5, <2>6
  <2>8. sum[k + 1] = rest[k + 1]  BY <1>3b, <2>1, <2>7
  <2> QED  BY <2>1, <2>8
<1>6. \A k \in 0 .. w : k \in P
  <2> HIDE DEF P
  <2> QED  BY <1>2, <1>4, <1>5, Upward
<1>7. w \in P  BY <1>2, <1>6
<1>8. sum[w] = n % Place[w]
  <2>1. w \in 0 .. w /\ sum[w] = rest[w]  BY <1>2, <1>7
  <2> QED  BY <1>3b, <2>1
<1> QED  BY <1>1, <1>3, <1>8

\* What fits is read as it was written.
LEMMA NumberComesBack ==
  ASSUME NEW w \in 0 .. Width64, NEW n \in Numbers(w)
  PROVE  n \in Nat /\ Number(WriteBytes(n, w)) = n
<1>1. PICK m \in Nat : m = Place[w] /\ m > 0  BY PlaceFacts
<1>2. n \in 0 .. m - 1 /\ n \in Int  BY <1>1 DEF Numbers
<1>3. /\ n \div m \in Int /\ n % m \in 0 .. m - 1
      /\ n = (n \div m) * m + (n % m)
  BY <1>1, <1>2, Division
<1>4. n % m = n
  <2>1. (n \div m) * m + (n % m) = 0 * m + n  BY <1>1, <1>3
  <2>2. 0 \in Int  OBVIOUS
  <2> QED  BY <1>1, <1>2, <1>3, <2>1, <2>2, OneRemainder
<1> QED  BY <1>1, <1>2, <1>4, NumberOfBytes

LEMMA NumberOfOne ==
  ASSUME NEW b \in Byte PROVE Number(<<b>>) = b
<1>0. <<b>> \in Seq(Byte) /\ Len(<<b>>) = 1 /\ <<b>>[1] = b  OBVIOUS
<1>1. PICK s \in Seq(Byte) : s = <<b>> /\ Len(s) = 1 /\ s[1] = b  BY <1>0
<1>2. 1 <= Width64  BY Widths
<1>3. PICK sum \in [0 .. 1 -> Nat] :
        /\ Number(s) = sum[1]
        /\ sum[0] = 0
        /\ \A k \in 1 .. 1 : sum[k] = sum[k - 1] + s[k] * Place[k - 1]
  BY <1>1, <1>2, NumberRuns
<1>4. sum[1] = sum[0] + s[1] * Place[0]
  <2>1. 1 \in 1 .. 1 /\ 1 - 1 = 0  OBVIOUS
  <2> QED  BY <1>3, <2>1
<1>5. b \in Nat  BY Widths DEF Byte
<1> QED  BY <1>1, <1>3, <1>4, <1>5, PlaceFacts

-----------------------------------------------------------------------------
(* Pieces of a buffer. *)

\* The bytes of the buffer from the offset on are those of s.
At(buffer, offset, s) ==
  /\ offset \in Nat /\ offset + Len(s) <= Len(buffer)
  /\ \A i \in 1 .. Len(s) : buffer[offset + i] = s[i]

LEMMA TakeIsAt ==
  ASSUME NEW buffer \in Seq(Byte), NEW o \in Nat, NEW s \in Seq(Byte), At(buffer, o, s)
  PROVE  SubSeq(buffer, o + 1, o + Len(s)) = s
<1>1. Len(s) \in Nat /\ Len(buffer) \in Nat /\ o + Len(s) <= Len(buffer)  BY DEF At
<1>2. \A i \in o + 1 .. o + Len(s) : buffer[i] \in Byte  BY <1>1
<1>3. PICK t : t = SubSeq(buffer, o + 1, o + Len(s))  OBVIOUS
<1>4. o + 1 \in Int /\ o + Len(s) \in Int  BY <1>1
<1>5. /\ t \in Seq(Byte)
      /\ Len(t) = IF o + 1 <= o + Len(s) THEN o + Len(s) - (o + 1) + 1 ELSE 0
      /\ \A i \in 1 .. o + Len(s) - (o + 1) + 1 : t[i] = buffer[o + 1 + i - 1]
  BY <1>2, <1>3, <1>4, SubSeqProperties
<1>6. Len(t) = Len(s)  BY <1>1, <1>5
<1>7. \A i \in 1 .. Len(t) : t[i] = s[i]
  <2> SUFFICES ASSUME NEW i \in 1 .. Len(t) PROVE t[i] = s[i]  OBVIOUS
  <2>1. i \in 1 .. Len(s) /\ i \in 1 .. o + Len(s) - (o + 1) + 1 /\ o + 1 + i - 1 = o + i
    BY <1>1, <1>6
  <2>2. t[i] = buffer[o + i]
    <3>1. t[i] = buffer[o + 1 + i - 1]  BY <1>5, <2>1
    <3> QED  BY <2>1, <3>1
  <2> QED  BY <2>1, <2>2 DEF At
<1>8. t = s  BY <1>5, <1>6, <1>7, SeqEqual
<1> QED  BY <1>3, <1>8

Joined(c, s, t) == c = s \o t

LEMMA AtConcat ==
  ASSUME NEW buffer \in Seq(Byte), NEW o \in Nat, NEW s \in Seq(Byte), NEW t \in Seq(Byte),
         NEW c, Joined(c, s, t), At(buffer, o, c)
  PROVE  /\ At(buffer, o, s) /\ At(buffer, o + Len(s), t)
         /\ Len(c) = Len(s) + Len(t)
<1>0. c = s \o t  BY DEF Joined
<1>1. /\ Len(s) \in Nat /\ Len(t) \in Nat /\ Len(buffer) \in Nat
      /\ Len(c) = Len(s) + Len(t)
      /\ \A i \in 1 .. Len(s) + Len(t) :
           c[i] = IF i <= Len(s) THEN s[i] ELSE t[i - Len(s)]
  BY <1>0, ConcatProperties
<1>2. o + Len(s) + Len(t) <= Len(buffer)  BY <1>1 DEF At
<1>3. \A i \in 1 .. Len(s) + Len(t) : buffer[o + i] = c[i]  BY <1>1 DEF At
<1>4. At(buffer, o, s)
  <2>1. \A i \in 1 .. Len(s) : buffer[o + i] = s[i]
    <3> SUFFICES ASSUME NEW i \in 1 .. Len(s) PROVE buffer[o + i] = s[i]  OBVIOUS
    <3>1. i \in 1 .. Len(s) + Len(t) /\ i <= Len(s)  BY <1>1
    <3> QED  BY <1>1, <1>3, <3>1
  <2> QED  BY <1>1, <1>2, <2>1 DEF At
<1>5. At(buffer, o + Len(s), t)
  <2>1. \A i \in 1 .. Len(t) : buffer[(o + Len(s)) + i] = t[i]
    <3> SUFFICES ASSUME NEW i \in 1 .. Len(t) PROVE buffer[(o + Len(s)) + i] = t[i]  OBVIOUS
    <3>0. /\ Len(s) + i \in 1 .. Len(s) + Len(t) /\ ~(Len(s) + i <= Len(s))
          /\ (Len(s) + i) - Len(s) = i /\ o + (Len(s) + i) = (o + Len(s)) + i
      BY <1>1
    <3>1. PICK j \in 1 .. Len(s) + Len(t) :
            j = Len(s) + i /\ ~(j <= Len(s)) /\ j - Len(s) = i /\ o + j = (o + Len(s)) + i
      BY <3>0
    <3>2. c[j] = t[i]  BY <1>1, <3>1
    <3>3. buffer[o + j] = t[i]  BY <1>3, <3>2
    <3> QED  BY <3>1, <3>3
  <2> QED  BY <1>1, <1>2, <2>1 DEF At
<1> QED  BY <1>1, <1>4, <1>5

LEMMA AtEnd ==
  ASSUME NEW b \in Seq(Byte), NEW s \in Seq(Byte)
  PROVE  At(b \o s, Len(b), s)
<1>1. /\ Len(b) \in Nat /\ Len(s) \in Nat
      /\ Len(b \o s) = Len(b) + Len(s)
      /\ \A i \in 1 .. Len(b) + Len(s) :
           (b \o s)[i] = IF i <= Len(b) THEN b[i] ELSE s[i - Len(b)]
  BY ConcatProperties
<1>2. \A i \in 1 .. Len(s) : (b \o s)[Len(b) + i] = s[i]
  <2> SUFFICES ASSUME NEW i \in 1 .. Len(s) PROVE (b \o s)[Len(b) + i] = s[i]  OBVIOUS
  <2>1. PICK j \in 1 .. Len(b) + Len(s) :
          j = Len(b) + i /\ ~(j <= Len(b)) /\ j - Len(b) = i
    BY <1>1
  <2>2. (b \o s)[j] = s[i]  BY <1>1, <2>1
  <2> QED  BY <2>1, <2>2
<1> QED  BY <1>1, <1>2 DEF At

LEMMA AtMore ==
  ASSUME NEW b \in Seq(Byte), NEW t \in Seq(Byte), NEW o \in Nat, NEW s \in Seq(Byte),
         At(b, o, s)
  PROVE  At(b \o t, o, s)
<1>1. /\ Len(b) \in Nat /\ Len(t) \in Nat /\ Len(s) \in Nat
      /\ Len(b \o t) = Len(b) + Len(t)
      /\ \A i \in 1 .. Len(b) + Len(t) :
           (b \o t)[i] = IF i <= Len(b) THEN b[i] ELSE t[i - Len(b)]
  BY ConcatProperties
<1>2. o + Len(s) <= Len(b) /\ \A i \in 1 .. Len(s) : b[o + i] = s[i]  BY DEF At
<1>3. \A i \in 1 .. Len(s) : (b \o t)[o + i] = s[i]
  <2> SUFFICES ASSUME NEW i \in 1 .. Len(s) PROVE (b \o t)[o + i] = s[i]  OBVIOUS
  <2>1. PICK j \in 1 .. Len(b) + Len(t) : j = o + i /\ j <= Len(b)  BY <1>1, <1>2
  <2>2. (b \o t)[j] = b[j]  BY <1>1, <2>1
  <2> QED  BY <1>2, <2>1, <2>2
<1> QED  BY <1>1, <1>2, <1>3 DEF At

LEMMA AtStart ==
  ASSUME NEW s \in Seq(Byte), NEW t \in Seq(Byte)
  PROVE  At(s \o t, 0, s) /\ At(s \o t, Len(s), t)
<1>0. Len(s) \in Nat /\ 0 + Len(s) = Len(s) /\ \A i \in 1 .. Len(s) : 0 + i = i
  BY LenProperties
<1>1. At(s, 0, s)  BY <1>0 DEF At
<1>2. 0 + Len(s) = Len(s)  BY <1>0
<1>3. 0 \in Nat  OBVIOUS
<1>4. At(s \o t, 0, s)  BY <1>1, <1>3, AtMore
<1> QED  BY <1>4, AtEnd

-----------------------------------------------------------------------------
(* What is written. *)

\* What the receiver has of a parameter: an int has become a uint32_t.
Received(v) == IF v.index = Int32 THEN Typed(UInt32, v.value % Place[Width32]) ELSE v

LEMMA IndexFacts ==
  ASSUME NEW v, IsValue(v)
  PROVE  /\ v.index \in {Int32, UInt8, UInt32, UInt64, Text, Truth, Blob}
         /\ v = Typed(v.index, v.value)
         /\ v.index = Int32 => v.value \in Int
         /\ v.index = UInt8 => v.value \in Byte
         /\ v.index = UInt32 => v.value \in Numbers(Width32)
         /\ v.index = UInt64 => v.value \in Numbers(Width64)
         /\ v.index = Truth => v.value \in BOOLEAN
         /\ v.index \in {Text, Blob} => Sized(v.value)
<1>1. /\ v = Typed(v.index, v.value)
      /\ \/ v.index = Int32 /\ v.value \in Int
         \/ v.index = UInt8 /\ v.value \in Byte
         \/ v.index = UInt32 /\ v.value \in Numbers(Width32)
         \/ v.index = UInt64 /\ v.value \in Numbers(Width64)
         \/ v.index = Truth /\ v.value \in BOOLEAN
         \/ v.index \in {Text, Blob} /\ Sized(v.value)
  BY DEF IsValue
<1> HIDE DEF Typed, Sized, Numbers, Byte
<1> QED  BY <1>1 DEF Int32, UInt8, UInt32, UInt64, Text, Truth, Blob

LEMMA NumbersFacts ==
  ASSUME NEW w \in 0 .. Width64, NEW n \in Numbers(w) PROVE n \in Nat /\ n \in Int
<1>1. Place[w] \in Nat  BY PlaceFacts
<1> QED  BY <1>1 DEF Numbers

LEMMA WidthsIn == Width32 \in 0 .. Width64 /\ Width64 \in 0 .. Width64 /\ 1 \in 0 .. Width64
BY Widths

LEMMA SmallBytes ==
  /\ \A i \in 0 .. 6 : i \in Byte
  /\ Int32 \in 0 .. 6 /\ UInt8 \in 0 .. 6 /\ UInt32 \in 0 .. 6 /\ UInt64 \in 0 .. 6
  /\ Text \in 0 .. 6 /\ Truth \in 0 .. 6 /\ Blob \in 0 .. 6
BY WidthAssumption DEF Byte, Int32, UInt8, UInt32, UInt64, Text, Truth, Blob

LEMMA WriteSizedFacts ==
  ASSUME NEW s, Sized(s)
  PROVE  /\ s \in Seq(Byte) /\ WriteBytes(Len(s), Width32) \in Seq(Byte)
         /\ Len(WriteBytes(Len(s), Width32)) = Width32
         /\ WriteSized(s) \in Seq(Byte)
<1>1. s \in Seq(Byte) /\ Len(s) \in Numbers(Width32)  BY DEF Sized
<1>2. /\ WriteBytes(Len(s), Width32) \in Seq(Byte)
      /\ Len(WriteBytes(Len(s), Width32)) = Width32
  BY <1>1, WidthsIn, NumbersFacts, WriteBytesFacts
<1>3. WriteSized(s) \in Seq(Byte)  BY <1>1, <1>2, ConcatProperties DEF WriteSized
<1> QED  BY <1>1, <1>2, <1>3

LEMMA WriteValueFacts ==
  ASSUME NEW v, IsValue(v)
  PROVE  WriteValue(v) \in Seq(Byte)
<1> DEFINE i == v.index
           x == v.value
<1>1. CASE i \in {Int32, UInt32}
  <2>1. x \in Int  BY <1>1, IndexFacts, NumbersFacts, WidthsIn
  <2>2. WriteValue(v) = WriteBytes(x, Width32)  BY <1>1
    DEF WriteValue, Int32, UInt8, UInt32, UInt64, Text, Truth, Blob
  <2> QED  BY <2>1, <2>2, WidthsIn, WriteBytesFacts
<1>2. CASE i = UInt64
  <2>1. x \in Int  BY <1>2, IndexFacts, NumbersFacts, WidthsIn
  <2>2. WriteValue(v) = WriteBytes(x, Width64)
    BY <1>2 DEF WriteValue, Int32, UInt8, UInt32, UInt64, Text, Truth, Blob
  <2> QED  BY <2>1, <2>2, WidthsIn, WriteBytesFacts
<1>3. CASE i = UInt8
  <2>1. x \in Byte  BY <1>3, IndexFacts
  <2>2. WriteValue(v) = <<x>>  BY <1>3
    DEF WriteValue, Int32, UInt8, UInt32, UInt64, Text, Truth, Blob
  <2> QED  BY <2>1, <2>2
<1>4. CASE i = Truth
  <2>1. 0 \in Byte /\ 1 \in Byte  BY SmallBytes
  <2>2. WriteValue(v) = <<IF x THEN 1 ELSE 0>>
    BY <1>4 DEF WriteValue, Int32, UInt8, UInt32, UInt64, Text, Truth, Blob
  <2>3. (IF x THEN 1 ELSE 0) \in Byte  BY <2>1
  <2> QED  BY <2>2, <2>3
<1>5. CASE i \in {Text, Blob}
  <2>1. Sized(x)  BY <1>5, IndexFacts
  <2>2. WriteValue(v) = WriteSized(x)
    BY <1>5 DEF WriteValue, Int32, UInt8, UInt32, UInt64, Text, Truth, Blob
  <2> QED  BY <2>1, <2>2, WriteSizedFacts
<1>6. i \in {Int32, UInt8, UInt32, UInt64, Text, Truth, Blob}  BY IndexFacts
<1> QED  BY <1>1, <1>2, <1>3, <1>4, <1>5, <1>6

LEMMA WriteParamFacts ==
  ASSUME NEW key, Sized(key), NEW v, IsValue(v)
  PROVE  /\ WriteSized(key) \in Seq(Byte) /\ <<v.index>> \in Seq(Byte)
         /\ WriteValue(v) \in Seq(Byte) /\ WriteSized(key) \o <<v.index>> \in Seq(Byte)
         /\ WriteParam(key, v) \in Seq(Byte) /\ Len(WriteParam(key, v)) \in Nat
<1>1. WriteSized(key) \in Seq(Byte)  BY WriteSizedFacts
<1>2. <<v.index>> \in Seq(Byte)
  <2>1. v.index \in Byte  BY IndexFacts, SmallBytes
  <2> QED  BY <2>1
<1>3. WriteValue(v) \in Seq(Byte)  BY WriteValueFacts
<1>4. WriteSized(key) \o <<v.index>> \in Seq(Byte)  BY <1>1, <1>2, ConcatProperties
<1>5. WriteParam(key, v) \in Seq(Byte)  BY <1>3, <1>4, ConcatProperties DEF WriteParam
<1> QED  BY <1>1, <1>2, <1>3, <1>4, <1>5, LenProperties

\* The keys of the map, each once.
LEMMA KeysOnce ==
  ASSUME NEW S, IsFiniteSet(S)
  PROVE  /\ Cardinality(S) \in Nat
         /\ SetToSeq(S) \in [1 .. Cardinality(S) -> S]
         /\ \A a, b \in 1 .. Cardinality(S) : SetToSeq(S)[a] = SetToSeq(S)[b] => a = b
         /\ \A x \in S : \E a \in 1 .. Cardinality(S) : SetToSeq(S)[a] = x
<1> DEFINE D == 1 .. Cardinality(S)
<1>1. Cardinality(S) \in Nat /\ ExistsBijection(D, S)  BY FS_CardinalityType
<1>2. PICK f \in Bijection(D, S) : TRUE  BY <1>1 DEF ExistsBijection
<1>3. f \in [D -> S] /\ IsInjective(f)
  <2> HIDE DEF D
  <2> QED  BY <1>2 DEF Bijection, Injection
<1>4. SetToSeq(S) \in [D -> S] /\ IsInjective(SetToSeq(S))
  <2> HIDE DEF D
  <2>1. \E g \in [D -> S] : IsInjective(g)  BY <1>3
  <2>2. SetToSeq(S) = CHOOSE g \in [D -> S] : IsInjective(g)  BY DEF SetToSeq, D
  <2> QED  BY <2>1, <2>2
<1>5. PICK g : g = SetToSeq(S)  OBVIOUS
<1>6. g \in Injection(D, S)  BY <1>4, <1>5 DEF Injection
<1>7. Cardinality(D) = Cardinality(S)
  <2>1. 1 .. Cardinality(S) = {} \/ Cardinality(S) >= 1  BY <1>1
  <2>2. IsFiniteSet(D) /\ Cardinality(D) = Cardinality(S)
    <3>1. 1 \in Int /\ Cardinality(S) \in Int  BY <1>1
    <3>2. Cardinality(1 .. Cardinality(S)) = IF 1 > Cardinality(S) THEN 0 ELSE Cardinality(S) - 1 + 1
      BY <3>1, FS_Interval
    <3>3. IsFiniteSet(1 .. Cardinality(S))  BY <3>1, FS_Interval
    <3> QED  BY <1>1, <3>2, <3>3
  <2> QED  BY <2>2
<1>8. g \in Surjection(D, S)
  <2> HIDE DEF D
  <2> QED  BY <1>6, <1>7, FS_Injection
<1>9. \A x \in S : \E a \in D : g[a] = x
  <2> HIDE DEF D
  <2> QED  BY <1>8 DEF Surjection
<1>10. \A a, b \in D : g[a] = g[b] => a = b
  <2> HIDE DEF D
  <2>1. DOMAIN g = D  BY <1>6 DEF Injection
  <2> QED  BY <1>4, <1>5, <2>1 DEF IsInjective
<1> QED  BY <1>1, <1>4, <1>5, <1>9, <1>10

IsParams(ps) ==
  /\ ps = [k \in DOMAIN ps |-> ps[k]]
  /\ DOMAIN ps \subseteq Keys
  /\ \A k \in DOMAIN ps : IsValue(ps[k])

\* The parameters lie one behind the other, keys[k] from ends[k - 1] to ends[k].
LaidOut(buffer, type, ps, keys, ends, n) ==
  /\ buffer \in Seq(Byte)
  /\ At(buffer, 0, WriteBytes(type, Width32))
  /\ At(buffer, Width32, WriteBytes(n, Width32))
  /\ keys \in [1 .. n -> DOMAIN ps]
  /\ \A a, b \in 1 .. n : keys[a] = keys[b] => a = b
  /\ \A x \in DOMAIN ps : \E a \in 1 .. n : keys[a] = x
  /\ ends \in [0 .. n -> Nat]
  /\ ends[0] = Width32 + Width32 /\ ends[n] = Len(buffer)
  /\ \A k \in 1 .. n :
       /\ At(buffer, ends[k - 1], WriteParam(keys[k], ps[keys[k]]))
       /\ ends[k] = ends[k - 1] + Len(WriteParam(keys[k], ps[keys[k]]))

LEMMA SerializeLaysOut ==
  ASSUME NEW type \in Numbers(Width32), NEW ps, IsParams(ps)
  PROVE  \E keys, ends, n : n \in Numbers(Width32)
                            /\ LaidOut(Serialize(type, ps), type, ps, keys, ends, n)
<1>1. PICK S : S = DOMAIN ps  OBVIOUS
<1>2. S \subseteq Keys /\ \A k \in S : IsValue(ps[k])  BY <1>1 DEF IsParams
<1>3. IsFiniteSet(S) /\ Cardinality(S) <= Cardinality(Keys)
  BY <1>2, KeysAssumption, FS_Subset
<1>4. PICK n : n = Cardinality(S)  OBVIOUS
<1>5. n \in Nat /\ n \in Numbers(Width32)
  <2>1. n \in Nat  BY <1>3, <1>4, KeysOnce
  <2>2. Place[Width32] \in Nat  BY WidthsIn, PlaceFacts
  <2>3. Cardinality(Keys) \in 0 .. Place[Width32] - 1  BY KeysAssumption DEF Numbers
  <2>4. n <= Cardinality(Keys)  BY <1>3, <1>4
  <2> QED  BY <2>1, <2>2, <2>3, <2>4 DEF Numbers
<1>6. PICK keys : keys = SetToSeq(S)  OBVIOUS
<1>7. /\ keys \in [1 .. n -> S]
      /\ \A a, b \in 1 .. n : keys[a] = keys[b] => a = b
      /\ \A x \in S : \E a \in 1 .. n : keys[a] = x
  BY <1>3, <1>4, <1>6, KeysOnce
<1>8. keys \in Seq(S) /\ Len(keys) = n  BY <1>5, <1>7
<1>9. PICK piece : piece = [k \in 1 .. n |-> WriteParam(keys[k], ps[keys[k]])]  OBVIOUS
<1>10. \A k \in 1 .. n : /\ piece[k] = WriteParam(keys[k], ps[keys[k]])
                         /\ piece[k] \in Seq(Byte) /\ Len(piece[k]) \in Nat
  <2> SUFFICES ASSUME NEW k \in 1 .. n
               PROVE  /\ piece[k] = WriteParam(keys[k], ps[keys[k]])
                      /\ piece[k] \in Seq(Byte) /\ Len(piece[k]) \in Nat
    OBVIOUS
  <2>1. piece[k] = WriteParam(keys[k], ps[keys[k]])  BY <1>9
  <2>2. keys[k] \in S  BY <1>7
  <2>3. Sized(keys[k]) /\ IsValue(ps[keys[k]])  BY <1>2, <2>2, KeysAssumption
  <2> QED  BY <2>1, <2>3, WriteParamFacts
<1>11a. PICK first : first = WriteBytes(type, Width32)  OBVIOUS
<1>11b. PICK second : second = WriteBytes(n, Width32)  OBVIOUS
<1>11c. /\ first \in Seq(Byte) /\ Len(first) = Width32
       /\ second \in Seq(Byte) /\ Len(second) = Width32
  <2>1. type \in Int /\ n \in Int  BY <1>5, WidthsIn, NumbersFacts
  <2> QED  BY <1>11a, <1>11b, <2>1, WidthsIn, WriteBytesFacts
<1>11d. PICK head : head = first \o second  OBVIOUS
<1>11. /\ head \in Seq(Byte) /\ first \in Seq(Byte) /\ second \in Seq(Byte)
       /\ first = WriteBytes(type, Width32) /\ second = WriteBytes(n, Width32)
       /\ head = first \o second /\ Len(first) = Width32
       /\ Len(head) = Width32 + Width32
  <2>1. head \in Seq(Byte) /\ Len(head) = Len(first) + Len(second)
    BY <1>11c, <1>11d, ConcatProperties
  <2> QED  BY <1>11a, <1>11b, <1>11c, <1>11d, <2>1
<1>12. PICK G : G = [k \in 1 .. n |-> [b \in Seq(Byte) |-> b \o piece[k]]]  OBVIOUS
<1>13. G \in Passes(n, Seq(Byte))
  <2>1. \A k \in 1 .. n, b \in Seq(Byte) : b \o piece[k] \in Seq(Byte)
    BY <1>10, ConcatProperties
  <2> QED  BY <1>12, <2>1 DEF Passes
<1>14. PICK f : IsRun(f, n, Seq(Byte), head, G)  BY <1>5, <1>11, <1>13, LoopEnds
<1>15. /\ f \in [0 .. n -> Seq(Byte)] /\ f[0] = head
       /\ \A k \in 1 .. n : f[k] = f[k - 1] \o piece[k]
  <2>1. /\ f \in [0 .. n -> Seq(Byte)] /\ f[0] = head
        /\ \A k \in 1 .. n : f[k] = G[k][f[k - 1]]
    BY <1>14 DEF IsRun
  <2>2. \A k \in 1 .. n : k - 1 \in 0 .. n  BY <1>5
  <2>3. \A k \in 1 .. n : f[k - 1] \in Seq(Byte)  BY <2>1, <2>2
  <2> QED  BY <1>12, <2>1, <2>3
<1> DEFINE IsBuffer(g) ==
      g = [k \in 0 .. Len(keys) |->
             IF k = 0 THEN WriteBytes(type, Width32) \o WriteBytes(Len(keys), Width32)
             ELSE g[k - 1] \o WriteParam(keys[k], ps[keys[k]])]
<1>16. IsBuffer(f)
  <2>1. \A k \in 0 .. n : k # 0 => k \in 1 .. n  BY <1>5
  <2>2. WriteBytes(type, Width32) \o WriteBytes(Len(keys), Width32) = head
    BY <1>8, <1>11
  <2>3. \A k \in 0 .. n : f[k] = IF k = 0 THEN head ELSE f[k - 1] \o piece[k]
    BY <1>15, <2>1
  <2>4. \A k \in 0 .. n : k # 0 => piece[k] = WriteParam(keys[k], ps[keys[k]])
    BY <1>10, <2>1
  <2>5. \A k \in 0 .. n : f[k] = IF k = 0 THEN head
                                 ELSE f[k - 1] \o WriteParam(keys[k], ps[keys[k]])
    BY <2>3, <2>4
  <2>6. f = [k \in 0 .. n |-> IF k = 0 THEN head
                              ELSE f[k - 1] \o WriteParam(keys[k], ps[keys[k]])]
    BY <1>15, <2>5
  <2> QED  BY <1>8, <2>2, <2>6
<1>17. PICK g : IsBuffer(g) /\ Serialize(type, ps) = g[n]
  <2>1. \E h : IsBuffer(h)  BY <1>16
  <2>2. IsBuffer(CHOOSE h : IsBuffer(h))
    <3> HIDE DEF IsBuffer
    <3> QED  BY <2>1, Zenon
  <2>3. Serialize(type, ps) = (CHOOSE h : IsBuffer(h))[Len(keys)]
    BY <1>1, <1>6, Zenon DEF Serialize
  <2> HIDE DEF IsBuffer
  <2> QED  BY <1>8, <2>2, <2>3, Zenon
<1>18. g[0] = head /\ \A k \in 1 .. n : g[k] = g[k - 1] \o piece[k]
  <2>1. 0 \in 0 .. n /\ \A k \in 1 .. n : k \in 0 .. n /\ k # 0  BY <1>5
  <2>2. \A k \in 0 .. n : g[k] = IF k = 0
                                 THEN WriteBytes(type, Width32) \o WriteBytes(Len(keys), Width32)
                                 ELSE g[k - 1] \o WriteParam(keys[k], ps[keys[k]])
    BY <1>8, <1>17
  <2>3. g[0] = head
    <3>1. g[0] = WriteBytes(type, Width32) \o WriteBytes(Len(keys), Width32)
      BY <2>1, <2>2
    <3> QED  BY <1>8, <1>11, <3>1
  <2>4. \A k \in 1 .. n : g[k] = g[k - 1] \o WriteParam(keys[k], ps[keys[k]])
    BY <2>1, <2>2
  <2> QED  BY <2>3, <2>4, <1>10
<1>19. \A k \in 0 .. n : g[k] \in Seq(Byte)
  <2> DEFINE P == {k \in 0 .. n : g[k] \in Seq(Byte)}
  <2>1. 0 \in P
    <3>1. 0 \in 0 .. n  BY <1>5
    <3>2. g[0] \in Seq(Byte)  BY <1>11, <1>18
    <3> QED  BY <3>1, <3>2
  <2>2. ASSUME NEW k \in 0 .. n - 1, k \in P PROVE k + 1 \in P
    <3>1. k + 1 \in 1 .. n /\ k + 1 \in 0 .. n /\ (k + 1) - 1 = k  BY <1>5
    <3>2. g[k] \in Seq(Byte) /\ piece[k + 1] \in Seq(Byte)  BY <1>10, <2>2, <3>1
    <3>3. g[k + 1] = g[k] \o piece[k + 1]  BY <1>18, <3>1
    <3>4. g[k + 1] \in Seq(Byte)  BY <3>2, <3>3, ConcatProperties
    <3> QED  BY <3>1, <3>4
  <2>3. \A k \in 0 .. n : k \in P
    <3> HIDE DEF P
    <3> QED  BY <1>5, <2>1, <2>2, Upward
  <2> QED  BY <2>3
<1>20. PICK ends : ends = [k \in 0 .. n |-> Len(g[k])]  OBVIOUS
<1>21. ends \in [0 .. n -> Nat] /\ \A k \in 0 .. n : ends[k] = Len(g[k])
  BY <1>19, <1>20, LenProperties
<1>22. \A k \in 1 .. n : ends[k] = ends[k - 1] + Len(piece[k])
  <2> SUFFICES ASSUME NEW k \in 1 .. n PROVE ends[k] = ends[k - 1] + Len(piece[k])  OBVIOUS
  <2>1. k \in 0 .. n /\ k - 1 \in 0 .. n  BY <1>5
  <2>2. Len(g[k - 1] \o piece[k]) = Len(g[k - 1]) + Len(piece[k])
    BY <1>10, <1>19, <2>1, ConcatProperties
  <2> QED  BY <1>18, <1>21, <2>1, <2>2
<1> DEFINE Pieces(k) == /\ At(g[k], 0, first) /\ At(g[k], Width32, second)
                        /\ \A m \in 1 .. k : At(g[k], ends[m - 1], piece[m])
           P == {k \in 0 .. n : Pieces(k)}
<1>23. 0 \in P
  <2>1. At(head, 0, first) /\ At(head, Width32, second)  BY <1>11, AtStart
  <2> QED  BY <1>5, <1>18, <2>1
<1>24. ASSUME NEW k \in 0 .. n - 1, k \in P PROVE k + 1 \in P
  <2>1. k + 1 \in 1 .. n /\ k + 1 \in 0 .. n /\ (k + 1) - 1 = k /\ k \in 0 .. n  BY <1>5
  <2>2. PICK b \in Seq(Byte), t \in Seq(Byte) :
          b = g[k] /\ t = piece[k + 1] /\ g[k + 1] = b \o t
    BY <1>10, <1>18, <1>19, <2>1
  <2>3. At(b, 0, first) /\ At(b, Width32, second) /\ \A m \in 1 .. k : At(b, ends[m - 1], piece[m])
    BY <1>24, <2>2
  <2>4. At(b \o t, 0, first) /\ At(b \o t, Width32, second)
    <3>1. 0 \in Nat /\ Width32 \in Nat  BY Widths
    <3> QED  BY <1>11, <2>3, <3>1, AtMore
  <2>5. ASSUME NEW m \in 1 .. k + 1 PROVE At(b \o t, ends[m - 1], piece[m])
    <3>1. CASE m = k + 1
      <4>1. ends[m - 1] = Len(b)  BY <1>21, <2>1, <2>2, <3>1
      <4>2. At(b \o t, Len(b), t)  BY AtEnd
      <4> QED  BY <2>2, <3>1, <4>1, <4>2
    <3>2. CASE m # k + 1
      <4>1. m \in 1 .. k /\ m \in 1 .. n /\ m - 1 \in 0 .. n  BY <1>5, <2>1, <3>2
      <4>2. ends[m - 1] \in Nat /\ piece[m] \in Seq(Byte)  BY <1>10, <1>21, <4>1
      <4> QED  BY <2>3, <4>1, <4>2, AtMore
    <3> QED  BY <3>1, <3>2
  <2>6. Pieces(k + 1)  BY <2>2, <2>4, <2>5
  <2> QED  BY <2>1, <2>6
<1>25. Pieces(n)
  <2>1. n \in P
    <3>1. n \in 0 .. n  BY <1>5
    <3> HIDE DEF P
    <3> QED  BY <1>5, <1>23, <1>24, <3>1, Upward
  <2> QED  BY <2>1
<1>26. LaidOut(g[n], type, ps, keys, ends, n)
  <2>1. 0 \in 0 .. n /\ n \in 0 .. n  BY <1>5
  <2>2. g[n] \in Seq(Byte) /\ ends[n] = Len(g[n])  BY <1>19, <1>21, <2>1
  <2>3. ends[0] = Width32 + Width32  BY <1>11, <1>18, <1>21, <2>1
  <2>4. \A k \in 1 .. n :
          /\ At(g[n], ends[k - 1], WriteParam(keys[k], ps[keys[k]]))
          /\ ends[k] = ends[k - 1] + Len(WriteParam(keys[k], ps[keys[k]]))
    BY <1>10, <1>22, <1>25
  <2>5. At(g[n], 0, WriteBytes(type, Width32)) /\ At(g[n], Width32, WriteBytes(n, Width32))
    BY <1>11, <1>25
  <2> QED  BY <1>1, <1>7, <1>21, <2>2, <2>3, <2>4, <2>5 DEF LaidOut
<1> QED  BY <1>5, <1>17, <1>26

-----------------------------------------------------------------------------
(* Reading what was written. *)

Cursor(offset, got) == [offset |-> offset, got |-> got, result |-> "true"]

\* The memory begins with the buffer.
Holds(memory, buffer) ==
  /\ memory.bytes \in Seq(Byte)
  /\ memory.size = Len(buffer) /\ Len(buffer) <= Len(memory.bytes)
  /\ \A i \in 1 .. Len(buffer) : memory.bytes[i] = buffer[i]

LEMMA MemoryHolds ==
  ASSUME NEW buffer \in Seq(Byte), NEW behind \in Seq(Byte),
         NEW memory, memory = Memory(buffer, behind)
  PROVE  Holds(memory, buffer) /\ memory.bytes = buffer \o behind
<1>1. /\ Len(buffer) \in Nat /\ Len(behind) \in Nat /\ buffer \o behind \in Seq(Byte)
      /\ Len(buffer \o behind) = Len(buffer) + Len(behind)
      /\ \A i \in 1 .. Len(buffer) + Len(behind) :
           (buffer \o behind)[i] = IF i <= Len(buffer) THEN buffer[i] ELSE behind[i - Len(buffer)]
  BY ConcatProperties
<1>2. PICK bytes : bytes = buffer \o behind  OBVIOUS
<1>3. memory.bytes = bytes /\ memory.size = Len(buffer)  BY <1>2 DEF Memory
<1>4. \A i \in 1 .. Len(buffer) : bytes[i] = buffer[i]
  <2> SUFFICES ASSUME NEW i \in 1 .. Len(buffer) PROVE bytes[i] = buffer[i]  OBVIOUS
  <2>1. i \in 1 .. Len(buffer) + Len(behind) /\ i <= Len(buffer)  BY <1>1
  <2> QED  BY <1>1, <1>2, <2>1
<1>5. bytes \in Seq(Byte) /\ Len(buffer) <= Len(bytes)  BY <1>1, <1>2
<1> QED  BY <1>2, <1>3, <1>4, <1>5 DEF Holds

\* What lies in the buffer lies in the memory.
LEMMA InMemory ==
  ASSUME NEW buffer \in Seq(Byte), NEW memory, Holds(memory, buffer),
         NEW o \in Nat, NEW s \in Seq(Byte), At(buffer, o, s)
  PROVE  At(memory.bytes, o, s) /\ memory.bytes \in Seq(Byte) /\ memory.size = Len(buffer)
<1>1. /\ memory.bytes \in Seq(Byte)
      /\ memory.size = Len(buffer) /\ Len(buffer) <= Len(memory.bytes)
      /\ \A i \in 1 .. Len(buffer) : memory.bytes[i] = buffer[i]
  BY DEF Holds
<1>2. o + Len(s) <= Len(buffer) /\ \A i \in 1 .. Len(s) : buffer[o + i] = s[i]  BY DEF At
<1>3. Len(buffer) \in Nat /\ Len(s) \in Nat /\ Len(memory.bytes) \in Nat
  BY <1>1, LenProperties
<1>4. \A i \in 1 .. Len(s) : memory.bytes[o + i] = s[i]
  <2> SUFFICES ASSUME NEW i \in 1 .. Len(s) PROVE memory.bytes[o + i] = s[i]  OBVIOUS
  <2>1. o + i \in 1 .. Len(buffer)  BY <1>2, <1>3
  <2> QED  BY <1>1, <1>2, <2>1
<1>5. o + Len(s) <= Len(memory.bytes)  BY <1>1, <1>2, <1>3
<1> QED  BY <1>1, <1>4, <1>5 DEF At

LEMMA ReadNumberAt ==
  ASSUME NEW buffer \in Seq(Byte), NEW memory, Holds(memory, buffer),
         NEW o \in Nat, NEW g, NEW w \in 0 .. Width64,
         NEW n \in Int, At(buffer, o, WriteBytes(n, w))
  PROVE  ReadNumber(memory, Cursor(o, g), w) = Cursor(o + w, n % Place[w])
<1>1. PICK s : s = WriteBytes(n, w)  OBVIOUS
<1>2. s \in Seq(Byte) /\ Len(s) = w /\ At(buffer, o, s)  BY <1>1, WriteBytesFacts
<1>3a. At(memory.bytes, o, s) /\ memory.bytes \in Seq(Byte)  BY <1>2, InMemory
<1>3. SubSeq(memory.bytes, o + 1, o + w) = s  BY <1>2, <1>3a, TakeIsAt
<1>4. Number(s) = n % Place[w]  BY <1>1, NumberOfBytes
<1>5. Len(memory.bytes) \in Nat /\ w \in Int /\ ~(Len(memory.bytes) - o < w)
  <2>1. Len(memory.bytes) \in Nat /\ w \in Int  BY <1>3a, Widths, LenProperties
  <2>2. o + w <= Len(memory.bytes)  BY <1>2, <1>3a DEF At
  <2> QED  BY <2>1, <2>2
<1>6. PICK c : c = Cursor(o, g)  OBVIOUS
<1>7. c.result = "true" /\ c.offset = o /\ c = [offset |-> o, got |-> g, result |-> "true"]
  BY <1>6 DEF Cursor
<1>8. ReadNumber(memory, c, w) = Moved(c, w, n % Place[w])
  BY <1>3, <1>4, <1>5, <1>7 DEF ReadNumber, Take
<1>9. Moved(c, w, n % Place[w]) = Cursor(o + w, n % Place[w])  BY <1>7 DEF Moved, Cursor
<1> QED  BY <1>6, <1>8, <1>9

LEMMA ReadCheckedAt ==
  ASSUME NEW buffer \in Seq(Byte), NEW memory, Holds(memory, buffer),
         NEW o \in Nat, NEW g, NEW s \in Seq(Byte),
         At(buffer, o, s)
  PROVE  ReadChecked(memory, Cursor(o, g), Len(s)) = Cursor(o + Len(s), s)
<1>1. PICK w : w = Len(s)  OBVIOUS
<1>2. /\ SubSeq(memory.bytes, o + 1, o + w) = s
      /\ memory.size = Len(buffer)
  <2>1. /\ At(memory.bytes, o, s) /\ memory.bytes \in Seq(Byte)
        /\ memory.size = Len(buffer)
    BY InMemory
  <2> QED  BY <1>1, <2>1, TakeIsAt
<1>3. memory.size \in Nat /\ w \in Int /\ ~(memory.size - o < w)
  <2>1. Len(buffer) \in Nat /\ w \in Int  BY <1>1, LenProperties
  <2>2. o + w <= Len(buffer)  BY <1>1 DEF At
  <2> QED  BY <1>2, <2>1, <2>2
<1>4. PICK c : c = Cursor(o, g)  OBVIOUS
<1>5. c.result = "true" /\ c.offset = o /\ c = [offset |-> o, got |-> g, result |-> "true"]
  BY <1>4 DEF Cursor
<1>6. ReadChecked(memory, c, w) = Moved(c, w, s)
  BY <1>2, <1>3, <1>5 DEF ReadChecked, Left, Take
<1>7. Moved(c, w, s) = Cursor(o + w, s)  BY <1>5 DEF Moved, Cursor
<1> QED  BY <1>1, <1>4, <1>6, <1>7

LEMMA CursorFields ==
  ASSUME NEW o, NEW g
  PROVE  Cursor(o, g).offset = o /\ Cursor(o, g).got = g /\ Cursor(o, g).result = "true"
BY DEF Cursor

LEMMA ReadSizedAt ==
  ASSUME NEW buffer \in Seq(Byte), NEW memory, Holds(memory, buffer),
         NEW o \in Nat, NEW g, NEW s, Sized(s),
         At(buffer, o, WriteSized(s))
  PROVE  /\ Len(WriteSized(s)) = Width32 + Len(s)
         /\ ReadSized(memory, Cursor(o, g)) = Cursor(o + Len(WriteSized(s)), s)
<1>1. PICK b : b = WriteBytes(Len(s), Width32)  OBVIOUS
<1>2. b \in Seq(Byte) /\ Len(b) = Width32 /\ s \in Seq(Byte)  BY <1>1, WriteSizedFacts
<1>3. Joined(WriteSized(s), b, s)  BY <1>1 DEF WriteSized, Joined
<1>4. /\ At(buffer, o, b) /\ At(buffer, o + Width32, s)
      /\ Len(WriteSized(s)) = Width32 + Len(s)
  <2>1. PICK c : c = WriteSized(s)  OBVIOUS
  <2>2. Joined(c, b, s) /\ At(buffer, o, c)  BY <1>3, <2>1
  <2>3. b \in Seq(Byte) /\ s \in Seq(Byte)  BY <1>2
  <2>4. At(buffer, o, b) /\ At(buffer, o + Len(b), s) /\ Len(c) = Len(b) + Len(s)
    BY <2>2, <2>3, AtConcat
  <2> QED  BY <1>2, <2>1, <2>4
<1>5. /\ Len(s) \in Nat /\ Len(s) % Place[Width32] = Len(s)
      /\ Width32 \in 0 .. Width64 /\ Width32 \in Nat /\ o + Width32 \in Nat
  <2>1. Len(s) \in Numbers(Width32)  BY DEF Sized
  <2>2. Len(s) \in Nat /\ Number(b) = Len(s)  BY <1>1, <2>1, WidthsIn, NumberComesBack
  <2>3. Number(b) = Len(s) % Place[Width32]  BY <1>1, <2>2, WidthsIn, NumberOfBytes
  <2> QED  BY <2>2, <2>3, WidthsIn, Widths
<1>6. ReadNumber(memory, Cursor(o, g), Width32) = Cursor(o + Width32, Len(s))
  BY <1>1, <1>4, <1>5, ReadNumberAt
<1>7. ReadChecked(memory, Cursor(o + Width32, Len(s)), Len(s))
        = Cursor((o + Width32) + Len(s), s)
  BY <1>2, <1>4, <1>5, ReadCheckedAt
<1>8. ReadSized(memory, Cursor(o, g)) = Cursor((o + Width32) + Len(s), s)
  BY <1>6, <1>7, CursorFields DEF ReadSized
<1>9. (o + Width32) + Len(s) = o + Len(WriteSized(s))  BY <1>4, <1>5
<1> QED  BY <1>4, <1>8, <1>9

\* The bytes of a value, apart from the length of a text or blob.
Raw(v) == IF v.index \in {Text, Blob} THEN v.value ELSE WriteValue(v)

LEMMA ReadRawAt ==
  ASSUME NEW buffer \in Seq(Byte), NEW memory, Holds(memory, buffer),
         NEW o \in Nat, NEW g, NEW v, IsValue(v),
         At(buffer, o, WriteValue(v))
  PROVE  /\ ReadRaw(memory, Cursor(o, g), v.index) = Cursor(o + Len(WriteValue(v)), Raw(v))
         /\ Meaning(v.index, Raw(v)) = Received(v)
<1> DEFINE i == v.index
           x == v.value
<1>0. /\ i \in {Int32, UInt8, UInt32, UInt64, Text, Truth, Blob}
      /\ v = Typed(i, x)
  BY IndexFacts
<1>1. PICK s : s = WriteValue(v)  OBVIOUS
<1>2. s \in Seq(Byte) /\ At(buffer, o, s)  BY <1>1, WriteValueFacts
<1>3. ReadChecked(memory, Cursor(o, g), Len(s)) = Cursor(o + Len(s), s)
  BY <1>2, ReadCheckedAt
<1>4. CASE i \in {Int32, UInt32}
  <2>1. x \in Int  BY <1>4, IndexFacts, NumbersFacts, WidthsIn
  <2>2. s = WriteBytes(x, Width32)
    BY <1>1, <1>4 DEF WriteValue, Int32, UInt8, UInt32, UInt64, Text, Truth, Blob
  <2>3. Len(s) = Width32 /\ Number(s) = x % Place[Width32]
    BY <2>1, <2>2, WidthsIn, WriteBytesFacts, NumberOfBytes
  <2>4. Raw(v) = s
    BY <1>1, <1>4 DEF Raw, Int32, UInt32, Text, Blob
  <2>5. ReadRaw(memory, Cursor(o, g), i) = ReadChecked(memory, Cursor(o, g), Width32)
    BY <1>4 DEF ReadRaw, Int32, UInt8, UInt32, UInt64, Text, Truth, Blob
  <2>6. Meaning(i, s) = Typed(UInt32, Number(s))
    BY <1>4 DEF Meaning, Int32, UInt8, UInt32, UInt64, Text, Truth, Blob
  <2>7. CASE i = Int32
    <3>1. Received(v) = Typed(UInt32, x % Place[Width32])  BY <2>7 DEF Received
    <3> QED  BY <1>1, <1>3, <2>3, <2>4, <2>5, <2>6, <3>1
  <2>8. CASE i = UInt32
    <3>1. x \in Numbers(Width32)  BY <2>8, IndexFacts
    <3>2. Number(s) = x  BY <2>2, <3>1, WidthsIn, NumberComesBack
    <3>3. Received(v) = Typed(UInt32, x)  BY <1>0, <2>8 DEF Received, Int32, UInt32
    <3> QED  BY <1>1, <1>3, <2>3, <2>4, <2>5, <2>6, <3>2, <3>3
  <2> QED  BY <1>4, <2>7, <2>8
<1>5. CASE i = UInt64
  <2>1. x \in Numbers(Width64)  BY <1>5, IndexFacts
  <2>2. s = WriteBytes(x, Width64)
    BY <1>1, <1>5 DEF WriteValue, Int32, UInt8, UInt32, UInt64, Text, Truth, Blob
  <2>3. Len(s) = Width64 /\ Number(s) = x
    BY <2>1, <2>2, WidthsIn, NumbersFacts, WriteBytesFacts, NumberComesBack
  <2>4. Raw(v) = s
    BY <1>1, <1>5 DEF Raw, UInt64, Text, Blob
  <2>5. ReadRaw(memory, Cursor(o, g), i) = ReadChecked(memory, Cursor(o, g), Width64)
    BY <1>5 DEF ReadRaw, Int32, UInt8, UInt32, UInt64, Text, Truth, Blob
  <2>6. Meaning(i, s) = Typed(i, Number(s))
    BY <1>5 DEF Meaning, Int32, UInt8, UInt32, UInt64, Text, Truth, Blob
  <2>7. Received(v) = Typed(i, x)  BY <1>0, <1>5 DEF Received, Int32, UInt64
  <2> QED  BY <1>1, <1>3, <2>3, <2>4, <2>5, <2>6, <2>7
<1>6. CASE i = UInt8
  <2>1. x \in Byte  BY <1>6, IndexFacts
  <2>2. s = <<x>>
    BY <1>1, <1>6 DEF WriteValue, Int32, UInt8, UInt32, UInt64, Text, Truth, Blob
  <2>3. Len(s) = 1 /\ Number(s) = x  BY <2>1, <2>2, NumberOfOne
  <2>4. Raw(v) = s
    BY <1>1, <1>6 DEF Raw, UInt8, Text, Blob
  <2>5. ReadRaw(memory, Cursor(o, g), i) = ReadChecked(memory, Cursor(o, g), 1)
    BY <1>6 DEF ReadRaw, Int32, UInt8, UInt32, UInt64, Text, Truth, Blob
  <2>6. Meaning(i, s) = Typed(i, Number(s))
    BY <1>6 DEF Meaning, Int32, UInt8, UInt32, UInt64, Text, Truth, Blob
  <2>7. Received(v) = Typed(i, x)  BY <1>0, <1>6 DEF Received, Int32, UInt8
  <2> QED  BY <1>1, <1>3, <2>3, <2>4, <2>5, <2>6, <2>7
<1>7. CASE i = Truth
  <2>1. x \in BOOLEAN  BY <1>7, IndexFacts
  <2>2. PICK y : y = IF x THEN 1 ELSE 0  OBVIOUS
  <2>3. s = <<y>>
    BY <1>1, <1>7, <2>2 DEF WriteValue, Int32, UInt8, UInt32, UInt64, Text, Truth, Blob
  <2>4. y \in Byte /\ ((y # 0) = x)
    <3>1. 0 \in Byte /\ 1 \in Byte  BY SmallBytes
    <3>2. CASE x = TRUE
      <4>1. y = 1  BY <2>2, <3>2
      <4>2. y \in Byte /\ y # 0  BY <3>1, <4>1
      <4>3. (y # 0) = TRUE  BY <4>2
      <4> QED  BY <3>2, <4>2, <4>3, Zenon
    <3>3. CASE x = FALSE
      <4>1. y = 0  BY <2>2, <3>3
      <4>2. y \in Byte /\ ~(y # 0)  BY <3>1, <4>1
      <4>3. (y # 0) = FALSE  BY <4>2
      <4> QED  BY <3>3, <4>2, <4>3, Zenon
    <3> QED  BY <2>1, <3>2, <3>3
  <2>5. Len(s) = 1 /\ Number(s) = y  BY <2>3, <2>4, NumberOfOne
  <2>6. Raw(v) = s
    BY <1>1, <1>7 DEF Raw, Truth, Text, Blob
  <2>7. ReadRaw(memory, Cursor(o, g), i) = ReadChecked(memory, Cursor(o, g), 1)
    BY <1>7 DEF ReadRaw, Int32, UInt8, UInt32, UInt64, Text, Truth, Blob
  <2>8. Meaning(i, s) = Typed(Truth, Number(s) # 0)
    BY <1>7 DEF Meaning, Int32, UInt8, UInt32, UInt64, Text, Truth, Blob
  <2>9. Received(v) = Typed(Truth, x)  BY <1>0, <1>7 DEF Received, Int32, Truth
  <2>10. Meaning(i, s) = Typed(Truth, x)
    <3>1. (Number(s) # 0) = x  BY <2>4, <2>5
    <3> QED  BY <2>8, <3>1, Zenon
  <2>11. ReadRaw(memory, Cursor(o, g), i) = Cursor(o + Len(s), s)
    BY <1>3, <2>5, <2>7
  <2> QED  BY <1>1, <2>6, <2>9, <2>10, <2>11
<1>8. CASE i \in {Text, Blob}
  <2>1. Sized(x)  BY <1>8, IndexFacts
  <2>2. s = WriteSized(x)
    BY <1>1, <1>8 DEF WriteValue, Int32, UInt8, UInt32, UInt64, Text, Truth, Blob
  <2>3. Raw(v) = x  BY <1>8 DEF Raw
  <2>4. ReadRaw(memory, Cursor(o, g), i) = ReadSized(memory, Cursor(o, g))
    BY <1>8 DEF ReadRaw, Int32, UInt8, UInt32, UInt64, Text, Truth, Blob
  <2>5. ReadSized(memory, Cursor(o, g)) = Cursor(o + Len(s), x)
    BY <1>2, <2>1, <2>2, ReadSizedAt
  <2>6. Meaning(i, x) = Typed(i, x)
    BY <1>8 DEF Meaning, Int32, UInt8, UInt32, UInt64, Text, Truth, Blob
  <2>7. Received(v) = Typed(i, x)  BY <1>0, <1>8 DEF Received, Int32, Text, Blob
  <2> QED  BY <1>1, <2>3, <2>4, <2>5, <2>6, <2>7
<1> QED  BY <1>0, <1>4, <1>5, <1>6, <1>7, <1>8

LEMMA ReadValueAt ==
  ASSUME NEW buffer \in Seq(Byte), NEW memory, Holds(memory, buffer),
         NEW o \in Nat, NEW g, NEW v, IsValue(v),
         At(buffer, o, WriteValue(v))
  PROVE  ReadValue(memory, Cursor(o, g), v.index) = Cursor(o + Len(WriteValue(v)), Received(v))
<1>1. PICK e, raw : e = o + Len(WriteValue(v)) /\ raw = Raw(v)  OBVIOUS
<1>2. /\ ReadRaw(memory, Cursor(o, g), v.index) = Cursor(e, raw)
      /\ Meaning(v.index, raw) = Received(v)
  BY <1>1, ReadRawAt
<1>3. PICK c : c = Cursor(e, raw)  OBVIOUS
<1>4. c.result = "true" /\ c.got = raw /\ c = [offset |-> e, got |-> raw, result |-> "true"]
  BY <1>3 DEF Cursor
<1>5. ReadValue(memory, Cursor(o, g), v.index) = Moved(c, 0, Meaning(v.index, raw))
  BY <1>2, <1>3, <1>4 DEF ReadValue
<1>6. Moved(c, 0, Meaning(v.index, raw)) = Cursor(e, Received(v))
  <2>1. e \in Int
    <3>1. Len(WriteValue(v)) \in Nat  BY WriteValueFacts, LenProperties
    <3> QED  BY <1>1, <3>1
  <2> QED  BY <1>2, <1>4, <2>1 DEF Moved, Cursor
<1> QED  BY <1>1, <1>5, <1>6

Entered(ps, key, v) ==
  [k \in DOMAIN ps \cup {key} |-> IF k = key THEN v ELSE ps[k]]

LEMMA ReadParamAt ==
  ASSUME NEW buffer \in Seq(Byte), NEW memory, Holds(memory, buffer),
         NEW o \in Nat, NEW g, NEW ps,
         NEW key, Sized(key), NEW v, IsValue(v), At(buffer, o, WriteParam(key, v))
  PROVE  ReadParam(memory, [cursor |-> Cursor(o, g), ps |-> ps])
           = [cursor |-> Cursor(o + Len(WriteParam(key, v)), Received(v)),
              ps |-> Entered(ps, key, Received(v))]
<1>1. PICK s, b, x, c : /\ s = WriteSized(key) /\ b = <<v.index>> /\ x = WriteValue(v)
                        /\ c = s \o b
  OBVIOUS
<1>2. /\ s \in Seq(Byte) /\ b \in Seq(Byte) /\ x \in Seq(Byte) /\ c \in Seq(Byte)
      /\ Joined(c, s, b) /\ Joined(WriteParam(key, v), c, x)
  BY <1>1, WriteParamFacts DEF WriteParam, Joined
<1>3. Len(b) = 1 /\ b[1] = v.index  BY <1>1
<1>4. /\ At(buffer, o, c) /\ At(buffer, o + Len(c), x)
      /\ Len(WriteParam(key, v)) = Len(c) + Len(x)
  BY <1>2, AtConcat
<1>5. At(buffer, o, s) /\ At(buffer, o + Len(s), b) /\ Len(c) = Len(s) + 1
  <2>1. At(buffer, o, s) /\ At(buffer, o + Len(s), b) /\ Len(c) = Len(s) + Len(b)
    BY <1>2, <1>4, AtConcat
  <2> QED  BY <1>3, <2>1
<1>6. Len(s) \in Nat /\ Len(x) \in Nat  BY <1>2, LenProperties
<1>7. ReadSized(memory, Cursor(o, g)) = Cursor(o + Len(s), key)
  BY <1>1, <1>5, ReadSizedAt
<1>8. ReadChecked(memory, Cursor(o + Len(s), key), 1) = Cursor((o + Len(s)) + 1, b)
  <2>1. o + Len(s) \in Nat  BY <1>6
  <2>2. ReadChecked(memory, Cursor(o + Len(s), key), Len(b)) = Cursor((o + Len(s)) + Len(b), b)
    BY <1>2, <1>5, <2>1, ReadCheckedAt
  <2> QED  BY <1>3, <2>2
<1>9. ReadValue(memory, Cursor((o + Len(s)) + 1, b), v.index)
        = Cursor(((o + Len(s)) + 1) + Len(x), Received(v))
  <2>1. (o + Len(s)) + 1 \in Nat /\ o + Len(c) = (o + Len(s)) + 1  BY <1>5, <1>6
  <2> QED  BY <1>1, <1>4, <2>1, ReadValueAt
<1>10. ((o + Len(s)) + 1) + Len(x) = o + Len(WriteParam(key, v))  BY <1>4, <1>5, <1>6
<1>11. PICK t : t = [cursor |-> Cursor(o, g), ps |-> ps]  OBVIOUS
<1>12. t.cursor = Cursor(o, g) /\ t.ps = ps  BY <1>11
<1> DEFINE E == o + Len(WriteParam(key, v))
           R == Received(v)
           K == Cursor(o + Len(s), key)
           I == Cursor((o + Len(s)) + 1, b)
<1>13. /\ ReadSized(memory, t.cursor) = K /\ K.got = key
       /\ ReadChecked(memory, K, 1) = I /\ I.got[1] = v.index /\ I.result = "true"
       /\ ReadValue(memory, I, v.index) = Cursor(E, R)
       /\ Cursor(E, R).result = "true" /\ Cursor(E, R).got = R
  BY <1>3, <1>7, <1>8, <1>9, <1>10, <1>12, CursorFields
<1> HIDE DEF E, R, K, I
<1>14. ReadParam(memory, t)
         = [cursor |-> Cursor(E, R),
            ps |-> [k \in DOMAIN t.ps \cup {key} |-> IF k = key THEN R ELSE t.ps[k]]]
  BY <1>13 DEF ReadParam
<1> QED  BY <1>11, <1>12, <1>14 DEF Entered, E, R

\* What the loop of FromData goes through.
LoopOf(after, memory, t, n) ==
  after[0] = t /\ \A k \in 1 .. n : after[k] = ReadNext(memory, after[k - 1])

LEMMA ReadRuns ==
  ASSUME NEW memory, NEW t, NEW n \in Nat
  PROVE  \E after : ReadParams(memory, t, n) = after[n] /\ LoopOf(after, memory, t, n)
<1> DEFINE Runs(f, m) == \A k \in 0 .. m :
                           f[k] = IF k = 0 THEN t ELSE ReadNext(memory, f[k - 1])
           P == {m \in 0 .. n : \E f : Runs(f, m)}
<1>1. 0 \in P
  <2>1. PICK f : f = [k \in {0} |-> t]  OBVIOUS
  <2>2. Runs(f, 0)  BY <2>1
  <2> QED  BY <2>2
<1>2. ASSUME NEW m \in 0 .. n - 1, m \in P PROVE m + 1 \in P
  <2>1. PICK f : Runs(f, m)  BY <1>2
  <2>2. m \in Nat /\ m + 1 \in 0 .. n /\ m \in 0 .. m  BY <1>2
  <2>3. PICK v : v = ReadNext(memory, f[m])  OBVIOUS
  <2>4. PICK g : g = [k \in 0 .. m + 1 |-> IF k = m + 1 THEN v ELSE f[k]]  OBVIOUS
  <2>5. (\A k \in 0 .. m : g[k] = f[k]) /\ g[m + 1] = v
    <3>1. m + 1 \in 0 .. m + 1 /\ \A k \in 0 .. m : k \in 0 .. m + 1 /\ k # m + 1  BY <2>2
    <3> QED  BY <2>4, <3>1
  <2>6. Runs(g, m + 1)
    <3> SUFFICES ASSUME NEW k \in 0 .. m + 1
                 PROVE  g[k] = IF k = 0 THEN t ELSE ReadNext(memory, g[k - 1])
      OBVIOUS
    <3>1. CASE k = m + 1
      <4>1. k # 0 /\ k - 1 = m  BY <3>1, <2>2
      <4>2. g[k - 1] = f[m]  BY <2>2, <2>5, <4>1
      <4> QED  BY <2>3, <2>5, <3>1, <4>1, <4>2
    <3>2. CASE k # m + 1
      <4>1. k \in 0 .. m /\ (k # 0 => k - 1 \in 0 .. m)  BY <3>2, <2>2
      <4>2. f[k] = IF k = 0 THEN t ELSE ReadNext(memory, f[k - 1])  BY <2>1, <4>1
      <4> QED  BY <2>5, <4>1, <4>2
    <3> QED  BY <3>1, <3>2
  <2> QED  BY <2>2, <2>6
<1>3. n \in P
  <2>1. n \in 0 .. n  OBVIOUS
  <2> HIDE DEF P
  <2> QED  BY <1>1, <1>2, <2>1, Upward
<1>4. PICK f : Runs(f, n)  BY <1>3
<1> DEFINE IsAfter(g) == g = [k \in 0 .. n |-> IF k = 0 THEN t ELSE ReadNext(memory, g[k - 1])]
<1>5. \E g : IsAfter(g)
  <2>1. PICK g : g = [k \in 0 .. n |-> f[k]]  OBVIOUS
  <2>2. \A k \in 0 .. n : g[k] = f[k] /\ (k # 0 => k - 1 \in 0 .. n)  BY <2>1
  <2>3. \A k \in 0 .. n : g[k] = IF k = 0 THEN t ELSE ReadNext(memory, g[k - 1])
    <3> SUFFICES ASSUME NEW k \in 0 .. n
                 PROVE  g[k] = IF k = 0 THEN t ELSE ReadNext(memory, g[k - 1])
      OBVIOUS
    <3>1. f[k] = IF k = 0 THEN t ELSE ReadNext(memory, f[k - 1])  BY <1>4
    <3>2. k # 0 => g[k - 1] = f[k - 1]  BY <2>2
    <3> QED  BY <2>2, <3>1, <3>2
  <2>4. IsAfter(g)  BY <2>1, <2>3
  <2> QED  BY <2>4
<1>6. PICK g : IsAfter(g) /\ ReadParams(memory, t, n) = g[n]
  <2>1. IsAfter(CHOOSE g : IsAfter(g))
    <3> HIDE DEF IsAfter
    <3> QED  BY <1>5, Zenon
  <2>2. ReadParams(memory, t, n) = (CHOOSE g : IsAfter(g))[n]  BY Zenon DEF ReadParams
  <2> HIDE DEF IsAfter
  <2> QED  BY <2>1, <2>2, Zenon
<1>7. g[0] = t /\ \A k \in 1 .. n : g[k] = ReadNext(memory, g[k - 1])
  <2>1. 0 \in 0 .. n /\ \A k \in 1 .. n : k \in 0 .. n /\ k # 0  OBVIOUS
  <2>2. \A k \in 0 .. n : g[k] = IF k = 0 THEN t ELSE ReadNext(memory, g[k - 1])  BY <1>6
  <2> QED  BY <2>1, <2>2
<1> QED  BY <1>6, <1>7 DEF LoopOf

\* The packet begins with two numbers, which FromData reads first.
LEMMA HeadIsRead ==
  ASSUME NEW buffer \in Seq(Byte), NEW memory, Holds(memory, buffer),
         NEW type \in Numbers(Width32), NEW n \in Numbers(Width32),
         At(buffer, 0, WriteBytes(type, Width32)), At(buffer, Width32, WriteBytes(n, Width32))
  PROVE  /\ ReadNumber(memory, Cursor(0, 0), Width32) = Cursor(Width32, type)
         /\ ReadNumber(memory, Cursor(Width32, type), Width32) = Cursor(Width32 + Width32, n)
<1>1. \A m \in Numbers(Width32) : m \in Nat /\ m \in Int /\ m % Place[Width32] = m
  <2> SUFFICES ASSUME NEW m \in Numbers(Width32)
               PROVE  m \in Nat /\ m \in Int /\ m % Place[Width32] = m
    OBVIOUS
  <2>1. m \in Nat /\ m \in Int /\ Number(WriteBytes(m, Width32)) = m
    BY WidthsIn, NumberComesBack, NumbersFacts
  <2>2. Number(WriteBytes(m, Width32)) = m % Place[Width32]  BY <2>1, WidthsIn, NumberOfBytes
  <2> QED  BY <2>1, <2>2
<1>2. 0 \in Nat /\ Width32 \in Nat /\ 0 + Width32 = Width32  BY Widths
<1>3. ReadNumber(memory, Cursor(0, 0), Width32) = Cursor(0 + Width32, type % Place[Width32])
  BY <1>1, <1>2, WidthsIn, ReadNumberAt
<1>4. ReadNumber(memory, Cursor(Width32, type), Width32)
        = Cursor(Width32 + Width32, n % Place[Width32])
  BY <1>1, <1>2, WidthsIn, ReadNumberAt
<1> QED  BY <1>1, <1>2, <1>3, <1>4

\* The packet before its parameters are read.
Fresh(cursor) == [cursor |-> cursor, ps |-> [k \in {MsgTypeKey} |-> Typed(UInt32, None)]]

LEMMA FromDataIs ==
  ASSUME NEW buffer, NEW behind, NEW memory, memory = Memory(buffer, behind),
         NEW c, NEW d, NEW t,
         c = ReadNumber(memory, Cursor(0, 0), Width32),
         d = ReadNumber(memory, c, Width32),
         t = Fresh(d)
  PROVE  /\ c.result = "true" => FromData(buffer, behind).msgType = c.got
         /\ d.result = "true" =>
              /\ FromData(buffer, behind).result = ReadParams(memory, t, d.got).cursor.result
              /\ FromData(buffer, behind).params = ReadParams(memory, t, d.got).ps
         /\ d.result # "true" => FromData(buffer, behind).result = d.result
<1> DEFINE type == ReadNumber(memory, [offset |-> 0, got |-> 0, result |-> "true"], Width32)
           count == ReadNumber(memory, type, Width32)
           fresh == [cursor |-> count, ps |-> [k \in {MsgTypeKey} |-> Typed(UInt32, None)]]
           read == IF count.result = "true" THEN ReadParams(memory, fresh, count.got) ELSE fresh
           whole == [result  |-> read.cursor.result,
                     msgType |-> IF type.result = "true" THEN type.got ELSE None,
                     params  |-> read.ps]
<1>1. type = c  BY DEF Cursor
<1>2. count = d /\ fresh = t  BY <1>1 DEF Fresh
<1>3. FromData(buffer, behind) = whole  BY Zenon DEF FromData
<1>4. /\ whole.result = read.cursor.result
      /\ whole.msgType = IF type.result = "true" THEN type.got ELSE None
      /\ whole.params = read.ps
  <2> HIDE DEF type, read
  <2> QED  OBVIOUS
<1>5. fresh.cursor = count  OBVIOUS
<1>6. read = IF count.result = "true" THEN ReadParams(memory, fresh, count.got) ELSE fresh
  OBVIOUS
<1> HIDE DEF type, count, fresh, read, whole
<1> QED  BY <1>1, <1>2, <1>3, <1>4, <1>5, <1>6

\* k parameters have been read.
HasRead(state, k, ps, keys, offset, p0) ==
  /\ \E h : state.cursor = Cursor(offset, h)
  /\ state = [cursor |-> state.cursor, ps |-> state.ps]
  /\ DOMAIN state.ps = DOMAIN p0 \cup {keys[m] : m \in 1 .. k}
  /\ \A m \in 1 .. k : state.ps[keys[m]] = Received(ps[keys[m]])
  /\ \A x \in DOMAIN p0 \ {keys[m] : m \in 1 .. k} : state.ps[x] = p0[x]

LEMMA LoopReads ==
  ASSUME NEW type \in Numbers(Width32), NEW ps, IsParams(ps),
         NEW buffer, NEW memory, Holds(memory, buffer),
         NEW keys, NEW ends, NEW n \in Nat, LaidOut(buffer, type, ps, keys, ends, n),
         NEW t, NEW p0, NEW g, t = [cursor |-> Cursor(ends[0], g), ps |-> p0],
         NEW after, LoopOf(after, memory, t, n)
  PROVE  \A k \in 0 .. n : HasRead(after[k], k, ps, keys, ends[k], p0)
<1>0. after[0] = t /\ \A k \in 1 .. n : after[k] = ReadNext(memory, after[k - 1])
  BY DEF LoopOf
<1>1. /\ buffer \in Seq(Byte)
      /\ keys \in [1 .. n -> DOMAIN ps]
      /\ \A a, b \in 1 .. n : keys[a] = keys[b] => a = b
      /\ ends \in [0 .. n -> Nat]
      /\ \A k \in 1 .. n :
           /\ At(buffer, ends[k - 1], WriteParam(keys[k], ps[keys[k]]))
           /\ ends[k] = ends[k - 1] + Len(WriteParam(keys[k], ps[keys[k]]))
  BY DEF LaidOut
<1>2. DOMAIN ps \subseteq Keys /\ \A k \in DOMAIN ps : IsValue(ps[k])  BY DEF IsParams
<1> DEFINE Reached(k) == \E h : after[k].cursor = Cursor(ends[k], h)
           Whole(k) == after[k] = [cursor |-> after[k].cursor, ps |-> after[k].ps]
           Known(k) == DOMAIN after[k].ps = DOMAIN p0 \cup {keys[m] : m \in 1 .. k}
           Read(k) == \A m \in 1 .. k : after[k].ps[keys[m]] = Received(ps[keys[m]])
           Kept(k) == \A x \in DOMAIN p0 \ {keys[m] : m \in 1 .. k} : after[k].ps[x] = p0[x]
           P == {k \in 0 .. n : Reached(k) /\ Whole(k) /\ Known(k) /\ Read(k) /\ Kept(k)}
<1>3. 0 \in P
  <2>1. {keys[m] : m \in 1 .. 0} = {} /\ 0 \in 0 .. n  OBVIOUS
  <2>2. after[0].cursor = Cursor(ends[0], g) /\ after[0].ps = p0 /\ Whole(0)  BY <1>0
  <2>3. Reached(0) /\ Known(0) /\ Read(0) /\ Kept(0)  BY <2>1, <2>2
  <2> QED  BY <2>1, <2>2, <2>3
<1>4. ASSUME NEW k \in 0 .. n - 1, k \in P PROVE k + 1 \in P
  <2>1. k + 1 \in 1 .. n /\ k + 1 \in 0 .. n /\ (k + 1) - 1 = k /\ k \in 0 .. n  BY <1>4
  <2>2. PICK key, v : key = keys[k + 1] /\ v = ps[key]  OBVIOUS
  <2>3. Sized(key) /\ IsValue(v)
    <3>1. key \in DOMAIN ps  BY <1>1, <2>1, <2>2
    <3> QED  BY <1>2, <2>2, <3>1, KeysAssumption
  <2>4. PICK h : after[k].cursor = Cursor(ends[k], h)  BY <1>4
  <2>5. PICK q : q = after[k].ps  OBVIOUS
  <2>6. after[k] = [cursor |-> Cursor(ends[k], h), ps |-> q]  BY <1>4, <2>4, <2>5
  <2>7. At(buffer, ends[k], WriteParam(key, v)) /\ ends[k] \in Nat
        /\ ends[k + 1] = ends[k] + Len(WriteParam(key, v))
    BY <1>1, <2>1, <2>2
  <2>8. ReadParam(memory, after[k])
          = [cursor |-> Cursor(ends[k + 1], Received(v)), ps |-> Entered(q, key, Received(v))]
    <3>1. ReadParam(memory, [cursor |-> Cursor(ends[k], h), ps |-> q])
            = [cursor |-> Cursor(ends[k] + Len(WriteParam(key, v)), Received(v)),
               ps |-> Entered(q, key, Received(v))]
      BY <1>1, <2>3, <2>7, ReadParamAt
    <3> QED  BY <2>6, <2>7, <3>1
  <2>9. after[k + 1]
          = [cursor |-> Cursor(ends[k + 1], Received(v)), ps |-> Entered(q, key, Received(v))]
    <3>1. after[k].cursor.result = "true"  BY <2>4, CursorFields
    <3>2. after[k + 1] = ReadNext(memory, after[k])  BY <1>0, <2>1
    <3>3. after[k + 1] = ReadParam(memory, after[k])  BY <3>1, <3>2 DEF ReadNext
    <3> QED  BY <2>8, <3>3
  <2>10. /\ after[k + 1].cursor = Cursor(ends[k + 1], Received(v))
         /\ after[k + 1].ps = Entered(q, key, Received(v))
         /\ Whole(k + 1)
    BY <2>9
  <2>11. Reached(k + 1)  BY <2>10
  <2>12. {keys[m] : m \in 1 .. k + 1} = {keys[m] : m \in 1 .. k} \cup {key}
    <3>1. \A m : m \in 1 .. k + 1 <=> m \in 1 .. k \/ m = k + 1  BY <2>1
    <3> QED  BY <2>2, <3>1
  <2>13. /\ DOMAIN Entered(q, key, Received(v)) = DOMAIN q \cup {key}
         /\ Entered(q, key, Received(v))[key] = Received(v)
         /\ \A x \in DOMAIN q : x # key => Entered(q, key, Received(v))[x] = q[x]
    BY DEF Entered
  <2>14. DOMAIN q = DOMAIN p0 \cup {keys[m] : m \in 1 .. k}  BY <1>4, <2>5
  <2>15. Known(k + 1)  BY <2>10, <2>12, <2>13, <2>14
  <2>16. Read(k + 1)
    <3> SUFFICES ASSUME NEW m \in 1 .. k + 1
                 PROVE  after[k + 1].ps[keys[m]] = Received(ps[keys[m]])
      OBVIOUS
    <3>1. CASE m = k + 1  BY <2>2, <2>10, <2>13, <3>1
    <3>2. CASE m # k + 1
      <4>1. m \in 1 .. k /\ m \in 1 .. n  BY <2>1, <3>2
      <4>2. keys[m] # key  BY <1>1, <2>1, <2>2, <3>2, <4>1
      <4>3. keys[m] \in DOMAIN q  BY <2>14, <4>1
      <4>4. q[keys[m]] = Received(ps[keys[m]])  BY <1>4, <2>5, <4>1
      <4> QED  BY <2>10, <2>13, <4>2, <4>3, <4>4
    <3> QED  BY <3>1, <3>2
  <2>17. Kept(k + 1)
    <3> SUFFICES ASSUME NEW x \in DOMAIN p0 \ {keys[m] : m \in 1 .. k + 1}
                 PROVE  after[k + 1].ps[x] = p0[x]
      OBVIOUS
    <3>1. x # key /\ x \in DOMAIN p0 \ {keys[m] : m \in 1 .. k}  BY <2>12
    <3>2. q[x] = p0[x]  BY <1>4, <2>5, <3>1
    <3> QED  BY <2>10, <2>13, <2>14, <3>1, <3>2
  <2> QED  BY <2>1, <2>10, <2>11, <2>15, <2>16, <2>17
<1>5. \A k \in 0 .. n : k \in P
  <2> HIDE DEF P
  <2> QED  BY <1>3, <1>4, Upward
<1> QED  BY <1>5 DEF HasRead

LEMMA WholeIsRead ==
  ASSUME NEW type \in Numbers(Width32), NEW ps, IsParams(ps),
         NEW behind \in Seq(Byte),
         NEW got, got = FromData(Serialize(type, ps), behind)
  PROVE  /\ got.result = "true" /\ got.msgType = type
         /\ DOMAIN got.params = DOMAIN ps \cup {MsgTypeKey}
         /\ \A key \in DOMAIN ps : got.params[key] = Received(ps[key])
         /\ MsgTypeKey \notin DOMAIN ps => got.params[MsgTypeKey] = Typed(UInt32, None)
<1>1. PICK buffer : buffer = Serialize(type, ps)  OBVIOUS
<1>2. PICK keys, ends, n : n \in Numbers(Width32) /\ LaidOut(buffer, type, ps, keys, ends, n)
  BY <1>1, SerializeLaysOut
<1>3. /\ buffer \in Seq(Byte)
      /\ At(buffer, 0, WriteBytes(type, Width32))
      /\ At(buffer, Width32, WriteBytes(n, Width32))
      /\ keys \in [1 .. n -> DOMAIN ps] /\ \A x \in DOMAIN ps : \E a \in 1 .. n : keys[a] = x
      /\ ends[0] = Width32 + Width32
  BY <1>2 DEF LaidOut
<1>4. n \in Nat  BY <1>2, WidthsIn, NumbersFacts
<1>4a. PICK memory : memory = Memory(buffer, behind)  OBVIOUS
<1>4b. Holds(memory, buffer)  BY <1>3, <1>4a, MemoryHolds
<1>5. PICK c, d : /\ c = ReadNumber(memory, Cursor(0, 0), Width32)
                  /\ d = ReadNumber(memory, c, Width32)
  OBVIOUS
<1>6. c = Cursor(Width32, type) /\ d = Cursor(ends[0], n)
  BY <1>2, <1>3, <1>4b, <1>5, HeadIsRead
<1>7. /\ c.result = "true" /\ c.got = type
      /\ d.result = "true" /\ d.got = n
  BY <1>6, CursorFields
<1>8. PICK p0 : p0 = [k \in {MsgTypeKey} |-> Typed(UInt32, None)]  OBVIOUS
<1>9. PICK t : t = [cursor |-> d, ps |-> p0]  OBVIOUS
<1>10. /\ FromData(buffer, behind).msgType = type
       /\ FromData(buffer, behind).result = ReadParams(memory, t, n).cursor.result
       /\ FromData(buffer, behind).params = ReadParams(memory, t, n).ps
  <2>1. t = Fresh(d)  BY <1>8, <1>9 DEF Fresh
  <2> QED  BY <1>4a, <1>5, <1>7, <2>1, FromDataIs
<1>11. PICK after : ReadParams(memory, t, n) = after[n] /\ LoopOf(after, memory, t, n)
  BY <1>4, ReadRuns
<1>12. t = [cursor |-> Cursor(ends[0], n), ps |-> p0]  BY <1>6, <1>9
<1>13. /\ \E h : after[n].cursor = Cursor(ends[n], h)
       /\ DOMAIN after[n].ps = DOMAIN p0 \cup {keys[m] : m \in 1 .. n}
       /\ \A m \in 1 .. n : after[n].ps[keys[m]] = Received(ps[keys[m]])
       /\ \A x \in DOMAIN p0 \ {keys[m] : m \in 1 .. n} : after[n].ps[x] = p0[x]
  <2>1. n \in 0 .. n  BY <1>4
  <2>2. HasRead(after[n], n, ps, keys, ends[n], p0)
    BY <1>2, <1>4, <1>4b, <1>11, <1>12, <2>1, LoopReads
  <2> QED  BY <2>2 DEF HasRead
<1>14. {keys[m] : m \in 1 .. n} = DOMAIN ps  BY <1>3
<1>15. DOMAIN p0 = {MsgTypeKey} /\ p0[MsgTypeKey] = Typed(UInt32, None)  BY <1>8
<1>16. got.params = after[n].ps /\ got.result = after[n].cursor.result /\ got.msgType = type
  BY <1>1, <1>10, <1>11
<1>17. got.result = "true"  BY <1>13, <1>16, CursorFields
<1>18. DOMAIN got.params = DOMAIN ps \cup {MsgTypeKey}  BY <1>13, <1>14, <1>15, <1>16
<1>19. \A key \in DOMAIN ps : got.params[key] = Received(ps[key])
  BY <1>3, <1>13, <1>16
<1>20. MsgTypeKey \notin DOMAIN ps => got.params[MsgTypeKey] = Typed(UInt32, None)
  BY <1>13, <1>14, <1>15, <1>16
<1> QED  BY <1>16, <1>17, <1>18, <1>19, <1>20

-----------------------------------------------------------------------------
(* Reading what was cut off. *)

\* The buffer in the one memory is the beginning of the buffer in the other.
Cut(cut, memory) ==
  /\ cut.bytes \in Seq(Byte) /\ cut.size \in Nat /\ cut.size <= Len(cut.bytes)
  /\ memory.bytes \in Seq(Byte) /\ memory.size \in Nat /\ memory.size <= Len(memory.bytes)
  /\ cut.size <= memory.size
  /\ \A i \in 1 .. cut.size : cut.bytes[i] = memory.bytes[i]

Within(cut, c) == c.offset \in Nat /\ c.offset <= cut.size

\* What SubSeq takes after the first o.
LEMMA SubSeqAfter ==
  ASSUME NEW S, NEW b, NEW o \in Nat, NEW n \in Nat,
         \A i \in o + 1 .. o + n : b[i] \in S
  PROVE  /\ SubSeq(b, o + 1, o + n) \in Seq(S)
         /\ Len(SubSeq(b, o + 1, o + n)) = n
         /\ \A i \in 1 .. n : SubSeq(b, o + 1, o + n)[i] = b[o + i]
<1>1. o + 1 \in Int /\ o + n \in Int  OBVIOUS
<1>2. /\ SubSeq(b, o + 1, o + n) \in Seq(S)
      /\ Len(SubSeq(b, o + 1, o + n)) = IF o + 1 <= o + n THEN o + n - (o + 1) + 1 ELSE 0
      /\ \A i \in 1 .. o + n - (o + 1) + 1 : SubSeq(b, o + 1, o + n)[i] = b[o + 1 + i - 1]
  BY <1>1, SubSeqProperties
<1>3. PICK t : t = SubSeq(b, o + 1, o + n)  OBVIOUS
<1>4. Len(t) = IF o + 1 <= o + n THEN o + n - (o + 1) + 1 ELSE 0  BY <1>2, <1>3
<1>5. Len(t) = n  BY <1>4
<1>6. \A i \in 1 .. n : i \in 1 .. o + n - (o + 1) + 1 /\ o + 1 + i - 1 = o + i
  OBVIOUS
<1>7. \A i \in 1 .. n : SubSeq(b, o + 1, o + n)[i] = b[o + i]  BY <1>2, <1>6
<1> QED  BY <1>2, <1>3, <1>5, <1>7

LEMMA TakeCut ==
  ASSUME NEW cut, NEW memory, Cut(cut, memory), NEW c, NEW n \in Nat,
         c.offset \in Nat, ~(Left(cut, c) < n)
  PROVE  /\ ~(Left(memory, c) < n)
         /\ ~(Len(cut.bytes) - c.offset < n) /\ ~(Len(memory.bytes) - c.offset < n)
         /\ Take(cut, c, n) = Take(memory, c, n)
         /\ Take(cut, c, n) \in Seq(Byte) /\ Len(Take(cut, c, n)) = n
         /\ c.offset + n \in Nat /\ c.offset + n <= cut.size
<1>0. PICK b, d : b = cut.bytes /\ d = memory.bytes  OBVIOUS
<1>1. /\ b \in Seq(Byte) /\ d \in Seq(Byte)
      /\ cut.size <= Len(b) /\ cut.size <= memory.size /\ memory.size <= Len(d)
      /\ \A i \in 1 .. cut.size : b[i] = d[i]
      /\ Len(b) \in Nat /\ Len(d) \in Nat /\ cut.size \in Nat /\ memory.size \in Nat
  BY <1>0, LenProperties DEF Cut
<1>2. PICK o \in Nat : o = c.offset  OBVIOUS
<1>3. o + n <= cut.size /\ ~(memory.size - o < n)
  <2>1. ~(cut.size - o < n)  BY <1>2 DEF Left
  <2> QED  BY <1>1, <2>1
<1>4. PICK s : s = SubSeq(b, o + 1, o + n)  OBVIOUS
<1>5. \A i \in o + 1 .. o + n : i \in 1 .. cut.size /\ i \in 1 .. Len(b) /\ b[i] \in Byte
  BY <1>1, <1>3
<1>6. /\ s \in Seq(Byte) /\ Len(s) = n
      /\ \A i \in 1 .. n : s[i] = b[o + i]
  <2>1. \A i \in o + 1 .. o + n : b[i] \in Byte  BY <1>5
  <2>2. /\ SubSeq(b, o + 1, o + n) \in Seq(Byte)
        /\ Len(SubSeq(b, o + 1, o + n)) = n
        /\ \A i \in 1 .. n : SubSeq(b, o + 1, o + n)[i] = b[o + i]
    BY <2>1, SubSeqAfter
  <2> QED  BY <1>4, <2>2
<1>7. At(d, o, s)
  <2>1. o + Len(s) <= Len(d)  BY <1>1, <1>3, <1>6
  <2>2. \A i \in 1 .. Len(s) : d[o + i] = s[i]
    <3> SUFFICES ASSUME NEW i \in 1 .. Len(s) PROVE d[o + i] = s[i]  OBVIOUS
    <3>1. i \in 1 .. n /\ o + i \in 1 .. cut.size  BY <1>1, <1>3, <1>6
    <3> QED  BY <1>1, <1>6, <3>1
  <2> QED  BY <2>1, <2>2 DEF At
<1>8. SubSeq(d, o + 1, o + n) = s
  <2>1. SubSeq(d, o + 1, o + Len(s)) = s  BY <1>1, <1>6, <1>7, TakeIsAt
  <2> QED  BY <1>6, <2>1
<1>9. Take(cut, c, n) = s /\ Take(memory, c, n) = s  BY <1>0, <1>2, <1>4, <1>8 DEF Take
<1>10. ~(Left(memory, c) < n)  BY <1>2, <1>3 DEF Left
<1>11. c.offset + n \in Nat /\ c.offset + n <= cut.size  BY <1>2, <1>3
<1>12. ~(Len(cut.bytes) - c.offset < n) /\ ~(Len(memory.bytes) - c.offset < n)
  <2>1. ~(Len(b) - o < n) /\ ~(Len(d) - o < n)  BY <1>1, <1>3
  <2> QED  BY <1>0, <1>2, <2>1
<1> QED  BY <1>6, <1>9, <1>10, <1>11, <1>12

LEMMA ReadCheckedCut ==
  ASSUME NEW cut, NEW memory, Cut(cut, memory), NEW c, NEW n \in Nat, c.offset \in Nat,
         NEW r, r = ReadChecked(cut, c, n), r.result = "true"
  PROVE  /\ c.result = "true" /\ Within(cut, r) /\ ReadChecked(memory, c, n) = r
         /\ r.got \in Seq(Byte) /\ Len(r.got) = n /\ c.offset + n <= cut.size
<1>1. c.result = "true"
  <2>1. CASE c.result # "true"
    <3>1. r = c  BY <2>1 DEF ReadChecked
    <3> QED  BY <2>1, <3>1
  <2> QED  BY <2>1
<1>2. ~(Left(cut, c) < n)
  <2>1. CASE Left(cut, c) < n
    <3>1. r = Failed(c, "false")  BY <1>1, <2>1 DEF ReadChecked
    <3>2. r.result = "false"  BY <3>1 DEF Failed
    <3> QED  BY <3>2
  <2> QED  BY <2>1
<1>3. r = Moved(c, n, Take(cut, c, n))  BY <1>1, <1>2 DEF ReadChecked
<1>4. r.offset = c.offset + n /\ r.got = Take(cut, c, n)  BY <1>3 DEF Moved
<1>5. /\ ~(Left(memory, c) < n)
      /\ Take(cut, c, n) = Take(memory, c, n)
      /\ Take(cut, c, n) \in Seq(Byte) /\ Len(Take(cut, c, n)) = n
      /\ c.offset + n \in Nat /\ c.offset + n <= cut.size
  BY <1>2, TakeCut
<1>6. ReadChecked(memory, c, n) = r  BY <1>1, <1>3, <1>5 DEF ReadChecked
<1>7. Within(cut, r)  BY <1>4, <1>5 DEF Within
<1> QED  BY <1>1, <1>4, <1>5, <1>6, <1>7

\* A number that lies in the part that is left.
LEMMA ReadNumberCut ==
  ASSUME NEW cut, NEW memory, Cut(cut, memory), NEW c, NEW w \in 0 .. Width64, c.offset \in Nat,
         ~(Left(cut, c) < w), NEW r, r = ReadNumber(cut, c, w), r.result = "true"
  PROVE  c.result = "true" /\ Within(cut, r) /\ ReadNumber(memory, c, w) = r
<1>0. w \in Nat /\ w <= Width64  BY Widths
<1>1. c.result = "true"
  <2>1. CASE c.result # "true"
    <3>1. r = c  BY <2>1 DEF ReadNumber
    <3> QED  BY <2>1, <3>1
  <2> QED  BY <2>1
<1>2. /\ ~(Len(cut.bytes) - c.offset < w) /\ ~(Len(memory.bytes) - c.offset < w)
      /\ Take(cut, c, w) = Take(memory, c, w)
      /\ c.offset + w \in Nat /\ c.offset + w <= cut.size
  BY <1>0, TakeCut
<1>3. r = Moved(c, w, Number(Take(cut, c, w)))  BY <1>1, <1>2 DEF ReadNumber
<1>4. r.offset = c.offset + w  BY <1>3 DEF Moved
<1>5. ReadNumber(memory, c, w) = r  BY <1>1, <1>2, <1>3 DEF ReadNumber
<1>6. Within(cut, r)  BY <1>2, <1>4 DEF Within
<1> QED  BY <1>1, <1>5, <1>6

\* Any number that is read, in the buffer or behind it.
LEMMA ReadNumberIs ==
  ASSUME NEW memory, memory.bytes \in Seq(Byte), NEW c, NEW w \in 0 .. Width64,
         c.offset \in Nat, NEW r, r = ReadNumber(memory, c, w), r.result = "true"
  PROVE  /\ c.result = "true" /\ r.got \in Nat
         /\ r.offset = c.offset + w /\ r.offset \in Nat /\ r.offset <= Len(memory.bytes)
         /\ r = Cursor(c.offset + w, Number(SubSeq(memory.bytes, c.offset + 1, c.offset + w)))
<1>0. w \in Nat /\ w <= Width64 /\ Len(memory.bytes) \in Nat  BY Widths, LenProperties
<1>1. c.result = "true"
  <2>1. CASE c.result # "true"
    <3>1. r = c  BY <2>1 DEF ReadNumber
    <3> QED  BY <2>1, <3>1
  <2> QED  BY <2>1
<1>2. ~(Len(memory.bytes) - c.offset < w)
  <2>1. CASE Len(memory.bytes) - c.offset < w
    <3>1. r = Failed(c, "crash")  BY <1>1, <2>1 DEF ReadNumber
    <3>2. r.result = "crash"  BY <3>1 DEF Failed
    <3> QED  BY <3>2
  <2> QED  BY <2>1
<1>3. PICK o \in Nat : o = c.offset  OBVIOUS
<1>4. PICK b : b = memory.bytes  OBVIOUS
<1>5. PICK s : s = SubSeq(b, o + 1, o + w)  OBVIOUS
<1>6. s \in Seq(Byte) /\ Len(s) = w
  <2>1. \A i \in o + 1 .. o + w : b[i] \in Byte
    <3>1. b \in Seq(Byte) /\ o + w <= Len(b)  BY <1>0, <1>2, <1>3, <1>4
    <3>2. \A i \in o + 1 .. o + w : i \in 1 .. Len(b)  BY <1>0, <1>4, <3>1
    <3> QED  BY <3>1, <3>2
  <2>2. SubSeq(b, o + 1, o + w) \in Seq(Byte) /\ Len(SubSeq(b, o + 1, o + w)) = w
    BY <1>0, <2>1, SubSeqAfter
  <2> QED  BY <1>5, <2>2
<1>7. r = Moved(c, w, Number(s))
  BY <1>1, <1>2, <1>3, <1>4, <1>5 DEF ReadNumber, Take
<1>8. r.offset = c.offset + w /\ r.got = Number(s) /\ r = Cursor(o + w, Number(s))
  BY <1>3, <1>7 DEF Moved, Cursor
<1>9. Number(s) \in Nat  BY <1>0, <1>6, NumberIsNat
<1>10. r.offset \in Nat /\ r.offset <= Len(memory.bytes)  BY <1>0, <1>2, <1>3, <1>8
<1> QED  BY <1>1, <1>3, <1>4, <1>5, <1>8, <1>9, <1>10

\* The check of a length sees that the length itself lay behind the end.
LEMMA ReadSizedCut ==
  ASSUME NEW cut, NEW memory, Cut(cut, memory), NEW c, c.offset \in Nat,
         NEW r, r = ReadSized(cut, c), r.result = "true"
  PROVE  /\ c.result = "true" /\ Within(cut, r) /\ ReadSized(memory, c) = r
         /\ c.offset + Width32 <= cut.size
<1>1. PICK size : size = ReadNumber(cut, c, Width32)  OBVIOUS
<1>2. r = IF size.result = "true" THEN ReadChecked(cut, size, size.got) ELSE size
  BY <1>1 DEF ReadSized
<1>3. size.result = "true" /\ r = ReadChecked(cut, size, size.got)
  <2>1. CASE size.result # "true"
    <3>1. r = size  BY <1>2, <2>1
    <3> QED  BY <2>1, <3>1
  <2> QED  BY <1>2, <2>1
<1>4. /\ c.result = "true" /\ size.got \in Nat
      /\ size.offset = c.offset + Width32 /\ size.offset \in Nat
  <2>1. cut.bytes \in Seq(Byte)  BY DEF Cut
  <2> QED  BY <1>1, <1>3, <2>1, WidthsIn, ReadNumberIs
<1>5. Within(cut, r) /\ ReadChecked(memory, size, size.got) = r /\ size.offset <= cut.size
  <2>1. Within(cut, r) /\ ReadChecked(memory, size, size.got) = r
        /\ size.offset + size.got <= cut.size
    BY <1>3, <1>4, ReadCheckedCut
  <2>2. cut.size \in Nat  BY DEF Cut
  <2> QED  BY <1>4, <2>1, <2>2
<1>6. ~(Left(cut, c) < Width32) /\ c.offset + Width32 <= cut.size
  <2>1. c.offset + Width32 <= cut.size /\ cut.size \in Nat /\ Width32 \in Nat
    BY <1>4, <1>5, Widths DEF Cut
  <2> QED  BY <2>1 DEF Left
<1>7. ReadNumber(memory, c, Width32) = size
  BY <1>1, <1>3, <1>6, WidthsIn, ReadNumberCut
<1>8. ReadSized(memory, c) = r  BY <1>3, <1>5, <1>7 DEF ReadSized
<1> QED  BY <1>4, <1>5, <1>6, <1>8

LEMMA ReadRawCut ==
  ASSUME NEW cut, NEW memory, Cut(cut, memory), NEW c, Within(cut, c), NEW i,
         NEW r, r = ReadRaw(cut, c, i), r.result = "true"
  PROVE  Within(cut, r) /\ ReadRaw(memory, c, i) = r
<1>0. c.offset \in Nat /\ 1 \in Nat /\ Width32 \in Nat /\ Width64 \in Nat
  BY Widths DEF Within
<1>1. CASE i \in {Int32, UInt32}
  <2>1. \A a : ReadRaw(a, c, i) = ReadChecked(a, c, Width32)
    BY <1>1 DEF ReadRaw, Int32, UInt8, UInt32, UInt64, Text, Truth, Blob
  <2> QED  BY <1>0, <2>1, ReadCheckedCut
<1>2. CASE i = UInt64
  <2>1. \A a : ReadRaw(a, c, i) = ReadChecked(a, c, Width64)
    BY <1>2 DEF ReadRaw, Int32, UInt8, UInt32, UInt64, Text, Truth, Blob
  <2> QED  BY <1>0, <2>1, ReadCheckedCut
<1>3. CASE i \in {UInt8, Truth}
  <2>1. \A a : ReadRaw(a, c, i) = ReadChecked(a, c, 1)
    BY <1>3 DEF ReadRaw, Int32, UInt8, UInt32, UInt64, Text, Truth, Blob
  <2> QED  BY <1>0, <2>1, ReadCheckedCut
<1>4. CASE i \in {Text, Blob}
  <2>1. \A a : ReadRaw(a, c, i) = ReadSized(a, c)
    BY <1>4 DEF ReadRaw, Int32, UInt8, UInt32, UInt64, Text, Truth, Blob
  <2> QED  BY <1>0, <2>1, ReadSizedCut
<1>5. CASE i \notin {Int32, UInt32, UInt64, UInt8, Truth, Text, Blob}
  <2>1. \A a : ReadRaw(a, c, i) = c  BY <1>5 DEF ReadRaw
  <2> QED  BY <2>1
<1> QED  BY <1>1, <1>2, <1>3, <1>4, <1>5

LEMMA ReadValueCut ==
  ASSUME NEW cut, NEW memory, Cut(cut, memory), NEW c, Within(cut, c), NEW i,
         NEW r, r = ReadValue(cut, c, i), r.result = "true"
  PROVE  Within(cut, r) /\ ReadValue(memory, c, i) = r
<1>1. PICK raw : raw = ReadRaw(cut, c, i)  OBVIOUS
<1>2. r = IF raw.result = "true" THEN Moved(raw, 0, Meaning(i, raw.got)) ELSE raw
  BY <1>1 DEF ReadValue
<1>3. raw.result = "true" /\ r = Moved(raw, 0, Meaning(i, raw.got))
  <2>1. CASE raw.result # "true"
    <3>1. r = raw  BY <1>2, <2>1
    <3> QED  BY <2>1, <3>1
  <2> QED  BY <1>2, <2>1
<1>4. Within(cut, raw) /\ ReadRaw(memory, c, i) = raw  BY <1>1, <1>3, ReadRawCut
<1>5. ReadValue(memory, c, i) = r  BY <1>3, <1>4 DEF ReadValue
<1>6. Within(cut, r)
  <2>1. r.offset = raw.offset + 0  BY <1>3 DEF Moved
  <2>2. raw.offset \in Nat /\ raw.offset <= cut.size  BY <1>4 DEF Within
  <2>3. r.offset = raw.offset  BY <2>1, <2>2
  <2> QED  BY <2>2, <2>3 DEF Within
<1> QED  BY <1>5, <1>6

LEMMA ReadParamCut ==
  ASSUME NEW cut, NEW memory, Cut(cut, memory), NEW t, Within(cut, t.cursor),
         NEW r, r = ReadParam(cut, t), r.cursor.result = "true"
  PROVE  Within(cut, r.cursor) /\ ReadParam(memory, t) = r
<1> DEFINE Key(a) == ReadSized(a, t.cursor)
           Index(a) == ReadChecked(a, Key(a), 1)
           Value(a) == IF Index(a).result = "true"
                       THEN ReadValue(a, Index(a), Index(a).got[1]) ELSE Index(a)
           Whole(a) == IF Value(a).result = "true"
                       THEN [cursor |-> Value(a),
                             ps |-> [k \in DOMAIN t.ps \cup {Key(a).got} |->
                                       IF k = Key(a).got THEN Value(a).got ELSE t.ps[k]]]
                       ELSE [cursor |-> Value(a), ps |-> t.ps]
<1>1. ReadParam(cut, t) = Whole(cut) /\ ReadParam(memory, t) = Whole(memory)
  BY Zenon DEF ReadParam
<1>2. Whole(cut).cursor = Value(cut)
  <2> HIDE DEF Value, Key
  <2> QED  OBVIOUS
<1>3. Value(cut).result = "true" /\ r.cursor = Value(cut)
  <2> HIDE DEF Value, Whole
  <2> QED  BY <1>1, <1>2
<1>4. Index(cut).result = "true" /\ Value(cut) = ReadValue(cut, Index(cut), Index(cut).got[1])
  <2>1. CASE Index(cut).result # "true"
    <3>1. Value(cut) = Index(cut)
      <4> HIDE DEF Index
      <4> QED  BY <2>1
    <3> HIDE DEF Index, Value
    <3> QED  BY <1>3, <2>1, <3>1
  <2>2. CASE Index(cut).result = "true"
    <3> HIDE DEF Index
    <3> QED  BY <2>2
  <2> QED  BY <2>1, <2>2
<1>5. /\ Index(memory) = Index(cut) /\ Key(memory) = Key(cut) /\ Within(cut, Index(cut))
  <2>1. Key(cut).result = "true"
    <3>1. CASE Key(cut).result # "true"
      <4>1. Index(cut) = Key(cut)
        <5> HIDE DEF Key
        <5> QED  BY <3>1 DEF ReadChecked
      <4> HIDE DEF Key, Index
      <4> QED  BY <1>4, <3>1, <4>1
    <3> QED  BY <3>1
  <2>2. t.cursor.offset \in Nat  BY DEF Within
  <2>3. PICK key : key = Key(cut)  OBVIOUS
  <2>4. Within(cut, key) /\ Key(memory) = key  BY <2>1, <2>2, <2>3, ReadSizedCut
  <2>5. key.offset \in Nat /\ 1 \in Nat  BY <2>4 DEF Within
  <2>6. PICK index : index = Index(cut)  OBVIOUS
  <2>7. index = ReadChecked(cut, key, 1) /\ index.result = "true"
    <3> HIDE DEF Key
    <3> QED  BY <1>4, <2>3, <2>6
  <2>8. Within(cut, index) /\ ReadChecked(memory, key, 1) = index
    BY <2>5, <2>7, ReadCheckedCut
  <2> HIDE DEF Key
  <2> QED  BY <2>3, <2>4, <2>6, <2>8
<1>6. Value(memory) = Value(cut) /\ Within(cut, Value(cut))
  <2>1. PICK index, i, v : index = Index(cut) /\ i = Index(cut).got[1] /\ v = Value(cut)  OBVIOUS
  <2>2. v = ReadValue(cut, index, i) /\ v.result = "true" /\ Within(cut, index)
    <3> HIDE DEF Index, Value
    <3> QED  BY <1>3, <1>4, <1>5, <2>1
  <2>3. Within(cut, v) /\ ReadValue(memory, index, i) = v  BY <2>2, ReadValueCut
  <2>4. Value(memory) = ReadValue(memory, index, i)
    <3> HIDE DEF Index
    <3> QED  BY <1>4, <1>5, <2>1
  <2> HIDE DEF Value
  <2> QED  BY <2>1, <2>3, <2>4
<1>7. Whole(memory) = Whole(cut)
  <2> HIDE DEF Value, Key
  <2> QED  BY <1>5, <1>6
<1>8. Within(cut, r.cursor)
  <2> HIDE DEF Value
  <2> QED  BY <1>3, <1>6
<1> HIDE DEF Whole
<1> QED  BY <1>1, <1>7, <1>8

\* As long as the loop goes well it does what it would do with the whole memory.
LEMMA LoopCut ==
  ASSUME NEW cut, NEW memory, Cut(cut, memory), NEW n \in Nat, NEW t, Within(cut, t.cursor),
         NEW short, LoopOf(short, cut, t, n), NEW after, LoopOf(after, memory, t, n),
         short[n].cursor.result = "true"
  PROVE  short[n] = after[n] /\ Within(cut, short[n].cursor)
<1>0. /\ short[0] = t /\ \A k \in 1 .. n : short[k] = ReadNext(cut, short[k - 1])
      /\ after[0] = t /\ \A k \in 1 .. n : after[k] = ReadNext(memory, after[k - 1])
  BY DEF LoopOf
<1> DEFINE Same(k) == short[k].cursor.result = "true" =>
                        short[k] = after[k] /\ Within(cut, short[k].cursor)
           P == {k \in 0 .. n : Same(k)}
<1>1. 0 \in P
  <2>1. 0 \in 0 .. n /\ Same(0)  BY <1>0
  <2> QED  BY <2>1
<1>2. ASSUME NEW k \in 0 .. n - 1, k \in P PROVE k + 1 \in P
  <2>1. k + 1 \in 1 .. n /\ k + 1 \in 0 .. n /\ (k + 1) - 1 = k  BY <1>2
  <2>2. short[k + 1] = ReadNext(cut, short[k]) /\ after[k + 1] = ReadNext(memory, after[k])
    BY <1>0, <2>1
  <2>3. ASSUME short[k + 1].cursor.result = "true"
        PROVE  short[k + 1] = after[k + 1] /\ Within(cut, short[k + 1].cursor)
    <3>1. short[k].cursor.result = "true"
      <4>1. CASE short[k].cursor.result # "true"
        <5>1. short[k + 1] = short[k]  BY <2>2, <4>1 DEF ReadNext
        <5> QED  BY <2>3, <4>1, <5>1
      <4> QED  BY <4>1
    <3>2. PICK u, r : u = short[k] /\ r = short[k + 1]  OBVIOUS
    <3>3. u = after[k] /\ Within(cut, u.cursor)  BY <1>2, <3>1, <3>2
    <3>4. r = ReadParam(cut, u)  BY <2>2, <3>1, <3>2 DEF ReadNext
    <3>5. Within(cut, r.cursor) /\ ReadParam(memory, u) = r
      BY <2>3, <3>2, <3>3, <3>4, ReadParamCut
    <3>6. after[k + 1] = ReadParam(memory, u)  BY <2>2, <3>1, <3>2, <3>3 DEF ReadNext
    <3> QED  BY <3>2, <3>5, <3>6
  <2>4. Same(k + 1)  BY <2>3
  <2> QED  BY <2>1, <2>4
<1>3. n \in P
  <2>1. n \in 0 .. n  OBVIOUS
  <2> HIDE DEF P
  <2> QED  BY <1>1, <1>2, <2>1, Upward
<1> QED  BY <1>3

-----------------------------------------------------------------------------
(* Packets. *)

\* Types of a packet that is being composed.
PacketTypeOK == msgType \in MsgTypes /\ IsParams(params)

LEMMA TypesFit == \A type \in MsgTypes : type \in Numbers(Width32)
BY MsgTypesAssumption

LEMMA PacketTypes == PacketSpec => []PacketTypeOK
<1>1. PacketInit => PacketTypeOK
  <2> SUFFICES ASSUME PacketInit PROVE PacketTypeOK  OBVIOUS
  <2>1. msgType \in MsgTypes /\ params = [k \in {MsgTypeKey} |-> Typed(UInt32, msgType)]
    BY DEF PacketInit
  <2>2. DOMAIN params = {MsgTypeKey} /\ params[MsgTypeKey] = Typed(UInt32, msgType)
    BY <2>1
  <2>3. IsValue(Typed(UInt32, msgType))
    <3>1. msgType \in Numbers(Width32)  BY <2>1, TypesFit
    <3> HIDE DEF Numbers
    <3> QED  BY <3>1 DEF IsValue, Typed
  <2>4. {MsgTypeKey} \subseteq Keys  BY KeysAssumption
  <2>5. params = [k \in DOMAIN params |-> params[k]]  BY <2>1, <2>2
  <2> QED  BY <2>1, <2>2, <2>3, <2>4, <2>5 DEF PacketTypeOK, IsParams
<1>2. PacketTypeOK /\ [PacketNext]_packetVars => PacketTypeOK'
  <2> SUFFICES ASSUME PacketTypeOK, [PacketNext]_packetVars PROVE PacketTypeOK'  OBVIOUS
  <2>1. CASE UNCHANGED packetVars  BY <2>1 DEF packetVars, PacketTypeOK, IsParams
  <2>2. CASE ClearParams
    <3>1. params' = [k \in {} |-> Typed(Int32, 0)] /\ msgType' = msgType
      BY <2>2 DEF ClearParams
    <3>2. DOMAIN params' = {}  BY <3>1
    <3>3. params' = [k \in DOMAIN params' |-> params'[k]]  BY <3>1, <3>2
    <3> QED  BY <3>1, <3>2, <3>3 DEF PacketTypeOK, IsParams
  <2>3. ASSUME NEW key \in Keys \ {MsgTypeKey}, NEW value \in Values, AddParam(key, value)
        PROVE  PacketTypeOK'
    <3>1. /\ params' = [k \in DOMAIN params \cup {key} |-> IF k = key THEN value ELSE params[k]]
          /\ msgType' = msgType
      BY <2>3 DEF AddParam
    <3>2. DOMAIN params' = DOMAIN params \cup {key}  BY <3>1
    <3>3. params' = [k \in DOMAIN params' |-> params'[k]]  BY <3>1, <3>2
    <3>4. IsValue(value)  BY ValuesAssumption
    <3>5. DOMAIN params \subseteq Keys /\ \A k \in DOMAIN params : IsValue(params[k])
      BY DEF PacketTypeOK, IsParams
    <3>6. DOMAIN params' \subseteq Keys  BY <3>2, <3>5
    <3>7. \A k \in DOMAIN params' : IsValue(params'[k])
      <4> SUFFICES ASSUME NEW k \in DOMAIN params' PROVE IsValue(params'[k])  OBVIOUS
      <4>1. CASE k = key
        <5>1. params'[k] = value  BY <3>1, <3>2, <4>1
        <5> QED  BY <3>4, <5>1
      <4>2. CASE k # key
        <5>1. k \in DOMAIN params /\ params'[k] = params[k]  BY <3>1, <3>2, <4>2
        <5> QED  BY <3>5, <5>1
      <4> QED  BY <4>1, <4>2
    <3> QED  BY <3>1, <3>3, <3>6, <3>7 DEF PacketTypeOK, IsParams
  <2> QED  BY <2>1, <2>2, <2>3 DEF PacketNext
<1> QED  BY <1>1, <1>2, PTL DEF PacketSpec

LEMMA RoundTripHolds == PacketTypeOK => RoundTrip
<1> SUFFICES ASSUME PacketTypeOK PROVE RoundTrip  OBVIOUS
<1>1. msgType \in Numbers(Width32) /\ IsParams(params)  BY TypesFit DEF PacketTypeOK
<1> SUFFICES ASSUME NEW behind \in Memories, NEW got,
                    got = FromData(Serialize(msgType, params), behind)
             PROVE  /\ got.result = "true" /\ got.msgType = msgType
                    /\ DOMAIN got.params = DOMAIN params \cup {MsgTypeKey}
                    /\ \A key \in DOMAIN params :
                         IF params[key].index = Int32
                         THEN /\ GetParam(got.params, key, UInt32, None)
                                   = params[key].value % Place[Width32]
                              /\ GetParam(got.params, key, Int32, None) = None
                         ELSE got.params[key] = params[key]
                    /\ MsgTypeKey \notin DOMAIN params =>
                         got.params[MsgTypeKey] = Typed(UInt32, None)
  BY DEF RoundTrip
<1>2. behind \in Seq(Byte)  BY MemoriesAssumption
<1>3. /\ got.result = "true" /\ got.msgType = msgType
      /\ DOMAIN got.params = DOMAIN params \cup {MsgTypeKey}
      /\ \A key \in DOMAIN params : got.params[key] = Received(params[key])
      /\ MsgTypeKey \notin DOMAIN params => got.params[MsgTypeKey] = Typed(UInt32, None)
  BY <1>1, <1>2, WholeIsRead
<1>4. ASSUME NEW key \in DOMAIN params
      PROVE  IF params[key].index = Int32
             THEN /\ GetParam(got.params, key, UInt32, None) = params[key].value % Place[Width32]
                  /\ GetParam(got.params, key, Int32, None) = None
             ELSE got.params[key] = params[key]
  <2>1. got.params[key] = Received(params[key]) /\ key \in DOMAIN got.params  BY <1>3
  <2>2. CASE params[key].index = Int32
    <3>1. got.params[key] = Typed(UInt32, params[key].value % Place[Width32])
      BY <2>1, <2>2 DEF Received
    <3>2. /\ got.params[key].index = UInt32
          /\ got.params[key].value = params[key].value % Place[Width32]
      BY <3>1 DEF Typed
    <3>3. GetParam(got.params, key, UInt32, None) = params[key].value % Place[Width32]
      BY <2>1, <3>2 DEF GetParam
    <3>4. GetParam(got.params, key, Int32, None) = None
      BY <2>1, <3>2 DEF GetParam, UInt32, Int32
    <3> QED  BY <2>2, <3>3, <3>4
  <2>3. CASE params[key].index # Int32
    BY <2>1, <2>3 DEF Received
  <2> QED  BY <2>2, <2>3
<1> QED  BY <1>3, <1>4

\* For a byte of any number of values and any widths, any keys and values that
\* C++ allows: what FromData reads from the bytes of a packet is that packet,
\* but for ints and a replaced msgType.
THEOREM RoundTripCorrect == PacketSpec => []RoundTrip
<1> QED  BY PacketTypes, RoundTripHolds, PTL

\* The beginning of a buffer, with anything behind it.
LEMMA CutMemory ==
  ASSUME NEW buffer \in Seq(Byte), NEW n \in 0 .. Len(buffer) - 1, NEW behind \in Seq(Byte),
         NEW cut, cut = Memory(SubSeq(buffer, 1, n), behind),
         NEW memory, memory = Memory(buffer, behind)
  PROVE  /\ Cut(cut, memory) /\ Holds(memory, buffer)
         /\ cut.size = n /\ memory.size = Len(buffer)
<1>1. PICK b : b = SubSeq(buffer, 1, n)  OBVIOUS
<1>2. Len(buffer) \in Nat /\ \A i \in 1 .. n : i \in 1 .. Len(buffer) /\ buffer[i] \in Byte
  BY LenProperties
<1>3. /\ b \in Seq(Byte)
      /\ Len(b) = IF 1 <= n THEN n - 1 + 1 ELSE 0
      /\ \A i \in 1 .. n - 1 + 1 : b[i] = buffer[1 + i - 1]
  <2>1. 1 \in Int /\ n \in Int  BY <1>2
  <2> QED  BY <1>1, <1>2, <2>1, SubSeqProperties
<1>4. Len(b) = n /\ n \in Nat /\ n <= Len(buffer)  BY <1>2, <1>3
<1>5. \A i \in 1 .. n : b[i] = buffer[i]
  <2>1. \A i \in 1 .. n : i \in 1 .. n - 1 + 1 /\ 1 + i - 1 = i  BY <1>2
  <2> QED  BY <1>3, <2>1
<1>6. Holds(cut, b)
  <2>1. b \in Seq(Byte) /\ cut = Memory(b, behind)  BY <1>1, <1>3
  <2> QED  BY <2>1, MemoryHolds
<1>7. Holds(memory, buffer)  BY MemoryHolds
<1>8. /\ cut.bytes \in Seq(Byte) /\ cut.size = n /\ n <= Len(cut.bytes)
      /\ \A i \in 1 .. n : cut.bytes[i] = b[i]
  BY <1>4, <1>6 DEF Holds
<1>9. /\ memory.bytes \in Seq(Byte) /\ memory.size = Len(buffer)
      /\ Len(buffer) <= Len(memory.bytes)
      /\ \A i \in 1 .. Len(buffer) : memory.bytes[i] = buffer[i]
  BY <1>7 DEF Holds
<1>10. \A i \in 1 .. n : cut.bytes[i] = memory.bytes[i]  BY <1>2, <1>5, <1>8, <1>9
<1>11. Cut(cut, memory)  BY <1>2, <1>4, <1>8, <1>9, <1>10 DEF Cut
<1> QED  BY <1>7, <1>8, <1>9, <1>11

\* The whole packet is read up to its last byte, so that a shorter one, of which
\* the two numbers at the beginning are left, cannot be read to the end.
LEMMA ShortIsNotRead ==
  ASSUME NEW type \in Numbers(Width32), NEW ps, IsParams(ps),
         NEW buffer, buffer = Serialize(type, ps),
         NEW b, NEW behind, NEW cut, cut = Memory(b, behind),
         NEW memory, Holds(memory, buffer), Cut(cut, memory),
         Width32 + Width32 <= cut.size, cut.size < Len(buffer)
  PROVE  FromData(b, behind).result # "true"
<1>1. PICK keys, ends, n : n \in Numbers(Width32) /\ LaidOut(buffer, type, ps, keys, ends, n)
  BY SerializeLaysOut
<1>2. /\ buffer \in Seq(Byte)
      /\ At(buffer, 0, WriteBytes(type, Width32))
      /\ At(buffer, Width32, WriteBytes(n, Width32))
      /\ ends[0] = Width32 + Width32 /\ ends[n] = Len(buffer)
  BY <1>1 DEF LaidOut
<1>3. n \in Nat  BY <1>1, WidthsIn, NumbersFacts
<1>3a. cut.size \in Nat /\ Width32 \in Nat /\ Len(buffer) \in Nat
  BY <1>2, Widths, LenProperties DEF Cut
<1>4. PICK c, d : c = ReadNumber(cut, Cursor(0, 0), Width32) /\ d = ReadNumber(cut, c, Width32)
  OBVIOUS
<1>5. PICK t : t = Fresh(d)  OBVIOUS
<1>6. SUFFICES ASSUME FromData(b, behind).result = "true" PROVE FALSE  OBVIOUS
<1>7. d.result = "true"  BY <1>4, <1>5, <1>6, FromDataIs
<1>8. c.result = "true"
  <2>1. CASE c.result # "true"
    <3>1. d = c  BY <1>4, <2>1 DEF ReadNumber
    <3> QED  BY <1>7, <2>1, <3>1
  <2> QED  BY <2>1
<1>9. Within(cut, c) /\ c = Cursor(Width32, type)
  <2>1. Cursor(0, 0).offset = 0 /\ 0 \in Nat  BY CursorFields
  <2>2. ~(Left(cut, Cursor(0, 0)) < Width32)  BY <1>3a, <2>1 DEF Left
  <2>3. Within(cut, c) /\ ReadNumber(memory, Cursor(0, 0), Width32) = c
    BY <1>4, <1>8, <2>1, <2>2, WidthsIn, ReadNumberCut
  <2> QED  BY <1>1, <1>2, <2>3, HeadIsRead
<1>10. Within(cut, d) /\ d = Cursor(ends[0], n)
  <2>1. c.offset = Width32 /\ c.offset \in Nat  BY <1>3a, <1>9, CursorFields
  <2>2. ~(Left(cut, c) < Width32)  BY <1>3a, <2>1 DEF Left
  <2>3. Within(cut, d) /\ ReadNumber(memory, c, Width32) = d
    BY <1>4, <1>7, <2>1, <2>2, WidthsIn, ReadNumberCut
  <2> QED  BY <1>1, <1>2, <1>9, <2>3, HeadIsRead
<1>11. d.got = n  BY <1>10, CursorFields
<1>12. PICK short : ReadParams(cut, t, n) = short[n] /\ LoopOf(short, cut, t, n)
  BY <1>3, ReadRuns
<1>13. PICK after : ReadParams(memory, t, n) = after[n] /\ LoopOf(after, memory, t, n)
  BY <1>3, ReadRuns
<1>14. short[n].cursor.result = "true"
  <2>1. FromData(b, behind).result = ReadParams(cut, t, d.got).cursor.result
    <3>1. d.result = "true" =>
            /\ FromData(b, behind).result = ReadParams(cut, t, d.got).cursor.result
            /\ FromData(b, behind).params = ReadParams(cut, t, d.got).ps
      BY <1>4, <1>5, FromDataIs
    <3> QED  BY <1>7, <3>1
  <2> QED  BY <1>6, <1>11, <1>12, <2>1
<1>15. short[n] = after[n] /\ Within(cut, short[n].cursor)
  <2>1. Within(cut, t.cursor)  BY <1>5, <1>10 DEF Fresh
  <2> QED  BY <1>3, <1>12, <1>13, <1>14, <2>1, LoopCut
<1>16. after[n].cursor.offset = Len(buffer)
  <2>1. n \in 0 .. n  BY <1>3
  <2>2. PICK p0 : p0 = [k \in {MsgTypeKey} |-> Typed(UInt32, None)]  OBVIOUS
  <2>3. t = [cursor |-> Cursor(ends[0], n), ps |-> p0]  BY <1>5, <1>10, <2>2 DEF Fresh
  <2>4. HasRead(after[n], n, ps, keys, ends[n], p0)
    BY <1>1, <1>3, <1>13, <2>1, <2>3, LoopReads
  <2>5. PICK h : after[n].cursor = Cursor(ends[n], h)  BY <2>4 DEF HasRead
  <2> QED  BY <1>2, <2>5, CursorFields
<1>17. Len(buffer) <= cut.size  BY <1>15, <1>16 DEF Within
<1> QED  BY <1>3a, <1>17

\* What has failed once has failed at the end.
LEMMA FailureStays ==
  ASSUME NEW cut, NEW t, NEW n \in Nat, n # 0, NEW after, LoopOf(after, cut, t, n),
         t.cursor.result = "true", ReadParam(cut, t).cursor.result # "true"
  PROVE  after[n].cursor.result # "true"
<1>0. after[0] = t /\ \A k \in 1 .. n : after[k] = ReadNext(cut, after[k - 1])
  BY DEF LoopOf
<1> DEFINE P == {k \in 0 .. n : k # 0 => after[k].cursor.result # "true"}
<1>1. 0 \in P  OBVIOUS
<1>2. ASSUME NEW k \in 0 .. n - 1, k \in P PROVE k + 1 \in P
  <2>1. k + 1 \in 1 .. n /\ k + 1 \in 0 .. n /\ (k + 1) - 1 = k  BY <1>2
  <2>2. after[k + 1] = ReadNext(cut, after[k])  BY <1>0, <2>1
  <2>3. after[k + 1].cursor.result # "true"
    <3>1. CASE k = 0  BY <1>0, <2>2, <3>1 DEF ReadNext
    <3>2. CASE k # 0
      <4>1. after[k].cursor.result # "true"  BY <1>2, <3>2
      <4> QED  BY <2>2, <4>1 DEF ReadNext
    <3> QED  BY <3>1, <3>2
  <2> QED  BY <2>1, <2>3
<1>3. n \in P
  <2>1. n \in 0 .. n  OBVIOUS
  <2> HIDE DEF P
  <2> QED  BY <1>1, <1>2, <2>1, Upward
<1> QED  BY <1>3

\* A cut in front of the end of the second number: that number is what is found
\* there, and only 0 of them can be read.
LEMMA HeadIsCut ==
  ASSUME NEW b, NEW behind, NEW cut, cut = Memory(b, behind), Cut(cut, cut),
         cut.size < Width32 + Width32
  PROVE  /\ FromData(b, behind).result = "true" <=> FindsNone(cut)
         /\ FromData(b, behind).result = "true" =>
              FromData(b, behind).params = [k \in {MsgTypeKey} |-> Typed(UInt32, None)]
<1>1. /\ cut.bytes \in Seq(Byte) /\ Len(cut.bytes) \in Nat /\ cut.size \in Nat
      /\ Width32 \in Nat /\ Width32 > 0
  BY Widths, LenProperties DEF Cut
<1>2. PICK c, d : c = ReadNumber(cut, Cursor(0, 0), Width32) /\ d = ReadNumber(cut, c, Width32)
  OBVIOUS
<1>3. PICK t : t = Fresh(d)  OBVIOUS
<1>4. /\ d.result = "true" =>
           /\ FromData(b, behind).result = ReadParams(cut, t, d.got).cursor.result
           /\ FromData(b, behind).params = ReadParams(cut, t, d.got).ps
      /\ d.result # "true" => FromData(b, behind).result = d.result
  BY <1>2, <1>3, FromDataIs
<1>5. Cursor(0, 0).offset = 0 /\ Cursor(0, 0).result = "true"  BY CursorFields
<1>6. CASE d.result # "true"
  <2>1. ~(Len(cut.bytes) >= Width32 + Width32)
    <3> SUFFICES ASSUME Len(cut.bytes) >= Width32 + Width32 PROVE FALSE  OBVIOUS
    <3>1. ~(Len(cut.bytes) - 0 < Width32) /\ 0 + Width32 = Width32  BY <1>1
    <3>2. c.result = "true"  BY <1>2, <1>5, <3>1 DEF ReadNumber, Moved
    <3>3. c.offset = Width32
      <4>1. c.offset = Cursor(0, 0).offset + Width32
        <5>1. Cursor(0, 0).offset \in Nat  BY <1>5
        <5> QED  BY <1>1, <1>2, <3>2, <5>1, WidthsIn, ReadNumberIs
      <4> QED  BY <1>5, <3>1, <4>1
    <3>4. ~(Len(cut.bytes) - c.offset < Width32)  BY <1>1, <3>3
    <3>5. d.result = "true"  BY <1>2, <3>2, <3>4 DEF ReadNumber, Moved
    <3> QED  BY <1>6, <3>5
  <2> QED  BY <1>4, <1>6, <2>1 DEF FindsNone
<1>7. CASE d.result = "true"
  <2>1. /\ c.result = "true" /\ c.offset \in Nat /\ d.got \in Nat
        /\ d = Cursor(c.offset + Width32,
                      Number(SubSeq(cut.bytes, c.offset + 1, c.offset + Width32)))
        /\ d.offset <= Len(cut.bytes)
    <3>1. c.result = "true"
      <4>1. CASE c.result # "true"
        <5>1. d = c  BY <1>2, <4>1 DEF ReadNumber
        <5> QED  BY <1>7, <4>1, <5>1
      <4> QED  BY <4>1
    <3>2. c.offset \in Nat
      <4>1. Cursor(0, 0).offset \in Nat  BY <1>5
      <4> QED  BY <1>1, <1>2, <3>1, <4>1, WidthsIn, ReadNumberIs
    <3> QED  BY <1>1, <1>2, <1>7, <3>1, <3>2, WidthsIn, ReadNumberIs
  <2>2. c.offset = Width32
    <3>1. c.offset = Cursor(0, 0).offset + Width32
      <4>1. Cursor(0, 0).offset \in Nat  BY <1>5
      <4> QED  BY <1>1, <1>2, <2>1, <4>1, WidthsIn, ReadNumberIs
    <3> QED  BY <1>1, <1>5, <3>1
  <2>3. /\ d.offset = Width32 + Width32 /\ Width32 + Width32 <= Len(cut.bytes)
        /\ d.got = Number(SubSeq(cut.bytes, Width32 + 1, Width32 + Width32))
    BY <2>1, <2>2, CursorFields
  <2>4. FindsNone(cut) <=> d.got = 0
    <3>1. Len(cut.bytes) >= Width32 + Width32  BY <1>1, <2>3
    <3> QED  BY <2>3, <3>1 DEF FindsNone
  <2>5. PICK after : ReadParams(cut, t, d.got) = after[d.got] /\ LoopOf(after, cut, t, d.got)
    BY <2>1, ReadRuns
  <2>6. t.cursor = d /\ t.ps = [k \in {MsgTypeKey} |-> Typed(UInt32, None)]
    BY <1>3 DEF Fresh
  <2>7. CASE d.got = 0
    <3>1. after[d.got] = t  BY <2>5, <2>7 DEF LoopOf
    <3> QED  BY <1>4, <1>7, <2>4, <2>5, <2>6, <2>7, <3>1
  <2>8. CASE d.got # 0
    <3>1. ReadParam(cut, t).cursor.result # "true"
      <4>1. PICK key, index : key = ReadSized(cut, t.cursor) /\ index = ReadChecked(cut, key, 1)
        OBVIOUS
      <4>2. key.result # "true"
        <5>1. d.offset \in Nat /\ ~(d.offset + Width32 <= cut.size)  BY <1>1, <2>3
        <5> QED  BY <2>6, <4>1, <5>1, ReadSizedCut
      <4>3. index = key  BY <4>1, <4>2 DEF ReadChecked
      <4>4. ReadParam(cut, t) = [cursor |-> index, ps |-> t.ps]
        BY <4>1, <4>2, <4>3 DEF ReadParam
      <4> QED  BY <4>2, <4>3, <4>4
    <3>2. after[d.got].cursor.result # "true"
      BY <1>7, <2>1, <2>5, <2>6, <2>8, <3>1, FailureStays
    <3> QED  BY <1>4, <1>7, <2>4, <2>5, <2>8, <3>2
  <2> QED  BY <2>7, <2>8
<1> QED  BY <1>6, <1>7

LEMMA CutIsNoticedHolds == PacketTypeOK => CutIsNoticed
<1> SUFFICES ASSUME PacketTypeOK PROVE CutIsNoticed  OBVIOUS
<1>1. msgType \in Numbers(Width32) /\ IsParams(params)  BY TypesFit DEF PacketTypeOK
<1>2. PICK buffer : buffer = Serialize(msgType, params)  OBVIOUS
<1>3. buffer \in Seq(Byte)
  <2>1. PICK keys, ends, n : LaidOut(buffer, msgType, params, keys, ends, n)
    BY <1>1, <1>2, SerializeLaysOut
  <2> QED  BY <2>1 DEF LaidOut
<1> DEFINE Noticed(got, n, cut) ==
      /\ got.result = "true" <=> n < Width32 + Width32 /\ FindsNone(cut)
      /\ got.result = "true" => got.params = [k \in {MsgTypeKey} |-> Typed(UInt32, None)]
<1>4. ASSUME NEW n \in 0 .. Len(buffer) - 1, NEW behind \in Memories
      PROVE  Noticed(FromData(SubSeq(buffer, 1, n), behind), n,
                     Memory(SubSeq(buffer, 1, n), behind))
  <2>1. PICK b : b = SubSeq(buffer, 1, n)  OBVIOUS
  <2>2. PICK cut, memory : cut = Memory(b, behind) /\ memory = Memory(buffer, behind)  OBVIOUS
  <2>3. /\ Cut(cut, memory) /\ Holds(memory, buffer)
        /\ cut.size = n /\ memory.size = Len(buffer)
    <3>1. behind \in Seq(Byte)  BY MemoriesAssumption
    <3> QED  BY <1>3, <2>1, <2>2, <3>1, CutMemory
  <2>4. n \in Nat /\ n < Len(buffer) /\ Width32 \in Nat
    <3>1. Len(buffer) \in Nat  BY <1>3, LenProperties
    <3> QED  BY <3>1, Widths
  <2>5. PICK got : got = FromData(b, behind)  OBVIOUS
  <2>6. CASE n < Width32 + Width32
    <3>1. Cut(cut, cut)
      <4>1. cut.bytes \in Seq(Byte) /\ cut.size \in Nat /\ cut.size <= Len(cut.bytes)
        BY <2>3 DEF Cut
      <4> QED  BY <4>1 DEF Cut
    <3>2. cut.size < Width32 + Width32  BY <2>3, <2>6
    <3>3. /\ got.result = "true" <=> FindsNone(cut)
          /\ got.result = "true" => got.params = [k \in {MsgTypeKey} |-> Typed(UInt32, None)]
      BY <2>2, <2>5, <3>1, <3>2, HeadIsCut
    <3> QED  BY <2>1, <2>2, <2>5, <2>6, <3>3
  <2>7. CASE ~(n < Width32 + Width32)
    <3>1. Width32 + Width32 <= cut.size /\ cut.size < Len(buffer)  BY <2>3, <2>4, <2>7
    <3>2. got.result # "true"  BY <1>1, <1>2, <2>2, <2>3, <2>5, <3>1, ShortIsNotRead
    <3> QED  BY <2>1, <2>2, <2>5, <2>7, <3>2
  <2> QED  BY <2>6, <2>7
<1> QED  BY <1>2, <1>4 DEF CutIsNoticed

\* A packet that was cut off, in the middle of a length, a key or a value or
\* between two parameters, is never read as a complete one, whatever lies behind
\* the buffer; a cut in front of the end of the number of parameters is so read
\* exactly when ReadBytes completes that number to 0, and without parameters.
THEOREM CutIsNoticedCorrect == PacketSpec => []CutIsNoticed
<1> QED  BY PacketTypes, CutIsNoticedHolds, PTL

-----------------------------------------------------------------------------
(* The search for a move. *)

AiTypeOK ==
  /\ boardSize \in Sizes
  /\ board \in Boards
  /\ worth \in [Squares(boardSize) -> Worths(boardSize)]
  /\ aiColor \in {"BLACK", "WHITE"}
  /\ toMove \in {"BLACK", "WHITE"}

Scan == RowByRow(boardSize)

Area == boardSize * boardSize

LEMMA SizeFacts ==
  ASSUME AiTypeOK
  PROVE  boardSize \in Nat /\ boardSize > 0 /\ Area \in Nat /\ Area > 0
<1>1. boardSize \in Nat /\ boardSize > 0  BY SizesAssumption DEF AiTypeOK
<1>2. boardSize * boardSize >= boardSize  BY <1>1
<1> QED  BY <1>1, <1>2 DEF Area

LEMMA WithFacts ==
  ASSUME NEW b \in Boards, NEW c, NEW color \in {"BLACK", "WHITE"}
  PROVE  /\ With(b, c, color) \in Boards
         /\ c \in Squares(boardSize) => Vacant(With(b, c, color)) = Vacant(b) \ {c}
         /\ \A s \in Squares(boardSize) : With(b, c, color)[s] = IF s = c THEN color ELSE b[s]
BY DEF Boards, With, Vacant

LEMMA OpponentFacts ==
  /\ \A color : Opponent(color) \in {"BLACK", "WHITE"}
  /\ \A color \in {"BLACK", "WHITE"} : Opponent(color) # color
  /\ AiTypeOK => \A p \in BOOLEAN : Mover(p) \in {"BLACK", "WHITE"}
<1>1. \A color : Opponent(color) \in {"BLACK", "WHITE"}  BY DEF Opponent
<1>2. \A color \in {"BLACK", "WHITE"} : Opponent(color) # color  BY DEF Opponent
<1> QED  BY <1>1, <1>2 DEF Mover, AiTypeOK

\* The scan goes through the squares, each once, row by row.
Position(c) == c[1] * boardSize + c[2] + 1

LEMMA ScanFacts ==
  ASSUME AiTypeOK
  PROVE  /\ Scan \in Seq(Squares(boardSize)) /\ Len(Scan) = Area
         /\ \A k \in 1 .. Area : Scan[k] \in Squares(boardSize) /\ Position(Scan[k]) = k
         /\ \A c \in Squares(boardSize) : Position(c) \in 1 .. Area /\ Scan[Position(c)] = c
<1>1. boardSize \in Nat /\ boardSize > 0 /\ Area \in Nat  BY SizeFacts
<1>2. Scan = [k \in 1 .. Area |-> <<(k - 1) \div boardSize, (k - 1) % boardSize>>]
  BY DEF Scan, RowByRow, Area
<1>3. ASSUME NEW k \in 1 .. Area
      PROVE  Scan[k] \in Squares(boardSize) /\ Position(Scan[k]) = k
  <2>1. PICK a \in Int : a = k - 1  OBVIOUS
  <2>2. PICK q \in Int, r \in Int :
          q = a \div boardSize /\ r = a % boardSize
          /\ r \in 0 .. boardSize - 1 /\ a = q * boardSize + r
    BY <1>1, <2>1, Division
  <2>3. Scan[k] = <<q, r>>  BY <1>2, <2>1, <2>2
  <2>4. a >= 0 /\ a < boardSize * boardSize  BY <2>1, SizeFacts DEF Area
  <2>5. q >= 0
    <3> SUFFICES ASSUME q <= -1 PROVE FALSE  BY <2>2
    <3>1. q * boardSize <= -boardSize  BY <1>1
    <3> QED  BY <1>1, <2>2, <2>4, <3>1
  <2>6. q < boardSize
    <3> SUFFICES ASSUME q >= boardSize PROVE FALSE  BY <1>1, <2>2
    <3>1. q * boardSize >= boardSize * boardSize  BY <1>1
    <3>2. boardSize * boardSize \in Int /\ q * boardSize \in Int  BY <1>1
    <3> QED  BY <1>1, <2>2, <2>4, <3>1, <3>2
  <2>7. Position(Scan[k]) = a + 1  BY <2>2, <2>3 DEF Position
  <2> QED  BY <1>1, <2>1, <2>2, <2>3, <2>5, <2>6, <2>7 DEF Squares
<1>4. ASSUME NEW c \in Squares(boardSize)
      PROVE  Position(c) \in 1 .. Area /\ Scan[Position(c)] = c
  <2>1. PICK x \in 0 .. boardSize - 1, y \in 0 .. boardSize - 1 : c = <<x, y>>
    BY DEF Squares
  <2>2. PICK k \in Int : k = Position(c) /\ k = x * boardSize + y + 1
    <3>1. x * boardSize \in Int  BY <1>1
    <3> QED  BY <1>1, <2>1, <3>1 DEF Position
  <2>3. k \in 1 .. Area
    <3>1. x * boardSize >= 0  BY <1>1
    <3>2. x * boardSize <= (boardSize - 1) * boardSize  BY <1>1
    <3>3. (boardSize - 1) * boardSize = Area - boardSize  BY <1>1 DEF Area
    <3> QED  BY <1>1, <2>2, <3>1, <3>2, <3>3
  <2>4. PICK u \in 0 .. boardSize - 1, v \in 0 .. boardSize - 1 :
          Scan[k] = <<u, v>> /\ u * boardSize + v + 1 = k
    <3>1. Scan[k] \in Squares(boardSize) /\ Position(Scan[k]) = k  BY <1>3, <2>3
    <3>2. PICK u \in 0 .. boardSize - 1, v \in 0 .. boardSize - 1 : Scan[k] = <<u, v>>
      BY <3>1 DEF Squares
    <3> QED  BY <3>1, <3>2 DEF Position
  <2>5. u * boardSize + v = x * boardSize + y
    <3>1. u * boardSize \in Int /\ x * boardSize \in Int  BY <1>1
    <3> QED  BY <1>1, <2>2, <2>4, <3>1
  <2>6. v = y  BY <1>1, <2>5, OneRemainder
  <2>7. u = x
    <3>1. u * boardSize = x * boardSize
      <4>1. u * boardSize \in Int /\ x * boardSize \in Int  BY <1>1
      <4> QED  BY <1>1, <2>5, <2>6, <4>1
    <3>2. CASE u - x >= 1
      <4>1. (u - x) * boardSize >= boardSize  BY <1>1, <3>2
      <4> QED  BY <1>1, <3>1, <4>1
    <3>3. CASE u - x <= -1
      <4>1. (u - x) * boardSize <= -boardSize  BY <1>1, <3>3
      <4> QED  BY <1>1, <3>1, <4>1
    <3> QED  BY <1>1, <3>2, <3>3
  <2> QED  BY <2>1, <2>2, <2>3, <2>4, <2>6, <2>7
<1>5. Scan \in Seq(Squares(boardSize)) /\ Len(Scan) = Area
  <2>1. Scan \in [1 .. Area -> Squares(boardSize)]  BY <1>2, <1>3
  <2> QED  BY <1>1, <2>1
<1> QED  BY <1>3, <1>4, <1>5

LEMMA MovesRun ==
  ASSUME AiTypeOK, NEW b \in Boards
  PROVE  \E moves :
           /\ ValidMoves(b) = moves[Area]
           /\ moves[0] = <<>>
           /\ \A k \in 1 .. Area :
                moves[k] = IF b[Scan[k]] = "EMPTY" THEN Append(moves[k - 1], Scan[k])
                           ELSE moves[k - 1]
<1>1. Area \in Nat /\ Len(Scan) = Area  BY SizeFacts, ScanFacts
<1> DEFINE V == Seq(Squares(boardSize))
           OnePass(k, m) == IF b[Scan[k]] = "EMPTY" THEN Append(m, Scan[k]) ELSE m
<1>2. PICK G : G = [k \in 1 .. Area |-> [m \in V |-> OnePass(k, m)]]  OBVIOUS
<1>3. G \in Passes(Area, V)
  <2>1. \A k \in 1 .. Area, m \in V : Append(m, Scan[k]) \in V  BY ScanFacts
  <2>2. \A k \in 1 .. Area, m \in V : OnePass(k, m) \in V  BY <2>1
  <2> HIDE DEF V, OnePass
  <2> QED  BY <1>2, <2>2 DEF Passes
<1>4. <<>> \in V  OBVIOUS
<1>5. PICK f : IsRun(f, Area, V, <<>>, G)
  <2> HIDE DEF V
  <2> QED  BY <1>1, <1>3, <1>4, LoopEnds
<1>6. /\ f \in [0 .. Area -> V] /\ f[0] = <<>>
      /\ \A k \in 1 .. Area : f[k] = G[k][f[k - 1]]
  BY <1>5 DEF IsRun
<1> HIDE DEF V
<1>7. \A k \in 1 .. Area : f[k] = OnePass(k, f[k - 1])
  <2> SUFFICES ASSUME NEW k \in 1 .. Area PROVE f[k] = OnePass(k, f[k - 1])  OBVIOUS
  <2>1. f[k - 1] \in V  BY <1>1, <1>6
  <2> HIDE DEF OnePass
  <2> QED  BY <1>2, <1>6, <2>1
<1> DEFINE IsMoves(g) == g = [k \in 0 .. Len(RowByRow(boardSize)) |->
             IF k = 0 THEN <<>>
             ELSE IF b[RowByRow(boardSize)[k]] = "EMPTY"
                  THEN Append(g[k - 1], RowByRow(boardSize)[k])
             ELSE g[k - 1]]
<1>8. IsMoves(f)
  <2>1. \A k \in 0 .. Area : k # 0 => k \in 1 .. Area  BY <1>1
  <2>2. \A k \in 0 .. Area : f[k] = IF k = 0 THEN <<>> ELSE OnePass(k, f[k - 1])
    BY <1>6, <1>7, <2>1
  <2>3. f = [k \in 0 .. Area |-> IF k = 0 THEN <<>> ELSE OnePass(k, f[k - 1])]
    BY <1>6, <2>2
  <2>4. RowByRow(boardSize) = Scan  BY DEF Scan
  <2> QED  BY <1>1, <2>3, <2>4
<1>9. PICK g : IsMoves(g) /\ ValidMoves(b) = g[Len(RowByRow(boardSize))]
  <2>1. \E g : IsMoves(g)  BY <1>8
  <2>2. IsMoves(CHOOSE g : IsMoves(g))
    <3> HIDE DEF IsMoves
    <3> QED  BY <2>1, Zenon
  <2>3. ValidMoves(b) = (CHOOSE g : IsMoves(g))[Len(RowByRow(boardSize))]
    BY Zenon DEF ValidMoves
  <2> HIDE DEF IsMoves
  <2> QED  BY <2>2, <2>3, Zenon
<1>10. RowByRow(boardSize) = Scan  BY DEF Scan
<1>11. ValidMoves(b) = g[Area]  BY <1>1, <1>9, <1>10
<1>12. g[0] = <<>> /\ \A k \in 1 .. Area : g[k] = OnePass(k, g[k - 1])
  <2>1. 0 \in 0 .. Area /\ \A k \in 1 .. Area : k \in 0 .. Area /\ k # 0  BY <1>1
  <2>2. g = [k \in 0 .. Area |-> IF k = 0 THEN <<>> ELSE OnePass(k, g[k - 1])]
    BY <1>1, <1>9, <1>10
  <2> HIDE DEF OnePass, IsMoves
  <2> QED  BY <2>1, <2>2
<1> QED  BY <1>11, <1>12

\* The empty squares among the first k of the scan.
MovesUpTo(b, moves, k) ==
  /\ moves \in Seq(Vacant(b))
  /\ \A j \in 1 .. k : Scan[j] \in Vacant(b) => \E i \in 1 .. Len(moves) : moves[i] = Scan[j]
  /\ moves # <<>> =>
       \E j \in 1 .. k : moves[1] = Scan[j] /\ \A i \in 1 .. j - 1 : Scan[i] \notin Vacant(b)

LEMMA MovesGrow ==
  ASSUME AiTypeOK, NEW b \in Boards, NEW k \in 1 .. Area, NEW moves,
         MovesUpTo(b, moves, k - 1)
  PROVE  MovesUpTo(b, IF b[Scan[k]] = "EMPTY" THEN Append(moves, Scan[k]) ELSE moves, k)
<1>1. /\ Area \in Nat /\ Scan[k] \in Squares(boardSize)
      /\ Scan[k] \in Vacant(b) <=> b[Scan[k]] = "EMPTY"
  BY SizeFacts, ScanFacts DEF Vacant
<1>2. /\ moves \in Seq(Vacant(b)) /\ Len(moves) \in Nat
      /\ \A j \in 1 .. k - 1 : Scan[j] \in Vacant(b) =>
                                 \E i \in 1 .. Len(moves) : moves[i] = Scan[j]
      /\ moves # <<>> => \E j \in 1 .. k - 1 :
           moves[1] = Scan[j] /\ \A i \in 1 .. j - 1 : Scan[i] \notin Vacant(b)
      /\ moves = <<>> => Len(moves) = 0
  BY DEF MovesUpTo
<1>3. \A j \in 1 .. k : j = k \/ j \in 1 .. k - 1  BY <1>1
<1>4. CASE Scan[k] \notin Vacant(b)
  <2>1. \A j \in 1 .. k - 1 : j \in 1 .. k  BY <1>1
  <2> QED  BY <1>1, <1>2, <1>3, <1>4, <2>1 DEF MovesUpTo
<1>5. CASE Scan[k] \in Vacant(b)
  <2>1. PICK more : more = Append(moves, Scan[k])  OBVIOUS
  <2>2. /\ more \in Seq(Vacant(b)) /\ Len(more) = Len(moves) + 1
        /\ \A i \in 1 .. Len(moves) : more[i] = moves[i]
        /\ more[Len(moves) + 1] = Scan[k]
    BY <1>2, <1>5, <2>1
  <2>3. ASSUME NEW j \in 1 .. k, Scan[j] \in Vacant(b)
        PROVE  \E i \in 1 .. Len(more) : more[i] = Scan[j]
    <3>1. CASE j = k
      <4>1. Len(moves) + 1 \in 1 .. Len(more)  BY <1>2, <2>2
      <4> QED  BY <2>2, <3>1, <4>1
    <3>2. CASE j \in 1 .. k - 1
      <4>1. PICK i \in 1 .. Len(moves) : moves[i] = Scan[j]  BY <1>2, <2>3, <3>2
      <4>2. i \in 1 .. Len(more)  BY <1>2, <2>2
      <4> QED  BY <2>2, <4>1, <4>2
    <3> QED  BY <1>3, <3>1, <3>2
  <2>4. \E j \in 1 .. k : more[1] = Scan[j] /\ \A i \in 1 .. j - 1 : Scan[i] \notin Vacant(b)
    <3>1. CASE moves = <<>>
      <4>1. Len(moves) = 0 /\ more[1] = Scan[k] /\ k \in 1 .. k  BY <1>1, <1>2, <2>2, <3>1
      <4>2. \A i \in 1 .. k - 1 : Scan[i] \notin Vacant(b)  BY <1>2, <4>1
      <4> QED  BY <4>1, <4>2
    <3>2. CASE moves # <<>>
      <4>1. 1 \in 1 .. Len(moves)  BY <1>2, <3>2
      <4>2. more[1] = moves[1]  BY <2>2, <4>1
      <4>3. PICK j \in 1 .. k - 1 :
              moves[1] = Scan[j] /\ \A i \in 1 .. j - 1 : Scan[i] \notin Vacant(b)
        BY <1>2, <3>2
      <4>4. j \in 1 .. k  BY <1>1
      <4> QED  BY <4>2, <4>3, <4>4
    <3> QED  BY <3>1, <3>2
  <2> QED  BY <1>1, <1>5, <2>1, <2>2, <2>3, <2>4 DEF MovesUpTo
<1> QED  BY <1>4, <1>5

\* getValidMoves finds the empty squares, the first of the scan first.
LEMMA MovesFacts ==
  ASSUME AiTypeOK, NEW b \in Boards
  PROVE  /\ ValidMoves(b) \in Seq(Vacant(b))
         /\ \A c \in Vacant(b) : \E i \in 1 .. Len(ValidMoves(b)) : ValidMoves(b)[i] = c
         /\ ValidMoves(b) = <<>> <=> Vacant(b) = {}
         /\ ValidMoves(b) # <<>> =>
              \A c \in Vacant(b) : Position(ValidMoves(b)[1]) <= Position(c)
<1>1. Area \in Nat  BY SizeFacts
<1>2. PICK moves :
        /\ ValidMoves(b) = moves[Area]
        /\ moves[0] = <<>>
        /\ \A k \in 1 .. Area :
             moves[k] = IF b[Scan[k]] = "EMPTY" THEN Append(moves[k - 1], Scan[k])
                        ELSE moves[k - 1]
  BY MovesRun
<1> DEFINE P == {k \in 0 .. Area : MovesUpTo(b, moves[k], k)}
<1>3. 0 \in P
  <2>1. MovesUpTo(b, <<>>, 0)  BY DEF MovesUpTo
  <2> QED  BY <1>1, <1>2, <2>1
<1>4. ASSUME NEW k \in 0 .. Area - 1, k \in P PROVE k + 1 \in P
  <2>1. k + 1 \in 1 .. Area /\ k + 1 \in 0 .. Area /\ (k + 1) - 1 = k  BY <1>1
  <2>2. MovesUpTo(b, moves[k], k)  BY <1>4
  <2>3. MovesUpTo(b, IF b[Scan[k + 1]] = "EMPTY" THEN Append(moves[k], Scan[k + 1])
                     ELSE moves[k], k + 1)
    BY <2>1, <2>2, MovesGrow
  <2>4. MovesUpTo(b, moves[k + 1], k + 1)  BY <1>2, <2>1, <2>3
  <2> QED  BY <2>1, <2>4
<1>5. Area \in P
  <2>1. Area \in 0 .. Area  BY <1>1
  <2> HIDE DEF P
  <2> QED  BY <1>1, <1>3, <1>4, <2>1, Upward
<1>6. MovesUpTo(b, ValidMoves(b), Area)  BY <1>2, <1>5
<1>7. PICK m : m = ValidMoves(b)  OBVIOUS
<1>8. /\ m \in Seq(Vacant(b)) /\ Len(m) \in Nat
      /\ \A j \in 1 .. Area : Scan[j] \in Vacant(b) => \E i \in 1 .. Len(m) : m[i] = Scan[j]
      /\ m # <<>> => \E j \in 1 .. Area :
           m[1] = Scan[j] /\ \A i \in 1 .. j - 1 : Scan[i] \notin Vacant(b)
      /\ m = <<>> => Len(m) = 0
      /\ m # <<>> => 1 \in 1 .. Len(m) /\ m[1] \in Vacant(b)
  BY <1>6, <1>7 DEF MovesUpTo
<1>9. \A c \in Vacant(b) : Position(c) \in 1 .. Area /\ Scan[Position(c)] = c
  BY ScanFacts DEF Vacant
<1>10. \A c \in Vacant(b) : \E i \in 1 .. Len(m) : m[i] = c  BY <1>8, <1>9
<1>11. m = <<>> <=> Vacant(b) = {}
  <2>1. ASSUME m = <<>>, NEW c \in Vacant(b) PROVE FALSE
    <3>1. \E i \in 1 .. Len(m) : m[i] = c  BY <1>10
    <3> QED  BY <1>8, <2>1, <3>1
  <2> QED  BY <1>8, <2>1
<1>12. ASSUME m # <<>>, NEW c \in Vacant(b) PROVE Position(m[1]) <= Position(c)
  <2>1. PICK j \in 1 .. Area : m[1] = Scan[j] /\ \A i \in 1 .. j - 1 : Scan[i] \notin Vacant(b)
    BY <1>8, <1>12
  <2>2. Position(m[1]) = j  BY <2>1, ScanFacts
  <2>3. Position(c) \notin 1 .. j - 1  BY <1>9, <2>1
  <2> QED  BY <1>1, <1>9, <2>2, <2>3
<1> QED  BY <1>7, <1>8, <1>10, <1>11, <1>12

Limit == INT_MAX

LEMMA LimitFacts == Limit \in Nat /\ INT_MAX = Limit /\ INT_MIN = -Limit - 1
BY DEF Limit, INT_MAX, INT_MIN

LEMMA StoneScoreFacts ==
  ASSUME AiTypeOK, NEW b \in Boards, NEW c \in Squares(boardSize)
  PROVE  /\ StoneScore(b, c) \in Int
         /\ -Limit <= Area * StoneScore(b, c) /\ Area * StoneScore(b, c) <= Limit
         /\ b[c] = "EMPTY" => StoneScore(b, c) = 0
<1>1. PICK w : w = worth[c]  OBVIOUS
<1>2. w \in Int /\ Area * w \in -INT_MAX .. INT_MAX
  BY <1>1, WorthsAssumption DEF AiTypeOK, Area
<1>3. Area \in Nat /\ Limit \in Nat  BY SizeFacts, LimitFacts
<1>4. b[c] \in {"EMPTY", "BLACK", "WHITE"}  BY DEF Boards
<1>5. StoneScore(b, c) \in {w, -w, 0} /\ (b[c] = "EMPTY" => StoneScore(b, c) = 0)
  BY <1>1, <1>4 DEF StoneScore, AiTypeOK, Opponent
<1>6. Area * (-w) = -(Area * w) /\ Area * 0 = 0 /\ Area * w \in Int  BY <1>2, <1>3
<1>7. ASSUME NEW v \in {w, -w, 0}
      PROVE v \in Int /\ -Limit <= Area * v /\ Area * v <= Limit
  <2>1. CASE v = w  BY <1>2, <1>3, <2>1 DEF Limit
  <2>2. CASE v = -w  BY <1>2, <1>3, <1>6, <2>2 DEF Limit
  <2>3. CASE v = 0  BY <1>3, <1>6, <2>3
  <2> QED  BY <2>1, <2>2, <2>3
<1> QED  BY <1>5, <1>7

\* What the loop of evaluateBoard adds up.
ScoreRun(b, score) ==
  /\ EvaluateBoard(b) = score[Area]
  /\ score[0] = 0
  /\ \A k \in 1 .. Area : score[k] = score[k - 1] + StoneScore(b, Scan[k])
  /\ \A k \in 0 .. Area : score[k] \in Int

LEMMA ScoreRuns ==
  ASSUME AiTypeOK, NEW b \in Boards
  PROVE  \E score : ScoreRun(b, score)
<1>1. Area \in Nat /\ Len(Scan) = Area  BY SizeFacts, ScanFacts
<1> DEFINE Added(k, v) == v + StoneScore(b, Scan[k])
<1>2. PICK G : G = [k \in 1 .. Area |-> [v \in Int |-> Added(k, v)]]  OBVIOUS
<1>2a. \A k \in 1 .. Area, v \in Int : Added(k, v) \in Int
  <2>1. \A k \in 1 .. Area : StoneScore(b, Scan[k]) \in Int  BY ScanFacts, StoneScoreFacts
  <2> QED  BY <2>1
<1>3. G \in Passes(Area, Int)
  <2> HIDE DEF Added
  <2> QED  BY <1>2, <1>2a DEF Passes
<1>4. 0 \in Int  OBVIOUS
<1>5. PICK f : IsRun(f, Area, Int, 0, G)  BY <1>1, <1>3, <1>4, LoopEnds
<1>6. /\ f \in [0 .. Area -> Int] /\ f[0] = 0
      /\ \A k \in 1 .. Area : f[k] = G[k][f[k - 1]]
  BY <1>5 DEF IsRun
<1>7. \A k \in 1 .. Area : f[k] = Added(k, f[k - 1])
  <2> SUFFICES ASSUME NEW k \in 1 .. Area PROVE f[k] = Added(k, f[k - 1])  OBVIOUS
  <2>1. f[k - 1] \in Int  BY <1>1, <1>6
  <2> HIDE DEF Added
  <2> QED  BY <1>2, <1>6, <2>1
<1> DEFINE IsScore(g) == g = [k \in 0 .. Len(RowByRow(boardSize)) |->
             IF k = 0 THEN 0
             ELSE g[k - 1] + StoneScore(b, RowByRow(boardSize)[k])]
<1>8. IsScore(f)
  <2>1. \A k \in 0 .. Area : k # 0 => k \in 1 .. Area  BY <1>1
  <2>2. \A k \in 0 .. Area : f[k] = IF k = 0 THEN 0 ELSE Added(k, f[k - 1])
    BY <1>6, <1>7, <2>1
  <2>3. f = [k \in 0 .. Area |-> IF k = 0 THEN 0 ELSE Added(k, f[k - 1])]
    BY <1>6, <2>2
  <2>4. RowByRow(boardSize) = Scan  BY DEF Scan
  <2> QED  BY <1>1, <2>3, <2>4
<1>9. PICK g : IsScore(g) /\ EvaluateBoard(b) = g[Len(RowByRow(boardSize))]
  <2>1. \E g : IsScore(g)  BY <1>8
  <2>2. IsScore(CHOOSE g : IsScore(g))
    <3> HIDE DEF IsScore
    <3> QED  BY <2>1, Zenon
  <2>3. EvaluateBoard(b) = (CHOOSE g : IsScore(g))[Len(RowByRow(boardSize))]
    BY Zenon DEF EvaluateBoard
  <2> HIDE DEF IsScore
  <2> QED  BY <2>2, <2>3, Zenon
<1>10. RowByRow(boardSize) = Scan  BY DEF Scan
<1>11. EvaluateBoard(b) = g[Area]  BY <1>1, <1>9, <1>10
<1>12. g[0] = 0 /\ \A k \in 1 .. Area : g[k] = Added(k, g[k - 1])
  <2>1. 0 \in 0 .. Area /\ \A k \in 1 .. Area : k \in 0 .. Area /\ k # 0  BY <1>1
  <2>2. g = [k \in 0 .. Area |-> IF k = 0 THEN 0 ELSE Added(k, g[k - 1])]
    BY <1>1, <1>9, <1>10
  <2> HIDE DEF Added, IsScore
  <2> QED  BY <2>1, <2>2
<1>13. \A k \in 0 .. Area : g[k] \in Int
  <2>1. \A k \in 1 .. Area : g[k - 1] \in Int => g[k] \in Int  BY <1>2a, <1>12
  <2>2. g[0] \in Int  BY <1>12
  <2> HIDE DEF Added, IsScore
  <2> QED  BY <1>1, <2>1, <2>2, Stays
<1> QED  BY <1>11, <1>12, <1>13 DEF ScoreRun

\* The score of a board fits an int.
LEMMA EvaluateFits ==
  ASSUME AiTypeOK, NEW b \in Boards
  PROVE  EvaluateBoard(b) \in -Limit .. Limit
<1>1. PICK score : ScoreRun(b, score)  BY ScoreRuns
<1>2. /\ EvaluateBoard(b) = score[Area]
      /\ score[0] = 0
      /\ \A k \in 1 .. Area : score[k] = score[k - 1] + StoneScore(b, Scan[k])
      /\ \A k \in 0 .. Area : score[k] \in Int
  BY <1>1 DEF ScoreRun
<1>3. Area \in Nat /\ Area > 0 /\ Limit \in Nat  BY SizeFacts, LimitFacts
<1> DEFINE P == {k \in 0 .. Area : -(k * Limit) <= Area * score[k] /\ Area * score[k] <= k * Limit}
<1>4. 0 \in P  BY <1>2, <1>3
<1>5. ASSUME NEW k \in 0 .. Area - 1, k \in P PROVE k + 1 \in P
  <2>1. k + 1 \in 1 .. Area /\ k + 1 \in 0 .. Area /\ (k + 1) - 1 = k /\ k \in 0 .. Area
    BY <1>3
  <2>2. PICK s \in Int : s = StoneScore(b, Scan[k + 1]) /\ -Limit <= Area * s /\ Area * s <= Limit
    BY <2>1, ScanFacts, StoneScoreFacts
  <2>3. PICK v \in Int : v = score[k] /\ score[k + 1] = v + s
    BY <1>2, <2>1, <2>2
  <2>4. -(k * Limit) <= Area * v /\ Area * v <= k * Limit  BY <1>5, <2>3
  <2>5. Area * (v + s) = Area * v + Area * s  BY <1>3
  <2>6. (k + 1) * Limit = k * Limit + Limit  BY <1>3
  <2>7. PICK x \in Int, y \in Int, z \in Int : x = Area * v /\ y = Area * s /\ z = k * Limit
    BY <1>3
  <2>8. -(z + Limit) <= x + y /\ x + y <= z + Limit  BY <1>3, <2>2, <2>4, <2>7
  <2>9. -((k + 1) * Limit) <= Area * (v + s) /\ Area * (v + s) <= (k + 1) * Limit
    BY <2>5, <2>6, <2>7, <2>8
  <2> QED  BY <2>1, <2>3, <2>9
<1>6. Area \in P
  <2>1. Area \in 0 .. Area  BY <1>3
  <2> HIDE DEF P
  <2> QED  BY <1>3, <1>4, <1>5, <2>1, Upward
<1>7. PICK e \in Int : e = score[Area]
  <2>1. Area \in 0 .. Area  BY <1>3
  <2> QED  BY <1>2, <2>1
<1>8. -(Area * Limit) <= Area * e /\ Area * e <= Area * Limit  BY <1>6, <1>7
<1>9. e <= Limit
  <2> SUFFICES ASSUME e - Limit >= 1 PROVE FALSE  BY <1>3
  <2>1. Area * (e - Limit) >= Area  BY <1>3
  <2>2. Area * (e - Limit) = Area * e - Area * Limit  BY <1>3
  <2>3. Area * e \in Int /\ Area * Limit \in Int  BY <1>3
  <2> QED  BY <1>3, <1>8, <2>1, <2>2, <2>3
<1>10. -Limit <= e
  <2> SUFFICES ASSUME e + Limit <= -1 PROVE FALSE  BY <1>3
  <2>1. Area * (e + Limit) <= -Area  BY <1>3
  <2>2. Area * (e + Limit) = Area * e + Area * Limit  BY <1>3
  <2>3. Area * e \in Int /\ Area * Limit \in Int  BY <1>3
  <2> QED  BY <1>3, <1>8, <2>1, <2>2, <2>3
<1> QED  BY <1>2, <1>3, <1>7, <1>9, <1>10

Windows == [best : Int, alpha : Int, beta : Int, cut : BOOLEAN]

LEMMA TryMoveIsWindow ==
  ASSUME AiTypeOK, NEW call \in Calls, NEW t \in Windows, NEW move,
         NEW deeper \in [Calls -> Int]
  PROVE  TryMove(call, t, move, deeper) \in Windows
<1>1. /\ call.board \in Boards /\ call.isMaximizing \in BOOLEAN
      /\ t.best \in Int /\ t.alpha \in Int /\ t.beta \in Int /\ t.cut \in BOOLEAN
  BY DEF Calls, Windows
<1>2. PICK next \in Boards : next = With(call.board, move, Mover(call.isMaximizing))
  BY <1>1, WithFacts, OpponentFacts
<1>3. Call(next, ~call.isMaximizing, t.alpha, t.beta) \in Calls  BY <1>1 DEF Call, Calls
<1>4. PICK v \in Int : v = deeper[Call(next, ~call.isMaximizing, t.alpha, t.beta)]
  BY <1>3
<1>5. \A x, y \in Int : Greater(x, y) \in Int /\ Smaller(x, y) \in Int /\ CutOff(x, y) \in BOOLEAN
  BY DEF Greater, Smaller, CutOff
<1>6. Maximized(t, v) \in Windows  BY <1>1, <1>5 DEF Maximized, Windows
<1>7. Minimized(t, v) \in Windows  BY <1>1, <1>5 DEF Minimized, Windows
<1>8. TryMove(call, t, move, deeper) \in {t, Maximized(t, v), Minimized(t, v)}
  BY <1>2, <1>4 DEF TryMove
<1> QED  BY <1>6, <1>7, <1>8

Worst(call) == IF call.isMaximizing THEN INT_MIN ELSE INT_MAX

\* What the loop of minimax goes through.
BestRun(call, deeper, after) ==
  LET moves == ValidMoves(call.board)
  IN  /\ BestOf(call, deeper) = after[Len(moves)].best
      /\ after[0] = Unpruned(Worst(call), call.alpha, call.beta)
      /\ \A k \in 1 .. Len(moves) : after[k] = TryMove(call, after[k - 1], moves[k], deeper)
      /\ \A k \in 0 .. Len(moves) : after[k] \in Windows

LEMMA BestRuns ==
  ASSUME AiTypeOK, NEW call \in Calls, NEW deeper \in [Calls -> Int]
  PROVE  \E after : BestRun(call, deeper, after)
<1> DEFINE moves == ValidMoves(call.board)
           N == Len(moves)
           OnePass(k, t) == TryMove(call, t, moves[k], deeper)
           first == Unpruned(Worst(call), call.alpha, call.beta)
<1>1. N \in Nat
  <2>1. call.board \in Boards  BY DEF Calls
  <2>2. moves \in Seq(Vacant(call.board))  BY <2>1, MovesFacts
  <2> QED  BY <2>2
<1>1a. first \in Windows
  BY LimitFacts DEF Unpruned, Worst, Windows, Calls
<1>2. PICK G : G = [k \in 1 .. N |-> [t \in Windows |-> OnePass(k, t)]]  OBVIOUS
<1>2a. \A k \in 1 .. N, t \in Windows : OnePass(k, t) \in Windows  BY TryMoveIsWindow
<1>3. G \in Passes(N, Windows)
  <2> HIDE DEF OnePass, N
  <2> QED  BY <1>2, <1>2a DEF Passes
<1>5. PICK f : IsRun(f, N, Windows, first, G)
  <2> HIDE DEF N, first
  <2> QED  BY <1>1, <1>1a, <1>3, LoopEnds
<1>6. /\ f \in [0 .. N -> Windows] /\ f[0] = first
      /\ \A k \in 1 .. N : f[k] = G[k][f[k - 1]]
  BY <1>5 DEF IsRun
<1>7. \A k \in 1 .. N : f[k] = OnePass(k, f[k - 1])
  <2> HIDE DEF OnePass, N, first
  <2> SUFFICES ASSUME NEW k \in 1 .. N PROVE f[k] = OnePass(k, f[k - 1])  OBVIOUS
  <2>1. f[k - 1] \in Windows  BY <1>1, <1>6
  <2> QED  BY <1>2, <1>6, <2>1
<1> DEFINE IsAfter(g) == g = [k \in 0 .. Len(ValidMoves(call.board)) |->
             IF k = 0 THEN Unpruned(IF call.isMaximizing THEN INT_MIN ELSE INT_MAX, call.alpha, call.beta)
             ELSE TryMove(call, g[k - 1], ValidMoves(call.board)[k], deeper)]
<1>8. IsAfter(f)
  <2>3. f = [k \in 0 .. N |-> IF k = 0 THEN first ELSE OnePass(k, f[k - 1])]
    <3> HIDE DEF OnePass, N, first
    <3>1. \A k \in 0 .. N : k # 0 => k \in 1 .. N  BY <1>1
    <3>2. \A k \in 0 .. N : f[k] = IF k = 0 THEN first ELSE OnePass(k, f[k - 1])
      BY <1>6, <1>7, <3>1
    <3> QED  BY <1>6, <3>2
  <2> QED  BY <2>3 DEF Worst
<1>9. PICK g : IsAfter(g) /\ BestOf(call, deeper) = g[N].best
  <2>1. \E g : IsAfter(g)  BY <1>8
  <2>2. IsAfter(CHOOSE g : IsAfter(g))
    <3> HIDE DEF IsAfter
    <3> QED  BY <2>1, Zenon
  <2>3. BestOf(call, deeper) = (CHOOSE g : IsAfter(g))[Len(ValidMoves(call.board))].best
    BY Zenon DEF BestOf
  <2> HIDE DEF IsAfter
  <2> QED  BY <2>2, <2>3, Zenon
<1>12. g[0] = first /\ \A k \in 1 .. N : g[k] = OnePass(k, g[k - 1])
  <2>2. g = [k \in 0 .. N |-> IF k = 0 THEN first ELSE OnePass(k, g[k - 1])]
    BY <1>9 DEF Worst
  <2> HIDE DEF OnePass, IsAfter, N, first
  <2>1. 0 \in 0 .. N /\ \A k \in 1 .. N : k \in 0 .. N /\ k # 0  BY <1>1
  <2> QED  BY <2>1, <2>2
<1>13. \A k \in 0 .. N : g[k] \in Windows
  <2> HIDE DEF OnePass, IsAfter, N, first
  <2>1. \A k \in 1 .. N : g[k - 1] \in Windows => g[k] \in Windows  BY <1>2a, <1>12
  <2>2. g[0] \in Windows  BY <1>1a, <1>12
  <2> QED  BY <1>1, <2>1, <2>2, Stays
<1>14. BestRun(call, deeper, g)
  <2> HIDE DEF IsAfter
  <2> QED  BY <1>9, <1>12, <1>13 DEF BestRun
<1> QED  BY <1>14

LEMMA BestIsInt ==
  ASSUME AiTypeOK, NEW call \in Calls, NEW deeper \in [Calls -> Int]
  PROVE  BestOf(call, deeper) \in Int
<1>1. PICK after : BestRun(call, deeper, after)  BY BestRuns
<1>2. Len(ValidMoves(call.board)) \in Nat
  <2>1. call.board \in Boards  BY DEF Calls
  <2>2. ValidMoves(call.board) \in Seq(Vacant(call.board))  BY <2>1, MovesFacts
  <2> QED  BY <2>2
<1>3. after[Len(ValidMoves(call.board))] \in Windows  BY <1>1, <1>2 DEF BestRun
<1> QED  BY <1>1, <1>3 DEF BestRun, Windows

\* One level of the search.
Level(depth, call, deeper) ==
  IF depth = 0 \/ ValidMoves(call.board) = <<>> THEN EvaluateBoard(call.board)
  ELSE BestOf(call, deeper)

LEMMA SearchFacts ==
  ASSUME AiTypeOK
  PROVE  /\ \A d \in 0 .. MaxDepth : Search[d] \in [Calls -> Int]
         /\ \A call \in Calls : Search[0][call] = EvaluateBoard(call.board)
         /\ \A d \in 1 .. MaxDepth, call \in Calls :
              Search[d][call] = IF ValidMoves(call.board) = <<>> THEN EvaluateBoard(call.board)
                                ELSE BestOf(call, Search[d - 1])
<1>0. MaxDepth \in Nat  BY DepthAssumption
<1> DEFINE V == [Calls -> Int]
           first == [call \in Calls |-> EvaluateBoard(call.board)]
           OnePass(k, f) == [call \in Calls |-> Level(k, call, f)]
<1>1. \A call \in Calls : EvaluateBoard(call.board) \in Int
  <2> SUFFICES ASSUME NEW call \in Calls PROVE EvaluateBoard(call.board) \in Int  OBVIOUS
  <2>1. call.board \in Boards  BY DEF Calls
  <2>2. EvaluateBoard(call.board) \in -Limit .. Limit  BY <2>1, EvaluateFits
  <2> QED  BY <2>2, LimitFacts
<1>2. first \in V  BY <1>1
<1>3. \A k \in 1 .. MaxDepth, f \in V : OnePass(k, f) \in V
  <2> SUFFICES ASSUME NEW k \in 1 .. MaxDepth, NEW f \in V, NEW call \in Calls
               PROVE  Level(k, call, f) \in Int
    OBVIOUS
  <2> QED  BY <1>1, BestIsInt DEF Level
<1>4. PICK G : G = [k \in 1 .. MaxDepth |-> [f \in V |-> OnePass(k, f)]]  OBVIOUS
<1>5. G \in Passes(MaxDepth, V)
  <2> HIDE DEF OnePass, V
  <2> QED  BY <1>3, <1>4 DEF Passes
<1>6. PICK f : IsRun(f, MaxDepth, V, first, G)
  <2> HIDE DEF V, first
  <2> QED  BY <1>0, <1>2, <1>5, LoopEnds
<1>7. f \in [0 .. MaxDepth -> V] /\ f[0] = first
      /\ \A k \in 1 .. MaxDepth : f[k] = OnePass(k, f[k - 1])
  <2> HIDE DEF OnePass, V, first
  <2>1. /\ f \in [0 .. MaxDepth -> V] /\ f[0] = first
        /\ \A k \in 1 .. MaxDepth : f[k] = G[k][f[k - 1]]
    BY <1>6 DEF IsRun
  <2>2. ASSUME NEW k \in 1 .. MaxDepth PROVE f[k] = OnePass(k, f[k - 1])
    <3>1. f[k - 1] \in V  BY <1>0, <2>1
    <3> QED  BY <1>4, <2>1, <3>1
  <2> QED  BY <2>1, <2>2
<1> DEFINE IsSearch(g) == g = [depth \in 0 .. MaxDepth |-> [call \in Calls |->
             IF depth = 0 \/ ValidMoves(call.board) = <<>> THEN EvaluateBoard(call.board)
             ELSE BestOf(call, g[depth - 1])]]
<1>8. IsSearch(f)
  <2>1. first = OnePass(0, f[0 - 1])  BY DEF Level
  <2>2. f = [k \in 0 .. MaxDepth |-> OnePass(k, f[k - 1])]
    <3> HIDE DEF OnePass, V, first
    <3>1. \A k \in 0 .. MaxDepth : k # 0 => k \in 1 .. MaxDepth  BY <1>0
    <3>2. \A k \in 0 .. MaxDepth : f[k] = OnePass(k, f[k - 1])
      BY <1>7, <2>1, <3>1
    <3> QED  BY <1>7, <3>2
  <2> QED  BY <2>2 DEF Level
<1>9. Search = [depth \in 0 .. MaxDepth |-> [call \in Calls |->
             IF depth = 0 \/ ValidMoves(call.board) = <<>> THEN EvaluateBoard(call.board)
             ELSE BestOf(call, Search[depth - 1])]]
  <2>1. \E g : g = [depth \in 0 .. MaxDepth |-> [call \in Calls |->
             IF depth = 0 \/ ValidMoves(call.board) = <<>> THEN EvaluateBoard(call.board)
             ELSE BestOf(call, g[depth - 1])]]
    BY <1>8
  <2> QED  BY <2>1, Zenon DEF Search
<1>10. Search = [k \in 0 .. MaxDepth |-> OnePass(k, Search[k - 1])]
  BY <1>9 DEF Level
<1>11. Search[0] = first /\ \A k \in 1 .. MaxDepth : Search[k] = OnePass(k, Search[k - 1])
  <2>1. 0 \in 0 .. MaxDepth /\ \A k \in 1 .. MaxDepth : k \in 0 .. MaxDepth  BY <1>0
  <2>2. first = OnePass(0, Search[0 - 1])  BY DEF Level
  <2> HIDE DEF OnePass, first, IsSearch
  <2> QED  BY <1>10, <2>1, <2>2
<1>12. \A d \in 0 .. MaxDepth : Search[d] \in V
  <2> HIDE DEF OnePass, first, V, IsSearch
  <2>1. Search[0] \in V  BY <1>2, <1>11
  <2>2. \A k \in 1 .. MaxDepth : Search[k - 1] \in V => Search[k] \in V  BY <1>3, <1>11
  <2> QED  BY <1>0, <2>1, <2>2, Stays
<1>13. \A call \in Calls : Search[0][call] = EvaluateBoard(call.board)
  BY <1>11
<1>14. ASSUME NEW d \in 1 .. MaxDepth, NEW call \in Calls
       PROVE Search[d][call] = IF ValidMoves(call.board) = <<>> THEN EvaluateBoard(call.board)
                               ELSE BestOf(call, Search[d - 1])
  <2>1. Search[d] = OnePass(d, Search[d - 1])  BY <1>11
  <2>2. Search[d][call] = Level(d, call, Search[d - 1])  BY <2>1
  <2>3. d # 0  BY <1>0
  <2> QED  BY <2>2, <2>3 DEF Level
<1> QED  BY <1>12, <1>13, <1>14

Scores == -Limit .. Limit

\* The best of some scores is one of them and no worse than any.
LEMMA ExtremeFacts ==
  ASSUME NEW S \in SUBSET Scores, S # {}
  PROVE  /\ Extreme(TRUE, S) \in S /\ \A v \in S : v <= Extreme(TRUE, S)
         /\ Extreme(FALSE, S) \in S /\ \A v \in S : Extreme(FALSE, S) <= v
<1>0. Limit \in Nat  BY LimitFacts
<1>1. \A v \in S : v \in Int /\ -Limit <= v /\ v <= Limit  BY <1>0 DEF Scores
<1>2. \E x \in S : \A v \in S : v <= x
  <2> DEFINE T == {Limit - v : v \in S}
  <2>1. T \in SUBSET Nat /\ T # {}  BY <1>0, <1>1
  <2>2. PICK y \in T : \A z \in T : y <= z
    <3> HIDE DEF T
    <3> QED  BY <2>1, LeastNumber
  <2>3. PICK x \in S : y = Limit - x  BY <2>2
  <2>4. ASSUME NEW v \in S PROVE v <= x
    <3>1. Limit - v \in T  OBVIOUS
    <3>2. Limit - x <= Limit - v  BY <2>2, <2>3, <3>1
    <3> QED  BY <1>0, <1>1, <3>2
  <2> QED  BY <2>4
<1>3. \E x \in S : \A v \in S : x <= v
  <2> DEFINE T == {v + Limit : v \in S}
  <2>1. T \in SUBSET Nat /\ T # {}  BY <1>0, <1>1
  <2>2. PICK y \in T : \A z \in T : y <= z
    <3> HIDE DEF T
    <3> QED  BY <2>1, LeastNumber
  <2>3. PICK x \in S : y = x + Limit  BY <2>2
  <2>4. ASSUME NEW v \in S PROVE x <= v
    <3>1. v + Limit \in T  OBVIOUS
    <3>2. x + Limit <= v + Limit  BY <2>2, <2>3, <3>1
    <3> QED  BY <1>0, <1>1, <3>2
  <2> QED  BY <2>4
<1>4. Extreme(TRUE, S) = Max(S) /\ Extreme(FALSE, S) = Min(S)  BY DEF Extreme
<1>5. Max(S) \in S /\ \A v \in S : v <= Max(S)
  <2>1. \E x \in S : \A v \in S : x >= v  BY <1>1, <1>2
  <2>2. Max(S) \in S /\ \A v \in S : Max(S) >= v  BY <2>1, Zenon DEF Max
  <2> QED  BY <1>1, <2>2
<1>6. Min(S) \in S /\ \A v \in S : Min(S) <= v  BY <1>3, Zenon DEF Min
<1> QED  BY <1>4, <1>5, <1>6

\* The board after a reply.
Reply(node, c) ==
  [board |-> With(node.board, c, Mover(node.isMaximizing)),
   isMaximizing |-> ~node.isMaximizing]

LEMMA ReplyFacts ==
  ASSUME AiTypeOK, NEW node \in Nodes
  PROVE  /\ node.board \in Boards /\ node.isMaximizing \in BOOLEAN
         /\ Replies(node) = {Reply(node, c) : c \in Vacant(node.board)}
         /\ \A c : Reply(node, c) \in Nodes
         /\ Replies(node) \in SUBSET Nodes
         /\ Vacant(node.board) # {} => Replies(node) # {}
<1>1. node.board \in Boards /\ node.isMaximizing \in BOOLEAN  BY DEF Nodes
<1>2. Replies(node) = {Reply(node, c) : c \in Vacant(node.board)}  BY DEF Replies, Reply
<1>3. \A c : Reply(node, c) \in Nodes
  <2> SUFFICES ASSUME NEW c PROVE Reply(node, c) \in Nodes  OBVIOUS
  <2>1. With(node.board, c, Mover(node.isMaximizing)) \in Boards
    BY <1>1, WithFacts, OpponentFacts
  <2> QED  BY <1>1, <2>1 DEF Reply, Nodes
<1> QED  BY <1>1, <1>2, <1>3

ReplyScores(node, f) == {f[reply] : reply \in Replies(node)}

PlainLevel(depth, node, f) ==
  IF depth = 0 \/ Vacant(node.board) = {} THEN EvaluateBoard(node.board)
  ELSE Extreme(node.isMaximizing, ReplyScores(node, f))

LEMMA PlainLevelFits ==
  ASSUME AiTypeOK, NEW node \in Nodes, NEW f \in [Nodes -> Scores], NEW depth
  PROVE  PlainLevel(depth, node, f) \in Scores
<1>1. EvaluateBoard(node.board) \in Scores
  BY ReplyFacts, EvaluateFits DEF Scores
<1>2. ASSUME Vacant(node.board) # {}
      PROVE Extreme(node.isMaximizing, ReplyScores(node, f)) \in Scores
  <2>1. Replies(node) \in SUBSET Nodes /\ Replies(node) # {} /\ node.isMaximizing \in BOOLEAN
    BY <1>2, ReplyFacts
  <2>2. PICK S : S = ReplyScores(node, f)  OBVIOUS
  <2>3. S \in SUBSET Scores /\ S # {}  BY <2>1, <2>2 DEF ReplyScores
  <2>4. Extreme(TRUE, S) \in S /\ Extreme(FALSE, S) \in S  BY <2>3, ExtremeFacts
  <2>5. Extreme(node.isMaximizing, S) \in S
    <3>1. CASE node.isMaximizing = TRUE  BY <2>4, <3>1
    <3>2. CASE node.isMaximizing = FALSE  BY <2>4, <3>2
    <3> QED  BY <2>1, <3>1, <3>2
  <2> QED  BY <2>2, <2>3, <2>5
<1> QED  BY <1>1, <1>2 DEF PlainLevel

LEMMA PlainSearchFacts ==
  ASSUME AiTypeOK
  PROVE  /\ \A d \in 0 .. MaxDepth : PlainSearch[d] \in [Nodes -> Scores]
         /\ \A node \in Nodes : PlainSearch[0][node] = EvaluateBoard(node.board)
         /\ \A d \in 1 .. MaxDepth, node \in Nodes :
              PlainSearch[d][node] =
                IF Vacant(node.board) = {} THEN EvaluateBoard(node.board)
                ELSE Extreme(node.isMaximizing, ReplyScores(node, PlainSearch[d - 1]))
<1>0. MaxDepth \in Nat  BY DepthAssumption
<1> DEFINE V == [Nodes -> Scores]
           first == [node \in Nodes |-> EvaluateBoard(node.board)]
           OnePass(k, f) == [node \in Nodes |-> PlainLevel(k, node, f)]
<1>1. \A node \in Nodes : EvaluateBoard(node.board) \in Scores
  BY ReplyFacts, EvaluateFits DEF Scores
<1>2. first \in V  BY <1>1
<1>3. \A k \in 1 .. MaxDepth, f \in V : OnePass(k, f) \in V
  <2> SUFFICES ASSUME NEW k \in 1 .. MaxDepth, NEW f \in V, NEW node \in Nodes
               PROVE  PlainLevel(k, node, f) \in Scores
    OBVIOUS
  <2> QED  BY PlainLevelFits
<1>4. PICK G : G = [k \in 1 .. MaxDepth |-> [f \in V |-> OnePass(k, f)]]  OBVIOUS
<1>5. G \in Passes(MaxDepth, V)
  <2> HIDE DEF OnePass, V
  <2> QED  BY <1>3, <1>4 DEF Passes
<1>6. PICK f : IsRun(f, MaxDepth, V, first, G)
  <2> HIDE DEF V, first
  <2> QED  BY <1>0, <1>2, <1>5, LoopEnds
<1>7. f \in [0 .. MaxDepth -> V] /\ f[0] = first
      /\ \A k \in 1 .. MaxDepth : f[k] = OnePass(k, f[k - 1])
  <2> HIDE DEF OnePass, V, first
  <2>1. /\ f \in [0 .. MaxDepth -> V] /\ f[0] = first
        /\ \A k \in 1 .. MaxDepth : f[k] = G[k][f[k - 1]]
    BY <1>6 DEF IsRun
  <2>2. ASSUME NEW k \in 1 .. MaxDepth PROVE f[k] = OnePass(k, f[k - 1])
    <3>1. f[k - 1] \in V  BY <1>0, <2>1
    <3> QED  BY <1>4, <2>1, <3>1
  <2> QED  BY <2>1, <2>2
<1> DEFINE IsSearch(g) == g = [depth \in 0 .. MaxDepth |-> [node \in Nodes |->
             IF depth = 0 \/ Vacant(node.board) = {} THEN EvaluateBoard(node.board)
             ELSE Extreme(node.isMaximizing, {g[depth - 1][reply] : reply \in Replies(node)})]]
<1>8. IsSearch(f)
  <2>1. first = OnePass(0, f[0 - 1])  BY DEF PlainLevel
  <2>2. f = [k \in 0 .. MaxDepth |-> OnePass(k, f[k - 1])]
    <3> HIDE DEF OnePass, V, first
    <3>1. \A k \in 0 .. MaxDepth : k # 0 => k \in 1 .. MaxDepth  BY <1>0
    <3>2. \A k \in 0 .. MaxDepth : f[k] = OnePass(k, f[k - 1])
      BY <1>7, <2>1, <3>1
    <3> QED  BY <1>7, <3>2
  <2> QED  BY <2>2 DEF PlainLevel, ReplyScores
<1>9. PlainSearch = [depth \in 0 .. MaxDepth |-> [node \in Nodes |->
             IF depth = 0 \/ Vacant(node.board) = {} THEN EvaluateBoard(node.board)
             ELSE Extreme(node.isMaximizing,
                          {PlainSearch[depth - 1][reply] : reply \in Replies(node)})]]
  <2>1. \E g : g = [depth \in 0 .. MaxDepth |-> [node \in Nodes |->
             IF depth = 0 \/ Vacant(node.board) = {} THEN EvaluateBoard(node.board)
             ELSE Extreme(node.isMaximizing, {g[depth - 1][reply] : reply \in Replies(node)})]]
    BY <1>8
  <2> QED  BY <2>1, Zenon DEF PlainSearch
<1>10. PlainSearch = [k \in 0 .. MaxDepth |-> OnePass(k, PlainSearch[k - 1])]
  BY <1>9 DEF PlainLevel, ReplyScores
<1>11. PlainSearch[0] = first
       /\ \A k \in 1 .. MaxDepth : PlainSearch[k] = OnePass(k, PlainSearch[k - 1])
  <2>1. 0 \in 0 .. MaxDepth /\ \A k \in 1 .. MaxDepth : k \in 0 .. MaxDepth  BY <1>0
  <2>2. first = OnePass(0, PlainSearch[0 - 1])  BY DEF PlainLevel
  <2> HIDE DEF OnePass, first, IsSearch
  <2> QED  BY <1>10, <2>1, <2>2
<1>12. \A d \in 0 .. MaxDepth : PlainSearch[d] \in V
  <2> HIDE DEF OnePass, first, V, IsSearch
  <2>1. PlainSearch[0] \in V  BY <1>2, <1>11
  <2>2. \A k \in 1 .. MaxDepth : PlainSearch[k - 1] \in V => PlainSearch[k] \in V
    BY <1>3, <1>11
  <2> QED  BY <1>0, <2>1, <2>2, Stays
<1>13. \A node \in Nodes : PlainSearch[0][node] = EvaluateBoard(node.board)
  BY <1>11
<1>14. ASSUME NEW d \in 1 .. MaxDepth, NEW node \in Nodes
       PROVE PlainSearch[d][node] =
               IF Vacant(node.board) = {} THEN EvaluateBoard(node.board)
               ELSE Extreme(node.isMaximizing, ReplyScores(node, PlainSearch[d - 1]))
  <2>1. PlainSearch[d] = OnePass(d, PlainSearch[d - 1])  BY <1>11
  <2>2. PlainSearch[d][node] = PlainLevel(d, node, PlainSearch[d - 1])  BY <2>1
  <2>3. d # 0  BY <1>0
  <2> QED  BY <2>2, <2>3 DEF PlainLevel
<1> QED  BY <1>12, <1>13, <1>14

\* What a search with a window may answer where "plain" is the value.
Bounding(v, plain, alpha, beta) ==
  /\ v <= alpha => plain <= v
  /\ v >= beta => plain >= v
  /\ alpha < v /\ v < beta => v = plain

\* A loop that looks for the greatest score, and has come across some.
Maximizing(t, seen, alpha, beta) ==
  /\ t \in Windows /\ t.beta = beta
  /\ ~t.cut => /\ alpha <= t.alpha /\ t.alpha < beta
               /\ t.best <= t.alpha /\ t.alpha \in {alpha, t.best}
               /\ \A q \in seen : q <= t.best
               /\ t.best <= alpha \/ t.best \in seen
  /\ t.cut => t.best >= beta /\ \E q \in seen : q >= t.best

Minimizing(t, seen, alpha, beta) ==
  /\ t \in Windows /\ t.alpha = alpha
  /\ ~t.cut => /\ alpha < t.beta /\ t.beta <= beta
               /\ t.beta <= t.best /\ t.beta \in {beta, t.best}
               /\ \A q \in seen : t.best <= q
               /\ t.best >= beta \/ t.best \in seen
  /\ t.cut => t.best <= alpha /\ \E q \in seen : q <= t.best

LEMMA ScoresAreInts == \A q \in Scores : q \in Int /\ -Limit <= q /\ q <= Limit
BY LimitFacts DEF Scores

LEMMA MaximizedKeeps ==
  ASSUME NEW alpha \in Int, NEW beta \in Int, NEW t, NEW seen \in SUBSET Scores,
         NEW q \in Scores, NEW v \in Int,
         Maximizing(t, seen, alpha, beta), ~t.cut, Bounding(v, q, t.alpha, beta)
  PROVE  Maximizing(Maximized(t, v), seen \cup {q}, alpha, beta)
<1>1. PICK a \in Int, best \in Int : a = t.alpha /\ best = t.best
  BY DEF Maximizing, Windows
<1>2. /\ t.beta = beta /\ alpha <= a /\ a < beta /\ best <= a /\ a \in {alpha, best}
      /\ \A s \in seen : s <= best
      /\ best <= alpha \/ best \in seen
  BY <1>1 DEF Maximizing
<1>3. /\ v <= a => q <= v
      /\ v >= beta => q >= v
      /\ a < v /\ v < beta => v = q
      /\ q \in Int /\ \A s \in seen : s \in Int
  BY <1>1, ScoresAreInts DEF Bounding
<1>4. PICK b2 \in Int, a2 \in Int : b2 = Greater(best, v) /\ a2 = Greater(a, v)
  BY DEF Greater
<1>5. /\ b2 \in {best, v} /\ best <= b2 /\ v <= b2
      /\ a2 \in {a, v} /\ a <= a2 /\ v <= a2
  BY <1>4 DEF Greater
<1>6. PICK u : u = Maximized(t, v)  OBVIOUS
<1>6b. CutOff(a2, beta) \in BOOLEAN  BY DEF CutOff
<1>6a. PICK c \in BOOLEAN : c = CutOff(a2, beta)  BY <1>6b
<1>7. u = [best |-> b2, alpha |-> a2, beta |-> beta, cut |-> c]
  BY <1>1, <1>2, <1>4, <1>6, <1>6a DEF Maximized
<1>7a. c <=> beta <= a2  BY <1>6a DEF CutOff
<1>8. u \in Windows /\ u.best = b2 /\ u.alpha = a2 /\ u.beta = beta /\ (u.cut <=> beta <= a2)
  BY <1>7, <1>7a DEF Windows
<1>9. ASSUME ~(beta <= a2)
      PROVE  /\ alpha <= a2 /\ a2 < beta /\ b2 <= a2 /\ a2 \in {alpha, b2}
             /\ \A s \in seen \cup {q} : s <= b2
             /\ b2 <= alpha \/ b2 \in seen \cup {q}
  <2>1. alpha <= a2 /\ a2 < beta /\ b2 <= a2  BY <1>2, <1>5, <1>9
  <2>2. a2 \in {alpha, b2}  BY <1>2, <1>5
  <2>3. \A s \in seen : s <= b2  BY <1>2, <1>3, <1>5
  <2>4. q <= b2  BY <1>3, <1>5, <1>9
  <2>5. b2 <= alpha \/ b2 \in seen \cup {q}
    <3>1. CASE b2 = best  BY <1>2, <3>1
    <3>2. CASE b2 = v /\ v > a
      <4>1. v < beta  BY <1>5, <1>9
      <4> QED  BY <1>3, <3>2, <4>1
    <3>3. CASE b2 = v /\ v <= a
      <4>1. CASE a = alpha  BY <3>3, <4>1
      <4>2. CASE a = best  BY <1>2, <1>5, <3>3, <4>2
      <4> QED  BY <1>2, <4>1, <4>2
    <3> QED  BY <1>5, <3>1, <3>2, <3>3
  <2> QED  BY <2>1, <2>2, <2>3, <2>4, <2>5
<1>10. ASSUME beta <= a2 PROVE b2 >= beta /\ q >= b2
  <2>1. a2 = v /\ v >= beta  BY <1>2, <1>5, <1>10
  <2>2. b2 = v  BY <1>2, <1>5, <2>1
  <2> QED  BY <1>3, <2>1, <2>2
<1>11. beta <= a2 => b2 >= beta /\ \E s \in seen \cup {q} : s >= b2  BY <1>10
<1> QED  BY <1>6, <1>8, <1>9, <1>11 DEF Maximizing

LEMMA MinimizedKeeps ==
  ASSUME NEW alpha \in Int, NEW beta \in Int, NEW t, NEW seen \in SUBSET Scores,
         NEW q \in Scores, NEW v \in Int,
         Minimizing(t, seen, alpha, beta), ~t.cut, Bounding(v, q, alpha, t.beta)
  PROVE  Minimizing(Minimized(t, v), seen \cup {q}, alpha, beta)
<1>1. PICK z \in Int, best \in Int : z = t.beta /\ best = t.best
  BY DEF Minimizing, Windows
<1>2. /\ t.alpha = alpha /\ alpha < z /\ z <= beta /\ z <= best /\ z \in {beta, best}
      /\ \A s \in seen : best <= s
      /\ best >= beta \/ best \in seen
  BY <1>1 DEF Minimizing
<1>3. /\ v <= alpha => q <= v
      /\ v >= z => q >= v
      /\ alpha < v /\ v < z => v = q
      /\ q \in Int /\ \A s \in seen : s \in Int
  BY <1>1, ScoresAreInts DEF Bounding
<1>4. PICK b2 \in Int, z2 \in Int : b2 = Smaller(best, v) /\ z2 = Smaller(z, v)
  BY DEF Smaller
<1>5. /\ b2 \in {best, v} /\ b2 <= best /\ b2 <= v
      /\ z2 \in {z, v} /\ z2 <= z /\ z2 <= v
  BY <1>4 DEF Smaller
<1>6. PICK u : u = Minimized(t, v)  OBVIOUS
<1>6b. CutOff(alpha, z2) \in BOOLEAN  BY DEF CutOff
<1>6a. PICK c \in BOOLEAN : c = CutOff(alpha, z2)  BY <1>6b
<1>7. u = [best |-> b2, alpha |-> alpha, beta |-> z2, cut |-> c]
  BY <1>1, <1>2, <1>4, <1>6, <1>6a DEF Minimized
<1>7a. c <=> z2 <= alpha  BY <1>6a DEF CutOff
<1>8. u \in Windows /\ u.best = b2 /\ u.alpha = alpha /\ u.beta = z2 /\ (u.cut <=> z2 <= alpha)
  BY <1>7, <1>7a DEF Windows
<1>9. ASSUME ~(z2 <= alpha)
      PROVE  /\ alpha < z2 /\ z2 <= beta /\ z2 <= b2 /\ z2 \in {beta, b2}
             /\ \A s \in seen \cup {q} : b2 <= s
             /\ b2 >= beta \/ b2 \in seen \cup {q}
  <2>1. alpha < z2 /\ z2 <= beta /\ z2 <= b2  BY <1>2, <1>5, <1>9
  <2>2. z2 \in {beta, b2}  BY <1>2, <1>5
  <2>3. \A s \in seen : b2 <= s  BY <1>2, <1>3, <1>5
  <2>4. b2 <= q  BY <1>3, <1>5, <1>9
  <2>5. b2 >= beta \/ b2 \in seen \cup {q}
    <3>1. CASE b2 = best  BY <1>2, <3>1
    <3>2. CASE b2 = v /\ v < z
      <4>1. v > alpha  BY <1>5, <1>9
      <4> QED  BY <1>3, <3>2, <4>1
    <3>3. CASE b2 = v /\ v >= z
      <4>1. CASE z = beta  BY <3>3, <4>1
      <4>2. CASE z = best  BY <1>2, <1>5, <3>3, <4>2
      <4> QED  BY <1>2, <4>1, <4>2
    <3> QED  BY <1>5, <3>1, <3>2, <3>3
  <2> QED  BY <2>1, <2>2, <2>3, <2>4, <2>5
<1>10. ASSUME z2 <= alpha PROVE b2 <= alpha /\ q <= b2
  <2>1. z2 = v /\ v <= alpha  BY <1>2, <1>5, <1>10
  <2>2. b2 = v  BY <1>2, <1>5, <2>1
  <2> QED  BY <1>3, <2>1, <2>2
<1>11. z2 <= alpha => b2 <= alpha /\ \E s \in seen \cup {q} : s <= b2  BY <1>10
<1> QED  BY <1>6, <1>8, <1>9, <1>11 DEF Minimizing

\* At the end of the loop every reply has been seen.
LEMMA MaximizingEnds ==
  ASSUME NEW alpha \in Int, NEW beta \in Int, alpha < beta, NEW t,
         NEW seen \in SUBSET Scores, seen # {}, Maximizing(t, seen, alpha, beta)
  PROVE  Bounding(t.best, Extreme(TRUE, seen), alpha, beta)
<1>0. PICK p : p = Extreme(TRUE, seen)  OBVIOUS
<1>1. p \in seen /\ \A q \in seen : q <= p  BY <1>0, ExtremeFacts
<1>2. PICK best \in Int : best = t.best  BY DEF Maximizing, Windows
<1>3. p \in Int /\ \A q \in seen : q \in Int  BY <1>1, ScoresAreInts
<1>4. t.alpha \in Int /\ t.cut \in BOOLEAN  BY DEF Maximizing, Windows
<1>5. ASSUME t.cut PROVE Bounding(best, p, alpha, beta)
  <2>1. best >= beta /\ \E q \in seen : q >= best  BY <1>2, <1>5 DEF Maximizing
  <2>2. p >= best  BY <1>1, <1>3, <2>1
  <2> QED  BY <1>3, <2>1, <2>2 DEF Bounding
<1>6. ASSUME ~t.cut PROVE Bounding(best, p, alpha, beta)
  <2>1. best <= t.alpha /\ t.alpha < beta /\ (\A q \in seen : q <= best)
        /\ (best <= alpha \/ best \in seen)
    BY <1>2, <1>6 DEF Maximizing
  <2>2. p <= best /\ best < beta  BY <1>1, <1>3, <1>4, <2>1
  <2>3. best > alpha => p = best  BY <1>1, <1>3, <2>1, <2>2
  <2> QED  BY <1>3, <2>2, <2>3 DEF Bounding
<1>7. Bounding(best, p, alpha, beta)  BY <1>4, <1>5, <1>6
<1> QED  BY <1>0, <1>2, <1>7

LEMMA MinimizingEnds ==
  ASSUME NEW alpha \in Int, NEW beta \in Int, alpha < beta, NEW t,
         NEW seen \in SUBSET Scores, seen # {}, Minimizing(t, seen, alpha, beta)
  PROVE  Bounding(t.best, Extreme(FALSE, seen), alpha, beta)
<1>0. PICK p : p = Extreme(FALSE, seen)  OBVIOUS
<1>1. p \in seen /\ \A q \in seen : p <= q  BY <1>0, ExtremeFacts
<1>2. PICK best \in Int : best = t.best  BY DEF Minimizing, Windows
<1>3. p \in Int /\ \A q \in seen : q \in Int  BY <1>1, ScoresAreInts
<1>4. t.beta \in Int /\ t.cut \in BOOLEAN  BY DEF Minimizing, Windows
<1>5. ASSUME t.cut PROVE Bounding(best, p, alpha, beta)
  <2>1. best <= alpha /\ \E q \in seen : q <= best  BY <1>2, <1>5 DEF Minimizing
  <2>2. p <= best  BY <1>1, <1>3, <2>1
  <2> QED  BY <1>3, <2>1, <2>2 DEF Bounding
<1>6. ASSUME ~t.cut PROVE Bounding(best, p, alpha, beta)
  <2>1. t.beta <= best /\ alpha < t.beta /\ (\A q \in seen : best <= q)
        /\ (best >= beta \/ best \in seen)
    BY <1>2, <1>6 DEF Minimizing
  <2>2. best <= p /\ alpha < best  BY <1>1, <1>3, <1>4, <2>1
  <2>3. best < beta => p = best  BY <1>1, <1>3, <2>1, <2>2
  <2> QED  BY <1>3, <2>2, <2>3 DEF Bounding
<1>7. Bounding(best, p, alpha, beta)  BY <1>4, <1>5, <1>6
<1> QED  BY <1>0, <1>2, <1>7

Window(alpha, beta) ==
  /\ alpha \in Int /\ beta \in Int
  /\ INT_MIN <= alpha /\ alpha < beta /\ beta <= INT_MAX

Node(b, isMaximizing) == [board |-> b, isMaximizing |-> isMaximizing]

\* What the search with a window finds when it looks d moves ahead.
Exact(d) ==
  \A b \in Boards, p \in BOOLEAN, alpha \in Int, beta \in Int :
    Window(alpha, beta) =>
      Bounding(Search[d][Call(b, p, alpha, beta)], PlainSearch[d][Node(b, p)], alpha, beta)

Looking(isMaximizing, t, seen, alpha, beta) ==
  IF isMaximizing THEN Maximizing(t, seen, alpha, beta) ELSE Minimizing(t, seen, alpha, beta)

LEMMA LookingFacts ==
  ASSUME NEW p \in BOOLEAN, NEW t, NEW seen, NEW alpha \in Int, NEW beta \in Int,
         Looking(p, t, seen, alpha, beta)
  PROVE  /\ t \in Windows
         /\ ~t.cut /\ Window(alpha, beta) => Window(t.alpha, t.beta)
         /\ \A q : t.cut => Looking(p, t, seen \cup {q}, alpha, beta)
<1>0. INT_MIN \in Int /\ INT_MAX \in Int  BY LimitFacts
<1>1. t \in Windows  BY DEF Looking, Maximizing, Minimizing
<1>2. t.alpha \in Int /\ t.beta \in Int /\ t.best \in Int  BY <1>1 DEF Windows
<1>3. ~t.cut /\ Window(alpha, beta) => Window(t.alpha, t.beta)
  BY <1>0, <1>2 DEF Looking, Maximizing, Minimizing, Window
<1>4. ASSUME NEW q, t.cut PROVE Looking(p, t, seen \cup {q}, alpha, beta)
  BY <1>4 DEF Looking, Maximizing, Minimizing
<1> QED  BY <1>1, <1>3, <1>4

LEMMA TryKeeps ==
  ASSUME AiTypeOK, NEW d \in 0 .. MaxDepth, Exact(d),
         NEW call \in Calls, Window(call.alpha, call.beta),
         NEW t, NEW seen \in SUBSET Scores, NEW move,
         Looking(call.isMaximizing, t, seen, call.alpha, call.beta)
  PROVE  Looking(call.isMaximizing, TryMove(call, t, move, Search[d]),
                 seen \cup {PlainSearch[d][Reply(Node(call.board, call.isMaximizing), move)]},
                 call.alpha, call.beta)
<1>1. /\ call.board \in Boards /\ call.isMaximizing \in BOOLEAN
      /\ call.alpha \in Int /\ call.beta \in Int
  BY DEF Calls
<1>2. PICK alpha \in Int, beta \in Int : alpha = call.alpha /\ beta = call.beta
  BY <1>1
<1>3. PICK next \in Boards : next = With(call.board, move, Mover(call.isMaximizing))
  BY <1>1, WithFacts, OpponentFacts
<1>4. PICK other \in BOOLEAN : other = ~call.isMaximizing  OBVIOUS
<1>5. Reply(Node(call.board, call.isMaximizing), move) = Node(next, other)
  BY <1>3, <1>4 DEF Reply, Node
<1>6. t \in Windows /\ t.alpha \in Int /\ t.beta \in Int /\ t.cut \in BOOLEAN
  BY <1>1, LookingFacts DEF Windows
<1>7. PICK v \in Int : v = Search[d][Call(next, other, t.alpha, t.beta)]
  <2>1. Call(next, other, t.alpha, t.beta) \in Calls  BY <1>6 DEF Call, Calls
  <2>2. Search[d] \in [Calls -> Int]  BY SearchFacts
  <2> QED  BY <2>1, <2>2
<1>8. PICK q \in Scores : q = PlainSearch[d][Node(next, other)]
  <2>1. Node(next, other) \in Nodes  BY DEF Node, Nodes
  <2>2. PlainSearch[d] \in [Nodes -> Scores]  BY PlainSearchFacts
  <2> QED  BY <2>1, <2>2
<1>9. TryMove(call, t, move, Search[d]) =
        IF t.cut THEN t ELSE IF call.isMaximizing THEN Maximized(t, v) ELSE Minimized(t, v)
  BY <1>3, <1>4, <1>7 DEF TryMove
<1>10. CASE t.cut
  <2>1. Looking(call.isMaximizing, t, seen \cup {q}, call.alpha, call.beta)
    BY <1>1, <1>10, LookingFacts
  <2> QED  BY <1>5, <1>8, <1>9, <1>10, <2>1
<1>11. CASE ~t.cut
  <2>1. Window(t.alpha, t.beta)  BY <1>1, <1>11, LookingFacts
  <2>2. Bounding(v, q, t.alpha, t.beta)  BY <1>6, <1>7, <1>8, <2>1 DEF Exact
  <2>3. CASE call.isMaximizing
    <3>1. Maximizing(t, seen, alpha, beta) /\ t.beta = beta
      BY <1>2, <2>3 DEF Looking, Maximizing
    <3>2. Maximizing(Maximized(t, v), seen \cup {q}, alpha, beta)
      BY <1>11, <2>2, <3>1, MaximizedKeeps
    <3> QED  BY <1>2, <1>5, <1>8, <1>9, <1>11, <2>3, <3>2 DEF Looking
  <2>4. CASE ~call.isMaximizing
    <3>1. Minimizing(t, seen, alpha, beta) /\ t.alpha = alpha
      BY <1>2, <2>4 DEF Looking, Minimizing
    <3>2. Minimizing(Minimized(t, v), seen \cup {q}, alpha, beta)
      BY <1>11, <2>2, <3>1, MinimizedKeeps
    <3> QED  BY <1>2, <1>5, <1>8, <1>9, <1>11, <2>4, <3>2 DEF Looking
  <2> QED  BY <1>1, <2>3, <2>4
<1> QED  BY <1>6, <1>10, <1>11

\* The scores of the first k replies.
SeenOf(d, node, k) ==
  {PlainSearch[d][Reply(node, ValidMoves(node.board)[i])] : i \in 1 .. k}

LEMMA SeenFacts ==
  ASSUME AiTypeOK, NEW d \in 0 .. MaxDepth, NEW node \in Nodes
  PROVE  LET moves == ValidMoves(node.board)
         IN  /\ \A k : SeenOf(d, node, k) \in SUBSET Scores
             /\ SeenOf(d, node, 0) = {}
             /\ \A k \in 1 .. Len(moves) :
                  SeenOf(d, node, k) =
                    SeenOf(d, node, k - 1) \cup {PlainSearch[d][Reply(node, moves[k])]}
             /\ SeenOf(d, node, Len(moves)) = ReplyScores(node, PlainSearch[d])
<1> DEFINE moves == ValidMoves(node.board)
<1>1. node.board \in Boards /\ PlainSearch[d] \in [Nodes -> Scores]
  BY ReplyFacts, PlainSearchFacts
<1>2. /\ moves \in Seq(Vacant(node.board)) /\ Len(moves) \in Nat
      /\ \A c \in Vacant(node.board) : \E i \in 1 .. Len(moves) : moves[i] = c
      /\ \A i \in 1 .. Len(moves) : moves[i] \in Vacant(node.board)
  <2>1. moves \in Seq(Vacant(node.board))
        /\ \A c \in Vacant(node.board) : \E i \in 1 .. Len(moves) : moves[i] = c
    BY <1>1, MovesFacts
  <2> HIDE DEF moves
  <2> QED  BY <2>1
<1> HIDE DEF moves
<1>3. \A k : SeenOf(d, node, k) = {PlainSearch[d][Reply(node, moves[i])] : i \in 1 .. k}
  BY DEF SeenOf, moves
<1>4. \A k : SeenOf(d, node, k) \in SUBSET Scores
  BY <1>1, <1>3, ReplyFacts
<1>5. SeenOf(d, node, 0) = {}  BY <1>3
<1>6. ASSUME NEW k \in 1 .. Len(moves)
      PROVE  SeenOf(d, node, k) =
               SeenOf(d, node, k - 1) \cup {PlainSearch[d][Reply(node, moves[k])]}
  <2>1. PICK n \in Nat : n = Len(moves)  BY <1>2
  <2>2. k \in 1 .. n  BY <2>1
  <2>3. \A i : i \in 1 .. k <=> i \in 1 .. k - 1 \/ i = k  BY <2>2
  <2> QED  BY <1>3, <2>3
<1>7. SeenOf(d, node, Len(moves)) = ReplyScores(node, PlainSearch[d])
  <2> DEFINE Score(c) == PlainSearch[d][Reply(node, c)]
  <2>1. ReplyScores(node, PlainSearch[d]) = {Score(c) : c \in Vacant(node.board)}
    BY ReplyFacts DEF ReplyScores
  <2>2. SeenOf(d, node, Len(moves)) = {Score(moves[i]) : i \in 1 .. Len(moves)}
    BY <1>3
  <2> HIDE DEF Score
  <2>3. {Score(moves[i]) : i \in 1 .. Len(moves)} \subseteq {Score(c) : c \in Vacant(node.board)}
    BY <1>2
  <2>4. {Score(c) : c \in Vacant(node.board)} \subseteq {Score(moves[i]) : i \in 1 .. Len(moves)}
    BY <1>2
  <2> QED  BY <2>1, <2>2, <2>3, <2>4
<1> QED  BY <1>4, <1>5, <1>6, <1>7 DEF moves

LEMMA BestIsExact ==
  ASSUME AiTypeOK, NEW d \in 0 .. MaxDepth, Exact(d),
         NEW call \in Calls, Window(call.alpha, call.beta), Vacant(call.board) # {}
  PROVE  Bounding(BestOf(call, Search[d]),
                  Extreme(call.isMaximizing,
                          ReplyScores(Node(call.board, call.isMaximizing), PlainSearch[d])),
                  call.alpha, call.beta)
<1> DEFINE moves == ValidMoves(call.board)
           node == Node(call.board, call.isMaximizing)
<1>1. /\ call.board \in Boards /\ call.isMaximizing \in BOOLEAN
      /\ call.alpha \in Int /\ call.beta \in Int
      /\ node \in Nodes /\ node.board = call.board
  BY DEF Calls, Node, Nodes
<1>2. moves \in Seq(Vacant(call.board)) /\ moves # <<>>  BY <1>1, MovesFacts
<1>3. PICK n \in Nat : n = Len(moves) /\ n > 0
  <2> HIDE DEF moves
  <2> QED  BY <1>2
<1>4. PICK after : BestRun(call, Search[d], after)
  <2>1. Search[d] \in [Calls -> Int]  BY SearchFacts
  <2> QED  BY <2>1, BestRuns
<1>5. /\ BestOf(call, Search[d]) = after[n].best
      /\ after[0] = Unpruned(Worst(call), call.alpha, call.beta)
      /\ \A k \in 1 .. n : after[k] = TryMove(call, after[k - 1], moves[k], Search[d])
  BY <1>3, <1>4 DEF BestRun
<1> HIDE DEF node
<1>6. /\ \A k : SeenOf(d, node, k) \in SUBSET Scores
      /\ SeenOf(d, node, 0) = {}
      /\ \A k \in 1 .. n : SeenOf(d, node, k) =
           SeenOf(d, node, k - 1) \cup {PlainSearch[d][Reply(node, moves[k])]}
      /\ SeenOf(d, node, n) = ReplyScores(node, PlainSearch[d])
  BY <1>1, <1>3, SeenFacts
<1> HIDE DEF moves
<1> DEFINE P == {k \in 0 .. n : Looking(call.isMaximizing, after[k], SeenOf(d, node, k),
                                        call.alpha, call.beta)}
<1>7. 0 \in P
  <2>1. PICK t : t = Unpruned(Worst(call), call.alpha, call.beta)  OBVIOUS
  <2>2. /\ t.best = Worst(call) /\ t.alpha = call.alpha /\ t.beta = call.beta /\ ~t.cut
        /\ Worst(call) \in Int
        /\ t \in Windows
    <3>1. Worst(call) \in Int  BY LimitFacts DEF Worst
    <3> QED  BY <1>1, <2>1, <3>1 DEF Unpruned, Windows
  <2>3. Looking(call.isMaximizing, t, {}, call.alpha, call.beta)
    <3>1. CASE call.isMaximizing
      <4>1. Worst(call) <= call.alpha /\ call.alpha < call.beta
        BY <1>1, <3>1, LimitFacts DEF Worst, Window
      <4> QED  BY <1>1, <2>2, <3>1, <4>1 DEF Looking, Maximizing
    <3>2. CASE ~call.isMaximizing
      <4>1. Worst(call) >= call.beta /\ call.alpha < call.beta
        BY <1>1, <3>2, LimitFacts DEF Worst, Window
      <4> QED  BY <1>1, <2>2, <3>2, <4>1 DEF Looking, Minimizing
    <3> QED  BY <1>1, <3>1, <3>2
  <2>4. after[0] = t /\ SeenOf(d, node, 0) = {}  BY <1>5, <1>6, <2>1
  <2>5. 0 \in 0 .. n  BY <1>3
  <2>6. Looking(call.isMaximizing, after[0], SeenOf(d, node, 0), call.alpha, call.beta)
    BY <2>3, <2>4
  <2> QED  BY <2>5, <2>6
<1>8. ASSUME NEW k \in 0 .. n - 1, k \in P PROVE k + 1 \in P
  <2>1. k + 1 \in 1 .. n /\ k + 1 \in 0 .. n /\ (k + 1) - 1 = k  BY <1>3
  <2>2. Looking(call.isMaximizing, after[k], SeenOf(d, node, k), call.alpha, call.beta)
    BY <1>8
  <2>3. Looking(call.isMaximizing, TryMove(call, after[k], moves[k + 1], Search[d]),
                SeenOf(d, node, k) \cup {PlainSearch[d][Reply(node, moves[k + 1])]},
                call.alpha, call.beta)
    BY <1>6, <2>2, TryKeeps DEF node
  <2>4. after[k + 1] = TryMove(call, after[k], moves[k + 1], Search[d])
    BY <1>5, <2>1
  <2>5. SeenOf(d, node, k + 1) =
          SeenOf(d, node, k) \cup {PlainSearch[d][Reply(node, moves[k + 1])]}
    BY <1>6, <2>1
  <2> QED  BY <2>1, <2>3, <2>4, <2>5
<1>9. n \in P
  <2>1. n \in 0 .. n  BY <1>3
  <2> HIDE DEF P
  <2> QED  BY <1>3, <1>7, <1>8, <2>1, Upward
<1>10. PICK S : S = ReplyScores(node, PlainSearch[d])  OBVIOUS
<1>11. S \in SUBSET Scores /\ S # {}
  <2>1. S \in SUBSET Scores  BY <1>6, <1>10
  <2>2. Replies(node) # {}  BY <1>1, ReplyFacts
  <2> QED  BY <1>10, <2>1, <2>2 DEF ReplyScores
<1>12. Looking(call.isMaximizing, after[n], S, call.alpha, call.beta)  BY <1>6, <1>9, <1>10
<1>13. call.alpha < call.beta  BY DEF Window
<1>14. CASE call.isMaximizing
  <2>1. Maximizing(after[n], S, call.alpha, call.beta)  BY <1>12, <1>14 DEF Looking
  <2>2. Bounding(after[n].best, Extreme(TRUE, S), call.alpha, call.beta)
    BY <1>1, <1>11, <1>13, <2>1, MaximizingEnds
  <2>3. call.isMaximizing = TRUE  BY <1>1, <1>14
  <2> QED  BY <1>5, <1>10, <2>2, <2>3 DEF node
<1>15. CASE ~call.isMaximizing
  <2>1. Minimizing(after[n], S, call.alpha, call.beta)  BY <1>12, <1>15 DEF Looking
  <2>2. Bounding(after[n].best, Extreme(FALSE, S), call.alpha, call.beta)
    BY <1>1, <1>11, <1>13, <2>1, MinimizingEnds
  <2>3. call.isMaximizing = FALSE  BY <1>1, <1>15
  <2> QED  BY <1>5, <1>10, <2>2, <2>3 DEF node
<1> QED  BY <1>1, <1>14, <1>15

\* However far the search looks.
LEMMA AllExact ==
  ASSUME AiTypeOK
  PROVE  \A d \in 0 .. MaxDepth : Exact(d)
<1>0. MaxDepth \in Nat  BY DepthAssumption
<1> DEFINE P == {d \in 0 .. MaxDepth : Exact(d)}
<1>1. \A v \in Int, alpha \in Int, beta \in Int : Bounding(v, v, alpha, beta)
  BY DEF Bounding
<1>2. \A b \in Boards : EvaluateBoard(b) \in Int
  <2> SUFFICES ASSUME NEW b \in Boards PROVE EvaluateBoard(b) \in Int  OBVIOUS
  <2>1. EvaluateBoard(b) \in Scores  BY EvaluateFits DEF Scores
  <2> QED  BY <2>1, ScoresAreInts
<1>3. \A b \in Boards, p \in BOOLEAN, alpha \in Int, beta \in Int :
        /\ Call(b, p, alpha, beta) \in Calls /\ Node(b, p) \in Nodes
        /\ Call(b, p, alpha, beta).board = b /\ Node(b, p).board = b
        /\ Call(b, p, alpha, beta).isMaximizing = p /\ Node(b, p).isMaximizing = p
        /\ Call(b, p, alpha, beta).alpha = alpha /\ Call(b, p, alpha, beta).beta = beta
  BY DEF Call, Calls, Node, Nodes
<1>4. 0 \in P
  <2>1. 0 \in 0 .. MaxDepth  BY <1>0
  <2>2. \A b \in Boards, p \in BOOLEAN, alpha \in Int, beta \in Int :
          Bounding(Search[0][Call(b, p, alpha, beta)], PlainSearch[0][Node(b, p)], alpha, beta)
    <3> SUFFICES ASSUME NEW b \in Boards, NEW p \in BOOLEAN, NEW alpha \in Int, NEW beta \in Int
                 PROVE  Bounding(Search[0][Call(b, p, alpha, beta)],
                                 PlainSearch[0][Node(b, p)], alpha, beta)
      OBVIOUS
    <3>1. Search[0][Call(b, p, alpha, beta)] = EvaluateBoard(b)  BY <1>3, SearchFacts
    <3>2. PlainSearch[0][Node(b, p)] = EvaluateBoard(b)  BY <1>3, PlainSearchFacts
    <3> QED  BY <1>1, <1>2, <3>1, <3>2
  <2>3. Exact(0)  BY <2>2 DEF Exact
  <2> QED  BY <2>1, <2>3
<1>5. ASSUME NEW d \in 0 .. MaxDepth - 1, d \in P PROVE d + 1 \in P
  <2>1. d + 1 \in 1 .. MaxDepth /\ d + 1 \in 0 .. MaxDepth /\ (d + 1) - 1 = d
        /\ d \in 0 .. MaxDepth
    BY <1>0
  <2>2. Exact(d)  BY <1>5
  <2>3. ASSUME NEW b \in Boards, NEW p \in BOOLEAN, NEW alpha \in Int, NEW beta \in Int,
               Window(alpha, beta)
        PROVE  Bounding(Search[d + 1][Call(b, p, alpha, beta)],
                        PlainSearch[d + 1][Node(b, p)], alpha, beta)
    <3>1. PICK call \in Calls : call = Call(b, p, alpha, beta)  BY <1>3
    <3>2. PICK node \in Nodes : node = Node(b, p)  BY <1>3
    <3>3. call.board = b /\ call.isMaximizing = p /\ call.alpha = alpha /\ call.beta = beta
          /\ node.board = b /\ node.isMaximizing = p
      BY <1>3, <3>1, <3>2
    <3>4. Search[d + 1][call] = IF ValidMoves(b) = <<>> THEN EvaluateBoard(b)
                                ELSE BestOf(call, Search[d])
      BY <2>1, <3>3, SearchFacts
    <3>5. PlainSearch[d + 1][node] = IF Vacant(b) = {} THEN EvaluateBoard(b)
                                     ELSE Extreme(p, ReplyScores(node, PlainSearch[d]))
      BY <2>1, <3>3, PlainSearchFacts
    <3>6. ValidMoves(b) = <<>> <=> Vacant(b) = {}  BY MovesFacts
    <3>7. CASE Vacant(b) = {}
      BY <1>1, <1>2, <3>1, <3>2, <3>4, <3>5, <3>6, <3>7
    <3>8. CASE Vacant(b) # {}
      <4>1. Bounding(BestOf(call, Search[d]),
                     Extreme(call.isMaximizing,
                             ReplyScores(Node(call.board, call.isMaximizing), PlainSearch[d])),
                     call.alpha, call.beta)
        BY <2>1, <2>2, <2>3, <3>3, <3>8, BestIsExact
      <4>2. Bounding(BestOf(call, Search[d]), Extreme(p, ReplyScores(node, PlainSearch[d])),
                     alpha, beta)
        BY <3>2, <3>3, <4>1
      <4> QED  BY <3>1, <3>2, <3>4, <3>5, <3>6, <3>8, <4>2
    <3> QED  BY <3>7, <3>8
  <2>4. Exact(d + 1)  BY <2>3 DEF Exact
  <2> QED  BY <2>1, <2>4
<1>6. \A d \in 0 .. MaxDepth : d \in P
  <2> HIDE DEF P
  <2> QED  BY <1>0, <1>4, <1>5, Upward
<1> QED  BY <1>6

LEMMA WideIsExact ==
  ASSUME AiTypeOK, NEW d \in 0 .. MaxDepth, NEW b \in Boards, NEW p \in BOOLEAN
  PROVE  Search[d][Call(b, p, INT_MIN, INT_MAX)] = PlainSearch[d][Node(b, p)]
<1>1. Limit \in Nat /\ INT_MAX = Limit /\ INT_MIN = -Limit - 1  BY LimitFacts
<1>2. Window(INT_MIN, INT_MAX)  BY <1>1 DEF Window
<1>3. PICK v \in Int : v = Search[d][Call(b, p, INT_MIN, INT_MAX)]
  <2>1. Call(b, p, INT_MIN, INT_MAX) \in Calls  BY <1>1 DEF Call, Calls
  <2> QED  BY <2>1, SearchFacts
<1>4. PICK q \in Scores : q = PlainSearch[d][Node(b, p)]
  <2>1. Node(b, p) \in Nodes  BY DEF Node, Nodes
  <2> QED  BY <2>1, PlainSearchFacts
<1>5. Bounding(v, q, INT_MIN, INT_MAX)
  <2>1. Exact(d)  BY AllExact
  <2> QED  BY <1>1, <1>2, <1>3, <1>4, <2>1 DEF Exact
<1>6. q \in Int /\ -Limit <= q /\ q <= Limit  BY ScoresAreInts
<1>7. v = q  BY <1>1, <1>5, <1>6 DEF Bounding
<1> QED  BY <1>3, <1>4, <1>7

LEMMA PlainIsScore ==
  ASSUME AiTypeOK, NEW d \in 0 .. MaxDepth, NEW p \in BOOLEAN
  PROVE  Plain(board, d, p) = PlainSearch[d][Node(board, p)] /\ Plain(board, d, p) \in Scores
<1>1. Plain(board, d, p) = PlainSearch[d][Node(board, p)]  BY DEF Plain, Node
<1>2. board \in Boards  BY DEF AiTypeOK
<1>3. Node(board, p) \in Nodes  BY <1>2 DEF Node, Nodes
<1> QED  BY <1>1, <1>3, PlainSearchFacts

LEMMA PruningHolds == AiTypeOK => PruningIsExact
<1> SUFFICES ASSUME AiTypeOK, NEW depth \in 0 .. MaxDepth, NEW p \in BOOLEAN,
                    NEW alpha \in Bounds, NEW beta \in Bounds, alpha < beta
             PROVE  LET value == MiniMax(board, depth, p, alpha, beta)
                        plain == Plain(board, depth, p)
                    IN  /\ alpha < value /\ value < beta => value = plain
                        /\ value <= alpha => plain <= value
                        /\ value >= beta  => plain >= value
                        /\ alpha = INT_MIN /\ beta = INT_MAX => value = plain
  BY DEF PruningIsExact
<1>1. Limit \in Nat /\ INT_MAX = Limit /\ INT_MIN = -Limit - 1  BY LimitFacts
<1>2. \A x \in Bounds : x \in Int /\ INT_MIN <= x /\ x <= INT_MAX
  <2> SUFFICES ASSUME NEW x \in Bounds PROVE x \in Int /\ INT_MIN <= x /\ x <= INT_MAX
    OBVIOUS
  <2>1. CASE x \in {INT_MIN, INT_MAX}  BY <1>1, <2>1
  <2>2. CASE x \in {Plain(board, d, r) : d \in 0 .. MaxDepth, r \in BOOLEAN}
    <3>1. x \in Scores  BY <2>2, PlainIsScore
    <3> QED  BY <1>1, <3>1, ScoresAreInts
  <2> QED  BY <2>1, <2>2 DEF Bounds
<1>3. Window(alpha, beta) /\ alpha \in Int /\ beta \in Int  BY <1>2 DEF Window
<1>4. board \in Boards  BY DEF AiTypeOK
<1>5. PICK v : v = MiniMax(board, depth, p, alpha, beta)  OBVIOUS
<1>6. PICK q : q = Plain(board, depth, p)  OBVIOUS
<1>7. v = Search[depth][Call(board, p, alpha, beta)]  BY <1>5 DEF MiniMax
<1>8. q = PlainSearch[depth][Node(board, p)]  BY <1>6, PlainIsScore
<1>9. Bounding(v, q, alpha, beta)
  <2>1. Exact(depth)  BY AllExact
  <2> QED  BY <1>3, <1>4, <1>7, <1>8, <2>1 DEF Exact
<1>10. alpha = INT_MIN /\ beta = INT_MAX => v = q  BY <1>4, <1>7, <1>8, WideIsExact
<1> QED  BY <1>5, <1>6, <1>9, <1>10 DEF Bounding

-----------------------------------------------------------------------------
LEMMA AiTypes == AiSpec => []AiTypeOK
<1>1. AiInit => AiTypeOK
  BY DEF AiInit, AiTypeOK, Boards
<1>2. ASSUME AiTypeOK, [AiNext]_aiVars PROVE AiTypeOK'
  <2>1. ASSUME NEW c, PlaceStone(c) PROVE AiTypeOK'
    <3>0. board \in Boards /\ toMove \in {"BLACK", "WHITE"}  BY <1>2 DEF AiTypeOK
    <3>1. With(board, c, toMove) \in Boards  BY <3>0, WithFacts
    <3>2. Opponent(toMove) \in {"BLACK", "WHITE"}  BY OpponentFacts
    <3>3. /\ board' = With(board, c, toMove) /\ toMove' = Opponent(toMove)
          /\ boardSize' = boardSize /\ worth' = worth /\ aiColor' = aiColor
      BY <2>1 DEF PlaceStone
    <3>4. Boards' = Boards  BY <3>3 DEF Boards
    <3> QED  BY <1>2, <3>1, <3>2, <3>3, <3>4 DEF AiTypeOK
  <2>2. CASE UNCHANGED aiVars
    <3>1. Boards' = Boards  BY <2>2 DEF aiVars, Boards
    <3> QED  BY <1>2, <2>2, <3>1 DEF aiVars, AiTypeOK
  <2> QED  BY <1>2, <2>1, <2>2 DEF AiNext, HumanMoves, AiMoves
<1> QED  BY <1>1, <1>2, PTL DEF AiSpec

\* At every turn pruning loses nothing that its window lets through: minimax
\* and plain minimax agree for every depth, whoever moves (game/AiPlayer.cpp:78).
THEOREM PruningIsExactCorrect == AiSpec => []PruningIsExact
BY AiTypes, PruningHolds, PTL

\* A stone adds its worth to the score.
LEMMA StoneAdds ==
  ASSUME AiTypeOK, NEW b \in Boards, NEW c \in Vacant(b), NEW color \in {"BLACK", "WHITE"}
  PROVE  EvaluateBoard(With(b, c, color)) =
           EvaluateBoard(b) + StoneScore(With(b, c, color), c)
<1>0. Area \in Nat  BY SizeFacts
<1>1. PICK more \in Boards : more = With(b, c, color)  BY WithFacts
<1>2. PICK one : ScoreRun(b, one)  BY ScoreRuns
<1>3. PICK two : ScoreRun(more, two)  BY ScoreRuns
<1>4. /\ EvaluateBoard(b) = one[Area] /\ one[0] = 0
      /\ \A k \in 1 .. Area : one[k] = one[k - 1] + StoneScore(b, Scan[k])
      /\ \A k \in 0 .. Area : one[k] \in Int
  BY <1>2 DEF ScoreRun
<1>5. /\ EvaluateBoard(more) = two[Area] /\ two[0] = 0
      /\ \A k \in 1 .. Area : two[k] = two[k - 1] + StoneScore(more, Scan[k])
      /\ \A k \in 0 .. Area : two[k] \in Int
  BY <1>3 DEF ScoreRun
<1>6. c \in Squares(boardSize) /\ b[c] = "EMPTY"  BY DEF Vacant
<1>7. PICK p \in 1 .. Area : p = Position(c) /\ Scan[p] = c  BY <1>6, ScanFacts
<1>8. PICK s \in Int : s = StoneScore(more, c)  BY <1>6, StoneScoreFacts
<1>9. ASSUME NEW k \in 1 .. Area
      PROVE  /\ StoneScore(b, Scan[k]) \in Int
             /\ StoneScore(more, Scan[k]) = IF k = p THEN s ELSE StoneScore(b, Scan[k])
             /\ (k = p => StoneScore(b, Scan[k]) = 0)
  <2>1. Scan[k] \in Squares(boardSize) /\ Position(Scan[k]) = k  BY ScanFacts
  <2>2. StoneScore(b, Scan[k]) \in Int
    <3>1. PICK sq \in Squares(boardSize) : sq = Scan[k]  BY <2>1
    <3>2. StoneScore(b, sq) \in Int  BY StoneScoreFacts
    <3> QED  BY <3>1, <3>2
  <2>3. CASE k = p
    <3>1. StoneScore(b, c) = 0  BY <1>6, StoneScoreFacts
    <3> QED  BY <1>7, <1>8, <2>2, <2>3, <3>1
  <2>4. CASE k # p
    <3>1. Scan[k] # c  BY <1>7, <2>1, <2>4
    <3>2. more[Scan[k]] = b[Scan[k]]  BY <1>1, <2>1, <3>1, WithFacts
    <3>3. StoneScore(more, Scan[k]) = StoneScore(b, Scan[k])  BY <3>2 DEF StoneScore
    <3> QED  BY <2>2, <2>4, <3>3
  <2> QED  BY <2>3, <2>4
<1> DEFINE P == {k \in 0 .. Area : two[k] = one[k] + (IF p <= k THEN s ELSE 0)}
<1>10. 0 \in P  BY <1>0, <1>4, <1>5
<1>11. ASSUME NEW k \in 0 .. Area - 1, k \in P PROVE k + 1 \in P
  <2>1. k + 1 \in 1 .. Area /\ k + 1 \in 0 .. Area /\ (k + 1) - 1 = k /\ k \in 0 .. Area
    BY <1>0
  <2>0. PICK j \in 1 .. Area : j = k + 1  BY <2>1
  <2>2. PICK x \in Int : x = StoneScore(b, Scan[j])  BY <1>9
  <2>3. PICK y \in Int : y = one[k]  BY <1>4, <2>1
  <2>4. one[j] = y + x  BY <1>4, <2>0, <2>1, <2>2, <2>3
  <2>5. two[k] = y + (IF p <= k THEN s ELSE 0)  BY <1>11, <2>3
  <2>6. two[j] = two[k] + (IF j = p THEN s ELSE x)
    <3>1. two[j] = two[k] + StoneScore(more, Scan[j])  BY <1>5, <2>0, <2>1
    <3>2. StoneScore(more, Scan[j]) = IF j = p THEN s ELSE x  BY <1>9, <2>2
    <3> QED  BY <3>1, <3>2
  <2>7. j = p => x = 0  BY <1>9, <2>2
  <2>8. two[k + 1] = one[k + 1] + (IF p <= k + 1 THEN s ELSE 0)
    <3>1. CASE k + 1 = p
      <4>1. ~(p <= k) /\ p <= k + 1  BY <2>1, <3>1
      <4> QED  BY <2>0, <2>4, <2>5, <2>6, <2>7, <3>1, <4>1
    <3>2. CASE k + 1 # p
      <4>1. p <= k <=> p <= k + 1  BY <2>1, <3>2
      <4> QED  BY <2>0, <2>4, <2>5, <2>6, <3>2, <4>1
    <3> QED  BY <3>1, <3>2
  <2> QED  BY <2>1, <2>8
<1>12. Area \in P
  <2>1. Area \in 0 .. Area  BY <1>0
  <2> HIDE DEF P
  <2> QED  BY <1>0, <1>10, <1>11, <2>1, Upward
<1>13. two[Area] = one[Area] + s  BY <1>12, <1>7
<1> QED  BY <1>1, <1>4, <1>5, <1>8, <1>13

EqualWorth == \A c, d \in Squares(boardSize) : worth[c] = worth[d]

\* Boards that cannot be told apart by their score and their stones.
Alike(b1, b2) ==
  /\ b1 \in Boards /\ b2 \in Boards
  /\ EvaluateBoard(b1) = EvaluateBoard(b2)
  /\ Cardinality(Vacant(b1)) = Cardinality(Vacant(b2))

LEMMA VacantIsFinite ==
  ASSUME AiTypeOK, NEW b
  PROVE  IsFiniteSet(Vacant(b)) /\ Cardinality(Vacant(b)) \in Nat
<1>1. IsFiniteSet(0 .. boardSize - 1)
  <2>1. 0 \in Int /\ boardSize - 1 \in Int  BY SizeFacts
  <2> QED  BY <2>1, FS_Interval
<1>2. IsFiniteSet(Squares(boardSize))  BY <1>1, FS_Product DEF Squares
<1>3. Vacant(b) \in SUBSET Squares(boardSize)  BY DEF Vacant
<1> QED  BY <1>2, <1>3, FS_Subset, FS_CardinalityType

LEMMA AlikeAfter ==
  ASSUME AiTypeOK, EqualWorth, NEW b1, NEW b2, Alike(b1, b2),
         NEW c1 \in Vacant(b1), NEW c2 \in Vacant(b2), NEW color \in {"BLACK", "WHITE"}
  PROVE  Alike(With(b1, c1, color), With(b2, c2, color))
<1>1. /\ b1 \in Boards /\ b2 \in Boards
      /\ EvaluateBoard(b1) = EvaluateBoard(b2)
      /\ Cardinality(Vacant(b1)) = Cardinality(Vacant(b2))
      /\ c1 \in Squares(boardSize) /\ c2 \in Squares(boardSize)
  BY DEF Alike, Vacant
<1>2a. PICK m1 : m1 = With(b1, c1, color)  OBVIOUS
<1>2. m1 \in Boards /\ m1[c1] = color /\ Vacant(m1) = Vacant(b1) \ {c1}
  <2>1. m1 \in Boards  BY <1>1, <1>2a, WithFacts
  <2>2. Vacant(m1) = Vacant(b1) \ {c1}  BY <1>1, <1>2a, WithFacts
  <2>3. m1[c1] = color  BY <1>1, <1>2a DEF With, Boards
  <2> QED  BY <2>1, <2>2, <2>3
<1>3a. PICK m2 : m2 = With(b2, c2, color)  OBVIOUS
<1>3. m2 \in Boards /\ m2[c2] = color /\ Vacant(m2) = Vacant(b2) \ {c2}
  <2>1. m2 \in Boards  BY <1>1, <1>3a, WithFacts
  <2>2. Vacant(m2) = Vacant(b2) \ {c2}  BY <1>1, <1>3a, WithFacts
  <2>3. m2[c2] = color  BY <1>1, <1>3a DEF With, Boards
  <2> QED  BY <2>1, <2>2, <2>3
<1>4. StoneScore(m1, c1) = StoneScore(m2, c2)
  BY <1>1, <1>2, <1>3 DEF StoneScore, EqualWorth
<1>5. EvaluateBoard(m1) = EvaluateBoard(m2)
  <2>1. EvaluateBoard(m1) = EvaluateBoard(b1) + StoneScore(m1, c1)  BY <1>1, <1>2, <1>2a, StoneAdds
  <2>2. EvaluateBoard(m2) = EvaluateBoard(b2) + StoneScore(m2, c2)  BY <1>1, <1>3, <1>3a, StoneAdds
  <2> QED  BY <1>1, <1>4, <2>1, <2>2
<1>6. Cardinality(Vacant(m1)) = Cardinality(Vacant(m2))
  <2>1. Cardinality(Vacant(b1) \ {c1}) = Cardinality(Vacant(b1)) - 1
    BY VacantIsFinite, FS_RemoveElement
  <2>2. Cardinality(Vacant(b2) \ {c2}) = Cardinality(Vacant(b2)) - 1
    BY VacantIsFinite, FS_RemoveElement
  <2> QED  BY <1>1, <1>2, <1>3, <2>1, <2>2
<1> QED  BY <1>2, <1>2a, <1>3, <1>3a, <1>5, <1>6 DEF Alike

LEMMA NodeFacts ==
  ASSUME NEW b \in Boards, NEW p \in BOOLEAN
  PROVE  \E node \in Nodes : node = Node(b, p) /\ node.board = b /\ node.isMaximizing = p
<1>1. PICK node : node = Node(b, p)  OBVIOUS
<1>2. node = [board |-> b, isMaximizing |-> p]  BY <1>1 DEF Node
<1>3. node \in Nodes /\ node.board = b /\ node.isMaximizing = p  BY <1>2 DEF Nodes
<1> QED  BY <1>1, <1>3

AlikeTo(d) ==
  \A b1, b2, p : Alike(b1, b2) /\ p \in BOOLEAN =>
                   PlainSearch[d][Node(b1, p)] = PlainSearch[d][Node(b2, p)]

LEMMA NextAlike ==
  ASSUME AiTypeOK, EqualWorth, NEW d \in 0 .. MaxDepth, d + 1 \in 0 .. MaxDepth, AlikeTo(d)
  PROVE  AlikeTo(d + 1)
<1> SUFFICES ASSUME NEW b1, NEW b2, NEW p \in BOOLEAN, Alike(b1, b2)
             PROVE  PlainSearch[d + 1][Node(b1, p)] = PlainSearch[d + 1][Node(b2, p)]
  BY DEF AlikeTo
<1>0. d + 1 \in 1 .. MaxDepth /\ (d + 1) - 1 = d  BY DepthAssumption
<1>1. b1 \in Boards /\ b2 \in Boards /\ EvaluateBoard(b1) = EvaluateBoard(b2)  BY DEF Alike
<1>2. PICK n1 \in Nodes : n1 = Node(b1, p) /\ n1.board = b1 /\ n1.isMaximizing = p
  BY <1>1, NodeFacts
<1>3. PICK n2 \in Nodes : n2 = Node(b2, p) /\ n2.board = b2 /\ n2.isMaximizing = p
  BY <1>1, NodeFacts
<1>4. PlainSearch[d + 1][n1] = IF Vacant(b1) = {} THEN EvaluateBoard(b1)
                               ELSE Extreme(p, ReplyScores(n1, PlainSearch[d]))
  BY <1>0, <1>2, PlainSearchFacts
<1>5. PlainSearch[d + 1][n2] = IF Vacant(b2) = {} THEN EvaluateBoard(b2)
                               ELSE Extreme(p, ReplyScores(n2, PlainSearch[d]))
  BY <1>0, <1>3, PlainSearchFacts
<1>6. Vacant(b1) = {} <=> Vacant(b2) = {}
  <2>1. Cardinality(Vacant(b1)) = 0 <=> Vacant(b1) = {}  BY VacantIsFinite, FS_EmptySet
  <2>2. Cardinality(Vacant(b2)) = 0 <=> Vacant(b2) = {}  BY VacantIsFinite, FS_EmptySet
  <2> QED  BY <2>1, <2>2 DEF Alike
<1>7. CASE Vacant(b1) = {}  BY <1>1, <1>2, <1>3, <1>4, <1>5, <1>6, <1>7
<1>8. CASE Vacant(b1) # {}
  <2> DEFINE Score1(c) == PlainSearch[d][Reply(n1, c)]
             Score2(c) == PlainSearch[d][Reply(n2, c)]
  <2>1. \A c1 \in Vacant(b1), c2 \in Vacant(b2) : Score1(c1) = Score2(c2)
    <3> SUFFICES ASSUME NEW c1 \in Vacant(b1), NEW c2 \in Vacant(b2)
                 PROVE  Score1(c1) = Score2(c2)
      OBVIOUS
    <3>1. Alike(With(b1, c1, Mover(p)), With(b2, c2, Mover(p)))
      <4>1. Mover(p) \in {"BLACK", "WHITE"}  BY OpponentFacts
      <4> QED  BY <4>1, AlikeAfter
    <3>2. PICK other \in BOOLEAN : other = ~p  OBVIOUS
    <3>3. Reply(n1, c1) = Node(With(b1, c1, Mover(p)), other)  BY <1>2, <3>2 DEF Reply, Node
    <3>4. Reply(n2, c2) = Node(With(b2, c2, Mover(p)), other)  BY <1>3, <3>2 DEF Reply, Node
    <3> QED  BY <3>1, <3>3, <3>4 DEF AlikeTo
  <2>2. ReplyScores(n1, PlainSearch[d]) = {Score1(c) : c \in Vacant(b1)}
    BY <1>2, ReplyFacts DEF ReplyScores
  <2>3. ReplyScores(n2, PlainSearch[d]) = {Score2(c) : c \in Vacant(b2)}
    BY <1>3, ReplyFacts DEF ReplyScores
  <2> HIDE DEF Score1, Score2
  <2>4. PICK c1 \in Vacant(b1), c2 \in Vacant(b2) : TRUE  BY <1>6, <1>8
  <2>5. {Score1(c) : c \in Vacant(b1)} = {Score1(c1)}  BY <2>1, <2>4
  <2>6. {Score2(c) : c \in Vacant(b2)} = {Score2(c2)}  BY <2>1, <2>4
  <2>7. ReplyScores(n1, PlainSearch[d]) = ReplyScores(n2, PlainSearch[d])
    BY <2>1, <2>2, <2>3, <2>5, <2>6
  <2> QED  BY <1>2, <1>3, <1>4, <1>5, <1>6, <1>8, <2>7
<1> QED  BY <1>7, <1>8

\* With stones of equal worth the board after the next moves comes to the same,
\* whichever they are.
LEMMA AlikeBoards ==
  ASSUME AiTypeOK, EqualWorth
  PROVE  \A d \in 0 .. MaxDepth : AlikeTo(d)
<1>0. MaxDepth \in Nat  BY DepthAssumption
<1> DEFINE P == {d \in 0 .. MaxDepth : AlikeTo(d)}
<1>1. 0 \in P
  <2>1. ASSUME NEW b1, NEW b2, NEW p \in BOOLEAN, Alike(b1, b2)
        PROVE  PlainSearch[0][Node(b1, p)] = PlainSearch[0][Node(b2, p)]
    <3>1. b1 \in Boards /\ b2 \in Boards /\ EvaluateBoard(b1) = EvaluateBoard(b2)
      BY <2>1 DEF Alike
    <3>2. Node(b1, p) \in Nodes /\ Node(b1, p).board = b1  BY <3>1 DEF Node, Nodes
    <3>3. Node(b2, p) \in Nodes /\ Node(b2, p).board = b2  BY <3>1 DEF Node, Nodes
    <3> QED  BY <3>1, <3>2, <3>3, PlainSearchFacts
  <2>2. AlikeTo(0)  BY <2>1 DEF AlikeTo
  <2> QED  BY <1>0, <2>2
<1>2. ASSUME NEW d \in 0 .. MaxDepth - 1, d \in P PROVE d + 1 \in P
  <2>1. d \in 0 .. MaxDepth /\ d + 1 \in 0 .. MaxDepth  BY <1>0
  <2>2. AlikeTo(d)  BY <1>2
  <2>3. AlikeTo(d + 1)  BY <2>1, <2>2, NextAlike
  <2> QED  BY <2>1, <2>3
<1>3. \A d \in 0 .. MaxDepth : d \in P
  <2> HIDE DEF P
  <2> QED  BY <1>0, <1>1, <1>2, Upward
<1> QED  BY <1>3

\* How good getNextMove finds a move.
ScoreOf(b, m) == MiniMax(With(b, m, aiColor), 2, FALSE, INT_MIN, INT_MAX)

BetterOf(b, t, m) ==
  IF ScoreOf(b, m) > t.score THEN [score |-> ScoreOf(b, m), move |-> m] ELSE t

\* What the loop of getNextMove goes through.
ChosenRun(b, chosen) ==
  LET moves == ValidMoves(b)
  IN  /\ chosen[0] = [score |-> INT_MIN, move |-> moves[1]]
      /\ \A k \in 1 .. Len(moves) : chosen[k] = BetterOf(b, chosen[k - 1], moves[k])
      /\ \A k \in 0 .. Len(moves) : chosen[k] \in [score : Int, move : Vacant(b)]

LEMMA ScoreOfIs ==
  ASSUME AiTypeOK, NEW b \in Boards, NEW m
  PROVE  /\ ScoreOf(b, m) \in Int
         /\ ScoreOf(b, m) = PlainSearch[2][Node(With(b, m, aiColor), FALSE)]
         /\ INT_MIN < ScoreOf(b, m)
<1>1. aiColor \in {"BLACK", "WHITE"}  BY DEF AiTypeOK
<1>2. PICK next : next = With(b, m, aiColor)  OBVIOUS
<1>3. next \in Boards  BY <1>1, <1>2, WithFacts
<1>4. 2 \in 0 .. MaxDepth  BY DepthAssumption
<1>5. ScoreOf(b, m) = Search[2][Call(next, FALSE, INT_MIN, INT_MAX)]
  BY <1>2 DEF ScoreOf, MiniMax
<1>6. ScoreOf(b, m) = PlainSearch[2][Node(next, FALSE)]
  BY <1>3, <1>4, <1>5, WideIsExact
<1>7. PlainSearch[2][Node(next, FALSE)] \in Scores
  <2>1. PICK node \in Nodes : node = Node(next, FALSE)  BY <1>3, NodeFacts
  <2> QED  BY <1>4, <2>1, PlainSearchFacts
<1>8. PICK v \in Scores : v = ScoreOf(b, m)  BY <1>6, <1>7
<1>9. v \in Int /\ INT_MIN < v  BY LimitFacts, ScoresAreInts
<1> QED  BY <1>2, <1>6, <1>8, <1>9

LEMMA ChosenRuns ==
  ASSUME AiTypeOK, NEW b \in Boards, Vacant(b) # {}, Vacant(b) # Squares(boardSize)
  PROVE  \E chosen : ChosenRun(b, chosen) /\ GetNextMove(b) = chosen[Len(ValidMoves(b))].move
<1> DEFINE moves == ValidMoves(b)
           N == Len(moves)
           V == [score : Int, move : Vacant(b)]
           first == [score |-> INT_MIN, move |-> moves[1]]
           OnePass(k, t) == BetterOf(b, t, moves[k])
<1>0. moves \in Seq(Vacant(b)) /\ moves # <<>>  BY MovesFacts
<1>1. N \in Nat /\ N > 0 /\ \A k \in 1 .. N : moves[k] \in Vacant(b)
  <2> HIDE DEF moves
  <2> QED  BY <1>0
<1>1a. first \in V
  <2>1. moves[1] \in Vacant(b)  BY <1>1
  <2> HIDE DEF moves
  <2> QED  BY <2>1, LimitFacts
<1>2. PICK G : G = [k \in 1 .. N |-> [t \in V |-> OnePass(k, t)]]  OBVIOUS
<1>2a. \A k \in 1 .. N, t \in V : OnePass(k, t) \in V
  <2> SUFFICES ASSUME NEW k \in 1 .. N, NEW t \in V PROVE OnePass(k, t) \in V  OBVIOUS
  <2>1. PICK m \in Vacant(b) : m = moves[k]  BY <1>1
  <2>2. PICK v \in Int : v = ScoreOf(b, m)  BY ScoreOfIs
  <2>3. [score |-> v, move |-> m] \in V  OBVIOUS
  <2>4. OnePass(k, t) = IF v > t.score THEN [score |-> v, move |-> m] ELSE t
    BY <2>1, <2>2 DEF BetterOf
  <2> HIDE DEF OnePass, V
  <2> QED  BY <2>3, <2>4
<1>3. G \in Passes(N, V)
  <2> HIDE DEF OnePass, N, V
  <2> QED  BY <1>2, <1>2a DEF Passes
<1>5. PICK f : IsRun(f, N, V, first, G)
  <2> HIDE DEF N, first, V
  <2> QED  BY <1>1, <1>1a, <1>3, LoopEnds
<1>6. /\ f \in [0 .. N -> V] /\ f[0] = first
      /\ \A k \in 1 .. N : f[k] = G[k][f[k - 1]]
  BY <1>5 DEF IsRun
<1>7. \A k \in 1 .. N : f[k] = OnePass(k, f[k - 1])
  <2> HIDE DEF OnePass, N, V, first
  <2> SUFFICES ASSUME NEW k \in 1 .. N PROVE f[k] = OnePass(k, f[k - 1])  OBVIOUS
  <2>1. f[k - 1] \in V  BY <1>1, <1>6
  <2> QED  BY <1>2, <1>6, <2>1
<1> DEFINE IsChosen(g) == g = [k \in 0 .. Len(ValidMoves(b)) |->
             IF k = 0 THEN [score |-> INT_MIN, move |-> ValidMoves(b)[1]]
             ELSE IF MiniMax(With(b, ValidMoves(b)[k], aiColor), 2, FALSE, INT_MIN, INT_MAX)
                       > g[k - 1].score
                  THEN [score |-> MiniMax(With(b, ValidMoves(b)[k], aiColor), 2, FALSE,
                                          INT_MIN, INT_MAX),
                        move |-> ValidMoves(b)[k]]
             ELSE g[k - 1]]
<1>8. IsChosen(f)
  <2>3. f = [k \in 0 .. N |-> IF k = 0 THEN first ELSE OnePass(k, f[k - 1])]
    <3> HIDE DEF OnePass, N, V, first
    <3>1. \A k \in 0 .. N : k # 0 => k \in 1 .. N  BY <1>1
    <3>2. \A k \in 0 .. N : f[k] = IF k = 0 THEN first ELSE OnePass(k, f[k - 1])
      BY <1>6, <1>7, <3>1
    <3> QED  BY <1>6, <3>2
  <2> QED  BY <2>3 DEF BetterOf, ScoreOf
<1>9. PICK g : IsChosen(g) /\ GetNextMove(b) = g[N].move
  <2>1. \E g : IsChosen(g)  BY <1>8
  <2>2. IsChosen(CHOOSE g : IsChosen(g))
    <3> HIDE DEF IsChosen
    <3> QED  BY <2>1, Zenon
  <2>3. GetNextMove(b) =
          IF Vacant(b) = Squares(boardSize) THEN <<boardSize \div 2, boardSize \div 2>>
          ELSE IF ValidMoves(b) = <<>> THEN NoCell
          ELSE (CHOOSE g : IsChosen(g))[Len(ValidMoves(b))].move
    BY Zenon DEF GetNextMove
  <2> HIDE DEF IsChosen
  <2>4. GetNextMove(b) = (CHOOSE g : IsChosen(g))[N].move  BY <1>0, <2>3
  <2> QED  BY <2>2, <2>4, Zenon
<1>12. g[0] = first /\ \A k \in 1 .. N : g[k] = OnePass(k, g[k - 1])
  <2>2. g = [k \in 0 .. N |-> IF k = 0 THEN first ELSE OnePass(k, g[k - 1])]
    BY <1>9 DEF BetterOf, ScoreOf
  <2> HIDE DEF OnePass, IsChosen, N, first
  <2>1. 0 \in 0 .. N /\ \A k \in 1 .. N : k \in 0 .. N /\ k # 0  BY <1>1
  <2> QED  BY <2>1, <2>2
<1>13. \A k \in 0 .. N : g[k] \in V
  <2> HIDE DEF OnePass, IsChosen, N, first, V
  <2>1. \A k \in 1 .. N : g[k - 1] \in V => g[k] \in V  BY <1>2a, <1>12
  <2>2. g[0] \in V  BY <1>1a, <1>12
  <2> QED  BY <1>1, <2>1, <2>2, Stays
<1>14. ChosenRun(b, g)
  <2> HIDE DEF IsChosen
  <2> QED  BY <1>12, <1>13 DEF ChosenRun
<1> QED  BY <1>9, <1>14

\* Where getNextMove looks for a move, it chooses an empty square.
LEMMA ChosenIsVacant ==
  ASSUME AiTypeOK, NEW b \in Boards, Vacant(b) # {}
  PROVE  GetNextMove(b) \in Vacant(b)
<1>1. CASE Vacant(b) = Squares(boardSize)
  <2>1. GetNextMove(b) = <<boardSize \div 2, boardSize \div 2>>  BY <1>1 DEF GetNextMove
  <2>2. PICK n \in Nat : n = boardSize /\ n > 0  BY SizeFacts
  <2>3. n \div 2 \in 0 .. n - 1  BY <2>2
  <2> QED  BY <1>1, <2>1, <2>2, <2>3 DEF Squares
<1>2. CASE Vacant(b) # Squares(boardSize)
  <2>1. PICK chosen : ChosenRun(b, chosen) /\ GetNextMove(b) = chosen[Len(ValidMoves(b))].move
    BY <1>2, ChosenRuns
  <2>2. Len(ValidMoves(b)) \in Nat
    <3>1. ValidMoves(b) \in Seq(Vacant(b))  BY MovesFacts
    <3> QED  BY <3>1
  <2>3. chosen[Len(ValidMoves(b))] \in [score : Int, move : Vacant(b)]
    BY <2>1, <2>2 DEF ChosenRun
  <2> QED  BY <2>1, <2>3
<1> QED  BY <1>1, <1>2

\* With stones of equal worth it is the first of the scan.
LEMMA ChosenIsFirst ==
  ASSUME AiTypeOK, EqualWorth,
         NEW b \in Boards, Vacant(b) # {}, Vacant(b) # Squares(boardSize)
  PROVE  GetNextMove(b) = ValidMoves(b)[1]
<1>1. PICK moves : moves = ValidMoves(b)  OBVIOUS
<1>2. PICK chosen : ChosenRun(b, chosen) /\ GetNextMove(b) = chosen[Len(moves)].move
  BY <1>1, ChosenRuns
<1>3. /\ chosen[0] = [score |-> INT_MIN, move |-> moves[1]]
      /\ \A k \in 1 .. Len(moves) : chosen[k] = BetterOf(b, chosen[k - 1], moves[k])
  BY <1>1, <1>2 DEF ChosenRun
<1>4. moves \in Seq(Vacant(b)) /\ moves # <<>>  BY <1>1, MovesFacts
<1>5. PICK n \in Nat : n = Len(moves) /\ n > 0 /\ \A k \in 1 .. n : moves[k] \in Vacant(b)
  BY <1>4
<1>6. \A m1, m2 \in Vacant(b) : ScoreOf(b, m1) = ScoreOf(b, m2)
  <2> SUFFICES ASSUME NEW m1 \in Vacant(b), NEW m2 \in Vacant(b)
               PROVE  ScoreOf(b, m1) = ScoreOf(b, m2)
    OBVIOUS
  <2>1. Alike(b, b)  BY DEF Alike
  <2>2. aiColor \in {"BLACK", "WHITE"}  BY DEF AiTypeOK
  <2>3. Alike(With(b, m1, aiColor), With(b, m2, aiColor))  BY <2>1, <2>2, AlikeAfter
  <2>4. AlikeTo(2)
    <3>1. 2 \in 0 .. MaxDepth  BY DepthAssumption
    <3> QED  BY <3>1, AlikeBoards
  <2>5. FALSE \in BOOLEAN  OBVIOUS
  <2>6. PlainSearch[2][Node(With(b, m1, aiColor), FALSE)]
          = PlainSearch[2][Node(With(b, m2, aiColor), FALSE)]
    BY <2>3, <2>4, <2>5 DEF AlikeTo
  <2> QED  BY <2>6, ScoreOfIs
<1>7. PICK v \in Int : v = ScoreOf(b, moves[1]) /\ INT_MIN < v
  BY ScoreOfIs
<1>8. \A k \in 1 .. n : ScoreOf(b, moves[k]) = v
  <2>1. 1 \in 1 .. n  BY <1>5
  <2> QED  BY <1>5, <1>6, <1>7, <2>1
<1>9. chosen[1] = [score |-> v, move |-> moves[1]]
  <2>1. 1 \in 1 .. n /\ 1 - 1 = 0  BY <1>5
  <2>2. chosen[1] = BetterOf(b, chosen[0], moves[1])  BY <1>3, <1>5, <2>1
  <2> QED  BY <1>3, <1>7, <2>2 DEF BetterOf
<1> DEFINE P == {k \in 0 .. n - 1 : chosen[k + 1] = [score |-> v, move |-> moves[1]]}
<1>10. 0 \in P  BY <1>5, <1>9
<1>11. ASSUME NEW k \in 0 .. (n - 1) - 1, k \in P PROVE k + 1 \in P
  <2>1. PICK j \in 1 .. n : j = (k + 1) + 1 /\ j - 1 = k + 1 /\ k + 1 \in 0 .. n - 1
    BY <1>5
  <2>2. chosen[j - 1] = [score |-> v, move |-> moves[1]]  BY <1>11, <2>1
  <2>3. chosen[j] = BetterOf(b, chosen[j - 1], moves[j])  BY <1>3, <1>5
  <2>4. ScoreOf(b, moves[j]) = v /\ ~(v > v)  BY <1>8
  <2>5. chosen[j] = chosen[j - 1]  BY <2>2, <2>3, <2>4 DEF BetterOf
  <2> QED  BY <2>1, <2>2, <2>5
<1>12. n - 1 \in P
  <2>1. n - 1 \in Nat /\ n - 1 \in 0 .. n - 1  BY <1>5
  <2> HIDE DEF P
  <2> QED  BY <1>10, <1>11, <2>1, Upward
<1>13. chosen[n].move = moves[1]
  <2>1. (n - 1) + 1 = n  BY <1>5
  <2> QED  BY <1>12, <2>1
<1> QED  BY <1>1, <1>2, <1>5, <1>13

LEMMA FirstEmptyHolds == AiTypeOK => AnswersFirstEmpty
<1> SUFFICES ASSUME AiTypeOK PROVE AnswersFirstEmpty  OBVIOUS
<1>1. board \in Boards  BY DEF AiTypeOK
<1>2. PICK n \in Nat : n = boardSize /\ n > 0  BY SizeFacts
<1>3. PICK move : move = GetNextMove(board)  OBVIOUS
<1>4. ~Full => move \in Vacant(board)  BY <1>1, <1>3, ChosenIsVacant DEF Full
<1>5. ASSUME Full PROVE move = NoCell
  <2>1. Vacant(board) = {}  BY <1>5 DEF Full
  <2>2. Squares(boardSize) # {}
    <3>1. 0 \in 0 .. n - 1  BY <1>2
    <3>2. <<0, 0>> \in Squares(boardSize)  BY <1>2, <3>1 DEF Squares
    <3> QED  BY <3>2
  <2>3. ValidMoves(board) = <<>>  BY <1>1, <2>1, MovesFacts
  <2> QED  BY <1>3, <2>1, <2>2, <2>3 DEF GetNextMove
<1>6. ASSUME EqualWorth, Vacant(board) # Squares(boardSize), ~Full,
             NEW c \in Squares(boardSize),
             c[1] < move[1] \/ (c[1] = move[1] /\ c[2] < move[2])
      PROVE  board[c] # "EMPTY"
  <2>1. Vacant(board) # {}  BY <1>6 DEF Full
  <2>2. move = ValidMoves(board)[1] /\ ValidMoves(board) # <<>>
    BY <1>1, <1>3, <1>6, <2>1, ChosenIsFirst, MovesFacts
  <2>3. \A e \in Vacant(board) : Position(move) <= Position(e)
    BY <1>1, <2>2, MovesFacts
  <2>4. move \in Squares(boardSize)  BY <1>4, <1>6 DEF Vacant
  <2>5. PICK c1 \in 0 .. n - 1, c2 \in 0 .. n - 1 : c = <<c1, c2>>  BY <1>2 DEF Squares
  <2>6. PICK m1 \in 0 .. n - 1, m2 \in 0 .. n - 1 : move = <<m1, m2>>
    BY <1>2, <2>4 DEF Squares
  <2>7. Position(c) = c1 * n + c2 + 1 /\ Position(move) = m1 * n + m2 + 1
    BY <1>2, <2>5, <2>6 DEF Position
  <2>8. c1 < m1 \/ (c1 = m1 /\ c2 < m2)  BY <1>6, <2>5, <2>6
  <2>9. PICK x \in Int, y \in Int : x = c1 * n /\ y = m1 * n  BY <1>2
  <2>10. ~(y + m2 + 1 <= x + c2 + 1)
    <3>1. CASE c1 < m1
      <4>1. m1 - c1 >= 1  BY <3>1
      <4>2. (m1 - c1) * n >= n  BY <1>2, <4>1
      <4>3. (m1 - c1) * n = y - x  BY <1>2, <2>9
      <4> QED  BY <1>2, <2>9, <4>2, <4>3
    <3>2. CASE c1 = m1 /\ c2 < m2  BY <1>2, <2>9, <3>2
    <3> QED  BY <2>8, <3>1, <3>2
  <2>11. ~(Position(move) <= Position(c))  BY <2>7, <2>9, <2>10
  <2> QED  BY <1>6, <2>3, <2>11 DEF Vacant
<1> QED  BY <1>3, <1>4, <1>5, <1>6 DEF AnswersFirstEmpty, EqualWorth

\* The answer is an empty cell as long as there is one, and with stones of
\* equal worth the first of the scan (game/AiPlayer.cpp:174).
THEOREM AnswersFirstEmptyCorrect == AiSpec => []AnswersFirstEmpty
BY AiTypes, FirstEmptyHolds, PTL

=============================================================================
