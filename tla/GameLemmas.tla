----------------------------- MODULE GameLemmas -----------------------------
(***************************************************************************)
(* What the operators of Game and Room compute, for every board size and   *)
(* every WinLength, any users and any capacity: countLine reaches as far as *)
(* the colour does, checkWin finds exactly the lines of the rule, and each *)
(* operation on a room changes what it says and nothing else.  The proofs  *)
(* about GameSpec, RoomSpec and the handlers share these facts.            *)
(***************************************************************************)
EXTENDS Room, FiniteSetTheorems, SequenceTheorems, WellFoundedInduction,
        TLAPS

-----------------------------------------------------------------------------
(* The rules engine. *)

\* The directions countLine is called with: the four and their opposites.
Rays == Directions \cup {Opposite(d) : d \in Directions}

\* The eight rays, as pairs.
LEMMA RaysAre ==
  Rays = {<<1, 0>>, <<0, 1>>, <<1, 1>>, <<1, -1>>,
          <<-1, 0>>, <<0, -1>>, <<-1, -1>>, <<-1, 1>>}
<1>1. {Opposite(d) : d \in Directions} = {<<-1, 0>>, <<0, -1>>, <<-1, -1>>, <<-1, 1>>}
  <2>1. /\ Opposite(<<1, 0>>) = <<-1, 0>>
        /\ Opposite(<<0, 1>>) = <<0, -1>>
        /\ Opposite(<<1, 1>>) = <<-1, -1>>
        /\ Opposite(<<1, -1>>) = <<-1, 1>>
    <3>1. \A a, b \in Int : Opposite(<<a, b>>) = <<-a, -b>>  BY DEF Opposite
    <3> QED  BY <3>1
  <2> QED  BY <2>1 DEF Directions
<1> QED  BY <1>1 DEF Rays, Directions

\* A set of steps that contains every smaller step reaches j exactly when it
\* has at least j elements.
LEMMA PrefixCount ==
  ASSUME NEW n \in Nat, NEW T \in SUBSET (1 .. n),
         \A k \in T : \A i \in 1 .. k : i \in T,
         NEW j \in 1 .. n
  PROVE  j <= Cardinality(T) <=> j \in T
<1>0. IsFiniteSet(T) /\ Cardinality(T) \in Nat
  <2>1. IsFiniteSet(1 .. n)  BY FS_Interval
  <2> QED  BY <2>1, FS_Subset, FS_CardinalityType
<1>1. ASSUME j \in T PROVE j <= Cardinality(T)
  <2>1. 1 .. j \in SUBSET T  BY <1>1
  <2>2. Cardinality(1 .. j) = j  BY FS_Interval
  <2> QED  BY <1>0, <2>1, <2>2, FS_Subset
<1>2. ASSUME j \notin T PROVE ~(j <= Cardinality(T))
  <2>1. T \in SUBSET (1 .. j - 1)
    <3> SUFFICES ASSUME NEW k \in T, k >= j PROVE FALSE  OBVIOUS
    <3>1. j \in 1 .. k  OBVIOUS
    <3> QED  BY <1>2, <3>1
  <2>2. IsFiniteSet(1 .. j - 1) /\ Cardinality(1 .. j - 1) = j - 1
    BY FS_Interval
  <2>3. Cardinality(T) <= j - 1  BY <2>1, <2>2, FS_Subset
  <2> QED  BY <1>0, <2>3
<1> QED  BY <1>1, <1>2

\* A ray leaves the board within n steps.
LEMMA RayLeaves ==
  ASSUME NEW n \in Nat, NEW c \in Cells(n), NEW d \in Rays, NEW k \in Nat, k >= n
  PROVE  Shift(c, d, k) \notin Cells(n)
<1>1. c[1] \in 0 .. n - 1 /\ c[2] \in 0 .. n - 1  BY DEF Cells
<1>2. \/ d[1] = 1 \/ d[1] = -1 \/ d[2] = 1 \/ d[2] = -1  BY RaysAre
<1>3. d[1] \in {-1, 0, 1} /\ d[2] \in {-1, 0, 1}  BY RaysAre
<1>4. d[1] = 1 => c[1] + k * d[1] > n - 1  BY <1>1
<1>5. d[1] = -1 => c[1] + k * d[1] < 0  BY <1>1
<1>6. d[2] = 1 => c[2] + k * d[2] > n - 1  BY <1>1
<1>7. d[2] = -1 => c[2] + k * d[2] < 0  BY <1>1
<1> QED  BY <1>2, <1>3, <1>4, <1>5, <1>6, <1>7 DEF Shift, Cells

\* countLine returns the number of steps over which the colour goes on: it
\* reaches j exactly when all of the first j cells of the ray have the colour.
LEMMA CountLineReaches ==
  ASSUME NEW n \in Nat, NEW g \in GameType(n), NEW c \in Cells(n),
         NEW d \in Rays, NEW color, NEW j \in Nat
  PROVE  /\ CountLine(g, c, d, color) \in Nat
         /\ j <= CountLine(g, c, d, color)
              <=> \A i \in 1 .. j : HasColor(g, Shift(c, d, i), color)
<1> DEFINE T == {k \in 1 .. n : \A i \in 1 .. k : HasColor(g, Shift(c, d, i), color)}
<1>1. g.boardSize = n  BY DEF GameType
<1>2. CountLine(g, c, d, color) = Cardinality(T)  BY <1>1 DEF CountLine
<1>3. T \in SUBSET (1 .. n)  OBVIOUS
<1>4. \A k \in T : \A i \in 1 .. k : i \in T  OBVIOUS
<1>5. IsFiniteSet(T) /\ Cardinality(T) \in 0 .. n
  <2>1. IsFiniteSet(1 .. n) /\ Cardinality(1 .. n) = n  BY FS_Interval
  <2> QED  BY <1>3, <2>1, FS_Subset, FS_CardinalityType
<1> HIDE DEF T
<1>6. CASE j \in 1 .. n
  <2>1. j <= Cardinality(T) <=> j \in T  BY <1>3, <1>4, <1>6, PrefixCount
  <2>2. j \in T <=> \A i \in 1 .. j : HasColor(g, Shift(c, d, i), color)
    BY <1>6 DEF T
  <2> QED  BY <1>2, <1>5, <2>1, <2>2
<1>7. CASE j = 0
  BY <1>2, <1>5, <1>7
<1>8. CASE j > n
  <2>1. ~(j <= Cardinality(T))  BY <1>5, <1>8
  <2>2. ~HasColor(g, Shift(c, d, j), color)
    BY <1>1, <1>8, RayLeaves DEF HasColor
  <2>3. j \in 1 .. j  BY <1>8
  <2> QED  BY <1>2, <1>5, <2>1, <2>2, <2>3
<1> QED  BY <1>6, <1>7, <1>8

-----------------------------------------------------------------------------
\* Steps along a ray add up, and the opposite ray goes backwards.
LEMMA ShiftAlong ==
  ASSUME NEW c \in Int \X Int, NEW d \in Rays, NEW i \in Int, NEW k \in Int
  PROVE  /\ Shift(c, d, k) \in Int \X Int
         /\ Shift(Shift(c, d, k), d, i) = Shift(c, d, k + i)
         /\ Shift(c, Opposite(d), k) = Shift(c, d, -k)
         /\ Shift(c, d, 0) = c
<1>1. \E x, y \in Int : c = <<x, y>>  OBVIOUS
<1>2. PICK x \in Int, y \in Int : c = <<x, y>>  BY <1>1
<1>3. \E e, f \in {-1, 0, 1} : d = <<e, f>>  BY RaysAre
<1>4. PICK e \in {-1, 0, 1}, f \in {-1, 0, 1} : d = <<e, f>>  BY <1>3
<1>5. \A z \in {-1, 0, 1} : /\ k * z \in Int /\ i * z \in Int
                           /\ k * z + i * z = (k + i) * z
                           /\ k * (-z) = (-k) * z
                           /\ 0 * z = 0
  OBVIOUS
<1>6. /\ Shift(c, d, k) = <<x + k * e, y + k * f>>
      /\ Shift(c, d, k + i) = <<x + (k + i) * e, y + (k + i) * f>>
      /\ Shift(c, d, -k) = <<x + (-k) * e, y + (-k) * f>>
      /\ Shift(c, d, 0) = <<x + 0 * e, y + 0 * f>>
      /\ Shift(c, Opposite(d), k) = <<x + k * (-e), y + k * (-f)>>
      /\ Shift(Shift(c, d, k), d, i) = <<(x + k * e) + i * e, (y + k * f) + i * f>>
  BY <1>2, <1>4 DEF Shift, Opposite
<1> QED  BY <1>2, <1>5, <1>6

\* The part of it about the opposite ray, in the form the proofs below use.
LEMMA ShiftOpposite ==
  ASSUME NEW c \in Int \X Int, NEW d \in Rays, NEW k \in Int
  PROVE  Shift(c, Opposite(d), k) = Shift(c, d, -k)
<1>1. 0 \in Int  OBVIOUS
<1> QED  BY <1>1, ShiftAlong

\* In one direction: the two counts and the stone itself make WinLength
\* exactly when a line in that direction goes through the stone.
LEMMA CountsAreLine ==
  ASSUME NEW n \in Nat, NEW g \in GameType(n), NEW c \in Cells(n), NEW d \in Directions,
         NEW color, g.board[c] = color
  PROVE  CountLine(g, c, d, color) + CountLine(g, c, Opposite(d), color) + 1 >= WinLength
           <=> \E s \in Cells(n) : /\ LineFrom(g, s, d, color)
                                  /\ \E i \in 0 .. WinLength - 1 : c = Shift(s, d, i)
<1> DEFINE ahead  == CountLine(g, c, d, color)
           behind == CountLine(g, c, Opposite(d), color)
<1>0. /\ g.boardSize = n
      /\ d \in Rays /\ Opposite(d) \in Rays
      /\ c \in Int \X Int
      /\ WinLength \in Nat /\ WinLength >= 1
  BY WinLengthAssumption DEF GameType, Rays, Cells
<1>1. /\ ahead \in Nat
      /\ \A j \in Nat : j <= ahead <=> \A i \in 1 .. j : HasColor(g, Shift(c, d, i), color)
  BY <1>0, CountLineReaches
<1>2. /\ behind \in Nat
      /\ \A j \in Nat : j <= behind <=> \A i \in 1 .. j : HasColor(g, Shift(c, d, -i), color)
  <2>1. \A i \in Int : Shift(c, Opposite(d), i) = Shift(c, d, -i)
    <3> SUFFICES ASSUME NEW i \in Int PROVE Shift(c, Opposite(d), i) = Shift(c, d, -i)
      OBVIOUS
    <3> QED  BY <1>0, ShiftOpposite
  <2>2. \A j \in Nat : \A i \in 1 .. j : Shift(c, Opposite(d), i) = Shift(c, d, -i)
    BY <2>1
  <2>3. /\ behind \in Nat
        /\ \A j \in Nat : j <= behind
              <=> \A i \in 1 .. j : HasColor(g, Shift(c, Opposite(d), i), color)
    BY <1>0, CountLineReaches
  <2> QED  BY <2>2, <2>3
<1>3. HasColor(g, Shift(c, d, 0), color)
  BY <1>0, ShiftAlong DEF HasColor
<1> HIDE DEF ahead, behind
<1>4. ASSUME ahead + behind + 1 >= WinLength
      PROVE  \E s \in Cells(n) : /\ LineFrom(g, s, d, color)
                                /\ \E i \in 0 .. WinLength - 1 : c = Shift(s, d, i)
  <2> DEFINE m == IF behind <= WinLength - 1 THEN behind ELSE WinLength - 1
             s == Shift(c, d, -m)
  <2>1. m \in 0 .. WinLength - 1 /\ m <= behind /\ WinLength - 1 - m <= ahead
    BY <1>0, <1>1, <1>2, <1>4
  <2> HIDE DEF m
  <2>2. \A i \in Int : Shift(s, d, i) = Shift(c, d, -m + i)
    BY <1>0, <2>1, ShiftAlong
  <2>3. \A i \in 0 .. WinLength - 1 : HasColor(g, Shift(c, d, -m + i), color)
    <3> SUFFICES ASSUME NEW i \in 0 .. WinLength - 1
                 PROVE  HasColor(g, Shift(c, d, -m + i), color)
      OBVIOUS
    <3>1. CASE i = m
      <4>1. -m + i = 0  BY <2>1, <3>1
      <4> QED  BY <1>3, <4>1
    <3>2. CASE i > m
      <4>1. -m + i \in Nat /\ -m + i <= ahead /\ -m + i \in 1 .. (-m + i)
        BY <1>0, <1>1, <2>1, <3>2
      <4> QED  BY <1>1, <4>1
    <3>3. CASE i < m
      <4>1. m - i \in Nat /\ m - i <= behind /\ m - i \in 1 .. (m - i) /\ -(m - i) = -m + i
        BY <1>0, <1>2, <2>1, <3>3
      <4> QED  BY <1>2, <4>1
    <3> QED  BY <1>0, <2>1, <3>1, <3>2, <3>3
  <2>4. LineFrom(g, s, d, color)  BY <1>0, <2>2, <2>3 DEF LineFrom
  <2>5. s \in Cells(n)
    <3>1. 0 \in 0 .. WinLength - 1 /\ -m + 0 = -m  BY <1>0, <2>1
    <3>2. HasColor(g, Shift(c, d, -m), color)  BY <2>3, <3>1
    <3> QED  BY <1>0, <3>2 DEF HasColor
  <2>6. c = Shift(s, d, m)
    <3>1. -m + m = 0 /\ m \in Int  BY <1>0, <2>1
    <3> QED  BY <1>0, <2>2, <3>1, ShiftAlong
  <2> QED  BY <2>1, <2>4, <2>5, <2>6
<1>5. ASSUME NEW s \in Cells(n), LineFrom(g, s, d, color),
             NEW m \in 0 .. WinLength - 1, c = Shift(s, d, m)
      PROVE  ahead + behind + 1 >= WinLength
  <2>1. s \in Int \X Int /\ m \in Int  BY <1>0 DEF Cells
  <2>2. \A i \in Int : Shift(c, d, i) = Shift(s, d, m + i)
    <3> SUFFICES ASSUME NEW i \in Int PROVE Shift(c, d, i) = Shift(s, d, m + i)
      OBVIOUS
    <3>1. Shift(Shift(s, d, m), d, i) = Shift(s, d, m + i)  BY <1>0, <2>1, ShiftAlong
    <3> QED  BY <1>5, <3>1
  <2>3. \A i \in 0 .. WinLength - 1 : HasColor(g, Shift(s, d, i), color)
    BY <1>5 DEF LineFrom
  <2>4. WinLength - 1 - m <= ahead
    <3>1. \A i \in 1 .. (WinLength - 1 - m) : m + i \in 0 .. WinLength - 1 /\ i \in Int
      BY <1>0
    <3>2. \A i \in 1 .. (WinLength - 1 - m) : HasColor(g, Shift(c, d, i), color)
      BY <2>2, <2>3, <3>1
    <3>3. WinLength - 1 - m \in Nat  BY <1>0
    <3> QED  BY <1>1, <3>2, <3>3
  <2>5. m <= behind
    <3>1. \A i \in 1 .. m : m + (-i) \in 0 .. WinLength - 1 /\ -i \in Int
      BY <1>0
    <3>2. \A i \in 1 .. m : HasColor(g, Shift(c, d, -i), color)
      BY <2>2, <2>3, <3>1
    <3>3. m \in Nat  BY <1>0
    <3> QED  BY <1>2, <3>2, <3>3
  <2> QED  BY <1>0, <1>1, <1>2, <2>4, <2>5
<1>6. ahead + behind + 1 >= WinLength
        <=> \E s \in Cells(n) : /\ LineFrom(g, s, d, color)
                               /\ \E i \in 0 .. WinLength - 1 : c = Shift(s, d, i)
  BY <1>4, <1>5
<1> QED  BY <1>6 DEF ahead, behind

\* checkWin(x, y) answers the colour of the stone exactly when the stone is
\* part of a line.
LEMMA CheckWinFindsLines ==
  ASSUME NEW n \in Nat, NEW g \in GameType(n), NEW c \in Cells(n), g.board[c] # "EMPTY"
  PROVE  /\ CheckWin(g, c) = g.board[c] <=> LineThrough(g, c, g.board[c])
         /\ CheckWin(g, c) # "EMPTY" <=> LineThrough(g, c, g.board[c])
<1> DEFINE color == g.board[c]
           Long(d) == CountLine(g, c, d, color) + CountLine(g, c, Opposite(d), color) + 1
                        >= WinLength
           Through(d) == \E s \in Cells(n) : /\ LineFrom(g, s, d, color)
                                            /\ \E i \in 0 .. WinLength - 1 : c = Shift(s, d, i)
<1>1. \A d \in Directions : Long(d) <=> Through(d)  BY CountsAreLine
<1>2. LineThrough(g, c, color) <=> \E d \in Directions : Through(d)
  <2>1. g.boardSize = n  BY DEF GameType
  <2> QED  BY <2>1 DEF LineThrough
<1>3. CheckWin(g, c) = IF \E d \in Directions : Long(d) THEN color ELSE "EMPTY"
  BY DEF CheckWin
<1> QED  BY <1>1, <1>2, <1>3

-----------------------------------------------------------------------------
(* checkWin() over the whole board. *)

LEMMA LeastElement ==
  ASSUME NEW T \in SUBSET Nat, T # {}
  PROVE  \E x \in T : \A y \in T : x <= y
<1> DEFINE R == OpToRel(<, Nat)
<1>1. IsWellFoundedOn(R, Nat)  BY NatLessThanWellFounded
<1>2. \A x, y \in Nat : <<y, x>> \in R <=> y < x  BY DEF OpToRel
<1> HIDE DEF R
<1>3. \E x \in T : \A y \in T : ~(<<y, x>> \in R)  BY <1>1, WFMin
<1>4. \A x, y \in T : x \in Int /\ y \in Int /\ (~(y < x) => x <= y)  OBVIOUS
<1> QED  BY <1>2, <1>3, <1>4

\* A row-by-row scan meets one of the cells it looks for first.
LEMMA FirstCell ==
  ASSUME NEW n \in Nat, NEW W \in SUBSET Cells(n), W # {}
  PROVE  \E c \in W : \A e \in W : c[1] < e[1] \/ (c[1] = e[1] /\ c[2] <= e[2])
<1>1. \A c \in W : c[1] \in Nat /\ c[2] \in Nat  BY DEF Cells
<1> DEFINE rows == {c[1] : c \in W}
<1>2. PICK r \in rows : \A y \in rows : r <= y
  <2>1. rows \in SUBSET Nat /\ rows # {}  BY <1>1
  <2> HIDE DEF rows
  <2> QED  BY <2>1, LeastElement
<1> DEFINE columns == {c[2] : c \in {e \in W : e[1] = r}}
<1>3. PICK k \in columns : \A y \in columns : k <= y
  <2>1. columns \in SUBSET Nat /\ columns # {}  BY <1>1, <1>2
  <2> HIDE DEF columns
  <2> QED  BY <2>1, LeastElement
<1>4. PICK c \in W : c[1] = r /\ c[2] = k  BY <1>3
<1>5. ASSUME NEW e \in W
      PROVE  c[1] < e[1] \/ (c[1] = e[1] /\ c[2] <= e[2])
  <2>1. r <= e[1]  BY <1>2
  <2>2. e[1] = r => k <= e[2]  BY <1>3
  <2> QED  BY <1>1, <1>4, <2>1, <2>2
<1> QED  BY <1>4, <1>5

\* A colour has a line exactly when checkWin reports one of its stones.
LEMMA LinesHaveStones ==
  ASSUME NEW n \in Nat, NEW g \in GameType(n)
  PROVE  /\ \A c \in Cells(n) :
              CheckWin(g, c) # "EMPTY" =>
                CheckWin(g, c) \in Stone /\ HasLine(g, CheckWin(g, c))
         /\ \A color \in Stone :
              HasLine(g, color) => \E c \in Cells(n) : CheckWin(g, c) # "EMPTY"
<1>1. g.boardSize = n /\ g.board \in [Cells(n) -> Piece]  BY DEF GameType
<1>2. ASSUME NEW c \in Cells(n), CheckWin(g, c) # "EMPTY"
      PROVE  CheckWin(g, c) \in Stone /\ HasLine(g, CheckWin(g, c))
  <2>1. CheckWin(g, c) = g.board[c] /\ g.board[c] # "EMPTY"  BY <1>2 DEF CheckWin
  <2>2. g.board[c] \in Stone  BY <1>1, <2>1 DEF Piece
  <2>3. LineThrough(g, c, g.board[c])  BY <1>2, <2>1, CheckWinFindsLines
  <2> QED  BY <2>1, <2>2, <2>3 DEF LineThrough, HasLine
<1>3. ASSUME NEW color \in Stone, HasLine(g, color)
      PROVE  \E c \in Cells(n) : CheckWin(g, c) # "EMPTY"
  <2>1. PICK s \in Cells(n), d \in Directions : LineFrom(g, s, d, color)
    BY <1>1, <1>3 DEF HasLine
  <2>2. 0 \in 0 .. WinLength - 1  BY WinLengthAssumption
  <2>3. s = Shift(s, d, 0)
    <3>1. s = <<s[1], s[2]>> /\ s[1] \in Int /\ s[2] \in Int  BY DEF Cells
    <3>2. d[1] \in Int /\ d[2] \in Int  BY DEF Directions
    <3>3. s[1] + 0 * d[1] = s[1] /\ s[2] + 0 * d[2] = s[2]  BY <3>1, <3>2
    <3> QED  BY <3>1, <3>3 DEF Shift
  <2>4. g.board[s] = color  BY <2>1, <2>2, <2>3 DEF LineFrom, HasColor
  <2>5. LineThrough(g, s, color)  BY <1>1, <2>1, <2>2, <2>3 DEF LineThrough
  <2>6. color # "EMPTY"  BY DEF Stone
  <2> QED  BY <2>4, <2>5, <2>6, CheckWinFindsLines
<1> QED  BY <1>2, <1>3

\* The scan of checkWin() stops at a stone of a line if there is one.
LEMMA CheckWinAnywhereFindsLines ==
  ASSUME NEW n \in Nat, NEW g \in GameType(n)
  PROVE  IF \E color \in Stone : HasLine(g, color)
         THEN HasLine(g, CheckWinAnywhere(g))
         ELSE CheckWinAnywhere(g) = "EMPTY"
<1> DEFINE winning == {c \in Cells(n) : CheckWin(g, c) # "EMPTY"}
           First(c) == \A e \in winning : c[1] < e[1] \/ (c[1] = e[1] /\ c[2] <= e[2])
<1>1. CheckWinAnywhere(g) =
        IF winning = {} THEN "EMPTY" ELSE CheckWin(g, CHOOSE c \in winning : First(c))
  <2>1. g.boardSize = n  BY DEF GameType
  <2> QED  BY <2>1 DEF CheckWinAnywhere
<1>2. winning = {} <=> \A color \in Stone : ~HasLine(g, color)
  BY LinesHaveStones
<1>3. ASSUME winning # {} PROVE HasLine(g, CheckWinAnywhere(g))
  <2>1. winning \in SUBSET Cells(n)  OBVIOUS
  <2>2. \E c \in winning : First(c)
    <3> HIDE DEF winning
    <3> QED  BY <1>3, <2>1, FirstCell
  <2>3. (CHOOSE c \in winning : First(c)) \in winning
    <3> HIDE DEF winning, First
    <3> QED  BY <2>2
  <2> QED  BY <1>1, <1>3, <2>3, LinesHaveStones
<1> QED  BY <1>1, <1>2, <1>3

-----------------------------------------------------------------------------
\* A new or a reset game is well-formed and has no line.
LEMMA NewGameType ==
  ASSUME NEW n \in Nat
  PROVE  NewGame(n) \in GameType(n)
BY DEF NewGame, GameType, Piece

LEMMA NewGameHasNoLine ==
  ASSUME NEW n \in Nat, NEW color \in Stone
  PROVE  ~HasLine(NewGame(n), color)
<1> SUFFICES ASSUME NEW s \in Cells(n), NEW d \in Directions,
                    LineFrom(NewGame(n), s, d, color)
             PROVE  FALSE
  BY DEF HasLine, NewGame
<1>1. 0 \in 0 .. WinLength - 1  BY WinLengthAssumption
<1>2. HasColor(NewGame(n), Shift(s, d, 0), color)  BY <1>1 DEF LineFrom
<1> QED  BY <1>2 DEF HasColor, NewGame, Stone

\* A legal move keeps the game well-formed; this is all it changes.
LEMMA MoveType ==
  ASSUME NEW n \in Nat, NEW g \in GameType(n), NEW c \in Cells(n), NEW color \in Stone
  PROVE  /\ MakeMove(g, c, color) \in GameType(n)
         /\ MakeMove(g, c, color).boardSize = n
         /\ MakeMove(g, c, color).board = [g.board EXCEPT ![c] = color]
         /\ MakeMove(g, c, color).lastMove = c
         /\ MakeMove(g, c, color).moveHistory = Append(g.moveHistory, c)
<1>1. /\ g.boardSize = n
      /\ g.board \in [Cells(n) -> Piece]
      /\ g.moveHistory \in Seq(Cells(n))
  BY DEF GameType
<1>2. [g.board EXCEPT ![c] = color] \in [Cells(n) -> Piece]  BY <1>1 DEF Piece
<1>3. Append(g.moveHistory, c) \in Seq(Cells(n))  BY <1>1
<1> QED  BY <1>1, <1>2, <1>3 DEF GameType, MakeMove

\* Looking along the lines through the last stone is enough: when a stone is
\* placed on a board without lines, every line there is then goes through it.
LEMMA NewLineThroughMove ==
  ASSUME NEW n \in Nat, NEW g \in GameType(n), NEW c \in Cells(n), NEW color \in Stone,
         \A k \in Stone : ~HasLine(g, k),
         NEW k \in Stone, HasLine(MakeMove(g, c, color), k)
  PROVE  k = color /\ LineThrough(MakeMove(g, c, color), c, color)
<1> DEFINE h == MakeMove(g, c, color)
<1>1. /\ g.boardSize = n /\ h.boardSize = n
      /\ h.board = [g.board EXCEPT ![c] = color]
      /\ g.board \in [Cells(n) -> Piece]
  BY MoveType DEF GameType
<1> HIDE DEF h
<1>2. PICK s \in Cells(n), d \in Directions : LineFrom(h, s, d, k)
  BY <1>1 DEF HasLine, h
<1>3. \E i \in 0 .. WinLength - 1 : c = Shift(s, d, i)
  <2> SUFFICES ASSUME \A i \in 0 .. WinLength - 1 : c # Shift(s, d, i)
               PROVE  FALSE
    OBVIOUS
  <2>1. \A i \in 0 .. WinLength - 1 : HasColor(g, Shift(s, d, i), k)
    BY <1>1, <1>2 DEF LineFrom, HasColor
  <2> QED  BY <1>1, <2>1 DEF HasLine, LineFrom
<1>4. k = color
  <2>1. \A i \in 0 .. WinLength - 1 : HasColor(h, Shift(s, d, i), k)
    BY <1>2 DEF LineFrom
  <2>2. HasColor(h, c, k)  BY <1>3, <2>1
  <2> QED  BY <1>1, <2>2 DEF HasColor
<1> QED  BY <1>1, <1>2, <1>3, <1>4 DEF LineThrough, h

\* So the answer of checkWin for the last stone is the answer for the board.
LEMMA MoveWinsIffLine ==
  ASSUME NEW n \in Nat, NEW g \in GameType(n), NEW c \in Cells(n), NEW color \in Stone,
         \A k \in Stone : ~HasLine(g, k)
  PROVE  /\ CheckWin(MakeMove(g, c, color), c) # "EMPTY"
               <=> HasLine(MakeMove(g, c, color), color)
         /\ \A k \in Stone : HasLine(MakeMove(g, c, color), k) => k = color
<1> DEFINE h == MakeMove(g, c, color)
<1>1. h \in GameType(n) /\ h.board[c] = color /\ h.boardSize = n
  <2>1. g.board \in [Cells(n) -> Piece]  BY DEF GameType
  <2>2. h \in GameType(n) /\ h.boardSize = n /\ h.board = [g.board EXCEPT ![c] = color]
    BY MoveType
  <2> QED  BY <2>1, <2>2
<1>2. color # "EMPTY"  BY DEF Stone
<1>3. CheckWin(h, c) # "EMPTY" <=> LineThrough(h, c, color)
  BY <1>1, <1>2, CheckWinFindsLines
<1>4. LineThrough(h, c, color) => HasLine(h, color)
  BY DEF LineThrough, HasLine
<1>5. \A k \in Stone : HasLine(h, k) => k = color /\ LineThrough(h, c, color)
  BY NewLineThroughMove
<1> QED  BY <1>3, <1>4, <1>5

-----------------------------------------------------------------------------
(* Lists of events. *)

\* A sequence that is s followed by t.
LEMMA ConcatIs ==
  ASSUME NEW S, NEW s \in Seq(S), NEW t \in Seq(S), NEW r \in Seq(S),
         Len(r) = Len(s) + Len(t),
         \A i \in 1 .. Len(s) : r[i] = s[i],
         \A i \in 1 .. Len(t) : r[Len(s) + i] = t[i]
  PROVE  s \o t = r
<1> DEFINE q == s \o t
<1>1. /\ q \in Seq(S) /\ Len(q) = Len(s) + Len(t)
      /\ Len(s) \in Nat /\ Len(t) \in Nat
  BY ConcatProperties, LenProperties
<1>2. \A i \in 1 .. Len(s) + Len(t) : q[i] = IF i <= Len(s) THEN s[i] ELSE t[i - Len(s)]
  BY ConcatProperties
<1> HIDE DEF q
<1>3. ASSUME NEW i \in 1 .. Len(q) PROVE q[i] = r[i]
  <2>1. CASE i <= Len(s)  BY <1>1, <1>2, <2>1
  <2>2. CASE ~(i <= Len(s))
    <3>1. i - Len(s) \in 1 .. Len(t) /\ Len(s) + (i - Len(s)) = i  BY <1>1, <2>2
    <3> QED  BY <1>1, <1>2, <2>2, <3>1
  <2> QED  BY <2>1, <2>2
<1>4. q = r  BY <1>1, <1>3, SeqEqual
<1> QED  BY <1>4 DEF q

LEMMA TwoEvents ==
  ASSUME NEW a, NEW b
  PROVE  <<a>> \o <<b>> = <<a, b>>
<1> DEFINE s == <<a>>
           t == <<b>>
           r == <<a, b>>
           S == {a, b}
<1>1. s \in Seq(S) /\ t \in Seq(S) /\ r \in Seq(S)  OBVIOUS
<1>2. Len(s) = 1 /\ Len(t) = 1 /\ Len(r) = 2  OBVIOUS
<1>3. s[1] = a /\ t[1] = b /\ r[1] = a /\ r[2] = b  OBVIOUS
<1> HIDE DEF s, t, r, S
<1>4. \A i \in 1 .. Len(s) : r[i] = s[i]  BY <1>2, <1>3
<1>5. \A i \in 1 .. Len(t) : r[Len(s) + i] = t[i]  BY <1>2, <1>3
<1>6. Len(r) = Len(s) + Len(t)  BY <1>2
<1>7. s \o t = r  BY <1>1, <1>4, <1>5, <1>6, ConcatIs
<1> QED  BY <1>7 DEF s, t, r

LEMMA ThreeEvents ==
  ASSUME NEW a, NEW b, NEW c
  PROVE  <<a>> \o <<b>> \o <<c>> = <<a, b, c>>
<1> DEFINE s == <<a, b>>
           t == <<c>>
           r == <<a, b, c>>
           S == {a, b, c}
<1>1. s \in Seq(S) /\ t \in Seq(S) /\ r \in Seq(S)  OBVIOUS
<1>2. Len(s) = 2 /\ Len(t) = 1 /\ Len(r) = 3  OBVIOUS
<1>3. s[1] = a /\ s[2] = b /\ t[1] = c /\ r[1] = a /\ r[2] = b /\ r[3] = c  OBVIOUS
<1> HIDE DEF s, t, r, S
<1>4. \A i \in 1 .. Len(s) : r[i] = s[i]  BY <1>2, <1>3
<1>5. \A i \in 1 .. Len(t) : r[Len(s) + i] = t[i]  BY <1>2, <1>3
<1>6. Len(r) = Len(s) + Len(t)  BY <1>2
<1>7. s \o t = r  BY <1>1, <1>4, <1>5, <1>6, ConcatIs
<1> QED  BY <1>7, TwoEvents DEF s, t, r

LEMMA NoEventBetween ==
  ASSUME NEW a, NEW c
  PROVE  <<a>> \o <<>> \o <<c>> = <<a, c>>
<1>1. <<a>> \o <<>> = <<a>>
  <2>1. <<a>> \in Seq({a})  OBVIOUS
  <2> QED  BY <2>1, ConcatEmptySeq
<1> QED  BY <1>1, TwoEvents

-----------------------------------------------------------------------------
(* One room. *)

\* What a well-formed room consists of.
LEMMA RoomFields ==
  ASSUME NEW n \in Nat, NEW q \in RoomType(n)
  PROVE  /\ q.status \in Status
         /\ q.ownerId \in Users \cup {NoUser}
         /\ q.blackPlayerId \in Users \cup {NoUser}
         /\ q.whitePlayerId \in Users \cup {NoUser}
         /\ q.playerIds \in Seq(Users)
         /\ q.game \in GameType(n)
         /\ q.game.boardSize = n
BY DEF RoomType, GameType

\* Removing one element of a sequence closes the gap.
LEMMA RemoveAtFacts ==
  ASSUME NEW S, NEW s \in Seq(S), NEW i \in 1 .. Len(s)
  PROVE  /\ RemoveAt(s, i) \in Seq(S)
         /\ Len(RemoveAt(s, i)) = Len(s) - 1
         /\ \A j \in 1 .. Len(s) - 1 :
              RemoveAt(s, i)[j] = s[IF j < i THEN j ELSE j + 1]
<1> DEFINE a == SubSeq(s, 1, i - 1)
           b == SubSeq(s, i + 1, Len(s))
<1>1. /\ a \in Seq(S) /\ Len(a) = i - 1
      /\ \A j \in 1 .. i - 1 : a[j] = s[j]
  OBVIOUS
<1>2. /\ b \in Seq(S) /\ Len(b) = Len(s) - i
      /\ \A j \in 1 .. Len(s) - i : b[j] = s[i + j]
  OBVIOUS
<1>3. RemoveAt(s, i) = a \o b  BY DEF RemoveAt
<1>4. Len(s) \in Nat /\ i \in 1 .. Len(s)  OBVIOUS
<1> HIDE DEF a, b
<1>5. a \o b \in Seq(S) /\ Len(a \o b) = Len(s) - 1
  <2>1. a \o b \in Seq(S) /\ Len(a \o b) = Len(a) + Len(b)
    BY <1>1, <1>2, ConcatProperties
  <2> QED  BY <1>1, <1>2, <1>4, <2>1
<1>6. ASSUME NEW j \in 1 .. Len(s) - 1
      PROVE  (a \o b)[j] = s[IF j < i THEN j ELSE j + 1]
  <2>1. CASE j < i
    <3>1. j \in 1 .. Len(a) /\ j \in 1 .. i - 1  BY <1>1, <1>4, <2>1
    <3>2. (a \o b)[j] = a[j]  BY <1>1, <1>2, <3>1
    <3> QED  BY <1>1, <2>1, <3>1, <3>2
  <2>2. CASE ~(j < i)
    <3>1. j - Len(a) \in 1 .. Len(s) - i /\ j - Len(a) = j - i + 1 /\ i + (j - i + 1) = j + 1
      BY <1>1, <1>4, <2>2
    <3>2. (a \o b)[j] = b[j - Len(a)]
      BY <1>1, <1>2, <1>4, <2>2, <1>6
    <3> QED  BY <1>2, <2>2, <3>1, <3>2
  <2> QED  BY <2>1, <2>2
<1> QED  BY <1>3, <1>5, <1>6

\* What RemovePlayer does to a room without duplicates.
LEMMA RemovePlayerFacts ==
  ASSUME NEW n \in Nat, NEW q \in RoomType(n), NEW u \in Users, InRoom(q, u),
         \A i, j \in DOMAIN q.playerIds : q.playerIds[i] = q.playerIds[j] => i = j
  PROVE  LET p == RemovePlayer(q, u)
             s == q.playerIds
         IN  /\ p.status = q.status /\ p.game = q.game
             /\ p.blackPlayerId = IF q.blackPlayerId = u THEN NoUser ELSE q.blackPlayerId
             /\ p.whitePlayerId = IF q.whitePlayerId = u THEN NoUser ELSE q.whitePlayerId
             /\ p.ownerId = IF q.ownerId # u THEN q.ownerId
                            ELSE IF p.playerIds = <<>> THEN NoUser ELSE p.playerIds[1]
             /\ \E i \in 1 .. Len(s) :
                  /\ s[i] = u
                  /\ p.playerIds = RemoveAt(s, i)
             /\ p \in RoomType(n)
<1> DEFINE s == q.playerIds
           i == CHOOSE i \in DOMAIN s : s[i] = u
           rest == RemoveAt(s, i)
<1>1. s \in Seq(Users)  BY RoomFields
<1>2. i \in 1 .. Len(s) /\ s[i] = u
  <2>1. \E k \in DOMAIN s : s[k] = u  BY DEF InRoom, ToSet
  <2>2. i \in DOMAIN s /\ s[i] = u  BY <2>1
  <2>3. DOMAIN s = 1 .. Len(s)  BY <1>1
  <2> QED  BY <2>2, <2>3
<1> HIDE DEF i
<1>3. /\ rest \in Seq(Users)
      /\ rest # <<>> => rest[1] \in Users
  BY <1>1, <1>2, RemoveAtFacts
<1>4. RemovePlayer(q, u) =
        [q EXCEPT !.playerIds = rest,
                  !.ownerId   = IF @ # u THEN @
                                ELSE IF rest = <<>> THEN NoUser ELSE rest[1],
                  !.blackPlayerId = IF @ = u THEN NoUser ELSE @,
                  !.whitePlayerId = IF @ = u THEN NoUser ELSE @]
  BY DEF RemovePlayer, i
<1> DEFINE o == IF q.ownerId # u THEN q.ownerId
                ELSE IF rest = <<>> THEN NoUser ELSE rest[1]
<1>5. o \in Users \cup {NoUser}  BY <1>3, RoomFields
<1> HIDE DEF rest, o
<1>6. RemovePlayer(q, u) =
        [status        |-> q.status,
         ownerId       |-> o,
         blackPlayerId |-> IF q.blackPlayerId = u THEN NoUser ELSE q.blackPlayerId,
         whitePlayerId |-> IF q.whitePlayerId = u THEN NoUser ELSE q.whitePlayerId,
         playerIds     |-> rest,
         game          |-> q.game]
  BY <1>4 DEF RoomType, o
<1>7. RemovePlayer(q, u) \in RoomType(n)
  BY <1>3, <1>5, <1>6, RoomFields DEF RoomType
<1> QED  BY <1>2, <1>6, <1>7 DEF rest, o

\* What an accepted request for a seat does: the caller is in the room and
\* ends up on the seat it asked for, or on none, and on no other.
LEMMA SyncSeatFacts ==
  ASSUME NEW n \in Nat, NEW q \in RoomType(n), NEW u \in Users,
         NEW black \in Users \cup {NoUser}, NEW white \in Users \cup {NoUser},
         SyncSeatOk(q, u, black, white),
         q.blackPlayerId = q.whitePlayerId => q.blackPlayerId = NoUser
  PROVE  LET p == SyncSeat(q, u, black, white)
         IN  /\ p.status = q.status /\ p.game = q.game
             /\ p.playerIds = q.playerIds /\ p.ownerId = q.ownerId
             /\ p.blackPlayerId \in {q.blackPlayerId, u, NoUser}
             /\ p.whitePlayerId \in {q.whitePlayerId, u, NoUser}
             /\ p.blackPlayerId = p.whitePlayerId => p.blackPlayerId = NoUser
             /\ p \in RoomType(n)
<1> DEFINE p == SyncSeat(q, u, black, white)
           Vacated(seat) == IF seat = u THEN NoUser ELSE seat
<1>0. u # NoUser  BY NoUserAssumption
<1>1. CASE AsksNoSeat(black, white) /\ q.blackPlayerId = u
  <2>1. p = [q EXCEPT !.blackPlayerId = NoUser]
    BY <1>0, <1>1 DEF SyncSeat, AsksNoSeat, AsksBlack, AsksWhite
  <2> QED  BY <1>1, <2>1 DEF RoomType
<1>2. CASE AsksNoSeat(black, white) /\ q.blackPlayerId # u
  <2>1. p = [q EXCEPT !.whitePlayerId = Vacated(@)]
    BY <1>0, <1>2 DEF SyncSeat, AsksNoSeat, AsksBlack, AsksWhite
  <2> QED  BY <1>2, <2>1 DEF RoomType
<1>3. CASE AsksBlack(u, black, white)
  <2>1. p = [q EXCEPT !.blackPlayerId = u, !.whitePlayerId = Vacated(@)]
    BY <1>0, <1>3 DEF SyncSeat, AsksNoSeat, AsksBlack, AsksWhite
  <2> QED  BY <1>0, <1>3, <2>1 DEF RoomType
<1>4. CASE AsksWhite(u, black, white)
  <2>1. p = [q EXCEPT !.whitePlayerId = u, !.blackPlayerId = Vacated(@)]
    BY <1>0, <1>4 DEF SyncSeat, AsksNoSeat, AsksBlack, AsksWhite
  <2> QED  BY <1>0, <1>4, <2>1 DEF RoomType
<1> QED  BY <1>1, <1>2, <1>3, <1>4 DEF SyncSeatOk

=============================================================================
