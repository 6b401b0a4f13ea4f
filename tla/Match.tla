------------------------------- MODULE Match --------------------------------
(***************************************************************************)
(* What a room promises its players about the games played in it, without  *)
(* saying how: an abstract specification that RoomSpec implements.  The    *)
(* end of a game is defined by the rule of the game (HasLine over the      *)
(* whole board), not by the walk from the last stone the code makes.       *)
(***************************************************************************)
EXTENDS Game

CONSTANTS Players, NoPlayer, Sizes

VARIABLES phase,      \* "Free" before the first game, "Playing", "End" after one
          black,      \* who plays black, or NoPlayer
          white,
          position    \* the board and its size

vars == <<phase, black, white, position>>

Empty(n) == [boardSize |-> n, board |-> [c \in Cells(n) |-> "EMPTY"]]

Init ==
  /\ phase = "Free"
  /\ black = NoPlayer
  /\ white = NoPlayer
  /\ \E n \in Sizes : position = Empty(n)

\* Between games the seats change hands freely, but nobody plays both colours.
ChangeSeats ==
  /\ phase # "Playing"
  /\ black' \in Players \cup {NoPlayer}
  /\ white' \in Players \cup {NoPlayer}
  /\ black' = white' => black' = NoPlayer
  /\ UNCHANGED <<phase, position>>

\* During a game a player may disappear; nobody takes the seat.
Leave ==
  /\ phase = "Playing"
  /\ black' \in {black, NoPlayer}
  /\ white' \in {white, NoPlayer}
  /\ UNCHANGED <<phase, position>>

ChangeBoard ==
  /\ phase # "Playing"
  /\ \E n \in Sizes : position' = Empty(n)
  /\ UNCHANGED <<phase, black, white>>

Start ==
  /\ phase # "Playing"
  /\ black # NoPlayer
  /\ white # NoPlayer
  /\ phase' = "Playing"
  /\ position' = Empty(position.boardSize)
  /\ UNCHANGED <<black, white>>

\* A stone wins at once or the game goes on; stones are never moved.
Place(c, color) ==
  /\ phase = "Playing"
  /\ color = "BLACK" => black # NoPlayer
  /\ color = "WHITE" => white # NoPlayer
  /\ position.board[c] = "EMPTY"
  /\ position' = [position EXCEPT !.board = [position.board EXCEPT ![c] = color]]
  /\ phase' = IF HasLine(position', color) THEN "End" ELSE "Playing"
  /\ UNCHANGED <<black, white>>

\* Resignation or draw: somebody still playing ends the game.
Stop ==
  /\ phase = "Playing"
  /\ black # NoPlayer \/ white # NoPlayer
  /\ phase' = "End"
  /\ UNCHANGED <<black, white, position>>

Next ==
  \/ ChangeSeats
  \/ Leave
  \/ ChangeBoard
  \/ Start
  \/ \E c \in Cells(position.boardSize), color \in Stone : Place(c, color)
  \/ Stop

Spec == Init /\ [][Next]_vars
=============================================================================
