----------------------------- MODULE UserStore ------------------------------
(***************************************************************************)
(* The registered users in memory and in the database: CreateUser and      *)
(* LoadUsersFromDatabase of core/ObjectManager.cpp, the rating of          *)
(* game/User.cpp, and the calls of data/Database.cpp that they make.       *)
(*                                                                         *)
(* A call of the database may fail; the callers go on as the code does.    *)
(* The process may die between any two of its steps, and starts again by   *)
(* loading what the table has.  A user is identified with its name, which  *)
(* is UNIQUE in the table; the passwords and ranking are never changed.    *)
(*                                                                         *)
(* A score is a number of 1/Unit points.  How much a game changes it is    *)
(* left open, its sign is not.  UpdateScore is called by no handler yet.   *)
(***************************************************************************)
EXTENDS Integers, Sequences, FiniteSets

CONSTANTS Names,        \* the names users register with
          Thresholds,   \* score2rankMap: points needed for each rank
          Unit,         \* parts a point is counted in
          ExactBelow,   \* scores from here on are written to the row rounded
          Gains,        \* by how much a game may change a score: below 100 points
          MaxGames      \* bound on the number of rated games

ASSUME ThresholdsAssumption ==
  /\ Thresholds \in Seq(Int) /\ Len(Thresholds) > 0
  /\ Thresholds[1] = 0
  /\ \A i, j \in 1 .. Len(Thresholds) : i < j => Thresholds[i] + 1 < Thresholds[j]
ASSUME UnitAssumption == Unit \in Nat \ {0}
ASSUME BoundsAssumption == ExactBelow \in Nat /\ Gains \subseteq Nat /\ MaxGames \in Nat

VARIABLES row,        \* the table: name -> rating, for the names registered
          user,       \* ObjectManager::users, likewise
          step,       \* what the server is doing: the next step of the operation
          promised,   \* history: names whose registration was answered with success
          unread,     \* history: names a read missed since the server was started
          unsaved,    \* history: names whose last write, or load, has failed
          torn        \* history: a game may not have been written for both its players

vars == <<row, user, step, promised, unread, unsaved, torn>>

Ranks == 1 .. Len(Thresholds)

Rating == [score : Int, rank : Ranks, wins : Nat, losses : Nat, draws : Nat]

NewUser == [score |-> 0, rank |-> 1, wins |-> 0, losses |-> 0, draws |-> 0]

-----------------------------------------------------------------------------
(* Rank and score. *)

\* (int)score, for a score that is not negative.
Points(score) == score \div Unit

\* std::lower_bound: the first threshold that is not below the points.
LowerBound(points) ==
  CHOOSE i \in 1 .. Len(Thresholds) + 1 :
    /\ i <= Len(Thresholds) => Thresholds[i] >= points
    /\ \A j \in 1 .. i - 1 : Thresholds[j] < points

\* Mutant of RankByScore: the rank found is not stepped back.
RankByScoreAbove(score) ==
  IF score < 0 THEN 1
  ELSE LET i == LowerBound(Points(score))
       IN  IF i > Len(Thresholds) THEN Len(Thresholds) ELSE i

\* The points searched for are truncated, those compared are not.
RankByScore(score) ==
  IF score < 0 THEN 1
  ELSE LET i == LowerBound(Points(score))
       IN  IF i > Len(Thresholds) THEN Len(Thresholds)
           ELSE IF Thresholds[i] * Unit = score THEN i
           ELSE IF i # 1 THEN i - 1 ELSE 1

\* An ostream writes a double with six significant digits: from some size on,
\* parts of a point are rounded away.
Written(score) ==
  IF -ExactBelow < score /\ score < ExactBelow THEN score
  ELSE ((score + Unit \div 2) \div Unit) * Unit

WrittenRating(r) == [r EXCEPT !.score = Written(@)]

-----------------------------------------------------------------------------
(* Start, and the end of the process. *)

Idle == step = <<"Idle">>

Init ==
  /\ row = [n \in {} |-> NewUser]
  /\ user = [n \in {} |-> NewUser]
  /\ step = <<"Down">>
  /\ promised = {}
  /\ unread = {}
  /\ unsaved = {}
  /\ torn = FALSE

\* Query may find a part of the rows only, and LoadFromDatabase may fail for
\* some of those: such a user starts with a new rating.
LoadUsersFromDatabase ==
  /\ step = <<"Down">>
  /\ \E found \in SUBSET DOMAIN row : \E blank \in SUBSET found :
       /\ user' = [n \in found |-> IF n \in blank THEN NewUser ELSE row[n]]
       /\ unread' = DOMAIN row \ found
       /\ unsaved' = blank
       /\ torn' = (torn \/ blank # {})
  /\ step' = <<"Idle">>
  /\ UNCHANGED <<row, promised>>

Updating == step[1] \in {"RankWinner", "RankLoser", "SaveWinner", "SaveLoser"}

Crash ==
  /\ step # <<"Down">>
  /\ step' = <<"Down">>
  /\ user' = [n \in {} |-> NewUser]
  /\ torn' = (torn \/ Updating \/ unsaved # {})
  /\ UNCHANGED <<row, promised, unread, unsaved>>

-----------------------------------------------------------------------------
(* CreateUser. *)

\* Mutant of CreateUser: that Execute has failed is not noticed.
CreateUserUnstored(n) ==
  /\ Idle
  /\ n \notin DOMAIN user
  /\ user' = [m \in DOMAIN user \cup {n} |-> IF m = n THEN NewUser ELSE user[m]]
  /\ promised' = promised \cup {n}
  /\ UNCHANGED <<row, step, unread, unsaved, torn>>

\* Execute fails when the name is in the table, and for other reasons.
CreateUser(n) ==
  /\ Idle
  /\ n \notin DOMAIN user
  /\ n \notin DOMAIN row
  /\ row' = [m \in DOMAIN row \cup {n} |-> IF m = n THEN NewUser ELSE row[m]]
  /\ step' = <<"ReadId", n>>
  /\ UNCHANGED <<user, promised, unread, unsaved, torn>>

\* The id may be read or not; without it the client is told the name exists.
ReadId ==
  \E n \in Names :
    /\ step = <<"ReadId", n>>
    /\ step' = <<"Idle">>
    /\ \/ /\ user' = [m \in DOMAIN user \cup {n} |-> IF m = n THEN NewUser ELSE user[m]]
          /\ promised' = promised \cup {n}
          /\ UNCHANGED unread
       \/ /\ unread' = unread \cup {n}
          /\ UNCHANGED <<user, promised>>
    /\ UNCHANGED <<row, unsaved, torn>>

-----------------------------------------------------------------------------
(* UpdateScore: four writes, one after the other. *)

Played(n) == user[n].wins + user[n].losses + user[n].draws

\* Mutant of Win: the loss is not counted.
WinUncounted(w, l) ==
  \E gain, loss \in Gains :
    user' = [user EXCEPT ![w].score = @ + gain, ![w].wins = @ + 1,
                         ![l].score = @ - loss]

\* A win raises the winner and lowers the loser, a draw moves both towards each
\* other; not by the same amount, for K depends on the games each has played.
Win(w, l) ==
  \E gain, loss \in Gains :
    user' = [user EXCEPT ![w].score = @ + gain, ![w].wins = @ + 1,
                         ![l].score = @ - loss, ![l].losses = @ + 1]

DrawnGame(w, l) ==
  \E gain, loss \in Gains :
    LET Moved(n, m) == CASE user[n].score < user[m].score -> gain
                         [] user[n].score > user[m].score -> -loss
                         [] OTHER                         -> 0
    IN  user' = [user EXCEPT ![w].score = @ + Moved(w, l), ![w].draws = @ + 1,
                             ![l].score = @ + Moved(l, w), ![l].draws = @ + 1]

UpdateScore(w, l) ==
  /\ Idle
  /\ w # l
  /\ Played(w) + Played(l) + 2 <= 2 * MaxGames
  /\ Win(w, l) \/ DrawnGame(w, l)
  /\ step' = <<"RankWinner", w, l>>
  /\ UNCHANGED <<row, promised, unread, unsaved, torn>>

\* UPDATE writes every field of the rating, or nothing.
SaveToDatabase(n, rating) ==
  \/ /\ row' = [row EXCEPT ![n] = WrittenRating(rating)]
     /\ unsaved' = unsaved \ {n}
  \/ /\ unsaved' = unsaved \cup {n}
     /\ UNCHANGED row

\* The returns before the save: below the first threshold, and above the last.
OffTheScale(score) == score < 0 \/ LowerBound(Points(score)) > Len(Thresholds)

UpdateRankByScore(n) ==
  LET rated == [user[n] EXCEPT !.rank = RankByScore(user[n].score)]
  IN  /\ user' = [user EXCEPT ![n] = rated]
      /\ IF OffTheScale(user[n].score) THEN UNCHANGED <<row, unsaved>>
                                       ELSE SaveToDatabase(n, rated)

RankWinner ==
  \E w, l \in Names :
    /\ step = <<"RankWinner", w, l>>
    /\ UpdateRankByScore(w)
    /\ step' = <<"RankLoser", w, l>>
    /\ UNCHANGED <<promised, unread, torn>>

RankLoser ==
  \E w, l \in Names :
    /\ step = <<"RankLoser", w, l>>
    /\ UpdateRankByScore(l)
    /\ step' = <<"SaveWinner", w, l>>
    /\ UNCHANGED <<promised, unread, torn>>

SaveWinner ==
  \E w, l \in Names :
    /\ step = <<"SaveWinner", w, l>>
    /\ SaveToDatabase(w, user[w])
    /\ step' = <<"SaveLoser", l>>
    /\ UNCHANGED <<user, promised, unread, torn>>

\* Mutant of SaveLoser: the loser is left to its rank's save.
SaveLoserNever ==
  \E l \in Names :
    /\ step = <<"SaveLoser", l>>
    /\ step' = <<"Idle">>
    /\ UNCHANGED <<row, user, promised, unread, unsaved, torn>>

SaveLoser ==
  \E l \in Names :
    /\ step = <<"SaveLoser", l>>
    /\ SaveToDatabase(l, user[l])
    /\ step' = <<"Idle">>
    /\ UNCHANGED <<user, promised, unread, torn>>

Next ==
  \/ LoadUsersFromDatabase
  \/ Crash
  \/ \E n \in Names : CreateUser(n)
  \/ ReadId
  \/ \E w, l \in DOMAIN user : UpdateScore(w, l)
  \/ RankWinner \/ RankLoser \/ SaveWinner \/ SaveLoser

Spec == Init /\ [][Next]_vars

-----------------------------------------------------------------------------
\* Every field has its type; a user who takes part in an operation is in memory.
TypeOK ==
  /\ DOMAIN row \subseteq Names /\ \A n \in DOMAIN row : row[n] \in Rating
  /\ DOMAIN user \subseteq Names /\ \A n \in DOMAIN user : user[n] \in Rating
  /\ \/ step \in {<<"Down">>, <<"Idle">>}
     \/ step \in {"ReadId"} \X (DOMAIN row)
     \/ step \in {"SaveLoser"} \X (DOMAIN user)
     \/ step \in {"RankWinner", "RankLoser", "SaveWinner"} \X (DOMAIN user) \X (DOMAIN user)
  /\ promised \subseteq Names /\ unread \subseteq Names /\ unsaved \subseteq Names
  /\ torn \in BOOLEAN

\* Whoever was told that its account exists has a row, whenever the server dies,
\* and every account in memory has one, which the saves rely on: an UPDATE
\* without a row changes nothing and reports success.  A name is taken without
\* an account, which can neither log in nor be registered, only after a read
\* has failed, and never longer than to the next start that reads everything.
NamesAgree ==
  /\ promised \cup DOMAIN user \subseteq DOMAIN row
  /\ Idle => DOMAIN row \ DOMAIN user \subseteq unread

\* Between two operations memory and table have the same rating of everybody
\* whose last write succeeded, up to the digits that are written.
RatingsAgree ==
  Idle => \A n \in DOMAIN user \ unsaved : row[n] = WrittenRating(user[n])

Total(f) == LET Add[s \in SUBSET DOMAIN f] ==
                  IF s = {} THEN 0
                  ELSE LET n == CHOOSE m \in s : TRUE IN f[n] + Add[s \ {n}]
            IN  Add[DOMAIN f]

\* In the table somebody lost each game that somebody won, and the drawn games
\* are counted in pairs, unless the process died, or a write is missing,
\* between the four writes of a game, or a user was loaded with a new rating.
BooksBalance ==
  Idle /\ ~torn /\ unsaved = {} =>
    /\ Total([n \in DOMAIN row |-> row[n].wins]) = Total([n \in DOMAIN row |-> row[n].losses])
    /\ Total([n \in DOMAIN row |-> row[n].draws]) % 2 = 0

\* The rank a score deserves: the highest whose threshold it reaches.
RankDeserved(score) ==
  IF score < 0 THEN 1
  ELSE CHOOSE i \in Ranks :
         /\ Thresholds[i] * Unit <= score
         /\ i < Len(Thresholds) => score < Thresholds[i + 1] * Unit

\* Nobody has a rank above the one its score deserves, and nobody is more than
\* one rank below: a score less than a point above a threshold is given the
\* rank before (game/User.cpp:162 compares the score, 150 has truncated it), and
\* so is one that was rounded up to a threshold when it was written.
RankFollowsScore ==
  \A n \in DOMAIN row :
    /\ row[n].rank <= RankDeserved(row[n].score)
    /\ row[n].rank >= RankDeserved(row[n].score) - 1

=============================================================================
