--------------------------- MODULE PoliteHandler ----------------------------
(***************************************************************************)
(* What clients must refrain from for the session maps of ObjectManager to *)
(* mean what core/ObjectManager.h says they mean: one is the "reverse map" *)
(* (line 21) of the other, and no method repairs it when the other one     *)
(* changes.  Handler!Spec violates the claim.  It holds under PoliteSpec,  *)
(* where a client logs in only from a session nobody is logged in from, as *)
(* a user who is not online, and enters a room only when the room map has  *)
(* it in none.                                                             *)
(***************************************************************************)
EXTENDS Handler

\* Each session map is the inverse of the other.
SessionMapsAreInverse ==
  \A s \in Sessions, u \in Users \cup Guests :
    sessionIdToUserIdMap[s] = u <=> userIdToSessionIdMap[u] = s

-----------------------------------------------------------------------------
Fresh(s, u) == Caller(s) = NoUser /\ userIdToSessionIdMap[u] = NoSession

PoliteAuth(s) ==
  \/ \E u \in Users : Fresh(s, u) /\ (Login(s, u) \/ SignIn(s, u))
  \/ Fresh(s, Guest(s)) /\ LoginAsGuest(s)
  \/ LogOut(s)

PoliteLobby(s) == LoggedIn(s) /\ RoomOf(s) = NoRoom /\ HandleLobbyPacket(s)

PoliteNext ==
  \E s \in Sessions :
    \/ PoliteAuth(s)
    \/ PoliteLobby(s)
    \/ HandleRoomPacket(s)
    \/ HandleGamePacket(s)

PoliteSpec == Init /\ [][PoliteNext]_objects

=============================================================================
