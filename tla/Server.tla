------------------------------- MODULE Server -------------------------------
(***************************************************************************)
(* The session layer: connections and descriptors, the sessions behind     *)
(* them, and the clean-up of silent sessions by the time wheel.            *)
(*                                                                         *)
(* Two threads share the maps without a lock: the one that receives and    *)
(* the worker of the wheel.  HandleClient receives a frame, OnFrame looks  *)
(* up the session of its socket and then uses it: these are three steps,   *)
(* and steps of the wheel may come in between.  Each step of a thread is   *)
(* taken as a whole otherwise.                                             *)
(*                                                                         *)
(* Time passes with the steps of the wheel, one a second in the code.      *)
(***************************************************************************)
EXTENDS Integers, FiniteSets

CONSTANTS Socks,          \* descriptors the operating system hands out
          MaxConns,       \* bound: how many connections are ever made
          MaxSessions,    \* bound: how many sessions are ever opened
          Slots,          \* of the wheel: 60 in the code
          CleanUpDelay,   \* 30 slots in the code
          Heartbeat,      \* HEARTBEAT_INTERVAL_MS: 30 seconds in the code
          MaxHandling     \* bound: how many seconds a frame takes to handle

ASSUME ServerAssumption ==
  /\ {MaxConns, MaxSessions, Heartbeat, MaxHandling} \subseteq Nat
  /\ Slots \in Nat \ {0}
  /\ CleanUpDelay \in 0..(Slots - 1)

Conns == 1..MaxConns
Ids == 1..MaxSessions
NoConn == 0
NoId == 0

\* A frame by its status, and for Active frames by whether they hold a packet.
Kinds == {"Hello", "Pending", "Packet", "Other"}

VARIABLES
  conn,             \* the connection behind each descriptor
  next_conn,
  client_sockets,
  sockToId,
  idToSession,
  nulls,            \* the ids for which idToSession holds a null pointer instead
  next_id,
  slots,            \* the sessions to check, by slot of the wheel
  current_slot,
  handling,         \* the frame the receive thread is handling, if any
  reused,           \* a descriptor was handed out while a session had it
  up,               \* FALSE once the process has crashed or the server has stopped
  upper,            \* the sessions that the layer above has had a packet from
  seen              \* <<c, i>>: connection c has sent or got something of session i

sockets == <<conn, next_conn, client_sockets>>
sessions == <<sockToId, idToSession, nulls, next_id>>
wheel == <<slots, current_slot>>
vars == <<conn, next_conn, client_sockets, sockToId, idToSession, nulls, next_id,
          slots, current_slot, handling, reused, up, upper, seen>>

\* silent: seconds since the last heartbeat, as the wheel counts them.
SessionType == [sock : Socks, isActive : BOOLEAN, silent : 0..(Heartbeat + 1)]
Sessions == DOMAIN idToSession

\* time: the seconds since it was received.  id: its session, once looked up.
FrameType == [sock : Socks, kind : Kinds, id : Ids \cup {NoId}, time : 0..MaxHandling]

Init ==
  /\ conn = [s \in Socks |-> NoConn]
  /\ next_conn = 1
  /\ client_sockets = {}
  /\ sockToId = [s \in Socks |-> NoId]
  /\ idToSession = [i \in {} |-> NoId]
  /\ nulls = {}
  /\ next_id = 1
  /\ slots = [k \in 0..(Slots - 1) |-> {}]
  /\ current_slot = 0
  /\ handling = {}
  /\ reused = FALSE
  /\ up = TRUE
  /\ upper = {}
  /\ seen = {}

-----------------------------------------------------------------------------
\* The receive thread.

\* Between two frames it is in the loop of Run: at select, at the end of which it
\* accepts, receives, or leaves the loop.
Receiving == up /\ handling = {}

\* The operating system is free to hand out a descriptor again once it is closed.
Connect(s) ==
  /\ Receiving
  /\ next_conn \in Conns
  /\ conn[s] = NoConn
  /\ conn' = [conn EXCEPT ![s] = next_conn]
  /\ next_conn' = next_conn + 1
  /\ client_sockets' = client_sockets \cup {s}
  /\ reused' = (reused \/ sockToId[s] # NoId)
  /\ UNCHANGED <<sessions, wheel, handling, up, upper, seen>>

\* The descriptors are closed.  Their sessions stay in both maps.
DisConnected(closed) ==
  /\ conn' = [s \in Socks |-> IF s \in closed THEN NoConn ELSE conn[s]]
  /\ client_sockets' = client_sockets \ closed
  /\ UNCHANGED next_conn

\* recv tells that the client has gone.
ClientGone(s) ==
  /\ Receiving
  /\ s \in client_sockets
  /\ DisConnected({s})
  /\ UNCHANGED <<sessions, wheel, handling, reused, up, upper, seen>>

\* Mutant of CheckSlot: one slot too early.
SlotBefore == (current_slot + CleanUpDelay - 1) % Slots

\* Where the wheel has the check of a session that is opened now.
CheckSlot == (current_slot + CleanUpDelay) % Slots

NewSession(s) ==
  /\ next_id \in Ids
  /\ idToSession' =
       [i \in Sessions \cup {next_id} |->
          IF i = next_id THEN [sock |-> s, isActive |-> FALSE, silent |-> 0]
                         ELSE idToSession[i]]
  /\ sockToId' = [sockToId EXCEPT ![s] = next_id]
  /\ next_id' = next_id + 1
  /\ slots' = [slots EXCEPT ![CheckSlot] = slots[CheckSlot] \cup {next_id}]
  /\ UNCHANGED <<nulls, current_slot>>

HandleClient(s, kind) ==
  /\ Receiving
  /\ s \in client_sockets
  /\ handling' = {[sock |-> s, kind |-> kind, id |-> NoId, time |-> 0]}
  /\ UNCHANGED <<sockets, sessions, wheel, reused, up, upper, seen>>

\* The first half of OnFrame: which session is it?  The descriptor may have been
\* closed since.
LookUp(frame) ==
  /\ up
  /\ frame \in handling
  /\ frame.id = NoId
  /\ IF sockToId[frame.sock] = NoId
     THEN NewSession(frame.sock)
     ELSE UNCHANGED <<sessions, wheel>>
  /\ handling' = {[frame EXCEPT !.id = sockToId'[frame.sock]]}
  /\ UNCHANGED <<sockets, reused, up, upper, seen>>

\* Bound: a frame that would open a session too many is lost.
Ignored(frame) ==
  /\ up
  /\ frame \in handling
  /\ frame.id = NoId /\ sockToId[frame.sock] = NoId /\ next_id \notin Ids
  /\ handling' = {}
  /\ UNCHANGED <<sockets, sessions, wheel, reused, up, upper, seen>>

\* Who sees a packet that is sent to session i: the connection that has the
\* descriptor now.
Reached(i) == {<<conn[idToSession[i].sock], i>>} \cap (Conns \X Ids)

Answer(frame) == seen \cup ({<<conn[frame.sock], frame.id>>} \cap (Conns \X Ids))

\* Hello is answered with the keys of the session, and other frames with an error.
AnswerOnly(frame) ==
  /\ \/ frame.kind \in {"Hello", "Other"}
     \/ frame.kind = "Packet" /\ ~idToSession[frame.id].isActive
  /\ seen' = Answer(frame)
  /\ UNCHANGED <<idToSession, upper>>

Activate(frame) ==
  /\ frame.kind = "Pending"
  /\ idToSession' = [idToSession EXCEPT ![frame.id].isActive = TRUE]
  /\ seen' = Answer(frame)
  /\ UNCHANGED upper

\* The callback of the layer above, which may send packets to any session it
\* knows.
CallUpper(frame) ==
  /\ upper' = upper \cup {frame.id}
  /\ \E to \in SUBSET (upper' \cap Sessions) :
       seen' = Answer(frame) \cup UNION {Reached(i) : i \in to}

\* HeartBeat, and the callback.
HandlePacket(frame) ==
  /\ frame.kind = "Packet"
  /\ idToSession[frame.id].isActive
  /\ idToSession' = [idToSession EXCEPT ![frame.id].silent = 0]
  /\ CallUpper(frame)

\* The second half of OnFrame.
UseSession(frame) ==
  /\ up
  /\ frame \in handling
  /\ frame.id \in Sessions
  /\ AnswerOnly(frame) \/ Activate(frame) \/ HandlePacket(frame)
  /\ handling' = {}
  /\ UNCHANGED <<sockets, sockToId, nulls, next_id, wheel, reused, up>>

\* The session was cleaned up after OnFrame had its pointer: the process crashes,
\* or goes on with what is left of the session.
UseDangling(frame) ==
  /\ up' \in BOOLEAN
  /\ \/ UNCHANGED <<upper, seen>>
     \/ frame.kind = "Packet" /\ CallUpper(frame)
  /\ UNCHANGED nulls

\* The session was cleaned up before that: operator[] puts a null pointer into
\* the map, which only the answer to an unknown status does not use.
UseNull(frame) ==
  /\ up' \in BOOLEAN
  /\ up' => frame.kind = "Other"
  /\ nulls' = nulls \cup {frame.id}
  /\ UNCHANGED <<upper, seen>>

UseGoneSession(frame) ==
  /\ up
  /\ frame \in handling
  /\ frame.id \in Ids \ Sessions
  /\ UseDangling(frame) \/ UseNull(frame)
  /\ handling' = {}
  /\ UNCHANGED <<sockets, sockToId, idToSession, next_id, wheel, reused>>

Crashes ==
  /\ up' = FALSE
  /\ handling' = {}
  /\ UNCHANGED <<sockets, sessions, wheel, reused, upper, seen>>

\* The callback sends a packet to a session for which there is a null pointer.
SendToNull(frame) ==
  /\ up
  /\ frame \in handling
  /\ frame.kind = "Packet"
  /\ frame.id \in Sessions /\ idToSession[frame.id].isActive
  /\ upper \cap nulls # {}
  /\ Crashes

\* HandleClient looks for the next frame in a buffer that the worker of the wheel
\* has erased together with the descriptor.
ReadGoneBuffer(frame) ==
  /\ up
  /\ frame \in handling
  /\ frame.sock \notin client_sockets
  /\ Crashes

-----------------------------------------------------------------------------
\* The worker of the wheel.

Silent(i) == idToSession[i].silent + 1

\* Silence is measured in milliseconds.  The first step may come at once, so n + 1
\* steps are n seconds and what the worker oversleeps in them: after as many steps
\* as the interval has seconds it is over or not, after one step more it is.
TimedOut(ids, removed) ==
  /\ removed \subseteq {i \in ids : Silent(i) >= Heartbeat}
  /\ {i \in ids : Silent(i) > Heartbeat} \subseteq removed

\* A second more of silence, counted up to where it makes a difference.
Aged(ids) ==
  [i \in ids |-> [idToSession[i] EXCEPT !.silent = IF @ > Heartbeat THEN @ ELSE Silent(i)]]

SocksOf(ids) == {idToSession[i].sock : i \in ids}

Unmapped(socks) == [s \in Socks |-> IF s \in socks THEN NoId ELSE sockToId[s]]

\* Mutant of CleanUp: forgets the descriptor but keeps the session.
CleanUpDescriptor(removed) ==
  /\ DisConnected(SocksOf(removed))
  /\ sockToId' = Unmapped(SocksOf(removed))
  /\ idToSession' = Aged(Sessions)
  /\ UNCHANGED <<nulls, next_id>>

\* Mutant of CleanUp: forgets the session but keeps the descriptor.
CleanUpSession(removed) ==
  /\ DisConnected(SocksOf(removed))
  /\ idToSession' = Aged(Sessions \ removed)
  /\ UNCHANGED <<sockToId, nulls, next_id>>

\* CleanUp takes the sessions out of both maps and closes their descriptors,
\* whoever is behind them by now.
CleanUp(removed) ==
  /\ DisConnected(SocksOf(removed))
  /\ sockToId' = Unmapped(SocksOf(removed))
  /\ idToSession' = Aged(Sessions \ removed)
  /\ UNCHANGED <<nulls, next_id>>

\* The worker closes a descriptor before it takes it off the list that the receive
\* thread polls.  In between select may fail on it: then Run leaves its loop, and
\* the server stops for everyone.
SelectFails(removed) ==
  /\ Receiving
  /\ SocksOf(removed) \cap client_sockets # {}
  /\ up' = FALSE

NextSlot == (current_slot + 1) % Slots

\* A second passes, and the tasks of the current slot are done and forgotten.
WheelStep ==
  /\ up
  /\ \A frame \in handling : frame.time < MaxHandling
  /\ \E removed \in SUBSET Sessions :
       /\ TimedOut(slots[current_slot] \cap Sessions, removed)
       /\ CleanUp(removed)
       /\ UNCHANGED up \/ SelectFails(removed)
  /\ slots' = [slots EXCEPT ![current_slot] = {}]
  /\ current_slot' = NextSlot
  /\ handling' = {[frame EXCEPT !.time = @ + 1] : frame \in handling}
  /\ UNCHANGED <<reused, upper, seen>>

-----------------------------------------------------------------------------
ReceiveStep ==
  \E frame \in handling :
    \/ LookUp(frame)
    \/ Ignored(frame)
    \/ UseSession(frame)
    \/ UseGoneSession(frame)
    \/ SendToNull(frame)
    \/ ReadGoneBuffer(frame)

Other ==
  \/ \E s \in Socks : ClientGone(s)
  \/ \E s \in Socks, kind \in Kinds : HandleClient(s, kind)
  \/ ReceiveStep
  \/ WheelStep

Next == Other \/ \E s \in Socks : Connect(s)

\* The wheel turns and the receive thread goes on; clients need not do anything.
Fairness == WF_vars(WheelStep) /\ WF_vars(ReceiveStep)

Spec == Init /\ [][Next]_vars /\ Fairness

-----------------------------------------------------------------------------
TypeOK ==
  /\ conn \in [Socks -> Conns \cup {NoConn}]
  /\ next_conn \in 1..(MaxConns + 1)
  /\ client_sockets \subseteq Socks
  /\ sockToId \in [Socks -> Ids \cup {NoId}]
  /\ Sessions \subseteq Ids
  /\ idToSession \in [Sessions -> SessionType]
  /\ nulls \subseteq Ids
  /\ next_id \in 1..(MaxSessions + 1)
  /\ slots \in [0..(Slots - 1) -> SUBSET Ids]
  /\ current_slot \in 0..(Slots - 1)
  /\ handling \subseteq FrameType
  /\ reused \in BOOLEAN
  /\ up \in BOOLEAN
  /\ upper \subseteq Ids
  /\ seen \subseteq Conns \X Ids

\* Whatever is received, closed and cleaned up: the two maps are inverse to
\* each other, but for null pointers.
MapsAreInverse ==
  \A s \in Socks, i \in Ids :
    sockToId[s] = i <=> (i \in Sessions /\ idToSession[i].sock = s)

\* A session has one connection: no other uses it, and no other gets a packet
\* that is meant for it.  The status NewSession (Frame.h:26, "new session")
\* answers a Hello that "requests a session" (Frame.h:19); after a descriptor is
\* handed out again it names the session of the client before.
SessionsArePrivate ==
  \A entry, other \in seen : entry[2] = other[2] => entry[1] = other[1]

\* Nothing else makes two connections share a session: as long as no descriptor is
\* handed out while a session has it, sessions are private, even when they are
\* cleaned up while their frames are handled.
OnlyReuseShares == reused \/ SessionsArePrivate

\* The four ways in which two threads without a lock can end the process all begin
\* with the wheel: it goes on as long as no session has been cleaned up, whatever
\* is received, closed and handed out again.
OnlyCleanUpEnds == up \/ Sessions # 1..(next_id - 1)

\* A session that never sends a packet is cleaned up, whatever else it sends, or
\* the process ends.
UnusedIsCleanedUp ==
  \A i \in Ids : (i \in Sessions) ~> (i \notin Sessions \/ i \in upper \/ ~up)

=============================================================================
