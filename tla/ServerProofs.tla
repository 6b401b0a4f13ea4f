----------------------------- MODULE ServerProofs -----------------------------
(***************************************************************************)
(* Proofs about Server, for any number of connections and sessions, any    *)
(* wheel and any interval.                                                 *)
(***************************************************************************)
EXTENDS Server, TLAPS

\* A session is not opened twice.
IdsAreFresh == \A i \in Sessions : i < next_id

IInv ==
  /\ TypeOK
  /\ MapsAreInverse
  /\ IdsAreFresh

LEMMA InitIInv == Init => IInv
<1> SUFFICES ASSUME Init PROVE IInv  OBVIOUS
<1>1. Sessions = {}
  BY DEF Init, Sessions
<1>2. idToSession \in [Sessions -> SessionType]
  BY <1>1 DEF Init
<1>3. next_conn \in 1..(MaxConns + 1) /\ next_id \in 1..(MaxSessions + 1)
  BY ServerAssumption DEF Init
<1>4. slots \in [0..(Slots - 1) -> SUBSET Ids] /\ current_slot \in 0..(Slots - 1)
  BY ServerAssumption DEF Init
<1>5. TypeOK
  BY <1>1, <1>2, <1>3, <1>4 DEF Init, TypeOK
<1>6. MapsAreInverse
  BY <1>1 DEF Init, MapsAreInverse, NoId, Ids
<1>7. IdsAreFresh
  BY <1>1 DEF Init, IdsAreFresh
<1> QED  BY <1>5, <1>6, <1>7 DEF IInv

LEMMA ConnectIInv ==
  ASSUME IInv, NEW s \in Socks, Connect(s)
  PROVE  IInv'
<1>1. /\ UNCHANGED <<sockToId, idToSession, nulls, next_id, slots, current_slot, handling,
                     up, upper, seen>>
      /\ reused' \in BOOLEAN
      /\ next_conn \in Conns /\ next_conn' = next_conn + 1
      /\ conn' = [conn EXCEPT ![s] = next_conn]
      /\ client_sockets' = client_sockets \cup {s}
      /\ Sessions' = Sessions
  BY DEF Connect, sessions, wheel, Sessions
<1>2. next_conn' \in 1..(MaxConns + 1)
  BY <1>1, ServerAssumption DEF Conns
<1>3. TypeOK'
  BY <1>1, <1>2 DEF IInv, TypeOK
<1>6. MapsAreInverse' /\ IdsAreFresh'
  BY <1>1 DEF IInv, MapsAreInverse, IdsAreFresh
<1> QED  BY <1>3, <1>6 DEF IInv

LEMMA DisConnectedIInv ==
  ASSUME IInv, NEW closed, DisConnected(closed)
  PROVE  /\ conn' \in [Socks -> Conns \cup {NoConn}]
         /\ client_sockets' \subseteq Socks
         /\ next_conn' \in 1..(MaxConns + 1)
BY DEF IInv, TypeOK, DisConnected

LEMMA ClientGoneIInv ==
  ASSUME IInv, NEW s \in Socks, ClientGone(s)
  PROVE  IInv'
<1>1. /\ UNCHANGED <<sockToId, idToSession, nulls, next_id, slots, current_slot, handling,
                     reused, up, upper, seen>>
      /\ Sessions' = Sessions
      /\ DisConnected({s})
  BY DEF ClientGone, sessions, wheel, Sessions
<1>2. TypeOK'
  BY <1>1, DisConnectedIInv DEF IInv, TypeOK
<1>3. MapsAreInverse' /\ IdsAreFresh'
  BY <1>1 DEF IInv, MapsAreInverse, IdsAreFresh
<1> QED  BY <1>2, <1>3 DEF IInv

LEMMA NewSessionIInv ==
  ASSUME IInv, NEW s \in Socks, sockToId[s] = NoId, NewSession(s)
  PROVE  /\ sockToId' \in [Socks -> Ids \cup {NoId}]
         /\ sockToId'[s] = next_id /\ next_id \in Ids
         /\ Sessions' = Sessions \cup {next_id} /\ Sessions' \subseteq Ids
         /\ idToSession' \in [Sessions' -> SessionType]
         /\ \A i \in Sessions : idToSession'[i] = idToSession[i]
         /\ idToSession'[next_id].sock = s
         /\ next_id' \in 1..(MaxSessions + 1)
         /\ slots' \in [0..(Slots - 1) -> SUBSET Ids]
         /\ MapsAreInverse' /\ IdsAreFresh'
<1> DEFINE new == [sock |-> s, isActive |-> FALSE, silent |-> 0]
<1>1. /\ next_id \in Ids /\ next_id \in Nat /\ next_id \notin Sessions
      /\ next_id' = next_id + 1
      /\ sockToId' = [sockToId EXCEPT ![s] = next_id]
      /\ idToSession' = [i \in Sessions \cup {next_id} |->
                           IF i = next_id THEN new ELSE idToSession[i]]
  BY DEF NewSession, IInv, IdsAreFresh, Ids
<1>2. new \in SessionType /\ new.sock = s
  BY ServerAssumption DEF SessionType
<1> HIDE DEF new
<1>3. Sessions' = Sessions \cup {next_id} /\ Sessions \subseteq Ids
  BY <1>1 DEF Sessions, IInv, TypeOK
<1>4. /\ idToSession'[next_id] = new
      /\ \A i \in Sessions : idToSession'[i] = idToSession[i]
  BY <1>1
<1>5. idToSession' \in [Sessions' -> SessionType]
  BY <1>1, <1>2, <1>3 DEF IInv, TypeOK
<1>6. /\ sockToId' \in [Socks -> Ids \cup {NoId}]
      /\ sockToId'[s] = next_id
      /\ \A other \in Socks \ {s} : sockToId'[other] = sockToId[other]
  BY <1>1 DEF IInv, TypeOK
<1>7. \A i \in Sessions : idToSession[i].sock # s
  BY <1>3 DEF IInv, MapsAreInverse, Ids, NoId
<1>8. \A other \in Socks : sockToId[other] # next_id
  BY <1>1 DEF IInv, MapsAreInverse
<1>9. MapsAreInverse'
  <2> SUFFICES ASSUME NEW t \in Socks, NEW i \in Ids
               PROVE  sockToId'[t] = i <=> (i \in Sessions' /\ idToSession'[i].sock = t)
    BY DEF MapsAreInverse
  <2>1. CASE i = next_id
    BY <2>1, <1>2, <1>3, <1>4, <1>6, <1>8
  <2>2. CASE i # next_id /\ t = s
    BY <2>2, <1>3, <1>4, <1>6, <1>7
  <2>3. CASE i # next_id /\ t # s
    BY <2>3, <1>3, <1>4, <1>6 DEF IInv, MapsAreInverse
  <2> QED  BY <2>1, <2>2, <2>3
<1>10. next_id' \in 1..(MaxSessions + 1)
  BY <1>1, ServerAssumption DEF Ids
<1>11. Sessions \subseteq Nat
  BY <1>3 DEF Ids
<1>12. IdsAreFresh'
  BY <1>1, <1>3, <1>11 DEF IInv, IdsAreFresh
<1>13. slots' \in [0..(Slots - 1) -> SUBSET Ids]
  BY <1>1 DEF NewSession, IInv, TypeOK
<1> QED
  BY <1>1, <1>2, <1>3, <1>4, <1>5, <1>6, <1>9, <1>10, <1>12, <1>13

LEMMA HandleClientIInv ==
  ASSUME IInv, NEW s \in Socks, NEW kind \in Kinds, HandleClient(s, kind)
  PROVE  IInv'
<1>1. /\ UNCHANGED <<conn, next_conn, client_sockets, sockToId, idToSession, nulls, next_id,
                     slots, current_slot, reused, up, upper, seen>>
      /\ Sessions' = Sessions
      /\ handling' = {[sock |-> s, kind |-> kind, id |-> NoId, time |-> 0]}
  BY DEF HandleClient, sockets, sessions, wheel, Sessions
<1>2. handling' \subseteq FrameType
  BY <1>1, ServerAssumption DEF FrameType
<1>3. TypeOK'
  BY <1>1, <1>2 DEF IInv, TypeOK
<1>4. MapsAreInverse' /\ IdsAreFresh'
  BY <1>1 DEF IInv, MapsAreInverse, IdsAreFresh
<1> QED  BY <1>3, <1>4 DEF IInv

LEMMA LookUpIInv ==
  ASSUME IInv, NEW frame \in handling, LookUp(frame)
  PROVE  IInv'
<1> DEFINE s == frame.sock
<1>1. /\ UNCHANGED <<conn, next_conn, client_sockets, nulls, current_slot, reused, up, upper, seen>>
      /\ handling' = {[frame EXCEPT !.id = sockToId'[s]]}
      /\ frame \in FrameType /\ s \in Socks
  BY DEF LookUp, sockets, sessions, NewSession, wheel, IInv, TypeOK, FrameType
<1>3. ASSUME sockToId'[s] \in Ids
      PROVE  handling' \subseteq FrameType
  BY <1>1, <1>3 DEF FrameType
<1> HIDE DEF s
<1>4. CASE sockToId[s] = NoId
  <2>1. NewSession(s)
    BY <1>4 DEF LookUp, s
  <2>2. sockToId'[s] \in Ids
    BY <1>1, <2>1, <1>4, NewSessionIInv
  <2>3. TypeOK'
    BY <1>1, <1>3, <1>4, <2>1, <2>2, NewSessionIInv DEF IInv, TypeOK
  <2> QED  BY <1>1, <1>4, <2>1, <2>3, NewSessionIInv DEF IInv
<1>5. CASE sockToId[s] # NoId
  <2>1. UNCHANGED <<sockToId, idToSession, next_id, slots>> /\ Sessions' = Sessions
    BY <1>5 DEF LookUp, sessions, wheel, Sessions, s
  <2>2. sockToId'[s] \in Ids
    BY <1>1, <1>5, <2>1 DEF IInv, TypeOK
  <2>3. TypeOK'
    BY <1>1, <1>3, <2>1, <2>2 DEF IInv, TypeOK
  <2>4. MapsAreInverse' /\ IdsAreFresh'
    BY <2>1 DEF IInv, MapsAreInverse, IdsAreFresh
  <2> QED  BY <2>3, <2>4 DEF IInv
<1> QED  BY <1>4, <1>5

\* Using a session changes neither its socket nor which sessions there are.
LEMMA UseSessionFacts ==
  ASSUME IInv, NEW frame \in handling, UseSession(frame)
  PROVE  /\ Sessions' = Sessions
         /\ idToSession' \in [Sessions -> SessionType]
         /\ \A i \in Sessions : idToSession'[i].sock = idToSession[i].sock
         /\ frame.id \in Sessions /\ frame.id \in Ids
<1>1. frame.id \in Sessions /\ frame.id \in Ids
  BY DEF UseSession, IInv, TypeOK, FrameType
<1> DEFINE session == idToSession[frame.id]
           Replaced(active, silent) ==
             idToSession' = [idToSession EXCEPT ![frame.id] =
                               [@ EXCEPT !.isActive = active, !.silent = silent]]
<1>2. session \in SessionType
  BY <1>1 DEF IInv, TypeOK
<1>3. ASSUME NEW active \in BOOLEAN, NEW silent \in 0..(Heartbeat + 1), Replaced(active, silent)
      PROVE  /\ idToSession' \in [Sessions -> SessionType]
             /\ \A i \in Sessions : idToSession'[i].sock = idToSession[i].sock
  BY <1>1, <1>2, <1>3 DEF IInv, TypeOK, SessionType
<1>4. CASE AnswerOnly(frame)
  <2>1. Replaced(session.isActive, session.silent)
    BY <1>1, <1>2, <1>4 DEF AnswerOnly, IInv, TypeOK, SessionType
  <2>2. session.isActive \in BOOLEAN /\ session.silent \in 0..(Heartbeat + 1)
    BY <1>2 DEF SessionType
  <2> HIDE DEF Replaced, session
  <2>3. /\ idToSession' \in [Sessions -> SessionType]
        /\ \A i \in Sessions : idToSession'[i].sock = idToSession[i].sock
    BY <1>3, <2>1, <2>2
  <2> QED  BY <1>1, <2>3 DEF Sessions
<1>5. CASE Activate(frame)
  <2>1. Replaced(TRUE, session.silent)
    BY <1>1, <1>2, <1>5 DEF Activate, IInv, TypeOK, SessionType
  <2>2. session.silent \in 0..(Heartbeat + 1)
    BY <1>2 DEF SessionType
  <2> HIDE DEF Replaced, session
  <2>3. /\ idToSession' \in [Sessions -> SessionType]
        /\ \A i \in Sessions : idToSession'[i].sock = idToSession[i].sock
    BY <1>3, <2>1, <2>2
  <2> QED  BY <1>1, <2>3 DEF Sessions
<1>6. CASE HandlePacket(frame)
  <2>1. Replaced(session.isActive, 0)
    BY <1>1, <1>2, <1>6 DEF HandlePacket, IInv, TypeOK, SessionType
  <2>2. session.isActive \in BOOLEAN /\ 0 \in 0..(Heartbeat + 1)
    BY <1>2, ServerAssumption DEF SessionType
  <2> HIDE DEF Replaced, session
  <2>3. /\ idToSession' \in [Sessions -> SessionType]
        /\ \A i \in Sessions : idToSession'[i].sock = idToSession[i].sock
    BY <1>3, <2>1, <2>2
  <2> QED  BY <1>1, <2>3 DEF Sessions
<1> QED  BY <1>4, <1>5, <1>6 DEF UseSession

\* What a connection comes to see is a session it had a frame of, or one whose
\* descriptor it has.
LEMMA UseSessionSeen ==
  ASSUME IInv, NEW frame \in handling, UseSession(frame)
  PROVE  \A entry \in seen' \ seen :
           /\ entry \in Conns \X Ids
           /\ \/ entry = <<conn[frame.sock], frame.id>>
              \/ entry[2] \in Sessions /\ entry[1] = conn[idToSession[entry[2]].sock]
BY DEF UseSession, AnswerOnly, Activate, HandlePacket, CallUpper, Answer, Reached

LEMMA UseSessionIInv ==
  ASSUME IInv, NEW frame \in handling, UseSession(frame)
  PROVE  IInv'
<1>1. /\ UNCHANGED <<conn, next_conn, client_sockets, sockToId, nulls, next_id, slots, current_slot,
                     reused, up>>
      /\ handling' = {}
  BY DEF UseSession, sockets, wheel
<1>2. /\ Sessions' = Sessions
      /\ idToSession' \in [Sessions -> SessionType]
      /\ \A i \in Sessions : idToSession'[i].sock = idToSession[i].sock
      /\ frame.id \in Ids
  BY UseSessionFacts
<1>3. upper' \subseteq Ids
  BY <1>2 DEF IInv, TypeOK, UseSession, AnswerOnly, Activate, HandlePacket, CallUpper
<1>4. seen' \subseteq Conns \X Ids
  BY UseSessionSeen DEF IInv, TypeOK
<1>5. TypeOK'
  BY <1>1, <1>2, <1>3, <1>4 DEF IInv, TypeOK
<1>6. MapsAreInverse' /\ IdsAreFresh'
  BY <1>1, <1>2 DEF IInv, MapsAreInverse, IdsAreFresh
<1> QED  BY <1>5, <1>6 DEF IInv

\* So it is with what is left of a session that has gone.
LEMMA UseGoneSessionSeen ==
  ASSUME IInv, NEW frame \in handling, UseGoneSession(frame)
  PROVE  \A entry \in seen' \ seen :
           /\ entry \in Conns \X Ids
           /\ \/ entry = <<conn[frame.sock], frame.id>>
              \/ entry[2] \in Sessions /\ entry[1] = conn[idToSession[entry[2]].sock]
BY DEF UseGoneSession, UseDangling, UseNull, CallUpper, Answer, Reached

LEMMA UseGoneSessionIInv ==
  ASSUME IInv, NEW frame \in handling, UseGoneSession(frame)
  PROVE  IInv'
<1>1. /\ UNCHANGED <<conn, next_conn, client_sockets, sockToId, idToSession, next_id,
                     slots, current_slot, reused>>
      /\ handling' = {} /\ up' \in BOOLEAN /\ Sessions' = Sessions
      /\ frame.id \in Ids
  BY DEF UseGoneSession, UseDangling, UseNull, sockets, wheel, Sessions
<1>2. upper' \subseteq Ids /\ nulls' \subseteq Ids
  BY <1>1 DEF UseGoneSession, UseDangling, UseNull, CallUpper, IInv, TypeOK
<1>3. seen' \subseteq Conns \X Ids
  BY UseGoneSessionSeen DEF IInv, TypeOK
<1>4. TypeOK'
  BY <1>1, <1>2, <1>3 DEF IInv, TypeOK
<1>5. MapsAreInverse' /\ IdsAreFresh'
  BY <1>1 DEF IInv, MapsAreInverse, IdsAreFresh
<1> QED  BY <1>4, <1>5 DEF IInv

\* A step that only drops the frame in hand, or the process.
LEMMA DroppedIInv ==
  ASSUME IInv, NEW frame \in handling,
         Ignored(frame) \/ SendToNull(frame) \/ ReadGoneBuffer(frame)
  PROVE  IInv'
<1>1. /\ UNCHANGED <<conn, next_conn, client_sockets, sockToId, idToSession, nulls, next_id,
                     slots, current_slot, reused, upper, seen>>
      /\ handling' = {} /\ up' \in BOOLEAN /\ Sessions' = Sessions
  BY DEF Ignored, SendToNull, ReadGoneBuffer, Crashes, sockets, sessions, wheel, Sessions,
         IInv, TypeOK
<1>2. TypeOK'
  BY <1>1 DEF IInv, TypeOK
<1>3. MapsAreInverse' /\ IdsAreFresh'
  BY <1>1 DEF IInv, MapsAreInverse, IdsAreFresh
<1> QED  BY <1>2, <1>3 DEF IInv

LEMMA CleanUpFacts ==
  ASSUME IInv, NEW removed \in SUBSET Sessions, CleanUp(removed)
  PROVE  /\ Sessions' = Sessions \ removed
         /\ idToSession' \in [Sessions' -> SessionType]
         /\ \A i \in Sessions' : idToSession'[i].sock = idToSession[i].sock
         /\ sockToId' \in [Socks -> Ids \cup {NoId}]
         /\ \A s \in Socks :
              sockToId'[s] = IF s \in SocksOf(removed) THEN NoId ELSE sockToId[s]
<1>1. idToSession' = Aged(Sessions \ removed)
  BY DEF CleanUp
<1>2. Sessions' = Sessions \ removed
  BY <1>1 DEF Sessions, Aged
<1>3. \A i \in Sessions : /\ Aged(Sessions)[i] \in SessionType
                          /\ Aged(Sessions)[i].sock = idToSession[i].sock
  <2> TAKE i \in Sessions
  <2> DEFINE session == idToSession[i]
             silent == IF session.silent > Heartbeat THEN session.silent ELSE session.silent + 1
  <2>1. session \in SessionType
    BY DEF IInv, TypeOK
  <2>2. Aged(Sessions)[i] = [session EXCEPT !.silent = silent]
    BY DEF Aged, Silent
  <2>3. silent \in 0..(Heartbeat + 1)
    BY <2>1, ServerAssumption DEF SessionType
  <2> HIDE DEF session, silent
  <2> QED  BY <2>1, <2>2, <2>3 DEF SessionType, session
<1>4. \A i \in Sessions \ removed : idToSession'[i] = Aged(Sessions)[i]
  BY <1>1 DEF Aged
<1>5. idToSession' \in [Sessions' -> SessionType]
  <2>1. idToSession' = [i \in Sessions \ removed |-> idToSession'[i]]
    BY <1>1 DEF Aged
  <2> QED  BY <1>2, <1>3, <1>4, <2>1
<1>6. /\ sockToId' \in [Socks -> Ids \cup {NoId}]
      /\ \A s \in Socks :
           sockToId'[s] = IF s \in SocksOf(removed) THEN NoId ELSE sockToId[s]
  BY DEF CleanUp, Unmapped, IInv, TypeOK
<1> QED  BY <1>2, <1>3, <1>4, <1>5, <1>6

LEMMA WheelStepIInv ==
  ASSUME IInv, WheelStep
  PROVE  IInv'
<1>1. PICK removed \in SUBSET Sessions :
        TimedOut(slots[current_slot] \cap Sessions, removed) /\ CleanUp(removed)
  BY DEF WheelStep
<1>2. DisConnected(SocksOf(removed)) /\ UNCHANGED <<nulls, next_id>>
  BY <1>1 DEF CleanUp
<1>3. /\ Sessions' = Sessions \ removed
      /\ idToSession' \in [Sessions' -> SessionType]
      /\ \A i \in Sessions' : idToSession'[i].sock = idToSession[i].sock
      /\ sockToId' \in [Socks -> Ids \cup {NoId}]
      /\ \A s \in Socks :
           sockToId'[s] = IF s \in SocksOf(removed) THEN NoId ELSE sockToId[s]
  BY <1>1, CleanUpFacts
<1>4. slots' \in [0..(Slots - 1) -> SUBSET Ids]
  BY DEF WheelStep, IInv, TypeOK
<1>5. current_slot' \in 0..(Slots - 1)
  BY ServerAssumption DEF WheelStep, NextSlot, IInv, TypeOK
<1>6. handling' \subseteq FrameType
  <2>1. \A frame \in handling :
          /\ frame \in FrameType
          /\ frame.time + 1 \in 0..MaxHandling
    BY ServerAssumption DEF WheelStep, IInv, TypeOK, FrameType
  <2>2. \A frame \in handling : [frame EXCEPT !.time = @ + 1] \in FrameType
    BY <2>1 DEF FrameType
  <2> QED  BY <2>2 DEF WheelStep
<1>7. /\ conn' \in [Socks -> Conns \cup {NoConn}]
      /\ client_sockets' \subseteq Socks
      /\ next_conn' \in 1..(MaxConns + 1)
  BY <1>2, DisConnectedIInv
<1>8. UNCHANGED <<reused, upper, seen>> /\ up' \in BOOLEAN
  BY DEF WheelStep, SelectFails, IInv, TypeOK
<1>9. TypeOK'
  BY <1>2, <1>3, <1>4, <1>5, <1>6, <1>7, <1>8 DEF IInv, TypeOK
<1>10. MapsAreInverse'
  <2> SUFFICES ASSUME NEW s \in Socks, NEW i \in Ids
               PROVE  sockToId'[s] = i <=> (i \in Sessions' /\ idToSession'[i].sock = s)
    BY DEF MapsAreInverse
  <2>1. sockToId[s] = i <=> (i \in Sessions /\ idToSession[i].sock = s)
    BY DEF IInv, MapsAreInverse
  <2>2. NoId # i
    BY DEF NoId, Ids
  <2>3. CASE s \in SocksOf(removed)
    <3>1. PICK r \in removed : idToSession[r].sock = s
      BY <2>3 DEF SocksOf
    <3>2. r \in Ids /\ r \in Sessions
      BY DEF IInv, TypeOK
    <3>3. sockToId[s] = r
      BY <3>1, <3>2 DEF IInv, MapsAreInverse
    <3> QED  BY <1>3, <2>1, <2>2, <2>3, <3>3
  <2>4. CASE s \notin SocksOf(removed)
    <3>1. i \in removed => idToSession[i].sock # s
      BY <2>4 DEF SocksOf
    <3> QED  BY <1>3, <2>1, <2>4, <3>1
  <2> QED  BY <2>3, <2>4
<1>11. IdsAreFresh'
  BY <1>2, <1>3 DEF IInv, IdsAreFresh
<1> QED  BY <1>9, <1>10, <1>11 DEF IInv

LEMMA NextIInv == IInv /\ [Next]_vars => IInv'
<1> SUFFICES ASSUME IInv, [Next]_vars PROVE IInv'  OBVIOUS
<1>1. CASE \E s \in Socks : Connect(s)
  BY <1>1, ConnectIInv
<1>2. CASE \E s \in Socks : ClientGone(s)
  BY <1>2, ClientGoneIInv
<1>3. CASE \E s \in Socks, kind \in Kinds : HandleClient(s, kind)
  BY <1>3, HandleClientIInv
<1>4. CASE ReceiveStep
  BY <1>4, LookUpIInv, UseSessionIInv, UseGoneSessionIInv, DroppedIInv DEF ReceiveStep
<1>5. CASE WheelStep
  BY <1>5, WheelStepIInv
<1>6. CASE UNCHANGED vars
  <2>1. Sessions' = Sessions
    BY <1>6 DEF vars, Sessions
  <2> QED
    BY <1>6, <2>1 DEF vars, IInv, TypeOK, MapsAreInverse, IdsAreFresh
<1> QED  BY <1>1, <1>2, <1>3, <1>4, <1>5, <1>6 DEF Next, Other

\* Every field keeps its type.
THEOREM ServerTypeCorrect == Spec => []TypeOK
<1>1. IInv => TypeOK  BY DEF IInv
<1> QED  BY <1>1, InitIInv, NextIInv, PTL DEF Spec

\* The session of a socket and the socket of a session are the same relation,
\* whatever is received, closed and cleaned up, and in any order.
THEOREM ServerMapsAreInverse == Spec => []MapsAreInverse
<1>1. IInv => MapsAreInverse  BY DEF IInv
<1> QED  BY <1>1, InitIInv, NextIInv, PTL DEF Spec

-----------------------------------------------------------------------------
(***************************************************************************)
(* As long as no descriptor is handed out while a session has it.          *)
(***************************************************************************)

\* A session that has been seen, and is still there, is that of the connection
\* which has seen it, or of none any more.
SeenBySelf ==
  \A entry \in seen :
    /\ entry[2] < next_id
    /\ entry[2] \in Sessions => conn[idToSession[entry[2]].sock] \in {entry[1], NoConn}

\* The session of the frame in hand has its descriptor; once the session has gone
\* there is no connection behind it.
FramesMatch ==
  \A frame \in handling :
    /\ frame.id < next_id
    /\ frame.id \in Sessions => idToSession[frame.id].sock = frame.sock
    /\ frame.id \in Ids \ Sessions => conn[frame.sock] = NoConn

PInv == IInv /\ SeenBySelf /\ FramesMatch /\ SessionsArePrivate

LEMMA InitPInv == Init => PInv
<1> SUFFICES ASSUME Init PROVE PInv  OBVIOUS
<1>1. IInv
  BY InitIInv
<1>2. seen = {} /\ handling = {}
  BY DEF Init
<1> QED  BY <1>1, <1>2 DEF PInv, SeenBySelf, FramesMatch, SessionsArePrivate

\* Steps that open no session and see nothing, and take connections and sessions
\* away at most.
LEMMA LessPInv ==
  ASSUME PInv, IInv', next_id' = next_id, seen' = seen,
         Sessions' \subseteq Sessions,
         \A i \in Sessions' : idToSession'[i].sock = idToSession[i].sock,
         \A i \in Sessions' : conn'[idToSession[i].sock] \in {conn[idToSession[i].sock], NoConn},
         FramesMatch'
  PROVE  PInv'
<1>1. SeenBySelf'
  BY DEF PInv, SeenBySelf
<1>2. SessionsArePrivate'
  BY DEF PInv, SessionsArePrivate
<1> QED  BY <1>1, <1>2 DEF PInv

LEMMA ConnectPInv ==
  ASSUME PInv, NEW s \in Socks, sockToId[s] = NoId, Connect(s)
  PROVE  PInv'
<1>1. IInv /\ IInv'
  BY ConnectIInv DEF PInv
<1>2. /\ UNCHANGED <<idToSession, next_id, handling, seen>>
      /\ Sessions' = Sessions /\ handling = {}
      /\ conn' = [conn EXCEPT ![s] = next_conn]
  BY DEF Connect, Receiving, sessions, wheel, Sessions
<1>3. \A i \in Sessions : idToSession[i].sock \in Socks \ {s}
  BY <1>1 DEF IInv, TypeOK, MapsAreInverse, SessionType, Ids, NoId
<1>4. \A i \in Sessions : conn'[idToSession[i].sock] = conn[idToSession[i].sock]
  BY <1>1, <1>2, <1>3 DEF IInv, TypeOK
<1>5. FramesMatch'
  BY <1>2 DEF FramesMatch
<1> QED  BY <1>1, <1>2, <1>4, <1>5, LessPInv

LEMMA ClientGonePInv ==
  ASSUME PInv, NEW s \in Socks, ClientGone(s)
  PROVE  PInv'
<1>1. IInv /\ IInv'
  BY ClientGoneIInv DEF PInv
<1>2. /\ UNCHANGED <<idToSession, next_id, handling, seen>>
      /\ Sessions' = Sessions /\ handling = {}
      /\ \A t \in Socks : conn'[t] \in {conn[t], NoConn}
  BY DEF ClientGone, DisConnected, Receiving, sessions, wheel, Sessions
<1>3. \A i \in Sessions : idToSession[i].sock \in Socks
  BY <1>1 DEF IInv, TypeOK, SessionType
<1>4. FramesMatch'
  BY <1>2 DEF FramesMatch
<1> QED  BY <1>1, <1>2, <1>3, <1>4, LessPInv

LEMMA HandleClientPInv ==
  ASSUME PInv, NEW s \in Socks, NEW kind \in Kinds, HandleClient(s, kind)
  PROVE  PInv'
<1>1. IInv /\ IInv'
  BY HandleClientIInv DEF PInv
<1>2. /\ UNCHANGED <<conn, idToSession, next_id, seen>>
      /\ Sessions' = Sessions
      /\ \A frame \in handling' : frame.id = NoId
  BY DEF HandleClient, sockets, sessions, Sessions
<1>3. 0 < next_id /\ NoId \notin Ids /\ Sessions \subseteq Ids
  BY <1>1 DEF IInv, TypeOK, Ids, NoId
<1>4. FramesMatch'
  BY <1>2, <1>3 DEF FramesMatch, NoId
<1> QED  BY <1>1, <1>2, <1>4, LessPInv

LEMMA LookUpPInv ==
  ASSUME PInv, NEW frame \in handling, LookUp(frame)
  PROVE  PInv'
<1> DEFINE s == frame.sock
<1>1. IInv /\ IInv'
  BY LookUpIInv DEF PInv
<1>2. /\ UNCHANGED <<conn, seen>>
      /\ handling' = {[frame EXCEPT !.id = sockToId'[s]]}
      /\ frame \in FrameType /\ s \in Socks
  BY <1>1 DEF LookUp, sockets, IInv, TypeOK, FrameType
<1>3. \A other \in handling' : other.id = sockToId'[s] /\ other.sock = s
  BY <1>2 DEF FrameType
<1>4. sockToId'[s] \in Ids => sockToId'[s] \in Sessions' /\ idToSession'[sockToId'[s]].sock = s
  BY <1>1, <1>2 DEF IInv, MapsAreInverse
<1> HIDE DEF s
<1>5. CASE sockToId[s] = NoId
  <2>1. NewSession(s)
    BY <1>5 DEF LookUp, s
  <2>2. /\ sockToId'[s] = next_id /\ next_id \in Ids
        /\ Sessions' = Sessions \cup {next_id}
        /\ \A i \in Sessions : idToSession'[i] = idToSession[i]
    BY <1>1, <1>2, <1>5, <2>1, NewSessionIInv
  <2>3. next_id' = next_id + 1 /\ next_id \in Nat
    BY <2>1, <2>2 DEF NewSession, Ids
  <2>4. \A entry \in seen : entry[2] \in Nat /\ entry[2] < next_id
    BY <1>1 DEF PInv, IInv, TypeOK, SeenBySelf, Ids
  <2>5. SeenBySelf'
    BY <1>2, <2>2, <2>3, <2>4 DEF PInv, SeenBySelf
  <2>6. FramesMatch'
    BY <1>3, <1>4, <2>2, <2>3 DEF FramesMatch
  <2>7. SessionsArePrivate'
    BY <1>2 DEF PInv, SessionsArePrivate
  <2> QED  BY <1>1, <2>5, <2>6, <2>7 DEF PInv
<1>6. CASE sockToId[s] # NoId
  <2>1. UNCHANGED <<sockToId, idToSession, next_id>> /\ Sessions' = Sessions
    BY <1>6 DEF LookUp, sessions, Sessions, s
  <2>2. sockToId'[s] \in Ids
    BY <1>1, <1>2, <1>6, <2>1 DEF IInv, TypeOK
  <2>3. sockToId'[s] < next_id'
    BY <1>1, <1>4, <2>2 DEF IInv, IdsAreFresh
  <2>4. FramesMatch'
    BY <1>3, <1>4, <2>2, <2>3 DEF FramesMatch
  <2> QED  BY <1>1, <1>2, <2>1, <2>4, LessPInv
<1> QED  BY <1>5, <1>6

\* Whoever has the descriptor of a session is the only one that has seen it.
LEMMA SeenPInv ==
  ASSUME PInv, IInv', UNCHANGED <<conn, next_id>>, handling' = {}, Sessions' = Sessions,
         \A i \in Sessions : idToSession'[i].sock = idToSession[i].sock,
         seen \subseteq seen',
         \A entry \in seen' \ seen :
           /\ entry[1] \in Conns /\ entry[2] \in Sessions
           /\ entry[1] = conn[idToSession[entry[2]].sock]
  PROVE  PInv'
<1>1. NoConn \notin Conns
  BY DEF NoConn, Conns
<1>2. \A i \in Sessions : i < next_id
  BY DEF PInv, IInv, IdsAreFresh
<1>3. SeenBySelf'
  BY <1>2 DEF PInv, SeenBySelf
<1>4. FramesMatch'
  BY DEF FramesMatch
<1>5. ASSUME NEW entry \in seen' \ seen, NEW other \in seen', entry[2] = other[2]
      PROVE  entry[1] = other[1]
  BY <1>1, <1>5 DEF PInv, SeenBySelf
<1>6. SessionsArePrivate'
  BY <1>5 DEF PInv, SessionsArePrivate
<1> QED  BY <1>3, <1>4, <1>6 DEF PInv

LEMMA UseSessionPInv ==
  ASSUME PInv, NEW frame \in handling, UseSession(frame)
  PROVE  PInv'
<1>1. IInv /\ IInv'
  BY UseSessionIInv DEF PInv
<1>2. /\ Sessions' = Sessions /\ frame.id \in Sessions
      /\ \A i \in Sessions : idToSession'[i].sock = idToSession[i].sock
  BY <1>1, UseSessionFacts
<1>3. /\ UNCHANGED <<conn, next_id>> /\ handling' = {}
      /\ seen \subseteq seen'
  BY DEF UseSession, AnswerOnly, Activate, HandlePacket, CallUpper, Answer, sockets
<1>4. idToSession[frame.id].sock = frame.sock
  BY <1>2 DEF PInv, FramesMatch
<1>5. \A entry \in seen' \ seen :
        /\ entry[1] \in Conns /\ entry[2] \in Sessions
        /\ entry[1] = conn[idToSession[entry[2]].sock]
  BY <1>1, <1>2, <1>4, UseSessionSeen
<1> QED  BY <1>1, <1>2, <1>3, <1>5, SeenPInv

LEMMA UseGoneSessionPInv ==
  ASSUME PInv, NEW frame \in handling, UseGoneSession(frame)
  PROVE  PInv'
<1>1. IInv /\ IInv'
  BY UseGoneSessionIInv DEF PInv
<1>2. /\ UNCHANGED <<conn, next_id, idToSession>> /\ handling' = {}
      /\ Sessions' = Sessions
      /\ seen \subseteq seen'
  BY DEF UseGoneSession, UseDangling, UseNull, CallUpper, Answer, sockets, Sessions
<1>3. conn[frame.sock] \notin Conns
  BY DEF PInv, FramesMatch, UseGoneSession, NoConn, Conns
<1>4. \A entry \in seen' \ seen :
        /\ entry[1] \in Conns /\ entry[2] \in Sessions
        /\ entry[1] = conn[idToSession[entry[2]].sock]
  BY <1>1, <1>3, UseGoneSessionSeen
<1> QED  BY <1>1, <1>2, <1>4, SeenPInv

LEMMA DroppedPInv ==
  ASSUME PInv, NEW frame \in handling,
         Ignored(frame) \/ SendToNull(frame) \/ ReadGoneBuffer(frame)
  PROVE  PInv'
<1>1. IInv /\ IInv'
  BY DroppedIInv DEF PInv
<1>2. /\ UNCHANGED <<conn, next_id, idToSession, seen>> /\ handling' = {}
      /\ Sessions' = Sessions
  BY DEF Ignored, SendToNull, ReadGoneBuffer, Crashes, sockets, sessions, Sessions
<1>3. FramesMatch'
  BY <1>2 DEF FramesMatch
<1> QED  BY <1>1, <1>2, <1>3, LessPInv

LEMMA WheelStepPInv ==
  ASSUME PInv, WheelStep
  PROVE  PInv'
<1>1. IInv /\ IInv'
  BY WheelStepIInv DEF PInv
<1>2. PICK removed \in SUBSET Sessions : CleanUp(removed)
  BY DEF WheelStep
<1>3. /\ Sessions' = Sessions \ removed
      /\ \A i \in Sessions' : idToSession'[i].sock = idToSession[i].sock
  BY <1>1, <1>2, CleanUpFacts
<1>4. /\ next_id' = next_id /\ seen' = seen
      /\ \A s \in Socks : conn'[s] = IF s \in SocksOf(removed) THEN NoConn ELSE conn[s]
  BY <1>2 DEF WheelStep, CleanUp, DisConnected
<1>5. \A i \in Sessions : idToSession[i].sock \in Socks
  BY <1>1 DEF IInv, TypeOK, SessionType
<1>6. \A i \in Sessions' : conn'[idToSession[i].sock] \in {conn[idToSession[i].sock], NoConn}
  BY <1>3, <1>4, <1>5
<1>7. FramesMatch'
  <2> SUFFICES ASSUME NEW new \in handling'
               PROVE  /\ new.id < next_id
                      /\ new.id \in Sessions' => idToSession'[new.id].sock = new.sock
                      /\ new.id \in Ids \ Sessions' => conn'[new.sock] = NoConn
    BY <1>4 DEF FramesMatch
  <2>1. PICK frame \in handling : new = [frame EXCEPT !.time = @ + 1]
    BY DEF WheelStep
  <2>2. new.id = frame.id /\ new.sock = frame.sock /\ frame.sock \in Socks
    BY <1>1, <2>1 DEF IInv, TypeOK, FrameType
  <2>3. /\ frame.id < next_id
        /\ frame.id \in Sessions => idToSession[frame.id].sock = frame.sock
        /\ frame.id \in Ids \ Sessions => conn[frame.sock] = NoConn
    BY DEF PInv, FramesMatch
  <2>4. CASE frame.id \in removed
    <3>1. frame.sock \in SocksOf(removed)
      BY <2>3, <2>4 DEF SocksOf
    <3> QED  BY <1>3, <1>4, <2>2, <2>3, <2>4, <3>1
  <2>5. CASE frame.id \notin removed
    BY <1>3, <1>4, <2>2, <2>3, <2>5
  <2> QED  BY <2>4, <2>5
<1> QED  BY <1>1, <1>3, <1>4, <1>6, <1>7, LessPInv

LEMMA NextPInv == PInv /\ [Next]_vars /\ ~reused' => PInv'
<1> SUFFICES ASSUME PInv, [Next]_vars, ~reused' PROVE PInv'  OBVIOUS
<1>1. CASE \E s \in Socks : Connect(s)
  <2>1. PICK s \in Socks : Connect(s)
    BY <1>1
  <2>2. sockToId[s] = NoId
    BY <2>1 DEF Connect
  <2> QED  BY <2>1, <2>2, ConnectPInv
<1>2. CASE \E s \in Socks : ClientGone(s)
  BY <1>2, ClientGonePInv
<1>3. CASE \E s \in Socks, kind \in Kinds : HandleClient(s, kind)
  BY <1>3, HandleClientPInv
<1>4. CASE ReceiveStep
  BY <1>4, LookUpPInv, UseSessionPInv, UseGoneSessionPInv, DroppedPInv DEF ReceiveStep
<1>5. CASE WheelStep
  BY <1>5, WheelStepPInv
<1>6. CASE UNCHANGED vars
  <2>1. Sessions' = Sessions
    BY <1>6 DEF vars, Sessions
  <2>2. IInv'
    BY <1>6, NextIInv DEF PInv
  <2> QED
    BY <1>6, <2>1, <2>2 DEF vars, PInv, SeenBySelf, FramesMatch, SessionsArePrivate
<1> QED  BY <1>1, <1>2, <1>3, <1>4, <1>5, <1>6 DEF Next, Other

\* Once a descriptor has been reused, it has.
LEMMA ReusedStays == IInv /\ reused /\ [Next]_vars => reused'
<1> SUFFICES ASSUME reused, [Next]_vars PROVE reused'  OBVIOUS
<1>1. CASE \E s \in Socks : Connect(s)
  BY <1>1 DEF Connect
<1>2. CASE UNCHANGED vars
  BY <1>2 DEF vars
<1>3. CASE Other
  BY <1>3 DEF Other, ClientGone, HandleClient, ReceiveStep, LookUp, Ignored, UseSession,
              UseGoneSession, SendToNull, ReadGoneBuffer, Crashes, WheelStep
<1> QED  BY <1>1, <1>2, <1>3 DEF Next

\* Two connections share a session only after a descriptor has been handed out
\* while a session had it, whatever is cleaned up while a frame is handled.
THEOREM ServerOnlyReuseShares == Spec => []OnlyReuseShares
<1> DEFINE RInv == IInv /\ (reused \/ PInv)
<1>1. Init => RInv
  BY InitPInv DEF PInv
<1>2. RInv /\ [Next]_vars => RInv'
  <2> SUFFICES ASSUME RInv, [Next]_vars PROVE RInv'  OBVIOUS
  <2>1. IInv'
    BY NextIInv
  <2>2. reused' \/ PInv'
    BY NextPInv, ReusedStays
  <2> QED  BY <2>1, <2>2
<1>3. RInv => OnlyReuseShares
  BY DEF PInv, OnlyReuseShares
<1> QED  BY <1>1, <1>2, <1>3, PTL DEF Spec

-----------------------------------------------------------------------------
(***************************************************************************)
(* As long as the wheel has cleaned nothing up.                            *)
(***************************************************************************)

\* The session of the frame in hand is known or not looked up yet, its descriptor
\* is polled, and no null pointers are in the map.
Undisturbed ==
  /\ up
  /\ nulls = {}
  /\ \A frame \in handling :
       frame.sock \in client_sockets /\ frame.id \in Sessions \cup {NoId}

AllKept == Sessions = 1..(next_id - 1)

EInv == IInv /\ (AllKept => Undisturbed)

LEMMA InitEInv == Init => EInv
<1> SUFFICES ASSUME Init PROVE EInv  OBVIOUS
<1>1. up /\ nulls = {} /\ handling = {}
  BY DEF Init
<1> QED  BY <1>1, InitIInv DEF EInv, Undisturbed

\* What is cleaned up does not come back.
LEMMA KeptBefore ==
  ASSUME IInv, [Next]_vars, AllKept'
  PROVE  AllKept /\ Sessions \subseteq Sessions'
<1>0. /\ next_id \in Nat /\ next_id >= 1
      /\ \A i \in Sessions : i \in Nat /\ i >= 1 /\ i < next_id
  BY ServerAssumption DEF IInv, TypeOK, IdsAreFresh, Ids
<1>1. CASE next_id' = next_id /\ Sessions' \subseteq Sessions
  <2>1. Sessions \subseteq 1..(next_id - 1)
    BY <1>0
  <2> QED  BY <1>1, <2>1 DEF AllKept
<1>2. ASSUME NEW frame \in handling, LookUp(frame)
      PROVE  AllKept /\ Sessions \subseteq Sessions'
  <2>1. CASE sockToId[frame.sock] = NoId
    <3>1. frame.sock \in Socks /\ NewSession(frame.sock)
      BY <1>2, <2>1 DEF LookUp, IInv, TypeOK, FrameType
    <3>2. Sessions' = Sessions \cup {next_id} /\ next_id' = next_id + 1
      BY <2>1, <3>1, NewSessionIInv DEF NewSession
    <3>3. Sessions = 1..(next_id - 1)
      <4>1. ASSUME NEW i \in 1..(next_id - 1) PROVE i \in Sessions
        <5>1. i \in 1..(next_id' - 1) /\ i # next_id
          BY <1>0, <3>2
        <5> QED  BY <3>2, <5>1 DEF AllKept
      <4>2. Sessions \subseteq 1..(next_id - 1)
        BY <1>0
      <4> QED  BY <4>1, <4>2
    <3> QED  BY <3>2, <3>3 DEF AllKept
  <2>2. CASE sockToId[frame.sock] # NoId
    <3>1. Sessions' = Sessions /\ next_id' = next_id
      BY <1>2, <2>2 DEF LookUp, sessions, Sessions
    <3> QED  BY <1>1, <3>1
  <2> QED  BY <2>1, <2>2
<1>3. ASSUME NEW frame \in handling, UseSession(frame)
      PROVE  next_id' = next_id /\ Sessions' \subseteq Sessions
  BY <1>3, UseSessionFacts DEF UseSession
<1>4. ASSUME NEW frame \in handling,
             Ignored(frame) \/ UseGoneSession(frame) \/ SendToNull(frame) \/ ReadGoneBuffer(frame)
      PROVE  next_id' = next_id /\ Sessions' \subseteq Sessions
  BY <1>4 DEF Ignored, UseGoneSession, SendToNull, ReadGoneBuffer, Crashes, sessions, Sessions
<1>5. ASSUME WheelStep
      PROVE  next_id' = next_id /\ Sessions' \subseteq Sessions
  BY <1>5, CleanUpFacts DEF WheelStep, CleanUp
<1>6. ASSUME (\E s \in Socks : Connect(s) \/ ClientGone(s))
               \/ (\E s \in Socks, kind \in Kinds : HandleClient(s, kind)) \/ UNCHANGED vars
      PROVE  next_id' = next_id /\ Sessions' \subseteq Sessions
  BY <1>6 DEF Connect, ClientGone, HandleClient, vars, sessions, Sessions
<1> QED
  BY <1>1, <1>2, <1>3, <1>4, <1>5, <1>6 DEF Next, Other, ReceiveStep

\* A wheel that cleans nothing up ends nothing.
LEMMA WheelStepKept ==
  ASSUME IInv, WheelStep, AllKept, Undisturbed, Sessions \subseteq Sessions'
  PROVE  Undisturbed'
<1>1. PICK removed \in SUBSET Sessions : CleanUp(removed) /\ (UNCHANGED up \/ SelectFails(removed))
  BY DEF WheelStep
<1>2. removed = {}
  BY <1>1, CleanUpFacts
<1>3. SocksOf(removed) = {}
  BY <1>2 DEF SocksOf
<1>4. UNCHANGED <<up, nulls, client_sockets>>
  BY <1>1, <1>3 DEF SelectFails, CleanUp, DisConnected
<1>5. \A new \in handling' : \E frame \in handling : new.sock = frame.sock /\ new.id = frame.id
  <2>1. handling \subseteq FrameType
    BY DEF IInv, TypeOK
  <2> QED  BY <2>1 DEF WheelStep, FrameType
<1> QED  BY <1>4, <1>5 DEF Undisturbed

LEMMA NextEInv == EInv /\ [Next]_vars => EInv'
<1> SUFFICES ASSUME IInv, AllKept, Undisturbed, [Next]_vars, Sessions \subseteq Sessions'
             PROVE  Undisturbed'
  BY NextIInv, KeptBefore DEF EInv
<1>1. CASE \E s \in Socks : Connect(s) \/ ClientGone(s)
  BY <1>1 DEF Connect, ClientGone, Receiving, sessions, wheel, Undisturbed
<1>2. CASE \E s \in Socks, kind \in Kinds : HandleClient(s, kind)
  BY <1>2 DEF HandleClient, Receiving, sockets, sessions, Undisturbed, NoId
<1>3. ASSUME NEW frame \in handling, LookUp(frame)
      PROVE  Undisturbed'
  <2>1. /\ UNCHANGED <<client_sockets, nulls, up>>
        /\ handling' = {[frame EXCEPT !.id = sockToId'[frame.sock]]}
        /\ frame \in FrameType /\ frame.sock \in client_sockets
    BY <1>3 DEF LookUp, NewSession, sockets, sessions, IInv, TypeOK, Undisturbed
  <2>2. sockToId'[frame.sock] \in Sessions' \cup {NoId}
    <3>1. IInv' /\ frame.sock \in Socks
      BY <1>3, <2>1, LookUpIInv DEF FrameType
    <3> QED  BY <3>1 DEF IInv, TypeOK, MapsAreInverse
  <2>3. \A new \in handling' : new.sock = frame.sock /\ new.id = sockToId'[frame.sock]
    BY <2>1 DEF FrameType
  <2> QED  BY <2>1, <2>2, <2>3 DEF Undisturbed
<1>4. ASSUME NEW frame \in handling, Ignored(frame) \/ UseSession(frame)
      PROVE  Undisturbed'
  BY <1>4 DEF Ignored, UseSession, sessions, Undisturbed
<1>5. ASSUME NEW frame \in handling,
             UseGoneSession(frame) \/ SendToNull(frame) \/ ReadGoneBuffer(frame)
      PROVE  FALSE
  BY <1>5 DEF UseGoneSession, SendToNull, ReadGoneBuffer, Undisturbed, NoId, Ids
<1>6. CASE WheelStep
  BY <1>6, WheelStepKept
<1>7. CASE UNCHANGED vars
  BY <1>7 DEF vars, Undisturbed, Sessions
<1> QED  BY <1>1, <1>2, <1>3, <1>4, <1>5, <1>6, <1>7 DEF Next, Other, ReceiveStep

\* Without a clean-up the process does not end: no frame meets a session, a buffer
\* or a descriptor that the other thread has taken away.
THEOREM ServerOnlyCleanUpEnds == Spec => []OnlyCleanUpEnds
<1>1. EInv => OnlyCleanUpEnds
  BY DEF EInv, AllKept, Undisturbed, OnlyCleanUpEnds
<1> QED  BY <1>1, InitEInv, NextEInv, PTL DEF Spec

=============================================================================
