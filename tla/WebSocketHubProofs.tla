------------------------- MODULE WebSocketHubProofs --------------------------
(***************************************************************************)
(* WebSocketHub for any connections, users, callers and buffer sizes: its  *)
(* types, the open channels of the connections Run sends to, the panic     *)
(* that takes a late JoinRoom, and the order and completeness of the       *)
(* broadcasts each connection gets.                                        *)
(***************************************************************************)
EXTENDS WebSocketHub, SlicesProofs

\* The kinds of steps, in the order of the module.
LEMMA NextCases ==
  ASSUME [Next]_vars
  PROVE \/ BroadcastDone \/ Stop
        \/ \E c \in Conns : \/ Connect(c) \/ Receive(c) \/ HangUp(c) \/ Write(c) \/ WriteEnds(c)
                            \/ Register(c) \/ Unregister(c) \/ SendToNext(c)
                            \/ JoinRoom(c) \/ LeaveRoom(c)
        \/ \E s \in Senders : TakeBroadcast(s)
        \/ \E s \in Callers : Broadcast(s)
        \/ \E m \in Directs : Deliver(m, room) \/ \E u \in Users : Deliver(m, users[u])
        \/ UNCHANGED vars
<1>1. Joiners \subseteq Conns
  BY HubAssumption DEF HubAssumption
<1> QED
  BY <1>1 DEF Next, Run, SendTo, BroadcastToRoom

\* What the assumption and the types say where they are used.
LEMMA Basics ==
  /\ SendBuffer \in Nat /\ SendBuffer > 0
  /\ Conns \cap Callers = {} /\ Callers \subseteq Senders /\ Conns \subseteq Senders
  /\ None \notin Messages /\ Broadcasts \subseteq Messages /\ Directs \subseteq Messages
  /\ Broadcasts \cap Directs = {} /\ Joiners \subseteq Conns
BY HubAssumption DEF HubAssumption, Messages, Broadcasts, Senders

\* The message Run is sending is a broadcast.
LEMMA SendingABroadcast ==
  ASSUME TypeOK, BroadcastUnderWay, hub.pc \in {"sending", "kicking"}
  PROVE hub.msg \in Broadcasts /\ hub.msg \in Messages
<1>1. log \in Seq(Broadcasts) /\ log # <<>> /\ hub.msg = log[Len(log)]
  BY DEF TypeOK, BroadcastUnderWay
<1>2. Len(log) \in 1 .. Len(log)
  BY <1>1, EmptySeq
<1> QED
  BY <1>1, <1>2, ElementOfSeq, Basics

\* The buffers of the connections stay within their size.
LEMMA StepBuffers ==
  ASSUME TypeOK, BroadcastUnderWay, [Next]_vars
  PROVE send' \in [Conns -> Seq(Messages)] /\ \A c \in Conns : Len(send'[c]) <= SendBuffer
<1> DEFINE SendOK == send' \in [Conns -> Seq(Messages)] /\ \A c \in Conns : Len(send'[c]) <= SendBuffer
<1>t. send \in [Conns -> Seq(Messages)] /\ \A c \in Conns : Len(send[c]) <= SendBuffer
  BY DEF TypeOK
<1>1. ASSUME NEW c \in Conns, Write(c) PROVE SendOK
  <2>1. Tail(send[c]) \in Seq(Messages) /\ Len(Tail(send[c])) = Len(send[c]) - 1
    BY <1>1, <1>t, HeadTailProperties DEF Write
  <2>2. send' = [send EXCEPT ![c] = Tail(send[c])] /\ Len(send[c]) \in Nat
    BY <1>1, <1>t DEF Write
  <2>3. \A d \in Conns : send'[d] = IF d = c THEN Tail(send[c]) ELSE send[d]
    BY <1>t, <2>2
  <2>4. send' \in [Conns -> Seq(Messages)]
    BY <1>t, <2>1, <2>2
  <2> QED
    BY Basics, <1>t, <2>1, <2>2, <2>3, <2>4
<1>2. ASSUME NEW c \in Conns, SendToNext(c) PROVE SendOK
  <2>1. hub.msg \in Messages
    BY <1>2, SendingABroadcast DEF SendToNext
  <2>2. CASE Len(send[c]) < SendBuffer
    <3>1. send' = [send EXCEPT ![c] = Append(send[c], hub.msg)]
      BY <1>2, <2>2 DEF SendToNext
    <3>2. /\ Append(send[c], hub.msg) \in Seq(Messages)
          /\ Len(Append(send[c], hub.msg)) = Len(send[c]) + 1 /\ Len(send[c]) \in Nat
      BY <1>t, <2>1, AppendProperties
    <3>3. \A d \in Conns : send'[d] = IF d = c THEN Append(send[c], hub.msg) ELSE send[d]
      BY <1>t, <3>1
    <3>4. send' \in [Conns -> Seq(Messages)]
      BY <1>t, <3>1, <3>2
    <3> QED
      BY Basics, <1>t, <2>2, <3>2, <3>3, <3>4
  <2>3. CASE ~(Len(send[c]) < SendBuffer)
    BY <1>2, <1>t, <2>3 DEF SendToNext
  <2> QED
    BY <2>2, <2>3
<1>3. ASSUME NEW m \in Directs, NEW receivers, Deliver(m, receivers) PROVE SendOK
  BY Basics, <1>3, <1>t DEF Deliver
<1>4. CASE UNCHANGED send
  BY <1>4, <1>t
<1> QED
  BY NextCases, <1>1, <1>2, <1>3, <1>4
  DEF BroadcastDone, Stop, Connect, Receive, HangUp, WriteEnds, Register, Unregister, JoinRoom,
      LeaveRoom, TakeBroadcast, Broadcast, vars

\* What Write puts on a WebSocket are broadcasts.
LEMMA StepDelivered ==
  ASSUME TypeOK, [Next]_vars PROVE delivered' \in [Conns -> Seq(Broadcasts)]
<1>t. delivered \in [Conns -> Seq(Broadcasts)] /\ send \in [Conns -> Seq(Messages)]
  BY DEF TypeOK
<1>1. ASSUME NEW c \in Conns, Write(c) PROVE delivered' \in [Conns -> Seq(Broadcasts)]
  <2>1. Head(send[c]) \in Messages
    BY <1>1, <1>t, HeadTailProperties DEF Write
  <2>2. <<Head(send[c])>> \in Seq(Messages)
    BY <2>1
  <2>3. BroadcastsIn(<<Head(send[c])>>) \in Seq(Broadcasts)
    BY <2>2, KeepType DEF BroadcastsIn
  <2>4. delivered[c] \o BroadcastsIn(<<Head(send[c])>>) \in Seq(Broadcasts)
    BY <1>t, <2>3, ConcatProperties
  <2> QED
    BY <1>1, <1>t, <2>4 DEF Write
<1>2. CASE UNCHANGED delivered
  BY <1>2, <1>t
<1> QED
  BY NextCases, <1>1, <1>2
  DEF BroadcastDone, Stop, Connect, Receive, HangUp, WriteEnds, Register, Unregister, JoinRoom,
      LeaveRoom, TakeBroadcast, Broadcast, SendToNext, Deliver, vars

\* The places of the pumps, and the message each waiting Broadcast offers.
LEMMA StepPlaces ==
  ASSUME TypeOK, [Next]_vars
  PROVE /\ reader' \in [Conns -> {"absent", "registering", "reading", "offering", "leaving", "gone"}]
        /\ writer' \in [Conns -> {"absent", "writing", "broken", "gone"}]
        /\ offer' \in [Senders -> Broadcasts \cup {None}]
        /\ \A c \in Conns : (reader'[c] = "offering") = (offer'[c] # None)
<1> USE DEF TypeOK
<1>0. None \notin Broadcasts
  BY Basics
<1>1. ASSUME NEW c \in Conns,
             \/ Connect(c) \/ Receive(c) \/ HangUp(c) \/ Write(c) \/ WriteEnds(c)
             \/ Register(c) \/ Unregister(c)
      PROVE /\ reader' \in [Conns -> {"absent", "registering", "reading", "offering", "leaving", "gone"}]
            /\ writer' \in [Conns -> {"absent", "writing", "broken", "gone"}]
  BY <1>1 DEF Connect, Receive, HangUp, Write, WriteEnds, Register, Unregister
<1>2. ASSUME NEW c \in Conns,
             \/ Connect(c) \/ HangUp(c) \/ Write(c) \/ WriteEnds(c)
             \/ Register(c) \/ Unregister(c)
      PROVE /\ offer' \in [Senders -> Broadcasts \cup {None}]
            /\ \A d \in Conns : (reader'[d] = "offering") = (offer'[d] # None)
  <2>1. offer' = offer
    BY <1>2 DEF Connect, HangUp, Write, WriteEnds, Register, Unregister
  <2>2. \/ reader' = reader
        \/ \E place \in {"registering", "reading", "leaving", "gone"} :
             reader' = [reader EXCEPT ![c] = place] /\ reader[c] # "offering"
    BY <1>2 DEF Connect, HangUp, Write, WriteEnds, Register, Unregister
  <2> QED
    BY <2>1, <2>2
<1>3. ASSUME NEW c \in Conns, Receive(c)
      PROVE /\ offer' \in [Senders -> Broadcasts \cup {None}]
            /\ \A d \in Conns : (reader'[d] = "offering") = (offer'[d] # None)
  BY Basics, <1>0, <1>3 DEF Receive
<1>4. ASSUME NEW s \in Senders, TakeBroadcast(s)
      PROVE /\ reader' \in [Conns -> {"absent", "registering", "reading", "offering", "leaving", "gone"}]
            /\ writer' = writer
            /\ offer' \in [Senders -> Broadcasts \cup {None}]
            /\ \A d \in Conns : (reader'[d] = "offering") = (offer'[d] # None)
  BY Basics, <1>0, <1>4 DEF TakeBroadcast
<1>5. ASSUME NEW s \in Callers, Broadcast(s)
      PROVE /\ reader' = reader /\ writer' = writer
            /\ offer' \in [Senders -> Broadcasts \cup {None}]
            /\ \A d \in Conns : offer'[d] = offer[d]
  BY Basics, <1>0, <1>5 DEF Broadcast
<1>6. CASE UNCHANGED <<reader, writer, offer>>
  BY <1>6
<1> QED
  BY NextCases, <1>1, <1>2, <1>3, <1>4, <1>5, <1>6
  DEF BroadcastDone, Stop, JoinRoom, LeaveRoom, SendToNext, Deliver, vars

\* h.connections, h.users and the room.
LEMMA StepRegistry ==
  ASSUME TypeOK, [Next]_vars
  PROVE /\ connections' \subseteq Conns /\ closed' \subseteq Conns /\ room' \subseteq Conns
        /\ users' = [u \in Users |-> {c \in connections' : UserOf[c] = u}]
        /\ joinedLate' \subseteq Conns /\ panicked' \in BOOLEAN
<1> USE DEF TypeOK
<1>1. ASSUME NEW c \in Conns, Register(c) \/ Unregister(c)
      PROVE users' = [u \in Users |-> {d \in connections' : UserOf[d] = u}]
  <2> DEFINE Of(S, u) == {d \in S : UserOf[d] = u}
  <2>t. users = [u \in Users |-> Of(connections, u)]
    OBVIOUS
  <2>1. CASE Register(c)
    <3>1. connections' = connections \cup {c}
          /\ users' = [u \in Users |-> IF UserOf[c] = u THEN users[u] \cup {c} ELSE users[u]]
      BY <2>1 DEF Register
    <3>2. \A u \in Users : users'[u] = Of(connections', u)
      BY <2>t, <3>1
    <3> QED
      BY <3>1, <3>2
  <2>2. CASE Unregister(c)
    <3>1. connections' = connections \ {c} /\ users' = [u \in Users |-> users[u] \ {c}]
      BY <2>2 DEF Unregister
    <3>2. \A u \in Users : users'[u] = Of(connections', u)
      BY <2>t, <3>1
    <3> QED
      BY <3>1, <3>2
  <2> QED
    BY <1>1, <2>1, <2>2
<1>2. ASSUME NEW c \in Conns, Register(c) \/ Unregister(c)
      PROVE /\ connections' \subseteq Conns /\ closed' \subseteq Conns /\ room' \subseteq Conns
            /\ joinedLate' \subseteq Conns /\ panicked' \in BOOLEAN
  BY <1>2 DEF Register, Unregister, lateJoins
<1>3. ASSUME NEW c \in Conns, JoinRoom(c) \/ LeaveRoom(c)
      PROVE /\ UNCHANGED <<connections, closed, users>> /\ room' \subseteq Conns
            /\ joinedLate' \subseteq Conns /\ panicked' \in BOOLEAN
  BY <1>3 DEF JoinRoom, LeaveRoom, lateJoins
<1>4. ASSUME NEW m \in Directs, NEW receivers, Deliver(m, receivers)
      PROVE UNCHANGED <<connections, closed, users, room, joinedLate>> /\ panicked' \in BOOLEAN
  BY <1>4 DEF Deliver, registry
<1>5. CASE UNCHANGED <<registry, closed, lateJoins>>
  BY <1>5 DEF registry, lateJoins
<1> QED
  BY NextCases, <1>1, <1>2, <1>3, <1>4, <1>5
  DEF BroadcastDone, Stop, Connect, Receive, HangUp, Write, WriteEnds, TakeBroadcast, Broadcast,
      SendToNext, registry, lateJoins, vars

\* Run's own place, and the history.
LEMMA StepHub ==
  ASSUME TypeOK, [Next]_vars
  PROVE /\ hub' \in [pc : {"select", "sending", "kicking", "stopped"},
                     msg : Broadcasts \cup {None}, left : SUBSET Conns]
        /\ unsent' \subseteq Messages /\ log' \in Seq(Broadcasts) /\ joinedAt' \in [Conns -> Nat]
<1> DEFINE Hubs == [pc : {"select", "sending", "kicking", "stopped"},
                    msg : Broadcasts \cup {None}, left : SUBSET Conns]
<1>t. /\ hub \in Hubs /\ unsent \subseteq Messages /\ log \in Seq(Broadcasts)
      /\ joinedAt \in [Conns -> Nat] /\ offer \in [Senders -> Broadcasts \cup {None}]
      /\ connections \subseteq Conns
  BY DEF TypeOK
<1>1. ASSUME NEW c \in Conns, SendToNext(c)
      PROVE hub' \in Hubs /\ UNCHANGED <<unsent, log, joinedAt>>
  BY <1>t, <1>1 DEF SendToNext, history
<1>2. ASSUME BroadcastDone \/ Stop
      PROVE hub' \in Hubs /\ UNCHANGED <<unsent, log, joinedAt>>
  BY SMTT(30), <1>t, <1>2 DEF BroadcastDone, Stop, Selecting, history
<1>3. ASSUME NEW s \in Senders, TakeBroadcast(s)
      PROVE hub' \in Hubs /\ log' \in Seq(Broadcasts) /\ UNCHANGED <<unsent, joinedAt>>
  BY <1>t, <1>3 DEF TakeBroadcast
<1>4. ASSUME NEW c \in Conns, Register(c)
      PROVE joinedAt' \in [Conns -> Nat] /\ UNCHANGED <<hub, unsent, log>>
  BY <1>t, <1>4 DEF Register
<1>5. CASE UNCHANGED <<hub, history>> /\ unsent' \subseteq unsent
  BY <1>t, <1>5 DEF history
<1> QED
  BY NextCases, <1>t, <1>1, <1>2, <1>3, <1>4, <1>5
  DEF Connect, Receive, HangUp, Write, WriteEnds, Unregister, JoinRoom, LeaveRoom, Broadcast,
      Deliver, vars

\* TypeOK is kept by every step.
LEMMA StepTypeOK == TypeOK /\ BroadcastUnderWay /\ [Next]_vars => TypeOK'
<1> SUFFICES ASSUME TypeOK, BroadcastUnderWay, [Next]_vars PROVE TypeOK'
    OBVIOUS
<1> QED
  BY StepBuffers, StepDelivered, StepPlaces, StepRegistry, StepHub DEF TypeOK

\* The readers' places and the registry move together.
LEMMA StepRegistryFollowsReaders ==
  TypeOK /\ RegistryFollowsReaders /\ BroadcastUnderWay /\ [Next]_vars => RegistryFollowsReaders'
<1> SUFFICES ASSUME TypeOK, RegistryFollowsReaders, BroadcastUnderWay, [Next]_vars
             PROVE RegistryFollowsReaders'
    OBVIOUS
<1>t. /\ reader \in [Conns -> {"absent", "registering", "reading", "offering", "leaving", "gone"}]
      /\ writer \in [Conns -> {"absent", "writing", "broken", "gone"}]
      /\ send \in [Conns -> Seq(Messages)] /\ delivered \in [Conns -> Seq(Broadcasts)]
      /\ users = [u \in Users |-> {c \in connections : UserOf[c] = u}]
      /\ \A c \in Conns : (reader[c] = "offering") = (offer[c] # None)
  BY DEF TypeOK
<1> USE DEF RegistryFollowsReaders
<1>1. ASSUME NEW c \in Conns, Connect(c) \/ Receive(c) \/ HangUp(c) PROVE RegistryFollowsReaders'
  BY <1>t, <1>1 DEF Connect, Receive, HangUp, registry
<1>2. ASSUME NEW c \in Conns, Write(c) \/ WriteEnds(c) PROVE RegistryFollowsReaders'
  <2>1. /\ \A d \in Conns : d # c => send'[d] = send[d] /\ delivered'[d] = delivered[d]
                                      /\ writer'[d] = writer[d]
        /\ writer[c] = "writing" /\ writer'[c] \in {"writing", "broken", "gone"}
        /\ UNCHANGED <<reader, closed, connections, room>>
    BY <1>t, <1>2 DEF Write, WriteEnds, registry
  <2>2. \A d \in Conns : (writer'[d] = "absent" <=> writer[d] = "absent")
    BY <2>1
  <2>3. \A d \in Conns : writer'[d] = "absent" => send'[d] = <<>> /\ delivered'[d] = <<>>
    BY <2>1, <2>2
  <2> QED
    BY <2>1, <2>2, <2>3
<1>3. ASSUME NEW c \in Conns, Register(c) PROVE RegistryFollowsReaders'
  <2>1. /\ reader' = [reader EXCEPT ![c] = "reading"] /\ writer' = [writer EXCEPT ![c] = "writing"]
        /\ reader[c] = "registering" /\ connections' = connections \cup {c}
        /\ UNCHANGED <<send, delivered, closed, room>>
    BY <1>3 DEF Register
  <2> QED
    BY <1>t, <2>1
<1>9. ASSUME NEW c \in Conns, Unregister(c) PROVE RegistryFollowsReaders'
  <2>1. /\ reader' = [reader EXCEPT ![c] = "gone"] /\ reader[c] = "leaving"
        /\ connections' = connections \ {c} /\ closed' = closed \cup {c} /\ room' \subseteq room
        /\ UNCHANGED <<writer, send, delivered>>
    BY <1>9 DEF Unregister
  <2> QED
    BY <1>t, <2>1
<1>4. ASSUME NEW c \in Conns, SendToNext(c) PROVE RegistryFollowsReaders'
  BY <1>t, <1>4 DEF SendToNext, BroadcastUnderWay, registry
<1>5. ASSUME NEW c \in Conns, JoinRoom(c) \/ LeaveRoom(c) PROVE RegistryFollowsReaders'
  BY <1>5 DEF JoinRoom, LeaveRoom
<1>6. ASSUME NEW s \in Senders, TakeBroadcast(s) PROVE RegistryFollowsReaders'
  BY <1>t, <1>6 DEF TakeBroadcast, registry
<1>7. ASSUME NEW m \in Directs, NEW receivers, Deliver(m, receivers),
             receivers = room \/ \E u \in Users : receivers = users[u]
      PROVE RegistryFollowsReaders'
  <2>1. \A c \in Conns : writer[c] = "absent" => c \notin receivers
    BY <1>t, <1>7
  <2> QED
    BY <1>t, <1>7, <2>1 DEF Deliver, registry
<1>8. CASE UNCHANGED <<reader, writer, send, closed, delivered, registry>>
  BY <1>8 DEF registry
<1> QED
  BY NextCases, <1>1, <1>2, <1>3, <1>4, <1>5, <1>6, <1>7, <1>8, <1>9
  DEF BroadcastDone, Stop, Broadcast, vars, registry

\* Run takes a broadcast for the connections there are, and none comes or goes
\* before it is done with them.
LEMMA StepBroadcastUnderWay ==
  TypeOK /\ BroadcastUnderWay /\ [Next]_vars => BroadcastUnderWay'
<1> SUFFICES ASSUME TypeOK, BroadcastUnderWay, [Next]_vars PROVE BroadcastUnderWay'
    OBVIOUS
<1>t. /\ hub \in [pc : {"select", "sending", "kicking", "stopped"},
                  msg : Broadcasts \cup {None}, left : SUBSET Conns]
      /\ log \in Seq(Broadcasts) /\ joinedAt \in [Conns -> Nat] /\ connections \subseteq Conns
      /\ offer \in [Senders -> Broadcasts \cup {None}] /\ Len(log) \in Nat
  BY DEF TypeOK
<1> USE DEF BroadcastUnderWay
<1>1. ASSUME NEW c \in Conns, Register(c) PROVE BroadcastUnderWay'
  BY <1>t, <1>1 DEF Register
<1>2. ASSUME NEW c \in Conns, Unregister(c) PROVE BroadcastUnderWay'
  BY <1>t, <1>2 DEF Unregister, history
<1>3. ASSUME NEW c \in Conns, SendToNext(c) PROVE BroadcastUnderWay'
  BY <1>t, <1>3 DEF SendToNext, history, registry
<1>4. CASE BroadcastDone \/ Stop
  BY <1>t, <1>4 DEF BroadcastDone, Stop, Selecting, history, registry
<1>5. ASSUME NEW s \in Senders, TakeBroadcast(s) PROVE BroadcastUnderWay'
  <2>1. offer[s] \in Broadcasts /\ log' = Append(log, offer[s])
    BY <1>t, <1>5 DEF TakeBroadcast
  <2>2. log' # <<>> /\ Len(log') = Len(log) + 1 /\ log'[Len(log')] = offer[s]
    BY <1>t, <2>1, AppendProperties
  <2>3. /\ hub'.pc = "sending" /\ hub'.msg = offer[s] /\ hub'.left = connections
        /\ connections' = connections /\ joinedAt' = joinedAt
    BY <1>5 DEF TakeBroadcast, registry
  <2>4. \A c \in connections' : joinedAt'[c] < Len(log') /\ joinedAt'[c] <= Len(log')
    BY <1>t, <2>2, <2>3
  <2> QED
    BY <2>2, <2>3, <2>4
<1>6. CASE UNCHANGED <<hub, log, joinedAt, connections>>
  BY <1>6
<1> QED
  BY NextCases, <1>1, <1>2, <1>3, <1>4, <1>5, <1>6
  DEF Connect, Receive, HangUp, Write, WriteEnds, JoinRoom, LeaveRoom, Broadcast, Deliver,
      registry, history, vars

\* Unregister clears the room of the connection it takes off.
LEMMA StepRoomOfConnections == RoomOfConnections /\ [Next]_vars => RoomOfConnections'
<1> SUFFICES ASSUME RoomOfConnections, [Next]_vars PROVE RoomOfConnections'
    OBVIOUS
<1> QED
  BY NextCases
  DEF RoomOfConnections, BroadcastDone, Stop, Connect, Receive, HangUp, Write, WriteEnds, Register,
      Unregister, SendToNext, JoinRoom, LeaveRoom, TakeBroadcast, Broadcast, Deliver, registry,
      lateJoins, vars

\* A send on a closed channel takes a connection that joined the room late.
LEMMA StepNoPanic ==
  TypeOK /\ RegistryFollowsReaders /\ RoomOfConnections /\ NoPanicUnlessJoinedLate /\ [Next]_vars
    => NoPanicUnlessJoinedLate'
<1> SUFFICES ASSUME TypeOK, RegistryFollowsReaders, RoomOfConnections, NoPanicUnlessJoinedLate,
                    [Next]_vars
             PROVE NoPanicUnlessJoinedLate'
    OBVIOUS
<1>1. ASSUME NEW m \in Directs, NEW receivers, Deliver(m, receivers),
             receivers = room \/ \E u \in Users : receivers = users[u]
      PROVE NoPanicUnlessJoinedLate'
  <2>1. connections \cap closed = {} /\ connections \subseteq Conns /\ room \subseteq Conns
    BY DEF TypeOK, RegistryFollowsReaders
  <2>2. \A u \in Users : users[u] \subseteq connections
    BY DEF TypeOK
  <2>3. receivers \cap closed # {} => joinedLate # {}
    BY <1>1, <2>1, <2>2 DEF RoomOfConnections
  <2> QED
    BY <1>1, <2>3 DEF Deliver, NoPanicUnlessJoinedLate
<1>2. CASE UNCHANGED panicked /\ joinedLate \subseteq joinedLate'
  BY <1>2 DEF NoPanicUnlessJoinedLate
<1> QED
  BY NextCases, <1>1, <1>2
  DEF BroadcastDone, Stop, Connect, Receive, HangUp, Write, WriteEnds, Register, Unregister,
      SendToNext, JoinRoom, LeaveRoom, TakeBroadcast, Broadcast, lateJoins, vars
-----------------------------------------------------------------------------
(* Every broadcast, in order *)

\* What a connection has been given, and what it should have been.
Given(c) == delivered[c] \o BroadcastsIn(send[c])
Due(c) == SubSeq(log, joinedAt[c] + 1, SentUpTo(c))

LEMMA InOrder == EveryBroadcastInOrder <=> \A c \in connections : writer[c] = "writing" => Given(c) = Due(c)
BY DEF EveryBroadcastInOrder, Given, Due

\* Write moves the head of the buffer to the WebSocket.
LEMMA HeadMoves ==
  ASSUME NEW msgs \in Seq(Messages), msgs # <<>>, NEW got \in Seq(Broadcasts)
  PROVE (got \o BroadcastsIn(<<Head(msgs)>>)) \o BroadcastsIn(Tail(msgs)) = got \o BroadcastsIn(msgs)
<1> DEFINE h == <<Head(msgs)>>
           t == Tail(msgs)
<1>1. h \in Seq(Messages) /\ t \in Seq(Messages) /\ msgs = h \o t
  <2>1. Head(msgs) \in Messages /\ t \in Seq(Messages)
    BY HeadTailProperties
  <2>2. Len(msgs) \in Nat /\ Len(msgs) > 0
    BY EmptySeq
  <2>3. msgs = SubSeq(msgs, 1, Len(msgs))
    BY SubSeqFull
  <2>4. SubSeq(msgs, 1, Len(msgs)) = <<msgs[1]>> \o SubSeq(msgs, 2, Len(msgs))
    BY <2>2, SubSeqRecursiveFirst
  <2>5. SubSeq(msgs, 2, Len(msgs)) = t
    BY TailIsSubSeq
  <2>6. msgs[1] = Head(msgs)
    OBVIOUS
  <2> QED
    BY <2>1, <2>3, <2>4, <2>5, <2>6
<1> HIDE DEF h, t
<1>2. BroadcastsIn(msgs) = BroadcastsIn(h) \o BroadcastsIn(t)
  BY <1>1, KeepConcat DEF BroadcastsIn
<1>3. BroadcastsIn(h) \in Seq(Broadcasts) /\ BroadcastsIn(t) \in Seq(Broadcasts)
  BY <1>1, KeepType DEF BroadcastsIn
<1>4. Associates(got, BroadcastsIn(h), BroadcastsIn(t))
  BY <1>3, Association, Zenon
<1> QED
  BY <1>2, <1>4 DEF Associates, h, t

\* A send to the buffer gives the connection the message, if it is a broadcast.
LEMMA SendGives ==
  ASSUME NEW msgs \in Seq(Messages), NEW m \in Messages, NEW got \in Seq(Broadcasts)
  PROVE /\ m \in Broadcasts =>
             got \o BroadcastsIn(Append(msgs, m)) = Append(got \o BroadcastsIn(msgs), m)
        /\ m \in Directs => got \o BroadcastsIn(Append(msgs, m)) = got \o BroadcastsIn(msgs)
<1>1. BroadcastsIn(Append(msgs, m))
        = IF m \in Broadcasts THEN Append(BroadcastsIn(msgs), m) ELSE BroadcastsIn(msgs)
  BY KeepAppend DEF BroadcastsIn
<1>2. BroadcastsIn(msgs) \in Seq(Broadcasts)
  BY KeepType DEF BroadcastsIn
<1>3. ASSUME m \in Broadcasts
      PROVE got \o BroadcastsIn(Append(msgs, m)) = Append(got \o BroadcastsIn(msgs), m)
  <2>1. <<m>> \in Seq(Broadcasts)
    BY <1>3
  <2>2. Associates(got, BroadcastsIn(msgs), <<m>>)
    BY <1>2, <2>1, Association, Zenon
  <2>3. Append(BroadcastsIn(msgs), m) = BroadcastsIn(msgs) \o <<m>>
    BY <1>2, <1>3, AppendIsConcat
  <2>4. got \o BroadcastsIn(msgs) \in Seq(Broadcasts)
    BY <1>2, ConcatProperties
  <2>5. Append(got \o BroadcastsIn(msgs), m) = (got \o BroadcastsIn(msgs)) \o <<m>>
    BY <1>3, <2>4, AppendIsConcat
  <2> QED
    BY <1>1, <1>3, <2>2, <2>3, <2>5 DEF Associates
<1> QED
  BY <1>1, <1>3, Basics

\* The part of the log that is due, when Run takes another message and when it
\* has sent the last one.
LEMMA DueBefore ==
  ASSUME NEW j \in Nat, NEW m \in Broadcasts, log \in Seq(Broadcasts), j <= Len(log)
  PROVE SubSeq(Append(log, m), j + 1, Len(log)) = SubSeq(log, j + 1, Len(log))
<1>1. Len(log) \in Nat
  BY LenProperties
<1>2. CASE j = Len(log)
  BY <1>1, <1>2, SubSeqEmpty
<1>3. CASE j < Len(log)
  <2>1. Append(log, m) = log \o <<m>> /\ <<m>> \in Seq(Broadcasts)
    BY AppendIsConcat
  <2>2. j + 1 \in 1 .. Len(log) /\ Len(log) \in 1 .. Len(log)
    BY <1>1, <1>3
  <2> QED
    BY <2>1, <2>2, SubSeqOfConcat1
<1> QED
  BY <1>1, <1>2, <1>3

LEMMA DueAfter ==
  ASSUME NEW j \in Nat, log \in Seq(Broadcasts), j < Len(log)
  PROVE SubSeq(log, j + 1, Len(log)) = Append(SubSeq(log, j + 1, Len(log) - 1), log[Len(log)])
<1>1. Len(log) \in Nat /\ j + 1 \in 1 .. Len(log) /\ Len(log) \in (j + 1) .. Len(log)
  BY LenProperties
<1>2. SubSeq(log, j + 1, Len(log)) = SubSeq(log, j + 1, Len(log) - 1) \o <<log[Len(log)]>>
  BY <1>1, SubSeqRecursiveSecond
<1>3. \A i \in 1 .. Len(log) : log[i] \in Broadcasts
  BY ElementOfSeq
<1>4. SubSeq(log, j + 1, Len(log) - 1) \in Seq(Broadcasts) /\ log[Len(log)] \in Broadcasts
  BY <1>1, <1>3, SubSeqProperties
<1> QED
  BY <1>2, <1>4, AppendIsConcat

\* Nothing that matters to c moves.
LEMMA StillInOrder ==
  ASSUME EveryBroadcastInOrder, NEW c \in connections, writer[c] = "writing",
         delivered'[c] = delivered[c], send'[c] = send[c], log' = log,
         joinedAt'[c] = joinedAt[c], SentUpTo(c)' = SentUpTo(c)
  PROVE Given(c)' = Due(c)'
<1>1. Given(c) = Due(c)
  BY InOrder
<1>2. Given(c)' = Given(c)
  BY DEF Given
<1>3. Due(c)' = Due(c)
  BY DEF Due
<1> QED
  BY <1>1, <1>2, <1>3

\* Every connection whose Write works goes on getting the log from where it
\* registered: Run's send moves the end of what is due and of what is given
\* together, and the pumps only move a message from the buffer to the socket.
LEMMA StepEveryBroadcastInOrder ==
  TypeOK /\ RegistryFollowsReaders /\ BroadcastUnderWay /\ EveryBroadcastInOrder /\ [Next]_vars
    => EveryBroadcastInOrder'
<1> SUFFICES ASSUME TypeOK, RegistryFollowsReaders, BroadcastUnderWay, EveryBroadcastInOrder,
                    [Next]_vars, NEW c \in connections', writer'[c] = "writing"
             PROVE Given(c)' = Due(c)'
  BY DEF EveryBroadcastInOrder, Given, Due
<1>t. /\ send \in [Conns -> Seq(Messages)] /\ delivered \in [Conns -> Seq(Broadcasts)]
      /\ reader \in [Conns -> {"absent", "registering", "reading", "offering", "leaving", "gone"}]
      /\ writer \in [Conns -> {"absent", "writing", "broken", "gone"}]
      /\ joinedAt \in [Conns -> Nat] /\ log \in Seq(Broadcasts) /\ Len(log) \in Nat
      /\ offer \in [Senders -> Broadcasts \cup {None}]
      /\ hub \in [pc : {"select", "sending", "kicking", "stopped"},
                  msg : Broadcasts \cup {None}, left : SUBSET Conns]
  BY DEF TypeOK
<1>c. connections' \subseteq Conns /\ connections \subseteq Conns
  BY StepRegistry DEF TypeOK
<1>1. CASE UNCHANGED <<send, delivered, hub, history, connections>> /\ writer[c] = "writing"
  BY <1>1, StillInOrder DEF history, SentUpTo
<1>2. ASSUME NEW d \in Conns, Register(d) PROVE Given(c)' = Due(c)'
  <2>1. /\ connections' = connections \cup {d} /\ joinedAt' = [joinedAt EXCEPT ![d] = Len(log)]
        /\ writer' = [writer EXCEPT ![d] = "writing"] /\ reader[d] = "registering"
        /\ UNCHANGED <<send, delivered, hub, log>> /\ hub.pc = "select"
    BY <1>2 DEF Register
  <2>2. CASE c = d
    <3>1. Given(c)' = <<>> \o BroadcastsIn(<<>>)
      BY <1>2, <2>1, <2>2 DEF Given, RegistryFollowsReaders
    <3>2. BroadcastsIn(<<>>) = <<>>
      BY KeepEmpty DEF BroadcastsIn
    <3>3. joinedAt'[c] = Len(log) /\ SentUpTo(c)' = Len(log)
      BY <1>t, <2>1, <2>2 DEF SentUpTo
    <3>4. Due(c)' = SubSeq(log, Len(log) + 1, Len(log))
      BY <2>1, <3>3 DEF Due
    <3>5. SubSeq(log, Len(log) + 1, Len(log)) = <<>>
      BY <1>t, SubSeqEmpty
    <3>6. <<>> \o <<>> = <<>>
      OBVIOUS
    <3> QED
      BY <3>1, <3>2, <3>4, <3>5, <3>6, Zenon
  <2>3. CASE c # d
    BY <1>t, <2>1, <2>3, StillInOrder DEF SentUpTo
  <2> QED
    BY <2>2, <2>3
<1>3. ASSUME NEW d \in Conns, Write(d) PROVE Given(c)' = Due(c)'
  <2>1. /\ writer[d] = "writing" /\ send[d] # <<>> /\ send' = [send EXCEPT ![d] = Tail(send[d])]
        /\ UNCHANGED <<connections, hub, log, joinedAt>>
    BY <1>3 DEF Write, registry, history
  <2>2. CASE c = d
    <3>1. /\ writer' = writer
          /\ delivered' = [delivered EXCEPT ![d] = delivered[d] \o BroadcastsIn(<<Head(send[d])>>)]
      BY <1>t, <1>3, <2>2 DEF Write
    <3>2. send'[c] = Tail(send[c]) /\ delivered'[c] = delivered[c] \o BroadcastsIn(<<Head(send[c])>>)
      BY <1>t, <1>c, <2>1, <2>2, <3>1
    <3>3. Given(c)' = Given(c)
      <4>1. send[c] \in Seq(Messages) /\ send[c] # <<>> /\ delivered[c] \in Seq(Broadcasts)
        BY <1>t, <1>c, <2>1, <2>2
      <4>2. (delivered[c] \o BroadcastsIn(<<Head(send[c])>>)) \o BroadcastsIn(Tail(send[c]))
              = delivered[c] \o BroadcastsIn(send[c])
        BY <4>1, HeadMoves, Zenon
      <4> QED
        BY <3>2, <4>2, Zenon DEF Given
    <3>4. Due(c)' = Due(c)
      BY <2>1 DEF Due, SentUpTo
    <3>5. Given(c) = Due(c)
      BY <2>1, <3>1, InOrder
    <3> QED
      BY <3>3, <3>4, <3>5
  <2>3. CASE c # d
    <3>1. send'[c] = send[c] /\ delivered'[c] = delivered[c] /\ writer[c] = "writing"
      BY <1>t, <1>c, <1>3, <2>3 DEF Write
    <3> QED
      BY <2>1, <3>1, StillInOrder DEF SentUpTo
  <2> QED
    BY <2>2, <2>3
<1>4. ASSUME NEW s \in Senders, TakeBroadcast(s) PROVE Given(c)' = Due(c)'
  <2>1. /\ hub.pc = "select" /\ offer[s] \in Broadcasts /\ log' = Append(log, offer[s])
        /\ hub'.pc = "sending" /\ hub'.left = connections
        /\ UNCHANGED <<send, delivered, connections, joinedAt, writer>>
    BY <1>t, <1>4 DEF TakeBroadcast, registry
  <2>2. Len(log') = Len(log) + 1
    BY <1>t, <2>1, AppendProperties
  <2>3. SentUpTo(c) = Len(log) /\ SentUpTo(c)' = Len(log)
    BY <1>t, <2>1, <2>2 DEF SentUpTo
  <2>4. joinedAt[c] \in Nat /\ joinedAt[c] <= Len(log) /\ joinedAt'[c] = joinedAt[c]
    BY <1>t, <1>c, <2>1 DEF BroadcastUnderWay
  <2>5. Due(c)' = SubSeq(Append(log, offer[s]), joinedAt[c] + 1, Len(log))
    BY <2>1, <2>3, <2>4 DEF Due
  <2>6. Due(c) = SubSeq(log, joinedAt[c] + 1, Len(log))
    BY <2>3 DEF Due
  <2>7. Due(c)' = Due(c)
    BY <1>t, <2>1, <2>4, <2>5, <2>6, DueBefore
  <2>8. Given(c)' = Given(c)
    BY <2>1 DEF Given
  <2> QED
    BY <2>1, <2>7, <2>8, InOrder
<1>5. ASSUME NEW d \in Conns, SendToNext(d) PROVE Given(c)' = Due(c)'
  <2>1. /\ hub.pc = "sending" /\ d \in hub.left
        /\ UNCHANGED <<writer, delivered, connections, log, joinedAt>>
    BY <1>5 DEF SendToNext, registry, history
  <2>2. CASE Len(send[d]) < SendBuffer
    <3>1. /\ send' = [send EXCEPT ![d] = Append(send[d], hub.msg)]
          /\ hub'.pc = "sending" /\ hub'.left = hub.left \ {d}
      BY <1>t, <1>5, <2>1, <2>2 DEF SendToNext
    <3>2. CASE c = d
      <4>1. hub.msg \in Broadcasts /\ hub.msg \in Messages /\ hub.msg = log[Len(log)]
        BY <2>1, SendingABroadcast DEF BroadcastUnderWay
      <4>2. SentUpTo(c) = Len(log) - 1 /\ SentUpTo(c)' = Len(log)
        BY <1>t, <2>1, <3>1, <3>2 DEF SentUpTo
      <4>3. joinedAt[c] \in Nat /\ joinedAt[c] < Len(log)
        BY <1>t, <1>c, <2>1 DEF BroadcastUnderWay
      <4>4. Given(c)' = Append(Given(c), hub.msg)
        <5>1. send'[c] = Append(send[c], hub.msg) /\ delivered' = delivered
          BY <1>t, <1>c, <2>1, <3>1, <3>2
        <5>2. send[c] \in Seq(Messages) /\ delivered[c] \in Seq(Broadcasts)
          BY <1>t, <1>c, <2>1
        <5>3. delivered[c] \o BroadcastsIn(Append(send[c], hub.msg))
                = Append(delivered[c] \o BroadcastsIn(send[c]), hub.msg)
          BY <4>1, <5>2, SendGives, Zenon
        <5> QED
          BY <5>1, <5>3, Zenon DEF Given
      <4>5. Due(c)' = Append(Due(c), hub.msg)
        <5>1. Due(c)' = SubSeq(log, joinedAt[c] + 1, Len(log))
          BY <2>1, <4>2 DEF Due
        <5>2. Due(c) = SubSeq(log, joinedAt[c] + 1, Len(log) - 1)
          BY <4>2 DEF Due
        <5> QED
          BY <1>t, <4>1, <4>3, <5>1, <5>2, DueAfter
      <4> QED
        BY <2>1, <4>4, <4>5, InOrder
    <3>3. CASE c # d
      BY <1>t, <1>c, <2>1, <3>1, <3>3, StillInOrder DEF SentUpTo
    <3> QED
      BY <3>2, <3>3
  <2>3. CASE ~(Len(send[d]) < SendBuffer)
    <3>1. send' = send /\ hub' = [hub EXCEPT !.pc = "kicking"]
      BY <1>5, <2>3 DEF SendToNext
    <3>2. hub'.pc = "kicking" /\ hub'.left = hub.left
      BY <1>t, <3>1
    <3> QED
      BY <1>t, <2>1, <3>1, <3>2, StillInOrder DEF SentUpTo
  <2> QED
    BY <2>2, <2>3
<1>6. CASE BroadcastDone \/ Stop
  <2>1. UNCHANGED <<send, delivered, writer, connections, log, joinedAt>>
    BY <1>6 DEF BroadcastDone, Stop, registry, history
  <2>2. hub.left = {}
    BY <1>6 DEF BroadcastDone, Stop, BroadcastUnderWay
  <2>3. hub'.left = {}
    BY SMTT(30), <1>t, <1>6, <2>2 DEF BroadcastDone, Stop, Selecting
  <2> QED
    BY <2>1, <2>2, <2>3, StillInOrder DEF SentUpTo
<1>7. ASSUME NEW m \in Directs, NEW receivers, Deliver(m, receivers) PROVE Given(c)' = Due(c)'
  <2>1. /\ UNCHANGED <<delivered, writer, connections, hub, log, joinedAt>>
        /\ m \in Messages
        /\ send' = [d \in Conns |-> IF d \in receivers \ closed /\ Len(send[d]) < SendBuffer
                                    THEN Append(send[d], m) ELSE send[d]]
    BY <1>7, Basics DEF Deliver, registry, history
  <2>2. send'[c] = send[c] \/ send'[c] = Append(send[c], m)
    BY <1>c, <2>1
  <2>3. Given(c)' = Given(c)
    <3>1. send[c] \in Seq(Messages) /\ delivered[c] \in Seq(Broadcasts) /\ delivered' = delivered
      BY <1>t, <1>c, <2>1
    <3>2. delivered[c] \o BroadcastsIn(Append(send[c], m)) = delivered[c] \o BroadcastsIn(send[c])
      BY <1>7, <2>1, <3>1, SendGives, Zenon
    <3> QED
      BY <2>2, <3>1, <3>2, Zenon DEF Given
  <2>4. Due(c)' = Due(c)
    BY <2>1 DEF Due, SentUpTo
  <2> QED
    BY <2>1, <2>3, <2>4, InOrder
<1>8. ASSUME NEW d \in Conns, Unregister(d) PROVE Given(c)' = Due(c)'
  BY <1>8, StillInOrder DEF Unregister, SentUpTo, history
<1>9. ASSUME NEW d \in Conns, Connect(d) \/ Receive(d) \/ HangUp(d) \/ WriteEnds(d)
                              \/ JoinRoom(d) \/ LeaveRoom(d)
      PROVE Given(c)' = Due(c)'
  <2>1. UNCHANGED <<send, delivered, hub, history, connections>>
    BY <1>9 DEF Connect, Receive, HangUp, WriteEnds, JoinRoom, LeaveRoom, registry
  <2>2. writer[c] = "writing"
    BY <1>t, <1>c, <1>9 DEF Connect, Receive, HangUp, WriteEnds, JoinRoom, LeaveRoom
  <2> QED
    BY <1>1, <2>1, <2>2
<1>10. ASSUME NEW s \in Callers, Broadcast(s) PROVE Given(c)' = Due(c)'
  BY <1>1, <1>10 DEF Broadcast, registry
<1>11. CASE UNCHANGED vars
  BY <1>1, <1>11 DEF vars, history
<1> QED
  BY NextCases, <1>2, <1>3, <1>4, <1>5, <1>6, <1>7, <1>8, <1>9, <1>10, <1>11

-----------------------------------------------------------------------------
(* The theorems *)

\* The first state: nobody is connected, and Run has taken nothing.
LEMMA InitIndInv == Init => IndInv
<1> SUFFICES ASSUME Init PROVE IndInv
    OBVIOUS
<1>0. None \notin Broadcasts /\ SendBuffer \in Nat
  BY Basics DEF Broadcasts, Messages
<1>1. TypeOK
  <2>1. users = [u \in Users |-> {c \in connections : UserOf[c] = u}]
    BY DEF Init
  <2>2. \A c \in Conns : Len(send[c]) <= SendBuffer
    BY <1>0 DEF Init
  <2>3. hub \in [pc : {"select", "sending", "kicking", "stopped"},
                 msg : Broadcasts \cup {None}, left : SUBSET Conns]
    BY DEF Init, Selecting
  <2>4. \A c \in Conns : (reader[c] = "offering") = (offer[c] # None)
    BY Basics DEF Init
  <2>5. /\ reader \in [Conns -> {"absent", "registering", "reading", "offering", "leaving", "gone"}]
        /\ writer \in [Conns -> {"absent", "writing", "broken", "gone"}]
        /\ send \in [Conns -> Seq(Messages)] /\ delivered \in [Conns -> Seq(Broadcasts)]
        /\ offer \in [Senders -> Broadcasts \cup {None}] /\ joinedAt \in [Conns -> Nat]
    BY DEF Init
  <2>6. /\ connections \subseteq Conns /\ closed \subseteq Conns /\ room \subseteq Conns
        /\ unsent \subseteq Messages /\ log \in Seq(Broadcasts)
        /\ joinedLate \subseteq Conns
    BY DEF Init
  <2>7. panicked \in BOOLEAN
    BY Zenon DEF Init
  <2> QED
    BY <2>1, <2>2, <2>3, <2>4, <2>5, <2>6, <2>7 DEF TypeOK
<1>2. RegistryFollowsReaders /\ BroadcastUnderWay /\ RoomOfConnections
  BY DEF Init, Selecting, RegistryFollowsReaders, BroadcastUnderWay, RoomOfConnections
<1>3. NoPanicUnlessJoinedLate /\ EveryBroadcastInOrder
  BY DEF Init, NoPanicUnlessJoinedLate, EveryBroadcastInOrder
<1> QED
  BY <1>1, <1>2, <1>3 DEF IndInv

\* Whatever clients and callers do, the hub's state is as IndInv has it.
THEOREM Invariance == Spec => []IndInv
<1>1. IndInv /\ [Next]_vars => IndInv'
  BY StepTypeOK, StepRegistryFollowsReaders, StepBroadcastUnderWay, StepRoomOfConnections,
     StepNoPanic, StepEveryBroadcastInOrder
  DEF IndInv
<1> QED
  BY InitIndInv, <1>1, PTL DEF Spec

\* The channels stay within their buffers, h.users is the user of each of
\* h.connections, and the pumps are where their goroutines can be.
THEOREM TypeCorrect == Spec => []TypeOK
<1>1. IndInv => TypeOK
  BY DEF IndInv
<1> QED
  BY <1>1, Invariance, PTL

\* `Broadcast sends a message to ALL connected clients': each gets every broadcast
\* since it registered, once and in the order of Run, however long the buffers are.
THEOREM BroadcastsAreOrdered == Spec => []EveryBroadcastInOrder
<1>1. IndInv => EveryBroadcastInOrder
  BY DEF IndInv
<1> QED
  BY <1>1, Invariance, PTL

\* The range of a broadcast never sends on a channel that Run has closed.
THEOREM RangeIsOverOpenChannels == Spec => []SendsToOpenConnections
<1>1. IndInv => SendsToOpenConnections
  BY DEF IndInv, TypeOK, BroadcastUnderWay, RegistryFollowsReaders, SendsToOpenConnections
<1> QED
  BY <1>1, Invariance, PTL

\* Only a JoinRoom for a connection that has unregistered can make SendTo or
\* BroadcastToRoom panic.
THEOREM PanicNeedsALateJoin == Spec => []NoPanicUnlessJoinedLate
<1>1. IndInv => NoPanicUnlessJoinedLate
  BY DEF IndInv
<1> QED
  BY <1>1, Invariance, PTL
=============================================================================
