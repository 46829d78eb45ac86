---------------------------- MODULE WebSocketHub -----------------------------
(***************************************************************************)
(* framework/http/websockets.go: the Hub, its Run loop, and the two pumps  *)
(* of every connection.                                                    *)
(*                                                                         *)
(* h.register, h.unregister and h.broadcast are unbuffered: a goroutine    *)
(* waits at its send until Run, in its select, takes it, so sender and Run *)
(* move together. Run holds h.mu.RLock from the first connection of a      *)
(* broadcast to the last, and sends to one connection a step; the other    *)
(* locked sections never block and are one step each. A message is named   *)
(* by when it is sent: broadcasts are 1, 2, ... up to the bound            *)
(* MaxBroadcasts, in the order their senders call Broadcast; there is one  *)
(* SendTo or BroadcastToRoom for each element of Directs.                  *)
(***************************************************************************)
EXTENDS Naturals, Sequences, FiniteSets, Slices

CONSTANTS Conns,       \* the connections clients open
          Users,       \* user names
          UserOf,      \* the user of each connection, or Anonymous
          Anonymous,   \* the empty UserID
          Joiners,     \* the connections JoinRoom is called for
          Callers,     \* application goroutines that call Broadcast
          MaxBroadcasts, \* bound: messages clients or callers broadcast
          Directs,     \* messages of SendTo and BroadcastToRoom
          SendBuffer,  \* capacity of Connection.send (256 in the code)
          None         \* no message

ASSUME HubAssumption ==
  /\ SendBuffer \in Nat \ {0}
  /\ UserOf \in [Conns -> Users \cup {Anonymous}] /\ Anonymous \notin Users
  /\ MaxBroadcasts \in Nat
  /\ 1..MaxBroadcasts \cap Directs = {} /\ None \notin 1..MaxBroadcasts \cup Directs
  /\ Conns \cap Callers = {} /\ Joiners \subseteq Conns

VARIABLES reader,      \* where each connection's handler goroutine, Read, is
          writer,      \* where its Write goroutine is
          send,        \* the messages in Connection.send
          closed,      \* connections whose send channel is closed
          delivered,   \* the broadcasts Write has put on each WebSocket
          connections, \* h.connections
          users,       \* h.users; no entry is the empty set
          room,        \* h.rooms, for one room
          hub,         \* Run: where it is, the message, the connections yet to get it
          offer,       \* the message each goroutine waits to hand to Run in Broadcast
          unsent,      \* messages nobody has sent yet
          log,         \* the broadcasts Run has taken, in order
          joinedAt,    \* the length of the log when each connection registered
          joinedLate,  \* connections put in the room after they unregistered
          panicked     \* a caller of SendTo or BroadcastToRoom sent on a closed channel

vars == <<reader, writer, send, closed, delivered, connections, users, room, hub,
          offer, unsent, log, joinedAt, joinedLate, panicked>>
registry == <<connections, users, room>>
history == <<log, joinedAt>>
lateJoins == <<joinedLate, panicked>>

Broadcasts == 1..MaxBroadcasts
Messages == Broadcasts \cup Directs
Senders == Conns \cup Callers

BroadcastsIn(msgs) == Keep(msgs, Broadcasts)

TypeOK ==
  /\ reader \in [Conns -> {"absent", "registering", "reading", "offering", "leaving", "gone"}]
  /\ writer \in [Conns -> {"absent", "writing", "broken", "gone"}]
  /\ send \in [Conns -> Seq(Messages)] /\ \A c \in Conns : Len(send[c]) <= SendBuffer
  /\ delivered \in [Conns -> Seq(Broadcasts)]
  /\ connections \subseteq Conns /\ closed \subseteq Conns /\ room \subseteq Conns
  /\ users = [u \in Users |-> {c \in connections : UserOf[c] = u}]
  /\ hub \in [pc : {"select", "sending", "kicking", "stopped"},
              msg : Broadcasts \cup {None}, left : SUBSET Conns]
  /\ offer \in [Senders -> Broadcasts \cup {None}]
  /\ \A c \in Conns : (reader[c] = "offering") = (offer[c] # None)
  /\ unsent \subseteq Messages
  /\ log \in Seq(Broadcasts) /\ joinedAt \in [Conns -> Nat]
  /\ joinedLate \subseteq Conns /\ panicked \in BOOLEAN

Selecting == [pc |-> "select", msg |-> None, left |-> {}]

Init ==
  /\ reader = [c \in Conns |-> "absent"] /\ writer = [c \in Conns |-> "absent"]
  /\ send = [c \in Conns |-> <<>>] /\ delivered = [c \in Conns |-> <<>>]
  /\ connections = {} /\ closed = {} /\ room = {} /\ users = [u \in Users |-> {}]
  /\ hub = Selecting
  /\ offer = [s \in Senders |-> None]
  /\ unsent = Messages
  /\ log = <<>> /\ joinedAt = [c \in Conns |-> 0]
  /\ joinedLate = {} /\ panicked = FALSE

-----------------------------------------------------------------------------
(* Connections: HandlerForUser, Read, Write *)

\* A client connects; its handler waits at h.register.
Connect(c) ==
  /\ reader[c] = "absent"
  /\ reader' = [reader EXCEPT ![c] = "registering"]
  /\ UNCHANGED <<writer, send, closed, delivered, registry, hub, offer, unsent, history, lateJoins>>

\* The next message to be broadcast.
NextBroadcast == Cardinality(Broadcasts \ unsent) + 1

\* Read has received a message and calls Broadcast.
Receive(c) ==
  /\ reader[c] = "reading" /\ NextBroadcast \in Broadcasts \cap unsent
  /\ reader' = [reader EXCEPT ![c] = "offering"]
  /\ offer' = [offer EXCEPT ![c] = NextBroadcast]
  /\ unsent' = unsent \ {NextBroadcast}
  /\ UNCHANGED <<writer, send, closed, delivered, registry, hub, history, lateJoins>>

\* Receive returns an error, because the client went or Write closed the socket.
HangUp(c) ==
  /\ reader[c] = "reading"
  /\ reader' = [reader EXCEPT ![c] = "leaving"]
  /\ UNCHANGED <<writer, send, closed, delivered, registry, hub, offer, unsent, history, lateJoins>>

Write(c) ==
  /\ writer[c] = "writing" /\ send[c] # <<>>
  /\ send' = [send EXCEPT ![c] = Tail(@)]
  /\ \/ /\ delivered' = [delivered EXCEPT ![c] = @ \o BroadcastsIn(<<Head(send[c])>>)]
        /\ UNCHANGED writer
     \/ writer' = [writer EXCEPT ![c] = "broken"] /\ UNCHANGED delivered
  /\ UNCHANGED <<reader, closed, registry, hub, offer, unsent, history, lateJoins>>

\* The range over the closed and drained channel ends.
WriteEnds(c) ==
  /\ writer[c] = "writing" /\ send[c] = <<>> /\ c \in closed
  /\ writer' = [writer EXCEPT ![c] = "gone"]
  /\ UNCHANGED <<reader, send, closed, delivered, registry, hub, offer, unsent, history, lateJoins>>

-----------------------------------------------------------------------------
(* Run *)

\* `<-h.register', and the Write goroutine the handler starts next.
Register(c) ==
  /\ hub.pc = "select" /\ reader[c] = "registering"
  /\ connections' = connections \cup {c}
  /\ users' = [u \in Users |-> IF UserOf[c] = u THEN users[u] \cup {c} ELSE users[u]]
  /\ reader' = [reader EXCEPT ![c] = "reading"]
  /\ writer' = [writer EXCEPT ![c] = "writing"]
  /\ joinedAt' = [joinedAt EXCEPT ![c] = Len(log)]
  /\ UNCHANGED <<send, closed, delivered, room, hub, offer, unsent, log, lateJoins>>

\* Mutant of Unregister: the user's set keeps the connection.
UnregisterConnectionOnly(c) ==
  /\ hub.pc = "select" /\ reader[c] = "leaving"
  /\ connections' = connections \ {c}
  /\ closed' = closed \cup {c}
  /\ room' = room \ {c}
  /\ reader' = [reader EXCEPT ![c] = "gone"]
  /\ UNCHANGED <<writer, send, delivered, users, hub, offer, unsent, history, lateJoins>>

\* Mutant of Unregister: without close(c.send).
UnregisterWithoutClose(c) ==
  /\ hub.pc = "select" /\ reader[c] = "leaving"
  /\ connections' = connections \ {c}
  /\ users' = [u \in Users |-> users[u] \ {c}]
  /\ room' = room \ {c}
  /\ reader' = [reader EXCEPT ![c] = "gone"]
  /\ UNCHANGED <<writer, send, closed, delivered, hub, offer, unsent, history, lateJoins>>

\* Mutant of Unregister: Read takes itself off the registry, without Run.
UnregisterAtOnce(c) ==
  /\ reader[c] = "leaving"
  /\ connections' = connections \ {c}
  /\ closed' = closed \cup {c}
  /\ users' = [u \in Users |-> users[u] \ {c}]
  /\ room' = room \ {c}
  /\ reader' = [reader EXCEPT ![c] = "gone"]
  /\ UNCHANGED <<writer, send, delivered, hub, offer, unsent, history, lateJoins>>

\* `<-h.unregister' from Read's deferred send.
Unregister(c) ==
  /\ hub.pc = "select" /\ reader[c] = "leaving"
  /\ connections' = connections \ {c}
  /\ closed' = closed \cup {c}
  /\ users' = [u \in Users |-> users[u] \ {c}]
  /\ room' = room \ {c}
  /\ reader' = [reader EXCEPT ![c] = "gone"]
  /\ UNCHANGED <<writer, send, delivered, hub, offer, unsent, history, lateJoins>>

\* `<-h.broadcast': take the message of a waiting Broadcast and RLock.
TakeBroadcast(s) ==
  /\ hub.pc = "select" /\ offer[s] # None
  /\ hub' = [pc |-> "sending", msg |-> offer[s], left |-> connections]
  /\ log' = Append(log, offer[s])
  /\ offer' = [offer EXCEPT ![s] = None]
  /\ reader' = IF s \in Conns THEN [reader EXCEPT ![s] = "reading"] ELSE reader
  /\ UNCHANGED <<writer, send, closed, delivered, registry, unsent, joinedAt, lateJoins>>

\* Mutant of SendToNext: drops the message, as SendTo does.
SendToNextOrDrop(c) ==
  /\ hub.pc = "sending" /\ c \in hub.left
  /\ hub' = [hub EXCEPT !.left = @ \ {c}]
  /\ send' = IF Len(send[c]) < SendBuffer THEN [send EXCEPT ![c] = Append(@, hub.msg)] ELSE send
  /\ UNCHANGED <<reader, writer, closed, delivered, registry, offer, unsent, history, lateJoins>>

\* One turn of the range over h.connections. With the buffer full, Run unlocks
\* and sends on h.unregister, whose only receiver it is.
SendToNext(c) ==
  /\ hub.pc = "sending" /\ c \in hub.left
  /\ IF Len(send[c]) < SendBuffer
     THEN /\ send' = [send EXCEPT ![c] = Append(@, hub.msg)]
          /\ hub' = [hub EXCEPT !.left = @ \ {c}]
     ELSE /\ hub' = [hub EXCEPT !.pc = "kicking"]
          /\ UNCHANGED send
  /\ UNCHANGED <<reader, writer, closed, delivered, registry, offer, unsent, history, lateJoins>>

BroadcastDone ==
  /\ hub.pc = "sending" /\ hub.left = {}
  /\ hub' = Selecting
  /\ UNCHANGED <<reader, writer, send, closed, delivered, registry, offer, unsent, history, lateJoins>>

\* `<-ctx.Done()': Run returns and nobody receives from the three channels again.
Stop ==
  /\ hub.pc = "select"
  /\ hub' = [hub EXCEPT !.pc = "stopped"]
  /\ UNCHANGED <<reader, writer, send, closed, delivered, registry, offer, unsent, history, lateJoins>>

-----------------------------------------------------------------------------
(* The application's calls *)

Broadcast(s) ==
  /\ s \in Callers /\ offer[s] = None /\ NextBroadcast \in Broadcasts \cap unsent
  /\ offer' = [offer EXCEPT ![s] = NextBroadcast]
  /\ unsent' = unsent \ {NextBroadcast}
  /\ UNCHANGED <<reader, writer, send, closed, delivered, registry, hub, history, lateJoins>>

\* The non-blocking sends of SendTo and BroadcastToRoom, under RLock: a full
\* buffer drops the message, a closed channel panics.
Deliver(m, receivers) ==
  /\ m \in unsent \cap Directs
  /\ unsent' = unsent \ {m}
  /\ send' = [c \in Conns |-> IF c \in receivers \ closed /\ Len(send[c]) < SendBuffer
                              THEN Append(send[c], m) ELSE send[c]]
  /\ panicked' = (panicked \/ receivers \cap closed # {})
  /\ UNCHANGED <<reader, writer, closed, delivered, registry, hub, offer, history, joinedLate>>

SendTo(u, m) == Deliver(m, users[u])
BroadcastToRoom(m) == Deliver(m, room)

\* JoinRoom and LeaveRoom take the write lock, for a connection that has been in
\* h.connections at some time. Neither looks whether it still is.
JoinRoom(c) ==
  /\ hub.pc # "sending" /\ writer[c] # "absent" /\ c \notin room
  /\ room' = room \cup {c}
  /\ joinedLate' = IF c \in connections THEN joinedLate ELSE joinedLate \cup {c}
  /\ UNCHANGED <<reader, writer, send, closed, delivered, connections, users, hub, offer,
                 unsent, history, panicked>>

LeaveRoom(c) ==
  /\ hub.pc # "sending" /\ c \in room
  /\ room' = room \ {c}
  /\ UNCHANGED <<reader, writer, send, closed, delivered, connections, users, hub, offer,
                 unsent, history, lateJoins>>

-----------------------------------------------------------------------------
Run == (\E c \in Conns : Register(c) \/ Unregister(c) \/ SendToNext(c))
       \/ (\E s \in Senders : TakeBroadcast(s)) \/ BroadcastDone

Next ==
  \/ Run \/ Stop
  \/ \E c \in Conns : \/ Connect(c) \/ Receive(c) \/ HangUp(c) \/ Write(c) \/ WriteEnds(c)
                      \/ LeaveRoom(c)
  \/ \E c \in Joiners : JoinRoom(c)
  \/ \E s \in Callers : Broadcast(s)
  \/ \E m \in Directs : BroadcastToRoom(m) \/ \E u \in Users : SendTo(u, m)

Spec == Init /\ [][Next]_vars

\* Run's select is fair between the goroutines that wait at its channels, and a
\* running Write makes progress. What clients and callers do is up to them.
Fairness ==
  /\ WF_vars(Run)
  /\ \A c \in Conns : /\ SF_vars(Register(c) \/ Unregister(c))
                      /\ WF_vars(Write(c) \/ WriteEnds(c))
  /\ \A s \in Senders : SF_vars(TakeBroadcast(s))

FairSpec == Spec /\ Fairness

-----------------------------------------------------------------------------
(* Properties *)

\* How much of the log Run has sent to c.
SentUpTo(c) ==
  IF hub.pc \in {"sending", "kicking"} /\ c \in hub.left THEN Len(log) - 1 ELSE Len(log)

\* `Broadcast sends a message to ALL connected clients': a connection whose Write
\* works gets every broadcast taken since it registered, in the order Run took
\* them, once, however Broadcast, SendTo and the room calls interleave with them.
EveryBroadcastInOrder ==
  \A c \in connections :
    writer[c] = "writing" =>
      delivered[c] \o BroadcastsIn(send[c]) = SubSeq(log, joinedAt[c] + 1, SentUpTo(c))

\* SendTo and BroadcastToRoom reach the channel of a connection that is gone, and
\* panic, only after JoinRoom was called for a connection that had unregistered.
NoPanicUnlessJoinedLate == panicked => joinedLate # {}

\* The broadcasts of the log are only ever sent to connections Run still has.
SendsToOpenConnections == hub.left \subseteq connections /\ connections \cap closed = {}

\* What these rest on: h.connections and the closed channels are what the readers'
\* places say, and nothing reaches a connection before it registers.
RegistryFollowsReaders ==
  \A c \in Conns :
    /\ c \in connections <=> reader[c] \in {"reading", "offering", "leaving"}
    /\ c \in closed <=> reader[c] = "gone"
    /\ writer[c] = "absent" <=> reader[c] \in {"absent", "registering"}
    /\ writer[c] = "absent" => send[c] = <<>> /\ delivered[c] = <<>> /\ c \notin room

\* While Run broadcasts, the message is the last of the log, and the connections
\* that have yet to get it, like all the others, were there when Run took it.
BroadcastUnderWay ==
  /\ hub.left \subseteq connections
  /\ hub.pc \in {"select", "stopped"} => hub.left = {}
  /\ hub.pc \in {"sending", "kicking"} =>
       /\ log # <<>> /\ hub.msg = log[Len(log)]
       /\ \A c \in connections : joinedAt[c] < Len(log)
  /\ \A c \in connections : joinedAt[c] <= Len(log)

\* Only a late JoinRoom puts a connection in the room that is not in h.connections.
RoomOfConnections == room \subseteq connections \cup joinedLate

IndInv ==
  /\ TypeOK /\ RegistryFollowsReaders /\ BroadcastUnderWay /\ RoomOfConnections
  /\ NoPanicUnlessJoinedLate /\ EveryBroadcastInOrder

HubGone == hub.pc \in {"stopped", "kicking"}

\* A connection that hangs up leaves no goroutine behind: its Read gets past
\* h.unregister and its Write ends, unless Run has returned or waits for itself.
PumpsEnd ==
  \A c \in Conns :
    reader[c] = "leaving" ~> HubGone \/ (reader[c] = "gone" /\ writer[c] \in {"broken", "gone"})

\* `Broadcast sends a message to ALL connected clients': Run sends a message it
\* has taken to every connection, or was stopped before.
BroadcastReachesAll ==
  \A c \in Conns : c \in hub.left ~> c \notin hub.left
==============================================================================
