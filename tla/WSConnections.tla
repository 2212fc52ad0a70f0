--------------------------- MODULE WSConnections ----------------------------
(***************************************************************************)
(* WebSocket connections of one process: tickets (redis/ws_ticket_store),  *)
(* the handshake (ws/handler.go), the hub (ws/hub.go), the two pumps of a  *)
(* connection (ws/client.go), presence (presence_service.go) and the       *)
(* delivery of an event to the members of a chat (ws/broadcaster.go).      *)
(*                                                                         *)
(* A connection is served by the goroutine of its HTTP request, which goes *)
(* through the handshake and then reads, and by a goroutine that writes    *)
(* what the connection's channel holds.  Events are put there by senders:  *)
(* the Kafka consumer or the relay, and the Redis subscriber.              *)
(***************************************************************************)
EXTENDS Integers, Sequences, FiniteSets

CONSTANTS
  Conns,       \* requests to /ws/connect
  Users,       \* user ids
  Tickets,     \* tickets that can be issued
  Senders,     \* goroutines that deliver events
  Hijackable,  \* the ResponseWriter of the request implements http.Hijacker;
               \* with the logging or the metrics of Chain it does not
  Buffer,      \* capacity of Client.send (256 in the code)
  None,        \* no user, no ticket, no sender
  MaxEvents    \* bound: events per sender

ASSUME ConnectionsAssumption ==
  /\ Hijackable \in BOOLEAN
  /\ Buffer \in Nat \ {0}
  /\ None \notin Users \union Tickets \union Senders
  /\ MaxEvents \in Nat

VARIABLES
  ticket,   \* per ticket: the user it was issued to, None without a key
  issued,   \* history: tickets issued, with their user
  conn,     \* per connection: where its request stands
  hub,      \* connections registered in Hub.clients
  active,   \* the gauge WSActive
  online,   \* users with a presence key
  send,     \* per connection: Client.send
  frame,    \* per connection: the frame writePump has taken from the channel
            \* and not written; the one it lost, if it ended on that write
  got,      \* history, per connection: events written to it
  dropped,  \* history, per connection: events that found the channel full
  due,      \* history, per connection: events that found it registered
  sender,   \* per sender: the event it delivers, and to whom
  toClose   \* connections that CloseAll still has to close

redisVars == <<ticket, issued, online>>
hubVars == <<hub, active>>
streamVars == <<send, frame, got, dropped, due>>
vars == <<redisVars, conn, hubVars, streamVars, sender, toClose>>

(* socket: "gone" when the peer or the network is, and "closed" after      *)
(* conn.Close; reads fail in both, writes for certain only in the latter.  *)
NewConn == [pc |-> "new", user |-> None, ticket |-> None, socket |-> "up", writer |-> "none"]
IdleSender == [event |-> 0, users |-> {}, clients |-> {}]

(* What a channel carries: an event is the n-th of its sender; an answer   *)
(* to a frame comes from no sender.                                        *)
Events == Senders \X (1..MaxEvents)
Reply == <<None, 0>>

Init ==
  /\ ticket = [t \in Tickets |-> None]
  /\ issued = [t \in Tickets |-> None]
  /\ conn = [k \in Conns |-> NewConn]
  /\ hub = {}
  /\ active = 0
  /\ online = {}
  /\ send = [k \in Conns |-> <<>>]
  /\ frame = [k \in Conns |-> <<>>]
  /\ got = [k \in Conns |-> <<>>]
  /\ dropped = [k \in Conns |-> {}]
  /\ due = [k \in Conns |-> {}]
  /\ sender = [s \in Senders |-> IdleSender]
  /\ toClose = {}

ClientsOf(u) == {k \in hub : conn[k].user = u}

-----------------------------------------------------------------------------
(* Tickets: SETNX with a lifetime, GETDEL. *)
Issue(t, u) ==
  /\ issued[t] = None
  /\ ticket' = [ticket EXCEPT ![t] = u]
  /\ issued' = [issued EXCEPT ![t] = u]
  /\ UNCHANGED <<online, conn, hubVars, streamVars, sender, toClose>>

ExpireTicket(t) ==
  /\ ticket[t] # None
  /\ ticket' = [ticket EXCEPT ![t] = None]
  /\ UNCHANGED <<issued, online, conn, hubVars, streamVars, sender, toClose>>

(* Variant: GET, without the DEL. *)
ConsumeKeeping(k, t) ==
  /\ conn[k].pc = "new"
  /\ ticket[t] # None
  /\ conn' = [conn EXCEPT ![k].pc = "upgrade", ![k].user = ticket[t], ![k].ticket = t]
  /\ UNCHANGED <<redisVars, hubVars, streamVars, sender, toClose>>

(* ServeHTTP, up to Consume.  A ticket without a key gets a 401. *)
Consume(k, t) ==
  /\ conn[k].pc = "new"
  /\ ticket[t] # None
  /\ ticket' = [ticket EXCEPT ![t] = None]
  /\ conn' = [conn EXCEPT ![k].pc = "upgrade", ![k].user = ticket[t], ![k].ticket = t]
  /\ UNCHANGED <<issued, online, hubVars, streamVars, sender, toClose>>

-----------------------------------------------------------------------------
(* The handshake, after the ticket is gone. *)
Upgrade(k) ==
  /\ conn[k].pc = "upgrade"
  /\ conn' = [conn EXCEPT ![k].pc = IF Hijackable THEN "upgraded" ELSE "refused"]
  /\ UNCHANGED <<redisVars, hubVars, streamVars, sender, toClose>>

(* The request is not a WebSocket handshake. *)
BadHandshake(k) ==
  /\ conn[k].pc = "upgrade"
  /\ conn' = [conn EXCEPT ![k].pc = "bad"]
  /\ UNCHANGED <<redisVars, hubVars, streamVars, sender, toClose>>

Connected(k) ==
  /\ conn[k].pc = "upgraded"
  /\ online' = online \union {conn[k].user}
  /\ conn' = [conn EXCEPT ![k].pc = "connected"]
  /\ UNCHANGED <<ticket, issued, hubVars, streamVars, sender, toClose>>

(* hub.Register, then the pumps start. *)
Register(k) ==
  /\ conn[k].pc = "connected"
  /\ hub' = hub \union {k}
  /\ active' = active + 1
  /\ conn' = [conn EXCEPT ![k].pc = "open", ![k].writer = "running"]
  /\ UNCHANGED <<redisVars, streamVars, sender, toClose>>

-----------------------------------------------------------------------------
(* select { case c.send <- b: default: } *)
Offer(k, e) == IF Len(send[k]) < Buffer THEN Append(send[k], e) ELSE send[k]

(* readPump handles a frame, also one that was read into its buffer before *)
(* the connection went away.  It refreshes the presence, unless the frame  *)
(* is no valid JSON, and may answer (a pong or an error) through the       *)
(* channel.                                                                *)
HandleEvent(k, valid, answers) ==
  /\ conn[k].pc = "open"
  /\ valid \/ answers
  /\ online' = IF valid THEN online \union {conn[k].user} ELSE online
  /\ send' = IF answers THEN [send EXCEPT ![k] = Offer(k, Reply)] ELSE send
  /\ UNCHANGED <<ticket, issued, conn, hubVars, frame, got, dropped, due, sender, toClose>>

(* The client or the network goes away, or no pong came for 60s. *)
PeerGone(k) ==
  /\ conn[k].pc \in {"upgraded", "connected", "open"} /\ conn[k].socket = "up"
  /\ conn' = [conn EXCEPT ![k].socket = "gone"]
  /\ UNCHANGED <<redisVars, hubVars, streamVars, sender, toClose>>

(* A presence key lives 45s without a frame; protocol pings do not count. *)
PresenceExpires(u) ==
  /\ u \in online
  /\ online' = online \ {u}
  /\ UNCHANGED <<ticket, issued, conn, hubVars, streamVars, sender, toClose>>

(* Variant: offline only if the hub has no other connection; but readPump  *)
(* calls onDisconnect before it unregisters.                               *)
DisconnectedIfLast(k) ==
  /\ conn[k].pc = "open" /\ conn[k].socket # "up"
  /\ online' = IF ClientsOf(conn[k].user) = {} THEN online \ {conn[k].user} ELSE online
  /\ conn' = [conn EXCEPT ![k].pc = "offline"]
  /\ UNCHANGED <<ticket, issued, hubVars, streamVars, sender, toClose>>

(* readPump's read fails; first of its deferred calls. *)
Disconnected(k) ==
  /\ conn[k].pc = "open" /\ conn[k].socket # "up"
  /\ online' = online \ {conn[k].user}
  /\ conn' = [conn EXCEPT ![k].pc = "offline"]
  /\ UNCHANGED <<ticket, issued, hubVars, streamVars, sender, toClose>>

(* Variant: the connection is only deleted with the last one of its user. *)
UnregisterLast(k) ==
  /\ conn[k].pc = "offline"
  /\ hub' = IF ClientsOf(conn[k].user) = {k} THEN hub \ {k} ELSE hub
  /\ active' = active - 1
  /\ conn' = [conn EXCEPT ![k].pc = "done", ![k].socket = "closed"]
  /\ UNCHANGED <<redisVars, streamVars, sender, toClose>>

(* The gauge goes down if the user has connections at all.  The last of    *)
(* the deferred calls closes the connection.                               *)
Unregister(k) ==
  /\ conn[k].pc = "offline"
  /\ hub' = hub \ {k}
  /\ active' = IF ClientsOf(conn[k].user) # {} THEN active - 1 ELSE active
  /\ conn' = [conn EXCEPT ![k].pc = "done", ![k].socket = "closed"]
  /\ UNCHANGED <<redisVars, streamVars, sender, toClose>>

(* writePump's select takes a frame out of the channel ... *)
TakeFrame(k) ==
  /\ conn[k].writer = "running" /\ frame[k] = <<>>
  /\ send[k] # <<>>
  /\ frame' = [frame EXCEPT ![k] = <<Head(send[k])>>]
  /\ send' = [send EXCEPT ![k] = Tail(@)]
  /\ UNCHANGED <<redisVars, conn, hubVars, got, dropped, due, sender, toClose>>

(* ... and writes it.  With the peer gone the kernel may still accept it. *)
WriteMessage(k) ==
  /\ conn[k].writer = "running" /\ frame[k] # <<>>
  /\ conn[k].socket # "closed"
  /\ frame' = [frame EXCEPT ![k] = <<>>]
  /\ got' = IF Head(frame[k]) = Reply THEN got
            ELSE [got EXCEPT ![k] = Append(@, Head(frame[k]))]
  /\ UNCHANGED <<redisVars, conn, hubVars, send, dropped, due, sender, toClose>>

(* Variant: the write pump unregisters the connection as well. *)
WritePumpUnregisters(k) ==
  /\ conn[k].writer = "running"
  /\ conn' = [conn EXCEPT ![k].writer = "done", ![k].socket = "closed"]
  /\ hub' = hub \ {k}
  /\ active' = IF ClientsOf(conn[k].user) # {} THEN active - 1 ELSE active
  /\ UNCHANGED <<redisVars, streamVars, sender, toClose>>

(* A write fails, of the frame in hand, which is lost, or of a ping:       *)
(* writePump closes the connection, which wakes the read pump.             *)
WritePumpEnds(k) ==
  /\ conn[k].writer = "running"
  /\ conn' = [conn EXCEPT ![k].writer = "done", ![k].socket = "closed"]
  /\ UNCHANGED <<redisVars, hubVars, streamVars, sender, toClose>>

-----------------------------------------------------------------------------
(* deliverPayload: the members of the chat are read once. *)
DeliverPayload(s, M) ==
  /\ sender[s].users = {} /\ sender[s].clients = {}
  /\ sender[s].event < MaxEvents
  /\ sender' = [sender EXCEPT ![s] = [event |-> @.event + 1, users |-> M, clients |-> {}]]
  /\ UNCHANGED <<redisVars, conn, hubVars, streamVars, toClose>>

(* SendToUser copies the set of connections under the lock... *)
SendToUser(s, u) ==
  /\ u \in sender[s].users /\ sender[s].clients = {}
  /\ sender' = [sender EXCEPT ![s].users = @ \ {u}, ![s].clients = ClientsOf(u)]
  /\ due' = [k \in Conns |->
       IF k \in ClientsOf(u) THEN due[k] \union {<<s, sender[s].event>>} ELSE due[k]]
  /\ UNCHANGED <<redisVars, conn, hubVars, send, frame, got, dropped, toClose>>

(* Variant: a full channel ends the loop over the connections. *)
OfferToClientOrStop(s, k) ==
  LET e == <<s, sender[s].event>>
  IN  /\ k \in sender[s].clients
      /\ send' = [send EXCEPT ![k] = Offer(k, e)]
      /\ dropped' = IF Len(send[k]) < Buffer THEN dropped
                    ELSE [dropped EXCEPT ![k] = @ \union {e}]
      /\ sender' = [sender EXCEPT ![s].clients =
           IF Len(send[k]) < Buffer THEN @ \ {k} ELSE {}]
      /\ UNCHANGED <<redisVars, conn, hubVars, frame, got, due, toClose>>

(* ... and offers the event to each of them after the unlock, also to the  *)
(* ones that have been unregistered by then.                               *)
OfferToClient(s, k) ==
  LET e == <<s, sender[s].event>>
  IN  /\ k \in sender[s].clients
      /\ send' = [send EXCEPT ![k] = Offer(k, e)]
      /\ dropped' = IF Len(send[k]) < Buffer THEN dropped
                    ELSE [dropped EXCEPT ![k] = @ \union {e}]
      /\ sender' = [sender EXCEPT ![s].clients = @ \ {k}]
      /\ UNCHANGED <<redisVars, conn, hubVars, frame, got, due, toClose>>

(* CloseAll, on shutdown: a copy of the hub, then one Close after another. *)
(* Requests are still served meanwhile.                                    *)
CloseAll ==
  /\ toClose = {} /\ hub # {}
  /\ toClose' = hub
  /\ UNCHANGED <<redisVars, conn, hubVars, streamVars, sender>>

CloseForShutdown(k) ==
  /\ k \in toClose
  /\ toClose' = toClose \ {k}
  /\ conn' = [conn EXCEPT ![k].socket = "closed"]
  /\ UNCHANGED <<redisVars, hubVars, streamVars, sender>>

-----------------------------------------------------------------------------
RequestStep(k) ==
  \/ \E t \in Tickets : Consume(k, t)
  \/ BadHandshake(k) \/ PeerGone(k)
  \/ \E valid, answers \in BOOLEAN : HandleEvent(k, valid, answers)

(* What the goroutine of the request does without waiting for the client. *)
HandlerStep(k) ==
  Upgrade(k) \/ Connected(k) \/ Register(k) \/ Disconnected(k) \/ Unregister(k)

WriterStep(k) == TakeFrame(k) \/ WriteMessage(k) \/ WritePumpEnds(k)

SenderStep(s) ==
  \/ \E M \in SUBSET Users : DeliverPayload(s, M)
  \/ \E u \in Users : SendToUser(s, u)
  \/ \E k \in Conns : OfferToClient(s, k)

Next ==
  \/ \E t \in Tickets : ExpireTicket(t) \/ \E u \in Users : Issue(t, u)
  \/ \E k \in Conns : RequestStep(k) \/ HandlerStep(k) \/ WriterStep(k) \/ CloseForShutdown(k)
  \/ \E s \in Senders : SenderStep(s)
  \/ \E u \in Users : PresenceExpires(u)
  \/ CloseAll

Spec == Init /\ [][Next]_vars

(* The goroutine of a request runs on: nothing it does in these steps      *)
(* waits for anybody, except for the lock of the hub, held only briefly.   *)
Fairness == \A k \in Conns : WF_vars(HandlerStep(k))

FairSpec == Spec /\ Fairness

-----------------------------------------------------------------------------
(***************************************************************************)
(* Properties                                                              *)
(***************************************************************************)

ConnType ==
  [pc : {"new", "upgrade", "bad", "refused", "upgraded", "connected", "open", "offline", "done"},
   user : Users \union {None}, ticket : Tickets \union {None}, socket : {"up", "gone", "closed"},
   writer : {"none", "running", "done"}]

SenderType == [event : 0..MaxEvents, users : SUBSET Users, clients : SUBSET Conns]

(* The shape of the state: what is in the hub has passed the handshake, a  *)
(* channel never exceeds its capacity, and only what was due is dropped.   *)
TypeOK ==
  /\ ticket \in [Tickets -> Users \union {None}] /\ issued \in [Tickets -> Users \union {None}]
  /\ conn \in [Conns -> ConnType]
  /\ hub \in SUBSET Conns /\ \A k \in hub : conn[k].pc \in {"open", "offline"}
  /\ online \in SUBSET Users
  /\ send \in [Conns -> Seq(Events \union {Reply})]
  /\ frame \in [Conns -> {<<>>} \union {<<m>> : m \in Events \union {Reply}}]
  /\ got \in [Conns -> Seq(Events)]
  /\ dropped \in [Conns -> SUBSET Events] /\ due \in [Conns -> SUBSET Events]
  /\ \A k \in Conns : Len(send[k]) <= Buffer /\ dropped[k] \subseteq due[k]
  /\ sender \in [Senders -> SenderType]
  /\ toClose \in SUBSET Conns

(* A ticket opens at most one connection, for the user it was issued to,   *)
(* however many requests present it at once.                               *)
TicketOpensOnce ==
  \A k \in Conns : conn[k].ticket # None =>
    /\ conn[k].user = issued[conn[k].ticket]
    /\ \A j \in Conns : conn[j].ticket = conn[k].ticket => j = k

(* The gauge WSActive counts the connections in the hub: Unregister        *)
(* decrements it even for a connection that is not there, and is therefore *)
(* called once per connection.                                             *)
GaugeCountsClients == active = Cardinality(hub)

(* What writePump has taken out of the channel of k, without the answers   *)
(* that are already written; and with what waits there.                    *)
Taken(k) == got[k] \o frame[k]
Stream(k) == Taken(k) \o send[k]

Carries(k, e) == \E n \in 1..Len(Stream(k)) : Stream(k)[n] = e

Accounted(k) ==
  \A e \in due[k] :
    \/ Carries(k, e) \/ e \in dropped[k]
    \/ \E s \in Senders : k \in sender[s].clients /\ e = <<s, sender[s].event>>

InOrder(k) ==
  \A m, n \in 1..Len(Stream(k)) :
    m < n /\ Stream(k)[m] # Reply /\ Stream(k)[m][1] = Stream(k)[n][1] =>
      Stream(k)[m][2] < Stream(k)[n][2]

(* An event that found a connection registered is written to it, waits in  *)
(* its channel, is about to be offered, was dropped because the channel    *)
(* was full, or is the one frame in the hand of writePump, which is lost   *)
(* if its write fails; a slow or dying connection costs no other           *)
(* connection anything.  What a sender sent arrives in its order.          *)
OnlyFullChannelsDrop == \A k \in Conns : Accounted(k) /\ InOrder(k)

(* Nobody is shown online without a connection being served: whatever      *)
(* connections of a user come and go, the last presence update is the      *)
(* removal by the last of them (while the calls to Redis succeed).         *)
OnlineIsConnected ==
  \A u \in online : \E k \in Conns :
    conn[k].user = u /\ conn[k].pc \in {"connected", "open"}

(* A connection that is closed, by whichever side and whenever, leaves the *)
(* hub for good, also when it closes before it is registered.  (There are  *)
(* finitely many connections, and closed ones stay closed.)                *)
ClosedIsForgotten ==
  <>[](\A k \in Conns : conn[k].socket # "up" => k \notin hub)

(***************************************************************************)
(* The inductive invariants behind these properties (see                   *)
(* WSConnectionsProofs).  A connection is in the hub exactly between       *)
(* Register and Unregister.  A ticket that is still there has opened       *)
(* nothing.  A sender goes through the users one by one, and has not yet   *)
(* offered its event to the connections it still has before it.            *)
(***************************************************************************)
HubInv ==
  /\ hub = {k \in Conns : conn[k].pc \in {"open", "offline"}}
  /\ IsFiniteSet(hub) /\ GaugeCountsClients

TicketInv ==
  /\ \A t \in Tickets : ticket[t] # None =>
       ticket[t] = issued[t] /\ \A k \in Conns : conn[k].ticket # t
  /\ \A k \in Conns : IF conn[k].pc = "new" THEN conn[k].ticket = None
                                             ELSE conn[k].user \in Users
  /\ TicketOpensOnce

Ahead(s, k) ==
  /\ sender[s].users # {} => sender[s].event # 0
  /\ k \in sender[s].clients =>
       /\ conn[k].user \notin sender[s].users /\ <<s, sender[s].event>> \in due[k]
       /\ conn[k].pc # "new"
  /\ \A n \in 1..Len(Stream(k)) : Stream(k)[n][1] = s =>
       \/ Stream(k)[n][2] < sender[s].event
       \/ /\ Stream(k)[n][2] = sender[s].event /\ conn[k].pc # "new"
          /\ k \notin sender[s].clients /\ conn[k].user \notin sender[s].users

StreamInv ==
  /\ OnlyFullChannelsDrop
  /\ \A k \in Conns : conn[k].pc = "new" => Stream(k) = <<>>
  /\ \A s \in Senders, k \in Conns : Ahead(s, k)
=============================================================================
