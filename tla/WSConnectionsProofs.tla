------------------------ MODULE WSConnectionsProofs -------------------------
(***************************************************************************)
(* Proofs about WSConnections, for every set of connections, users,        *)
(* tickets and senders, every capacity of the channels and every number of *)
(* events.                                                                 *)
(***************************************************************************)
EXTENDS WSConnections, FiniteSetTheorems, TLAPS

(* The inductive invariant.                                                *)
ConnInv == TypeOK /\ HubInv /\ TicketInv /\ StreamInv /\ OnlineIsConnected

-----------------------------------------------------------------------------
(***************************************************************************)
(* Facts about records and sequences.                                      *)
(***************************************************************************)
LEMMA NewConnType == NewConn \in ConnType /\ NewConn.pc = "new" /\ NewConn.ticket = None
                     /\ NewConn.user = None
BY DEF NewConn, ConnType

(* What IdleSender says of a sender without an event.                      *)
LEMMA IdleSenderType ==
  IdleSender \in SenderType /\ IdleSender.users = {} /\ IdleSender.clients = {}
BY ConnectionsAssumption DEF IdleSender, SenderType

(* A connection moves to r.                                                *)
LEMMA ConnMoves ==
  ASSUME TypeOK, NEW k \in Conns, NEW r \in ConnType, conn' = [conn EXCEPT ![k] = r]
  PROVE  /\ conn' \in [Conns -> ConnType] /\ conn'[k] = r
         /\ \A j \in Conns : j # k => conn'[j] = conn[j]
BY DEF TypeOK

(* A sender moves to r.                                                    *)
LEMMA SenderMoves ==
  ASSUME TypeOK, NEW s \in Senders, NEW r \in SenderType, sender' = [sender EXCEPT ![s] = r]
  PROVE  /\ sender' \in [Senders -> SenderType] /\ sender'[s] = r
         /\ \A q \in Senders : q # s => sender'[q] = sender[q]
BY DEF TypeOK

(* No event is a reply.                                                    *)
LEMMA EventIsNoReply ==
  \A e \in Events : e # Reply /\ e[1] \in Senders /\ e[2] \in 1..MaxEvents /\ e[1] # None
BY ConnectionsAssumption DEF Events, Reply

(* What comes behind the channel comes last in the stream.                 *)
LEMMA ConcatAppend ==
  ASSUME NEW T, NEW a \in Seq(T), NEW b \in Seq(T), NEW e \in T
  PROVE  a \o Append(b, e) = Append(a \o b, e)
<1>1. /\ a \o Append(b, e) \in Seq(T) /\ Append(a \o b, e) \in Seq(T)
      /\ Len(a \o Append(b, e)) = Len(Append(a \o b, e))
  OBVIOUS
<1>2. \A n \in 1..Len(a \o Append(b, e)) : (a \o Append(b, e))[n] = Append(a \o b, e)[n]
  OBVIOUS
<1> QED
  BY <1>1, <1>2

(* Taking the head of the channel in hand leaves the stream as it is.      *)
LEMMA ConcatShift ==
  ASSUME NEW T, NEW a \in Seq(T), NEW b \in Seq(T), b # <<>>
  PROVE  (a \o <<Head(b)>>) \o Tail(b) = (a \o <<>>) \o b
<1>1. /\ (a \o <<Head(b)>>) \o Tail(b) \in Seq(T) /\ (a \o <<>>) \o b \in Seq(T)
      /\ Len((a \o <<Head(b)>>) \o Tail(b)) = Len((a \o <<>>) \o b)
  OBVIOUS
<1>2. \A n \in 1..Len((a \o <<>>) \o b) :
        ((a \o <<Head(b)>>) \o Tail(b))[n] = ((a \o <<>>) \o b)[n]
  OBVIOUS
<1> QED
  BY <1>1, <1>2

(* Writing the event in hand leaves the stream as it is.                   *)
LEMMA ConcatWrite ==
  ASSUME NEW T, NEW a \in Seq(T), NEW e \in T
  PROVE  Append(a, e) \o <<>> = a \o <<e>>
<1>1. /\ Append(a, e) \o <<>> \in Seq(T) /\ a \o <<e>> \in Seq(T)
      /\ Len(Append(a, e) \o <<>>) = Len(a \o <<e>>)
  OBVIOUS
<1>2. \A n \in 1..Len(a \o <<e>>) : (Append(a, e) \o <<>>)[n] = (a \o <<e>>)[n]
  OBVIOUS
<1> QED
  BY <1>1, <1>2

(* Without the answer in hand, the rest of the stream moves up.            *)
LEMMA ConcatDrop ==
  ASSUME NEW T, NEW a \in Seq(T), NEW b \in Seq(T), NEW e \in T
  PROVE  /\ Len((a \o <<>>) \o b) = Len((a \o <<e>>) \o b) - 1 /\ Len((a \o <<e>>) \o b) \in Nat
         /\ Len(a) \in Nat /\ Len(a) < Len((a \o <<e>>) \o b)
         /\ ((a \o <<e>>) \o b)[Len(a) + 1] = e
         /\ \A n \in 1..Len(a) : ((a \o <<>>) \o b)[n] = ((a \o <<e>>) \o b)[n]
         /\ \A n \in (Len(a) + 1)..Len((a \o <<>>) \o b) :
              ((a \o <<>>) \o b)[n] = ((a \o <<e>>) \o b)[n + 1]
OBVIOUS

(* The stream of a connection.                                             *)
LEMMA StreamType ==
  ASSUME TypeOK, NEW k \in Conns
  PROVE  /\ Stream(k) \in Seq(Events \union {Reply})
         /\ got[k] \in Seq(Events \union {Reply}) /\ send[k] \in Seq(Events \union {Reply})
         /\ frame[k] = <<>> \/ \E m \in Events \union {Reply} : frame[k] = <<m>>
         /\ Taken(k) \in Seq(Events \union {Reply})
         /\ Len(Stream(k)) \in Nat
         /\ \A n \in 1..Len(Stream(k)) : Stream(k)[n] \in Events \union {Reply}
<1> DEFINE T == Events \union {Reply}
<1>1. /\ got[k] \in Seq(Events) /\ send[k] \in Seq(T)
      /\ frame[k] = <<>> \/ \E m \in T : frame[k] = <<m>>
  BY DEF TypeOK
<1>2. got[k] \in Seq(T)
  BY <1>1
<1> HIDE DEF T
<1>3. frame[k] \in Seq(T)
  <2>1. <<>> \in Seq(T) /\ \A m \in T : <<m>> \in Seq(T)
    OBVIOUS
  <2> QED
    BY <1>1, <2>1, Zenon
<1>4. ASSUME NEW a \in Seq(T), NEW b \in Seq(T)
      PROVE  /\ a \o b \in Seq(T) /\ Len(a \o b) \in Nat
             /\ \A n \in 1..Len(a \o b) : (a \o b)[n] \in T
  BY <1>4
<1>5. Taken(k) \in Seq(T)
  BY <1>2, <1>3, <1>4 DEF Taken
<1> QED
  BY <1>1, <1>2, <1>4, <1>5 DEF Stream, T

-----------------------------------------------------------------------------
(***************************************************************************)
(* Steps that leave a part of the state alone keep what is said about it.  *)
(***************************************************************************)
LEMMA StreamUntouched ==
  ASSUME ConnInv, UNCHANGED <<streamVars, sender>>,
         \A k \in Conns : /\ conn'[k].pc = "new" => conn[k].pc = "new"
                          /\ conn[k].pc # "new" => conn'[k].user = conn[k].user
  PROVE  StreamInv'
<1>0. UNCHANGED <<send, frame, got, dropped, due, sender>>
  BY DEF streamVars
<1>1. StreamInv
  BY DEF ConnInv
<1>2. \A k \in Conns : Stream(k)' = Stream(k)
  BY <1>0 DEF Stream, Taken
<1>3. OnlyFullChannelsDrop'
  <2>1. ASSUME NEW k \in Conns PROVE Accounted(k)' /\ InOrder(k)'
    <3>1. Accounted(k) /\ InOrder(k) /\ Stream(k)' = Stream(k)
      BY <1>1, <1>2 DEF StreamInv, OnlyFullChannelsDrop
    <3> QED
      BY <1>0, <3>1 DEF Accounted, InOrder, Carries
  <2> QED
    BY <2>1 DEF OnlyFullChannelsDrop
<1>4. \A k \in Conns : conn'[k].pc = "new" => Stream(k)' = <<>>
  BY <1>1, <1>2 DEF StreamInv
<1>5. ASSUME NEW s \in Senders, NEW k \in Conns PROVE Ahead(s, k)'
  <2>1. Ahead(s, k)
    BY <1>1 DEF StreamInv
  <2>2. CASE conn[k].pc = "new"
    <3>1. Stream(k)' = <<>> /\ k \notin sender'[s].clients
      BY <1>0, <1>1, <1>2, <2>1, <2>2 DEF StreamInv, Ahead
    <3> QED
      BY <1>0, <2>1, <3>1 DEF Ahead
  <2>3. CASE conn[k].pc # "new"
    <3>1. conn'[k].pc # "new" /\ conn'[k].user = conn[k].user
      BY <2>3
    <3> QED
      BY <1>0, <1>2, <2>1, <3>1 DEF Ahead
  <2> QED
    BY <2>2, <2>3
<1> QED
  BY <1>3, <1>4, <1>5 DEF StreamInv

(* A step that leaves tickets, and users of connections, alone.            *)
LEMMA TicketsUntouched ==
  ASSUME ConnInv, UNCHANGED <<ticket, issued>>,
         \A k \in Conns : /\ conn'[k].pc = "new" <=> conn[k].pc = "new"
                          /\ conn'[k].user = conn[k].user /\ conn'[k].ticket = conn[k].ticket
  PROVE  TicketInv'
BY DEF ConnInv, TicketInv, TicketOpensOnce

(* A step that neither registers nor unregisters.                          *)
LEMMA HubUntouched ==
  ASSUME ConnInv, UNCHANGED hubVars,
         \A k \in Conns : conn'[k].pc \in {"open", "offline"} <=> conn[k].pc \in {"open", "offline"}
  PROVE  HubInv'
BY DEF ConnInv, HubInv, GaugeCountsClients, hubVars

(* A connection goes on as r, and nothing changes but where it stands.     *)
LEMMA ConnStep ==
  ASSUME ConnInv, NEW k \in Conns, NEW r \in ConnType, conn' = [conn EXCEPT ![k] = r],
         UNCHANGED <<redisVars, hubVars, streamVars, sender>>, toClose' \in SUBSET Conns,
         r.user = conn[k].user, r.ticket = conn[k].ticket,
         r.pc = "new" <=> conn[k].pc = "new",
         r.pc \in {"open", "offline"} <=> conn[k].pc \in {"open", "offline"},
         conn[k].pc \in {"connected", "open"} => r.pc \in {"connected", "open"}
  PROVE  ConnInv'
<1>0. TypeOK /\ OnlineIsConnected /\ UNCHANGED <<ticket, issued, online>>
  BY DEF ConnInv, redisVars
<1>1. /\ conn' \in [Conns -> ConnType] /\ conn'[k] = r
      /\ \A j \in Conns : j # k => conn'[j] = conn[j]
  BY <1>0, ConnMoves
<1>2. \A j \in Conns : /\ conn'[j].pc = "new" <=> conn[j].pc = "new"
                       /\ conn'[j].user = conn[j].user /\ conn'[j].ticket = conn[j].ticket
                       /\ conn'[j].pc \in {"open", "offline"} <=> conn[j].pc \in {"open", "offline"}
                       /\ conn[j].pc \in {"connected", "open"} => conn'[j].pc \in {"connected", "open"}
  BY <1>1
<1>3. StreamInv' /\ TicketInv' /\ HubInv'
  BY <1>0, <1>2, StreamUntouched, TicketsUntouched, HubUntouched
<1>4. TypeOK'
  BY <1>0, <1>1, <1>2 DEF TypeOK, hubVars, streamVars
<1>5. OnlineIsConnected'
  BY <1>0, <1>2 DEF OnlineIsConnected
<1> QED
  BY <1>3, <1>4, <1>5 DEF ConnInv

-----------------------------------------------------------------------------
(***************************************************************************)
(* Tickets, the handshake and the hub.                                     *)
(***************************************************************************)
LEMMA TicketStep ==
  ASSUME ConnInv, NEW t \in Tickets,
         ExpireTicket(t) \/ \E u \in Users : Issue(t, u)
  PROVE  ConnInv'
<1>0. /\ TypeOK /\ TicketInv /\ OnlineIsConnected
      /\ UNCHANGED <<online, conn, hubVars, streamVars, sender, toClose>>
  BY DEF ConnInv, ExpireTicket, Issue
<1>1. StreamInv' /\ HubInv'
  BY <1>0, StreamUntouched, HubUntouched
<1>2. OnlineIsConnected'
  BY <1>0 DEF OnlineIsConnected
<1>3. CASE ExpireTicket(t)
  <2>1. /\ ticket' \in [Tickets -> Users \union {None}] /\ issued' = issued /\ ticket'[t] = None
        /\ \A x \in Tickets : x # t => ticket'[x] = ticket[x]
    BY <1>0, <1>3 DEF ExpireTicket, TypeOK
  <2>2. TypeOK'
    BY <1>0, <2>1 DEF TypeOK, hubVars, streamVars
  <2>3. TicketInv'
    BY <1>0, <2>1 DEF TicketInv, TicketOpensOnce
  <2> QED
    BY <1>1, <1>2, <2>2, <2>3 DEF ConnInv
<1>4. ASSUME NEW u \in Users, Issue(t, u) PROVE ConnInv'
  <2>1. /\ ticket' \in [Tickets -> Users \union {None}] /\ issued' \in [Tickets -> Users \union {None}]
        /\ ticket'[t] = u /\ issued'[t] = u /\ issued[t] = None
        /\ \A x \in Tickets : x # t => ticket'[x] = ticket[x] /\ issued'[x] = issued[x]
    BY <1>0, <1>4 DEF Issue, TypeOK
  <2>2. TypeOK'
    BY <1>0, <2>1 DEF TypeOK, hubVars, streamVars
  <2>3. \A k \in Conns : conn[k].ticket # t
    <3>1. SUFFICES ASSUME NEW k \in Conns, conn[k].ticket = t PROVE FALSE
      OBVIOUS
    <3>2. t # None /\ None \notin Users
      BY ConnectionsAssumption
    <3>3. conn[k].user = None /\ conn[k].user \in Users
      BY <1>0, <2>1, <3>1, <3>2 DEF TicketInv, TicketOpensOnce
    <3> QED
      BY <3>2, <3>3
  <2>4. \A k \in Conns : conn[k].ticket # None => conn[k].ticket \in Tickets
    BY <1>0 DEF TypeOK, ConnType
  <2>5. TicketInv'
    BY <1>0, <2>1, <2>3, <2>4 DEF TicketInv, TicketOpensOnce
  <2> QED
    BY <1>1, <1>2, <2>2, <2>5 DEF ConnInv
<1> QED
  BY <1>3, <1>4

(* Consume: the ticket is gone, and this connection is the one it opens.   *)
LEMMA ConsumeStep ==
  ASSUME ConnInv, NEW k \in Conns, NEW t \in Tickets, Consume(k, t)
  PROVE  ConnInv'
<1>0. /\ TypeOK /\ TicketInv /\ OnlineIsConnected
      /\ UNCHANGED <<issued, online, hubVars, streamVars, sender, toClose>>
      /\ conn[k].pc = "new" /\ ticket[t] # None /\ conn[k] \in ConnType
  BY DEF ConnInv, Consume, TypeOK
<1> DEFINE r == [conn[k] EXCEPT !.pc = "upgrade", !.user = ticket[t], !.ticket = t]
<1>1. ticket[t] \in Users
  BY <1>0 DEF TypeOK
<1>2. r \in ConnType /\ r.pc = "upgrade" /\ r.user = ticket[t] /\ r.ticket = t
  BY <1>0, <1>1 DEF ConnType
<1>3. conn' = [conn EXCEPT ![k] = r]
  BY <1>0 DEF Consume, TypeOK
<1> HIDE DEF r
<1>4. /\ conn' \in [Conns -> ConnType] /\ conn'[k] = r
      /\ \A j \in Conns : j # k => conn'[j] = conn[j]
  BY <1>0, <1>2, <1>3, ConnMoves
<1>5. StreamInv' /\ HubInv'
  BY <1>0, <1>2, <1>4, StreamUntouched, HubUntouched
<1>6. OnlineIsConnected'
  BY <1>0, <1>4 DEF OnlineIsConnected
<1>7. /\ ticket' \in [Tickets -> Users \union {None}] /\ ticket'[t] = None
      /\ \A x \in Tickets : x # t => ticket'[x] = ticket[x]
  BY <1>0 DEF Consume, TypeOK
<1>8. TypeOK'
  BY <1>0, <1>4, <1>7 DEF TypeOK, hubVars, streamVars
<1>9. TicketInv'
  <2>1. ticket[t] = issued[t] /\ \A j \in Conns : conn[j].ticket # t
    BY <1>0 DEF TicketInv
  <2>2. \A x \in Tickets : ticket'[x] # None =>
          ticket'[x] = issued'[x] /\ \A j \in Conns : conn'[j].ticket # x
    BY <1>0, <1>2, <1>4, <1>7 DEF TicketInv
  <2>3. \A j \in Conns : IF conn'[j].pc = "new" THEN conn'[j].ticket = None
                                                ELSE conn'[j].user \in Users
    BY <1>0, <1>1, <1>2, <1>4 DEF TicketInv
  <2>4. TicketOpensOnce'
    BY <1>0, <1>2, <1>4, <2>1 DEF TicketInv, TicketOpensOnce
  <2> QED
    BY <2>2, <2>3, <2>4 DEF TicketInv
<1> QED
  BY <1>5, <1>6, <1>8, <1>9 DEF ConnInv

(* Upgrade, BadHandshake, PeerGone, WritePumpEnds and CloseForShutdown.    *)
LEMMA PlainConnStep ==
  ASSUME ConnInv, NEW k \in Conns,
         Upgrade(k) \/ BadHandshake(k) \/ PeerGone(k) \/ WritePumpEnds(k) \/ CloseForShutdown(k)
  PROVE  ConnInv'
<1>0. /\ UNCHANGED <<redisVars, hubVars, streamVars, sender>> /\ toClose' \in SUBSET Conns
      /\ TypeOK /\ conn[k] \in ConnType
  BY DEF ConnInv, TypeOK, Upgrade, BadHandshake, PeerGone, WritePumpEnds, CloseForShutdown
<1>1. ASSUME NEW p \in {"upgraded", "refused", "bad"}, conn[k].pc = "upgrade",
             conn' = [conn EXCEPT ![k].pc = p]
      PROVE  ConnInv'
  <2> DEFINE r == [conn[k] EXCEPT !.pc = p]
  <2>1. /\ r \in ConnType /\ r.pc = p /\ r.user = conn[k].user /\ r.ticket = conn[k].ticket
    BY <1>0 DEF ConnType
  <2>2. conn' = [conn EXCEPT ![k] = r]
    BY <1>1
  <2> HIDE DEF r
  <2> QED
    BY <1>0, <1>1, <2>1, <2>2, ConnStep
<1>2. ASSUME NEW w \in {"none", "running", "done"}, NEW x \in {"gone", "closed"},
             conn' = [conn EXCEPT ![k] = [conn[k] EXCEPT !.writer = w, !.socket = x]]
      PROVE  ConnInv'
  <2> DEFINE r == [conn[k] EXCEPT !.writer = w, !.socket = x]
  <2>1. /\ r \in ConnType /\ r.pc = conn[k].pc /\ r.user = conn[k].user
        /\ r.ticket = conn[k].ticket
    BY <1>0 DEF ConnType
  <2>2. conn' = [conn EXCEPT ![k] = r]
    BY <1>2
  <2> HIDE DEF r
  <2> QED
    BY <1>0, <2>1, <2>2, ConnStep
<1>3. CASE Upgrade(k)
  <2>1. conn[k].pc = "upgrade" /\ \/ conn' = [conn EXCEPT ![k].pc = "upgraded"]
                                  \/ conn' = [conn EXCEPT ![k].pc = "refused"]
    BY <1>3 DEF Upgrade
  <2> QED
    BY <1>1, <2>1
<1>4. CASE BadHandshake(k)
  BY <1>1, <1>4 DEF BadHandshake
<1>5. CASE PeerGone(k) \/ CloseForShutdown(k)
  <2>1. PICK x \in {"gone", "closed"} : conn' = [conn EXCEPT ![k] = [conn[k] EXCEPT !.socket = x]]
    BY <1>5 DEF PeerGone, CloseForShutdown
  <2>2. [conn[k] EXCEPT !.socket = x] = [conn[k] EXCEPT !.writer = conn[k].writer, !.socket = x]
    BY <1>0 DEF ConnType
  <2>3. conn[k].writer \in {"none", "running", "done"}
    BY <1>0 DEF ConnType
  <2> QED
    BY <1>2, <2>1, <2>2, <2>3
<1>6. CASE WritePumpEnds(k)
  <2>1. conn' = [conn EXCEPT ![k] = [conn[k] EXCEPT !.writer = "done", !.socket = "closed"]]
    BY <1>0, <1>6 DEF WritePumpEnds, TypeOK
  <2> QED
    BY <1>2, <2>1
<1> QED
  BY <1>3, <1>4, <1>5, <1>6

(* Connected, Register, Disconnected and Unregister: the presence and the  *)
(* hub follow the request.                                                 *)
LEMMA ServedStep ==
  ASSUME ConnInv, NEW k \in Conns,
         Connected(k) \/ Register(k) \/ Disconnected(k) \/ Unregister(k)
  PROVE  ConnInv'
<1>0. /\ UNCHANGED <<ticket, issued, streamVars, sender, toClose>>
      /\ TypeOK /\ conn[k] \in ConnType /\ TicketInv /\ HubInv /\ OnlineIsConnected
      /\ conn[k].pc \in {"upgraded", "connected", "open", "offline"}
  BY DEF ConnInv, TypeOK, Connected, Register, Disconnected, Unregister, redisVars
<1>1. PICK r \in ConnType :
        /\ conn' = [conn EXCEPT ![k] = r] /\ r.user = conn[k].user /\ r.ticket = conn[k].ticket
        /\ Connected(k) => r.pc = "connected"
        /\ Register(k) => r.pc = "open"
        /\ Disconnected(k) => r.pc = "offline"
        /\ Unregister(k) => r.pc = "done"
        /\ r.pc # "new"
  <2> DEFINE move(x) == [conn[k] EXCEPT !.pc = x]
             reg == [conn[k] EXCEPT !.pc = "open", !.writer = "running"]
             gone == [conn[k] EXCEPT !.pc = "done", !.socket = "closed"]
  <2>1. \A x \in {"connected", "offline"} :
          /\ move(x) \in ConnType /\ move(x).pc = x /\ move(x).user = conn[k].user
          /\ move(x).ticket = conn[k].ticket
    BY <1>0 DEF ConnType
  <2>2. /\ reg \in ConnType /\ reg.pc = "open" /\ reg.user = conn[k].user
        /\ reg.ticket = conn[k].ticket
        /\ gone \in ConnType /\ gone.pc = "done" /\ gone.user = conn[k].user
        /\ gone.ticket = conn[k].ticket
    BY <1>0 DEF ConnType
  <2>3. /\ Connected(k) => conn[k].pc = "upgraded" /\ conn' = [conn EXCEPT ![k] = move("connected")]
        /\ Register(k) => conn[k].pc = "connected" /\ conn' = [conn EXCEPT ![k] = reg]
        /\ Disconnected(k) => conn[k].pc = "open" /\ conn' = [conn EXCEPT ![k] = move("offline")]
        /\ Unregister(k) => conn[k].pc = "offline" /\ conn' = [conn EXCEPT ![k] = gone]
    BY <1>0 DEF Connected, Register, Disconnected, Unregister, TypeOK
  <2> HIDE DEF move, reg, gone
  <2> QED
    BY <2>1, <2>2, <2>3
<1>2. /\ conn' \in [Conns -> ConnType] /\ conn'[k] = r
      /\ \A j \in Conns : j # k => conn'[j] = conn[j]
  BY <1>0, <1>1, ConnMoves
<1>3. StreamInv' /\ TicketInv'
  BY <1>0, <1>1, <1>2, StreamUntouched, TicketsUntouched
<1>4. conn[k].user \in Users
  BY <1>0 DEF TicketInv
<1>5. CASE Connected(k)
  <2>1. /\ UNCHANGED hubVars /\ online' = online \union {conn[k].user} /\ conn[k].pc = "upgraded"
    BY <1>5 DEF Connected
  <2>2. HubInv'
    BY <1>1, <1>2, <1>5, <2>1, HubUntouched
  <2>3. TypeOK'
    BY <1>0, <1>2, <1>4, <2>1 DEF TypeOK, hubVars, streamVars
  <2>4. OnlineIsConnected'
    BY <1>0, <1>1, <1>2, <1>5, <2>1 DEF OnlineIsConnected
  <2> QED
    BY <1>3, <2>2, <2>3, <2>4 DEF ConnInv
<1>6. CASE Register(k)
  <2>1. /\ online' = online /\ conn[k].pc = "connected" /\ hub' = hub \union {k}
        /\ active' = active + 1
    BY <1>6 DEF Register, redisVars
  <2>2. k \notin hub
    BY <1>0, <2>1 DEF HubInv
  <2>3. IsFiniteSet(hub') /\ Cardinality(hub') = Cardinality(hub) + 1
    BY <1>0, <2>1, <2>2, FS_AddElement DEF HubInv
  <2>4. HubInv'
    BY <1>0, <1>1, <1>2, <1>6, <2>1, <2>3 DEF HubInv, GaugeCountsClients
  <2>5. TypeOK'
    BY <1>0, <1>1, <1>2, <1>6, <2>1 DEF TypeOK, streamVars
  <2>6. OnlineIsConnected'
    BY <1>0, <1>1, <1>2, <1>6, <2>1 DEF OnlineIsConnected
  <2> QED
    BY <1>3, <2>4, <2>5, <2>6 DEF ConnInv
<1>7. CASE Disconnected(k)
  <2>1. UNCHANGED hubVars /\ online' = online \ {conn[k].user} /\ conn[k].pc = "open"
    BY <1>7 DEF Disconnected
  <2>2. HubInv'
    BY <1>1, <1>2, <1>7, <2>1, HubUntouched
  <2>3. TypeOK'
    BY <1>0, <1>1, <1>2, <1>7, <2>1 DEF TypeOK, hubVars, streamVars
  <2>4. OnlineIsConnected'
    BY <1>0, <1>1, <1>2, <2>1 DEF OnlineIsConnected
  <2> QED
    BY <1>3, <2>2, <2>3, <2>4 DEF ConnInv
<1>8. CASE Unregister(k)
  <2>1. /\ online' = online /\ conn[k].pc = "offline" /\ hub' = hub \ {k} /\ k \in hub
        /\ active' = IF ClientsOf(conn[k].user) # {} THEN active - 1 ELSE active
    BY <1>0, <1>8 DEF Unregister, redisVars, HubInv
  <2>2. active' = active - 1
    BY <2>1 DEF ClientsOf
  <2>3. IsFiniteSet(hub') /\ Cardinality(hub') = Cardinality(hub) - 1
    BY <1>0, <2>1, FS_RemoveElement DEF HubInv
  <2>4. HubInv'
    BY <1>0, <1>1, <1>2, <1>8, <2>1, <2>2, <2>3 DEF HubInv, GaugeCountsClients
  <2>5. TypeOK'
    BY <1>0, <1>2, <2>1 DEF TypeOK, streamVars
  <2>6. OnlineIsConnected'
    BY <1>0, <1>1, <1>2, <2>1 DEF OnlineIsConnected
  <2> QED
    BY <1>3, <2>4, <2>5, <2>6 DEF ConnInv
<1> QED
  BY <1>5, <1>6, <1>7, <1>8

(* PresenceExpires and CloseAll.                                           *)
LEMMA QuietStep ==
  ASSUME ConnInv, CloseAll \/ \E u \in Users : PresenceExpires(u)
  PROVE  ConnInv'
<1>0. /\ TypeOK /\ OnlineIsConnected /\ online' \subseteq online /\ toClose' \in SUBSET Conns
      /\ UNCHANGED <<ticket, issued, conn, hubVars, streamVars, sender>>
  BY DEF ConnInv, TypeOK, CloseAll, PresenceExpires, redisVars
<1>1. StreamInv' /\ TicketInv' /\ HubInv'
  BY <1>0, StreamUntouched, TicketsUntouched, HubUntouched
<1>2. TypeOK' /\ OnlineIsConnected'
  BY <1>0 DEF TypeOK, OnlineIsConnected, hubVars, streamVars
<1> QED
  BY <1>1, <1>2 DEF ConnInv

-----------------------------------------------------------------------------
(***************************************************************************)
(* Steps that change the streams.                                          *)
(***************************************************************************)

(* select { case c.send <- b: default: } puts e last in the stream of k,   *)
(* or changes nothing.                                                     *)
LEMMA OfferStream ==
  ASSUME TypeOK, NEW k \in Conns, NEW e \in Events \union {Reply},
         send' = [send EXCEPT ![k] = Offer(k, e)], UNCHANGED <<frame, got>>
  PROVE  /\ send' \in [Conns -> Seq(Events \union {Reply})]
         /\ \A j \in Conns : Len(send'[j]) <= Buffer
         /\ \A j \in Conns : j # k => Stream(j)' = Stream(j)
         /\ Len(send[k]) < Buffer =>
              /\ Len(Stream(k)') = Len(Stream(k)) + 1
              /\ \A n \in 1..Len(Stream(k)) : Stream(k)'[n] = Stream(k)[n]
              /\ Stream(k)'[Len(Stream(k)) + 1] = e
         /\ ~(Len(send[k]) < Buffer) => Stream(k)' = Stream(k)
<1> DEFINE T == Events \union {Reply}
<1>1. /\ send \in [Conns -> Seq(T)] /\ Taken(k) \in Seq(T) /\ send[k] \in Seq(T)
      /\ \A j \in Conns : Len(send[j]) <= Buffer
  BY StreamType DEF TypeOK
<1>2. send'[k] = Offer(k, e) /\ \A j \in Conns : j # k => send'[j] = send[j]
  BY <1>1
<1> HIDE DEF T
<1>3. e \in T
  BY DEF T
<1>4. Buffer \in Nat
  BY ConnectionsAssumption
<1>5. Offer(k, e) \in Seq(T) /\ Len(Offer(k, e)) <= Buffer
  BY <1>1, <1>3, <1>4 DEF Offer
<1>6. send' \in [Conns -> Seq(T)] /\ \A j \in Conns : Len(send'[j]) <= Buffer
  BY <1>1, <1>2, <1>5
<1>7. CASE Len(send[k]) < Buffer
  <2>1. send'[k] = Append(send[k], e)
    BY <1>2, <1>7 DEF Offer
  <2>2. Stream(k)' = Append(Stream(k), e)
    <3>1. Taken(k) \o Append(send[k], e) = Append(Taken(k) \o send[k], e)
      <4>1. Taken(k) \in Seq(T) /\ send[k] \in Seq(T) /\ e \in T
        BY <1>1, <1>3
      <4>2. \A a, b \in Seq(T) : a \o Append(b, e) = Append(a \o b, e)
        BY <4>1, ConcatAppend
      <4> QED
        BY <4>1, <4>2
    <3> QED
      BY <2>1, <3>1 DEF Stream, Taken
  <2>3. Stream(k) \in Seq(T)
    BY <1>1 DEF Stream
  <2>4. ASSUME NEW f \in Seq(T)
        PROVE  /\ Len(Append(f, e)) = Len(f) + 1 /\ Append(f, e)[Len(f) + 1] = e
               /\ \A n \in 1..Len(f) : Append(f, e)[n] = f[n]
    BY <1>3
  <2>5. /\ Len(Append(Stream(k), e)) = Len(Stream(k)) + 1
        /\ Append(Stream(k), e)[Len(Stream(k)) + 1] = e
        /\ \A n \in 1..Len(Stream(k)) : Append(Stream(k), e)[n] = Stream(k)[n]
    BY <2>3, <2>4, Zenon
  <2>6. \A j \in Conns : j # k => Stream(j)' = Stream(j)
    BY <1>2 DEF Stream, Taken
  <2> QED
    BY <1>6, <1>7, <2>2, <2>5, <2>6 DEF T
<1>8. CASE ~(Len(send[k]) < Buffer)
  <2>1. send'[k] = send[k]
    BY <1>2, <1>8 DEF Offer
  <2> QED
    BY <1>2, <1>6, <1>8, <2>1 DEF Stream, Taken, T
<1> QED
  BY <1>7, <1>8

(* What is carried stays carried when the stream grows.                    *)
LEMMA StillCarried ==
  ASSUME NEW k \in Conns, Len(Stream(k)) \in Nat, Len(Stream(k)') \in Nat,
         Len(Stream(k)) <= Len(Stream(k)'),
         \A n \in 1..Len(Stream(k)) : Stream(k)'[n] = Stream(k)[n]
  PROVE  \A e : Carries(k, e) => Carries(k, e)'
<1>1. \A n \in 1..Len(Stream(k)) : n \in 1..Len(Stream(k)')
  OBVIOUS
<1> QED
  BY <1>1 DEF Carries

(* HandleEvent: an answer is put in, among the events it changes nothing.  *)
LEMMA HandleEventStep ==
  ASSUME ConnInv, NEW k \in Conns, NEW valid \in BOOLEAN, NEW answers \in BOOLEAN,
         HandleEvent(k, valid, answers)
  PROVE  ConnInv'
<1>0. /\ TypeOK /\ TicketInv /\ StreamInv /\ OnlineIsConnected /\ conn[k].pc = "open"
      /\ online' = online \/ online' = online \union {conn[k].user}
      /\ UNCHANGED <<ticket, issued, conn, hubVars, frame, got, dropped, due, sender, toClose>>
  BY DEF ConnInv, HandleEvent
<1>1. TicketInv' /\ HubInv'
  BY <1>0, TicketsUntouched, HubUntouched
<1>2. conn[k].user \in Users
  BY <1>0 DEF TicketInv
<1>3. OnlineIsConnected' /\ online' \in SUBSET Users
  BY <1>0, <1>2 DEF OnlineIsConnected, TypeOK
<1>4. CASE send' = send
  <2>1. StreamInv'
    BY <1>0, <1>4, StreamUntouched DEF streamVars
  <2>2. TypeOK'
    BY <1>0, <1>3, <1>4 DEF TypeOK, hubVars
  <2> QED
    BY <1>1, <1>3, <2>1, <2>2 DEF ConnInv
<1>5. CASE send' # send
  <2>0. send' = [send EXCEPT ![k] = Offer(k, Reply)]
    BY <1>5 DEF HandleEvent
  <2>1. /\ send' \in [Conns -> Seq(Events \union {Reply})]
        /\ \A j \in Conns : Len(send'[j]) <= Buffer
        /\ \A j \in Conns : j # k => Stream(j)' = Stream(j)
        /\ Len(send[k]) < Buffer =>
             /\ Len(Stream(k)') = Len(Stream(k)) + 1
             /\ \A n \in 1..Len(Stream(k)) : Stream(k)'[n] = Stream(k)[n]
             /\ Stream(k)'[Len(Stream(k)) + 1] = Reply
        /\ ~(Len(send[k]) < Buffer) => Stream(k)' = Stream(k)
    BY <1>0, <2>0, OfferStream
  <2>2. TypeOK'
    BY <1>0, <1>3, <2>1 DEF TypeOK, hubVars
  <2>3. /\ Len(Stream(k)) \in Nat
        /\ \A n \in 1..Len(Stream(k)) : Stream(k)[n] \in Events \union {Reply}
    BY <1>0, StreamType
  <2>4. ASSUME NEW j \in Conns, Stream(j)' = Stream(j)
        PROVE  /\ Accounted(j)' /\ InOrder(j)' /\ \A s \in Senders : Ahead(s, j)'
               /\ conn'[j].pc = "new" => Stream(j)' = <<>>
    <3>1. /\ Accounted(j) /\ InOrder(j) /\ \A s \in Senders : Ahead(s, j)
          /\ conn[j].pc = "new" => Stream(j) = <<>>
      BY <1>0 DEF StreamInv, OnlyFullChannelsDrop
    <3> QED
      BY <1>0, <2>4, <3>1 DEF Accounted, InOrder, Ahead, Carries
  <2>5. ASSUME Len(send[k]) < Buffer
        PROVE  Accounted(k)' /\ InOrder(k)' /\ \A s \in Senders : Ahead(s, k)'
    <3>0. Accounted(k) /\ InOrder(k) /\ \A s \in Senders : Ahead(s, k)
      BY <1>0 DEF StreamInv, OnlyFullChannelsDrop
    <3> DEFINE L == Len(Stream(k))
    <3>1. /\ L \in Nat /\ Len(Stream(k)') = L + 1 /\ Stream(k)'[L + 1] = Reply
          /\ \A n \in 1..L : Stream(k)'[n] = Stream(k)[n] /\ Stream(k)[n] \in Events \union {Reply}
      BY <2>1, <2>3, <2>5
    <3>2. Reply[1] = None /\ None \notin Senders
      BY ConnectionsAssumption DEF Reply
    <3>3. \A e : Carries(k, e) => Carries(k, e)'
      BY <3>1, StillCarried
    <3>4. Accounted(k)'
      BY <1>0, <3>0, <3>3 DEF Accounted
    <3> HIDE DEF L
    <3>5. InOrder(k)'
      <4>1. SUFFICES ASSUME NEW m \in 1..(L + 1), NEW n \in 1..(L + 1), m < n,
                            Stream(k)'[m] # Reply, Stream(k)'[m][1] = Stream(k)'[n][1]
                     PROVE  Stream(k)'[m][2] < Stream(k)'[n][2]
        BY <3>1 DEF InOrder
      <4>2. m \in 1..L
        BY <3>1, <4>1
      <4>3. Stream(k)'[m] = Stream(k)[m] /\ Stream(k)[m] \in Events
        BY <3>1, <4>1, <4>2
      <4>4. Stream(k)'[n][1] # None
        BY <4>1, <4>3, EventIsNoReply
      <4>5. n \in 1..L
        BY <3>1, <3>2, <4>4
      <4> QED
        BY <3>0, <3>1, <4>1, <4>3, <4>5 DEF InOrder, L
    <3>6. ASSUME NEW s \in Senders PROVE Ahead(s, k)'
      <4>1. \A n \in 1..(L + 1) : Stream(k)'[n][1] = s => n \in 1..L
        BY <3>1, <3>2
      <4> QED
        BY <1>0, <3>0, <3>1, <4>1 DEF Ahead, L
    <3> QED
      BY <3>4, <3>5, <3>6
  <2>6. \A j \in Conns : /\ Accounted(j)' /\ InOrder(j)' /\ \A s \in Senders : Ahead(s, j)'
                         /\ conn'[j].pc = "new" => Stream(j)' = <<>>
    BY <1>0, <2>1, <2>4, <2>5
  <2>7. StreamInv'
    BY <2>6 DEF StreamInv, OnlyFullChannelsDrop
  <2> QED
    BY <1>1, <1>3, <2>2, <2>7 DEF ConnInv
<1> QED
  BY <1>4, <1>5

(* What a step of the write pump needs not say: everything but the stream. *)
LEMMA PumpStep ==
  ASSUME ConnInv, NEW k \in Conns,
         UNCHANGED <<redisVars, conn, hubVars, dropped, due, sender, toClose>>,
         send' \in [Conns -> Seq(Events \union {Reply})],
         \A j \in Conns : Len(send'[j]) <= Buffer,
         frame' \in [Conns -> {<<>>} \union {<<m>> : m \in Events \union {Reply}}],
         got' \in [Conns -> Seq(Events)],
         \A j \in Conns : j # k => UNCHANGED <<send[j], frame[j], got[j]>>,
         \/ Stream(k)' = Stream(k)
         \/ /\ Accounted(k)' /\ InOrder(k)' /\ \A s \in Senders : Ahead(s, k)'
            /\ conn'[k].pc = "new" => Stream(k)' = <<>>
  PROVE  ConnInv'
<1>0. /\ TypeOK /\ StreamInv /\ OnlineIsConnected
      /\ UNCHANGED <<ticket, issued, online, conn, hubVars, dropped, due, sender, toClose>>
  BY DEF ConnInv, redisVars
<1>1. TicketInv' /\ HubInv' /\ OnlineIsConnected'
  BY <1>0, TicketsUntouched, HubUntouched DEF OnlineIsConnected
<1>2. TypeOK'
  BY <1>0 DEF TypeOK, hubVars
<1>3. ASSUME NEW j \in Conns, Stream(j)' = Stream(j)
      PROVE  /\ Accounted(j)' /\ InOrder(j)' /\ \A s \in Senders : Ahead(s, j)'
             /\ conn'[j].pc = "new" => Stream(j)' = <<>>
  <2>1. /\ Accounted(j) /\ InOrder(j) /\ \A s \in Senders : Ahead(s, j)
        /\ conn[j].pc = "new" => Stream(j) = <<>>
    BY <1>0 DEF StreamInv, OnlyFullChannelsDrop
  <2> QED
    BY <1>0, <1>3, <2>1 DEF Accounted, InOrder, Ahead, Carries
<1>4. \A j \in Conns : j # k => Stream(j)' = Stream(j)
  BY DEF Stream, Taken
<1>5. \A j \in Conns : /\ Accounted(j)' /\ InOrder(j)' /\ \A s \in Senders : Ahead(s, j)'
                       /\ conn'[j].pc = "new" => Stream(j)' = <<>>
  BY <1>3, <1>4
<1> QED
  BY <1>1, <1>2, <1>5 DEF ConnInv, StreamInv, OnlyFullChannelsDrop

(* TakeFrame: the frame stays where it is in the stream.                   *)
LEMMA TakeFrameStep ==
  ASSUME ConnInv, NEW k \in Conns, TakeFrame(k)
  PROVE  ConnInv'
<1> DEFINE h == Head(send[k])
           T == Events \union {Reply}
<1>0. /\ TypeOK /\ send[k] # <<>> /\ frame[k] = <<>>
      /\ send' = [send EXCEPT ![k] = Tail(@)] /\ frame' = [frame EXCEPT ![k] = <<h>>]
      /\ UNCHANGED <<redisVars, conn, hubVars, got, dropped, due, sender, toClose>>
  BY DEF ConnInv, TakeFrame
<1>1. /\ send \in [Conns -> Seq(T)] /\ got[k] \in Seq(T) /\ send[k] \in Seq(T)
      /\ frame \in [Conns -> {<<>>} \union {<<m>> : m \in T}] /\ got \in [Conns -> Seq(Events)]
      /\ Len(send[k]) <= Buffer /\ Buffer \in Nat /\ \A j \in Conns : Len(send[j]) <= Buffer
  BY <1>0, StreamType, ConnectionsAssumption DEF TypeOK
<1>2. h \in T /\ Tail(send[k]) \in Seq(T) /\ Len(Tail(send[k])) <= Buffer
  <2> HIDE DEF T
  <2> QED
    BY <1>0, <1>1
<1> HIDE DEF h
<1>3. /\ send'[k] = Tail(send[k]) /\ \A j \in Conns : j # k => send'[j] = send[j]
      /\ frame'[k] = <<h>> /\ \A j \in Conns : j # k => frame'[j] = frame[j]
  BY <1>0, <1>1
<1>4. send' \in [Conns -> Seq(T)] /\ \A j \in Conns : Len(send'[j]) <= Buffer
  <2> HIDE DEF T
  <2> QED
    BY <1>0, <1>1, <1>2, <1>3
<1>5. frame' \in [Conns -> {<<>>} \union {<<m>> : m \in T}]
  <2> HIDE DEF T
  <2> QED
    BY <1>0, <1>1, <1>2
<1>6. Stream(k)' = Stream(k)
  <2>1. (got[k] \o <<h>>) \o Tail(send[k]) = (got[k] \o <<>>) \o send[k]
    BY <1>0, <1>1, ConcatShift, Zenon DEF h
  <2> QED
    BY <1>0, <1>3, <2>1 DEF Stream, Taken
<1> QED
  BY <1>0, <1>1, <1>3, <1>4, <1>5, <1>6, PumpStep

(* WriteMessage: an event stays where it is in the stream, an answer       *)
(* leaves it.                                                              *)
LEMMA WriteMessageStep ==
  ASSUME ConnInv, NEW k \in Conns, WriteMessage(k)
  PROVE  ConnInv'
<1> DEFINE h == Head(frame[k])
           T == Events \union {Reply}
<1>0. /\ TypeOK /\ StreamInv /\ frame[k] # <<>>
      /\ frame' = [frame EXCEPT ![k] = <<>>]
      /\ got' = IF h = Reply THEN got ELSE [got EXCEPT ![k] = Append(@, h)]
      /\ UNCHANGED <<redisVars, conn, hubVars, send, dropped, due, sender, toClose>>
  BY DEF ConnInv, WriteMessage
<1>1. /\ send \in [Conns -> Seq(T)] /\ got \in [Conns -> Seq(Events)]
      /\ got[k] \in Seq(T) /\ send[k] \in Seq(T) /\ \A j \in Conns : Len(send[j]) <= Buffer
      /\ frame \in [Conns -> {<<>>} \union {<<m>> : m \in T}]
  BY <1>0, StreamType DEF TypeOK
<1>2. h \in T /\ frame[k] = <<h>>
  <2>1. PICK m \in T : frame[k] = <<m>>
    BY <1>0, StreamType
  <2> QED
    BY <2>1
<1> HIDE DEF h
<1>3. /\ frame' \in [Conns -> {<<>>} \union {<<m>> : m \in T}] /\ frame'[k] = <<>>
      /\ \A j \in Conns : j # k => frame'[j] = frame[j]
  <2> HIDE DEF T
  <2> QED
    BY <1>0, <1>1
<1>4. got' \in [Conns -> Seq(Events)] /\ \A j \in Conns : j # k => got'[j] = got[j]
  <2>1. CASE h = Reply
    BY <1>0, <1>1, <2>1
  <2>2. CASE h # Reply
    <3>1. h \in Events
      BY <1>2, <2>2
    <3>2. Append(got[k], h) \in Seq(Events)
      BY <1>1, <3>1
    <3>3. got' = [got EXCEPT ![k] = Append(got[k], h)]
      BY <1>0, <2>2
    <3> QED
      BY <1>1, <3>2, <3>3
  <2> QED
    BY <2>1, <2>2
<1>5. CASE h # Reply
  <2>1. got'[k] = Append(got[k], h)
    BY <1>0, <1>1, <1>5
  <2>2. Stream(k)' = Stream(k)
    <3>1. Append(got[k], h) \o <<>> = got[k] \o <<h>>
      BY <1>1, <1>2, ConcatWrite, Zenon
    <3> QED
      BY <1>0, <1>2, <1>3, <2>1, <3>1 DEF Stream, Taken
  <2> QED
    BY <1>0, <1>1, <1>3, <1>4, <2>2, PumpStep
<1>6. CASE h = Reply
  <2> DEFINE L == Len(Stream(k))
             G == Len(got[k])
             back(n) == IF n <= G THEN n ELSE n + 1
  <2>1. /\ Len(Stream(k)') = L - 1 /\ L \in Nat /\ G \in Nat /\ G < L
        /\ Stream(k)[G + 1] = Reply
        /\ \A n \in 1..G : Stream(k)'[n] = Stream(k)[n]
        /\ \A n \in (G + 1)..(L - 1) : Stream(k)'[n] = Stream(k)[n + 1]
    <3>1. Stream(k)' = (got[k] \o <<>>) \o send[k] /\ Stream(k) = (got[k] \o <<h>>) \o send[k]
      BY <1>0, <1>2, <1>3, <1>6 DEF Stream, Taken
    <3> QED
      BY <1>1, <1>2, <1>6, <3>1, ConcatDrop
  <2> HIDE DEF L, G
  <2>2. /\ \A n \in 1..(L - 1) : back(n) \in 1..L /\ Stream(k)'[n] = Stream(k)[back(n)]
        /\ \A m, n \in 1..(L - 1) : m < n => back(m) < back(n)
        /\ \A n \in 1..L : n # G + 1 => \E m \in 1..(L - 1) : back(m) = n
    <3>1. \A n \in 1..(L - 1) : back(n) \in 1..L /\ Stream(k)'[n] = Stream(k)[back(n)]
      BY <2>1
    <3>2. \A m, n \in 1..(L - 1) : m < n => back(m) < back(n)
      BY <2>1
    <3>3. ASSUME NEW n \in 1..L, n # G + 1 PROVE \E m \in 1..(L - 1) : back(m) = n
      <4>1. CASE n <= G
        BY <2>1, <4>1
      <4>2. CASE n > G
        <5>1. n - 1 \in 1..(L - 1) /\ back(n - 1) = n
          BY <2>1, <3>3, <4>2
        <5> QED
          BY <5>1
      <4> QED
        BY <2>1, <4>1, <4>2
    <3> QED
      BY <3>1, <3>2, <3>3
  <2> HIDE DEF back
  <2>3. /\ Accounted(k) /\ InOrder(k) /\ \A s \in Senders : Ahead(s, k)
        /\ conn[k].pc = "new" => Stream(k) = <<>>
    BY <1>0 DEF StreamInv, OnlyFullChannelsDrop
  <2>4. ASSUME NEW e \in Events, Carries(k, e) PROVE Carries(k, e)'
    <3>1. PICK n \in 1..L : Stream(k)[n] = e
      BY <2>4 DEF Carries, L
    <3>2. n # G + 1
      BY <2>1, <3>1, EventIsNoReply
    <3>3. PICK m \in 1..(L - 1) : back(m) = n
      BY <2>2, <3>2
    <3> QED
      BY <2>1, <2>2, <3>1, <3>3 DEF Carries
  <2>5. due[k] \subseteq Events
    BY <1>0 DEF TypeOK
  <2>6. Accounted(k)'
    BY <1>0, <2>3, <2>4, <2>5 DEF Accounted
  <2>7. InOrder(k)'
    <3>1. SUFFICES ASSUME NEW m \in 1..(L - 1), NEW n \in 1..(L - 1), m < n,
                          Stream(k)'[m] # Reply, Stream(k)'[m][1] = Stream(k)'[n][1]
                   PROVE  Stream(k)'[m][2] < Stream(k)'[n][2]
      BY <2>1 DEF InOrder
    <3> QED
      BY <2>2, <2>3, <3>1 DEF InOrder, L
  <2>8. ASSUME NEW s \in Senders PROVE Ahead(s, k)'
    <3>1. Ahead(s, k)
      BY <2>3
    <3>2. ASSUME NEW n \in 1..(L - 1), Stream(k)'[n][1] = s
          PROVE  \/ Stream(k)'[n][2] < sender[s].event
                 \/ /\ Stream(k)'[n][2] = sender[s].event /\ conn[k].pc # "new"
                    /\ k \notin sender[s].clients /\ conn[k].user \notin sender[s].users
      <4>1. back(n) \in 1..L /\ Stream(k)'[n] = Stream(k)[back(n)]
        BY <2>2
      <4> QED
        BY <3>1, <3>2, <4>1 DEF Ahead, L
    <3> QED
      BY <1>0, <2>1, <3>1, <3>2 DEF Ahead
  <2>9. conn[k].pc # "new"
    <3>1. Stream(k) # <<>>
      BY <2>1 DEF L
    <3> QED
      BY <2>3, <3>1
  <2> QED
    BY <1>0, <1>1, <1>3, <1>4, <2>6, <2>7, <2>8, <2>9, PumpStep
<1> QED
  BY <1>5, <1>6

-----------------------------------------------------------------------------
(***************************************************************************)
(* The senders.                                                            *)
(***************************************************************************)

(* What a step of sender s needs not say: everything but the streams.      *)
LEMMA OnlyStreams ==
  ASSUME ConnInv, UNCHANGED <<redisVars, conn, hubVars, frame, got, toClose>>,
         send' \in [Conns -> Seq(Events \union {Reply})],
         \A k \in Conns : Len(send'[k]) <= Buffer /\ dropped'[k] \subseteq due'[k],
         dropped' \in [Conns -> SUBSET Events], due' \in [Conns -> SUBSET Events],
         sender' \in [Senders -> SenderType],
         \A k \in Conns : /\ Accounted(k)' /\ InOrder(k)' /\ \A s \in Senders : Ahead(s, k)'
                          /\ conn[k].pc = "new" => Stream(k)' = <<>>
  PROVE  ConnInv'
<1>1. TicketInv' /\ HubInv' /\ OnlineIsConnected'
  BY TicketsUntouched, HubUntouched DEF OnlineIsConnected, redisVars, ConnInv
<1>2. TypeOK'
  BY DEF ConnInv, TypeOK, redisVars, hubVars
<1>3. StreamInv'
  BY DEF StreamInv, OnlyFullChannelsDrop
<1> QED
  BY <1>1, <1>2, <1>3 DEF ConnInv

(* A sender takes up its next event, for the members of a chat.            *)
LEMMA DeliverStep ==
  ASSUME ConnInv, NEW s \in Senders, NEW M \in SUBSET Users, DeliverPayload(s, M)
  PROVE  ConnInv'
<1> DEFINE r == [event |-> sender[s].event + 1, users |-> M, clients |-> {}]
<1>0. /\ TypeOK /\ StreamInv /\ sender[s] \in SenderType
      /\ sender[s].clients = {} /\ sender[s].event < MaxEvents
      /\ sender' = [sender EXCEPT ![s] = r]
      /\ UNCHANGED <<redisVars, conn, hubVars, send, frame, got, dropped, due, toClose>>
  BY DEF ConnInv, TypeOK, DeliverPayload, streamVars
<1>1. sender[s].event \in Nat /\ sender[s].event + 1 \in 0..MaxEvents
  BY <1>0, ConnectionsAssumption DEF SenderType
<1>2. /\ r \in SenderType /\ r.event = sender[s].event + 1 /\ r.users = M /\ r.clients = {}
  BY <1>1 DEF SenderType
<1> HIDE DEF r
<1>3. /\ sender' \in [Senders -> SenderType] /\ sender'[s] = r
      /\ \A q \in Senders : q # s => sender'[q] = sender[q]
  BY <1>0, <1>2, SenderMoves
<1>4. ASSUME NEW k \in Conns
      PROVE  /\ Accounted(k)' /\ InOrder(k)' /\ \A q \in Senders : Ahead(q, k)'
             /\ conn[k].pc = "new" => Stream(k)' = <<>>
  <2>1. /\ Accounted(k) /\ InOrder(k) /\ \A q \in Senders : Ahead(q, k)
        /\ conn[k].pc = "new" => Stream(k) = <<>>
    BY <1>0 DEF StreamInv, OnlyFullChannelsDrop
  <2>2. Stream(k)' = Stream(k)
    BY <1>0 DEF Stream, Taken
  <2>3. Accounted(k)'
    <3>1. SUFFICES ASSUME NEW e \in due[k]
                   PROVE  \/ Carries(k, e)' \/ e \in dropped[k]
                          \/ \E q \in Senders : k \in sender'[q].clients /\ e = <<q, sender'[q].event>>
      BY <1>0 DEF Accounted
    <3>2. Carries(k, e) => Carries(k, e)'
      BY <2>2 DEF Carries
    <3>3. ASSUME NEW q \in Senders, k \in sender[q].clients PROVE sender'[q] = sender[q]
      BY <1>0, <1>3, <3>3
    <3> QED
      BY <2>1, <3>2, <3>3 DEF Accounted
  <2>4. InOrder(k)'
    BY <2>1, <2>2 DEF InOrder
  <2>5. ASSUME NEW q \in Senders, q # s PROVE Ahead(q, k)'
    <3>1. Ahead(q, k) /\ sender'[q] = sender[q]
      BY <1>3, <2>1, <2>5
    <3> QED
      BY <1>0, <2>2, <3>1 DEF Ahead
  <2>6. Ahead(s, k)'
    <3>1. Ahead(s, k) /\ Len(Stream(k)) \in Nat
          /\ \A n \in 1..Len(Stream(k)) : Stream(k)[n] \in Events \union {Reply}
      BY <1>0, <2>1, StreamType
    <3>2. \A n \in 1..Len(Stream(k)) : Stream(k)[n][1] = s => Stream(k)[n][2] \in Nat
      BY <3>1, EventIsNoReply DEF Reply
    <3>3. \A n \in 1..Len(Stream(k)) :
            Stream(k)[n][1] = s => Stream(k)[n][2] < sender[s].event + 1
      BY <1>1, <3>1, <3>2 DEF Ahead
    <3>4. sender'[s].event # 0
      BY <1>1, <1>2, <1>3
    <3> QED
      BY <1>2, <1>3, <2>2, <3>3, <3>4 DEF Ahead
  <2> QED
    BY <2>1, <2>2, <2>3, <2>4, <2>5, <2>6
<1> QED
  BY <1>0, <1>3, <1>4, OnlyStreams DEF TypeOK

(* A sender copies the connections of a user under the lock.               *)
LEMMA SendToUserStep ==
  ASSUME ConnInv, NEW s \in Senders, NEW u \in Users, SendToUser(s, u)
  PROVE  ConnInv'
<1> DEFINE r == [sender[s] EXCEPT !.users = @ \ {u}, !.clients = ClientsOf(u)]
           e0 == <<s, sender[s].event>>
<1>0. /\ TypeOK /\ StreamInv /\ HubInv /\ sender[s] \in SenderType
      /\ u \in sender[s].users /\ sender[s].clients = {}
      /\ due' = [k \in Conns |-> IF k \in ClientsOf(u) THEN due[k] \union {e0} ELSE due[k]]
      /\ UNCHANGED <<redisVars, conn, hubVars, send, frame, got, dropped, toClose>>
  BY DEF ConnInv, TypeOK, SendToUser
<1>1. ClientsOf(u) \in SUBSET Conns /\ \A k \in ClientsOf(u) : conn[k].user = u /\ conn[k].pc # "new"
  BY <1>0 DEF ClientsOf, HubInv
<1>2. /\ r \in SenderType /\ r.event = sender[s].event /\ r.users = sender[s].users \ {u}
      /\ r.clients = ClientsOf(u)
  BY <1>0, <1>1 DEF SenderType
<1>3. sender' = [sender EXCEPT ![s] = r]
  BY <1>0 DEF SendToUser, TypeOK
<1> HIDE DEF r
<1>4. /\ sender' \in [Senders -> SenderType] /\ sender'[s] = r
      /\ \A q \in Senders : q # s => sender'[q] = sender[q]
  BY <1>0, <1>2, <1>3, SenderMoves
<1>5. ASSUME NEW k \in Conns
      PROVE  /\ Accounted(k) /\ InOrder(k) /\ \A q \in Senders : Ahead(q, k)
             /\ conn[k].pc = "new" => Stream(k) = <<>>
             /\ Stream(k)' = Stream(k)
  BY <1>0 DEF StreamInv, OnlyFullChannelsDrop, Stream, Taken
<1>6. ASSUME NEW k \in ClientsOf(u) PROVE e0 \in Events
  <2>1. sender[s].event # 0
    BY <1>0, <1>1, <1>5 DEF Ahead
  <2>2. sender[s].event \in 0..MaxEvents
    BY <1>0 DEF SenderType
  <2> QED
    BY <2>1, <2>2, ConnectionsAssumption DEF Events
<1>7. /\ due' \in [Conns -> SUBSET Events]
      /\ \A k \in Conns : due[k] \subseteq due'[k] /\ (k \in ClientsOf(u) => e0 \in due'[k])
      /\ \A k \in Conns : due'[k] \subseteq due[k] \union {e0}
      /\ \A k \in Conns : k \notin ClientsOf(u) => due'[k] = due[k]
  <2> HIDE DEF e0
  <2> QED
    BY <1>0, <1>6 DEF TypeOK
<1>8. ASSUME NEW k \in Conns
      PROVE  /\ Accounted(k)' /\ InOrder(k)' /\ \A q \in Senders : Ahead(q, k)'
             /\ conn[k].pc = "new" => Stream(k)' = <<>>
  <2>1. Accounted(k)'
    <3>1. SUFFICES ASSUME NEW e \in due'[k]
                   PROVE  \/ Carries(k, e)' \/ e \in dropped[k]
                          \/ \E q \in Senders : k \in sender'[q].clients /\ e = <<q, sender'[q].event>>
      BY <1>0 DEF Accounted
    <3>2. Carries(k, e) => Carries(k, e)'
      BY <1>5 DEF Carries
    <3>3. ASSUME NEW q \in Senders, k \in sender[q].clients PROVE sender'[q] = sender[q]
      BY <1>0, <1>4, <3>3
    <3>4. CASE e \in due[k]
      BY <1>5, <3>2, <3>3, <3>4 DEF Accounted
    <3>5. CASE e \notin due[k]
      <4>1. k \in ClientsOf(u) /\ e = e0
        BY <1>7, <3>1, <3>5
      <4> QED
        BY <1>2, <1>4, <4>1
    <3> QED
      BY <3>4, <3>5
  <2>2. InOrder(k)'
    BY <1>5 DEF InOrder
  <2>3. ASSUME NEW q \in Senders, q # s PROVE Ahead(q, k)'
    <3>1. Ahead(q, k) /\ sender'[q] = sender[q] /\ Stream(k)' = Stream(k)
      BY <1>4, <1>5, <2>3
    <3> QED
      BY <1>0, <1>7, <3>1 DEF Ahead
  <2>4. Ahead(s, k)'
    <3>1. Ahead(s, k) /\ Stream(k)' = Stream(k) /\ sender'[s] = r
      BY <1>4, <1>5
    <3>2. sender'[s].users # {} => sender'[s].event # 0
      BY <1>0, <1>2, <3>1 DEF Ahead
    <3>3. k \in ClientsOf(u) => /\ conn[k].user \notin r.users /\ e0 \in due'[k] /\ conn[k].pc # "new"
      BY <1>1, <1>2, <1>7
    <3>4. ASSUME NEW n \in 1..Len(Stream(k)), Stream(k)[n][1] = s
          PROVE  \/ Stream(k)[n][2] < r.event
                 \/ /\ Stream(k)[n][2] = r.event /\ conn[k].pc # "new"
                    /\ k \notin r.clients /\ conn[k].user \notin r.users
      BY <1>0, <1>1, <1>2, <3>1, <3>4 DEF Ahead
    <3> QED
      BY <1>0, <1>2, <3>1, <3>2, <3>3, <3>4 DEF Ahead
  <2> QED
    BY <1>5, <2>1, <2>2, <2>3, <2>4
<1> QED
  BY <1>0, <1>4, <1>7, <1>8, OnlyStreams DEF TypeOK

(* A sender offers its event to a connection it has copied.                *)
LEMMA OfferStep ==
  ASSUME ConnInv, NEW s \in Senders, NEW k \in Conns, OfferToClient(s, k)
  PROVE  ConnInv'
<1> DEFINE r == [sender[s] EXCEPT !.clients = @ \ {k}]
           e0 == <<s, sender[s].event>>
           L == Len(Stream(k))
<1>0. /\ TypeOK /\ StreamInv /\ sender[s] \in SenderType /\ k \in sender[s].clients
      /\ send' = [send EXCEPT ![k] = Offer(k, e0)]
      /\ dropped' = IF Len(send[k]) < Buffer THEN dropped
                    ELSE [dropped EXCEPT ![k] = @ \union {e0}]
      /\ UNCHANGED <<redisVars, conn, hubVars, frame, got, due, toClose>>
  BY DEF ConnInv, TypeOK, OfferToClient
<1>1. /\ r \in SenderType /\ r.event = sender[s].event /\ r.users = sender[s].users
      /\ r.clients = sender[s].clients \ {k}
  BY <1>0 DEF SenderType
<1>2. sender' = [sender EXCEPT ![s] = r]
  BY <1>0 DEF OfferToClient, TypeOK
<1> HIDE DEF r
<1>3. /\ sender' \in [Senders -> SenderType] /\ sender'[s] = r
      /\ \A q \in Senders : q # s => sender'[q] = sender[q]
  BY <1>0, <1>1, <1>2, SenderMoves
<1>4. ASSUME NEW j \in Conns
      PROVE  /\ Accounted(j) /\ InOrder(j) /\ \A q \in Senders : Ahead(q, j)
             /\ conn[j].pc = "new" => Stream(j) = <<>>
  BY <1>0 DEF StreamInv, OnlyFullChannelsDrop
<1>5. e0 \in due[k] /\ due[k] \subseteq Events /\ conn[k].pc # "new"
      /\ conn[k].user \notin sender[s].users
  BY <1>0, <1>4 DEF Ahead, TypeOK
<1>6. e0 \in Events \union {Reply} /\ e0[1] = s /\ e0[2] = sender[s].event
  BY <1>5
<1>7. /\ send' \in [Conns -> Seq(Events \union {Reply})]
      /\ \A j \in Conns : Len(send'[j]) <= Buffer
      /\ \A j \in Conns : j # k => Stream(j)' = Stream(j)
      /\ Len(send[k]) < Buffer =>
           /\ Len(Stream(k)') = L + 1
           /\ \A n \in 1..L : Stream(k)'[n] = Stream(k)[n]
           /\ Stream(k)'[L + 1] = e0
      /\ ~(Len(send[k]) < Buffer) => Stream(k)' = Stream(k)
  <2> HIDE DEF e0
  <2> QED
    BY <1>0, <1>6, OfferStream
<1>8. /\ dropped' \in [Conns -> SUBSET Events]
      /\ \A j \in Conns : dropped[j] \subseteq dropped'[j] /\ dropped'[j] \subseteq due[j]
      /\ ~(Len(send[k]) < Buffer) => e0 \in dropped'[k]
  <2> HIDE DEF e0
  <2> QED
    BY <1>0, <1>5 DEF TypeOK
<1>9. L \in Nat /\ \A n \in 1..L : Stream(k)[n] \in Events \union {Reply}
  BY <1>0, StreamType
<1> HIDE DEF e0, L
<1>10. ASSUME NEW j \in Conns PROVE \A e : Carries(j, e) => Carries(j, e)'
  <2>1. CASE Stream(j)' = Stream(j)
    BY <2>1 DEF Carries
  <2>2. CASE j = k /\ Len(send[k]) < Buffer
    <3>1. /\ L \in Nat /\ Len(Stream(k)') = L + 1
          /\ \A n \in 1..L : Stream(k)'[n] = Stream(k)[n]
      BY <1>7, <1>9, <2>2
    <3> QED
      BY <2>2, <3>1, StillCarried DEF L
  <2> QED
    BY <1>7, <2>1, <2>2
<1>11. ASSUME NEW j \in Conns PROVE Accounted(j)'
  <2>1. SUFFICES ASSUME NEW e \in due[j]
                 PROVE  \/ Carries(j, e)' \/ e \in dropped'[j]
                        \/ \E q \in Senders : j \in sender'[q].clients /\ e = <<q, sender'[q].event>>
    BY <1>0 DEF Accounted
  <2>2. CASE j = k /\ e = e0
    <3>1. CASE Len(send[k]) < Buffer
      <4>1. L + 1 \in 1..Len(Stream(k)') /\ Stream(k)'[L + 1] = e0
        BY <1>7, <1>9, <3>1
      <4> QED
        BY <2>2, <4>1 DEF Carries
    <3> QED
      BY <1>8, <2>2, <3>1
  <2>3. CASE ~(j = k /\ e = e0)
    <3>1. CASE Carries(j, e) \/ e \in dropped[j]
      BY <1>8, <1>10, <3>1
    <3>2. ASSUME NEW q \in Senders, j \in sender[q].clients, e = <<q, sender[q].event>>
          PROVE  j \in sender'[q].clients /\ e = <<q, sender'[q].event>>
      <4>1. CASE q = s
        <5>1. j # k
          BY <2>3, <3>2, <4>1 DEF e0
        <5> QED
          BY <1>1, <1>3, <3>2, <4>1, <5>1
      <4>2. CASE q # s
        BY <1>3, <3>2, <4>2
      <4> QED
        BY <4>1, <4>2
    <3> QED
      BY <1>4, <3>1, <3>2 DEF Accounted
  <2> QED
    BY <2>2, <2>3
<1>12. ASSUME NEW j \in Conns PROVE InOrder(j)'
  <2>1. CASE Stream(j)' = Stream(j)
    BY <1>4, <2>1 DEF InOrder
  <2>2. CASE j = k /\ Len(send[k]) < Buffer
    <3>0. /\ Len(Stream(k)') = L + 1 /\ Stream(k)'[L + 1] = e0
          /\ \A n \in 1..L : Stream(k)'[n] = Stream(k)[n]
      BY <1>7, <2>2
    <3>1. SUFFICES ASSUME NEW m \in 1..(L + 1), NEW n \in 1..(L + 1), m < n,
                          Stream(k)'[m] # Reply, Stream(k)'[m][1] = Stream(k)'[n][1]
                   PROVE  Stream(k)'[m][2] < Stream(k)'[n][2]
      BY <2>2, <3>0 DEF InOrder
    <3>2. m \in 1..L /\ Stream(k)'[m] = Stream(k)[m]
      BY <1>9, <3>0, <3>1
    <3>3. CASE n \in 1..L
      BY <1>4, <3>0, <3>1, <3>2, <3>3 DEF InOrder, L
    <3>4. CASE n = L + 1
      <4>1. Stream(k)[m][1] = s
        BY <1>6, <3>0, <3>1, <3>2, <3>4
      <4>2. Stream(k)[m][2] < sender[s].event
        BY <1>0, <1>4, <3>2, <4>1 DEF Ahead, L
      <4> QED
        BY <1>6, <3>0, <3>2, <3>4, <4>2
    <3> QED
      BY <1>9, <3>3, <3>4
  <2> QED
    BY <1>7, <2>1, <2>2
<1>13. ASSUME NEW j \in Conns, NEW q \in Senders PROVE Ahead(q, j)'
  <2>1. Ahead(q, j)
    BY <1>4
  <2>2. /\ sender'[q].event = sender[q].event /\ sender'[q].users = sender[q].users
        /\ sender'[q].clients \subseteq sender[q].clients
        /\ q = s => k \notin sender'[q].clients
    BY <1>1, <1>3
  <2>3. ASSUME NEW n \in 1..Len(Stream(j)), Stream(j)[n][1] = q
        PROVE  \/ Stream(j)[n][2] < sender'[q].event
               \/ /\ Stream(j)[n][2] = sender'[q].event /\ conn[j].pc # "new"
                  /\ j \notin sender'[q].clients /\ conn[j].user \notin sender'[q].users
    BY <2>1, <2>2, <2>3 DEF Ahead
  <2>4. ASSUME NEW n \in 1..Len(Stream(j)'), Stream(j)'[n][1] = q
        PROVE  \/ Stream(j)'[n][2] < sender'[q].event
               \/ /\ Stream(j)'[n][2] = sender'[q].event /\ conn[j].pc # "new"
                  /\ j \notin sender'[q].clients /\ conn[j].user \notin sender'[q].users
    <3>1. CASE Stream(j)' = Stream(j)
      BY <2>3, <2>4, <3>1
    <3>2. CASE j = k /\ Len(send[k]) < Buffer
      <4>1. /\ Len(Stream(k)') = L + 1 /\ Stream(k)'[L + 1] = e0
            /\ \A x \in 1..L : Stream(k)'[x] = Stream(k)[x]
        BY <1>7, <3>2
      <4>2. CASE n \in 1..L
        BY <2>3, <2>4, <3>2, <4>1, <4>2 DEF L
      <4>3. CASE n = L + 1
        <5>1. q = s
          BY <1>6, <2>4, <3>2, <4>1, <4>3
        <5> QED
          BY <1>5, <1>6, <2>2, <3>2, <4>1, <4>3, <5>1
      <4> QED
        BY <1>9, <2>4, <3>2, <4>1, <4>2, <4>3
    <3> QED
      BY <1>7, <3>1, <3>2
  <2>5. /\ sender'[q].users # {} => sender'[q].event # 0
        /\ j \in sender'[q].clients =>
             /\ conn[j].user \notin sender'[q].users /\ <<q, sender'[q].event>> \in due[j]
             /\ conn[j].pc # "new"
    BY <2>1, <2>2 DEF Ahead
  <2> QED
    BY <1>0, <2>4, <2>5 DEF Ahead
<1>14. \A j \in Conns : conn[j].pc = "new" => Stream(j)' = <<>>
  BY <1>4, <1>5, <1>7
<1>15. due' \in [Conns -> SUBSET Events] /\ \A j \in Conns : dropped'[j] \subseteq due'[j]
  BY <1>0, <1>8 DEF TypeOK
<1> QED
  BY <1>0, <1>3, <1>7, <1>8, <1>11, <1>12, <1>13, <1>14, <1>15, OnlyStreams

-----------------------------------------------------------------------------
(***************************************************************************)
(* The theorems.                                                           *)
(***************************************************************************)
LEMMA ConnInit == Init => ConnInv
<1> SUFFICES ASSUME Init PROVE ConnInv
  OBVIOUS
<1> USE DEF Init
<1>0. /\ \A k \in Conns : conn[k] = NewConn /\ Stream(k) = <<>> /\ due[k] = {}
      /\ \A s \in Senders : sender[s] = IdleSender
  BY DEF Stream, Taken
<1>1. TypeOK
  <2>1. conn \in [Conns -> ConnType] /\ sender \in [Senders -> SenderType]
    BY NewConnType, IdleSenderType
  <2>2. \A k \in Conns : Len(send[k]) <= Buffer
    BY ConnectionsAssumption
  <2> QED
    BY <2>1, <2>2 DEF TypeOK
<1>2. HubInv
  BY <1>0, NewConnType, FS_EmptySet DEF HubInv, GaugeCountsClients
<1>3. TicketInv
  BY <1>0, NewConnType DEF TicketInv, TicketOpensOnce
<1>4. StreamInv
  <2>1. \A k \in Conns : Accounted(k) /\ InOrder(k)
    BY <1>0 DEF Accounted, InOrder
  <2>2. \A s \in Senders, k \in Conns : Ahead(s, k)
    BY <1>0, IdleSenderType DEF Ahead
  <2> QED
    BY <1>0, <2>1, <2>2 DEF StreamInv, OnlyFullChannelsDrop
<1>5. OnlineIsConnected
  BY DEF OnlineIsConnected
<1> QED
  BY <1>1, <1>2, <1>3, <1>4, <1>5 DEF ConnInv

(* Every step keeps the invariant.                                         *)
LEMMA ConnNext ==
  ASSUME ConnInv, [Next]_vars
  PROVE  ConnInv'
<1>1. CASE UNCHANGED vars
  <2>0. UNCHANGED <<ticket, issued, online, conn, hubVars, streamVars, sender, toClose>>
    BY <1>1 DEF vars, redisVars
  <2>1. StreamInv' /\ TicketInv' /\ HubInv'
    BY <2>0, StreamUntouched, TicketsUntouched, HubUntouched
  <2>2. TypeOK' /\ OnlineIsConnected'
    BY <2>0 DEF TypeOK, OnlineIsConnected, hubVars, streamVars, ConnInv
  <2> QED
    BY <2>1, <2>2 DEF ConnInv
<1>2. ASSUME NEW k \in Conns,
             RequestStep(k) \/ HandlerStep(k) \/ WriterStep(k) \/ CloseForShutdown(k)
      PROVE  ConnInv'
  BY <1>2, ConsumeStep, HandleEventStep, PlainConnStep, ServedStep, TakeFrameStep,
     WriteMessageStep
     DEF RequestStep, HandlerStep, WriterStep
<1>3. ASSUME NEW s \in Senders, SenderStep(s) PROVE ConnInv'
  BY <1>3, DeliverStep, SendToUserStep, OfferStep DEF SenderStep
<1> QED
  BY <1>1, <1>2, <1>3, TicketStep, QuietStep DEF Next

(* The invariant holds of the connections in all their states.             *)
LEMMA ConnInvAlways == Spec => []ConnInv
<1>1. Init => ConnInv
  BY ConnInit
<1>2. ConnInv /\ [Next]_vars => ConnInv'
  BY ConnNext
<1> QED
  BY <1>1, <1>2, PTL DEF Spec

(* Type correctness: only connections between Register and Unregister are  *)
(* in the hub, no channel exceeds its capacity, and an event is dropped    *)
(* only for a connection it was meant for.                                 *)
THEOREM ConnTypeCorrect == Spec => []TypeOK
<1>1. ConnInv => TypeOK
  BY DEF ConnInv
<1> QED
  BY <1>1, ConnInvAlways, PTL

(* GETDEL: however many requests present a ticket at once, it opens one    *)
(* connection, for the user it was issued to.                              *)
THEOREM TicketOpensOnceAlways == Spec => []TicketOpensOnce
<1>1. ConnInv => TicketOpensOnce
  BY DEF ConnInv, TicketInv
<1> QED
  BY <1>1, ConnInvAlways, PTL

(* Register and Unregister keep the gauge WSActive equal to the number of  *)
(* connections in the hub.                                                 *)
THEOREM GaugeCountsClientsAlways == Spec => []GaugeCountsClients
<1>1. ConnInv => GaugeCountsClients
  BY DEF ConnInv, HubInv
<1> QED
  BY <1>1, ConnInvAlways, PTL

(* An event that SendToUser copied a connection for reaches that           *)
(* connection's channel unless the channel is full, leaves it only into    *)
(* the hand of writePump, and is from there written or lost, alone, with   *)
(* the write that ends the pump; the events of a sender keep their order,  *)
(* whatever connects and disconnects meanwhile.                            *)
THEOREM OnlyFullChannelsDropAlways == Spec => []OnlyFullChannelsDrop
<1>1. ConnInv => OnlyFullChannelsDrop
  BY DEF ConnInv, StreamInv
<1> QED
  BY <1>1, ConnInvAlways, PTL

(* A user is shown online only while one of his connections is served.     *)
THEOREM OnlineIsConnectedAlways == Spec => []OnlineIsConnected
<1>1. ConnInv => OnlineIsConnected
  BY DEF ConnInv
<1> QED
  BY <1>1, ConnInvAlways, PTL

=============================================================================
