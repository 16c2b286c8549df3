------------------------ MODULE FirstConnectionProofs ------------------------
(***************************************************************************)
(* Safety of the first connection for any set of viewers, any of them      *)
(* rogues, and any number of failures before the code is replaced.  The    *)
(* argument is one inductive invariant in four parts: where the host is    *)
(* (HostInv), what travels to it (WireInv), which codes are spent (CodeInv)*)
(* and whose frames an attempt reads (OrderInv).                           *)
(***************************************************************************)
EXTENDS FirstConnection, Integers, TLAPS

Stages == HostStage \cup {"session"}
Serving == {"start", "confirm"} \cup Stages

\* What an attempt knows at each step of serve_next, attempt and handshake.
HostInv ==
    /\ hpc = "idle" => hjoin = None /\ hpake = None /\ hused = None
    /\ hpc \in Serving => hjoin \in Viewers
    /\ hpc = "start" => hpake = None
    /\ hpc \in Stages \cup {"confirm"} => hpake \in Viewers /\ hused \in Nat

\* What viewer v can put in a relay: its own Start, and a Confirm with the code its user
\* typed or one that fits no code.
Own(v, d) ==
    /\ vpc[v] # "out"
    /\ d.m = "start" => d.from = v
    /\ d.m = "confirm" => d.from = v /\ d.code \in {vcode[v], None}

\* The same after the step.
OwnNext(v, d) ==
    /\ vpc'[v] # "out"
    /\ d.m = "start" => d.from = v
    /\ d.m = "confirm" => d.from = v /\ d.code \in {vcode'[v], None}

\* Frames on the way to the server and in the host's inbox are their sender's own, and
\* the host goes past Confirm only for a viewer with the attempt's code.
WireInv ==
    /\ \A v \in Viewers : \A i \in DOMAIN up[v] :
          up[v][i].f = "relay" => Own(v, up[v][i].data)
    /\ \A i \in DOMAIN Inbox :
          Inbox[i].t = "relay" => Inbox[i].from \in Viewers /\ Own(Inbox[i].from, Inbox[i].data)
    /\ hpc \in Stages => vpc[hpake] # "out" /\ vcode[hpake] = hused

\* Was v told that it is accepted, and believes it or will?
Told(v) ==
    \/ vpc[v] \in {"session", "done"}
    \/ \E i \in DOMAIN chan[v].toViewer : chan[v].toViewer[i] = "accepted"

\* Codes of sessions lie behind the current one, the running attempt's code is not among
\* them; who was told of a session has one, under the code its user typed.
CodeInv ==
    /\ \A g \in granted : g.code < hcode /\ vpc[g.viewer] # "out" /\ g.code = vcode[g.viewer]
    /\ hpc \in HostStage \cup {"confirm"} =>
          hused <= hcode /\ \A g \in granted : g.code # hused
    /\ OneSessionPerCode
    /\ \A v \in Viewers : Told(v) => \E g \in granted : g.viewer = v

NoJoinBefore(s, i) == \A k \in 1..(i - 1) : s[k].t # "viewer_joined"
LastJoin(s, j, i) ==
    /\ j \in 1..(i - 1) /\ s[j].t = "viewer_joined"
    /\ \A k \in (j + 1)..(i - 1) : s[k].t # "viewer_joined"

\* A relay in the inbox is from the viewer announced last before it - in the inbox, or
\* by the viewer_joined that began the running attempt; so is what the connected viewer
\* may still send.
OrderInv ==
    /\ \A i, j \in DOMAIN Inbox :
          Inbox[i].t = "relay" /\ LastJoin(Inbox, j, i) => Inbox[i].from = Inbox[j].viewer
    /\ hpc \in Serving => \A i \in DOMAIN Inbox :
          Inbox[i].t = "relay" /\ NoJoinBefore(Inbox, i) => Inbox[i].from = hjoin
    /\ \A v \in Viewers : ready[v] = "open" =>
          /\ \A j \in DOMAIN Inbox :
                LastJoin(Inbox, j, Len(Inbox) + 1) => Inbox[j].viewer = v
          /\ hpc \in Serving /\ NoJoinBefore(Inbox, Len(Inbox) + 1) => v = hjoin
    /\ AttemptServesItsViewer

-----------------------------------------------------------------------------
(* The room and the queues.                                                *)

\* The room of the connection has the host's socket and the viewers'.
LEMMA SocketSet == Sockets = {Host} \cup Viewers /\ Host \notin Viewers
BY ConnectionAssumption DEF Sockets, Room!Sockets

\* openViewer() is nobody or a viewer whose socket is OPEN.
LEMMA OpenOne ==
    \/ Room!OpenViewer = None
    \/ Room!OpenViewer \in Viewers /\ ready[Room!OpenViewer] = "open"
BY DEF Room!OpenViewer, Room!OpenViewers

\* Nobody is OPEN where openViewer() is undefined.
LEMMA NobodyOpen ==
    ASSUME Room!OpenViewer = None, NEW v \in Viewers
    PROVE  ready[v] # "open"
BY ConnectionAssumption DEF Room!OpenViewer, Room!OpenViewers

\* authedHost() is nobody or the one host.
LEMMA HostOne ==
    \/ Room!AuthedHost = None
    \/ Room!AuthedHost = Host /\ ready[Host] = "open" /\ authed[Host]
BY DEF Room!AuthedHost, Room!AuthedHosts

\* What the room can send.
LEMMA MessageTypes ==
    /\ Room!Joined \in Room!Message /\ Room!HostLeft \in Room!Message
    /\ \A v \in Viewers : Room!ViewerJoined(v) \in Room!Message /\ Room!ViewerLeft(v) \in Room!Message
    /\ \A ws \in Sockets, d \in PakeMsg : Room!Relay(ws, d) \in Room!Message
    /\ \A c \in {Room!ProtocolError, Room!Kicked, Room!HostLeftCode} : Room!CloseFrame(c) \in Room!Message
BY DEF Room!Message, Room!Joined, Room!HostLeft, Room!ViewerJoined, Room!ViewerLeft,
       Room!Relay, Room!CloseFrame, Sockets

\* A send reaches its socket's queue and no other (ws?.send).
LEMMA SentEffect ==
    ASSUME NEW o \in [Sockets -> Seq(Room!Message)], NEW ws, NEW m \in Room!Message
    PROVE  /\ Room!Sent(o, ws, m) \in [Sockets -> Seq(Room!Message)]
           /\ \A x \in Sockets : x # ws => Room!Sent(o, ws, m)[x] = o[x]
           /\ ws \in Sockets => Room!Sent(o, ws, m)[ws] \in {o[ws], Append(o[ws], m)}
<1>1. CASE ws \in Sockets /\ ready[ws] = "open"
  <2>1. Append(o[ws], m) \in Seq(Room!Message)
    BY <1>1
  <2>2. Room!Sent(o, ws, m) = [o EXCEPT ![ws] = Append(o[ws], m)]
    BY <1>1 DEF Room!Sent, Sockets
  <2>. QED  BY <1>1, <2>1, <2>2
<1>2. CASE ~(ws \in Sockets /\ ready[ws] = "open")
  BY <1>2 DEF Room!Sent, Sockets
<1>. QED  BY <1>1, <1>2

\* A server's close never opens a socket (closeFromServer).
LEMMA CloseEffect ==
    ASSUME NEW r \in [Sockets -> Room!States], NEW ws,
           NEW c \in [Viewers -> BOOLEAN]
    PROVE  /\ Room!Closing(r, ws) \in [Sockets -> Room!States]
           /\ \A x \in Sockets : Room!Closing(r, ws)[x] = "open" => r[x] = "open"
           /\ Room!Marked(c, ws) \in [Viewers -> BOOLEAN]
BY DEF Room!Closing, Room!Marked, Room!States, Sockets

\* The parts of the type invariant that the room's handlers touch.
RoomType ==
    /\ ready \in [Sockets -> Room!States]
    /\ authed \in [{Host} -> BOOLEAN]
    /\ closedByServer \in [Viewers -> BOOLEAN]
    /\ out \in [Sockets -> Seq(Room!Message)]

\* A step of the server as the host and its inbox see it: nobody new comes in, and at
\* most one message is queued for the host, a departure or a relay of the open viewer.
ServerEffect ==
    /\ RoomType'
    /\ \A v \in Viewers : ready'[v] = "open" => ready[v] = "open"
    /\ \/ Inbox' = Inbox
       \/ \E v \in Viewers : Inbox' = Append(Inbox, Room!ViewerLeft(v))
       \/ \E v \in Viewers :
             /\ ready[v] = "open" /\ up[v] # <<>> /\ Front(v).f = "relay"
             /\ Inbox' = Append(Inbox, Room!Relay(v, Front(v).data))

\* Frames have the fields their kind says.
LEMMA FrameFields ==
    ASSUME NEW fr \in Frame
    PROVE  fr.f = "relay" => fr.data \in PakeMsg
BY DEF Frame

\* One step of the server handles one socket, and changes the queues as it should.
LEMMA ServerStep ==
    ASSUME TypeOK, Server
    PROVE  ServerEffect /\ \E ws \in Sockets : Serve(ws)
<1>0. /\ RoomType /\ up \in [Sockets -> Seq(Frame)] /\ Sockets = {Host} \cup Viewers
      /\ Host \in Sockets /\ Viewers \subseteq Sockets
      /\ ready \in [Sockets -> Room!States] /\ closedByServer \in [Viewers -> BOOLEAN]
  BY SocketSet DEF TypeOK, RoomType
<1>o. out \in [Sockets -> Seq(Room!Message)]
  BY DEF TypeOK
<1>1. \A ws \in Sockets : up[ws] # <<>> => Front(ws) \in Frame
  BY <1>0 DEF Front
<1>2. UNCHANGED room => ServerEffect
  BY <1>0 DEF ServerEffect, RoomType, room, Inbox
<1>3. CASE ForwardToViewer
  <2>1. CASE Room!OpenViewer = None
    BY <1>0, <1>2, <1>3, <2>1 DEF ForwardToViewer
  <2>2. CASE Room!OpenViewer # None
    <3>1. Front(Host).data \in PakeMsg
      BY <1>0, <1>1, <1>3, FrameFields DEF ForwardToViewer, Serve
    <3>2. /\ out' = Room!Sent(out, Room!OpenViewer, Room!Relay(Host, Front(Host).data))
          /\ UNCHANGED <<ready, authed, closedByServer>>
      BY <1>3, <2>2 DEF ForwardToViewer, Room!HostRelay
    <3>3. Room!OpenViewer # Host
      BY <2>2, OpenOne, SocketSet
    <3>4. Room!Relay(Host, Front(Host).data) \in Room!Message
      BY <1>0, <3>1, MessageTypes
    <3>5. /\ Room!Sent(out, Room!OpenViewer, Room!Relay(Host, Front(Host).data)) \in [Sockets -> Seq(Room!Message)]
          /\ \A x \in Sockets : x # Room!OpenViewer =>
                Room!Sent(out, Room!OpenViewer, Room!Relay(Host, Front(Host).data))[x] = out[x]
      BY <1>o, <3>4, SentEffect
    <3>. QED  BY <1>0, <1>3, <3>2, <3>3, <3>5 DEF ServerEffect, RoomType, Inbox, ForwardToViewer
  <2>. QED  BY <2>1, <2>2
<1>4. CASE ServerKicks
  <2>1. CASE Room!OpenViewer = None
    BY <1>0, <1>2, <1>4, <2>1 DEF ServerKicks
  <2>2. CASE Room!OpenViewer # None
    <3>. DEFINE o == Room!OpenViewer
                m == Room!CloseFrame(Room!Kicked)
    <3>2. /\ out' = Room!Sent(out, o, m) /\ ready' = Room!Closing(ready, o)
          /\ closedByServer' = Room!Marked(closedByServer, o) /\ authed' = authed
      BY <1>4, <2>2 DEF ServerKicks, Room!HostKick, Room!CloseFromServer
    <3>3. o # Host
      BY <2>2, OpenOne, SocketSet
    <3>4. m \in Room!Message
      BY MessageTypes
    <3>. HIDE DEF o, m
    <3>5. /\ Room!Sent(out, o, m) \in [Sockets -> Seq(Room!Message)]
          /\ \A x \in Sockets : x # o => Room!Sent(out, o, m)[x] = out[x]
      BY <1>o, <3>4, SentEffect
    <3>6. /\ Room!Closing(ready, o) \in [Sockets -> Room!States]
          /\ \A x \in Sockets : Room!Closing(ready, o)[x] = "open" => ready[x] = "open"
          /\ Room!Marked(closedByServer, o) \in [Viewers -> BOOLEAN]
      BY <1>0, CloseEffect
    <3>. QED  BY <1>0, <1>4, <3>2, <3>3, <3>5, <3>6 DEF ServerEffect, RoomType, Inbox, ServerKicks
  <2>. QED  BY <2>1, <2>2
<1>5. CASE ServerLosesHost
  <2>. DEFINE o == Room!OpenViewer
              one == Room!Sent(out, o, Room!HostLeft)
              two == Room!Sent(one, o, Room!CloseFrame(Room!HostLeftCode))
  <2>1. o # Host
    BY OpenOne, SocketSet, ConnectionAssumption
  <2>2. /\ authed' = [authed EXCEPT ![Host] = FALSE]
        /\ \/ /\ ready' = [Room!Closing(ready, o) EXCEPT ![Host] = "closed"]
              /\ closedByServer' = Room!Marked(closedByServer, o)
              /\ out' = two
           \/ /\ ready' = [ready EXCEPT ![Host] = "closed"]
              /\ UNCHANGED <<closedByServer, out>>
    BY <1>5 DEF ServerLosesHost, Room!HostGone, Room!HostGoneOut
  <2>3. /\ Room!Closing(ready, o) \in [Sockets -> Room!States]
        /\ \A x \in Sockets : Room!Closing(ready, o)[x] = "open" => ready[x] = "open"
        /\ Room!Marked(closedByServer, o) \in [Viewers -> BOOLEAN]
    BY <1>0, CloseEffect
  <2>4. one \in [Sockets -> Seq(Room!Message)] /\ \A x \in Sockets : x # o => one[x] = out[x]
    BY <1>o, MessageTypes, SentEffect
  <2>. HIDE DEF one, o
  <2>5. two \in [Sockets -> Seq(Room!Message)] /\ \A x \in Sockets : x # o => two[x] = one[x]
    BY <2>4, MessageTypes, SentEffect
  <2>. HIDE DEF two
  <2>6. "closed" \in Room!States
    BY DEF Room!States
  <2>7. RoomType' /\ \A v \in Viewers : ready'[v] = "open" => ready[v] = "open"
    BY <1>0, <2>2, <2>3, <2>5, <2>6 DEF RoomType
  <2>8. Inbox' = Inbox
    BY <1>0, <2>1, <2>2, <2>4, <2>5 DEF Inbox
  <2>. QED  BY <1>0, <1>5, <2>7, <2>8 DEF ServerEffect, ServerLosesHost
<1>6. ASSUME NEW v \in Viewers, ForwardToHost(v)
      PROVE  ServerEffect /\ Serve(v)
  <2>1. CASE UNCHANGED room
    BY <1>0, <1>2, <1>6, <2>1 DEF ForwardToHost
  <2>2. CASE ~UNCHANGED room
    <3>. DEFINE m == Room!Relay(v, Front(v).data)
    <3>1. up[v] # <<>> /\ Front(v).f = "relay" /\ Front(v).data \in PakeMsg
      BY <1>0, <1>1, <1>6, FrameFields DEF ForwardToHost, Serve
    <3>2. /\ v = Room!OpenViewer /\ Room!AuthedHost = Host
          /\ out' = Room!Sent(out, Host, m) /\ UNCHANGED <<ready, authed, closedByServer>>
      BY <1>6, <2>2, HostOne DEF ForwardToHost, Room!ViewerRelay
    <3>3. ready[v] = "open"
      BY <3>2, OpenOne, ConnectionAssumption
    <3>4. m \in Room!Message
      BY <1>0, <3>1, MessageTypes
    <3>5. /\ Room!Sent(out, Host, m) \in [Sockets -> Seq(Room!Message)]
          /\ Room!Sent(out, Host, m)[Host] \in {out[Host], Append(out[Host], m)}
      <4>. HIDE DEF m
      <4>. QED  BY <1>o, <3>4, SentEffect
    <3>6. Inbox' = Inbox \/ Inbox' = Append(Inbox, m)
      BY <3>2, <3>5 DEF Inbox
    <3>7. RoomType'
      BY <1>0, <3>2, <3>5 DEF RoomType
    <3>. QED  BY <1>6, <3>1, <3>2, <3>3, <3>6, <3>7 DEF ServerEffect, ForwardToHost
  <2>. QED  BY <2>1, <2>2
<1>7. ASSUME NEW v \in Viewers, ServerRefusesFrame(v)
      PROVE  ServerEffect /\ Serve(v)
  <2>1. CASE UNCHANGED room
    BY <1>0, <1>2, <1>7, <2>1 DEF ServerRefusesFrame
  <2>2. CASE ~UNCHANGED room
    <3>. DEFINE m == Room!CloseFrame(Room!ProtocolError)
    <3>2. /\ out' = Room!Sent(out, v, m) /\ ready' = Room!Closing(ready, v)
          /\ closedByServer' = Room!Marked(closedByServer, v) /\ authed' = authed
      BY <1>7, <2>2 DEF ServerRefusesFrame, Room!OtherViewerFrame, Room!CloseFromServer
    <3>3. v # Host
      BY SocketSet
    <3>4. m \in Room!Message
      BY MessageTypes
    <3>. HIDE DEF m
    <3>5. /\ Room!Sent(out, v, m) \in [Sockets -> Seq(Room!Message)]
          /\ \A x \in Sockets : x # v => Room!Sent(out, v, m)[x] = out[x]
      BY <1>o, <3>4, SentEffect
    <3>6. /\ Room!Closing(ready, v) \in [Sockets -> Room!States]
          /\ \A x \in Sockets : Room!Closing(ready, v)[x] = "open" => ready[x] = "open"
          /\ Room!Marked(closedByServer, v) \in [Viewers -> BOOLEAN]
      BY <1>0, CloseEffect
    <3>. QED  BY <1>0, <1>7, <3>2, <3>3, <3>5, <3>6 DEF ServerEffect, RoomType, Inbox, ServerRefusesFrame
  <2>. QED  BY <2>1, <2>2
<1>8. ASSUME NEW v \in Viewers, ServerLosesViewer(v)
      PROVE  ServerEffect /\ Serve(v)
  <2>. DEFINE m == Room!ViewerLeft(v)
              ah == Room!AuthedHost
  <2>1. /\ ready' = [ready EXCEPT ![v] = "closed"] /\ UNCHANGED <<authed, closedByServer>>
        /\ out' = out \/ out' = Room!Sent(out, ah, m)
    BY <1>8 DEF ServerLosesViewer, Room!ViewerGone
  <2>2. m \in Room!Message /\ ah \in {None, Host} /\ None \notin Sockets
    BY MessageTypes, HostOne, SocketSet, ConnectionAssumption
  <2>. HIDE DEF m, ah
  <2>3. /\ Room!Sent(out, ah, m) \in [Sockets -> Seq(Room!Message)]
        /\ Room!Sent(out, ah, m)[Host] \in {out[Host], Append(out[Host], m)}
    <3>1. /\ Room!Sent(out, ah, m) \in [Sockets -> Seq(Room!Message)]
          /\ \A x \in Sockets : x # ah => Room!Sent(out, ah, m)[x] = out[x]
          /\ ah \in Sockets => Room!Sent(out, ah, m)[ah] \in {out[ah], Append(out[ah], m)}
      BY <1>o, <2>2, SentEffect
    <3>. QED  BY <1>0, <2>2, <3>1
  <2>4. Inbox' = Inbox \/ Inbox' = Append(Inbox, m)
    BY <2>1, <2>3 DEF Inbox
  <2>5. RoomType' /\ \A w \in Viewers : ready'[w] = "open" => ready[w] = "open"
    BY <1>0, <2>1, <2>3 DEF RoomType, Room!States
  <2>. QED  BY <1>8, <2>4, <2>5 DEF ServerEffect, ServerLosesViewer, m
<1>. QED  BY <1>0, <1>3, <1>4, <1>5, <1>6, <1>7, <1>8 DEF Server, ForwardToViewer, ServerKicks, ServerLosesHost

-----------------------------------------------------------------------------
(* Types.                                                                  *)
Channels == [host : Side, viewer : Side, toHost : Seq(Control), toViewer : Seq(Control)]

HostType ==
    /\ hpc \in HostPcs /\ hjoin \in Viewers \cup {None} /\ hpake \in Viewers \cup {None}
    /\ hused \in Codes /\ hcode \in Nat /\ failures \in 0..(RotateAfter - 1)
    /\ waiting \in BOOLEAN
    /\ \A g \in granted : g.viewer \in Viewers /\ g.code \in Nat
ViewerType == vpc \in [Viewers -> ViewerPcs] /\ vcode \in [Viewers -> Codes]
UpType == up \in [Sockets -> Seq(Frame)]
ChanType == chan \in [Viewers -> Channels]

\* TypeOK by part of the system.
LEMMA TypeParts == TypeOK <=> RoomType /\ UpType /\ HostType /\ ViewerType /\ ChanType
BY DEF TypeOK, RoomType, UpType, HostType, ViewerType, ChanType, Channels

\* The same after a step.
LEMMA TypePartsNext == TypeOK' <=> RoomType' /\ UpType' /\ HostType' /\ ViewerType' /\ ChanType'
BY DEF TypeOK, RoomType, UpType, HostType, ViewerType, ChanType, Channels

\* What either program sends.
LEMMA FrameTypes ==
    /\ \A v \in Viewers, c \in Codes : RelayFrame(Reply(v, c)) \in Frame
    /\ \A v \in Viewers : /\ RelayFrame(Start(v)) \in Frame /\ RelayFrame(Answer(v)) \in Frame
                          /\ KickFrame(v) \in Frame
    /\ \A v \in Viewers, c \in Codes, b \in BOOLEAN : RelayFrame(Confirm(v, c, b)) \in Frame
    /\ RelayFrame(RetryAfter) \in Frame /\ RelayFrame(Rejected) \in Frame
    /\ RelayFrame(Garbage) \in Frame /\ CloseOf \in Frame /\ OtherFrame \in Frame
BY DEF Frame, PakeMsg, RelayFrame, KickFrame, CloseOf, OtherFrame, Reply, Start, Answer, Confirm,
       RetryAfter, Rejected, Garbage

\* The message at the head of the inbox has the fields its kind says.
LEMMA InboxHead ==
    ASSUME TypeOK, Inbox # <<>>
    PROVE  /\ Head(Inbox).t = "viewer_joined" => Head(Inbox).viewer \in Viewers
           /\ Head(Inbox).t = "relay" =>
                 /\ Head(Inbox).from \in Sockets
                 /\ Head(Inbox).data.m = "start" => Head(Inbox).data.from \in Viewers
<1>1. Head(Inbox) \in Room!Message
  BY SocketSet DEF TypeOK, Inbox
<1>2. Head(Inbox).t = "relay" => Head(Inbox).data \in PakeMsg /\ Head(Inbox).from \in Sockets
  BY <1>1 DEF Room!Message, Sockets
<1>3. \A d \in PakeMsg : d.m = "start" => d.from \in Viewers
  BY DEF PakeMsg
<1>4. Head(Inbox).t = "viewer_joined" => Head(Inbox).viewer \in Viewers
  BY <1>1 DEF Room!Message
<1>. QED  BY <1>2, <1>3, <1>4

\* Reading takes the head of a queue.
LEMMA ReadEffect ==
    ASSUME TypeOK, NEW ws \in Sockets, out[ws] # <<>>, out' = [out EXCEPT ![ws] = Tail(@)]
    PROVE  /\ out' \in [Sockets -> Seq(Room!Message)]
           /\ out'[ws] = Tail(out[ws])
           /\ \A x \in Sockets : x # ws => out'[x] = out[x]
<1>1. out \in [Sockets -> Seq(Room!Message)]
  BY DEF TypeOK
<1>2. Tail(out[ws]) \in Seq(Room!Message)
  BY <1>1
<1>. QED  BY <1>1, <1>2

\* The host's recv takes the first message of its queue and no more.
LEMMA HostReadEffect ==
    ASSUME TypeOK, Inbox # <<>>, HostReads, RoomRest
    PROVE  RoomType' /\ ready' = ready /\ Inbox' = Tail(Inbox)
<1>1. Host \in Sockets
  BY SocketSet
<1>2. out' \in [Sockets -> Seq(Room!Message)] /\ Inbox' = Tail(Inbox)
  BY <1>1, ReadEffect DEF HostReads, Inbox
<1>. QED  BY <1>2, TypeParts DEF RoomType, RoomRest

\* What the host sends goes on its own link.
LEMMA HostSendEffect ==
    ASSUME TypeOK, NEW fs \in Seq(Frame), HostSends(fs)
    PROVE  UpType' /\ \A v \in Viewers : up'[v] = up[v]
<1>1. up \in [Sockets -> Seq(Frame)] /\ Host \in Sockets
  BY SocketSet DEF TypeOK
<1>2. up[Host] \o fs \in Seq(Frame)
  BY <1>1
<1>3. up' = [up EXCEPT ![Host] = up[Host] \o fs]
  BY DEF HostSends
<1>. QED  BY <1>1, <1>2, <1>3, SocketSet DEF UpType

\* What a viewer sends goes on its own link.
LEMMA ViewerSendEffect ==
    ASSUME TypeOK, NEW v \in Viewers, NEW fr \in Frame, ViewerSends(v, fr)
    PROVE  UpType' /\ up'[v] = Append(up[v], fr) /\ \A w \in Viewers : w # v => up'[w] = up[w]
<1>1. up \in [Sockets -> Seq(Frame)] /\ v \in Sockets /\ Viewers \subseteq Sockets
  BY SocketSet DEF TypeOK
<1>2. Append(up[v], fr) \in Seq(Frame)
  BY <1>1
<1>3. up' = [up EXCEPT ![v] = Append(up[v], fr)]
  BY DEF ViewerSends
<1>. QED  BY <1>1, <1>2, <1>3 DEF UpType

\* Is a Decision::Accepted on its way to v?
Accepting(v) == \E i \in DOMAIN chan[v].toViewer : chan[v].toViewer[i] = "accepted"
NoNewAccept == \A w \in Viewers : Accepting(w)' => Accepting(w)

\* Nothing is added to what goes to v but a message that is not Accepted.
Quiet(v) ==
    \/ chan'[v].toViewer = chan[v].toViewer
    \/ chan'[v].toViewer = <<>>
    \/ chan[v].toViewer # <<>> /\ chan'[v].toViewer = Tail(chan[v].toViewer)
    \/ \E m \in Control \ {"accepted"} : chan'[v].toViewer = Append(chan[v].toViewer, m)

\* A step that puts no Accepted on v's channel makes no viewer accepted.
LEMMA QuietChannel ==
    ASSUME ChanType, NEW v \in Viewers, Quiet(v),
           \A w \in Viewers : w # v => chan'[w].toViewer = chan[w].toViewer
    PROVE  NoNewAccept
<1>. SUFFICES ASSUME NEW w \in Viewers, Accepting(w)'
              PROVE  Accepting(w)
  BY DEF NoNewAccept
<1>. DEFINE s == chan'[w].toViewer
            t == chan[w].toViewer
<1>1. t \in Seq(Control)
  BY DEF ChanType, Channels
<1>2. PICK i \in DOMAIN s : s[i] = "accepted"
  BY DEF Accepting
<1>3. \/ s = t \/ s = <<>> \/ (t # <<>> /\ s = Tail(t))
      \/ \E m \in Control \ {"accepted"} : s = Append(t, m)
  <2>1. w # v => s = t
    OBVIOUS
  <2>2. w = v => Quiet(w)
    OBVIOUS
  <2>. QED  BY <2>1, <2>2 DEF Quiet
<1>. HIDE DEF s, t
<1>4. \E j \in DOMAIN t : t[j] = "accepted"
  <2>1. CASE s = t
    BY <1>2, <2>1
  <2>2. CASE s = <<>>
    BY <1>2, <2>2
  <2>3. CASE t # <<>> /\ s = Tail(t)
    <3>1. i + 1 \in DOMAIN t /\ s[i] = t[i + 1]
      BY <1>1, <1>2, <2>3
    <3>. QED  BY <1>2, <3>1
  <2>4. ASSUME NEW m \in Control \ {"accepted"}, s = Append(t, m) PROVE \E j \in DOMAIN t : t[j] = "accepted"
    <3>1. i \in DOMAIN t /\ s[i] = t[i]
      BY <1>1, <1>2, <2>4
    <3>. QED  BY <1>2, <3>1
  <2>. QED  BY <1>3, <2>1, <2>2, <2>3, <2>4
<1>. QED  BY <1>4 DEF Accepting, t

\* Dropping a side of the channel may lose what it sent last.
LEMMA DropEffect ==
    ASSUME ChanType, NEW v \in Viewers, HostDrops(v) \/ ViewerDrops(v)
    PROVE  ChanType' /\ NoNewAccept
<1>0. chan[v] \in Channels /\ <<>> \in Seq(Control) /\ "closed" \in Side
  BY DEF ChanType, Side
<1>1. CASE HostDrops(v)
  <2>1. PICK left \in {chan[v].toViewer, <<>>} :
          chan' = [chan EXCEPT ![v].host = "closed", ![v].toViewer = left]
    BY <1>1 DEF HostDrops
  <2>2. left \in Seq(Control)
    BY <1>0 DEF Channels
  <2>3. ChanType' /\ chan'[v].toViewer = left /\ \A w \in Viewers : w # v => chan'[w] = chan[w]
    BY <1>0, <2>1, <2>2 DEF ChanType, Channels
  <2>. QED  BY <2>3, QuietChannel DEF Quiet
<1>2. CASE ViewerDrops(v)
  <2>1. PICK left \in {chan[v].toHost, <<>>} :
          chan' = [chan EXCEPT ![v].viewer = "closed", ![v].toHost = left]
    BY <1>2 DEF ViewerDrops
  <2>2. left \in Seq(Control)
    BY <1>0 DEF Channels
  <2>3. ChanType' /\ \A w \in Viewers : chan'[w].toViewer = chan[w].toViewer
    BY <1>0, <2>1, <2>2 DEF ChanType, Channels
  <2>. QED  BY <2>3, QuietChannel DEF Quiet
<1>. QED  BY <1>1, <1>2

\* The host hears the next message of the viewer.
LEMMA HearEffect ==
    ASSUME ChanType, hpake \in Viewers, FromViewer # <<>>, chan' = HostHears
    PROVE  ChanType' /\ NoNewAccept
<1>1. Tail(chan[hpake].toHost) \in Seq(Control)
  BY DEF ChanType, Channels, FromViewer
<1>2. ChanType' /\ \A w \in Viewers : chan'[w].toViewer = chan[w].toViewer
  BY <1>1 DEF ChanType, Channels, HostHears
<1>. QED  BY <1>2, QuietChannel DEF Quiet

\* The host says something else than Accepted.
LEMMA TellEffect ==
    ASSUME ChanType, NEW v \in Viewers, NEW m \in Control \ {"accepted"}, HostTells(v, m)
    PROVE  ChanType' /\ NoNewAccept
<1>1. Append(chan[v].toViewer, m) \in Seq(Control)
  BY DEF ChanType, Channels
<1>2. /\ ChanType' /\ chan'[v].toViewer = Append(chan[v].toViewer, m)
      /\ \A w \in Viewers : w # v => chan'[w] = chan[w]
  BY <1>1 DEF ChanType, Channels, HostTells
<1>. QED  BY <1>2, QuietChannel DEF Quiet

-----------------------------------------------------------------------------
(* A step of the host.                                                     *)

\* The inbox is read from the front or not at all; the viewers and their frames are not
\* the host's to change.
HostQueues ==
    /\ RoomType' /\ UpType' /\ ChanType'
    /\ ready' = ready /\ UNCHANGED viewer
    /\ \A v \in Viewers : up'[v] = up[v]
    /\ Inbox' = Inbox \/ (Inbox # <<>> /\ Inbox' = Tail(Inbox))

\* An attempt gets past Confirm with a right MAC only.
ConfirmMove ==
    hpc' \in Stages =>
        /\ hpake' = hpake /\ hused' = hused
        /\ hpc \in Stages \/ (hpc = "confirm" /\ GotMsg("confirm") /\ GoodMac(Head(Inbox).data))

\* The code goes forward, an attempt takes it as it is, and only Approve grants.
CodeMove ==
    \/ /\ granted' = granted /\ NoNewAccept /\ hcode <= hcode'
       /\ hpc' \in HostStage \cup {"confirm"} =>
             hused' = hcode \/ (hused' = hused /\ hpc \in HostStage \cup {"confirm"})
    \/ Approve

\* An attempt begins with viewer_joined, keeps its viewer, and answers a Start it read.
AttemptMove ==
    /\ hpc' \in Serving =>
          \/ hpc \in Serving /\ hjoin' = hjoin /\ (Inbox' = Inbox \/ Head(Inbox).t # "viewer_joined")
          \/ /\ Got("viewer_joined") /\ Inbox' = Tail(Inbox)
             /\ hjoin' = Head(Inbox).viewer
    /\ hpake' # None =>
          /\ hjoin' = hjoin
          /\ \/ hpake' = hpake
             \/ hpc = "start" /\ GotMsg("start") /\ hpake' = Head(Inbox).data.from

HostMove == HostType' /\ HostInv' /\ ConfirmMove /\ CodeMove /\ AttemptMove

\* The host's frames are well formed.
LEMMA HostFrames ==
    /\ \A f \in Frame, g \in Frame : <<f>> \in Seq(Frame) /\ <<f, g>> \in Seq(Frame)
OBVIOUS

\* What serve_next and attempt do to the queues, and where the host goes.
LEMMA PakeStep ==
    ASSUME TypeOK, HostInv, HostPake
    PROVE  HostQueues /\ HostMove
<1>. USE DEF Got, GotMsg
<1>0. RoomType /\ UpType /\ HostType /\ ViewerType /\ ChanType
  BY TypeParts
<1>n. None \notin Viewers /\ None \notin Nat
  BY ConnectionAssumption
<1>c. UNCHANGED chan => ChanType' /\ NoNewAccept
  BY <1>0 DEF ChanType, NoNewAccept, Accepting
<1>r. UNCHANGED room => RoomType' /\ ready' = ready /\ Inbox' = Inbox
  BY <1>0 DEF RoomType, room, Inbox
<1>z. 0 \in 0..(RotateAfter - 1)
  BY ConnectionAssumption
<1>1. CASE DiscardStale
  <2>1. HostReads /\ RoomRest /\ Inbox # <<>> /\ UNCHANGED <<up, host, viewer, chan>>
    BY <1>1 DEF DiscardStale
  <2>2. HostQueues
    BY <1>0, <1>c, <2>1, HostReadEffect DEF HostQueues, UpType
  <2>3. HostMove
    BY <1>0, <1>1, <1>c, <2>1, <1>n DEF HostMove, HostType, HostInv, ConfirmMove, CodeMove, AttemptMove,
       DiscardStale, host, Serving, Stages, HostStage
  <2>. QED  BY <2>2, <2>3
<1>2. CASE RefuseAttempt
  <2>1. /\ HostReads /\ RoomRest /\ Inbox # <<>> /\ UNCHANGED <<host, viewer, chan>>
        /\ HostSends(<<RelayFrame(RetryAfter), KickFrame(Head(Inbox).viewer)>>)
        /\ Head(Inbox).viewer \in Viewers
    BY <1>2, InboxHead DEF RefuseAttempt
  <2>2. <<RelayFrame(RetryAfter), KickFrame(Head(Inbox).viewer)>> \in Seq(Frame)
    BY <2>1, FrameTypes, HostFrames
  <2>3. HostQueues
    BY <1>0, <1>c, <2>1, <2>2, HostReadEffect, HostSendEffect DEF HostQueues
  <2>4. HostMove
    BY <1>0, <1>2, <1>c, <2>1, <1>n DEF HostMove, HostType, HostInv, ConfirmMove, CodeMove, AttemptMove,
       RefuseAttempt, host, Serving, Stages, HostStage
  <2>. QED  BY <2>3, <2>4
<1>3. CASE BeginAttempt
  <2>1. /\ HostReads /\ RoomRest /\ Inbox # <<>> /\ UNCHANGED <<up, viewer, chan>>
        /\ Head(Inbox).viewer \in Viewers
    BY <1>3, InboxHead DEF BeginAttempt
  <2>2. HostQueues /\ Inbox' = Tail(Inbox)
    BY <1>0, <1>c, <2>1, HostReadEffect DEF HostQueues, UpType
  <2>3. HostMove
    BY <1>0, <1>3, <1>c, <2>1, <2>2, <1>n DEF HostMove, HostType, HostInv, ConfirmMove, CodeMove, AttemptMove,
       BeginAttempt, Serving, Stages, HostStage, HostPcs
  <2>. QED  BY <2>2, <2>3
<1>4. CASE AnswerStart
  <2>. DEFINE v == Head(Inbox).data.from
  <2>1. /\ HostReads /\ RoomRest /\ Inbox # <<>> /\ UNCHANGED <<viewer, chan>>
        /\ v \in Viewers /\ HostSends(<<RelayFrame(Reply(v, hcode))>>)
    BY <1>4, InboxHead DEF AnswerStart
  <2>2. <<RelayFrame(Reply(v, hcode))>> \in Seq(Frame)
    BY <1>0, <2>1, FrameTypes, HostFrames DEF HostType, Codes
  <2>3. HostQueues
    <3>. HIDE DEF v
    <3>. QED  BY <1>0, <1>c, <2>1, <2>2, HostReadEffect, HostSendEffect DEF HostQueues
  <2>4. failures' \in 0..(RotateAfter - 1) /\ hcode' \in Nat /\ hcode <= hcode'
    BY <1>0, <1>4, ConnectionAssumption DEF AnswerStart, HostType
  <2>5. HostType'
    BY <1>0, <1>4, <2>1, <2>4 DEF AnswerStart, HostType, HostPcs, Codes
  <2>6. HostInv'
    BY <1>0, <1>4, <2>1 DEF AnswerStart, HostType, HostInv, Serving, Stages, HostStage
  <2>7. ConfirmMove
    BY <1>4 DEF AnswerStart, ConfirmMove, Stages, HostStage
  <2>8. CodeMove
    BY <1>4, <1>c, <2>1, <2>4 DEF AnswerStart, CodeMove
  <2>9. AttemptMove
    BY <1>4 DEF AnswerStart, AttemptMove, Serving
  <2>. QED  BY <2>3, <2>5, <2>6, <2>7, <2>8, <2>9 DEF HostMove
<1>5. CASE RejectRelay
  <2>1. /\ HostReads /\ RoomRest /\ Inbox # <<>> /\ UNCHANGED <<viewer, chan>>
        /\ hjoin \in Viewers /\ HostSends(RejectAndKick) /\ AttemptOver /\ UNCHANGED <<hcode, failures, waiting, granted>>
    BY <1>5 DEF RejectRelay, HostInv, Serving
  <2>2. RejectAndKick \in Seq(Frame)
    BY <2>1, FrameTypes, HostFrames DEF RejectAndKick
  <2>3. HostQueues
    BY <1>0, <1>c, <2>1, <2>2, HostReadEffect, HostSendEffect DEF HostQueues
  <2>4. HostMove
    BY <1>0, <1>c, <2>1, <1>n DEF HostMove, HostType, HostInv, ConfirmMove, CodeMove, AttemptMove,
       AttemptOver, Serving, Stages, HostStage, HostPcs, Codes
  <2>. QED  BY <2>3, <2>4
<1>6. CASE ViewerLeftAttempt
  <2>1. /\ HostReads /\ RoomRest /\ Inbox # <<>> /\ UNCHANGED <<up, viewer, chan>>
        /\ AttemptOver /\ UNCHANGED <<hcode, failures, waiting, granted>>
    BY <1>6 DEF ViewerLeftAttempt
  <2>3. HostQueues
    BY <1>0, <1>c, <2>1, HostReadEffect DEF HostQueues, UpType
  <2>4. HostMove
    BY <1>0, <1>c, <2>1, <1>n DEF HostMove, HostType, HostInv, ConfirmMove, CodeMove, AttemptMove,
       AttemptOver, Serving, Stages, HostStage, HostPcs, Codes
  <2>. QED  BY <2>3, <2>4
<1>7. CASE PakeTimeout
  <2>1. /\ UNCHANGED <<room, viewer, chan>>
        /\ hjoin \in Viewers /\ HostSends(Kick) /\ AttemptOver /\ UNCHANGED <<hcode, failures, waiting, granted>>
    BY <1>7 DEF PakeTimeout, HostInv, Serving
  <2>2. Kick \in Seq(Frame)
    BY <2>1, FrameTypes, HostFrames DEF Kick
  <2>3. HostQueues
    BY <1>0, <1>c, <1>r, <2>1, <2>2, HostSendEffect DEF HostQueues
  <2>4. HostMove
    BY <1>0, <1>c, <2>1, <1>n DEF HostMove, HostType, HostInv, ConfirmMove, CodeMove, AttemptMove,
       AttemptOver, Serving, Stages, HostStage, HostPcs, Codes
  <2>. QED  BY <2>3, <2>4
<1>8. CASE TakeConfirm(TRUE)
  <2>1. /\ HostReads /\ RoomRest /\ Inbox # <<>> /\ UNCHANGED <<viewer, hjoin, hpake, hused, hcode, granted>>
        /\ hpake \in Viewers /\ hjoin \in Viewers /\ hused \in Nat /\ HostSends(<<RelayFrame(Answer(hpake))>>)
        /\ chan' = [chan EXCEPT ![hpake].host = "trying"]
        /\ hpc' = "connect" /\ failures' = 0 /\ waiting' = FALSE
    BY <1>8 DEF TakeConfirm, HostInv, Serving
  <2>2. <<RelayFrame(Answer(hpake))>> \in Seq(Frame)
    BY <2>1, FrameTypes, HostFrames
  <2>3. ChanType' /\ \A w \in Viewers : chan'[w].toViewer = chan[w].toViewer
    BY <1>0, <2>1 DEF ChanType, Channels, Side
  <2>4. NoNewAccept
    BY <2>3 DEF NoNewAccept, Accepting
  <2>5. HostQueues
    BY <1>0, <2>1, <2>2, <2>3, HostReadEffect, HostSendEffect DEF HostQueues
  <2>6. HostType'
    BY <1>0, <1>z, <2>1 DEF HostType, HostPcs, HostStage
  <2>7. HostInv'
    BY <2>1 DEF HostInv, Serving, Stages, HostStage
  <2>8. ConfirmMove /\ CodeMove /\ AttemptMove
    BY <1>0, <1>8, <2>1, <2>4 DEF TakeConfirm, ConfirmMove, CodeMove, AttemptMove, HostType, Serving, Stages, HostStage
  <2>. QED  BY <2>5, <2>6, <2>7, <2>8 DEF HostMove
<1>9. CASE TakeConfirm(FALSE)
  <2>1. /\ HostReads /\ RoomRest /\ Inbox # <<>> /\ UNCHANGED <<viewer, hcode, granted, chan>>
        /\ hjoin \in Viewers /\ (HostSends(RejectAndKick) \/ HostSends(Kick))
        /\ AttemptOver /\ failures' = 0 /\ waiting' = FALSE
    BY <1>9 DEF TakeConfirm, HostInv, Serving
  <2>2. RejectAndKick \in Seq(Frame) /\ Kick \in Seq(Frame)
    BY <2>1, FrameTypes, HostFrames DEF RejectAndKick, Kick
  <2>3. HostQueues
    BY <1>0, <1>c, <2>1, <2>2, HostReadEffect, HostSendEffect DEF HostQueues
  <2>4. HostType' /\ HostInv'
    BY <1>0, <1>z, <2>1 DEF HostType, HostInv, AttemptOver, Serving, Stages, HostStage, HostPcs, Codes
  <2>5. ConfirmMove /\ CodeMove /\ AttemptMove
    BY <1>0, <1>c, <2>1 DEF HostType, ConfirmMove, CodeMove, AttemptMove, AttemptOver, Serving, Stages, HostStage
  <2>. QED  BY <2>3, <2>4, <2>5 DEF HostMove
<1>. QED  BY <1>1, <1>2, <1>3, <1>4, <1>5, <1>6, <1>7, <1>8, <1>9 DEF HostPake

\* The same of handshake, wait_approval, the session, the host's death and the end of a wait.
LEMMA HandshakeStep ==
    ASSUME TypeOK, HostInv, HostHandshake \/ HostDies \/ WaitOver
    PROVE  HostQueues /\ HostMove
<1>0. RoomType /\ UpType /\ HostType /\ ViewerType /\ ChanType
  BY TypeParts
<1>n. None \notin Viewers /\ None \notin Nat
  BY ConnectionAssumption
<1>c. UNCHANGED chan => ChanType' /\ NoNewAccept
  BY <1>0 DEF ChanType, NoNewAccept, Accepting
<1>r. UNCHANGED room => RoomType' /\ ready' = ready /\ Inbox' = Inbox
  BY <1>0 DEF RoomType, room, Inbox
<1>u. UNCHANGED up => UpType'
  BY <1>0 DEF UpType
<1>s. hpc \in Stages => hpake \in Viewers /\ hused \in Nat /\ hjoin \in Viewers
  BY DEF HostInv, Serving
<1>w. ASSUME UNCHANGED <<room, up, hjoin, hpake, hused, hcode, granted, viewer, failures, waiting>>,
             hpc \in Stages, hpc' \in HostStage, ChanType', NoNewAccept, hpc # "session"
      PROVE  HostQueues /\ HostMove
  <2>1. HostQueues
    BY <1>r, <1>u, <1>w DEF HostQueues
  <2>2. HostType' /\ HostInv'
    BY <1>0, <1>s, <1>w DEF HostType, HostInv, HostPcs, Serving, Stages, HostStage
  <2>3. ConfirmMove
    BY <1>w DEF ConfirmMove
  <2>4. CodeMove
    BY <1>0, <1>w DEF CodeMove, HostType, Stages
  <2>5. AttemptMove
    BY <1>w, <1>r DEF AttemptMove, Serving
  <2>. QED  BY <2>1, <2>2, <2>3, <2>4, <2>5 DEF HostMove
<1>1. CASE HostOpens
  <2>1. Append(chan[hpake].toViewer, "hello") \in Seq(Control) /\ "open" \in Side
    BY <1>0, <1>1, <1>s DEF HostOpens, Stages, HostStage, ChanType, Channels, Control, Side
  <2>2. /\ ChanType' /\ chan'[hpake].toViewer = Append(chan[hpake].toViewer, "hello")
        /\ \A w \in Viewers : w # hpake => chan'[w] = chan[w]
    BY <1>0, <1>1, <1>s, <2>1 DEF HostOpens, Stages, HostStage, ChanType, Channels
  <2>3. NoNewAccept
    BY <1>0, <1>1, <1>s, <2>2, QuietChannel DEF Quiet, Control, HostOpens, Stages, HostStage
  <2>. QED  BY <1>1, <1>w, <2>2, <2>3 DEF HostOpens, Stages, HostStage
<1>2. CASE HostTakesHello
  BY <1>0, <1>2, <1>s, <1>w, HearEffect DEF HostTakesHello, Stages, HostStage
<1>3. CASE HostRefusesHello
  <2>1. hpake \in Viewers
    BY <1>3, <1>s DEF HostRefusesHello, Stages, HostStage
  <2>2. Append(chan[hpake].toViewer, "rejected") \in Seq(Control) /\ Tail(chan[hpake].toHost) \in Seq(Control)
    BY <1>0, <1>3, <2>1 DEF HostRefusesHello, ChanType, Channels, Control, FromViewer
  <2>3. /\ HostHears \in [Viewers -> Channels] /\ HostHears[hpake].toViewer = chan[hpake].toViewer
        /\ \A w \in Viewers : w # hpake => HostHears[w] = chan[w]
    BY <1>0, <2>1, <2>2 DEF HostHears, ChanType, Channels
  <2>4. chan' = [HostHears EXCEPT ![hpake].toViewer = Append(@, "rejected")]
    BY <1>3 DEF HostRefusesHello
  <2>5. /\ ChanType' /\ chan'[hpake].toViewer = Append(chan[hpake].toViewer, "rejected")
        /\ \A w \in Viewers : w # hpake => chan'[w] = chan[w]
    BY <2>1, <2>2, <2>3, <2>4 DEF ChanType, Channels
  <2>6. NoNewAccept
    BY <1>0, <2>1, <2>5, QuietChannel DEF Quiet, Control
  <2>. QED  BY <1>3, <1>w, <2>5, <2>6 DEF HostRefusesHello, Stages, HostStage
<1>4. CASE Approve
  <2>1. hpake \in Viewers /\ hused \in Nat /\ hjoin \in Viewers
    BY <1>4, <1>s DEF Approve, Stages, HostStage
  <2>2. Append(chan[hpake].toViewer, "accepted") \in Seq(Control)
    BY <1>0, <2>1 DEF ChanType, Channels, Control
  <2>3. ChanType'
    BY <1>0, <1>4, <2>1, <2>2 DEF Approve, HostTells, ChanType, Channels
  <2>4. HostQueues
    BY <1>4, <1>r, <1>u, <2>3 DEF HostQueues, Approve
  <2>5. \A g \in granted' : g.viewer \in Viewers /\ g.code \in Nat
    BY <1>0, <1>4, <2>1 DEF Approve, HostType
  <2>6. HostType' /\ HostInv'
    BY <1>0, <1>4, <2>1, <2>5 DEF Approve, HostType, HostInv, HostPcs, Serving, Stages, HostStage
  <2>7. ConfirmMove /\ CodeMove /\ AttemptMove
    BY <1>4, <1>r DEF Approve, ConfirmMove, CodeMove, AttemptMove, Serving, Stages, HostStage
  <2>. QED  BY <2>4, <2>6, <2>7 DEF HostMove
<1>5. CASE Deny
  <2>1. ChanType' /\ NoNewAccept
    BY <1>0, <1>5, <1>s, TellEffect DEF Deny, Control, Stages, HostStage
  <2>. QED  BY <1>5, <1>w, <2>1 DEF Deny, Stages, HostStage
<1>6. CASE LingerHears
  BY <1>0, <1>6, <1>s, <1>w, HearEffect DEF LingerHears, Stages, HostStage, host
<1>7. CASE HandshakeFails
  <2>1. /\ UNCHANGED <<room, viewer>> /\ hpake \in Viewers
        /\ hjoin \in Viewers /\ HostSends(Kick) /\ AttemptOver /\ UNCHANGED <<hcode, failures, waiting, granted>>
    BY <1>7, <1>s DEF HandshakeFails, Stages
  <2>2. Kick \in Seq(Frame)
    BY <2>1, FrameTypes, HostFrames DEF Kick
  <2>3. ChanType' /\ NoNewAccept
    BY <1>0, <1>7, <2>1, DropEffect DEF HandshakeFails
  <2>4. HostQueues
    BY <1>r, <2>1, <2>2, <2>3, HostSendEffect DEF HostQueues
  <2>5. HostMove
    BY <1>0, <2>1, <2>3, <1>n DEF HostMove, HostType, HostInv, ConfirmMove, CodeMove, AttemptMove,
       AttemptOver, Serving, Stages, HostStage, HostPcs, Codes
  <2>. QED  BY <2>4, <2>5
<1>8. CASE SessionEnds
  <2>1. /\ UNCHANGED <<room, up, viewer>> /\ hpake \in Viewers
        /\ AttemptOver /\ UNCHANGED <<hcode, failures, waiting, granted>>
    BY <1>8, <1>s DEF SessionEnds, Stages
  <2>3. ChanType' /\ NoNewAccept
    BY <1>0, <1>8, <2>1, DropEffect DEF SessionEnds
  <2>4. HostQueues
    BY <1>r, <1>u, <2>1, <2>3 DEF HostQueues
  <2>5. HostMove
    BY <1>0, <2>1, <2>3, <1>n DEF HostMove, HostType, HostInv, ConfirmMove, CodeMove, AttemptMove,
       AttemptOver, Serving, Stages, HostStage, HostPcs, Codes
  <2>. QED  BY <2>4, <2>5
<1>9. CASE HostDies
  <2>1. /\ UNCHANGED <<room, viewer, hjoin, hpake, hused, hcode, failures, waiting, granted>>
        /\ HostSends(<<CloseOf>>) /\ hpc' = "dead"
        /\ (hpake \in Viewers /\ HostDrops(hpake)) \/ UNCHANGED chan
    BY <1>0, <1>9 DEF HostDies, HostType
  <2>2. <<CloseOf>> \in Seq(Frame)
    BY FrameTypes, HostFrames
  <2>3. ChanType' /\ NoNewAccept
    BY <1>0, <1>c, <2>1, DropEffect
  <2>4. HostQueues
    BY <1>r, <2>1, <2>2, <2>3, HostSendEffect DEF HostQueues
  <2>5. HostMove
    BY <1>0, <2>1, <2>3, <1>n DEF HostMove, HostType, HostInv, ConfirmMove, CodeMove, AttemptMove,
       Serving, Stages, HostStage, HostPcs
  <2>. QED  BY <2>4, <2>5
<1>10. CASE WaitOver
  <2>1. /\ UNCHANGED <<room, up, viewer, hpc, hjoin, hpake, hused, hcode, failures, granted, chan>>
        /\ waiting' = FALSE
    BY <1>10 DEF WaitOver
  <2>4. HostQueues
    BY <1>r, <1>c, <1>u, <2>1 DEF HostQueues
  <2>5. HostType' /\ HostInv'
    BY <1>0, <2>1 DEF HostType, HostInv
  <2>6. ConfirmMove /\ AttemptMove
    BY <1>r, <2>1 DEF ConfirmMove, AttemptMove
  <2>7. CodeMove
    BY <1>0, <1>c, <2>1 DEF HostType, CodeMove
  <2>. QED  BY <2>4, <2>5, <2>6, <2>7 DEF HostMove
<1>. QED  BY <1>1, <1>2, <1>3, <1>4, <1>5, <1>6, <1>7, <1>8, <1>9, <1>10 DEF HostHandshake

-----------------------------------------------------------------------------
(* A step of a viewer.                                                     *)

\* The viewer sends its own messages, keeps the code its user typed once it is in, is
\* told nothing new, and the host hears of it by viewer_joined at most.
ViewerEffect(v) ==
    /\ RoomType' /\ UpType' /\ ViewerType' /\ ChanType' /\ UNCHANGED host
    /\ \A w \in Viewers : w # v => up'[w] = up[w]
    /\ \/ up'[v] = up[v]
       \/ \E fr \in Frame : up'[v] = Append(up[v], fr) /\ (fr.f = "relay" => OwnNext(v, fr.data))
    /\ \A w \in Viewers : vpc[w] # "out" => vpc'[w] # "out" /\ vcode'[w] = vcode[w]
    /\ \A w \in Viewers : Told(w)' => Told(w)
    /\ \/ Inbox' = Inbox /\ ready' = ready
       \/ /\ Inbox' = Append(Inbox, Room!ViewerJoined(v))
          /\ \A w \in Viewers : ready'[w] = "open" => w = v

\* The viewer's place in connect changes, the code its user typed does not.
LEMMA AtEffect ==
    ASSUME ViewerType, NEW v \in Viewers, NEW stage \in ViewerPcs \ {"out"}, At(v, stage), UNCHANGED vcode,
           NoNewAccept, stage \notin {"session", "done"} \/ Told(v)
    PROVE  /\ ViewerType' /\ vpc'[v] = stage
           /\ \A w \in Viewers : vpc[w] # "out" => vpc'[w] # "out" /\ vcode'[w] = vcode[w]
           /\ \A w \in Viewers : Told(w)' => Told(w)
<1>1. vpc'[v] = stage /\ \A w \in Viewers : w # v => vpc'[w] = vpc[w]
  BY DEF ViewerType, At
<1>2. ASSUME NEW w \in Viewers, Told(w)' PROVE Told(w)
  <2>1. Accepting(w)' => Told(w)
    BY DEF NoNewAccept, Accepting, Told
  <2>2. Told(w)' => Accepting(w)' \/ vpc'[w] \in {"session", "done"}
    BY DEF Told, Accepting
  <2>3. CASE w = v
    BY <1>1, <1>2, <2>1, <2>2, <2>3
  <2>4. CASE w # v
    BY <1>1, <1>2, <2>1, <2>2, <2>4 DEF Told
  <2>. QED  BY <2>3, <2>4
<1>3. ViewerType'
  BY DEF ViewerType, At
<1>. QED  BY <1>1, <1>2, <1>3

\* Reading its mail, a viewer leaves the host's inbox alone.
LEMMA ViewerReadEffect ==
    ASSUME TypeOK, NEW v \in Viewers, Mail(v) # <<>>, ViewerReads(v), RoomRest
    PROVE  RoomType' /\ Inbox' = Inbox /\ ready' = ready
<1>1. v \in Sockets /\ Host \in Sockets /\ Host # v
  BY SocketSet
<1>2. out' \in [Sockets -> Seq(Room!Message)] /\ out'[Host] = out[Host]
  BY <1>1, ReadEffect DEF ViewerReads, Mail
<1>. QED  BY <1>2, TypeParts DEF RoomType, RoomRest, Inbox

\* connect returns an error or the process ends.
LEMMA LeaveStep ==
    ASSUME TypeOK, NEW v \in Viewers, NEW how \in {"wrong_code", "failed"}, Leave(v, how)
    PROVE  ViewerEffect(v)
<1>0. RoomType /\ UpType /\ ViewerType /\ ChanType
  BY TypeParts
<1>1. ChanType' /\ NoNewAccept
  <2>1. CASE UNCHANGED chan
    BY <1>0, <2>1 DEF ChanType, NoNewAccept, Accepting
  <2>2. CASE ViewerDrops(v)
    BY <1>0, <2>2, DropEffect
  <2>. QED  BY <2>1, <2>2 DEF Leave
<1>2. UpType' /\ up'[v] = Append(up[v], CloseOf) /\ \A w \in Viewers : w # v => up'[w] = up[w]
  BY FrameTypes, ViewerSendEffect DEF Leave
<1>3. CloseOf \in Frame /\ CloseOf.f # "relay"
  BY FrameTypes DEF CloseOf
<1>4. /\ ViewerType'
      /\ \A w \in Viewers : vpc[w] # "out" => vpc'[w] # "out" /\ vcode'[w] = vcode[w]
      /\ \A w \in Viewers : Told(w)' => Told(w)
  <2>1. how \in ViewerPcs \ {"out"} /\ how \notin {"session", "done"}
    BY DEF ViewerPcs
  <2>2. At(v, how) /\ UNCHANGED vcode
    BY DEF Leave
  <2>. QED  BY <1>0, <1>1, <2>1, <2>2, AtEffect
<1>5. RoomType' /\ Inbox' = Inbox /\ ready' = ready /\ UNCHANGED host
  BY <1>0 DEF Leave, room, RoomType, Inbox
<1>. QED  BY <1>1, <1>2, <1>3, <1>4, <1>5 DEF ViewerEffect

\* Join: the one step that brings somebody new into the room (acceptViewer).
LEMMA JoinStep ==
    ASSUME TypeOK, NEW v \in Viewers, NEW c \in {hcode, None}, Join(v, c)
    PROVE  ViewerEffect(v)
<1>0. RoomType /\ UpType /\ HostType /\ ViewerType /\ ChanType
  BY TypeParts
<1>s. v \in Sockets /\ Host \in Sockets /\ Host # v /\ Viewers \subseteq Sockets
  BY SocketSet
<1>1. Room!AuthedHost = Host /\ Room!OpenViewer = None
  BY HostOne DEF Join, Room!AcceptViewer, Room!ViewerResponse
<1>2. /\ ready' = [ready EXCEPT ![v] = "open"]
      /\ out' = [out EXCEPT ![v] = Append(@, Room!Joined), ![Host] = Append(@, Room!ViewerJoined(v))]
      /\ UNCHANGED <<authed, closedByServer>>
  BY <1>1 DEF Join, Room!AcceptViewer
<1>3. \A w \in Viewers : ready'[w] = "open" => w = v
  BY <1>0, <1>1, <1>2, <1>s, NobodyOpen DEF RoomType
<1>4. Append(out[v], Room!Joined) \in Seq(Room!Message) /\ Append(out[Host], Room!ViewerJoined(v)) \in Seq(Room!Message)
  BY <1>0, <1>s, MessageTypes DEF RoomType
<1>5. out' \in [Sockets -> Seq(Room!Message)] /\ out'[Host] = Append(out[Host], Room!ViewerJoined(v))
  BY <1>0, <1>2, <1>4, <1>s DEF RoomType
<1>6. RoomType'
  BY <1>0, <1>2, <1>5, <1>s DEF RoomType, Room!States
<1>7. /\ vpc' = [vpc EXCEPT ![v] = "joining"] /\ vcode' = [vcode EXCEPT ![v] = c] /\ vpc[v] = "out"
      /\ UNCHANGED <<up, host, chan>>
  BY DEF Join, At
<1>8. c \in Codes
  BY <1>0 DEF HostType, Codes
<1>9. /\ ViewerType'
      /\ \A w \in Viewers : vpc[w] # "out" => vpc'[w] # "out" /\ vcode'[w] = vcode[w]
  BY <1>0, <1>7, <1>8 DEF ViewerType, ViewerPcs
<1>10. \A w \in Viewers : Told(w)' => Told(w)
  BY <1>0, <1>7 DEF ViewerType, Told
<1>11. ChanType' /\ UpType'
  BY <1>0, <1>7 DEF ChanType, UpType
<1>. QED  BY <1>3, <1>5, <1>6, <1>7, <1>9, <1>10, <1>11 DEF ViewerEffect, Inbox

\* Every other step of a viewer.
LEMMA ViewerStepEffect ==
    ASSUME TypeOK, NEW v \in Viewers, JoinRefused(v) \/ ViewerStep(v) \/ ViewerEndsSession(v)
    PROVE  ViewerEffect(v)
<1>0. RoomType /\ UpType /\ HostType /\ ViewerType /\ ChanType
  BY TypeParts
<1>c. UNCHANGED chan => ChanType' /\ NoNewAccept
  BY <1>0 DEF ChanType, NoNewAccept, Accepting
<1>r. UNCHANGED room => RoomType' /\ ready' = ready /\ Inbox' = Inbox
  BY <1>0 DEF RoomType, room, Inbox
<1>u. UNCHANGED up => UpType'
  BY <1>0 DEF UpType
<1>f. CloseOf \in Frame /\ CloseOf.f # "relay" /\ OtherFrame \in Frame /\ OtherFrame.f # "relay"
  BY FrameTypes DEF CloseOf, OtherFrame
\* the place changes, and a frame of the viewer's own may go out
<1>q. ASSUME NEW stage \in ViewerPcs \ {"out"}, At(v, stage), UNCHANGED <<host, vcode>>,
             RoomType', Inbox' = Inbox, ready' = ready, ChanType', NoNewAccept,
             stage \notin {"session", "done"} \/ Told(v),
             \/ UNCHANGED up
             \/ \E fr \in Frame : ViewerSends(v, fr) /\ (fr.f = "relay" => OwnNext(v, fr.data))
      PROVE  ViewerEffect(v)
  <2>1. /\ ViewerType'
        /\ \A w \in Viewers : vpc[w] # "out" => vpc'[w] # "out" /\ vcode'[w] = vcode[w]
        /\ \A w \in Viewers : Told(w)' => Told(w)
    BY <1>0, <1>q, AtEffect
  <2>2. CASE UNCHANGED up
    BY <1>q, <1>u, <2>1, <2>2 DEF ViewerEffect
  <2>3. ASSUME NEW fr \in Frame, ViewerSends(v, fr), fr.f = "relay" => OwnNext(v, fr.data)
        PROVE  ViewerEffect(v)
    <3>1. UpType' /\ up'[v] = Append(up[v], fr) /\ \A w \in Viewers : w # v => up'[w] = up[w]
      BY <2>3, ViewerSendEffect
    <3>. QED  BY <1>q, <2>1, <2>3, <3>1 DEF ViewerEffect
  <2>. QED  BY <1>q, <2>2, <2>3
<1>p. {"joining", "reply", "answer", "connect", "hello", "decision", "session", "done", "failed"}
         \subseteq ViewerPcs \ {"out"}
  BY DEF ViewerPcs
<1>1. CASE JoinRefused(v)
  <2>1. UNCHANGED <<room, up, host, vcode, chan>> /\ At(v, "failed")
    BY <1>1 DEF JoinRefused
  <2>. QED  BY <1>c, <1>p, <1>q, <1>r, <2>1
<1>2. CASE SendStart(v)
  <2>1. /\ Mail(v) # <<>> /\ ViewerReads(v) /\ RoomRest /\ At(v, "reply") /\ UNCHANGED <<host, vcode, chan>>
        /\ \E frame \in {RelayFrame(Start(v)), RelayFrame(Garbage), OtherFrame} : ViewerSends(v, frame)
    BY <1>2 DEF SendStart, HasMail
  <2>2. RoomType' /\ Inbox' = Inbox /\ ready' = ready
    BY <2>1, ViewerReadEffect
  <2>3. vpc'[v] # "out"
    BY <1>0, <2>1 DEF At, ViewerType
  <2>4. ASSUME NEW fr \in {RelayFrame(Start(v)), RelayFrame(Garbage), OtherFrame}
        PROVE  fr \in Frame /\ (fr.f = "relay" => OwnNext(v, fr.data))
    <3>1. OwnNext(v, Start(v)) /\ OwnNext(v, Garbage)
      BY <2>3 DEF OwnNext, Start, Garbage
    <3>2. RelayFrame(Start(v)).data = Start(v) /\ RelayFrame(Garbage).data = Garbage
      BY DEF RelayFrame
    <3>. QED  BY <1>f, <3>1, <3>2, FrameTypes
  <2>. QED  BY <1>c, <1>p, <1>q, <2>1, <2>2, <2>4
<1>3. CASE TakeReply(v)
  <2>1. /\ Mail(v) # <<>> /\ ViewerReads(v) /\ RoomRest /\ At(v, "answer") /\ UNCHANGED <<host, vcode, chan>>
        /\ \E sealed \in BOOLEAN : ViewerSends(v, RelayFrame(Confirm(v, vcode[v], sealed)))
    BY <1>3 DEF TakeReply, HasMsg, HasMail
  <2>2. RoomType' /\ Inbox' = Inbox /\ ready' = ready
    BY <2>1, ViewerReadEffect
  <2>3. vpc'[v] # "out" /\ vcode'[v] = vcode[v]
    BY <1>0, <2>1 DEF At, ViewerType
  <2>4. ASSUME NEW b \in BOOLEAN
        PROVE  LET fr == RelayFrame(Confirm(v, vcode[v], b)) IN fr \in Frame /\ OwnNext(v, fr.data)
    BY <1>0, <2>3, FrameTypes DEF OwnNext, RelayFrame, Confirm, ViewerType
  <2>. QED  BY <1>c, <1>p, <1>q, <2>1, <2>2, <2>4
<1>4. CASE WrongCode(v)
  BY <1>4, LeaveStep DEF WrongCode
<1>5. CASE RogueConfirm(v)
  <2>. DEFINE fr == RelayFrame(Confirm(v, None, TRUE))
  <2>1. UNCHANGED <<room, host, vcode, chan>> /\ At(v, "answer") /\ ViewerSends(v, fr)
    BY <1>5 DEF RogueConfirm
  <2>2. vpc'[v] # "out"
    BY <1>0, <2>1 DEF At, ViewerType
  <2>3. fr \in Frame /\ OwnNext(v, fr.data)
    BY <2>2, FrameTypes DEF OwnNext, RelayFrame, Confirm, Codes
  <2>. HIDE DEF fr
  <2>. QED  BY <1>c, <1>p, <1>q, <1>r, <2>1, <2>3
<1>6. CASE TakeAnswer(v)
  <2>1. /\ Mail(v) # <<>> /\ ViewerReads(v) /\ RoomRest /\ At(v, "connect") /\ UNCHANGED <<up, host, vcode>>
        /\ chan' = [chan EXCEPT ![v].viewer = "trying"]
    BY <1>6 DEF TakeAnswer, HasMsg, HasMail
  <2>2. RoomType' /\ Inbox' = Inbox /\ ready' = ready
    BY <2>1, ViewerReadEffect
  <2>3. ChanType' /\ \A w \in Viewers : chan'[w].toViewer = chan[w].toViewer
    BY <1>0, <2>1 DEF ChanType, Channels, Side
  <2>4. NoNewAccept
    BY <2>3 DEF NoNewAccept, Accepting
  <2>. QED  BY <1>p, <1>q, <2>1, <2>2, <2>3, <2>4
<1>7. CASE ViewerOpens(v)
  <2>1. PICK said \in {<<"hello">>} \cup Overtalk :
          chan' = [chan EXCEPT ![v].viewer = "open", ![v].toHost = @ \o said]
    BY <1>7 DEF ViewerOpens
  <2>2. said \in Seq(Control)
    <3>1. \A x, y \in Control : <<x>> \in Seq(Control) /\ <<x, y>> \in Seq(Control)
      OBVIOUS
    <3>2. "hello" \in Control /\ "bad_hello" \in Control
      BY DEF Control
    <3>. QED  BY <3>1, <3>2 DEF Overtalk
  <2>3. chan[v].toHost \o said \in Seq(Control) /\ "open" \in Side
    BY <1>0, <2>2 DEF ChanType, Channels, Side
  <2>4. ChanType' /\ \A w \in Viewers : chan'[w].toViewer = chan[w].toViewer
    BY <1>0, <2>1, <2>3 DEF ChanType, Channels
  <2>5. NoNewAccept
    BY <2>4 DEF NoNewAccept, Accepting
  <2>6. UNCHANGED <<room, up, host, vcode>> /\ At(v, "hello")
    BY <1>7 DEF ViewerOpens
  <2>. QED  BY <1>p, <1>q, <1>r, <2>4, <2>5, <2>6
<1>8. ASSUME NEW m, Hears(v, m), chan' = Heard(v)
      PROVE  ChanType' /\ NoNewAccept
  <2>1. chan[v].toViewer # <<>> /\ Tail(chan[v].toViewer) \in Seq(Control)
    BY <1>0, <1>8 DEF ChanType, Channels, Hears
  <2>2. /\ ChanType' /\ chan'[v].toViewer = Tail(chan[v].toViewer)
        /\ \A w \in Viewers : w # v => chan'[w] = chan[w]
    BY <1>0, <1>8, <2>1 DEF ChanType, Channels, Heard
  <2>. QED  BY <1>0, <2>1, <2>2, QuietChannel DEF Quiet
<1>9. CASE ViewerTakesHello(v)
  <2>1. UNCHANGED <<room, up, host, vcode>> /\ At(v, "decision") /\ ChanType' /\ NoNewAccept
    BY <1>8, <1>9 DEF ViewerTakesHello
  <2>. QED  BY <1>p, <1>q, <1>r, <2>1
<1>10. CASE Accepted(v)
  <2>1. /\ UNCHANGED <<room, host, vcode>> /\ At(v, "session") /\ ChanType' /\ NoNewAccept
        /\ ViewerSends(v, CloseOf)
    BY <1>8, <1>10 DEF Accepted
  <2>2. Told(v)
    <3>1. chan[v].toViewer \in Seq(Control) /\ chan[v].toViewer # <<>> /\ Head(chan[v].toViewer) = "accepted"
      BY <1>0, <1>10 DEF Accepted, Hears, ChanType, Channels
    <3>2. 1 \in DOMAIN chan[v].toViewer /\ chan[v].toViewer[1] = "accepted"
      BY <3>1
    <3>. QED  BY <3>2 DEF Told
  <2>. QED  BY <1>f, <1>p, <1>q, <1>r, <2>1, <2>2
<1>11. CASE ViewerFails(v)
  BY <1>11, LeaveStep DEF ViewerFails
<1>12. CASE ViewerEndsSession(v)
  <2>1. UNCHANGED <<room, up, host, vcode>> /\ At(v, "done") /\ ViewerDrops(v) /\ Told(v)
    BY <1>12 DEF ViewerEndsSession, Told
  <2>. QED  BY <1>0, <1>p, <1>q, <1>r, <2>1, DropEffect
<1>. QED
  BY <1>1, <1>2, <1>3, <1>4, <1>5, <1>6, <1>7, <1>9, <1>10, <1>11, <1>12 DEF ViewerStep

-----------------------------------------------------------------------------
(* The parts of the invariant, each from what a step can do.               *)

\* A viewer that is in stays in, with the code its user typed.
Keeps == \A w \in Viewers : vpc[w] # "out" => vpc'[w] # "out" /\ vcode'[w] = vcode[w]

\* On a viewer's link, frames are taken from the front and added at the end.
UpMove ==
    \A v \in Viewers :
        \/ up'[v] = up[v]
        \/ up[v] # <<>> /\ up'[v] = Tail(up[v])
        \/ \E fr \in Frame : up'[v] = Append(up[v], fr) /\ (fr.f = "relay" => OwnNext(v, fr.data))

\* So in the host's inbox, where a relay brings what the viewer itself sent.
InboxMove ==
    \/ Inbox' = Inbox
    \/ Inbox # <<>> /\ Inbox' = Tail(Inbox)
    \/ \E m \in Room!Message :
          /\ Inbox' = Append(Inbox, m)
          /\ m.t = "relay" => m.from \in Viewers /\ Own(m.from, m.data)

\* The entries of a queue whose first one is taken.
LEMMA TailAt ==
    ASSUME NEW S, NEW s \in Seq(S), s # <<>>
    PROVE  /\ Tail(s) \in Seq(S) /\ Len(Tail(s)) = Len(s) - 1
           /\ \A i \in DOMAIN Tail(s) : i + 1 \in DOMAIN s /\ Tail(s)[i] = s[i + 1]
OBVIOUS

\* The entries of a queue that grew by one.
LEMMA AppendAt ==
    ASSUME NEW S, NEW s \in Seq(S), NEW m \in S
    PROVE  /\ Append(s, m) \in Seq(S) /\ Len(Append(s, m)) = Len(s) + 1
           /\ \A i \in DOMAIN s : i \in DOMAIN Append(s, m) /\ Append(s, m)[i] = s[i]
           /\ Append(s, m)[Len(s) + 1] = m
           /\ \A i \in DOMAIN Append(s, m) : i \in DOMAIN s \/ i = Len(s) + 1
OBVIOUS

\* What a viewer could have sent before a step it can have sent after it.
LEMMA OwnKept ==
    ASSUME Keeps, NEW v \in Viewers, NEW d, Own(v, d)
    PROVE  OwnNext(v, d)
BY DEF Keeps, Own, OwnNext

\* WireInv holds after a step that moves frames and messages as the queues allow.
LEMMA WireStep ==
    ASSUME TypeOK, HostInv, WireInv, Keeps, UpMove, InboxMove, ConfirmMove
    PROVE  WireInv'
<1>1. ASSUME NEW v \in Viewers, NEW i \in DOMAIN up'[v], up'[v][i].f = "relay"
      PROVE  OwnNext(v, up'[v][i].data)
  <2>0. up[v] \in Seq(Frame)
    BY SocketSet DEF TypeOK
  <2>1. CASE up'[v] = up[v]
    BY <1>1, <2>1, OwnKept DEF WireInv
  <2>2. CASE up[v] # <<>> /\ up'[v] = Tail(up[v])
    <3>1. i + 1 \in DOMAIN up[v] /\ up'[v][i] = up[v][i + 1]
      BY <1>1, <2>0, <2>2, TailAt
    <3>2. Own(v, up[v][i + 1].data)
      BY <1>1, <3>1 DEF WireInv
    <3>. QED  BY <3>1, <3>2, OwnKept
  <2>3. ASSUME NEW fr \in Frame, up'[v] = Append(up[v], fr), fr.f = "relay" => OwnNext(v, fr.data)
        PROVE  OwnNext(v, up'[v][i].data)
    <3>1. CASE i \in DOMAIN up[v]
      <4>1. up'[v][i] = up[v][i]
        BY <2>0, <2>3, <3>1, AppendAt
      <4>2. Own(v, up[v][i].data)
        BY <1>1, <3>1, <4>1 DEF WireInv
      <4>. QED  BY <4>1, <4>2, OwnKept
    <3>2. CASE i \notin DOMAIN up[v]
      <4>1. up'[v][i] = fr
        BY <1>1, <2>0, <2>3, <3>2, AppendAt
      <4>. QED  BY <1>1, <2>3, <4>1
    <3>. QED  BY <3>1, <3>2
  <2>. QED  BY <2>1, <2>2, <2>3 DEF UpMove
<1>2. ASSUME NEW i \in DOMAIN Inbox', Inbox'[i].t = "relay"
      PROVE  Inbox'[i].from \in Viewers /\ OwnNext(Inbox'[i].from, Inbox'[i].data)
  <2>0. Inbox \in Seq(Room!Message)
    BY SocketSet DEF TypeOK, Inbox
  <2>1. Inbox'[i].from \in Viewers /\ Own(Inbox'[i].from, Inbox'[i].data)
    <3>1. CASE Inbox' = Inbox
      BY <1>2, <3>1 DEF WireInv
    <3>2. CASE Inbox # <<>> /\ Inbox' = Tail(Inbox)
      <4>1. i + 1 \in DOMAIN Inbox /\ Inbox'[i] = Inbox[i + 1]
        BY <1>2, <2>0, <3>2, TailAt
      <4>. QED  BY <1>2, <4>1 DEF WireInv
    <3>3. ASSUME NEW m \in Room!Message, Inbox' = Append(Inbox, m),
                 m.t = "relay" => m.from \in Viewers /\ Own(m.from, m.data)
          PROVE  Inbox'[i].from \in Viewers /\ Own(Inbox'[i].from, Inbox'[i].data)
      <4>1. CASE i \in DOMAIN Inbox
        <5>1. Inbox'[i] = Inbox[i]
          BY <2>0, <3>3, <4>1, AppendAt
        <5>. QED  BY <1>2, <4>1, <5>1 DEF WireInv
      <4>2. CASE i \notin DOMAIN Inbox
        <5>1. Inbox'[i] = m
          BY <1>2, <2>0, <3>3, <4>2, AppendAt
        <5>. QED  BY <1>2, <3>3, <5>1
      <4>. QED  BY <4>1, <4>2
    <3>. QED  BY <3>1, <3>2, <3>3 DEF InboxMove
  <2>. QED  BY <2>1, OwnKept
<1>3. ASSUME hpc' \in Stages PROVE vpc'[hpake'] # "out" /\ vcode'[hpake'] = hused'
  <2>1. hpake' = hpake /\ hused' = hused
    BY <1>3 DEF ConfirmMove
  <2>2. CASE hpc \in Stages
    BY <2>1, <2>2 DEF WireInv, HostInv, Keeps
  <2>3. CASE hpc = "confirm" /\ GotMsg("confirm") /\ GoodMac(Head(Inbox).data)
    <3>1. hpake \in Viewers /\ hused # None
      BY <2>3, ConnectionAssumption DEF HostInv
    <3>2. Inbox \in Seq(Room!Message) /\ Inbox # <<>>
      BY <2>3, SocketSet DEF TypeOK, Inbox, GotMsg, Got
    <3>3. 1 \in DOMAIN Inbox /\ Head(Inbox) = Inbox[1]
      BY <3>2
    <3>4. Own(Inbox[1].from, Inbox[1].data)
      BY <2>3, <3>3 DEF WireInv, GotMsg, Got
    <3>5. vpc[hpake] # "out" /\ vcode[hpake] = hused
      BY <2>3, <3>1, <3>3, <3>4 DEF Own, GoodMac
    <3>. QED  BY <2>1, <3>1, <3>5 DEF Keeps
  <2>. QED  BY <1>3, <2>2, <2>3 DEF ConfirmMove
<1>. QED  BY <1>1, <1>2, <1>3 DEF WireInv, Own, OwnNext

\* Nobody is told of a session, and the codes go forward; or the user approves.
LEMMA CodeStep ==
    ASSUME TypeOK, HostInv, WireInv, CodeInv, Keeps,
           \/ /\ granted' = granted /\ hcode <= hcode' /\ hcode' \in Nat
              /\ \A w \in Viewers : Told(w)' => Told(w)
              /\ hpc' \in HostStage \cup {"confirm"} =>
                    hused' = hcode \/ (hused' = hused /\ hpc \in HostStage \cup {"confirm"})
           \/ Approve
    PROVE  CodeInv'
<1>0. HostType /\ ViewerType /\ ChanType
  BY TypeParts
<1>1. CASE /\ granted' = granted /\ hcode <= hcode' /\ hcode' \in Nat
           /\ \A w \in Viewers : Told(w)' => Told(w)
           /\ hpc' \in HostStage \cup {"confirm"} =>
                 hused' = hcode \/ (hused' = hused /\ hpc \in HostStage \cup {"confirm"})
  <2>1. \A g \in granted' : g.code < hcode' /\ vpc'[g.viewer] # "out" /\ g.code = vcode'[g.viewer]
    BY <1>0, <1>1 DEF CodeInv, Keeps, HostType
  <2>2. hpc' \in HostStage \cup {"confirm"} => hused' <= hcode' /\ \A g \in granted' : g.code # hused'
    <3>1. \A g \in granted : g.code # hcode
      BY <1>0 DEF CodeInv, HostType
    <3>2. hpc \in HostStage \cup {"confirm"} => hused \in Nat
      BY DEF HostInv, Stages
    <3>. QED  BY <1>0, <1>1, <3>1, <3>2 DEF CodeInv, HostType
  <2>3. OneSessionPerCode'
    BY <1>1 DEF CodeInv, OneSessionPerCode
  <2>4. \A v \in Viewers : Told(v)' => \E g \in granted' : g.viewer = v
    BY <1>1 DEF CodeInv
  <2>. QED  BY <2>1, <2>2, <2>3, <2>4 DEF CodeInv
<1>2. CASE Approve
  <2>. DEFINE new == [viewer |-> hpake, code |-> hused]
  <2>1. /\ hpc = "approve" /\ hpc' = "session" /\ hcode' = hcode + 1 /\ granted' = granted \cup {new}
        /\ UNCHANGED <<vpc, vcode>> /\ HostTells(hpake, "accepted")
    BY <1>2 DEF Approve, viewer
  <2>2. /\ hpake \in Viewers /\ hused \in Nat /\ vpc[hpake] # "out" /\ vcode[hpake] = hused
        /\ hused <= hcode /\ \A g \in granted : g.code # hused
    BY <2>1 DEF HostInv, WireInv, CodeInv, Stages, HostStage
  <2>3. \A g \in granted' : g.code < hcode' /\ vpc'[g.viewer] # "out" /\ g.code = vcode'[g.viewer]
    <3>1. \A g \in granted : g.code < hcode + 1
      BY <1>0 DEF CodeInv, HostType
    <3>2. new.code < hcode + 1
      BY <1>0, <2>2 DEF HostType
    <3>3. \A g \in granted : vpc[g.viewer] # "out" /\ g.code = vcode[g.viewer]
      BY DEF CodeInv
    <3>. QED  BY <2>1, <2>2, <3>1, <3>2, <3>3
  <2>4. ~(hpc' \in HostStage \cup {"confirm"})
    BY <2>1 DEF HostStage
  <2>5. OneSessionPerCode'
    BY <2>1, <2>2 DEF CodeInv, OneSessionPerCode
  <2>6. ASSUME NEW v \in Viewers, Told(v)' PROVE \E g \in granted' : g.viewer = v
    <3>1. CASE v = hpake
      <4>1. new \in granted' /\ new.viewer = v
        BY <2>1, <3>1
      <4>. QED  BY <4>1
    <3>2. CASE v # hpake
      <4>1. chan'[v] = chan[v]
        BY <1>0, <2>1, <2>2, <3>2 DEF HostTells, ChanType
      <4>2. Told(v)
        BY <2>1, <2>6, <4>1 DEF Told
      <4>. QED  BY <2>1, <4>2 DEF CodeInv
    <3>. QED  BY <3>1, <3>2
  <2>. QED  BY <2>3, <2>4, <2>5, <2>6 DEF CodeInv
<1>. QED  BY <1>1, <1>2

\* Who was announced last, in a log that grows.
LEMMA LogAppend ==
    ASSUME NEW S, NEW s \in Seq(S), NEW m \in S
    PROVE  /\ \A i \in 1..(Len(s) + 1) : \A j \in Nat : LastJoin(Append(s, m), j, i) <=> LastJoin(s, j, i)
           /\ \A i \in 1..(Len(s) + 1) : NoJoinBefore(Append(s, m), i) <=> NoJoinBefore(s, i)
           /\ m.t = "viewer_joined" =>
                 /\ \A j \in Nat : LastJoin(Append(s, m), j, Len(s) + 2) => j = Len(s) + 1
                 /\ ~NoJoinBefore(Append(s, m), Len(s) + 2)
           /\ m.t # "viewer_joined" =>
                 /\ \A j \in Nat : LastJoin(Append(s, m), j, Len(s) + 2) => LastJoin(s, j, Len(s) + 1)
                 /\ NoJoinBefore(Append(s, m), Len(s) + 2) => NoJoinBefore(s, Len(s) + 1)
<1>. DEFINE a == Append(s, m)
<1>1. Len(s) \in Nat /\ a[Len(s) + 1] = m /\ \A i \in 1..Len(s) : a[i] = s[i]
  OBVIOUS
<1>. HIDE DEF a
<1>2. ASSUME NEW i \in 1..(Len(s) + 1), NEW j \in Nat PROVE LastJoin(a, j, i) <=> LastJoin(s, j, i)
  BY <1>1 DEF LastJoin
<1>3. ASSUME NEW i \in 1..(Len(s) + 1) PROVE NoJoinBefore(a, i) <=> NoJoinBefore(s, i)
  BY <1>1 DEF NoJoinBefore
<1>4. ASSUME m.t = "viewer_joined"
      PROVE  /\ \A j \in Nat : LastJoin(a, j, Len(s) + 2) => j = Len(s) + 1
             /\ ~NoJoinBefore(a, Len(s) + 2)
  BY <1>1, <1>4 DEF LastJoin, NoJoinBefore
<1>5. ASSUME m.t # "viewer_joined"
      PROVE  /\ \A j \in Nat : LastJoin(a, j, Len(s) + 2) => LastJoin(s, j, Len(s) + 1)
             /\ NoJoinBefore(a, Len(s) + 2) => NoJoinBefore(s, Len(s) + 1)
  BY <1>1, <1>5 DEF LastJoin, NoJoinBefore
<1>. QED  BY <1>2, <1>3, <1>4, <1>5 DEF a

\* Who was announced last, in a log read from the front.
LEMMA LogTail ==
    ASSUME NEW S, NEW s \in Seq(S), s # <<>>
    PROVE  \A i \in 1..Len(s) :
              /\ \A j \in Nat : LastJoin(Tail(s), j, i) => LastJoin(s, j + 1, i + 1)
              /\ NoJoinBefore(Tail(s), i) /\ s[1].t = "viewer_joined" => LastJoin(s, 1, i + 1)
              /\ NoJoinBefore(Tail(s), i) /\ s[1].t # "viewer_joined" => NoJoinBefore(s, i + 1)
<1>. DEFINE t == Tail(s)
<1>1. Len(s) \in Nat \ {0} /\ \A i \in 1..(Len(s) - 1) : t[i] = s[i + 1]
  OBVIOUS
<1>. HIDE DEF t
<1>. SUFFICES ASSUME NEW i \in 1..Len(s)
              PROVE  /\ \A j \in Nat : LastJoin(t, j, i) => LastJoin(s, j + 1, i + 1)
                     /\ NoJoinBefore(t, i) /\ s[1].t = "viewer_joined" => LastJoin(s, 1, i + 1)
                     /\ NoJoinBefore(t, i) /\ s[1].t # "viewer_joined" => NoJoinBefore(s, i + 1)
  BY DEF t
<1>2. \A k \in 2..i : s[k] = t[k - 1] /\ k - 1 \in 1..(i - 1)
  BY <1>1
<1>3. ASSUME NEW j \in Nat, LastJoin(t, j, i) PROVE LastJoin(s, j + 1, i + 1)
  BY <1>1, <1>2, <1>3 DEF LastJoin
<1>4. ASSUME NoJoinBefore(t, i) PROVE \A k \in 2..i : s[k].t # "viewer_joined"
  BY <1>2, <1>4 DEF NoJoinBefore
<1>5. ASSUME NoJoinBefore(t, i), s[1].t = "viewer_joined" PROVE LastJoin(s, 1, i + 1)
  BY <1>4, <1>5 DEF LastJoin
<1>6. ASSUME NoJoinBefore(t, i), s[1].t # "viewer_joined" PROVE NoJoinBefore(s, i + 1)
  BY <1>4, <1>6 DEF NoJoinBefore
<1>. QED  BY <1>3, <1>5, <1>6

\* A queue read from is another queue.
LEMMA TailIsShorter ==
    ASSUME NEW S, NEW s \in Seq(S), s # <<>>
    PROVE  Tail(s) # s
<1>1. Len(s) \in Nat /\ Len(Tail(s)) = Len(s) - 1
  OBVIOUS
<1>2. \A n \in Nat : n - 1 # n
  OBVIOUS
<1>. QED  BY <1>1, <1>2

\* The server queues something for the host, or a viewer comes in.
LEMMA OrderGrows ==
    ASSUME TypeOK, OrderInv, UNCHANGED host, NEW m \in Room!Message, Inbox' = Append(Inbox, m),
           \/ /\ m.t \notin {"relay", "viewer_joined"}
              /\ \A v \in Viewers : ready'[v] = "open" => ready[v] = "open"
           \/ /\ m.t = "relay" /\ m.from \in Viewers /\ ready[m.from] = "open"
              /\ \A v \in Viewers : ready'[v] = "open" => ready[v] = "open"
           \/ /\ m.t = "viewer_joined"
              /\ \A v \in Viewers : ready'[v] = "open" => v = m.viewer
    PROVE  OrderInv'
<1>. DEFINE n == Len(Inbox)
<1>0. Inbox \in Seq(Room!Message) /\ n \in Nat
  BY SocketSet DEF TypeOK, Inbox
<1>1. /\ Len(Inbox') = n + 1 /\ DOMAIN Inbox' = 1..(n + 1) /\ DOMAIN Inbox = 1..n
      /\ Inbox'[n + 1] = m /\ \A i \in 1..n : Inbox'[i] = Inbox[i]
  BY <1>0
<1>2. /\ \A i \in 1..(n + 1) : \A j \in Nat : LastJoin(Inbox', j, i) <=> LastJoin(Inbox, j, i)
      /\ \A i \in 1..(n + 1) : NoJoinBefore(Inbox', i) <=> NoJoinBefore(Inbox, i)
      /\ m.t = "viewer_joined" =>
            /\ \A j \in Nat : LastJoin(Inbox', j, n + 2) => j = n + 1
            /\ ~NoJoinBefore(Inbox', n + 2)
      /\ m.t # "viewer_joined" =>
            /\ \A j \in Nat : LastJoin(Inbox', j, n + 2) => LastJoin(Inbox, j, n + 1)
            /\ NoJoinBefore(Inbox', n + 2) => NoJoinBefore(Inbox, n + 1)
  BY <1>0, LogAppend
<1>h. hpc' = hpc /\ hjoin' = hjoin /\ hpake' = hpake
  BY DEF host
<1>. HIDE DEF n
<1>l. \A j, i \in Nat : LastJoin(Inbox, j, i) => j \in 1..(i - 1)
  BY DEF LastJoin
<1>3. ASSUME NEW i \in DOMAIN Inbox', NEW j \in DOMAIN Inbox', Inbox'[i].t = "relay", LastJoin(Inbox', j, i)
      PROVE  Inbox'[i].from = Inbox'[j].viewer
  <2>1. i \in 1..(n + 1) /\ j \in Nat /\ LastJoin(Inbox, j, i)
    BY <1>0, <1>1, <1>2, <1>3
  <2>2. j \in 1..n /\ Inbox'[j] = Inbox[j]
    BY <1>0, <1>1, <1>l, <2>1
  <2>3. CASE i \in 1..n
    BY <1>1, <1>3, <2>1, <2>2, <2>3 DEF OrderInv
  <2>4. CASE i = n + 1
    <3>1. m.t = "relay" /\ m.from \in Viewers /\ ready[m.from] = "open" /\ Inbox'[i] = m
      BY <1>1, <1>3, <2>4
    <3>2. Inbox[j].viewer = m.from
      BY <1>1, <2>1, <2>2, <2>4, <3>1 DEF OrderInv, n
    <3>. QED  BY <2>2, <3>1, <3>2
  <2>. QED  BY <1>0, <2>1, <2>3, <2>4
<1>4. ASSUME hpc' \in Serving, NEW i \in DOMAIN Inbox', Inbox'[i].t = "relay", NoJoinBefore(Inbox', i)
      PROVE  Inbox'[i].from = hjoin'
  <2>1. i \in 1..(n + 1) /\ NoJoinBefore(Inbox, i)
    BY <1>1, <1>2, <1>4
  <2>3. CASE i \in 1..n
    BY <1>1, <1>4, <1>h, <2>1, <2>3 DEF OrderInv
  <2>4. CASE i = n + 1
    <3>1. m.t = "relay" /\ m.from \in Viewers /\ ready[m.from] = "open" /\ Inbox'[i] = m
      BY <1>1, <1>4, <2>4
    <3>2. m.from = hjoin
      BY <1>4, <1>h, <2>1, <2>4, <3>1 DEF OrderInv, n
    <3>. QED  BY <1>h, <3>1, <3>2
  <2>. QED  BY <1>0, <2>1, <2>3, <2>4
<1>5. ASSUME NEW v \in Viewers, ready'[v] = "open", NEW j \in DOMAIN Inbox', LastJoin(Inbox', j, Len(Inbox') + 1)
      PROVE  Inbox'[j].viewer = v
  <2>1. LastJoin(Inbox', j, n + 2) /\ j \in Nat
    <3>1. Len(Inbox') + 1 = n + 2
      BY <1>0, <1>1
    <3>. QED  BY <1>0, <1>1, <1>5, <3>1
  <2>2. CASE m.t = "viewer_joined"
    BY <1>1, <1>2, <1>5, <2>1, <2>2
  <2>3. CASE m.t # "viewer_joined"
    <3>1. LastJoin(Inbox, j, n + 1) /\ ready[v] = "open"
      BY <1>2, <1>5, <2>1, <2>3
    <3>2. j \in 1..n /\ Inbox'[j] = Inbox[j]
      BY <1>0, <1>1, <1>l, <2>1, <3>1
    <3>. QED  BY <1>1, <3>1, <3>2 DEF OrderInv, n
  <2>. QED  BY <2>2, <2>3
<1>6. ASSUME NEW v \in Viewers, ready'[v] = "open", hpc' \in Serving, NoJoinBefore(Inbox', Len(Inbox') + 1)
      PROVE  v = hjoin'
  <2>1. NoJoinBefore(Inbox', n + 2)
    <3>1. Len(Inbox') + 1 = n + 2
      BY <1>0, <1>1
    <3>. QED  BY <1>6, <3>1
  <2>2. m.t # "viewer_joined" /\ NoJoinBefore(Inbox, n + 1) /\ ready[v] = "open"
    BY <1>2, <1>6, <2>1
  <2>. QED  BY <1>6, <1>h, <2>2 DEF OrderInv, n
<1>7. AttemptServesItsViewer'
  BY <1>h DEF OrderInv, AttemptServesItsViewer
<1>. QED  BY <1>3, <1>4, <1>5, <1>6, <1>7 DEF OrderInv

\* A step that leaves the inbox and the host alone and lets nobody in.
LEMMA OrderKept ==
    ASSUME OrderInv, UNCHANGED <<hpc, hjoin, hpake>>, Inbox' = Inbox,
           \A v \in Viewers : ready'[v] = "open" => ready[v] = "open"
    PROVE  OrderInv'
BY DEF OrderInv, AttemptServesItsViewer

\* The host reads its inbox, or does something else.
LEMMA OrderReads ==
    ASSUME TypeOK, HostInv, WireInv, OrderInv, HostQueues, AttemptMove
    PROVE  OrderInv'
<1>. DEFINE n == Len(Inbox)
<1>0. Inbox \in Seq(Room!Message) /\ n \in Nat /\ DOMAIN Inbox = 1..n
  BY SocketSet DEF TypeOK, Inbox
<1>r. ready' = ready
  BY DEF HostQueues
<1>7. AttemptServesItsViewer'
  <2>. SUFFICES ASSUME hpake' # None PROVE hpake' = hjoin'
    BY DEF AttemptServesItsViewer
  <2>1. CASE hpake' = hpake
    BY <2>1 DEF AttemptMove, OrderInv, AttemptServesItsViewer
  <2>2. CASE hpc = "start" /\ GotMsg("start") /\ hpake' = Head(Inbox).data.from
    <3>1. 1 \in DOMAIN Inbox /\ Head(Inbox) = Inbox[1] /\ Inbox[1].t = "relay" /\ Inbox[1].data.m = "start"
      BY <1>0, <2>2 DEF GotMsg, Got
    <3>2. Own(Inbox[1].from, Inbox[1].data)
      BY <3>1 DEF WireInv
    <3>3. NoJoinBefore(Inbox, 1)
      BY DEF NoJoinBefore
    <3>4. Inbox[1].from = hjoin
      BY <2>2, <3>1, <3>3 DEF OrderInv, Serving
    <3>. QED  BY <2>2, <3>1, <3>2, <3>4 DEF Own, AttemptMove
  <2>. QED  BY <2>1, <2>2 DEF AttemptMove
<1>1. CASE Inbox' = Inbox /\ (hpc' \in Serving => hpc \in Serving /\ hjoin' = hjoin)
  BY <1>1, <1>7, <1>r DEF OrderInv
<1>2. CASE Inbox # <<>> /\ Inbox' = Tail(Inbox)
  <2>0. n > 0 /\ Len(Inbox') = n - 1 /\ DOMAIN Inbox' = 1..(n - 1) /\ \A i \in 1..(n - 1) : Inbox'[i] = Inbox[i + 1]
    BY <1>0, <1>2
  <2>1. \A i \in 1..n :
           /\ \A j \in Nat : LastJoin(Inbox', j, i) => LastJoin(Inbox, j + 1, i + 1)
           /\ NoJoinBefore(Inbox', i) /\ Inbox[1].t = "viewer_joined" => LastJoin(Inbox, 1, i + 1)
           /\ NoJoinBefore(Inbox', i) /\ Inbox[1].t # "viewer_joined" => NoJoinBefore(Inbox, i + 1)
    BY <1>0, <1>2, LogTail
  <2>s. hpc' \in Serving => \/ hpc \in Serving /\ hjoin' = hjoin /\ Inbox[1].t # "viewer_joined"
                            \/ Inbox[1].t = "viewer_joined" /\ hjoin' = Inbox[1].viewer
    <3>1. Head(Inbox) = Inbox[1]
      BY <1>0, <1>2
    <3>2. Inbox' # Inbox
      BY <1>0, <1>2, TailIsShorter
    <3>. QED  BY <3>1, <3>2 DEF AttemptMove, Got
  <2>. HIDE DEF n
  <2>3. ASSUME NEW i \in DOMAIN Inbox', NEW j \in DOMAIN Inbox', Inbox'[i].t = "relay", LastJoin(Inbox', j, i)
        PROVE  Inbox'[i].from = Inbox'[j].viewer
    <3>1. /\ i \in 1..n /\ j \in Nat /\ i + 1 \in DOMAIN Inbox /\ j + 1 \in DOMAIN Inbox
          /\ Inbox'[i] = Inbox[i + 1] /\ Inbox'[j] = Inbox[j + 1]
      BY <1>0, <2>0, <2>3
    <3>2. LastJoin(Inbox, j + 1, i + 1)
      BY <2>1, <2>3, <3>1
    <3>. QED  BY <2>3, <3>1, <3>2 DEF OrderInv
  <2>4. ASSUME hpc' \in Serving, NEW i \in DOMAIN Inbox', Inbox'[i].t = "relay", NoJoinBefore(Inbox', i)
        PROVE  Inbox'[i].from = hjoin'
    <3>1. i \in 1..n /\ i + 1 \in DOMAIN Inbox /\ 1 \in DOMAIN Inbox /\ Inbox'[i] = Inbox[i + 1]
      BY <1>0, <2>0, <2>4
    <3>2. CASE Inbox[1].t = "viewer_joined"
      <4>1. LastJoin(Inbox, 1, i + 1)
        BY <2>1, <2>4, <3>1, <3>2
      <4>2. Inbox[i + 1].from = Inbox[1].viewer
        BY <2>4, <3>1, <4>1 DEF OrderInv
      <4>. QED  BY <2>4, <2>s, <3>1, <3>2, <4>2
    <3>3. CASE Inbox[1].t # "viewer_joined"
      <4>1. NoJoinBefore(Inbox, i + 1)
        BY <2>1, <2>4, <3>1, <3>3
      <4>. QED  BY <2>4, <2>s, <3>1, <3>3, <4>1 DEF OrderInv
    <3>. QED  BY <3>2, <3>3
  <2>5. ASSUME NEW v \in Viewers, ready'[v] = "open", NEW j \in DOMAIN Inbox', LastJoin(Inbox', j, Len(Inbox') + 1)
        PROVE  Inbox'[j].viewer = v
    <3>1. Len(Inbox') + 1 = n /\ n \in 1..n /\ j \in Nat /\ j + 1 \in DOMAIN Inbox /\ Inbox'[j] = Inbox[j + 1]
      BY <1>0, <2>0, <2>5
    <3>2. LastJoin(Inbox, j + 1, n + 1)
      BY <2>1, <2>5, <3>1
    <3>. QED  BY <1>r, <2>5, <3>1, <3>2 DEF OrderInv, n
  <2>6. ASSUME NEW v \in Viewers, ready'[v] = "open", hpc' \in Serving, NoJoinBefore(Inbox', Len(Inbox') + 1)
        PROVE  v = hjoin'
    <3>1. Len(Inbox') + 1 = n /\ n \in 1..n /\ 1 \in DOMAIN Inbox
      BY <1>0, <2>0
    <3>2. CASE Inbox[1].t = "viewer_joined"
      <4>1. LastJoin(Inbox, 1, n + 1)
        BY <2>1, <2>6, <3>1, <3>2
      <4>2. Inbox[1].viewer = v
        BY <1>r, <2>6, <3>1, <4>1 DEF OrderInv, n
      <4>. QED  BY <2>6, <2>s, <3>2, <4>2
    <3>3. CASE Inbox[1].t # "viewer_joined"
      <4>1. NoJoinBefore(Inbox, n + 1)
        BY <2>1, <2>6, <3>1, <3>3
      <4>. QED  BY <1>r, <2>6, <2>s, <3>3, <4>1 DEF OrderInv, n
    <3>. QED  BY <3>2, <3>3
  <2>. QED  BY <1>7, <2>3, <2>4, <2>5, <2>6 DEF OrderInv
<1>. QED
  <2>1. Inbox' = Inbox => (hpc' \in Serving => hpc \in Serving /\ hjoin' = hjoin)
    <3>1. Inbox # <<>> => Tail(Inbox) # Inbox
      BY <1>0, TailIsShorter
    <3>. QED  BY <3>1 DEF AttemptMove, Got
  <2>. QED  BY <1>1, <1>2, <2>1 DEF HostQueues

-----------------------------------------------------------------------------
(* The invariant.                                                          *)
ConnectionInv == TypeOK /\ HostInv /\ WireInv /\ CodeInv /\ OrderInv

\* The first state: nobody in the room, an idle host.
LEMMA InitConnection == Init => ConnectionInv
<1>. SUFFICES ASSUME Init PROVE ConnectionInv
  OBVIOUS
<1>1. TypeOK
  <2>1. RoomType
    BY DEF Init, RoomType, Room!States
  <2>2. UpType
    BY DEF Init, UpType
  <2>3. HostType
    <3>1. 0 \in 0..(RotateAfter - 1) /\ 0 \in Nat
      BY ConnectionAssumption
    <3>. QED  BY <3>1 DEF Init, HostType, HostPcs, Codes
  <2>4. ViewerType
    BY DEF Init, ViewerType, ViewerPcs, Codes
  <2>5. ChanType
    BY DEF Init, ChanType, Channels, NoChannel, Side
  <2>. QED  BY <2>1, <2>2, <2>3, <2>4, <2>5, TypeParts
<1>2. Inbox = <<>> /\ \A v \in Viewers : up[v] = <<>>
  BY SocketSet DEF Init, Inbox
<1>3. HostInv
  BY DEF Init, HostInv, Serving, Stages, HostStage
<1>4. WireInv
  BY <1>2 DEF Init, WireInv, Stages, HostStage
<1>5. CodeInv
  BY DEF Init, CodeInv, OneSessionPerCode, Told, NoChannel, HostStage
<1>6. OrderInv
  <2>1. ~(hpc \in Serving)
    BY DEF Init, Serving, Stages, HostStage
  <2>2. \A v \in Viewers : ready[v] # "open"
    BY SocketSet DEF Init
  <2>3. DOMAIN Inbox = {}
    BY <1>2
  <2>. QED  BY <2>1, <2>2, <2>3 DEF Init, OrderInv, AttemptServesItsViewer
<1>. QED  BY <1>1, <1>3, <1>4, <1>5, <1>6 DEF ConnectionInv

\* A step of the server preserves the invariant.
LEMMA ServerKeeps ==
    ASSUME ConnectionInv, Server
    PROVE  ConnectionInv'
<1>0. /\ TypeOK /\ HostInv /\ WireInv /\ CodeInv /\ OrderInv
      /\ RoomType /\ UpType /\ HostType /\ ViewerType /\ ChanType
  BY TypeParts DEF ConnectionInv
<1>1. ServerEffect
  BY <1>0, ServerStep
<1>2. PICK ws \in Sockets : Serve(ws)
  BY <1>0, ServerStep
<1>3. UNCHANGED <<host, viewer, chan>>
  BY <1>2 DEF Serve
<1>4. UpType' /\ UpMove
  <2>1. up[ws] \in Seq(Frame) /\ up[ws] # <<>>
    BY <1>0, <1>2 DEF UpType, Serve
  <2>2. Tail(up[ws]) \in Seq(Frame) /\ up' = [up EXCEPT ![ws] = Tail(up[ws])]
    BY <1>2, <2>1 DEF Serve, Taken
  <2>. QED  BY <1>0, <2>1, <2>2, SocketSet DEF UpType, UpMove
<1>5. TypeOK' /\ HostInv'
  <2>1. HostType' /\ HostInv' /\ ViewerType' /\ ChanType'
    BY <1>0, <1>3 DEF HostType, HostInv, ViewerType, ChanType, host, viewer
  <2>. QED  BY <1>1, <1>4, <2>1, TypePartsNext DEF ServerEffect
<1>6. Keeps /\ ConfirmMove
  BY <1>3 DEF Keeps, ConfirmMove, host, viewer
<1>7. CodeInv'
  <2>1. \A w \in Viewers : Told(w)' => Told(w)
    BY <1>3 DEF Told, viewer
  <2>. QED  BY <1>0, <1>3, <1>6, <2>1, CodeStep DEF host, HostType
<1>8. CASE Inbox' = Inbox
  <2>1. InboxMove
    BY <1>8 DEF InboxMove
  <2>2. OrderInv'
    BY <1>0, <1>1, <1>3, <1>8, OrderKept DEF ServerEffect, host
  <2>. QED  BY <1>0, <1>4, <1>5, <1>6, <1>7, <2>1, <2>2, WireStep DEF ConnectionInv
<1>9. ASSUME NEW v \in Viewers, Inbox' = Append(Inbox, Room!ViewerLeft(v))
      PROVE  ConnectionInv'
  <2>. DEFINE m == Room!ViewerLeft(v)
  <2>1. m \in Room!Message /\ m.t = "viewer_left"
    BY MessageTypes DEF Room!ViewerLeft
  <2>. HIDE DEF m
  <2>2. Inbox' = Append(Inbox, m)
    BY <1>9 DEF m
  <2>3. InboxMove
    BY <2>1, <2>2 DEF InboxMove
  <2>4. OrderInv'
    BY <1>0, <1>1, <1>3, <2>1, <2>2, OrderGrows DEF ServerEffect
  <2>. QED  BY <1>0, <1>4, <1>5, <1>6, <1>7, <2>3, <2>4, WireStep DEF ConnectionInv
<1>10. ASSUME NEW v \in Viewers, ready[v] = "open", up[v] # <<>>, Front(v).f = "relay",
              Inbox' = Append(Inbox, Room!Relay(v, Front(v).data))
       PROVE  ConnectionInv'
  <2>. DEFINE m == Room!Relay(v, Front(v).data)
  <2>1. v \in Sockets /\ up[v] \in Seq(Frame)
    BY <1>0, SocketSet DEF UpType
  <2>2. Front(v) = up[v][1] /\ 1 \in DOMAIN up[v] /\ up[v][1] \in Frame
    BY <1>10, <2>1 DEF Front
  <2>3. Front(v).data \in PakeMsg /\ Own(v, Front(v).data)
    BY <1>0, <1>10, <2>2, FrameFields DEF WireInv
  <2>4. m \in Room!Message /\ m.t = "relay" /\ m.from = v /\ m.data = Front(v).data
    BY <2>1, <2>3, MessageTypes DEF Room!Relay
  <2>. HIDE DEF m
  <2>5. Inbox' = Append(Inbox, m)
    BY <1>10 DEF m
  <2>6. InboxMove
    BY <2>3, <2>4, <2>5 DEF InboxMove
  <2>7. OrderInv'
    BY <1>0, <1>1, <1>3, <1>10, <2>4, <2>5, OrderGrows DEF ServerEffect
  <2>. QED  BY <1>0, <1>4, <1>5, <1>6, <1>7, <2>6, <2>7, WireStep DEF ConnectionInv
<1>. QED  BY <1>1, <1>8, <1>9, <1>10 DEF ServerEffect

\* A step of the host preserves it.
LEMMA HostKeeps ==
    ASSUME ConnectionInv, HostPake \/ HostHandshake \/ HostDies \/ WaitOver
    PROVE  ConnectionInv'
<1>0. /\ TypeOK /\ HostInv /\ WireInv /\ CodeInv /\ OrderInv /\ ViewerType
  BY TypeParts DEF ConnectionInv
<1>1. HostQueues /\ HostMove
  BY <1>0, PakeStep, HandshakeStep
<1>2. TypeOK' /\ HostInv'
  <2>1. ViewerType'
    BY <1>0, <1>1 DEF HostQueues, ViewerType, viewer
  <2>. QED  BY <1>1, <2>1, TypePartsNext DEF HostQueues, HostMove
<1>3. Keeps /\ UpMove /\ InboxMove
  BY <1>1 DEF HostQueues, Keeps, UpMove, InboxMove, viewer
<1>4. WireInv'
  BY <1>0, <1>1, <1>3, WireStep DEF HostMove
<1>5. CodeInv'
  <2>1. NoNewAccept => \A w \in Viewers : Told(w)' => Told(w)
    BY <1>1 DEF NoNewAccept, Accepting, Told, HostQueues, viewer
  <2>. QED  BY <1>0, <1>1, <1>3, <2>1, CodeStep DEF HostMove, CodeMove, HostType
<1>6. OrderInv'
  BY <1>0, <1>1, OrderReads DEF HostMove
<1>. QED  BY <1>2, <1>4, <1>5, <1>6 DEF ConnectionInv

\* A step of a viewer preserves it.
LEMMA ViewerKeeps ==
    ASSUME ConnectionInv, NEW v \in Viewers,
           \/ \E c \in {hcode, None} : Join(v, c)
           \/ JoinRefused(v) \/ ViewerStep(v) \/ ViewerEndsSession(v)
    PROVE  ConnectionInv'
<1>0. /\ TypeOK /\ HostInv /\ WireInv /\ CodeInv /\ OrderInv /\ HostType
  BY TypeParts DEF ConnectionInv
<1>1. ViewerEffect(v)
  BY <1>0, JoinStep, ViewerStepEffect
<1>2. UNCHANGED host
  BY <1>1 DEF ViewerEffect
<1>3. TypeOK' /\ HostInv'
  <2>1. HostType' /\ HostInv'
    BY <1>0, <1>2 DEF HostType, HostInv, host
  <2>. QED  BY <1>1, <2>1, TypePartsNext DEF ViewerEffect
<1>4. Keeps /\ UpMove
  BY <1>1 DEF ViewerEffect, Keeps, UpMove
<1>5. ConfirmMove
  BY <1>2 DEF ConfirmMove, host
<1>6. CodeInv'
  BY <1>0, <1>1, <1>2, <1>4, CodeStep DEF ViewerEffect, host, HostType
<1>7. CASE Inbox' = Inbox /\ ready' = ready
  <2>1. InboxMove
    BY <1>7 DEF InboxMove
  <2>2. OrderInv'
    BY <1>0, <1>2, <1>7, OrderKept DEF host
  <2>. QED  BY <1>0, <1>3, <1>4, <1>5, <1>6, <2>1, <2>2, WireStep DEF ConnectionInv
<1>8. CASE /\ Inbox' = Append(Inbox, Room!ViewerJoined(v))
           /\ \A w \in Viewers : ready'[w] = "open" => w = v
  <2>. DEFINE m == Room!ViewerJoined(v)
  <2>1. m \in Room!Message /\ m.t = "viewer_joined" /\ m.viewer = v
    BY MessageTypes DEF Room!ViewerJoined
  <2>. HIDE DEF m
  <2>2. Inbox' = Append(Inbox, m)
    BY <1>8 DEF m
  <2>3. InboxMove
    BY <2>1, <2>2 DEF InboxMove
  <2>4. OrderInv'
    BY <1>0, <1>2, <1>8, <2>1, <2>2, OrderGrows
  <2>. QED  BY <1>0, <1>3, <1>4, <1>5, <1>6, <2>3, <2>4, WireStep DEF ConnectionInv
<1>. QED  BY <1>1, <1>7, <1>8 DEF ViewerEffect

\* So does no step at all.
LEMMA StutterKeeps ==
    ASSUME ConnectionInv, UNCHANGED vars
    PROVE  ConnectionInv'
<1>0. TypeOK /\ HostInv /\ WireInv /\ CodeInv /\ OrderInv
  BY DEF ConnectionInv
<1>. USE DEF vars, room, host, viewer
<1>1. TypeOK' /\ HostInv'
  BY <1>0 DEF TypeOK, HostInv
<1>2. WireInv'
  BY <1>0 DEF WireInv, Own, Inbox
<1>3. CodeInv'
  BY <1>0 DEF CodeInv, OneSessionPerCode, Told
<1>4. OrderInv'
  BY <1>0, OrderKept DEF Inbox
<1>. QED  BY <1>1, <1>2, <1>3, <1>4 DEF ConnectionInv

\* The invariant holds in every reachable state.
LEMMA ConnectionInvariant == Spec => []ConnectionInv
<1>1. ConnectionInv /\ [Next]_vars => ConnectionInv'
  BY ServerKeeps, HostKeeps, ViewerKeeps, StutterKeeps DEF Next
<1>. QED  BY <1>1, InitConnection, PTL DEF Spec

\* The state of the connection keeps its types, whatever rogue viewers send.
THEOREM ConnectionTypes == Spec => []TypeOK
BY ConnectionInvariant, PTL DEF ConnectionInv

\* The user is asked, and the host's addresses leave, only for a viewer that knows the
\* code the attempt runs with (session.rs:163-181).
THEOREM AskedForCodeHolders == Spec => []AskedOnlyForCodeHolder
<1>1. ConnectionInv => AskedOnlyForCodeHolder
  BY ConnectionAssumption DEF ConnectionInv, HostInv, WireInv, AskedOnlyForCodeHolder, Stages
<1>. QED  BY <1>1, ConnectionInvariant, PTL

\* A viewer in a session was accepted, under the code its user typed
\* (connect.rs:177-178, session.rs:241-245).
THEOREM SessionsAgree == Spec => []SessionAgreement
<1>1. ConnectionInv => SessionAgreement
  BY DEF ConnectionInv, CodeInv, SessionAgreement, Told
<1>. QED  BY <1>1, ConnectionInvariant, PTL

\* No code is good for a second session (session.rs:244).
THEOREM CodeGoodOnce == Spec => []OneSessionPerCode
<1>1. ConnectionInv => OneSessionPerCode
  BY DEF ConnectionInv, CodeInv
<1>. QED  BY <1>1, ConnectionInvariant, PTL

\* The attempt answers the viewer that was announced (session.rs:136-140,
\* host-room.ts:72-75).
THEOREM AttemptsServeTheirViewer == Spec => []AttemptServesItsViewer
<1>1. ConnectionInv => AttemptServesItsViewer
  BY DEF ConnectionInv, OrderInv
<1>. QED  BY <1>1, ConnectionInvariant, PTL
=============================================================================
