--------------------------- MODULE HostRoomProofs ---------------------------
(***************************************************************************)
(* Safety of the signaling room for any sets of connections, viewers and   *)
(* keys, any bounds, misbehaving hosts and either close behaviour of the   *)
(* runtime.  The last part, under AgentsOnly, is about hosts that keep to  *)
(* the protocol: there the room implements Rendezvous.                     *)
(***************************************************************************)
EXTENDS HostRoom, TLAPS

-----------------------------------------------------------------------------
(* Types of the helpers.                                                   *)

\* ws.close() keeps readyStates in their range (closeFromServer).
LEMMA ClosingType ==
    ASSUME NEW r \in [Sockets -> States], NEW ws
    PROVE  Closing(r, ws) \in [Sockets -> States]
BY DEF Closing, States

\* The closedByServer attachments stay Boolean (closeFromServer).
LEMMA MarkedType ==
    ASSUME NEW c \in [ViewerSockets -> BOOLEAN], NEW ws
    PROVE  Marked(c, ws) \in [ViewerSockets -> BOOLEAN]
BY DEF Marked

\* Sending one of the server's messages keeps the queues well typed.
LEMMA SentType ==
    ASSUME NEW o \in [Sockets -> Seq(Message)], NEW ws, NEW m \in Message
    PROVE  Sent(o, ws, m) \in [Sockets -> Seq(Message)]
<1>1. CASE ws \in Sockets /\ ready[ws] = "open"
  <2>1. Append(o[ws], m) \in Seq(Message)
    BY <1>1
  <2>2. Sent(o, ws, m) = [o EXCEPT ![ws] = Append(o[ws], m)]
    BY <1>1 DEF Sent
  <2>. QED  BY <2>1, <2>2
<1>2. CASE ~(ws \in Sockets /\ ready[ws] = "open")
  BY <1>2 DEF Sent
<1>. QED  BY <1>1, <1>2

\* Everything the room sends is a Message.
LEMMA MessageType ==
    /\ Challenge \in Message /\ Registered \in Message
    /\ Joined \in Message /\ HostLeft \in Message
    /\ \A v \in ViewerSockets : ViewerJoined(v) \in Message /\ ViewerLeft(v) \in Message
    /\ \A ws \in Sockets, d \in Data : Relay(ws, d) \in Message
    /\ \A c \in {ProtocolError, Kicked, HostLeftCode, AuthFailed, Replaced, TooBig} :
          CloseFrame(c) \in Message
<1>1. Challenge \in Message /\ Registered \in Message /\ Joined \in Message /\ HostLeft \in Message
  BY DEF Message, Challenge, Registered, Joined, HostLeft
<1>2. \A v \in ViewerSockets : ViewerJoined(v) \in Message /\ ViewerLeft(v) \in Message
  BY DEF Message, ViewerJoined, ViewerLeft
<1>3. \A ws \in Sockets, d \in Data : Relay(ws, d) \in Message
  BY DEF Message, Relay
<1>4. \A c \in {ProtocolError, Kicked, HostLeftCode, AuthFailed, Replaced, TooBig} :
          CloseFrame(c) \in Message
  BY DEF Message, CloseFrame
<1>. QED  BY <1>1, <1>2, <1>3, <1>4

\* hostGone's messages keep the queues well typed.
LEMMA HostGoneOutType ==
    ASSUME NEW o \in [Sockets -> Seq(Message)]
    PROVE  HostGoneOut(o) \in [Sockets -> Seq(Message)]
<1>1. Sent(o, OpenViewer, HostLeft) \in [Sockets -> Seq(Message)]
  BY SentType, MessageType
<1>2. CloseFrame(HostLeftCode) \in Message
  BY MessageType
<1>. QED  BY <1>1, <1>2, SentType DEF HostGoneOut

\* closeFromServer keeps its three variables well typed.
LEMMA CloseFromServerType ==
    ASSUME TypeOK, NEW ws, NEW c \in {ProtocolError, Kicked, HostLeftCode, AuthFailed, Replaced, TooBig},
           CloseFromServer(ws, c)
    PROVE  /\ ready' \in [Sockets -> States]
           /\ closedByServer' \in [ViewerSockets -> BOOLEAN]
           /\ out' \in [Sockets -> Seq(Message)]
<1>1. CloseFrame(c) \in Message
  BY MessageType
<1>. QED  BY <1>1, ClosingType, MarkedType, SentType DEF CloseFromServer, TypeOK

\* authedHost() answers with an open authenticated connection or with nothing.
LEMMA AuthedHostIs ==
    AuthedHost # NoSocket => AuthedHost \in HostSockets /\ ready[AuthedHost] = "open" /\ authed[AuthedHost]
BY DEF AuthedHost, AuthedHosts

\* openViewer() answers with an open viewer or with nothing.
LEMMA OpenViewerIs ==
    OpenViewer # NoSocket => OpenViewer \in ViewerSockets /\ ready[OpenViewer] = "open"
BY DEF OpenViewer, OpenViewers
-----------------------------------------------------------------------------
\* Every variable keeps its type: the values of the attachments and of readyState
\* the handlers rely on, and the messages on each connection.
THEOREM TypeCorrect == Spec => []TypeOK
<1>1. Init => TypeOK
  BY DEF Init, TypeOK, States, Sockets
<1>2. TypeOK /\ [Next]_vars => TypeOK'
  <2>. SUFFICES ASSUME TypeOK, [Next]_vars PROVE TypeOK'
    OBVIOUS
  <2>. USE DEF Sockets
  <2>1. ASSUME NEW h \in HostSockets, NEW k \in Keys, NEW claim \in BOOLEAN, AcceptHost(h, k, claim)
        PROVE  TypeOK'
    <3>1. Append(out[h], Challenge) \in Seq(Message)
      BY MessageType DEF TypeOK
    <3>. QED  BY <2>1, <3>1 DEF AcceptHost, TypeOK, States
  <2>2. ASSUME NEW ws \in Sockets, NEW c \in {ProtocolError, TooBig}, BadFrame(ws, c)
        PROVE  TypeOK'
    BY <2>2, CloseFromServerType DEF BadFrame, TypeOK
  <2>3. ASSUME NEW h \in HostSockets, UnauthedFrame(h)
        PROVE  TypeOK'
    BY <2>3, CloseFromServerType DEF UnauthedFrame, TypeOK
  <2>4. ASSUME NEW h \in HostSockets, AuthFrame(h)
        PROVE  TypeOK'
    BY <2>4 DEF AuthFrame, TypeOK
  <2>5. ASSUME NEW h \in HostSockets, RejectAuth(h)
        PROVE  TypeOK'
    <3>1. verifying' \in [HostSockets -> Nat]
      BY <2>5 DEF RejectAuth, TypeOK
    <3>. QED  BY <2>5, <3>1, CloseFromServerType DEF RejectAuth, TypeOK
  <2>6. ASSUME NEW h \in HostSockets, ConfirmAuth(h)
        PROVE  TypeOK'
    <3>1. verifying' \in [HostSockets -> Nat]
      BY <2>6 DEF ConfirmAuth, TypeOK
    <3>2. owner' \in Keys \cup {NoKey} /\ authed' \in [HostSockets -> BOOLEAN]
          /\ key' \in [HostSockets -> Keys \cup {NoKey}] /\ auths' \in [HostSockets -> Nat]
      BY <2>6 DEF ConfirmAuth, TypeOK
    <3>3. out \in [Sockets -> Seq(Message)] /\ Registered \in Message
          /\ CloseFrame(Replaced) \in Message
      BY MessageType DEF TypeOK
    <3>4. HostGoneOut(out) \in [Sockets -> Seq(Message)]
      BY <3>3, HostGoneOutType
    <3>5. Sent(HostGoneOut(out), AuthedHost, CloseFrame(Replaced)) \in [Sockets -> Seq(Message)]
      BY <3>3, <3>4, SentType
    <3>6. /\ Sent(Sent(HostGoneOut(out), AuthedHost, CloseFrame(Replaced)), h, Registered)
               \in [Sockets -> Seq(Message)]
          /\ Sent(out, h, Registered) \in [Sockets -> Seq(Message)]
      BY <3>3, <3>5, SentType
    <3>7. out' \in [Sockets -> Seq(Message)]
      BY <2>6, <3>6 DEF ConfirmAuth
    <3>8. Closing(Closing(ready, OpenViewer), AuthedHost) \in [Sockets -> States]
      BY ClosingType DEF TypeOK
    <3>9. /\ ready' \in [Sockets -> States]
          /\ closedByServer' \in [ViewerSockets -> BOOLEAN]
      BY <2>6, <3>8, MarkedType DEF ConfirmAuth, TypeOK
    <3>. QED  BY <3>1, <3>2, <3>7, <3>9 DEF TypeOK
  <2>7. ASSUME NEW h \in HostSockets, NEW d \in Data, HostRelay(h, d)
        PROVE  TypeOK'
    <3>1. out' \in [Sockets -> Seq(Message)]
      BY <2>7, SentType, MessageType DEF HostRelay, TypeOK
    <3>. QED  BY <2>7, <3>1 DEF HostRelay, TypeOK
  <2>8. ASSUME NEW h \in HostSockets, HostKick(h)
        PROVE  TypeOK'
    BY <2>8, CloseFromServerType DEF HostKick, TypeOK
  <2>9. ASSUME NEW h \in HostSockets, OtherHostFrame(h)
        PROVE  TypeOK'
    BY <2>9, CloseFromServerType DEF OtherHostFrame, TypeOK
  <2>10. ASSUME NEW ws \in Sockets, SocketDrops(ws)
        PROVE  TypeOK'
    BY <2>10 DEF SocketDrops, TypeOK, States
  <2>11. ASSUME NEW h \in HostSockets, HostGone(h)
        PROVE  TypeOK'
    <3>1. HostGoneOut(out) \in [Sockets -> Seq(Message)]
      BY HostGoneOutType DEF TypeOK
    <3>2. Closing(ready, OpenViewer) \in [Sockets -> States]
      BY ClosingType DEF TypeOK
    <3>3. ready' \in [Sockets -> States]
      BY <2>11, <3>2 DEF HostGone, TypeOK, States
    <3>4. Marked(closedByServer, OpenViewer) \in [ViewerSockets -> BOOLEAN]
      BY MarkedType DEF TypeOK
    <3>5. closedByServer' \in [ViewerSockets -> BOOLEAN] /\ out' \in [Sockets -> Seq(Message)]
      BY <2>11, <3>1, <3>4 DEF HostGone, TypeOK
    <3>. QED  BY <2>11, <3>3, <3>5 DEF HostGone, TypeOK
  <2>12. ASSUME NEW v \in ViewerSockets, AcceptViewer(v)
        PROVE  TypeOK'
    <3>1. AuthedHost \in Sockets
      BY <2>12, AuthedHostIs DEF AcceptViewer, ViewerResponse
    <3>2. /\ Append(out[v], Joined) \in Seq(Message)
          /\ Append(out[AuthedHost], ViewerJoined(v)) \in Seq(Message)
          /\ Append(Append(out[v], Joined), ViewerJoined(v)) \in Seq(Message)
      BY <3>1, MessageType DEF TypeOK
    <3>3. out' \in [Sockets -> Seq(Message)]
      BY <2>12, <3>1, <3>2 DEF AcceptViewer, TypeOK
    <3>. QED  BY <2>12, <3>3 DEF AcceptViewer, TypeOK, States
  <2>13. ASSUME NEW v \in ViewerSockets, NEW d \in Data, ViewerRelay(v, d)
        PROVE  TypeOK'
    <3>1. out' \in [Sockets -> Seq(Message)]
      BY <2>13, SentType, MessageType DEF ViewerRelay, TypeOK
    <3>. QED  BY <2>13, <3>1 DEF ViewerRelay, TypeOK
  <2>14. ASSUME NEW v \in ViewerSockets, OtherViewerFrame(v)
        PROVE  TypeOK'
    BY <2>14, CloseFromServerType DEF OtherViewerFrame, TypeOK
  <2>15. ASSUME NEW v \in ViewerSockets, ViewerGone(v)
        PROVE  TypeOK'
    <3>1. out' \in [Sockets -> Seq(Message)]
      BY <2>15, SentType, MessageType DEF ViewerGone, TypeOK
    <3>. QED  BY <2>15, <3>1 DEF ViewerGone, TypeOK, States
  <2>16. CASE Restart
    BY <2>16 DEF Restart, TypeOK, States
  <2>17. CASE UNCHANGED vars
    BY <2>17 DEF vars, TypeOK
  <2>. QED
    BY <2>1, <2>2, <2>3, <2>4, <2>5, <2>6, <2>7, <2>8, <2>9, <2>10, <2>11, <2>12,
       <2>13, <2>14, <2>15, <2>16, <2>17
    DEF Next, HostNext, ViewerNext
<1>. QED  BY <1>1, <1>2, PTL DEF Spec
-----------------------------------------------------------------------------
(***************************************************************************)
(* Ownership.  AuthedKeyIsOwner is not inductive alone: a connection that  *)
(* has not been accepted must not carry a verification or an authenticated *)
(* attachment, and an accepted one has a key.                              *)
(***************************************************************************)
OwnerInv ==
    /\ \A h \in HostSockets : ready[h] = "none" => ~authed[h] /\ verifying[h] = 0
    /\ \A h \in HostSockets : ready[h] # "none" => key[h] \in Keys
    /\ AuthedKeyIsOwner

\* What close() does to one readyState: it never opens a socket, never makes one
\* unaccepted, and its own argument is not OPEN afterwards.
LEMMA ClosingEffect ==
    ASSUME NEW r \in [Sockets -> States], NEW ws, NEW x \in Sockets
    PROVE  /\ Closing(r, ws)[x] = "none" <=> r[x] = "none"
           /\ Closing(r, ws)[x] = "open" => r[x] = "open" /\ x # ws
           /\ x # ws => Closing(r, ws)[x] = r[x]
BY DEF Closing, States

\* A step leaves an authenticated connection's claim on the ID intact: ownership
\* holds whatever runs during `await verifyEd25519`.
LEMMA OwnerInvStep ==
    ASSUME TypeOK, OwnerInv, [Next]_vars
    PROVE  OwnerInv'
<1>. USE DEF Sockets
<1>0. ready \in [Sockets -> States] /\ NoKey \notin Keys
  BY SocketAssumption DEF TypeOK
<1>1. ASSUME NEW h \in HostSockets, NEW k \in Keys, NEW claim \in BOOLEAN, AcceptHost(h, k, claim)
      PROVE  OwnerInv'
  BY <1>0, <1>1 DEF AcceptHost, OwnerInv, AuthedKeyIsOwner, TypeOK
<1>2. ASSUME NEW ws, NEW c, CloseFromServer(ws, c),
             UNCHANGED <<owner, key, authed>>, \A h \in HostSockets : verifying'[h] \in {0, verifying[h]}
      PROVE  OwnerInv'
  <2>1. \A x \in Sockets : ready'[x] = "none" <=> ready[x] = "none"
    BY <1>0, <1>2, ClosingEffect DEF CloseFromServer
  <2>. QED  BY <2>1, <1>2 DEF OwnerInv, AuthedKeyIsOwner
<1>3. ASSUME NEW h \in HostSockets, RejectAuth(h)
      PROVE  OwnerInv'
  <2>1. \A x \in Sockets : ready'[x] = "none" <=> ready[x] = "none"
    BY <1>0, <1>3, ClosingEffect DEF RejectAuth, CloseFromServer
  <2>2. \A g \in HostSockets : verifying[g] = 0 => verifying'[g] = 0
    BY <1>3 DEF RejectAuth, TypeOK
  <2>. QED  BY <2>1, <2>2, <1>3 DEF RejectAuth, OwnerInv, AuthedKeyIsOwner
<1>4. ASSUME NEW h \in HostSockets, AuthFrame(h)
      PROVE  OwnerInv'
  BY <1>4 DEF AuthFrame, Delivers, OwnerInv, AuthedKeyIsOwner, TypeOK
<1>5. ASSUME NEW h \in HostSockets, ConfirmAuth(h)
      PROVE  OwnerInv'
  <2>1. \A x \in Sockets : Closing(Closing(ready, OpenViewer), AuthedHost)[x] = "none" <=> ready[x] = "none"
    BY <1>0, ClosingType, ClosingEffect
  <2>2. \A x \in Sockets : ready'[x] = "none" <=> ready[x] = "none"
    BY <1>5, <2>1 DEF ConfirmAuth
  <2>3. \A g \in HostSockets : verifying[g] = 0 => verifying'[g] = 0
    BY <1>5 DEF ConfirmAuth, TypeOK
  <2>4. ready[h] # "none" /\ key[h] \in Keys
    BY <1>5 DEF ConfirmAuth, OwnerInv
  <2>5. owner' = key[h] /\ key' = key /\ owner \in {NoKey, key[h]}
    BY <1>5 DEF ConfirmAuth
  <2>6. \A g \in HostSockets : authed'[g] => g = h \/ authed[g]
    BY <1>5 DEF ConfirmAuth
  <2>7. \A g \in HostSockets : authed'[g] => key[g] = key[h]
    BY <2>5, <2>6 DEF OwnerInv, AuthedKeyIsOwner
  <2>8. \A g \in HostSockets : ready[g] = "none" => ~authed'[g]
    BY <2>4, <2>6 DEF OwnerInv
  <2>. QED  BY <1>0, <2>2, <2>3, <2>4, <2>5, <2>7, <2>8 DEF OwnerInv, AuthedKeyIsOwner
<1>6. ASSUME NEW h \in HostSockets, HostGone(h)
      PROVE  OwnerInv'
  <2>1. \A x \in Sockets : Closing(ready, OpenViewer)[x] = "none" <=> ready[x] = "none"
    BY <1>0, ClosingEffect
  <2>2. Closing(ready, OpenViewer) \in [Sockets -> States]
    BY <1>0, ClosingType
  <2>3. ready[h] # "none"
    BY <1>6 DEF HostGone, GoneEventDue
  <2>4. \A x \in HostSockets : ready'[x] = "none" <=> ready[x] = "none"
    BY <1>0, <1>6, <2>1, <2>2, <2>3 DEF HostGone
  <2>5. \A g \in HostSockets : authed'[g] => authed[g]
    BY <1>6 DEF HostGone, TypeOK
  <2>. QED  BY <1>6, <2>4, <2>5 DEF HostGone, OwnerInv, AuthedKeyIsOwner
<1>7. ASSUME UNCHANGED <<owner, key, authed, verifying>>,
             \A x \in HostSockets : ready'[x] = "none" <=> ready[x] = "none"
      PROVE  OwnerInv'
  BY <1>7 DEF OwnerInv, AuthedKeyIsOwner
<1>8. ASSUME NEW ws \in Sockets, SocketDrops(ws)
      PROVE  OwnerInv'
  BY <1>0, <1>7, <1>8 DEF SocketDrops
<1>9. ASSUME NEW v \in ViewerSockets, AcceptViewer(v) \/ ViewerGone(v)
      PROVE  OwnerInv'
  BY <1>0, <1>7, <1>9, SocketAssumption DEF AcceptViewer, ViewerGone
<1>10. CASE Restart
  <2>1. \A x \in Sockets : ready'[x] = "none" <=> ready[x] = "none"
    BY <1>10 DEF Restart
  <2>. QED  BY <1>10, <2>1 DEF Restart, OwnerInv, AuthedKeyIsOwner
<1>11. ASSUME NEW ws \in Sockets, NEW c, BadFrame(ws, c)
       PROVE  OwnerInv'
  BY <1>2, <1>11 DEF BadFrame
<1>12. ASSUME NEW h \in HostSockets, UnauthedFrame(h) \/ HostKick(h) \/ OtherHostFrame(h)
       PROVE  OwnerInv'
  BY <1>2, <1>12 DEF UnauthedFrame, HostKick, OtherHostFrame
<1>13. ASSUME NEW v \in ViewerSockets, OtherViewerFrame(v)
       PROVE  OwnerInv'
  BY <1>2, <1>13 DEF OtherViewerFrame
<1>14. ASSUME NEW h \in HostSockets, NEW d \in Data, HostRelay(h, d)
       PROVE  OwnerInv'
  BY <1>7, <1>14 DEF HostRelay
<1>15. ASSUME NEW v \in ViewerSockets, NEW d \in Data, ViewerRelay(v, d)
       PROVE  OwnerInv'
  BY <1>7, <1>15 DEF ViewerRelay
<1>16. CASE UNCHANGED vars
  BY <1>7, <1>16 DEF vars
<1>. QED
  BY <1>1, <1>3, <1>4, <1>5, <1>6, <1>8, <1>9, <1>10, <1>11, <1>12, <1>13, <1>14, <1>15, <1>16
  DEF Next, HostNext, ViewerNext

\* The room binds an ID to the first key that proves itself and authenticates only
\* connections under that key, however claims and verifications interleave.
THEOREM Ownership == Spec => []AuthedKeyIsOwner
<1>1. Init => OwnerInv
  BY DEF Init, OwnerInv, AuthedKeyIsOwner, Sockets
<1>2. OwnerInv => AuthedKeyIsOwner
  BY DEF OwnerInv
<1>. QED  BY <1>1, <1>2, TypeCorrect, OwnerInvStep, PTL DEF Spec

\* An owned ID never changes hands: authenticate() compares the owner after its
\* await and stores a key only while none is stored.
THEOREM OwnerNeverChanges == Spec => OwnerKept
<1>1. ASSUME [Next]_vars PROVE [owner # NoKey => owner' = owner]_vars
  <2>1. ASSUME NEW h \in HostSockets, ConfirmAuth(h), owner # NoKey PROVE owner' = owner
    BY <2>1 DEF ConfirmAuth
  <2>. QED
    BY <1>1, <2>1
    DEF Next, HostNext, ViewerNext, AcceptHost, BadFrame, UnauthedFrame, AuthFrame, RejectAuth,
        HostRelay, HostKick, OtherHostFrame, SocketDrops, HostGone, AcceptViewer, ViewerRelay,
        OtherViewerFrame, ViewerGone, Restart
<1>. QED  BY <1>1, PTL DEF Spec, OwnerKept
-----------------------------------------------------------------------------
(***************************************************************************)
(* One waiting host, one viewer.                                           *)
(***************************************************************************)
SessionInv == OneAuthedHost /\ OneOpenViewer

\* A step that opens no socket and authenticates no connection adds neither a
\* waiting host nor a viewer.
LEMMA ShrinkingStep ==
    ASSUME SessionInv,
           \A x \in Sockets : ready'[x] = "open" => ready[x] = "open",
           \A h \in HostSockets : authed'[h] => authed[h]
    PROVE  SessionInv'
BY DEF SessionInv, OneAuthedHost, OneOpenViewer, AuthedHosts, OpenViewers, Sockets

\* A step keeps the waiting host and the viewer unique.
LEMMA SessionInvStep ==
    ASSUME TypeOK, OwnerInv, SessionInv, [Next]_vars
    PROVE  SessionInv'
<1>. USE DEF Sockets
<1>0. ready \in [Sockets -> States] /\ authed \in [HostSockets -> BOOLEAN]
  BY DEF TypeOK
<1>1. ASSUME NEW h \in HostSockets, NEW k \in Keys, NEW claim \in BOOLEAN, AcceptHost(h, k, claim)
      PROVE  SessionInv'
  <2>1. AuthedHosts' \subseteq AuthedHosts
    BY <1>0, <1>1 DEF AcceptHost, AuthedHosts, OwnerInv
  <2>2. OpenViewers' \subseteq OpenViewers
    BY <1>0, <1>1, SocketAssumption DEF AcceptHost, OpenViewers
  <2>. QED  BY <2>1, <2>2 DEF SessionInv, OneAuthedHost, OneOpenViewer
<1>2. ASSUME NEW ws, NEW c, CloseFromServer(ws, c), UNCHANGED authed
      PROVE  SessionInv'
  <2>1. \A x \in Sockets : ready'[x] = "open" => ready[x] = "open"
    BY <1>0, <1>2, ClosingEffect DEF CloseFromServer
  <2>. QED  BY <2>1, <1>2, ShrinkingStep
<1>3. ASSUME NEW h \in HostSockets, ConfirmAuth(h)
      PROVE  SessionInv'
  <2>1. \A x \in Sockets : Closing(Closing(ready, OpenViewer), AuthedHost)[x] = "open" => ready[x] = "open"
    BY <1>0, ClosingType, ClosingEffect
  <2>2. \A x \in Sockets : ready'[x] = "open" => ready[x] = "open"
    BY <1>3, <2>1 DEF ConfirmAuth
  <2>3. \A g \in HostSockets : g # h /\ authed'[g] => authed[g] /\ (AuthedHost = NoSocket \/ AuthedHost = h \/ g # AuthedHost)
    BY <1>3 DEF ConfirmAuth
  <2>4. \A g \in AuthedHosts : AuthedHost = g
    BY DEF SessionInv, OneAuthedHost, AuthedHost
  <2>5. \A g \in AuthedHosts' : g = h
    <3>1. SUFFICES ASSUME NEW g \in AuthedHosts', g # h PROVE FALSE
      OBVIOUS
    <3>2. g \in HostSockets /\ ready[g] = "open" /\ authed[g]
      BY <2>2, <2>3, <3>1 DEF AuthedHosts
    <3>3. g = AuthedHost /\ AuthedHost # NoSocket
      BY <2>4, <3>2, SocketAssumption DEF AuthedHosts
    <3>. QED  BY <2>3, <3>1, <3>2, <3>3 DEF AuthedHosts
  <2>6. OpenViewers' \subseteq OpenViewers
    BY <2>2 DEF OpenViewers
  <2>. QED  BY <2>5, <2>6 DEF SessionInv, OneAuthedHost, OneOpenViewer
<1>4. ASSUME NEW h \in HostSockets, HostGone(h)
      PROVE  SessionInv'
  <2>1. \A x \in Sockets : Closing(ready, OpenViewer)[x] = "open" => ready[x] = "open"
    BY <1>0, ClosingEffect
  <2>2. Closing(ready, OpenViewer) \in [Sockets -> States]
    BY <1>0, ClosingType
  <2>3. \A x \in Sockets : ready'[x] = "open" => ready[x] = "open"
    BY <1>0, <1>4, <2>1, <2>2 DEF HostGone
  <2>4. \A g \in HostSockets : authed'[g] => authed[g]
    BY <1>0, <1>4 DEF HostGone
  <2>. QED  BY <2>3, <2>4, ShrinkingStep
<1>5. ASSUME NEW v \in ViewerSockets, AcceptViewer(v)
      PROVE  SessionInv'
  <2>1. OpenViewers = {}
    BY <1>5, SocketAssumption DEF AcceptViewer, ViewerResponse, OpenViewer, OpenViewers
  <2>2. OpenViewers' \subseteq {v}
    BY <1>0, <1>5, <2>1 DEF AcceptViewer, OpenViewers
  <2>3. AuthedHosts' = AuthedHosts
    BY <1>0, <1>5, SocketAssumption DEF AcceptViewer, AuthedHosts
  <2>. QED  BY <2>2, <2>3 DEF SessionInv, OneAuthedHost, OneOpenViewer
<1>6. ASSUME UNCHANGED authed, \A x \in Sockets : ready'[x] = "open" => ready[x] = "open"
      PROVE  SessionInv'
  BY <1>6, ShrinkingStep
<1>7. ASSUME NEW ws \in Sockets, SocketDrops(ws)
      PROVE  SessionInv'
  BY <1>0, <1>6, <1>7 DEF SocketDrops
<1>8. ASSUME NEW v \in ViewerSockets, ViewerGone(v)
      PROVE  SessionInv'
  BY <1>0, <1>6, <1>8 DEF ViewerGone
<1>9. CASE Restart
  BY <1>6, <1>9 DEF Restart
<1>10. ASSUME NEW ws \in Sockets, NEW c, BadFrame(ws, c)
       PROVE  SessionInv'
  BY <1>2, <1>10 DEF BadFrame
<1>11. ASSUME NEW h \in HostSockets, UnauthedFrame(h) \/ RejectAuth(h) \/ HostKick(h) \/ OtherHostFrame(h)
       PROVE  SessionInv'
  BY <1>2, <1>11 DEF UnauthedFrame, RejectAuth, HostKick, OtherHostFrame
<1>12. ASSUME NEW v \in ViewerSockets, OtherViewerFrame(v)
       PROVE  SessionInv'
  BY <1>2, <1>12 DEF OtherViewerFrame
<1>13. ASSUME NEW h \in HostSockets, NEW d \in Data, HostRelay(h, d)
       PROVE  SessionInv'
  BY <1>6, <1>13 DEF HostRelay
<1>14. ASSUME NEW v \in ViewerSockets, NEW d \in Data, ViewerRelay(v, d)
       PROVE  SessionInv'
  BY <1>6, <1>14 DEF ViewerRelay
<1>15. ASSUME NEW h \in HostSockets, AuthFrame(h)
       PROVE  SessionInv'
  BY <1>6, <1>15 DEF AuthFrame
<1>16. CASE UNCHANGED vars
  BY <1>6, <1>16 DEF vars
<1>. QED
  BY <1>1, <1>3, <1>4, <1>5, <1>7, <1>8, <1>9, <1>10, <1>11, <1>12, <1>13, <1>14, <1>15, <1>16
  DEF Next, HostNext, ViewerNext

\* One connection is the waiting host and one viewer is connected at a time, with
\* any number of authentications in flight.
THEOREM OneSession == Spec => [](OneAuthedHost /\ OneOpenViewer)
<1>1. Init => OwnerInv /\ SessionInv
  BY DEF Init, OwnerInv, AuthedKeyIsOwner, SessionInv, OneAuthedHost, OneOpenViewer,
         AuthedHosts, OpenViewers, Sockets
<1>2. SessionInv => OneAuthedHost /\ OneOpenViewer
  BY DEF SessionInv
<1>. QED  BY <1>1, <1>2, TypeCorrect, OwnerInvStep, SessionInvStep, PTL DEF Spec
-----------------------------------------------------------------------------
(***************************************************************************)
(* Every session has an end.                                               *)
(***************************************************************************)

\* Queues p hold what queues o hold, and perhaps more.
Longer(o, p) ==
    \A x \in Sockets : \A i \in DOMAIN o[x] : i \in DOMAIN p[x] /\ p[x][i] = o[x][i]

\* Appending loses nothing.
LEMMA AppendLonger ==
    ASSUME NEW o \in [Sockets -> Seq(Message)], NEW ws \in Sockets, NEW m \in Message
    PROVE  Longer(o, [o EXCEPT ![ws] = Append(o[ws], m)])
<1>1. ASSUME NEW x \in Sockets, NEW i \in DOMAIN o[x]
      PROVE  /\ i \in DOMAIN [o EXCEPT ![ws] = Append(o[ws], m)][x]
             /\ [o EXCEPT ![ws] = Append(o[ws], m)][x][i] = o[x][i]
  <2>1. CASE x = ws
    <3>1. [o EXCEPT ![ws] = Append(o[ws], m)][x] = Append(o[x], m) /\ o[x] \in Seq(Message)
      BY <2>1
    <3>2. i \in DOMAIN Append(o[x], m) /\ Append(o[x], m)[i] = o[x][i]
      BY <1>1, <3>1
    <3>. QED  BY <3>1, <3>2
  <2>2. CASE x # ws
    BY <1>1, <2>2
  <2>. QED  BY <2>1, <2>2
<1>. QED  BY <1>1 DEF Longer

\* Nor does sending.
LEMMA SentLonger ==
    ASSUME NEW o \in [Sockets -> Seq(Message)], NEW ws, NEW m \in Message
    PROVE  Longer(o, Sent(o, ws, m))
<1>1. CASE ws \in Sockets /\ ready[ws] = "open"
  BY <1>1, AppendLonger DEF Sent
<1>2. CASE ~(ws \in Sockets /\ ready[ws] = "open")
  BY <1>2 DEF Sent, Longer
<1>. QED  BY <1>1, <1>2

\* Growing twice is growing.
LEMMA LongerTwice == ASSUME NEW o, NEW p, NEW q, Longer(o, p), Longer(p, q) PROVE Longer(o, q)
BY DEF Longer

\* What hostGone sends is added to the queues.
LEMMA HostGoneLonger ==
    ASSUME NEW o \in [Sockets -> Seq(Message)] PROVE Longer(o, HostGoneOut(o))
<1>1. Sent(o, OpenViewer, HostLeft) \in [Sockets -> Seq(Message)]
  BY SentType, MessageType
<1>2. Longer(o, Sent(o, OpenViewer, HostLeft))
  BY SentLonger, MessageType
<1>3. Longer(Sent(o, OpenViewer, HostLeft), HostGoneOut(o))
  BY <1>1, SentLonger, MessageType DEF HostGoneOut
<1>. QED  BY <1>2, <1>3, LongerTwice

\* A step that lets no viewer in and takes no authenticated connection away.
LEMMA SessionsGoOn ==
    ASSUME SessionWillEnd, Longer(out, out'),
           \A v \in ViewerSockets : ready'[v] = "open" => ready[v] = "open",
           \A h \in HostSockets : authed[h] /\ ready[h] \in {"open", "closing"}
              => authed'[h] /\ ready'[h] \in {"open", "closing"}
    PROVE  SessionWillEnd'
<1>. SUFFICES ASSUME NEW v \in ViewerSockets, ready'[v] = "open"
              PROVE  \E h \in HostSockets : /\ \E i \in DOMAIN out'[h] : out'[h][i] = ViewerJoined(v)
                                            /\ authed'[h] /\ ready'[h] \in {"open", "closing"}
  BY DEF SessionWillEnd, Has, OpenViewers, ViewerJoined
<1>1. PICK h \in HostSockets : /\ \E i \in DOMAIN out[h] : out[h][i] = ViewerJoined(v)
                               /\ authed[h] /\ ready[h] \in {"open", "closing"}
  BY DEF SessionWillEnd, Has, OpenViewers
<1>2. \E i \in DOMAIN out'[h] : out'[h][i] = ViewerJoined(v)
  BY <1>1 DEF Longer, Sockets
<1>. QED  BY <1>1, <1>2

\* A step that leaves no viewer connected.
LEMMA SessionsOver ==
    ASSUME \A v \in ViewerSockets : ready'[v] # "open" PROVE SessionWillEnd'
BY DEF SessionWillEnd, OpenViewers

\* A step keeps the end of each session in sight.
LEMMA SessionWillEndStep ==
    ASSUME TypeOK, OwnerInv, SessionInv, SessionWillEnd, [Next]_vars
    PROVE  SessionWillEnd'
<1>. USE DEF Sockets
<1>0. /\ ready \in [Sockets -> States] /\ authed \in [HostSockets -> BOOLEAN]
      /\ out \in [Sockets -> Seq(Message)] /\ Longer(out, out)
  BY DEF TypeOK, Longer
<1>1. \A v \in ViewerSockets : ready[v] = "open" => v = OpenViewer
  BY DEF SessionInv, OneOpenViewer, OpenViewer, OpenViewers
<1>2. ASSUME NEW h \in HostSockets, NEW k \in Keys, NEW claim \in BOOLEAN, AcceptHost(h, k, claim)
      PROVE  SessionWillEnd'
  <2>1. Longer(out, out')
    BY <1>0, <1>2, AppendLonger, MessageType DEF AcceptHost
  <2>2. \A v \in ViewerSockets : ready'[v] = "open" => ready[v] = "open"
    BY <1>0, <1>2, SocketAssumption DEF AcceptHost
  <2>3. \A g \in HostSockets : ready[g] # "none" => ready'[g] = ready[g]
    BY <1>0, <1>2 DEF AcceptHost
  <2>. QED  BY <1>2, <2>1, <2>2, <2>3, SessionsGoOn DEF AcceptHost
<1>3. ASSUME NEW ws, NEW c \in {ProtocolError, Kicked, AuthFailed, TooBig},
             CloseFromServer(ws, c), UNCHANGED authed
      PROVE  SessionWillEnd'
  <2>1. Longer(out, out')
    BY <1>0, <1>3, SentLonger, MessageType DEF CloseFromServer
  <2>2. \A x \in Sockets : ready'[x] = "open" => ready[x] = "open"
    BY <1>0, <1>3, ClosingEffect DEF CloseFromServer
  <2>3. \A x \in Sockets : ready[x] \in {"open", "closing"} => ready'[x] \in {"open", "closing"}
    BY <1>0, <1>3 DEF CloseFromServer, Closing
  <2>. QED  BY <1>3, <2>1, <2>2, <2>3, SessionsGoOn
<1>4. ASSUME NEW h \in HostSockets, ConfirmAuth(h) PROVE SessionWillEnd'
  <2>1. CASE AuthedHost # NoSocket /\ AuthedHost # h
    <3>1. ready' = Closing(Closing(ready, OpenViewer), AuthedHost)
      BY <1>4, <2>1 DEF ConfirmAuth
    <3>2. \A v \in ViewerSockets : ready'[v] = "open" => ready[v] = "open" /\ v # OpenViewer
      BY <1>0, <3>1, ClosingType, ClosingEffect
    <3>. QED  BY <1>1, <3>2, SessionsOver
  <2>2. CASE ~(AuthedHost # NoSocket /\ AuthedHost # h)
    <3>1. out' = Sent(out, h, Registered) /\ ready' = ready
      BY <1>4, <2>2 DEF ConfirmAuth
    <3>2. Longer(out, out')
      BY <1>0, <3>1, SentLonger, MessageType
    <3>3. \A g \in HostSockets : authed[g] => authed'[g]
      BY <1>4, <2>2 DEF ConfirmAuth
    <3>. QED  BY <3>1, <3>2, <3>3, SessionsGoOn
  <2>. QED  BY <2>1, <2>2
<1>5. ASSUME NEW h \in HostSockets, HostGone(h) PROVE SessionWillEnd'
  <2>1. Closing(ready, OpenViewer) \in [Sockets -> States]
    BY <1>0, ClosingType
  <2>2. CASE authed[h]
    <3>1. ready' = [Closing(ready, OpenViewer) EXCEPT ![h] = "closed"]
      BY <1>5, <2>2 DEF HostGone
    <3>2. \A v \in ViewerSockets : ready'[v] = "open" => Closing(ready, OpenViewer)[v] = "open"
      BY <2>1, <3>1, SocketAssumption
    <3>3. \A v \in ViewerSockets : ready'[v] = "open" => ready[v] = "open" /\ v # OpenViewer
      BY <1>0, <3>2, ClosingEffect
    <3>. QED  BY <1>1, <3>3, SessionsOver
  <2>3. CASE ~authed[h]
    <3>1. /\ ready' = [ready EXCEPT ![h] = "closed"] /\ out' = out
          /\ authed' = [authed EXCEPT ![h] = FALSE]
      BY <1>5, <2>3 DEF HostGone
    <3>2. \A g \in HostSockets : authed[g] => authed'[g] /\ ready'[g] = ready[g]
      BY <1>0, <2>3, <3>1
    <3>3. \A v \in ViewerSockets : ready'[v] = "open" => ready[v] = "open"
      BY <1>0, <3>1
    <3>. QED  BY <1>0, <3>1, <3>2, <3>3, SessionsGoOn
  <2>. QED  BY <2>2, <2>3
<1>6. ASSUME NEW v \in ViewerSockets, AcceptViewer(v) PROVE SessionWillEnd'
  <2>1. OpenViewers = {} /\ AuthedHost # NoSocket
    BY <1>6, SocketAssumption DEF AcceptViewer, ViewerResponse, OpenViewer, OpenViewers
  <2>2. AuthedHost \in HostSockets /\ ready[AuthedHost] = "open" /\ authed[AuthedHost]
    BY <2>1, AuthedHostIs
  <2>3. \A w \in ViewerSockets : ready'[w] = "open" => w = v
    BY <1>0, <1>6, <2>1 DEF AcceptViewer, OpenViewers
  <2>. DEFINE g == AuthedHost
  <2>4. ready'[g] = "open" /\ authed'[g]
    BY <1>0, <1>6, <2>2, SocketAssumption DEF AcceptViewer
  <2>5. out'[g] = Append(out[g], ViewerJoined(v))
    BY <1>0, <1>6, <2>2, SocketAssumption DEF AcceptViewer
  <2>6. \E i \in DOMAIN out'[g] : out'[g][i] = ViewerJoined(v)
    <3>. HIDE DEF g
    <3>1. out[g] \in Seq(Message) /\ ViewerJoined(v) \in Message
      BY <1>0, <2>2, MessageType DEF g
    <3>2. /\ Len(out[g]) + 1 \in DOMAIN Append(out[g], ViewerJoined(v))
          /\ Append(out[g], ViewerJoined(v))[Len(out[g]) + 1] = ViewerJoined(v)
      BY <3>1
    <3>. QED  BY <2>5, <3>2
  <2>. HIDE DEF g
  <2>7. g \in HostSockets
    BY <2>2 DEF g
  <2>. QED  BY <2>3, <2>4, <2>6, <2>7 DEF SessionWillEnd, Has, OpenViewers, ViewerJoined
<1>7. ASSUME NEW ws \in Sockets, SocketDrops(ws) PROVE SessionWillEnd'
  <2>1. \A x \in Sockets : /\ ready'[x] = "open" => ready[x] = "open"
                           /\ ready[x] \in {"open", "closing"} => ready'[x] \in {"open", "closing"}
    BY <1>0, <1>7 DEF SocketDrops
  <2>. QED  BY <1>0, <1>7, <2>1, SessionsGoOn DEF SocketDrops
<1>8. ASSUME NEW v \in ViewerSockets, ViewerGone(v) PROVE SessionWillEnd'
  <2>1. Longer(out, out')
    BY <1>0, <1>8, SentLonger, MessageType DEF ViewerGone
  <2>2. ready' = [ready EXCEPT ![v] = "closed"] /\ UNCHANGED authed
    BY <1>8 DEF ViewerGone
  <2>3. \A h \in HostSockets : ready'[h] = ready[h]
    BY <1>0, <2>2, SocketAssumption
  <2>4. \A w \in ViewerSockets : ready'[w] = "open" => ready[w] = "open"
    BY <1>0, <2>2
  <2>. QED  BY <2>1, <2>2, <2>3, <2>4, SessionsGoOn
<1>9. CASE Restart
  <2>1. \A v \in ViewerSockets : ready'[v] # "open"
    BY <1>9 DEF Restart
  <2>. QED  BY <2>1, SessionsOver
<1>10. ASSUME NEW ws \in Sockets, NEW c \in {ProtocolError, TooBig}, BadFrame(ws, c)
       PROVE  SessionWillEnd'
  BY <1>3, <1>10 DEF BadFrame
<1>11. ASSUME NEW h \in HostSockets,
              UnauthedFrame(h) \/ RejectAuth(h) \/ HostKick(h) \/ OtherHostFrame(h)
       PROVE  SessionWillEnd'
  BY <1>3, <1>11 DEF UnauthedFrame, RejectAuth, HostKick, OtherHostFrame
<1>12. ASSUME NEW v \in ViewerSockets, OtherViewerFrame(v) PROVE SessionWillEnd'
  BY <1>3, <1>12 DEF OtherViewerFrame
<1>13. ASSUME Longer(out, out'), UNCHANGED <<ready, authed>> PROVE SessionWillEnd'
  BY <1>13, SessionsGoOn
<1>14. ASSUME NEW h \in HostSockets, NEW d \in Data, HostRelay(h, d) PROVE SessionWillEnd'
  BY <1>0, <1>13, <1>14, SentLonger, MessageType DEF HostRelay
<1>15. ASSUME NEW v \in ViewerSockets, NEW d \in Data, ViewerRelay(v, d) PROVE SessionWillEnd'
  BY <1>0, <1>13, <1>15, SentLonger, MessageType DEF ViewerRelay
<1>16. ASSUME NEW h \in HostSockets, AuthFrame(h) PROVE SessionWillEnd'
  BY <1>0, <1>13, <1>16 DEF AuthFrame
<1>17. CASE UNCHANGED vars
  BY <1>0, <1>13, <1>17 DEF vars
<1>. QED
  BY <1>2, <1>4, <1>5, <1>6, <1>7, <1>8, <1>9, <1>10, <1>11, <1>12, <1>14, <1>15, <1>16, <1>17
  DEF Next, HostNext, ViewerNext

\* A connected viewer was announced to a connection that is still authenticated and
\* whose close event is still to come, so hostGone will end its session: no takeover,
\* late close or restart strands it in the room's one slot (host-room.ts:116-161).
THEOREM SessionsAlwaysEnd == Spec => []SessionWillEnd
<1>1. Init => OwnerInv /\ SessionInv /\ SessionWillEnd
  BY DEF Init, OwnerInv, AuthedKeyIsOwner, SessionInv, OneAuthedHost, OneOpenViewer,
         AuthedHosts, OpenViewers, Sockets, SessionWillEnd
<1>. QED  BY <1>1, TypeCorrect, OwnerInvStep, SessionInvStep, SessionWillEndStep, PTL DEF Spec
-----------------------------------------------------------------------------
(***************************************************************************)
(* What the host is told.  A step adds at most one message to a host's log;*)
(* which one it can be, and who is connected then, carries the properties  *)
(* of the log.                                                             *)
(***************************************************************************)

\* What a sequence of messages is after one more.
LEMMA AppendAt ==
    ASSUME NEW s \in Seq(Message), NEW m \in Message
    PROVE  /\ Append(s, m) \in Seq(Message)
           /\ Len(s) \in Nat /\ Len(Append(s, m)) = Len(s) + 1
           /\ DOMAIN s = 1..Len(s) /\ DOMAIN Append(s, m) = 1..(Len(s) + 1)
           /\ \A i \in 1..Len(s) : Append(s, m)[i] = s[i]
           /\ Append(s, m)[Len(s) + 1] = m
OBVIOUS

\* The messages that announce nothing and carry nobody's data.
Plain == {m \in Message : m.t \notin {"viewer_joined", "viewer_left", "relay"}}

\* Challenge, registered and the close frames are plain.
LEMMA PlainMessages ==
    /\ Challenge \in Plain /\ Registered \in Plain
    /\ \A c \in {ProtocolError, Kicked, HostLeftCode, AuthFailed, Replaced, TooBig} :
          CloseFrame(c) \in Plain
BY MessageType DEF Plain, Challenge, Registered, CloseFrame

\* A send to one socket leaves the other queues alone and adds at most one message.
LEMMA SentEffect ==
    ASSUME NEW o \in [Sockets -> Seq(Message)], NEW ws, NEW m, NEW x \in Sockets
    PROVE  /\ x # ws => Sent(o, ws, m)[x] = o[x]
           /\ Sent(o, ws, m)[x] \in {o[x], Append(o[x], m)}
BY DEF Sent

\* hostGone sends to the viewer only.
LEMMA HostGoneKeepsOtherLogs ==
    ASSUME NEW o \in [Sockets -> Seq(Message)], NEW x \in Sockets, x # OpenViewer
    PROVE  HostGoneOut(o)[x] = o[x]
<1>1. Sent(o, OpenViewer, HostLeft) \in [Sockets -> Seq(Message)]
  BY SentType, MessageType
<1>2. Sent(o, OpenViewer, HostLeft)[x] = o[x]
  BY MessageType, SentEffect
<1>3. HostGoneOut(o)[x] = Sent(o, OpenViewer, HostLeft)[x]
  BY <1>1, MessageType, SentEffect DEF HostGoneOut
<1>. QED  BY <1>2, <1>3

\* The three ways a step says something about a viewer to host connection h.
Announces(h, m) == \E v \in ViewerSockets : AcceptViewer(v) /\ h = AuthedHost /\ m = ViewerJoined(v)
Forwards(h, m) == \E v \in ViewerSockets, d \in Data :
                     ViewerRelay(v, d) /\ h = AuthedHost /\ m = Relay(v, d)
Reports(h, m) == \E v \in ViewerSockets :
                    /\ ViewerGone(v) /\ ~closedByServer[v]
                    /\ h = AuthedHost /\ m = ViewerLeft(v)
Logs(h, m) == out'[h] = Append(out[h], m) /\ (m \in Plain \/ Announces(h, m) \/ Forwards(h, m) \/ Reports(h, m))

\* Every step leaves a host's log as it is or adds one such message.
LEMMA LogStep ==
    ASSUME TypeOK, [Next]_vars, NEW h \in HostSockets
    PROVE  out'[h] = out[h] \/ \E m \in Message : Logs(h, m)
<1>. USE DEF Sockets
<1>0. out \in [Sockets -> Seq(Message)] /\ Plain \subseteq Message /\ h \in Sockets
  BY DEF TypeOK, Plain
<1>1. ASSUME NEW m \in Plain, out'[h] = Append(out[h], m) PROVE \E n \in Message : Logs(h, n)
  BY <1>0, <1>1 DEF Logs
<1>2. ASSUME NEW g \in HostSockets, NEW k, NEW claim, AcceptHost(g, k, claim)
      PROVE  out'[h] = out[h] \/ \E m \in Message : Logs(h, m)
  <2>1. out'[h] = out[h] \/ out'[h] = Append(out[h], Challenge)
    BY <1>0, <1>2 DEF AcceptHost
  <2>. QED  BY <1>1, <2>1, PlainMessages
<1>3. ASSUME NEW ws, NEW c \in {ProtocolError, Kicked, AuthFailed, TooBig}, CloseFromServer(ws, c)
      PROVE  out'[h] = out[h] \/ \E m \in Message : Logs(h, m)
  <2>1. out'[h] = out[h] \/ out'[h] = Append(out[h], CloseFrame(c))
    BY <1>0, <1>3, SentEffect DEF CloseFromServer
  <2>. QED  BY <1>1, <2>1, PlainMessages
<1>4. ASSUME NEW g \in HostSockets, ConfirmAuth(g)
      PROVE  out'[h] = out[h] \/ \E m \in Message : Logs(h, m)
  <2>. DEFINE o == HostGoneOut(out)
              p == Sent(o, AuthedHost, CloseFrame(Replaced))
  <2>1. o \in [Sockets -> Seq(Message)] /\ o[h] = out[h]
    BY <1>0, OpenViewerIs, SocketAssumption, HostGoneOutType, HostGoneKeepsOtherLogs
  <2>. HIDE DEF o
  <2>2. p \in [Sockets -> Seq(Message)]
    BY <2>1, SentType, MessageType
  <2>3. /\ h # AuthedHost => p[h] = out[h]
        /\ p[h] \in {out[h], Append(out[h], CloseFrame(Replaced))}
    BY <1>0, <2>1, SentEffect
  <2>. HIDE DEF p
  <2>4. CASE AuthedHost # NoSocket /\ AuthedHost # g
    <3>1. out' = Sent(p, g, Registered)
      BY <1>4, <2>4 DEF ConfirmAuth, o, p
    <3>2. /\ h # g => out'[h] = p[h]
          /\ out'[h] \in {p[h], Append(p[h], Registered)}
      BY <1>0, <2>2, <3>1, SentEffect
    <3>3. out'[h] \in {out[h], Append(out[h], CloseFrame(Replaced)), Append(out[h], Registered)}
      BY <2>3, <2>4, <3>2
    <3>. QED  BY <1>1, <3>3, PlainMessages
  <2>5. CASE ~(AuthedHost # NoSocket /\ AuthedHost # g)
    <3>1. out' = Sent(out, g, Registered)
      BY <1>4, <2>5 DEF ConfirmAuth
    <3>2. out'[h] \in {out[h], Append(out[h], Registered)}
      BY <1>0, <3>1, SentEffect
    <3>. QED  BY <1>1, <3>2, PlainMessages
  <2>. QED  BY <2>4, <2>5
<1>5. ASSUME NEW g \in HostSockets, NEW d \in Data, HostRelay(g, d) PROVE out'[h] = out[h]
  <2>1. h # OpenViewer
    BY OpenViewerIs, SocketAssumption
  <2>. QED  BY <1>0, <1>5, <2>1, SentEffect DEF HostRelay
<1>6. ASSUME NEW g \in HostSockets, HostGone(g) PROVE out'[h] = out[h]
  BY <1>0, <1>6, OpenViewerIs, SocketAssumption, HostGoneKeepsOtherLogs DEF HostGone
<1>7. ASSUME NEW v \in ViewerSockets, AcceptViewer(v)
      PROVE  out'[h] = out[h] \/ \E m \in Message : Logs(h, m)
  <2>1. v # h /\ AuthedHost # v
    BY <1>0, AuthedHostIs, SocketAssumption
  <2>2. CASE h = AuthedHost
    <3>1. out'[h] = Append(out[h], ViewerJoined(v))
      BY <1>0, <1>7, <2>1, <2>2 DEF AcceptViewer
    <3>2. ViewerJoined(v) \in Message
      BY MessageType
    <3>. QED  BY <1>7, <2>2, <3>1, <3>2 DEF Logs, Announces
  <2>3. CASE h # AuthedHost
    BY <1>0, <1>7, <2>1, <2>3 DEF AcceptViewer
  <2>. QED  BY <2>2, <2>3
<1>8. ASSUME NEW v \in ViewerSockets, NEW d \in Data, ViewerRelay(v, d)
      PROVE  out'[h] = out[h] \/ \E m \in Message : Logs(h, m)
  <2>1. /\ h # AuthedHost => out'[h] = out[h]
        /\ out'[h] \in {out[h], Append(out[h], Relay(v, d))}
    BY <1>0, <1>8, SentEffect DEF ViewerRelay
  <2>2. Relay(v, d) \in Message
    BY MessageType
  <2>. QED  BY <1>8, <2>1, <2>2 DEF Logs, Forwards
<1>9. ASSUME NEW v \in ViewerSockets, ViewerGone(v)
      PROVE  out'[h] = out[h] \/ \E m \in Message : Logs(h, m)
  <2>1. CASE closedByServer[v]
    BY <1>9, <2>1 DEF ViewerGone
  <2>2. CASE ~closedByServer[v]
    <3>1. /\ h # AuthedHost => out'[h] = out[h]
          /\ out'[h] \in {out[h], Append(out[h], ViewerLeft(v))}
      BY <1>0, <1>9, <2>2, SentEffect DEF ViewerGone
    <3>2. ViewerLeft(v) \in Message
      BY MessageType
    <3>. QED  BY <1>9, <2>2, <3>1, <3>2 DEF Logs, Reports
  <2>. QED  BY <2>1, <2>2
<1>10. ASSUME NEW ws \in Sockets, NEW c \in {ProtocolError, TooBig}, BadFrame(ws, c)
       PROVE  out'[h] = out[h] \/ \E m \in Message : Logs(h, m)
  BY <1>3, <1>10 DEF BadFrame
<1>11. ASSUME NEW g \in HostSockets,
              UnauthedFrame(g) \/ RejectAuth(g) \/ HostKick(g) \/ OtherHostFrame(g)
       PROVE  out'[h] = out[h] \/ \E m \in Message : Logs(h, m)
  BY <1>3, <1>11 DEF UnauthedFrame, RejectAuth, HostKick, OtherHostFrame
<1>12. ASSUME NEW v \in ViewerSockets, OtherViewerFrame(v)
       PROVE  out'[h] = out[h] \/ \E m \in Message : Logs(h, m)
  BY <1>3, <1>12 DEF OtherViewerFrame
<1>13. ASSUME NEW ws \in Sockets, SocketDrops(ws) PROVE out'[h] = out[h]
  BY <1>13 DEF SocketDrops
<1>14. ASSUME NEW g \in HostSockets, AuthFrame(g) PROVE out'[h] = out[h]
  BY <1>14 DEF AuthFrame
<1>15. CASE Restart
  BY <1>15 DEF Restart
<1>16. CASE UNCHANGED vars
  BY <1>16 DEF vars
<1>. QED
  BY <1>2, <1>4, <1>5, <1>6, <1>7, <1>8, <1>9, <1>10, <1>11, <1>12, <1>13, <1>14, <1>15, <1>16
  DEF Next, HostNext, ViewerNext

\* How a step changes who is connected: viewers come in only through acceptViewer, a
\* host waits only after it was open, and a connection that was authenticated never
\* becomes one that is open and not authenticated.
LEMMA SocketStep ==
    ASSUME TypeOK, OwnerInv, SessionInv, [Next]_vars
    PROVE  /\ \A v \in ViewerSockets : ready'[v] = "open" => ready[v] = "open" \/ AcceptViewer(v)
           /\ \A h \in HostSockets : ready'[h] = "open" /\ authed'[h] => ready[h] = "open"
           /\ \A h \in HostSockets : ready'[h] \in {"none", "open"} /\ ~authed'[h]
                 => ready[h] \in {"none", "open"} /\ ~authed[h]
<1>. DEFINE Goal ==
        /\ \A v \in ViewerSockets : ready'[v] = "open" => ready[v] = "open" \/ AcceptViewer(v)
        /\ \A h \in HostSockets : ready'[h] = "open" /\ authed'[h] => ready[h] = "open"
        /\ \A h \in HostSockets : ready'[h] \in {"none", "open"} /\ ~authed'[h]
              => ready[h] \in {"none", "open"} /\ ~authed[h]
<1>. SUFFICES Goal
  OBVIOUS
<1>. USE DEF Sockets
<1>0. ready \in [Sockets -> States] /\ authed \in [HostSockets -> BOOLEAN]
  BY DEF TypeOK
<1>1. ASSUME NEW h \in HostSockets, NEW k, NEW claim, AcceptHost(h, k, claim) PROVE Goal
  BY <1>0, <1>1, SocketAssumption DEF AcceptHost, OwnerInv
<1>2. ASSUME UNCHANGED authed,
             \A x \in Sockets : ready'[x] \in {"none", "open"} => ready'[x] = ready[x]
      PROVE  Goal
  BY <1>2
<1>3. ASSUME NEW ws, NEW c, CloseFromServer(ws, c), UNCHANGED authed PROVE Goal
  <2>1. \A x \in Sockets : ready'[x] \in {"none", "open"} => ready'[x] = ready[x]
    BY <1>0, <1>3, ClosingEffect DEF CloseFromServer
  <2>. QED  BY <1>2, <1>3, <2>1
<1>4. ASSUME NEW h \in HostSockets, ConfirmAuth(h) PROVE Goal
  <2>1. \A x \in Sockets : Closing(Closing(ready, OpenViewer), AuthedHost)[x] \in {"none", "open"}
          => Closing(Closing(ready, OpenViewer), AuthedHost)[x] = ready[x] /\ (ready[x] = "open" => x # AuthedHost)
    BY <1>0, ClosingType, ClosingEffect
  <2>2. \A x \in Sockets : ready'[x] \in {"none", "open"} => ready'[x] = ready[x]
    BY <1>4, <2>1 DEF ConfirmAuth
  <2>3. \A g \in HostSockets : ready'[g] \in {"none", "open"} /\ ~authed'[g] => ~authed[g]
    <3>1. SUFFICES ASSUME NEW g \in HostSockets, ready'[g] \in {"none", "open"}, ~authed'[g], authed[g]
                   PROVE  FALSE
      OBVIOUS
    <3>2. g # h /\ AuthedHost # NoSocket /\ AuthedHost # h /\ g = AuthedHost
      BY <1>4, <3>1 DEF ConfirmAuth
    <3>3. ready' = Closing(Closing(ready, OpenViewer), AuthedHost)
      BY <1>4, <3>2 DEF ConfirmAuth
    <3>. QED  BY <2>1, <3>1, <3>2, <3>3, AuthedHostIs
  <2>. QED  BY <2>2, <2>3
<1>5. ASSUME NEW h \in HostSockets, HostGone(h) PROVE Goal
  <2>1. \A x \in Sockets : Closing(ready, OpenViewer)[x] \in {"none", "open"}
                             => Closing(ready, OpenViewer)[x] = ready[x]
    BY <1>0, ClosingEffect
  <2>2. Closing(ready, OpenViewer) \in [Sockets -> States]
    BY <1>0, ClosingType
  <2>3. \A x \in Sockets : ready'[x] \in {"none", "open"} => ready'[x] = ready[x] /\ x # h
    BY <1>0, <1>5, <2>1, <2>2 DEF HostGone
  <2>4. \A g \in HostSockets : g # h => authed'[g] = authed[g]
    BY <1>0, <1>5 DEF HostGone
  <2>. QED  BY <2>3, <2>4
<1>6. ASSUME NEW v \in ViewerSockets, AcceptViewer(v) PROVE Goal
  <2>1. \A w \in ViewerSockets : ready'[w] = "open" => ready[w] = "open" \/ AcceptViewer(w)
    BY <1>0, <1>6 DEF AcceptViewer
  <2>2. \A h \in HostSockets : ready'[h] = ready[h] /\ authed'[h] = authed[h]
    BY <1>0, <1>6, SocketAssumption DEF AcceptViewer
  <2>. QED  BY <2>1, <2>2
<1>7. ASSUME NEW ws \in Sockets, SocketDrops(ws) PROVE Goal
  <2>1. \A x \in Sockets : ready'[x] \in {"none", "open"} => ready'[x] = ready[x]
    BY <1>0, <1>7 DEF SocketDrops
  <2>. QED  BY <1>2, <1>7, <2>1 DEF SocketDrops
<1>8. ASSUME NEW v \in ViewerSockets, ViewerGone(v) PROVE Goal
  <2>1. \A x \in Sockets : ready'[x] \in {"none", "open"} => ready'[x] = ready[x]
    BY <1>0, <1>8 DEF ViewerGone
  <2>. QED  BY <1>2, <1>8, <2>1 DEF ViewerGone
<1>9. CASE Restart
  <2>1. \A x \in Sockets : ready'[x] \in {"none", "open"} => ready'[x] = ready[x]
    BY <1>9 DEF Restart
  <2>. QED  BY <1>2, <1>9, <2>1 DEF Restart
<1>10. ASSUME NEW ws \in Sockets, NEW c, BadFrame(ws, c) PROVE Goal
  BY <1>3, <1>10 DEF BadFrame
<1>11. ASSUME NEW h \in HostSockets,
              UnauthedFrame(h) \/ RejectAuth(h) \/ HostKick(h) \/ OtherHostFrame(h)
       PROVE  Goal
  BY <1>3, <1>11 DEF UnauthedFrame, RejectAuth, HostKick, OtherHostFrame
<1>12. ASSUME NEW v \in ViewerSockets, OtherViewerFrame(v) PROVE Goal
  BY <1>3, <1>12 DEF OtherViewerFrame
<1>13. ASSUME UNCHANGED <<ready, authed>> PROVE Goal
  BY <1>2, <1>13
<1>14. ASSUME NEW h \in HostSockets, NEW d \in Data, HostRelay(h, d) PROVE Goal
  BY <1>13, <1>14 DEF HostRelay
<1>15. ASSUME NEW v \in ViewerSockets, NEW d \in Data, ViewerRelay(v, d) PROVE Goal
  BY <1>13, <1>15 DEF ViewerRelay
<1>16. ASSUME NEW h \in HostSockets, AuthFrame(h) PROVE Goal
  BY <1>13, <1>16 DEF AuthFrame
<1>17. CASE UNCHANGED vars
  BY <1>13, <1>17 DEF vars
<1>. HIDE DEF Goal
<1>. QED
  BY <1>1, <1>4, <1>5, <1>6, <1>7, <1>8, <1>9, <1>10, <1>11, <1>12, <1>14, <1>15, <1>16, <1>17
  DEF Next, HostNext, ViewerNext

\* RelayFromAnnounced needs two more facts: a connection that is not authenticated yet
\* was told of nobody, and the viewer the waiting host was told of last, if it was told
\* of any, is the connected one.
LogInv ==
    /\ \A h \in HostSockets : ready[h] \in {"none", "open"} /\ ~authed[h] =>
          \A i \in DOMAIN out[h] : out[h][i].t # "viewer_joined"
    /\ \A h \in AuthedHosts, v \in OpenViewers : \A j \in DOMAIN out[h] :
          LastJoinBefore(h, j, Len(out[h]) + 1) => out[h][j].viewer = v

\* The room looks up the one waiting host and the one viewer.
LEMMA TheOnes ==
    ASSUME SessionInv
    PROVE  /\ \A h \in AuthedHosts : h = AuthedHost
           /\ \A v \in OpenViewers : v = OpenViewer
BY DEF SessionInv, OneAuthedHost, OneOpenViewer, AuthedHost, OpenViewer

\* A viewer is let in only while there is a waiting host and no viewer.
LEMMA RoomIsFree ==
    ASSUME NEW v \in ViewerSockets, AcceptViewer(v)
    PROVE  OpenViewers = {} /\ AuthedHost \in AuthedHosts
<1>1. OpenViewers = {} /\ AuthedHost # NoSocket
  BY SocketAssumption DEF AcceptViewer, ViewerResponse, OpenViewer, OpenViewers
<1>. QED  BY <1>1, AuthedHostIs DEF AuthedHosts

\* A step keeps the waiting host's log in agreement with the connected viewer.
LEMMA LogInvStep ==
    ASSUME TypeOK, TypeOK', OwnerInv, SessionInv, LogInv, [Next]_vars
    PROVE  LogInv'
<1>0. \A h \in HostSockets : out[h] \in Seq(Message) /\ out'[h] \in Seq(Message)
  BY DEF TypeOK, Sockets
<1>1. ASSUME NEW h \in HostSockets, ready'[h] \in {"none", "open"}, ~authed'[h],
             NEW i \in DOMAIN out'[h]
      PROVE  out'[h][i].t # "viewer_joined"
  <2>1. ready[h] \in {"none", "open"} /\ ~authed[h]
    BY <1>1, SocketStep
  <2>2. \A k \in DOMAIN out[h] : out[h][k].t # "viewer_joined"
    BY <2>1 DEF LogInv
  <2>3. CASE out'[h] = out[h]
    BY <1>1, <2>2, <2>3
  <2>4. ASSUME NEW m \in Message, Logs(h, m) PROVE out'[h][i].t # "viewer_joined"
    <3>1. ~(h = AuthedHost)
      BY <2>1, AuthedHostIs, SocketAssumption
    <3>2. m \in Plain
      BY <2>4, <3>1 DEF Logs, Announces, Forwards, Reports
    <3>. QED  BY <1>0, <1>1, <2>2, <2>4, <3>2, AppendAt DEF Logs, Plain
  <2>. QED  BY <2>3, <2>4, LogStep
<1>2. ASSUME NEW h \in HostSockets, ready'[h] = "open", authed'[h],
             NEW v \in ViewerSockets, ready'[v] = "open", NEW j \in DOMAIN out'[h],
             out'[h][j].t = "viewer_joined",
             \A k \in (j + 1)..Len(out'[h]) : out'[h][k].t # "viewer_joined"
      PROVE  out'[h][j].viewer = v
  <2>1. ready[h] = "open"
    BY <1>2, SocketStep
  <2>2. CASE AcceptViewer(v)
    <3>1. AuthedHost \in HostSockets /\ AuthedHost \in AuthedHosts /\ authed' = authed /\ AuthedHost # v
      BY <2>2, RoomIsFree, SocketAssumption DEF AuthedHosts, AcceptViewer
    <3>2. h = AuthedHost
      BY <1>2, <2>1, <3>1, TheOnes DEF AuthedHosts
    <3>3. out'[h] = Append(out[h], ViewerJoined(v))
      BY <2>2, <3>1, <3>2 DEF AcceptViewer, TypeOK, Sockets
    <3>4. ViewerJoined(v) \in Message /\ ViewerJoined(v).t = "viewer_joined" /\ ViewerJoined(v).viewer = v
      BY MessageType DEF ViewerJoined
    <3>. HIDE DEF ViewerJoined
    <3>5. j = Len(out[h]) + 1
      BY <1>0, <1>2, <3>3, <3>4, AppendAt
    <3>. QED  BY <1>0, <3>3, <3>4, <3>5, AppendAt
  <2>3. CASE ~AcceptViewer(v)
    <3>1. v \in OpenViewers
      BY <1>2, <2>3, SocketStep DEF OpenViewers
    <3>2. \A k \in DOMAIN out[h] :
             /\ out[h][k].t = "viewer_joined"
             /\ \A l \in (k + 1)..Len(out[h]) : out[h][l].t # "viewer_joined"
             => out[h][k].viewer = v
      <4>1. CASE authed[h]
        BY <1>0, <2>1, <3>1, <4>1 DEF LogInv, AuthedHosts, LastJoinBefore
      <4>2. CASE ~authed[h]
        BY <2>1, <4>2 DEF LogInv
      <4>. QED  BY <4>1, <4>2
    <3>3. CASE out'[h] = out[h]
      BY <1>2, <3>2, <3>3
    <3>4. ASSUME NEW m \in Message, Logs(h, m) PROVE out'[h][j].viewer = v
      <4>1. ~Announces(h, m)
        BY <3>1, RoomIsFree DEF Announces
      <4>2. m.t # "viewer_joined"
        BY <3>4, <4>1 DEF Logs, Plain, Forwards, Reports, Relay, ViewerLeft
      <4>3. out'[h] = Append(out[h], m)
        BY <3>4 DEF Logs
      <4>4. j \in DOMAIN out[h] /\ out'[h][j] = out[h][j]
        BY <1>0, <1>2, <4>2, <4>3, AppendAt
      <4>5. \A l \in (j + 1)..Len(out[h]) : out[h][l].t # "viewer_joined"
        BY <1>0, <1>2, <4>3, <4>4, AppendAt
      <4>. QED  BY <1>2, <3>2, <4>4, <4>5
    <3>. QED  BY <3>3, <3>4, LogStep
  <2>. QED  BY <2>2, <2>3
<1>3. \A h \in AuthedHosts', v \in OpenViewers' : \A j \in DOMAIN out'[h] :
          LastJoinBefore(h, j, Len(out[h]) + 1)' => out'[h][j].viewer = v
  <2>. SUFFICES ASSUME NEW h \in HostSockets, ready'[h] = "open", authed'[h],
                       NEW v \in ViewerSockets, ready'[v] = "open", NEW j \in DOMAIN out'[h],
                       LastJoinBefore(h, j, Len(out[h]) + 1)'
                PROVE  out'[h][j].viewer = v
    BY DEF AuthedHosts, OpenViewers
  <2>1. /\ out'[h][j].t = "viewer_joined"
        /\ \A k \in (j + 1)..Len(out'[h]) : out'[h][k].t # "viewer_joined"
    BY <1>0 DEF LastJoinBefore
  <2>. QED  BY <1>2, <2>1
<1>. QED  BY <1>1, <1>3 DEF LogInv

\* A step keeps every relayed message behind the announcement of its sender.
LEMMA RelayStep ==
    ASSUME TypeOK, TypeOK', SessionInv, LogInv, RelayFromAnnounced, [Next]_vars
    PROVE  RelayFromAnnounced'
<1>0. \A h \in HostSockets : out[h] \in Seq(Message) /\ out'[h] \in Seq(Message)
  BY DEF TypeOK, Sockets
<1>. SUFFICES ASSUME NEW h \in HostSockets, NEW i \in DOMAIN out'[h], NEW j \in DOMAIN out'[h],
                     out'[h][i].t = "relay", j < i, out'[h][j].t = "viewer_joined",
                     \A k \in (j + 1)..(i - 1) : out'[h][k].t # "viewer_joined"
              PROVE  out'[h][i].from = out'[h][j].viewer
  BY DEF RelayFromAnnounced, LastJoinBefore
<1>1. \A a, b \in DOMAIN out[h] :
         /\ out[h][a].t = "relay" /\ b < a /\ out[h][b].t = "viewer_joined"
         /\ \A k \in (b + 1)..(a - 1) : out[h][k].t # "viewer_joined"
         => out[h][a].from = out[h][b].viewer
  BY DEF RelayFromAnnounced, LastJoinBefore
<1>2. CASE out'[h] = out[h]
  BY <1>1, <1>2
<1>3. ASSUME NEW m \in Message, Logs(h, m) PROVE out'[h][i].from = out'[h][j].viewer
  <2>1. out'[h] = Append(out[h], m)
    BY <1>3 DEF Logs
  <2>2. /\ j \in DOMAIN out[h] /\ out'[h][j] = out[h][j]
        /\ \A k \in (j + 1)..(i - 1) : out[h][k].t # "viewer_joined"
    BY <1>0, <2>1, AppendAt
  <2>3. CASE i \in DOMAIN out[h]
    BY <1>0, <1>1, <2>1, <2>2, <2>3, AppendAt
  <2>4. CASE i \notin DOMAIN out[h]
    <3>1. i = Len(out[h]) + 1 /\ out'[h][i] = m
      BY <1>0, <2>1, <2>4, AppendAt
    <3>2. Forwards(h, m)
      BY <1>3, <3>1 DEF Logs, Plain, Announces, Reports, ViewerJoined, ViewerLeft
    <3>3. PICK v \in ViewerSockets, d \in Data : ViewerRelay(v, d) /\ h = AuthedHost /\ m = Relay(v, d)
      BY <3>2 DEF Forwards
    <3>4. h \in AuthedHosts /\ v \in OpenViewers
      BY <3>3, AuthedHostIs, OpenViewerIs, SocketAssumption DEF ViewerRelay, AuthedHosts, OpenViewers
    <3>5. LastJoinBefore(h, j, Len(out[h]) + 1)
      BY <1>0, <2>2, <3>1 DEF LastJoinBefore
    <3>6. out[h][j].viewer = v
      BY <2>2, <3>4, <3>5 DEF LogInv
    <3>. QED  BY <2>2, <3>1, <3>3, <3>6 DEF Relay
  <2>. QED  BY <2>3, <2>4
<1>. QED  BY <1>2, <1>3, LogStep

\* The data a host is given after viewer_joined is of that viewer, however sockets
\* drop, hosts take over and the room restarts: no frame of a viewer on its way out
\* is taken for the next viewer's (host-room.ts:72-75).
THEOREM RelaysAreAnnounced == Spec => []RelayFromAnnounced
<1>1. Init => OwnerInv /\ SessionInv /\ LogInv /\ RelayFromAnnounced
  <2>1. Init => \A h \in HostSockets : DOMAIN out[h] = {}
    BY DEF Init, Sockets
  <2>. QED
    BY <2>1 DEF Init, OwnerInv, AuthedKeyIsOwner, SessionInv, OneAuthedHost, OneOpenViewer,
         AuthedHosts, OpenViewers, Sockets, LogInv, RelayFromAnnounced
<1>. QED
  BY <1>1, TypeCorrect, OwnerInvStep, SessionInvStep, LogInvStep, RelayStep, PTL DEF Spec
-----------------------------------------------------------------------------
(***************************************************************************)
(* Departures.                                                             *)
(***************************************************************************)

\* How a viewer's connection ends: by its close event, with a mark only the server
\* sets, or with every other connection in a restart.
LEMMA DepartureStep ==
    ASSUME TypeOK, [Next]_vars, NEW v \in ViewerSockets,
           ready'[v] = "closed", ~closedByServer'[v]
    PROVE  /\ ~closedByServer[v]
           /\ ready[v] = "closed" \/ ViewerGone(v) \/ AuthedHosts' = {}
<1>. DEFINE Goal == /\ ~closedByServer[v]
                    /\ ready[v] = "closed" \/ ViewerGone(v) \/ AuthedHosts' = {}
<1>. SUFFICES Goal
  OBVIOUS
<1>. USE DEF Sockets
<1>0. /\ ready \in [Sockets -> States] /\ closedByServer \in [ViewerSockets -> BOOLEAN]
      /\ v \in Sockets /\ v \notin HostSockets
  BY SocketAssumption DEF TypeOK
<1>1. ASSUME NEW ws PROVE ~Marked(closedByServer, ws)[v] => ~closedByServer[v]
  BY <1>0 DEF Marked
<1>2. ASSUME NEW r \in [Sockets -> States], NEW ws PROVE Closing(r, ws)[v] = "closed" => r[v] = "closed"
  BY <1>0, <1>2 DEF Closing
<1>3. ASSUME NEW ws, NEW c, CloseFromServer(ws, c) PROVE Goal
  BY <1>0, <1>1, <1>2, <1>3 DEF CloseFromServer
<1>4. ASSUME NEW h \in HostSockets, NEW k, NEW claim, AcceptHost(h, k, claim) PROVE Goal
  BY <1>0, <1>4 DEF AcceptHost
<1>5. ASSUME NEW h \in HostSockets, ConfirmAuth(h) PROVE Goal
  <2>1. Closing(Closing(ready, OpenViewer), AuthedHost)[v] = "closed" => ready[v] = "closed"
    BY <1>0, <1>2, ClosingType
  <2>2. ready[v] = "closed"
    BY <1>5, <2>1 DEF ConfirmAuth
  <2>3. ~closedByServer[v]
    BY <1>1, <1>5 DEF ConfirmAuth
  <2>. QED  BY <2>2, <2>3
<1>6. ASSUME NEW h \in HostSockets, HostGone(h) PROVE Goal
  <2>1. Closing(ready, OpenViewer) \in [Sockets -> States]
    BY <1>0, ClosingType
  <2>2. ready[v] = "closed"
    BY <1>0, <1>2, <1>6, <2>1 DEF HostGone
  <2>3. ~closedByServer[v]
    BY <1>1, <1>6 DEF HostGone
  <2>. QED  BY <2>2, <2>3
<1>7. ASSUME NEW w \in ViewerSockets, AcceptViewer(w) PROVE Goal
  BY <1>0, <1>7 DEF AcceptViewer
<1>8. ASSUME NEW w \in ViewerSockets, ViewerGone(w) PROVE Goal
  <2>1. w # v => ready[v] = "closed"
    BY <1>0, <1>8 DEF ViewerGone
  <2>2. ~closedByServer[v]
    BY <1>8 DEF ViewerGone
  <2>. QED  BY <1>8, <2>1, <2>2
<1>9. ASSUME NEW ws \in Sockets, SocketDrops(ws) PROVE Goal
  BY <1>0, <1>9 DEF SocketDrops
<1>10. CASE Restart
  BY <1>10 DEF Restart, AuthedHosts
<1>11. ASSUME NEW ws \in Sockets, NEW c, BadFrame(ws, c) PROVE Goal
  BY <1>3, <1>11 DEF BadFrame
<1>12. ASSUME NEW h \in HostSockets,
              UnauthedFrame(h) \/ RejectAuth(h) \/ HostKick(h) \/ OtherHostFrame(h)
       PROVE  Goal
  BY <1>3, <1>12 DEF UnauthedFrame, RejectAuth, HostKick, OtherHostFrame
<1>13. ASSUME NEW w \in ViewerSockets, OtherViewerFrame(w) PROVE Goal
  BY <1>3, <1>13 DEF OtherViewerFrame
<1>14. ASSUME UNCHANGED <<ready, closedByServer>> PROVE Goal
  BY <1>14
<1>15. ASSUME NEW h \in HostSockets, NEW d \in Data, HostRelay(h, d) PROVE Goal
  BY <1>14, <1>15 DEF HostRelay
<1>16. ASSUME NEW w \in ViewerSockets, NEW d \in Data, ViewerRelay(w, d) PROVE Goal
  BY <1>14, <1>16 DEF ViewerRelay
<1>17. ASSUME NEW h \in HostSockets, AuthFrame(h) PROVE Goal
  BY <1>14, <1>17 DEF AuthFrame
<1>18. CASE UNCHANGED vars
  BY <1>14, <1>18 DEF vars
<1>. HIDE DEF Goal
<1>. QED
  BY <1>4, <1>5, <1>6, <1>7, <1>8, <1>9, <1>10, <1>11, <1>12, <1>13, <1>15, <1>16, <1>17, <1>18
  DEF Next, HostNext, ViewerNext

\* A step that ends an announced viewer's connection tells the waiting host.
LEMMA DepartureAnnouncedStep ==
    ASSUME TypeOK, TypeOK', OwnerInv, SessionInv, LogInv, DepartureAnnounced, [Next]_vars
    PROVE  DepartureAnnounced'
<1>. SUFFICES ASSUME NEW h \in HostSockets, ready'[h] = "open", authed'[h], NEW v \in ViewerSockets,
                     NEW i \in DOMAIN out'[h], out'[h][i] = ViewerJoined(v),
                     ready'[v] = "closed", ~closedByServer'[v]
              PROVE  \E k \in DOMAIN out'[h] : out'[h][k] = ViewerLeft(v)
  BY DEF DepartureAnnounced, AuthedHosts, Has, ViewerJoined, ViewerLeft
<1>0. /\ out[h] \in Seq(Message) /\ out'[h] \in Seq(Message)
      /\ ViewerJoined(v).t = "viewer_joined" /\ ViewerJoined(v).viewer = v /\ ViewerLeft(v) \in Message
  BY MessageType DEF TypeOK, Sockets, ViewerJoined
<1>1. ready[h] = "open" /\ ~closedByServer[v] /\ (ready[v] = "closed" \/ ViewerGone(v))
  BY SocketStep, DepartureStep DEF AuthedHosts
<1>2. \E k \in DOMAIN out[h] : out[h][k] = ViewerJoined(v)
  <2>1. CASE out'[h] = out[h]
    BY <2>1
  <2>2. ASSUME NEW m \in Message, Logs(h, m) PROVE \E k \in DOMAIN out[h] : out[h][k] = ViewerJoined(v)
    <3>1. out'[h] = Append(out[h], m)
      BY <2>2 DEF Logs
    <3>2. m # ViewerJoined(v)
      <4>1. ASSUME NEW w \in ViewerSockets, AcceptViewer(w), m = ViewerJoined(w) PROVE w # v
        BY <4>1 DEF AcceptViewer, TypeOK, Sockets
      <4>2. ASSUME Announces(h, m) PROVE m # ViewerJoined(v)
        BY <4>1, <4>2 DEF Announces, ViewerJoined
      <4>. QED  BY <2>2, <4>2 DEF Logs, Plain, Forwards, Reports, ViewerJoined, ViewerLeft, Relay
    <3>. QED  BY <1>0, <3>1, <3>2, AppendAt
  <2>. QED  BY <2>1, <2>2, LogStep
<1>3. h \in AuthedHosts
  BY <1>0, <1>1, <1>2 DEF LogInv, AuthedHosts
<1>4. CASE ready[v] = "closed"
  <2>1. \E k \in DOMAIN out[h] : out[h][k] = ViewerLeft(v)
    BY <1>1, <1>2, <1>3, <1>4 DEF DepartureAnnounced, Has
  <2>2. CASE out'[h] = out[h]
    BY <2>1, <2>2
  <2>3. ASSUME NEW m \in Message, Logs(h, m) PROVE \E k \in DOMAIN out'[h] : out'[h][k] = ViewerLeft(v)
    BY <1>0, <2>1, <2>3, AppendAt DEF Logs
  <2>. QED  BY <2>2, <2>3, LogStep
<1>5. CASE ViewerGone(v)
  <2>1. h = AuthedHost /\ h \in Sockets
    BY <1>3, TheOnes DEF Sockets
  <2>2. out'[h] = Append(out[h], ViewerLeft(v))
    BY <1>1, <1>5, <2>1 DEF ViewerGone, Sent, TypeOK
  <2>. QED  BY <1>0, <2>2, AppendAt
<1>. QED  BY <1>1, <1>4, <1>5

\* A viewer that went away by itself is reported to the host it was announced to as long
\* as that host waits: the host never goes on serving an absent viewer (onGone,
\* host-room.ts:150-161).
THEOREM DeparturesAnnounced == Spec => []DepartureAnnounced
<1>1. Init => OwnerInv /\ SessionInv /\ LogInv /\ DepartureAnnounced
  BY DEF Init, OwnerInv, AuthedKeyIsOwner, SessionInv, OneAuthedHost, OneOpenViewer,
         AuthedHosts, OpenViewers, Sockets, LogInv, DepartureAnnounced
<1>. QED
  BY <1>1, TypeCorrect, OwnerInvStep, SessionInvStep, LogInvStep, DepartureAnnouncedStep, PTL DEF Spec
-----------------------------------------------------------------------------
(***************************************************************************)
(* Hosts that keep to the protocol, each sending one auth frame as         *)
(* register_host does, on a runtime that runs a close event when the socket*)
(* stops being OPEN: the room implements Rendezvous.                       *)
(***************************************************************************)
AgentsOnly == ~HostMisbehaves /\ ~SplitClose /\ MaxAuths <= 1

\* What the refinement rests on: a signature check in flight is its connection's
\* only one, a connection the server is closing is no longer authenticated, a viewer
\* on its way out was closed by the server, and a connected viewer has a waiting host.
AgentInv ==
    /\ \A h \in HostSockets :
          /\ ready[h] = "none" => auths[h] = 0
          /\ auths[h] = 0 => verifying[h] = 0 /\ ~authed[h]
          /\ auths[h] <= 1
          /\ verifying[h] > 0 => verifying[h] = 1 /\ ~authed[h]
          /\ ready[h] = "closing" => auths[h] # 0 /\ verifying[h] = 0 /\ ~authed[h]
    /\ \A v \in ViewerSockets : ready[v] = "closing" => closedByServer[v]
    /\ OpenViewers # {} => AuthedHosts # {}

\* The abstract step of a handler, read off the sets of waiting hosts and of viewers.
LEMMA AbstractStep ==
    ASSUME SessionInv
    PROVE  /\ (owner' = owner /\ AuthedHosts' = AuthedHosts /\ OpenViewers' = OpenViewers)
                 => UNCHANGED Abstract!vars
           /\ (owner' = owner /\ AuthedHosts' = AuthedHosts /\ OpenViewers # {} /\ OpenViewers' = {})
                 => Abstract!ViewerLeaves
           /\ (owner' = owner /\ AuthedHosts # {} /\ AuthedHosts' = {} /\ OpenViewers' = {})
                 => Abstract!HostLeaves
           /\ \A v \in ViewerSockets :
                 (owner' = owner /\ AuthedHosts' = AuthedHosts /\ AuthedHosts # {}
                    /\ OpenViewers = {} /\ OpenViewers' = {v}) => Abstract!Join(v)
<1>1. AuthedHosts' = AuthedHosts => AuthedHost' = AuthedHost
  BY DEF AuthedHost
<1>2. OpenViewers' = OpenViewers => OpenViewer' = OpenViewer
  BY DEF OpenViewer
<1>3. (AuthedHosts' = {} => AuthedHost' = NoSocket) /\ (OpenViewers' = {} => OpenViewer' = NoSocket)
  BY DEF AuthedHost, OpenViewer
<1>4. (AuthedHosts # {} => AuthedHost # NoSocket) /\ (OpenViewers # {} => OpenViewer # NoSocket)
  BY SocketAssumption DEF AuthedHost, AuthedHosts, OpenViewer, OpenViewers
<1>5. OpenViewers = {} => OpenViewer = NoSocket
  BY DEF OpenViewer
<1>6. ASSUME NEW v, OpenViewers' = {v} PROVE OpenViewer' = v
  BY <1>6 DEF OpenViewer
<1>7. (owner' = owner /\ AuthedHosts' = AuthedHosts /\ OpenViewers' = OpenViewers) => UNCHANGED Abstract!vars
  BY <1>1, <1>2 DEF Abstract!vars
<1>8. (owner' = owner /\ AuthedHosts' = AuthedHosts /\ OpenViewers # {} /\ OpenViewers' = {})
         => Abstract!ViewerLeaves
  BY <1>1, <1>3, <1>4 DEF Abstract!ViewerLeaves
<1>9. (owner' = owner /\ AuthedHosts # {} /\ AuthedHosts' = {} /\ OpenViewers' = {}) => Abstract!HostLeaves
  BY <1>3, <1>4 DEF Abstract!HostLeaves
<1>10. ASSUME NEW v \in ViewerSockets, owner' = owner, AuthedHosts' = AuthedHosts, AuthedHosts # {},
              OpenViewers = {}, OpenViewers' = {v}
       PROVE  Abstract!Join(v)
  BY <1>1, <1>4, <1>5, <1>6, <1>10 DEF Abstract!Join
<1>. QED  BY <1>7, <1>8, <1>9, <1>10

\* Every handler is a step of the abstract room or leaves it as it is.
LEMMA RefinementStep ==
    ASSUME AgentsOnly, TypeOK, OwnerInv, SessionInv, AgentInv, [Next]_vars
    PROVE  [Abstract!Next]_(Abstract!vars)
<1>. DEFINE Goal == Abstract!Next \/ UNCHANGED Abstract!vars
<1>. SUFFICES Goal
  OBVIOUS
<1>. USE DEF Sockets
<1>0. /\ ready \in [Sockets -> States] /\ authed \in [HostSockets -> BOOLEAN]
      /\ verifying \in [HostSockets -> Nat]
      /\ HostSockets \cap ViewerSockets = {}
  BY SocketAssumption DEF TypeOK
<1>1. /\ (owner' = owner /\ AuthedHosts' = AuthedHosts /\ OpenViewers' = OpenViewers) => Goal
      /\ (owner' = owner /\ AuthedHosts' = AuthedHosts /\ OpenViewers # {} /\ OpenViewers' = {}) => Goal
      /\ (owner' = owner /\ AuthedHosts # {} /\ AuthedHosts' = {} /\ OpenViewers' = {}) => Goal
      /\ \A v \in ViewerSockets :
            (owner' = owner /\ AuthedHosts' = AuthedHosts /\ AuthedHosts # {}
               /\ OpenViewers = {} /\ OpenViewers' = {v}) => Goal
  BY AbstractStep DEF Abstract!Next
<1>. HIDE DEF Goal
<1>2. ASSUME UNCHANGED <<owner, ready, authed>> PROVE Goal
  BY <1>1, <1>2 DEF AuthedHosts, OpenViewers
<1>3. ASSUME NEW ws, NEW c, CloseFromServer(ws, c), UNCHANGED <<owner, authed>>, ws \notin AuthedHosts
      PROVE  Goal
  <2>1. \A x \in Sockets : /\ ready'[x] = "open" => ready[x] = "open" /\ x # ws
                           /\ x # ws => ready'[x] = ready[x]
    BY <1>0, <1>3, ClosingEffect DEF CloseFromServer
  <2>2. AuthedHosts' = AuthedHosts
    BY <1>3, <2>1 DEF AuthedHosts
  <2>3. CASE ws \in OpenViewers
    <3>1. OpenViewers' = {}
      BY <2>1, <2>3 DEF OpenViewers, SessionInv, OneOpenViewer
    <3>. QED  BY <1>1, <1>3, <2>2, <2>3, <3>1
  <2>4. CASE ws \notin OpenViewers
    <3>1. OpenViewers' = OpenViewers
      BY <2>1, <2>4 DEF OpenViewers
    <3>. QED  BY <1>1, <1>3, <2>2, <3>1
  <2>. QED  BY <2>3, <2>4
<1>4. ASSUME NEW h \in HostSockets, NEW k, NEW claim, AcceptHost(h, k, claim) PROVE Goal
  <2>1. AuthedHosts' = AuthedHosts
    BY <1>0, <1>4 DEF AcceptHost, AuthedHosts, OwnerInv
  <2>2. OpenViewers' = OpenViewers
    BY <1>0, <1>4 DEF AcceptHost, OpenViewers
  <2>. QED  BY <1>1, <1>4, <2>1, <2>2 DEF AcceptHost
<1>5. ASSUME NEW h \in HostSockets, ConfirmAuth(h) PROVE Goal
  <2>1. verifying[h] > 0 /\ ~authed[h] /\ key[h] \in Keys /\ h \notin AuthedHosts
    BY <1>0, <1>5 DEF ConfirmAuth, AgentInv, OwnerInv, AuthedHosts
  <2>2. /\ owner' = key[h] /\ owner \in {NoKey, key[h]} /\ key[h] # NoKey
        /\ \A g \in HostSockets : g # h /\ authed'[g] => authed[g] /\ g # AuthedHost
        /\ authed'[h]
    <3>1. AuthedHost # h
      BY <2>1, AuthedHostIs, SocketAssumption
    <3>2. NoSocket \notin HostSockets
      BY SocketAssumption
    <3>. QED  BY <1>5, <2>1, <3>1, <3>2, SocketAssumption DEF ConfirmAuth
  <2>3. OpenViewers' = {}
    <3>1. CASE AuthedHosts = {}
      <4>1. ready' = ready
        BY <1>5, <3>1 DEF ConfirmAuth, AuthedHost
      <4>. QED  BY <3>1, <4>1 DEF AgentInv, OpenViewers
    <3>2. CASE AuthedHosts # {}
      <4>1. AuthedHost # NoSocket /\ AuthedHost # h
        BY <2>1, <3>2, SocketAssumption DEF AuthedHost, AuthedHosts
      <4>2. ready' = Closing(Closing(ready, OpenViewer), AuthedHost)
        BY <1>5, <4>1 DEF ConfirmAuth
      <4>3. \A v \in ViewerSockets : ready'[v] = "open" => ready[v] = "open" /\ v # OpenViewer
        BY <1>0, <4>2, ClosingType, ClosingEffect
      <4>. QED  BY <4>3, TheOnes DEF OpenViewers
    <3>. QED  BY <3>1, <3>2
  <2>4. \A x \in Sockets : ready'[x] = "open" => ready[x] = "open"
    <3>1. \A x \in Sockets : Closing(Closing(ready, OpenViewer), AuthedHost)[x] = "open" => ready[x] = "open"
      BY <1>0, ClosingType, ClosingEffect
    <3>. QED  BY <1>5, <3>1 DEF ConfirmAuth
  <2>5. AuthedHosts' \subseteq {h}
    BY <2>2, <2>4, TheOnes DEF AuthedHosts
  <2>6. OpenViewer' = NoSocket
    BY <2>3 DEF OpenViewer
  <2>7. AuthedHost # h
    BY <2>1, AuthedHostIs, SocketAssumption
  <2>8. CASE AuthedHosts' = {}
    <3>1. AuthedHost' = NoSocket
      BY <2>8 DEF AuthedHost
    <3>2. Abstract!HostVanishes(key[h])
      BY <2>2, <2>6, <3>1 DEF Abstract!HostVanishes
    <3>. QED  BY <2>1, <3>2 DEF Abstract!Next, Goal
  <2>9. CASE AuthedHosts' = {h}
    <3>1. AuthedHost' = h
      BY <2>9 DEF AuthedHost
    <3>2. Abstract!HostWaits(h, key[h])
      BY <2>2, <2>6, <2>7, <3>1 DEF Abstract!HostWaits
    <3>. QED  BY <2>1, <3>2 DEF Abstract!Next, Goal
  <2>. QED  BY <2>5, <2>8, <2>9
<1>6. ASSUME NEW h \in HostSockets, HostGone(h) PROVE Goal
  <2>1. CASE authed[h]
    <3>1. h \in AuthedHosts
      BY <1>6, <2>1 DEF HostGone, GoneEventDue, AgentInv, AuthedHosts
    <3>2. ready' = [Closing(ready, OpenViewer) EXCEPT ![h] = "closed"] /\ owner' = owner
      BY <1>6, <2>1 DEF HostGone
    <3>3. Closing(ready, OpenViewer) \in [Sockets -> States]
      BY <1>0, ClosingType
    <3>4. \A x \in Sockets : ready'[x] = "open" => ready[x] = "open" /\ x # OpenViewer /\ x # h
      BY <1>0, <3>2, <3>3, ClosingEffect
    <3>5. OpenViewers' = {}
      BY <3>4, TheOnes DEF OpenViewers
    <3>6. \A g \in HostSockets : authed'[g] => authed[g]
      BY <1>0, <1>6 DEF HostGone
    <3>7. AuthedHosts' = {}
      BY <3>1, <3>4, <3>6, TheOnes DEF AuthedHosts
    <3>. QED  BY <1>1, <3>1, <3>2, <3>5, <3>7
  <2>2. CASE ~authed[h]
    <3>1. /\ ready' = [ready EXCEPT ![h] = "closed"] /\ owner' = owner
          /\ authed' = [authed EXCEPT ![h] = FALSE]
      BY <1>6, <2>2 DEF HostGone
    <3>2. AuthedHosts' = AuthedHosts
      BY <1>0, <2>2, <3>1 DEF AuthedHosts
    <3>3. OpenViewers' = OpenViewers
      BY <1>0, <3>1 DEF OpenViewers
    <3>. QED  BY <1>1, <3>1, <3>2, <3>3
  <2>. QED  BY <2>1, <2>2
<1>7. ASSUME NEW v \in ViewerSockets, AcceptViewer(v) PROVE Goal
  <2>1. OpenViewers = {} /\ AuthedHosts # {}
    BY <1>7, RoomIsFree
  <2>2. AuthedHosts' = AuthedHosts
    BY <1>0, <1>7 DEF AcceptViewer, AuthedHosts
  <2>3. OpenViewers' = {v}
    BY <1>0, <1>7, <2>1 DEF AcceptViewer, OpenViewers
  <2>. QED  BY <1>1, <1>7, <2>1, <2>2, <2>3 DEF AcceptViewer
<1>8. ASSUME NEW v \in ViewerSockets, ViewerGone(v) PROVE Goal
  <2>1. ready' = [ready EXCEPT ![v] = "closed"] /\ authed' = authed /\ owner' = owner
    BY <1>8 DEF ViewerGone
  <2>2. AuthedHosts' = AuthedHosts
    BY <1>0, <2>1 DEF AuthedHosts
  <2>3. CASE v \in OpenViewers
    <3>1. OpenViewers' = {}
      BY <1>0, <2>1, <2>3 DEF OpenViewers, SessionInv, OneOpenViewer
    <3>. QED  BY <1>1, <2>1, <2>2, <2>3, <3>1
  <2>4. CASE v \notin OpenViewers
    <3>1. OpenViewers' = OpenViewers
      BY <1>0, <2>1, <2>4 DEF OpenViewers
    <3>. QED  BY <1>1, <2>1, <2>2, <3>1
  <2>. QED  BY <2>3, <2>4
<1>9. CASE Restart
  <2>1. AuthedHosts' = {} /\ OpenViewers' = {} /\ owner' = owner
    BY <1>9 DEF Restart, AuthedHosts, OpenViewers
  <2>2. AuthedHosts = {} => OpenViewers = {}
    BY DEF AgentInv
  <2>. QED  BY <1>1, <2>1, <2>2
<1>10. ASSUME NEW ws \in Sockets, NEW c, BadFrame(ws, c) PROVE Goal
  <2>1. ws \notin AuthedHosts
    BY <1>10 DEF BadFrame, AgentsOnly, AuthedHosts
  <2>. QED  BY <1>3, <1>10, <2>1 DEF BadFrame
<1>11. ASSUME NEW h \in HostSockets, UnauthedFrame(h) PROVE Goal
  BY <1>3, <1>11 DEF UnauthedFrame, AuthedHosts
<1>12. ASSUME NEW h \in HostSockets, RejectAuth(h) PROVE Goal
  <2>1. h \notin AuthedHosts
    BY <1>12 DEF RejectAuth, AgentInv, AuthedHosts
  <2>. QED  BY <1>3, <1>12, <2>1 DEF RejectAuth
<1>13. ASSUME NEW h \in HostSockets, HostKick(h) PROVE Goal
  <2>1. OpenViewer \notin AuthedHosts
    BY <1>0, <1>13, OpenViewerIs DEF HostKick, AuthedHosts
  <2>. QED  BY <1>3, <1>13, <2>1 DEF HostKick
<1>14. ASSUME NEW h \in HostSockets PROVE ~OtherHostFrame(h)
  BY DEF OtherHostFrame, AgentsOnly
<1>15. ASSUME NEW v \in ViewerSockets, OtherViewerFrame(v) PROVE Goal
  BY <1>0, <1>3, <1>15 DEF OtherViewerFrame, AuthedHosts
<1>16. ASSUME NEW ws \in Sockets PROVE ~SocketDrops(ws)
  BY DEF SocketDrops, AgentsOnly
<1>17. ASSUME NEW h \in HostSockets, NEW d \in Data, HostRelay(h, d) PROVE Goal
  BY <1>2, <1>17 DEF HostRelay
<1>18. ASSUME NEW v \in ViewerSockets, NEW d \in Data, ViewerRelay(v, d) PROVE Goal
  BY <1>2, <1>18 DEF ViewerRelay
<1>19. ASSUME NEW h \in HostSockets, AuthFrame(h) PROVE Goal
  BY <1>2, <1>19 DEF AuthFrame
<1>20. CASE UNCHANGED vars
  BY <1>2, <1>20 DEF vars
<1>. QED
  BY <1>4, <1>5, <1>6, <1>7, <1>8, <1>9, <1>10, <1>11, <1>12, <1>13, <1>14, <1>15, <1>16, <1>17,
     <1>18, <1>19, <1>20
  DEF Next, HostNext, ViewerNext

\* A viewer that stays connected through a step stays with the same waiting host, and a
\* connected viewer has one: both are read off the abstract step.
LEMMA SessionKeepsHost ==
    ASSUME SessionInv, SessionInv', AgentInv, [Abstract!Next]_(Abstract!vars)
    PROVE  /\ OpenViewers' # {} => AuthedHosts' # {}
           /\ OpenViewers \cap OpenViewers' # {} => AuthedHosts' = AuthedHosts
<1>. DEFINE Ho == AuthedHost
            Vi == OpenViewer
<1>1. /\ Ho = NoSocket <=> AuthedHosts = {}
      /\ Vi = NoSocket <=> OpenViewers = {}
      /\ Ho' = NoSocket <=> AuthedHosts' = {}
      /\ Vi' = NoSocket <=> OpenViewers' = {}
  BY SocketAssumption DEF AuthedHost, AuthedHosts, OpenViewer, OpenViewers
<1>2. /\ Ho # NoSocket => AuthedHosts = {Ho}
      /\ Ho' # NoSocket => AuthedHosts' = {Ho'}
      /\ Vi # NoSocket => OpenViewers = {Vi}
      /\ Vi' # NoSocket => OpenViewers' = {Vi'}
  BY <1>1 DEF SessionInv, OneAuthedHost, OneOpenViewer, AuthedHost, OpenViewer
<1>3. Vi # NoSocket => Ho # NoSocket
  BY <1>1 DEF AgentInv
<1>4. /\ Vi' # NoSocket => Ho' # NoSocket
      /\ Vi # NoSocket /\ Vi' = Vi => Ho' = Ho
  BY <1>3, SocketAssumption
  DEF Abstract!Next, Abstract!vars, Abstract!HostWaits, Abstract!HostVanishes, Abstract!HostLeaves,
      Abstract!Join, Abstract!ViewerLeaves
<1>5. OpenViewers' # {} => AuthedHosts' # {}
  BY <1>1, <1>4
<1>6. ASSUME NEW v \in OpenViewers, v \in OpenViewers' PROVE AuthedHosts' = AuthedHosts
  <2>1. Vi # NoSocket /\ Vi' # NoSocket /\ Vi = v /\ Vi' = v
    BY <1>1, <1>2, <1>6
  <2>2. Ho' = Ho /\ Ho # NoSocket
    BY <1>3, <1>4, <2>1
  <2>. QED  BY <1>2, <2>2
<1>. QED  BY <1>5, <1>6

\* A step keeps what the refinement rests on.
LEMMA AgentInvStep ==
    ASSUME AgentsOnly, TypeOK, OwnerInv, SessionInv, SessionInv', AgentInv, [Next]_vars
    PROVE  AgentInv'
<1>. USE DEF Sockets
<1>0. /\ ready \in [Sockets -> States] /\ authed \in [HostSockets -> BOOLEAN]
      /\ verifying \in [HostSockets -> Nat] /\ auths \in [HostSockets -> Nat]
      /\ closedByServer \in [ViewerSockets -> BOOLEAN]
      /\ HostSockets \cap ViewerSockets = {}
  BY SocketAssumption DEF TypeOK
<1>1. OpenViewers' # {} => AuthedHosts' # {}
  BY RefinementStep, SessionKeepsHost
<1>. DEFINE HostPart == \A h \in HostSockets :
              /\ ready[h] = "none" => auths[h] = 0
              /\ auths[h] = 0 => verifying[h] = 0 /\ ~authed[h]
              /\ auths[h] <= 1
              /\ verifying[h] > 0 => verifying[h] = 1 /\ ~authed[h]
              /\ ready[h] = "closing" => auths[h] # 0 /\ verifying[h] = 0 /\ ~authed[h]
            ViewerPart == \A v \in ViewerSockets : ready[v] = "closing" => closedByServer[v]
<1>2. HostPart /\ ViewerPart
  BY DEF AgentInv
<1>. SUFFICES HostPart' /\ ViewerPart'
  BY <1>1 DEF AgentInv
<1>3. ASSUME UNCHANGED <<ready, authed, auths, verifying, closedByServer>>
      PROVE  HostPart' /\ ViewerPart'
  BY <1>2, <1>3
<1>4. ASSUME NEW ws, NEW c, CloseFromServer(ws, c) PROVE ViewerPart'
  BY <1>0, <1>2, <1>4 DEF CloseFromServer, Closing, Marked
<1>5. ASSUME NEW ws, NEW c, CloseFromServer(ws, c), UNCHANGED <<authed, auths, verifying>>,
             ws \in HostSockets => ready[ws] # "open"
      PROVE  HostPart' /\ ViewerPart'
  <2>1. \A h \in HostSockets : ready'[h] = ready[h]
    BY <1>0, <1>5 DEF CloseFromServer, Closing
  <2>. QED  BY <1>2, <1>4, <1>5, <2>1
<1>6. ASSUME NEW h \in HostSockets, NEW k, NEW claim, AcceptHost(h, k, claim) PROVE HostPart' /\ ViewerPart'
  BY <1>0, <1>2, <1>6 DEF AcceptHost
<1>7. ASSUME NEW h \in HostSockets, AuthFrame(h) PROVE HostPart' /\ ViewerPart'
  <2>1. auths[h] = 0 /\ ready[h] = "open"
    BY <1>0, <1>2, <1>7, BoundAssumption DEF AuthFrame, Delivers, AgentsOnly
  <2>. QED  BY <1>0, <1>2, <1>7, <2>1 DEF AuthFrame
<1>8. ASSUME NEW h \in HostSockets, RejectAuth(h) PROVE HostPart' /\ ViewerPart'
  <2>1. verifying' = [verifying EXCEPT ![h] = @ - 1] /\ verifying[h] = 1 /\ ~authed[h] /\ auths[h] # 0
    BY <1>0, <1>2, <1>8 DEF RejectAuth
  <2>2. \A g \in HostSockets : ready'[g] = ready[g] \/ (g = h /\ ready'[g] = "closing")
    BY <1>0, <1>8 DEF RejectAuth, CloseFromServer, Closing
  <2>3. \A g \in HostSockets : ready'[g] = "none" => ready[g] = "none"
    BY <2>2
  <2>4. HostPart'
    BY <1>0, <1>2, <1>8, <2>1, <2>2, <2>3 DEF RejectAuth
  <2>. QED  BY <1>4, <1>8, <2>4 DEF RejectAuth
<1>9. ASSUME NEW h \in HostSockets, ConfirmAuth(h) PROVE HostPart' /\ ViewerPart'
  <2>. DEFINE replaced == AuthedHost # NoSocket /\ AuthedHost # h
  <2>1. verifying[h] = 1 /\ ~authed[h] /\ auths[h] # 0 /\ ready[h] # "closing"
    BY <1>0, <1>2, <1>9 DEF ConfirmAuth
  <2>2. verifying' = [verifying EXCEPT ![h] = 0] /\ auths' = auths
    BY <1>0, <1>9, <2>1 DEF ConfirmAuth
  <2>3. OpenViewer \notin HostSockets /\ AuthedHost \notin ViewerSockets
    BY OpenViewerIs, AuthedHostIs, SocketAssumption
  <2>4. CASE replaced
    <3>1. AuthedHost \in HostSockets /\ authed[AuthedHost] /\ AuthedHost # h
      BY <2>4, AuthedHostIs
    <3>2. /\ ready' = Closing(Closing(ready, OpenViewer), AuthedHost)
          /\ closedByServer' = Marked(closedByServer, OpenViewer)
      BY <1>9, <2>4 DEF ConfirmAuth
    <3>3. \A g \in HostSockets : authed'[g] = IF g = h THEN TRUE ELSE IF g = AuthedHost THEN FALSE ELSE authed[g]
      BY <1>9, <2>4 DEF ConfirmAuth
    <3>4. Closing(ready, OpenViewer) \in [Sockets -> States]
      BY <1>0, ClosingType
    <3>5. \A g \in HostSockets : Closing(ready, OpenViewer)[g] = ready[g]
      BY <1>0, <2>3, ClosingEffect
    <3>6. \A g \in HostSockets : g # AuthedHost => ready'[g] = ready[g]
      BY <3>2, <3>4, <3>5, ClosingEffect
    <3>7. \A v \in ViewerSockets : ready'[v] = Closing(ready, OpenViewer)[v]
      BY <2>3, <3>2, <3>4, ClosingEffect
    <3>8. ViewerPart'
      BY <1>0, <1>2, <3>2, <3>7 DEF Closing, Marked
    <3>9. ready'[AuthedHost] # "none"
      BY <1>0, <3>1, <3>2, <3>4, <3>5, ClosingEffect, AuthedHostIs, SocketAssumption
    <3>10. verifying'[AuthedHost] = 0 /\ auths'[AuthedHost] # 0 /\ auths'[AuthedHost] <= 1
      BY <1>0, <1>2, <2>2, <3>1
    <3>11. ASSUME NEW g \in HostSockets
           PROVE  /\ ready'[g] = "none" => auths'[g] = 0
                  /\ auths'[g] = 0 => verifying'[g] = 0 /\ ~authed'[g]
                  /\ auths'[g] <= 1
                  /\ verifying'[g] > 0 => verifying'[g] = 1 /\ ~authed'[g]
                  /\ ready'[g] = "closing" => auths'[g] # 0 /\ verifying'[g] = 0 /\ ~authed'[g]
      <4>1. CASE g = AuthedHost
        <5>1. ~authed'[g] /\ ready'[g] # "none"
          BY <3>1, <3>3, <3>9, <4>1
        <5>2. verifying'[g] = 0 /\ auths'[g] # 0 /\ auths'[g] <= 1
          BY <3>10, <4>1
        <5>. QED  BY <5>1, <5>2
      <4>2. CASE g = h
        BY <1>0, <1>2, <2>1, <2>2, <3>1, <3>6, <4>2
      <4>3. CASE g # AuthedHost /\ g # h
        BY <1>0, <1>2, <2>2, <3>3, <3>6, <4>3
      <4>. QED  BY <4>1, <4>2, <4>3
    <3>. QED  BY <3>8, <3>11
  <2>5. CASE ~replaced
    <3>1. ready' = ready /\ closedByServer' = closedByServer
      BY <1>9, <2>5 DEF ConfirmAuth
    <3>2. \A g \in HostSockets : authed'[g] = IF g = h THEN TRUE ELSE authed[g]
      BY <1>9, <2>5 DEF ConfirmAuth
    <3>3. \A g \in HostSockets : g # h => authed'[g] = authed[g] /\ verifying'[g] = verifying[g]
      BY <1>0, <2>2, <3>2
    <3>4. verifying'[h] = 0
      BY <1>0, <2>2
    <3>5. HostPart'
      BY <1>2, <2>1, <2>2, <3>1, <3>3, <3>4
    <3>. QED  BY <1>2, <3>1, <3>5
  <2>. QED  BY <2>4, <2>5
<1>10. ASSUME NEW h \in HostSockets, HostGone(h) PROVE HostPart' /\ ViewerPart'
  <2>1. OpenViewer \notin HostSockets
    BY OpenViewerIs, SocketAssumption
  <2>2. Closing(ready, OpenViewer) \in [Sockets -> States]
    BY <1>0, ClosingType
  <2>3. \A g \in HostSockets : Closing(ready, OpenViewer)[g] = ready[g]
    BY <1>0, <2>1, ClosingEffect
  <2>4. /\ \A g \in HostSockets : ready'[g] = ready[g] \/ ready'[g] = "closed"
        /\ \A g \in HostSockets : authed'[g] => authed[g]
        /\ auths' = auths /\ verifying' = verifying
    BY <1>0, <1>10, <2>2, <2>3 DEF HostGone
  <2>5. HostPart'
    BY <1>2, <2>4
  <2>6. CASE authed[h]
    <3>1. /\ \A v \in ViewerSockets : ready'[v] = Closing(ready, OpenViewer)[v]
          /\ closedByServer' = Marked(closedByServer, OpenViewer)
      BY <1>0, <1>10, <2>2, <2>6 DEF HostGone
    <3>2. ViewerPart'
      BY <1>0, <1>2, <3>1 DEF Closing, Marked
    <3>. QED  BY <2>5, <3>2
  <2>7. CASE ~authed[h]
    BY <1>0, <1>2, <1>10, <2>5, <2>7 DEF HostGone
  <2>. QED  BY <2>6, <2>7
<1>11. ASSUME NEW v \in ViewerSockets, AcceptViewer(v) \/ ViewerGone(v) PROVE HostPart' /\ ViewerPart'
  <2>1. /\ \A h \in HostSockets : ready'[h] = ready[h]
        /\ \A w \in ViewerSockets : ready'[w] = "closing" => ready[w] = "closing"
        /\ UNCHANGED <<authed, auths, verifying, closedByServer>>
    BY <1>0, <1>11 DEF AcceptViewer, ViewerGone
  <2>. QED  BY <1>2, <2>1
<1>12. CASE Restart
  <2>1. /\ \A x \in Sockets : ready'[x] # "closing" /\ (ready'[x] = "none" => ready[x] = "none")
        /\ \A h \in HostSockets : verifying'[h] = 0
        /\ UNCHANGED <<authed, auths, closedByServer>>
    BY <1>12 DEF Restart
  <2>. QED  BY <1>2, <2>1
<1>13. ASSUME NEW ws \in Sockets, NEW c, BadFrame(ws, c) PROVE HostPart' /\ ViewerPart'
  BY <1>0, <1>5, <1>13 DEF BadFrame, AgentsOnly
<1>14. ASSUME NEW h \in HostSockets, UnauthedFrame(h) PROVE HostPart' /\ ViewerPart'
  BY <1>0, <1>5, <1>14 DEF UnauthedFrame, AgentsOnly
<1>15. ASSUME NEW h \in HostSockets, HostKick(h) PROVE HostPart' /\ ViewerPart'
  <2>1. OpenViewer \notin HostSockets
    BY OpenViewerIs, SocketAssumption
  <2>. QED  BY <1>5, <1>15, <2>1 DEF HostKick
<1>16. ASSUME NEW v \in ViewerSockets, OtherViewerFrame(v) PROVE HostPart' /\ ViewerPart'
  BY <1>0, <1>5, <1>16 DEF OtherViewerFrame
<1>17. ASSUME NEW h \in HostSockets PROVE ~OtherHostFrame(h)
  BY DEF OtherHostFrame, AgentsOnly
<1>18. ASSUME NEW ws \in Sockets PROVE ~SocketDrops(ws)
  BY DEF SocketDrops, AgentsOnly
<1>19. ASSUME NEW h \in HostSockets, NEW d \in Data, HostRelay(h, d) PROVE HostPart' /\ ViewerPart'
  BY <1>3, <1>19 DEF HostRelay
<1>20. ASSUME NEW v \in ViewerSockets, NEW d \in Data, ViewerRelay(v, d) PROVE HostPart' /\ ViewerPart'
  BY <1>3, <1>20 DEF ViewerRelay
<1>21. CASE UNCHANGED vars
  BY <1>3, <1>21 DEF vars
<1>. HIDE DEF HostPart, ViewerPart
<1>. QED
  BY <1>6, <1>7, <1>8, <1>9, <1>10, <1>11, <1>12, <1>13, <1>14, <1>15, <1>16, <1>17, <1>18, <1>19,
     <1>20, <1>21
  DEF Next, HostNext, ViewerNext

\* Initially nobody is connected.
LEMMA InitInv ==
    ASSUME Init
    PROVE  /\ OwnerInv /\ SessionInv /\ AgentInv
           /\ AuthedHosts = {} /\ OpenViewers = {}
           /\ \A h \in HostSockets : DOMAIN out[h] = {}
<1>1. AuthedHosts = {} /\ OpenViewers = {} /\ \A h \in HostSockets : DOMAIN out[h] = {}
  BY DEF Init, AuthedHosts, OpenViewers, Sockets
<1>2. OwnerInv /\ SessionInv
  BY <1>1 DEF Init, OwnerInv, AuthedKeyIsOwner, SessionInv, OneAuthedHost, OneOpenViewer, Sockets
<1>3. AgentInv
  BY <1>1 DEF Init, AgentInv, Sockets
<1>. QED  BY <1>1, <1>2, <1>3

\* With hosts that keep to the protocol the room does what Rendezvous promises, step by
\* step: one waiting host, one viewer in session with it, no session without its host,
\* and an ID that keeps its owner - though claims, takeovers and signature checks
\* overlap and the room restarts.
THEOREM RoomImplementsRendezvous == ASSUME AgentsOnly PROVE Spec => ImplementsRendezvous
<1>1. Init => Abstract!Init
  BY InitInv DEF Init, Abstract!Init, AuthedHost, OpenViewer
<1>2. Init => OwnerInv /\ SessionInv /\ AgentInv
  BY InitInv
<1>3. TypeOK /\ OwnerInv /\ SessionInv /\ AgentInv /\ [Next]_vars => [Abstract!Next]_(Abstract!vars)
  BY RefinementStep
<1>4. TypeOK /\ OwnerInv /\ SessionInv /\ SessionInv' /\ AgentInv /\ [Next]_vars => AgentInv'
  BY AgentInvStep
<1>. QED
  BY <1>1, <1>2, <1>3, <1>4, TypeCorrect, OwnerInvStep, SessionInvStep, PTL
  DEF Spec, ImplementsRendezvous, Abstract!Spec
-----------------------------------------------------------------------------
(***************************************************************************)
(* Under the same assumption the host's log tells one session after        *)
(* another.                                                                *)
(***************************************************************************)

\* The last thing h was told about viewers is that v joined.
Serves(h, v) ==
    \E j \in DOMAIN out[h] :
        /\ out[h][j] = ViewerJoined(v)
        /\ \A k \in (j + 1)..Len(out[h]) : out[h][k].t \notin {"viewer_joined", "viewer_left"}

ServedInv == \A v \in OpenViewers : \A h \in AuthedHosts : Serves(h, v)

\* A viewer whose departure is reported was still connected.
LEMMA ReportedWasOpen ==
    ASSUME AgentsOnly, TypeOK, AgentInv, NEW v \in ViewerSockets, ViewerGone(v), ~closedByServer[v]
    PROVE  v \in OpenViewers /\ v \notin OpenViewers'
<1>1. ready[v] = "open"
  BY DEF AgentsOnly, AgentInv, ViewerGone, GoneEventDue
<1>2. ready'[v] = "closed"
  BY DEF ViewerGone, TypeOK, Sockets
<1>. QED  BY <1>1, <1>2 DEF OpenViewers

\* A step keeps the waiting host in session with the connected viewer.
LEMMA ServedStep ==
    ASSUME AgentsOnly, TypeOK, TypeOK', OwnerInv, SessionInv, SessionInv', AgentInv, ServedInv, [Next]_vars
    PROVE  ServedInv'
<1>. SUFFICES ASSUME NEW v \in ViewerSockets, v \in OpenViewers', NEW h \in HostSockets, h \in AuthedHosts'
              PROVE  \E j \in DOMAIN out'[h] :
                        /\ out'[h][j] = ViewerJoined(v)
                        /\ \A k \in (j + 1)..Len(out'[h]) : out'[h][k].t \notin {"viewer_joined", "viewer_left"}
  BY DEF ServedInv, Serves, OpenViewers, AuthedHosts, ViewerJoined
<1>0. out[h] \in Seq(Message) /\ out'[h] \in Seq(Message) /\ ViewerJoined(v) \in Message
  BY MessageType DEF TypeOK, Sockets
<1>1. CASE AcceptViewer(v)
  <2>1. AuthedHost \in AuthedHosts /\ AuthedHost # v
    BY <1>1, RoomIsFree, SocketAssumption DEF AuthedHosts
  <2>2. h \in AuthedHosts
    BY <1>1, SocketAssumption DEF AcceptViewer, AuthedHosts, TypeOK, Sockets
  <2>3. h = AuthedHost
    BY <2>2, TheOnes
  <2>4. out'[h] = Append(out[h], ViewerJoined(v))
    BY <1>1, <2>1, <2>3, SocketAssumption DEF AcceptViewer, TypeOK, Sockets
  <2>5. /\ Len(out[h]) + 1 \in DOMAIN out'[h] /\ out'[h][Len(out[h]) + 1] = ViewerJoined(v)
        /\ (Len(out[h]) + 2)..Len(out'[h]) = {}
    BY <1>0, <2>4, AppendAt
  <2>. QED  BY <1>0, <2>5
<1>2. CASE ~AcceptViewer(v)
  <2>1. v \in OpenViewers
    BY <1>2, SocketStep DEF OpenViewers
  <2>2. h \in AuthedHosts
    BY <2>1, RefinementStep, SessionKeepsHost
  <2>3. PICK j \in DOMAIN out[h] :
              /\ out[h][j] = ViewerJoined(v)
              /\ \A k \in (j + 1)..Len(out[h]) : out[h][k].t \notin {"viewer_joined", "viewer_left"}
    BY <2>1, <2>2 DEF ServedInv, Serves
  <2>4. CASE out'[h] = out[h]
    BY <2>3, <2>4
  <2>5. ASSUME NEW m \in Message, Logs(h, m)
        PROVE  \E l \in DOMAIN out'[h] :
                  /\ out'[h][l] = ViewerJoined(v)
                  /\ \A k \in (l + 1)..Len(out'[h]) : out'[h][k].t \notin {"viewer_joined", "viewer_left"}
    <3>1. ~Announces(h, m)
      BY <2>1, RoomIsFree DEF Announces
    <3>2. ~Reports(h, m)
      BY <2>1, ReportedWasOpen, TheOnes DEF Reports
    <3>3. m.t \notin {"viewer_joined", "viewer_left"}
      BY <2>5, <3>1, <3>2 DEF Logs, Plain, Forwards, Relay
    <3>4. out'[h] = Append(out[h], m)
      BY <2>5 DEF Logs
    <3>5. j \in DOMAIN out'[h] /\ out'[h][j] = ViewerJoined(v)
      BY <1>0, <2>3, <3>4, AppendAt
    <3>6. \A k \in (j + 1)..Len(out'[h]) : out'[h][k].t \notin {"viewer_joined", "viewer_left"}
      BY <1>0, <2>3, <3>3, <3>4, AppendAt
    <3>. QED  BY <3>5, <3>6
  <2>. QED  BY <2>4, <2>5, LogStep
<1>. QED  BY <1>1, <1>2

\* A step that reports a departure does so once, after that viewer's announcement.
LEMMA LeftStep ==
    ASSUME AgentsOnly, TypeOK, TypeOK', SessionInv, AgentInv, ServedInv, LeftMatchesJoin, [Next]_vars
    PROVE  LeftMatchesJoin'
<1>. SUFFICES ASSUME NEW h \in HostSockets, NEW i \in DOMAIN out'[h], out'[h][i].t = "viewer_left"
              PROVE  \E j \in DOMAIN out'[h] :
                        /\ j < i /\ out'[h][j].t = "viewer_joined"
                        /\ \A k \in (j + 1)..(i - 1) : out'[h][k].t # "viewer_joined"
                        /\ out'[h][i].viewer = out'[h][j].viewer
                        /\ \A k \in (j + 1)..(i - 1) : out'[h][k].t # "viewer_left"
  BY DEF LeftMatchesJoin, LastJoinBefore
<1>0. out[h] \in Seq(Message) /\ out'[h] \in Seq(Message)
  BY DEF TypeOK, Sockets
<1>1. \A a \in DOMAIN out[h] : out[h][a].t = "viewer_left" =>
         \E j \in DOMAIN out[h] :
            /\ j < a /\ out[h][j].t = "viewer_joined"
            /\ \A k \in (j + 1)..(a - 1) : out[h][k].t # "viewer_joined"
            /\ out[h][a].viewer = out[h][j].viewer
            /\ \A k \in (j + 1)..(a - 1) : out[h][k].t # "viewer_left"
  BY DEF LeftMatchesJoin, LastJoinBefore
<1>2. CASE out'[h] = out[h]
  BY <1>1, <1>2
<1>3. ASSUME NEW m \in Message, Logs(h, m)
      PROVE  \E j \in DOMAIN out'[h] :
                /\ j < i /\ out'[h][j].t = "viewer_joined"
                /\ \A k \in (j + 1)..(i - 1) : out'[h][k].t # "viewer_joined"
                /\ out'[h][i].viewer = out'[h][j].viewer
                /\ \A k \in (j + 1)..(i - 1) : out'[h][k].t # "viewer_left"
  <2>1. out'[h] = Append(out[h], m)
    BY <1>3 DEF Logs
  <2>2. CASE i \in DOMAIN out[h]
    <3>1. out'[h][i] = out[h][i]
      BY <1>0, <2>1, <2>2, AppendAt
    <3>2. PICK j \in DOMAIN out[h] :
            /\ j < i /\ out[h][j].t = "viewer_joined"
            /\ \A k \in (j + 1)..(i - 1) : out[h][k].t # "viewer_joined"
            /\ out[h][i].viewer = out[h][j].viewer
            /\ \A k \in (j + 1)..(i - 1) : out[h][k].t # "viewer_left"
      BY <1>1, <2>2, <3>1
    <3>3. j \in DOMAIN out'[h] /\ out'[h][j] = out[h][j]
      BY <1>0, <2>1, AppendAt
    <3>4. \A k \in (j + 1)..(i - 1) : out'[h][k] = out[h][k]
      BY <1>0, <2>1, <2>2, AppendAt
    <3>. QED  BY <3>1, <3>2, <3>3, <3>4
  <2>3. CASE i \notin DOMAIN out[h]
    <3>1. i = Len(out[h]) + 1 /\ out'[h][i] = m
      BY <1>0, <2>1, <2>3, AppendAt
    <3>2. Reports(h, m)
      BY <1>3, <3>1 DEF Logs, Plain, Announces, Forwards, ViewerJoined, Relay
    <3>3. PICK v \in ViewerSockets : /\ ViewerGone(v) /\ ~closedByServer[v]
                                     /\ h = AuthedHost /\ m = ViewerLeft(v)
      BY <3>2 DEF Reports
    <3>4. v \in OpenViewers /\ h \in AuthedHosts
      BY <3>3, ReportedWasOpen, AuthedHostIs, SocketAssumption DEF AuthedHosts
    <3>5. PICK j \in DOMAIN out[h] :
              /\ out[h][j] = ViewerJoined(v)
              /\ \A k \in (j + 1)..Len(out[h]) : out[h][k].t \notin {"viewer_joined", "viewer_left"}
      BY <3>4 DEF ServedInv, Serves
    <3>6. j \in DOMAIN out'[h] /\ out'[h][j] = ViewerJoined(v) /\ j < i
      BY <1>0, <2>1, <3>1, <3>5, AppendAt
    <3>7. \A k \in (j + 1)..(i - 1) : out'[h][k] = out[h][k] /\ k \in (j + 1)..Len(out[h])
      BY <1>0, <2>1, <3>1, AppendAt
    <3>8. out'[h][j].t = "viewer_joined" /\ out'[h][j].viewer = v /\ out'[h][i].viewer = v
      BY <3>1, <3>3, <3>6 DEF ViewerJoined, ViewerLeft
    <3>. QED  BY <3>5, <3>6, <3>7, <3>8
  <2>. QED  BY <2>2, <2>3
<1>. QED  BY <1>2, <1>3, LogStep

\* Who was told host_left: nobody before it joined, and nobody the waiting host was
\* told of.
ToldInv ==
    \A v \in ViewerSockets : Has(v, HostLeft) =>
        /\ ready[v] # "none"
        /\ \A h \in AuthedHosts : ~Has(h, ViewerJoined(v))

\* Another message does not make a viewer one that was told.
LEMMA NotTold ==
    ASSUME NEW v \in ViewerSockets, out[v] \in Seq(Message), NEW m \in Message, m # HostLeft,
           out'[v] \in {out[v], Append(out[v], m)}, Has(v, HostLeft)'
    PROVE  Has(v, HostLeft)
<1>1. PICK i \in DOMAIN out'[v] : out'[v][i] = HostLeft
  BY DEF Has, HostLeft
<1>2. CASE out'[v] = out[v]
  BY <1>1, <1>2 DEF Has
<1>3. CASE out'[v] = Append(out[v], m)
  <2>1. i \in 1..Len(out[v]) \/ out'[v][i] = m
    BY <1>1, <1>3, AppendAt
  <2>2. i \in DOMAIN out[v] /\ out[v][i] = HostLeft
    BY <1>1, <1>3, <2>1, AppendAt
  <2>. QED  BY <2>2 DEF Has
<1>. QED  BY <1>2, <1>3

\* The two ways host_left is sent to v: its host's close event, and a takeover.
Ends(v) ==
    /\ v \in OpenViewers
    /\ \E h \in HostSockets : \/ HostGone(h) /\ authed[h]
                              \/ ConfirmAuth(h) /\ AuthedHost # NoSocket /\ AuthedHost # h

\* Who is told host_left is in session and sees one of the two, and nobody goes back to
\* before it joined.
LEMMA ToldStep ==
    ASSUME TypeOK, [Next]_vars, NEW v \in ViewerSockets
    PROVE  /\ Has(v, HostLeft)' => Has(v, HostLeft) \/ Ends(v)
           /\ ready'[v] = "none" => ready[v] = "none"
<1>. DEFINE Goal == /\ Has(v, HostLeft)' => Has(v, HostLeft) \/ Ends(v)
                    /\ ready'[v] = "none" => ready[v] = "none"
<1>. SUFFICES Goal
  OBVIOUS
<1>. USE DEF Sockets
<1>0. /\ out \in [Sockets -> Seq(Message)] /\ ready \in [Sockets -> States]
      /\ v \in Sockets /\ out[v] \in Seq(Message) /\ v \notin HostSockets
  BY SocketAssumption DEF TypeOK
<1>1. ASSUME NEW m \in Message, m # HostLeft, out'[v] \in {out[v], Append(out[v], m)},
             ready'[v] = "none" => ready[v] = "none"
      PROVE  Goal
  BY <1>0, <1>1, NotTold
<1>2. ASSUME NEW ws, NEW m \in Message, m # HostLeft, out' = Sent(out, ws, m),
             ready'[v] = "none" => ready[v] = "none"
      PROVE  Goal
  <2>1. out'[v] \in {out[v], Append(out[v], m)}
    BY <1>0, <1>2, SentEffect
  <2>. QED  BY <1>1, <1>2, <2>1
<1>3. ASSUME UNCHANGED out, ready'[v] = "none" => ready[v] = "none" PROVE Goal
  BY <1>3 DEF Has
<1>4. ASSUME NEW ws, NEW c \in {ProtocolError, Kicked, AuthFailed, TooBig}, CloseFromServer(ws, c)
      PROVE  Goal
  <2>1. CloseFrame(c) \in Message /\ CloseFrame(c) # HostLeft
    BY MessageType DEF CloseFrame, HostLeft
  <2>2. ready'[v] = "none" => ready[v] = "none"
    BY <1>0, <1>4, ClosingEffect DEF CloseFromServer
  <2>3. out' = Sent(out, ws, CloseFrame(c))
    BY <1>4 DEF CloseFromServer
  <2>. QED  BY <1>2, <2>1, <2>2, <2>3
<1>5. ASSUME NEW h \in HostSockets, NEW k, NEW claim, AcceptHost(h, k, claim) PROVE Goal
  BY <1>0, <1>5 DEF AcceptHost, Has
<1>6. ASSUME NEW h \in HostSockets, ConfirmAuth(h) PROVE Goal
  <2>1. Registered \in Message /\ Registered # HostLeft
    BY MessageType DEF Registered, HostLeft
  <2>2. ready'[v] = "none" => ready[v] = "none"
    <3>1. Closing(ready, OpenViewer) \in [Sockets -> States]
      BY <1>0, ClosingType
    <3>2. Closing(Closing(ready, OpenViewer), AuthedHost)[v] = "none" => ready[v] = "none"
      BY <1>0, <3>1, ClosingEffect
    <3>. QED  BY <1>6, <3>2 DEF ConfirmAuth
  <2>3. CASE AuthedHost # NoSocket /\ AuthedHost # h
    <3>1. CASE v \in OpenViewers
      BY <1>6, <2>2, <2>3, <3>1 DEF Ends
    <3>2. CASE v \notin OpenViewers
      <4>. DEFINE o == HostGoneOut(out)
                  p == Sent(o, AuthedHost, CloseFrame(Replaced))
      <4>1. v # OpenViewer /\ v # AuthedHost
        BY <1>0, <3>2, OpenViewerIs, AuthedHostIs, SocketAssumption DEF OpenViewers
      <4>2. o \in [Sockets -> Seq(Message)]
        BY <1>0, HostGoneOutType
      <4>3. o[v] = out[v]
        BY <1>0, <4>1, HostGoneKeepsOtherLogs
      <4>. HIDE DEF o
      <4>4. p \in [Sockets -> Seq(Message)]
        BY <4>2, SentType, MessageType
      <4>5. p[v] = o[v]
        BY <1>0, <4>1, <4>2 DEF Sent
      <4>. HIDE DEF p
      <4>6. out' = Sent(p, h, Registered)
        BY <1>6, <2>3 DEF ConfirmAuth, o, p
      <4>7. v # h
        BY <1>0, <1>6
      <4>8. out'[v] = out[v]
        BY <1>0, <4>3, <4>4, <4>5, <4>6, <4>7 DEF Sent
      <4>. QED  BY <1>1, <2>1, <2>2, <4>8
    <3>. QED  BY <3>1, <3>2
  <2>4. CASE ~(AuthedHost # NoSocket /\ AuthedHost # h)
    <3>1. out' = Sent(out, h, Registered)
      BY <1>6, <2>4 DEF ConfirmAuth
    <3>. QED  BY <1>2, <2>1, <2>2, <3>1
  <2>. QED  BY <2>3, <2>4
<1>7. ASSUME NEW h \in HostSockets, HostGone(h) PROVE Goal
  <2>1. ready'[v] = "none" => ready[v] = "none"
    <3>1. Closing(ready, OpenViewer) \in [Sockets -> States]
      BY <1>0, ClosingType
    <3>2. Closing(ready, OpenViewer)[v] = "none" => ready[v] = "none"
      BY <1>0, ClosingEffect
    <3>. QED  BY <1>0, <1>7, <3>1, <3>2 DEF HostGone
  <2>2. CASE authed[h] /\ v \in OpenViewers
    BY <1>7, <2>1, <2>2 DEF Ends
  <2>3. CASE authed[h] /\ v \notin OpenViewers
    <3>1. v # OpenViewer
      BY <1>0, <2>3, OpenViewerIs, SocketAssumption DEF OpenViewers
    <3>2. out'[v] = out[v]
      BY <1>0, <1>7, <2>3, <3>1, HostGoneKeepsOtherLogs DEF HostGone
    <3>. QED  BY <2>1, <3>2 DEF Has
  <2>4. CASE ~authed[h]
    BY <1>3, <1>7, <2>1, <2>4 DEF HostGone
  <2>. QED  BY <2>2, <2>3, <2>4
<1>8. ASSUME NEW w \in ViewerSockets, AcceptViewer(w) PROVE Goal
  <2>1. Joined \in Message /\ Joined # HostLeft
    BY MessageType DEF Joined, HostLeft
  <2>2. AuthedHost # v
    BY <1>0, AuthedHostIs, SocketAssumption
  <2>3. out'[v] \in {out[v], Append(out[v], Joined)} /\ (ready'[v] = "none" => ready[v] = "none")
    BY <1>0, <1>8, <2>2 DEF AcceptViewer
  <2>. QED  BY <1>1, <2>1, <2>3
<1>9. ASSUME NEW h \in HostSockets, NEW d \in Data, HostRelay(h, d) PROVE Goal
  <2>1. Relay(h, d) \in Message /\ Relay(h, d) # HostLeft
    BY MessageType DEF Relay, HostLeft
  <2>. QED  BY <1>2, <1>9, <2>1 DEF HostRelay
<1>10. ASSUME NEW w \in ViewerSockets, NEW d \in Data, ViewerRelay(w, d) PROVE Goal
  <2>1. Relay(w, d) \in Message /\ Relay(w, d) # HostLeft
    BY MessageType DEF Relay, HostLeft
  <2>. QED  BY <1>2, <1>10, <2>1 DEF ViewerRelay
<1>11. ASSUME NEW w \in ViewerSockets, ViewerGone(w) PROVE Goal
  <2>1. ViewerLeft(w) \in Message /\ ViewerLeft(w) # HostLeft
    BY MessageType DEF ViewerLeft, HostLeft
  <2>2. ready'[v] = "none" => ready[v] = "none"
    BY <1>0, <1>11 DEF ViewerGone
  <2>. QED  BY <1>2, <1>3, <1>11, <2>1, <2>2 DEF ViewerGone
<1>12. ASSUME NEW ws \in Sockets, NEW c \in {ProtocolError, TooBig}, BadFrame(ws, c) PROVE Goal
  BY <1>4, <1>12 DEF BadFrame
<1>13. ASSUME NEW h \in HostSockets,
              UnauthedFrame(h) \/ RejectAuth(h) \/ HostKick(h) \/ OtherHostFrame(h)
       PROVE  Goal
  BY <1>4, <1>13 DEF UnauthedFrame, RejectAuth, HostKick, OtherHostFrame
<1>14. ASSUME NEW w \in ViewerSockets, OtherViewerFrame(w) PROVE Goal
  BY <1>4, <1>14 DEF OtherViewerFrame
<1>15. ASSUME NEW ws \in Sockets, SocketDrops(ws) PROVE Goal
  BY <1>0, <1>3, <1>15 DEF SocketDrops
<1>16. ASSUME NEW h \in HostSockets, AuthFrame(h) PROVE Goal
  BY <1>3, <1>16 DEF AuthFrame
<1>17. CASE Restart
  BY <1>0, <1>3, <1>17 DEF Restart
<1>18. CASE UNCHANGED vars
  BY <1>3, <1>18 DEF vars
<1>. HIDE DEF Goal
<1>. QED
  BY <1>5, <1>6, <1>7, <1>8, <1>9, <1>10, <1>11, <1>12, <1>13, <1>14, <1>15, <1>16, <1>17, <1>18
  DEF Next, HostNext, ViewerNext

\* Whoever ends a session takes its host out of waiting in the same step, and a
\* connection that takes over was told of nobody.
LEMMA ToldInvStep ==
    ASSUME AgentsOnly, TypeOK, OwnerInv, SessionInv, LogInv, AgentInv, ToldInv, [Next]_vars
    PROVE  ToldInv'
<1>. SUFFICES ASSUME NEW v \in ViewerSockets, Has(v, HostLeft)'
              PROVE  /\ ready'[v] # "none"
                     /\ \A h \in HostSockets : h \in AuthedHosts' => ~Has(h, ViewerJoined(v))'
  BY DEF ToldInv, AuthedHosts, ViewerJoined
<1>1. /\ Has(v, HostLeft) \/ Ends(v)
      /\ ready'[v] = "none" => ready[v] = "none"
  BY ToldStep
<1>2. ready[v] # "none"
  BY <1>1 DEF ToldInv, Ends, OpenViewers
<1>3. ASSUME NEW h \in HostSockets, h \in AuthedHosts', Has(h, ViewerJoined(v))'
      PROVE  FALSE
  <2>0. out[h] \in Seq(Message) /\ ready'[h] = "open" /\ authed'[h]
    BY <1>3 DEF TypeOK, Sockets, AuthedHosts
  <2>1. PICK i \in DOMAIN out'[h] : out'[h][i] = ViewerJoined(v)
    BY <1>3 DEF Has, ViewerJoined
  <2>2. Has(h, ViewerJoined(v))
    <3>1. CASE out'[h] = out[h]
      BY <2>1, <3>1 DEF Has
    <3>2. ASSUME NEW m \in Message, Logs(h, m) PROVE Has(h, ViewerJoined(v))
      <4>1. out'[h] = Append(out[h], m)
        BY <3>2 DEF Logs
      <4>2. CASE i \in DOMAIN out[h]
        BY <2>0, <2>1, <4>1, <4>2, AppendAt DEF Has
      <4>3. CASE i \notin DOMAIN out[h]
        <5>1. m = ViewerJoined(v)
          BY <2>0, <2>1, <4>1, <4>3, AppendAt
        <5>2. Announces(h, m)
          BY <3>2, <5>1 DEF Logs, Plain, Forwards, Reports, ViewerJoined, Relay, ViewerLeft
        <5>3. AcceptViewer(v)
          BY <5>1, <5>2 DEF Announces, ViewerJoined
        <5>. QED  BY <1>2, <5>3 DEF AcceptViewer
      <4>. QED  BY <4>2, <4>3
    <3>. QED  BY <3>1, <3>2, LogStep
  <2>3. h \in AuthedHosts
    <3>1. ready[h] = "open"
      BY <2>0, SocketStep
    <3>2. authed[h]
      BY <2>2, <3>1 DEF LogInv, Has, ViewerJoined
    <3>. QED  BY <3>1, <3>2 DEF AuthedHosts
  <2>4. CASE Has(v, HostLeft)
    BY <2>2, <2>3, <2>4 DEF ToldInv
  <2>5. ASSUME NEW g \in HostSockets, HostGone(g), authed[g] PROVE FALSE
    <3>1. ready[g] = "open"
      BY <2>5 DEF AgentsOnly, AgentInv, HostGone, GoneEventDue
    <3>2. g = h
      BY <2>3, <2>5, <3>1 DEF AuthedHosts, SessionInv, OneAuthedHost
    <3>. QED  BY <2>0, <2>5, <3>2 DEF HostGone, TypeOK
  <2>6. ASSUME NEW g \in HostSockets, ConfirmAuth(g), AuthedHost # NoSocket, AuthedHost # g
        PROVE  FALSE
    <3>1. h = AuthedHost
      BY <2>3, TheOnes
    <3>. QED  BY <2>0, <2>6, <3>1 DEF ConfirmAuth
  <2>. QED  BY <1>1, <2>4, <2>5, <2>6 DEF Ends
<1>. QED  BY <1>1, <1>2, <1>3

\* The connected viewer's session is with the waiting host: there is one, and it was
\* told of this viewer and of nobody since (acceptViewer, hostGone).  A viewer was told
\* host_left only if its host waits no longer (onGone).
THEOREM ViewersHaveTheirHost == ASSUME AgentsOnly PROVE Spec => []ViewerHasItsHost
<1>1. Init => OwnerInv /\ SessionInv /\ AgentInv /\ ServedInv /\ LogInv /\ ToldInv
  <2>1. Init => LogInv /\ ToldInv
    BY DEF Init, LogInv, ToldInv, Has, AuthedHosts, OpenViewers, Sockets
  <2>. QED  BY <2>1, InitInv DEF ServedInv
<1>2. TypeOK /\ OwnerInv /\ SessionInv /\ SessionInv' /\ AgentInv /\ [Next]_vars => AgentInv'
  BY AgentInvStep
<1>3. TypeOK /\ TypeOK' /\ OwnerInv /\ SessionInv /\ SessionInv' /\ AgentInv /\ ServedInv /\ [Next]_vars
        => ServedInv'
  BY ServedStep
<1>4. TypeOK /\ AgentInv /\ ServedInv /\ ToldInv => ViewerHasItsHost
  <2>. SUFFICES ASSUME TypeOK, AgentInv, ServedInv, ToldInv, NEW v \in OpenViewers
                PROVE  /\ AuthedHost # NoSocket
                       /\ \E j \in DOMAIN out[AuthedHost] :
                            /\ out[AuthedHost][j] = ViewerJoined(v)
                            /\ LastJoinBefore(AuthedHost, j, Len(out[AuthedHost]) + 1)
    BY DEF ViewerHasItsHost, ToldInv
  <2>1. AuthedHost \in AuthedHosts /\ AuthedHost \in HostSockets /\ AuthedHost # NoSocket
    BY SocketAssumption DEF AgentInv, AuthedHost, AuthedHosts
  <2>2. Serves(AuthedHost, v)
    BY <2>1 DEF ServedInv
  <2>. DEFINE h == AuthedHost
  <2>. HIDE DEF h
  <2>3. h \in HostSockets /\ Serves(h, v)
    BY <2>1, <2>2 DEF h
  <2>4. out[h] \in Seq(Message)
    BY <2>3 DEF TypeOK, Sockets
  <2>5. PICK j \in DOMAIN out[h] :
            /\ out[h][j] = ViewerJoined(v)
            /\ \A k \in (j + 1)..Len(out[h]) : out[h][k].t \notin {"viewer_joined", "viewer_left"}
    BY <2>3 DEF Serves
  <2>6. LastJoinBefore(h, j, Len(out[h]) + 1)
    BY <2>4, <2>5 DEF LastJoinBefore, ViewerJoined
  <2>. QED  BY <2>1, <2>5, <2>6 DEF h
<1>5. TypeOK /\ TypeOK' /\ OwnerInv /\ SessionInv /\ LogInv /\ [Next]_vars => LogInv'
  BY LogInvStep
<1>6. TypeOK /\ OwnerInv /\ SessionInv /\ LogInv /\ AgentInv /\ ToldInv /\ [Next]_vars => ToldInv'
  BY ToldInvStep
<1>. QED
  BY <1>1, <1>2, <1>3, <1>4, <1>5, <1>6, TypeCorrect, OwnerInvStep, SessionInvStep, PTL DEF Spec

\* A viewer_left is about the viewer announced last, and is said once, so it never ends
\* the attempt of the viewer that came next (recv_relay, session.rs:330).
THEOREM DeparturesMatchAnnouncements == ASSUME AgentsOnly PROVE Spec => []LeftMatchesJoin
<1>1. Init => OwnerInv /\ SessionInv /\ AgentInv /\ ServedInv /\ LeftMatchesJoin
  BY InitInv DEF ServedInv, LeftMatchesJoin
<1>2. TypeOK /\ OwnerInv /\ SessionInv /\ SessionInv' /\ AgentInv /\ [Next]_vars => AgentInv'
  BY AgentInvStep
<1>3. TypeOK /\ TypeOK' /\ OwnerInv /\ SessionInv /\ SessionInv' /\ AgentInv /\ ServedInv /\ [Next]_vars
        => ServedInv'
  BY ServedStep
<1>4. TypeOK /\ TypeOK' /\ SessionInv /\ AgentInv /\ ServedInv /\ LeftMatchesJoin /\ [Next]_vars
        => LeftMatchesJoin'
  BY LeftStep
<1>. QED
  BY <1>1, <1>2, <1>3, <1>4, TypeCorrect, OwnerInvStep, SessionInvStep, PTL DEF Spec
=============================================================================
