------------------------------ MODULE HostRoom ------------------------------
(***************************************************************************)
(* The signaling room of one 9-digit ID: the HostRoom Durable Object of    *)
(* signaling/src/host-room.ts.  The room keeps the key that owns the ID,   *)
(* the WebSockets of the host's connections (each with an attachment that  *)
(* says whether it has authenticated) and the WebSockets of viewers, and   *)
(* forwards relay messages between the one waiting host and the one viewer.*)
(*                                                                         *)
(* JavaScript runs one handler at a time, so a handler is one step - except*)
(* authenticate(), which awaits the signature check: other handlers run    *)
(* between AuthFrame and RejectAuth or ConfirmAuth.                        *)
(*                                                                         *)
(* The Workers runtime is external.  It is modelled by what the handlers   *)
(* rely on: readyState, the delivery of frames that were sent before the   *)
(* client saw a close, and one close (or error) event per socket.  Whether *)
(* a socket stops being OPEN before its close event runs, or only as the   *)
(* event runs, is not said by the source: SplitClose chooses.              *)
(***************************************************************************)
EXTENDS Naturals, Sequences, FiniteSets

CONSTANTS
    HostSockets,    \* connections a host can make (each is used once)
    ViewerSockets,  \* connections viewers can make (each is used once)
    Keys,           \* device public keys
    NoKey,          \* `owner` not stored yet
    NoSocket,       \* `undefined` of authedHost() and openViewer()
    Data,           \* what a relay message can carry
    MaxAuths,       \* bound: auth frames one host connection sends
    MaxRelays,      \* bound: unread relay messages from one socket to another
    HostMisbehaves, \* may a host send what the server answers with a close?
    SplitClose      \* may a socket stop being OPEN before its close event?

ASSUME SocketAssumption ==
    /\ HostSockets \cap ViewerSockets = {}
    /\ NoSocket \notin HostSockets \cup ViewerSockets
    /\ NoKey \notin Keys
ASSUME BoundAssumption ==
    /\ MaxAuths \in Nat /\ MaxRelays \in Nat
    /\ HostMisbehaves \in BOOLEAN /\ SplitClose \in BOOLEAN

Sockets == HostSockets \cup ViewerSockets

VARIABLES
    owner,          \* storage.kv "owner"
    ready,          \* readyState the handlers see; "none": not accepted yet,
                    \* "closing": not OPEN, close event still to come
    key,            \* HostAttachment.key
    authed,         \* HostAttachment.authed
    auths,          \* auth frames received on the connection so far
    verifying,      \* authenticate() calls waiting for verifyEd25519
    closedByServer, \* ViewerAttachment.closedByServer
    out             \* messages sent to the socket, not yet read by its client

vars == <<owner, ready, key, authed, auths, verifying, closedByServer, out>>
-----------------------------------------------------------------------------
(* Messages and close codes.  `viewer` and `from` are not on the wire: they *)
(* name the viewer a viewer_joined or viewer_left is about and the sender  *)
(* of a relay, for the properties only; no handler reads them.             *)
ProtocolError == 4000
Kicked        == 4001
HostLeftCode  == 4002
AuthFailed    == 4003
Replaced      == 4010
TooBig        == 4013

Challenge       == [t |-> "challenge"]
Registered      == [t |-> "registered"]
Joined          == [t |-> "joined"]
HostLeft        == [t |-> "host_left"]
ViewerJoined(v) == [t |-> "viewer_joined", viewer |-> v]
ViewerLeft(v)   == [t |-> "viewer_left", viewer |-> v]
Relay(ws, d)    == [t |-> "relay", data |-> d, from |-> ws]
CloseFrame(c)   == [t |-> "close", code |-> c]

Message ==
    [t : {"challenge", "registered", "joined", "host_left"}]
      \cup [t : {"viewer_joined", "viewer_left"}, viewer : ViewerSockets]
      \cup [t : {"relay"}, data : Data, from : Sockets]
      \cup [t : {"close"}, code : {ProtocolError, Kicked, HostLeftCode,
                                   AuthFailed, Replaced, TooBig}]
-----------------------------------------------------------------------------
(* authedHost() and openViewer(): the first OPEN socket that qualifies.    *)
AuthedHosts == {h \in HostSockets : ready[h] = "open" /\ authed[h]}
OpenViewers == {v \in ViewerSockets : ready[v] = "open"}
AuthedHost == IF AuthedHosts = {} THEN NoSocket ELSE CHOOSE h \in AuthedHosts : TRUE
OpenViewer == IF OpenViewers = {} THEN NoSocket ELSE CHOOSE v \in OpenViewers : TRUE

\* ws?.send(m) on the queues o: nothing is sent to an absent or closed socket.
Sent(o, ws, m) ==
    IF ws \in Sockets /\ ready[ws] = "open" THEN [o EXCEPT ![ws] = Append(@, m)] ELSE o

\* ws.close() on the readyStates r: a socket that is not OPEN stays as it is.
Closing(r, ws) ==
    IF ws \in Sockets /\ r[ws] = "open" THEN [r EXCEPT ![ws] = "closing"] ELSE r

\* Mutant of Marked: the mark is written on every socket.
MarkedAnySocket(c, ws) == [x \in DOMAIN c \cup {ws} |-> IF x = ws THEN TRUE ELSE c[x]]

\* The attachment write of closeFromServer, which only viewers get.
Marked(c, ws) == IF ws \in ViewerSockets THEN [c EXCEPT ![ws] = TRUE] ELSE c

CloseFromServer(ws, code) ==
    /\ ready' = Closing(ready, ws)
    /\ closedByServer' = Marked(closedByServer, ws)
    /\ out' = Sent(out, ws, CloseFrame(code))

Unread(to, ws) ==
    Cardinality({i \in DOMAIN out[to] : out[to][i].t = "relay" /\ out[to][i].from = ws})

\* What hostGone sends to the viewer whose session it ends.
HostGoneOut(o) == Sent(Sent(o, OpenViewer, HostLeft), OpenViewer, CloseFrame(HostLeftCode))

\* A client's frames reach the handler also after the server closed the socket.
Delivers(ws) == ready[ws] \in {"open", "closing"}
-----------------------------------------------------------------------------
(* Upgrade requests.                                                       *)
HostResponse(k, claim) ==
    CASE owner = NoKey /\ ~claim           -> 404
      [] owner # NoKey /\ owner # k /\ claim  -> 409
      [] owner # NoKey /\ owner # k /\ ~claim -> 403
      [] OTHER                             -> 101

AcceptHost(h, k, claim) ==
    /\ ready[h] = "none"
    /\ HostResponse(k, claim) = 101
    /\ ready' = [ready EXCEPT ![h] = "open"]
    /\ key' = [key EXCEPT ![h] = k]
    /\ out' = [out EXCEPT ![h] = Append(@, Challenge)]
    /\ UNCHANGED <<owner, authed, auths, verifying, closedByServer>>

ViewerResponse ==
    CASE AuthedHost = NoSocket -> 404
      [] AuthedHost # NoSocket /\ OpenViewer # NoSocket -> 409
      [] OTHER -> 101

AcceptViewer(v) ==
    /\ ready[v] = "none"
    /\ ViewerResponse = 101
    /\ ready' = [ready EXCEPT ![v] = "open"]
    /\ out' = [out EXCEPT ![v] = Append(@, Joined),
                          ![AuthedHost] = Append(@, ViewerJoined(v))]
    /\ UNCHANGED <<owner, key, authed, auths, verifying, closedByServer>>
-----------------------------------------------------------------------------
(* Frames.                                                                 *)

\* webSocketMessage: too large (4013), or not a JSON object (4000).
BadFrame(ws, code) ==
    /\ Delivers(ws)
    /\ ws \in HostSockets => HostMisbehaves
    /\ CloseFromServer(ws, code)
    /\ UNCHANGED <<owner, key, authed, auths, verifying>>

\* onHostMessage: anything but auth before authentication.  A host that keeps to
\* the protocol comes here only with what it sent before it saw itself replaced.
UnauthedFrame(h) ==
    /\ Delivers(h) /\ ~authed[h]
    /\ ready[h] = "open" => HostMisbehaves
    /\ CloseFromServer(h, AuthFailed)
    /\ UNCHANGED <<owner, key, authed, auths, verifying>>

\* onHostMessage: auth; authenticate() runs up to `await verifyEd25519`.
AuthFrame(h) ==
    /\ Delivers(h) /\ ~authed[h]
    /\ auths[h] < MaxAuths
    /\ auths' = [auths EXCEPT ![h] = @ + 1]
    /\ verifying' = [verifying EXCEPT ![h] = @ + 1]
    /\ UNCHANGED <<owner, ready, key, authed, closedByServer, out>>

\* authenticate() resumes: the signature is wrong, or the ID has another owner.
RejectAuth(h) ==
    /\ verifying[h] > 0
    /\ verifying' = [verifying EXCEPT ![h] = @ - 1]
    /\ CloseFromServer(h, AuthFailed)
    /\ UNCHANGED <<owner, key, authed, auths>>

\* Mutants of ConfirmAuth: the previous connection stays as it is; the owner is
\* not compared again after the await, or is overwritten; the takeover leaves the
\* previous connection's viewer in the room.
ConfirmAuthNoTakeover(h) ==
    /\ verifying[h] > 0
    /\ owner = NoKey \/ owner = key[h]
    /\ verifying' = [verifying EXCEPT ![h] = @ - 1]
    /\ owner' = key[h]
    /\ authed' = [authed EXCEPT ![h] = TRUE]
    /\ out' = Sent(out, h, Registered)
    /\ UNCHANGED <<ready, key, auths, closedByServer>>
ConfirmAuthAnyKey(h) ==
    /\ verifying[h] > 0
    /\ verifying' = [verifying EXCEPT ![h] = @ - 1]
    /\ owner' = IF owner = NoKey THEN key[h] ELSE owner
    /\ authed' = [x \in HostSockets |-> x = h]
    /\ out' = Sent(out, h, Registered)
    /\ UNCHANGED <<ready, key, auths, closedByServer>>
ConfirmAuthRebinds(h) ==
    /\ verifying[h] > 0
    /\ verifying' = [verifying EXCEPT ![h] = @ - 1]
    /\ owner' = key[h]
    /\ authed' = [x \in HostSockets |-> x = h]
    /\ out' = Sent(out, h, Registered)
    /\ UNCHANGED <<ready, key, auths, closedByServer>>
ConfirmAuthKeepsViewer(h) ==
    /\ verifying[h] > 0
    /\ owner = NoKey \/ owner = key[h]
    /\ verifying' = [verifying EXCEPT ![h] = @ - 1]
    /\ owner' = key[h]
    /\ authed' = [x \in HostSockets |-> x = h]
    /\ ready' = IF AuthedHost = h THEN ready ELSE Closing(ready, AuthedHost)
    /\ out' = Sent(out, h, Registered)
    /\ UNCHANGED <<key, auths, closedByServer>>

\* authenticate() resumes with a good signature: bind the ID if it is free, end
\* the session of the previous connection and close it, mark this one authed.
\* The handler does not look at h's own readyState again.
ConfirmAuth(h) ==
    LET previous == AuthedHost
        replaced == previous # NoSocket /\ previous # h
    IN  /\ verifying[h] > 0
        /\ owner = NoKey \/ owner = key[h]
        /\ verifying' = [verifying EXCEPT ![h] = @ - 1]
        /\ owner' = key[h]
        /\ authed' = [x \in HostSockets |->
                        IF x = h THEN TRUE
                        ELSE IF replaced /\ x = previous THEN FALSE ELSE authed[x]]
        /\ IF replaced
           THEN /\ ready' = Closing(Closing(ready, OpenViewer), previous)
                /\ closedByServer' = Marked(closedByServer, OpenViewer)
                /\ out' = Sent(Sent(HostGoneOut(out), previous, CloseFrame(Replaced)),
                               h, Registered)
           ELSE /\ out' = Sent(out, h, Registered)
                /\ UNCHANGED <<ready, closedByServer>>
        /\ UNCHANGED <<key, auths>>

\* onHostMessage after authentication.
HostRelay(h, d) ==
    /\ Delivers(h) /\ authed[h]
    /\ OpenViewer # NoSocket /\ Unread(OpenViewer, h) < MaxRelays
    /\ out' = Sent(out, OpenViewer, Relay(h, d))
    /\ UNCHANGED <<owner, ready, key, authed, auths, verifying, closedByServer>>

HostKick(h) ==
    /\ Delivers(h) /\ authed[h]
    /\ OpenViewer # NoSocket
    /\ CloseFromServer(OpenViewer, Kicked)
    /\ UNCHANGED <<owner, key, authed, auths, verifying>>

OtherHostFrame(h) ==
    /\ Delivers(h) /\ authed[h] /\ HostMisbehaves
    /\ CloseFromServer(h, ProtocolError)
    /\ UNCHANGED <<owner, key, authed, auths, verifying>>

\* Mutant of ViewerRelay: frames of a viewer that is being closed still pass.
ViewerRelayLate(v, d) ==
    /\ Delivers(v)
    /\ AuthedHost # NoSocket /\ Unread(AuthedHost, v) < MaxRelays
    /\ out' = Sent(out, AuthedHost, Relay(v, d))
    /\ UNCHANGED <<owner, ready, key, authed, auths, verifying, closedByServer>>

\* webSocketMessage of a viewer.  A frame of any socket but openViewer() is dropped.
ViewerRelay(v, d) ==
    /\ v = OpenViewer
    /\ AuthedHost # NoSocket /\ Unread(AuthedHost, v) < MaxRelays
    /\ out' = Sent(out, AuthedHost, Relay(v, d))
    /\ UNCHANGED <<owner, ready, key, authed, auths, verifying, closedByServer>>

OtherViewerFrame(v) ==
    /\ v = OpenViewer
    /\ CloseFromServer(v, ProtocolError)
    /\ UNCHANGED <<owner, key, authed, auths, verifying>>
-----------------------------------------------------------------------------
(* Sockets going away.                                                     *)

\* With SplitClose, the runtime sees the client's close before the event runs.
SocketDrops(ws) ==
    /\ SplitClose
    /\ ready[ws] = "open"
    /\ ready' = [ready EXCEPT ![ws] = "closing"]
    /\ UNCHANGED <<owner, key, authed, auths, verifying, closedByServer, out>>

GoneEventDue(ws) == ready[ws] = "closing" \/ (~SplitClose /\ ready[ws] = "open")

\* Mutants of HostGone: the session ends with any host connection, also one that was
\* replaced; the viewer is told, and stays.
HostGoneUnasked(h) ==
    /\ GoneEventDue(h)
    /\ authed' = [authed EXCEPT ![h] = FALSE]
    /\ ready' = [Closing(ready, OpenViewer) EXCEPT ![h] = "closed"]
    /\ closedByServer' = Marked(closedByServer, OpenViewer)
    /\ out' = HostGoneOut(out)
    /\ UNCHANGED <<owner, key, auths, verifying>>
HostGoneKeepsViewer(h) ==
    /\ GoneEventDue(h)
    /\ authed' = [authed EXCEPT ![h] = FALSE]
    /\ ready' = [ready EXCEPT ![h] = "closed"]
    /\ out' = IF authed[h] THEN Sent(out, OpenViewer, HostLeft) ELSE out
    /\ UNCHANGED <<owner, key, auths, verifying, closedByServer>>

\* webSocketClose or webSocketError of a host connection: onGone.
HostGone(h) ==
    /\ GoneEventDue(h)
    /\ authed' = [authed EXCEPT ![h] = FALSE]
    /\ IF authed[h]
       THEN /\ ready' = [Closing(ready, OpenViewer) EXCEPT ![h] = "closed"]
            /\ closedByServer' = Marked(closedByServer, OpenViewer)
            /\ out' = HostGoneOut(out)
       ELSE /\ ready' = [ready EXCEPT ![h] = "closed"]
            /\ UNCHANGED <<closedByServer, out>>
    /\ UNCHANGED <<owner, key, auths, verifying>>

\* Mutants of ViewerGone: the departure is reported also after a close by the
\* server, or only if the socket is still OPEN when the event runs.
ViewerGoneAlways(v) ==
    /\ GoneEventDue(v)
    /\ ready' = [ready EXCEPT ![v] = "closed"]
    /\ out' = Sent(out, AuthedHost, ViewerLeft(v))
    /\ UNCHANGED <<owner, key, authed, auths, verifying, closedByServer>>
ViewerGoneIfOpen(v) ==
    /\ GoneEventDue(v)
    /\ ready' = [ready EXCEPT ![v] = "closed"]
    /\ out' = IF ready[v] = "open" THEN Sent(out, AuthedHost, ViewerLeft(v)) ELSE out
    /\ UNCHANGED <<owner, key, authed, auths, verifying, closedByServer>>

\* webSocketClose or webSocketError of a viewer: onGone.
ViewerGone(v) ==
    /\ GoneEventDue(v)
    /\ ready' = [ready EXCEPT ![v] = "closed"]
    /\ out' = IF closedByServer[v] THEN out ELSE Sent(out, AuthedHost, ViewerLeft(v))
    /\ UNCHANGED <<owner, key, authed, auths, verifying, closedByServer>>

\* The object restarts: connections and handlers are lost, storage is not.
Restart ==
    /\ \E ws \in Sockets : ready[ws] \in {"open", "closing"}
    /\ ready' = [ws \in Sockets |-> IF ready[ws] = "none" THEN "none" ELSE "closed"]
    /\ verifying' = [h \in HostSockets |-> 0]
    /\ UNCHANGED <<owner, key, authed, auths, closedByServer, out>>
-----------------------------------------------------------------------------
Init ==
    /\ owner = NoKey
    /\ ready = [ws \in Sockets |-> "none"]
    /\ key = [h \in HostSockets |-> NoKey]
    /\ authed = [h \in HostSockets |-> FALSE]
    /\ auths = [h \in HostSockets |-> 0]
    /\ verifying = [h \in HostSockets |-> 0]
    /\ closedByServer = [v \in ViewerSockets |-> FALSE]
    /\ out = [ws \in Sockets |-> <<>>]

HostNext(h) ==
    \/ \E k \in Keys, claim \in BOOLEAN : AcceptHost(h, k, claim)
    \/ \E code \in {ProtocolError, TooBig} : BadFrame(h, code)
    \/ UnauthedFrame(h)
    \/ AuthFrame(h)
    \/ RejectAuth(h)
    \/ ConfirmAuth(h)
    \/ \E d \in Data : HostRelay(h, d)
    \/ HostKick(h)
    \/ OtherHostFrame(h)
    \/ SocketDrops(h)
    \/ HostGone(h)

ViewerNext(v) ==
    \/ AcceptViewer(v)
    \/ \E code \in {ProtocolError, TooBig} : BadFrame(v, code)
    \/ \E d \in Data : ViewerRelay(v, d)
    \/ OtherViewerFrame(v)
    \/ SocketDrops(v)
    \/ ViewerGone(v)

Next ==
    \/ \E h \in HostSockets : HostNext(h)
    \/ \E v \in ViewerSockets : ViewerNext(v)
    \/ Restart

Spec == Init /\ [][Next]_vars
-----------------------------------------------------------------------------
(***************************************************************************)
(* Properties.  Where clients never read, `out` is the log of everything   *)
(* the server sent on a connection.                                        *)
(***************************************************************************)
States == {"none", "open", "closing", "closed"}

TypeOK ==
    /\ owner \in Keys \cup {NoKey}
    /\ ready \in [Sockets -> States]
    /\ key \in [HostSockets -> Keys \cup {NoKey}]
    /\ authed \in [HostSockets -> BOOLEAN]
    /\ auths \in [HostSockets -> Nat]
    /\ verifying \in [HostSockets -> Nat]
    /\ closedByServer \in [ViewerSockets -> BOOLEAN]
    /\ out \in [Sockets -> Seq(Message)]

\* At most one connection is the waiting host, whatever authentications are in
\* flight when one of them succeeds (authenticate, host-room.ts:116-121).
OneAuthedHost == \A g, h \in AuthedHosts : g = h

\* At most one viewer is connected (acceptViewer answers 409 to a second one).
OneOpenViewer == \A v, w \in OpenViewers : v = w

\* A connection is authenticated only under the key that owns the ID, also when
\* two connections with different keys claim a fresh ID at once
\* (host-room.ts:111-114).
AuthedKeyIsOwner == \A h \in HostSockets : authed[h] => key[h] = owner /\ owner # NoKey

\* Once bound, an ID never changes hands (put("owner") runs only while unset).
OwnerKept == [][owner # NoKey => owner' = owner]_vars

Has(ws, m) == \E i \in DOMAIN out[ws] : out[ws][i] = m

\* Position j of h's log is the last viewer_joined before position i.
LastJoinBefore(h, j, i) ==
    /\ j < i /\ out[h][j].t = "viewer_joined"
    /\ \A k \in (j + 1)..(i - 1) : out[h][k].t # "viewer_joined"

\* No frame of a viewer reaches the host as traffic of the next viewer: what is
\* relayed to a host after viewer_joined was sent by that viewer
\* (the readyState test and its comment, host-room.ts:72-75).
RelayFromAnnounced ==
    \A h \in HostSockets : \A i, j \in DOMAIN out[h] :
        out[h][i].t = "relay" /\ LastJoinBefore(h, j, i)
            => out[h][i].from = out[h][j].viewer

\* A viewer_left is about the viewer announced last, and is said once.  A host
\* takes any viewer_left for the departure of the viewer it is serving
\* (recv_relay, session.rs:330), so a late one would end the next attempt.
LeftMatchesJoin ==
    \A h \in HostSockets : \A i \in DOMAIN out[h] :
        out[h][i].t = "viewer_left" =>
            \E j \in DOMAIN out[h] :
                /\ LastJoinBefore(h, j, i)
                /\ out[h][i].viewer = out[h][j].viewer
                /\ \A k \in (j + 1)..(i - 1) : out[h][k].t # "viewer_left"

\* The connected viewer is in session with the waiting host: that host was told
\* of it and of nobody since (acceptViewer, hostGone).  And host_left is true: no
\* viewer of the host that is waiting was ever told so, in particular not by the
\* late close event of a connection it replaced (onGone, host-room.ts:142-145).
ViewerHasItsHost ==
    /\ \A v \in OpenViewers :
        /\ AuthedHost # NoSocket
        /\ \E j \in DOMAIN out[AuthedHost] :
            /\ out[AuthedHost][j] = ViewerJoined(v)
            /\ LastJoinBefore(AuthedHost, j, Len(out[AuthedHost]) + 1)
    /\ \A h \in AuthedHosts, v \in ViewerSockets :
        Has(v, HostLeft) => ~Has(h, ViewerJoined(v))

\* An open viewer's session still has an end: the host it was announced to is
\* authenticated, so when that connection goes hostGone will close the viewer.
SessionWillEnd ==
    \A v \in OpenViewers : \E h \in HostSockets :
        /\ Has(h, ViewerJoined(v))
        /\ authed[h]
        /\ ready[h] \in {"open", "closing"}

\* A viewer that went away by itself is reported to the host it was announced
\* to, if that host is still waiting (onGone).
DepartureAnnounced ==
    \A h \in AuthedHosts, v \in ViewerSockets :
        Has(h, ViewerJoined(v)) /\ ready[v] = "closed" /\ ~closedByServer[v]
            => Has(h, ViewerLeft(v))

-----------------------------------------------------------------------------
\* The abstract room.  NoKey and NoSocket both play its None.
Abstract == INSTANCE Rendezvous WITH
    Hosts <- HostSockets, Viewers <- ViewerSockets, None <- NoSocket,
    owner <- IF owner = NoKey THEN NoSocket ELSE owner,
    host <- AuthedHost, viewer <- OpenViewer

\* Where hosts keep to the protocol, every step of the room is a step of the
\* abstract room: sessions end with their host, an ID never changes hands.
ImplementsRendezvous == Abstract!Spec
=============================================================================
