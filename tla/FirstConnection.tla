--------------------------- MODULE FirstConnection ---------------------------
(***************************************************************************)
(* The first connection: host-agent's session.rs and viewer-core's         *)
(* connect.rs talking through the signaling room (HostRoom) and then over  *)
(* the data channel.  One registered host serves viewers one after another;*)
(* viewers come and go, in order or on top of each other's leftovers:      *)
(* a frame is queued on the way to the server (up), a message is queued on *)
(* the way to its client (out), and neither names the viewer it is meant   *)
(* for.                                                                    *)
(*                                                                         *)
(* Keys are symbolic.  A Reply opens only for the viewer whose Start it    *)
(* answers and only if both used the same code; a Confirm is accepted only *)
(* from such a viewer; sealed offers and answers open only between them.   *)
(* Time is abstract: a wait may run out at any moment, and the limiter's   *)
(* wait (AttemptLimiter) is a flag that some time later is down again.     *)
(***************************************************************************)
EXTENDS Naturals, Sequences, FiniteSets

CONSTANTS
    Host,        \* the registered host's connection
    Viewers,     \* viewers, each connecting once
    Rogues,      \* viewers that may also send a few frames connect does not send, and
                 \* that nothing makes go on or leave
    RotateAfter, \* failures on one code before it is replaced, 5 in the code
    None         \* no viewer; no code

ASSUME ConnectionAssumption ==
    /\ Host \notin Viewers /\ None \notin Viewers \cup {Host} /\ None \notin Nat
    /\ Rogues \subseteq Viewers
    /\ RotateAfter \in Nat \ {0}

VARIABLES
    \* the room (HostRoom)
    ready, authed, closedByServer, out,
    \* the links to the server
    up,         \* frames sent to the server, not yet handled
    \* the host
    hpc,        \* where the host is in serve_next / attempt / handshake
    hjoin,      \* viewer whose viewer_joined began the attempt; only properties read it
    hpake,      \* viewer whose Start the attempt answered
    hused,      \* the code the attempt's PAKE uses
    hcode,      \* HostState.code
    failures,   \* limiter: failures_on_code
    waiting,    \* limiter: check() would refuse now
    granted,    \* history: sessions the host accepted
    \* the viewers
    vpc,        \* where each viewer is in connect / handshake
    vcode,      \* the code its user typed
    \* the data channel of host and viewer
    chan

room == <<ready, authed, closedByServer, out>>
host == <<hpc, hjoin, hpake, hused, hcode, failures, waiting, granted>>
viewer == <<vpc, vcode>>
vars == <<room, up, host, viewer, chan>>
-----------------------------------------------------------------------------
(* Messages.  `to`, `from`, `code` stand for what the MACs and seals bind. *)
Start(v)      == [m |-> "start", from |-> v]
Reply(v, c)   == [m |-> "reply", to |-> v, code |-> c]
RetryAfter    == [m |-> "retry_after"]
Confirm(v, c, sealed) == [m |-> "confirm", from |-> v, code |-> c, sealed |-> sealed]
Answer(v)     == [m |-> "answer", to |-> v]
Rejected      == [m |-> "rejected"]
Garbage       == [m |-> "garbage"]

Codes == Nat \cup {None}
PakeMsg ==
    [m : {"start"}, from : Viewers] \cup [m : {"reply"}, to : Viewers, code : Codes]
      \cup [m : {"confirm"}, from : Viewers, code : Codes, sealed : BOOLEAN]
      \cup [m : {"answer"}, to : Viewers]
      \cup [m : {"retry_after", "rejected", "garbage"}]

\* Frames to the server.  `aim` is not on the wire: the viewer the host means.
RelayFrame(d) == [f |-> "relay", data |-> d]
KickFrame(v)  == [f |-> "kick", aim |-> v]
CloseOf       == [f |-> "close"]
OtherFrame    == [f |-> "other"]

\* The room, with the host registered: key, owner and authentication are settled.
Room == INSTANCE HostRoom WITH
    HostSockets <- {Host}, ViewerSockets <- Viewers, Keys <- {1}, NoKey <- 0,
    NoSocket <- None, Data <- PakeMsg, MaxAuths <- 0, MaxRelays <- 16,
    HostMisbehaves <- FALSE, SplitClose <- FALSE,
    owner <- 1, key <- [h \in {Host} |-> 1],
    auths <- [h \in {Host} |-> 0], verifying <- [h \in {Host} |-> 0]

Sockets == Room!Sockets
-----------------------------------------------------------------------------
(* The server takes the frames of a connection in order.                   *)
Front(ws) == Head(up[ws])
Taken(ws) == up' = [up EXCEPT ![ws] = Tail(@)]

Serve(ws) ==
    /\ up[ws] # <<>>
    /\ Taken(ws)
    /\ UNCHANGED <<host, viewer, chan>>

ForwardToViewer ==
    /\ Serve(Host) /\ Front(Host).f = "relay"
    /\ IF Room!OpenViewer = None THEN UNCHANGED room
       ELSE Room!HostRelay(Host, Front(Host).data)

ServerKicks ==
    /\ Serve(Host) /\ Front(Host).f = "kick"
    /\ IF Room!OpenViewer = None THEN UNCHANGED room ELSE Room!HostKick(Host)

ServerLosesHost ==
    /\ Serve(Host) /\ Front(Host).f = "close"
    /\ Room!HostGone(Host)

\* Mutant of ForwardToHost: frames of a viewer that is no longer connected pass.
ForwardToHostLate(v) ==
    /\ Serve(v) /\ Front(v).f = "relay"
    /\ out' = Room!Sent(out, Room!AuthedHost, Room!Relay(v, Front(v).data))
    /\ UNCHANGED <<ready, authed, closedByServer>>

ForwardToHost(v) ==
    /\ Serve(v) /\ Front(v).f = "relay"
    /\ IF Room!OpenViewer # v \/ Room!AuthedHost = None THEN UNCHANGED room
       ELSE Room!ViewerRelay(v, Front(v).data)

ServerRefusesFrame(v) ==
    /\ Serve(v) /\ Front(v).f = "other"
    /\ IF Room!OpenViewer # v THEN UNCHANGED room ELSE Room!OtherViewerFrame(v)

ServerLosesViewer(v) ==
    /\ Serve(v) /\ Front(v).f = "close"
    /\ Room!ViewerGone(v)

Server ==
    \/ ForwardToViewer \/ ServerKicks \/ ServerLosesHost
    \/ \E v \in Viewers : ForwardToHost(v) \/ ServerRefusesFrame(v) \/ ServerLosesViewer(v)
-----------------------------------------------------------------------------
(* The data channel of each viewer and the host, after the sealed offer and*)
(* answer.  A side that drops its Channel may take what it sent last with  *)
(* it; the other side still reads what arrived, then Closed.               *)
NoChannel == [host |-> "none", viewer |-> "none", toHost |-> <<>>, toViewer |-> <<>>]

HostDrops(v) ==
    \E left \in {chan[v].toViewer, <<>>} :
        chan' = [chan EXCEPT ![v].host = "closed", ![v].toViewer = left]
ViewerDrops(v) ==
    \E left \in {chan[v].toHost, <<>>} :
        chan' = [chan EXCEPT ![v].viewer = "closed", ![v].toHost = left]
HostTells(v, msg)   == chan' = [chan EXCEPT ![v].toViewer = Append(@, msg)]
ViewerTells(v, msg) == chan' = [chan EXCEPT ![v].toHost = Append(@, msg)]
-----------------------------------------------------------------------------
(* The host.                                                               *)
Inbox == out[Host]
HostReads == out' = [out EXCEPT ![Host] = Tail(@)]
RoomRest == UNCHANGED <<ready, authed, closedByServer>>
HostSends(frames) == up' = [up EXCEPT ![Host] = @ \o frames]
Kick == <<KickFrame(hjoin)>>
RejectAndKick == <<RelayFrame(Rejected), KickFrame(hjoin)>>

Got(t) == Inbox # <<>> /\ Head(Inbox).t = t
GotMsg(m) == Got("relay") /\ Head(Inbox).data.m = m

\* The attempt is over; the host goes back to serve_next.
AttemptOver ==
    /\ hpc' = "idle" /\ hjoin' = None /\ hpake' = None /\ hused' = None

\* serve_next: whatever comes before viewer_joined is thrown away.
DiscardStale ==
    /\ hpc = "idle" /\ Inbox # <<>> /\ Head(Inbox).t # "viewer_joined"
    /\ HostReads /\ RoomRest
    /\ UNCHANGED <<up, host, viewer, chan>>

\* attempt: the limiter refuses; RetryAfter and Kick.
RefuseAttempt ==
    /\ hpc = "idle" /\ Got("viewer_joined") /\ waiting
    /\ HostReads /\ RoomRest
    /\ HostSends(<<RelayFrame(RetryAfter), KickFrame(Head(Inbox).viewer)>>)
    /\ UNCHANGED <<host, viewer, chan>>

BeginAttempt ==
    /\ hpc = "idle" /\ Got("viewer_joined") /\ ~waiting
    /\ HostReads /\ RoomRest
    /\ hpc' = "start" /\ hjoin' = Head(Inbox).viewer
    /\ UNCHANGED <<up, hpake, hused, hcode, failures, waiting, granted, viewer, chan>>

\* Mutant of AnswerStart: the limiter's count is not started again with a new code.
AnswerStartNoReset ==
    /\ hpc = "start" /\ GotMsg("start")
    /\ HostReads /\ RoomRest
    /\ hpake' = Head(Inbox).data.from /\ hused' = hcode
    /\ failures' = failures + 1
    /\ hcode' = IF failures + 1 >= RotateAfter THEN hcode + 1 ELSE hcode
    /\ waiting' = TRUE
    /\ HostSends(<<RelayFrame(Reply(Head(Inbox).data.from, hcode))>>)
    /\ hpc' = "confirm"
    /\ UNCHANGED <<hjoin, granted, viewer, chan>>

\* attempt: respond with the current code, record the failure - which may replace
\* the code - and only then send the Reply.
AnswerStart ==
    /\ hpc = "start" /\ GotMsg("start")
    /\ HostReads /\ RoomRest
    /\ hpake' = Head(Inbox).data.from /\ hused' = hcode
    /\ failures' = IF failures + 1 >= RotateAfter THEN 0 ELSE failures + 1
    /\ hcode' = IF failures + 1 >= RotateAfter THEN hcode + 1 ELSE hcode
    /\ waiting' = TRUE
    /\ HostSends(<<RelayFrame(Reply(Head(Inbox).data.from, hcode))>>)
    /\ hpc' = "confirm"
    /\ UNCHANGED <<hjoin, granted, viewer, chan>>

\* Mutant of GoodMac: any Confirm passes.
GoodMacUnchecked(d) == d.m = "confirm"

\* Is the message a Confirm whose MAC is right for the attempt's PAKE?
GoodMac(d) == d.m = "confirm" /\ d.from = hpake /\ d.code = hused

\* recv_relay returns something else than the step waits for: Rejected and Kick.
\* (A wrong MAC is rejected the same way.)
RejectRelay ==
    /\ \/ hpc = "start" /\ Inbox # <<>> /\ ~GotMsg("start")
       \/ hpc = "confirm" /\ Inbox # <<>> /\ ~(GotMsg("confirm") /\ GoodMac(Head(Inbox).data))
    /\ ~Got("viewer_left")
    /\ HostReads /\ RoomRest
    /\ HostSends(RejectAndKick)
    /\ AttemptOver
    /\ UNCHANGED <<hcode, failures, waiting, granted, viewer, chan>>

\* The viewer left during the PAKE: no Kick.
ViewerLeftAttempt ==
    /\ hpc \in {"start", "confirm"} /\ Got("viewer_left")
    /\ HostReads /\ RoomRest
    /\ AttemptOver
    /\ UNCHANGED <<up, hcode, failures, waiting, granted, viewer, chan>>

PakeTimeout ==
    /\ hpc \in {"start", "confirm"}
    /\ HostSends(Kick)
    /\ AttemptOver
    /\ UNCHANGED <<room, hcode, failures, waiting, granted, viewer, chan>>

\* attempt: the MAC is right.  record_success, then the sealed offer is opened; if
\* that fails, or the local peer or the offer does, the attempt ends here.
TakeConfirm(usable) ==
    /\ hpc = "confirm" /\ GotMsg("confirm") /\ GoodMac(Head(Inbox).data)
    /\ usable => Head(Inbox).data.sealed
    /\ HostReads /\ RoomRest
    /\ failures' = 0 /\ waiting' = FALSE
    /\ IF usable
       THEN /\ HostSends(<<RelayFrame(Answer(hpake))>>)
            /\ hpc' = "connect"
            /\ chan' = [chan EXCEPT ![hpake].host = "trying"]
            /\ UNCHANGED <<hjoin, hpake, hused>>
       ELSE /\ HostSends(RejectAndKick) \/ HostSends(Kick)
            /\ AttemptOver
            /\ UNCHANGED chan
    /\ UNCHANGED <<hcode, granted, viewer>>

HostStage == {"connect", "hello", "approve", "linger"}

\* handshake: wait_open succeeds and the host says Hello.
HostOpens ==
    /\ hpc = "connect" /\ chan[hpake].viewer \in {"trying", "open"}
    /\ chan' = [chan EXCEPT ![hpake].host = "open", ![hpake].toViewer = Append(@, "hello")]
    /\ hpc' = "hello"
    /\ UNCHANGED <<room, up, hjoin, hpake, hused, hcode, failures, waiting, granted, viewer>>

FromViewer == chan[hpake].toHost
HostHears == [chan EXCEPT ![hpake].toHost = Tail(@)]

\* Mutant of HostTakesHello: the Decision leaves before the user is asked.
HostTakesHelloAccepts ==
    /\ hpc = "hello" /\ FromViewer # <<>> /\ Head(FromViewer) = "hello"
    /\ chan' = [HostHears EXCEPT ![hpake].toViewer = Append(@, "accepted")]
    /\ hpc' = "approve"
    /\ UNCHANGED <<room, up, hjoin, hpake, hused, hcode, failures, waiting, granted, viewer>>

HostTakesHello ==
    /\ hpc = "hello" /\ FromViewer # <<>> /\ Head(FromViewer) = "hello"
    /\ chan' = HostHears
    /\ hpc' = "approve"
    /\ UNCHANGED <<room, up, hjoin, hpake, hused, hcode, failures, waiting, granted, viewer>>

\* A Hello that does not verify or has another version: Decision::Rejected.
HostRefusesHello ==
    /\ hpc = "hello" /\ FromViewer # <<>> /\ Head(FromViewer) = "bad_hello"
    /\ chan' = [HostHears EXCEPT ![hpake].toViewer = Append(@, "rejected")]
    /\ hpc' = "linger"
    /\ UNCHANGED <<room, up, hjoin, hpake, hused, hcode, failures, waiting, granted, viewer>>

\* Mutant of Approve: the code stays after a session.
ApproveKeepsCode ==
    /\ hpc = "approve"
    /\ HostTells(hpake, "accepted")
    /\ granted' = granted \cup {[viewer |-> hpake, code |-> hused]}
    /\ hpc' = "session"
    /\ UNCHANGED <<room, up, hjoin, hpake, hused, hcode, failures, waiting, viewer>>

\* wait_approval: the user says yes.  The code is used up.
Approve ==
    /\ hpc = "approve"
    /\ HostTells(hpake, "accepted")
    /\ hcode' = hcode + 1
    /\ granted' = granted \cup {[viewer |-> hpake, code |-> hused]}
    /\ hpc' = "session"
    /\ UNCHANGED <<room, up, hjoin, hpake, hused, failures, waiting, viewer>>

\* The user says no, or nothing until the deadline.
Deny ==
    /\ hpc = "approve"
    /\ HostTells(hpake, "rejected")
    /\ hpc' = "linger"
    /\ UNCHANGED <<room, up, hjoin, hpake, hused, hcode, failures, waiting, granted, viewer>>

\* reject_decision polls on while the viewer keeps sending.
LingerHears ==
    /\ hpc = "linger" /\ FromViewer # <<>>
    /\ chan' = HostHears
    /\ UNCHANGED <<room, up, host, viewer>>

\* Mutant of HandshakeFails: wait_open has no deadline.
HandshakeFailsLater ==
    /\ hpc \in HostStage \ {"connect"}
    /\ HostDrops(hpake)
    /\ HostSends(Kick)
    /\ AttemptOver
    /\ UNCHANGED <<room, hcode, failures, waiting, granted, viewer>>

\* The handshake fails: a step times out, the viewer closes or breaks the order of
\* messages, or the linger ends.  The channel is dropped and the signaling slot
\* cleared with Kick.
HandshakeFails ==
    /\ hpc \in HostStage
    /\ HostDrops(hpake)
    /\ HostSends(Kick)
    /\ AttemptOver
    /\ UNCHANGED <<room, hcode, failures, waiting, granted, viewer>>

\* serve_pings ends (closed, malformed or SESSION_LIMIT) and main.rs loops.
SessionEnds ==
    /\ hpc = "session"
    /\ HostDrops(hpake)
    /\ AttemptOver
    /\ UNCHANGED <<room, up, hcode, failures, waiting, granted, viewer>>

\* The host agent goes away.
HostDies ==
    /\ hpc # "dead"
    /\ hpc' = "dead"
    /\ HostSends(<<CloseOf>>)
    /\ IF hpake # None /\ chan[hpake].host # "none" THEN HostDrops(hpake) ELSE UNCHANGED chan
    /\ UNCHANGED <<room, hjoin, hpake, hused, hcode, failures, waiting, granted, viewer>>

WaitOver ==
    /\ waiting /\ waiting' = FALSE
    /\ UNCHANGED <<room, up, hpc, hjoin, hpake, hused, hcode, failures, granted, viewer, chan>>

HostPake ==
    \/ DiscardStale \/ RefuseAttempt \/ BeginAttempt \/ AnswerStart \/ RejectRelay
    \/ ViewerLeftAttempt \/ PakeTimeout \/ \E usable \in BOOLEAN : TakeConfirm(usable)
HostHandshake ==
    \/ HostOpens \/ HostTakesHello \/ HostRefusesHello \/ Approve \/ Deny
    \/ LingerHears \/ HandshakeFails \/ SessionEnds
-----------------------------------------------------------------------------
(* The viewers.                                                            *)
Mail(v) == out[v]
ViewerReads(v) == out' = [out EXCEPT ![v] = Tail(@)]
ViewerSends(v, frame) == up' = [up EXCEPT ![v] = Append(@, frame)]
At(v, stage) == vpc' = [vpc EXCEPT ![v] = stage]
HasMail(v, t) == Mail(v) # <<>> /\ Head(Mail(v)).t = t
HasMsg(v, m) == HasMail(v, "relay") /\ Head(Mail(v)).data.m = m

\* connect returns an error, or the process ends: link and channel are dropped.
Leave(v, how) ==
    /\ At(v, how)
    /\ ViewerSends(v, CloseOf)
    /\ IF chan[v].viewer = "none" THEN UNCHANGED chan ELSE ViewerDrops(v)
    /\ UNCHANGED <<room, host, vcode>>

\* The user types the code the host shows, or something else.
Join(v, c) ==
    /\ vpc[v] = "out"
    /\ Room!AcceptViewer(v)
    /\ At(v, "joining")
    /\ vcode' = [vcode EXCEPT ![v] = c]
    /\ UNCHANGED <<up, host, chan>>

JoinRefused(v) ==
    /\ vpc[v] = "out"
    /\ Room!ViewerResponse # 101
    /\ At(v, "failed")
    /\ UNCHANGED <<room, up, host, vcode, chan>>

SendStart(v) ==
    /\ vpc[v] = "joining" /\ HasMail(v, "joined")
    /\ ViewerReads(v) /\ RoomRest
    /\ \E frame \in {RelayFrame(Start(v))}
                      \cup (IF v \in Rogues THEN {RelayFrame(Garbage), OtherFrame} ELSE {}) :
          ViewerSends(v, frame)
    /\ At(v, "reply")
    /\ UNCHANGED <<host, vcode, chan>>

\* ViewerPake::finish: only the Reply to this viewer's Start, made with its code.
Opens(v, d) == d.to = v /\ d.code = vcode[v]

TakeReply(v) ==
    /\ vpc[v] = "reply" /\ HasMsg(v, "reply") /\ Opens(v, Head(Mail(v)).data)
    /\ ViewerReads(v) /\ RoomRest
    /\ \E sealed \in (IF v \in Rogues THEN BOOLEAN ELSE {TRUE}) :
          ViewerSends(v, RelayFrame(Confirm(v, vcode[v], sealed)))
    /\ At(v, "answer")
    /\ UNCHANGED <<host, vcode, chan>>

\* A Reply that does not open: WrongCode, before any address is sent.
WrongCode(v) ==
    /\ vpc[v] = "reply" /\ HasMsg(v, "reply") /\ ~Opens(v, Head(Mail(v)).data)
    /\ Leave(v, "wrong_code")

\* A viewer that goes on although it cannot know the MAC.
RogueConfirm(v) ==
    /\ v \in Rogues /\ vpc[v] = "reply"
    /\ ViewerSends(v, RelayFrame(Confirm(v, None, TRUE)))
    /\ At(v, "answer")
    /\ UNCHANGED <<room, host, vcode, chan>>

TakeAnswer(v) ==
    /\ vpc[v] = "answer" /\ HasMsg(v, "answer") /\ Head(Mail(v)).data.to = v
    /\ ViewerReads(v) /\ RoomRest
    /\ chan' = [chan EXCEPT ![v].viewer = "trying"]
    /\ At(v, "connect")
    /\ UNCHANGED <<up, host, vcode>>

\* What a rogue says instead of one Hello that verifies.
Overtalk == {<<"bad_hello">>, <<"hello", "hello">>, <<"bad_hello", "hello">>}

ViewerOpens(v) ==
    /\ vpc[v] = "connect" /\ chan[v].host \in {"trying", "open"}
    /\ \E said \in {<<"hello">>} \cup (IF v \in Rogues THEN Overtalk ELSE {}) :
          chan' = [chan EXCEPT ![v].viewer = "open", ![v].toHost = @ \o said]
    /\ At(v, "hello")
    /\ UNCHANGED <<room, up, host, vcode>>

Hears(v, msg) == chan[v].toViewer # <<>> /\ Head(chan[v].toViewer) = msg
Heard(v) == [chan EXCEPT ![v].toViewer = Tail(@)]

ViewerTakesHello(v) ==
    /\ vpc[v] = "hello" /\ Hears(v, "hello")
    /\ chan' = Heard(v)
    /\ At(v, "decision")
    /\ UNCHANGED <<room, up, host, vcode>>

\* Mutant of Accepted: the session keeps the link.
AcceptedKeepsLink(v) ==
    /\ vpc[v] = "decision" /\ Hears(v, "accepted")
    /\ chan' = Heard(v)
    /\ At(v, "session")
    /\ UNCHANGED <<room, up, host, vcode>>

\* Decision::Accepted: connect drops the link to free the signaling slot.
Accepted(v) ==
    /\ vpc[v] = "decision" /\ Hears(v, "accepted")
    /\ chan' = Heard(v)
    /\ ViewerSends(v, CloseOf)
    /\ At(v, "session")
    /\ UNCHANGED <<room, host, vcode>>

\* Anything else ends in an error: a message out of place, Rejected, RetryAfter,
\* host_left, a closed link or channel, a timeout, or the user quitting.
ViewerFails(v) ==
    /\ vpc[v] \in {"joining", "reply", "answer", "connect", "hello", "decision"}
    /\ Leave(v, "failed")

ViewerEndsSession(v) ==
    /\ vpc[v] = "session"
    /\ ViewerDrops(v)
    /\ At(v, "done")
    /\ UNCHANGED <<room, up, host, vcode>>

ViewerStep(v) ==
    \/ SendStart(v) \/ TakeReply(v) \/ WrongCode(v) \/ RogueConfirm(v) \/ TakeAnswer(v)
    \/ ViewerOpens(v) \/ ViewerTakesHello(v) \/ Accepted(v) \/ ViewerFails(v)

Init ==
    /\ ready = [ws \in Sockets |-> IF ws = Host THEN "open" ELSE "none"]
    /\ authed = [h \in {Host} |-> TRUE]
    /\ closedByServer = [v \in Viewers |-> FALSE]
    /\ out = [ws \in Sockets |-> <<>>]
    /\ up = [ws \in Sockets |-> <<>>]
    /\ hpc = "idle" /\ hjoin = None /\ hpake = None /\ hused = None
    /\ hcode = 0 /\ failures = 0 /\ waiting = FALSE /\ granted = {}
    /\ vpc = [v \in Viewers |-> "out"]
    /\ vcode = [v \in Viewers |-> None]
    /\ chan = [v \in Viewers |-> NoChannel]

Next ==
    \/ Server \/ HostPake \/ HostHandshake \/ HostDies \/ WaitOver
    \/ \E v \in Viewers :
          \/ \E c \in {hcode, None} : Join(v, c)
          \/ JoinRefused(v) \/ ViewerStep(v) \/ ViewerEndsSession(v)

\* Queues are delivered, every wait of either program has a deadline, the host
\* serves what it is sent.  Nobody has to join, to approve or to stay, and a viewer
\* that does not run connect has to do nothing at all.
Fairness ==
    /\ WF_vars(Server)
    /\ WF_vars(HostPake) /\ WF_vars(HostHandshake)
    /\ \A v \in Viewers \ Rogues : WF_vars(ViewerStep(v))

Spec == Init /\ [][Next]_vars
FairSpec == Spec /\ Fairness
-----------------------------------------------------------------------------
HostPcs == {"idle", "start", "confirm", "session", "dead"} \cup HostStage
ViewerPcs == {"out", "joining", "reply", "answer", "connect", "hello", "decision",
              "session", "done", "wrong_code", "failed"}
Side == {"none", "trying", "open", "closed"}
Control == {"hello", "bad_hello", "accepted", "rejected"}
Frame == [f : {"relay"}, data : PakeMsg] \cup [f : {"kick"}, aim : Viewers]
           \cup [f : {"close", "other"}]

TypeOK ==
    /\ ready \in [Sockets -> Room!States]
    /\ authed \in [{Host} -> BOOLEAN]
    /\ closedByServer \in [Viewers -> BOOLEAN]
    /\ out \in [Sockets -> Seq(Room!Message)]
    /\ up \in [Sockets -> Seq(Frame)]
    /\ hpc \in HostPcs /\ hjoin \in Viewers \cup {None} /\ hpake \in Viewers \cup {None}
    /\ hused \in Codes /\ hcode \in Nat /\ failures \in 0..(RotateAfter - 1)
    /\ waiting \in BOOLEAN
    /\ \A g \in granted : g.viewer \in Viewers /\ g.code \in Nat
    /\ vpc \in [Viewers -> ViewerPcs] /\ vcode \in [Viewers -> Codes]
    /\ chan \in [Viewers -> [host : Side, viewer : Side,
                             toHost : Seq(Control), toViewer : Seq(Control)]]

\* The user is asked, and an Answer with the host's addresses goes out, only for a
\* viewer that knows the code the attempt runs with (session.rs:163-181).
AskedOnlyForCodeHolder ==
    hpc \in HostStage \cup {"session"} =>
        hpake # None /\ hused # None /\ vcode[hpake] = hused

\* A viewer believes in a session only if the host accepted this very viewer, under
\* the code its user typed (connect.rs:177-178, session.rs:241-245).
SessionAgreement ==
    \A v \in Viewers : vpc[v] \in {"session", "done"} =>
        \E g \in granted : g.viewer = v /\ g.code = vcode[v]

\* A code is good for one session (session.rs:244).
OneSessionPerCode == \A g, h \in granted : g.code = h.code => g = h

\* An attempt answers the Start of the viewer whose viewer_joined began it, although
\* neither the frames nor viewer_joined name a viewer, and although a viewer the
\* server closed leaves without a viewer_left (session.rs:136-140, host-room.ts:72-75).
AttemptServesItsViewer == hpake # None => hpake = hjoin

\* The comment in session.rs: no Kick goes to a viewer that already left, because
\* the next one, having come in meanwhile, would be thrown out instead.  The code
\* departs from it: every Kick but the one after viewer_left is sent blind.
KickHitsItsViewer ==
    [][\A v \in Viewers :
          up[Host] # <<>> /\ up'[Host] = Tail(up[Host]) /\ Front(Host).f = "kick"
            /\ ready[v] = "open" /\ ready'[v] = "closing"
          => Front(Host).aim = v]_vars

\* A viewer that got into the room and runs connect gets out of it, also when the host
\* dies in the middle or the session goes on: connect returns or drops its link
\* (connect.rs:99-134, 177-178).  A viewer that does not leave by itself is thrown out
\* by the host's Kick or by the room (session.rs:285-292, host-room.ts:154-161), unless
\* the user accepted it: after Accepted the host sends no Kick (session.rs:183-186).
SlotFreed ==
    /\ \A v \in Viewers \ Rogues : (ready[v] = "open") ~> (ready[v] = "closed")
    /\ \A v \in Rogues :
          (ready[v] = "open") ~> (ready[v] # "open" \/ \E g \in granted : g.viewer = v)

\* No attempt keeps the host from the viewers behind it: every viewer_joined is read
\* in the end, unless the host agent is gone (session.rs:110-187).
AnnouncementTaken ==
    \A v \in Viewers :
        (\E i \in DOMAIN Inbox : Inbox[i] = Room!ViewerJoined(v))
          ~> (hpc = "dead" \/ \A i \in DOMAIN Inbox : Inbox[i] # Room!ViewerJoined(v))
=============================================================================
