-------------------------------- MODULE Link --------------------------------
(***************************************************************************)
(* WsLink (crates/transport/src/link.rs): the client's end of a WebSocket  *)
(* to the signaling server.  connect judges the URL and dials; recv takes  *)
(* one message before a deadline, re-arming the socket's read timeout with *)
(* what is left each time round; the first Closed it reports it repeats.   *)
(*                                                                         *)
(* A frame reaches tungstenite in Pieces reads of the socket, each of them *)
(* under the same armed timeout, and what it has of an unfinished frame it *)
(* keeps across calls.  Time is relative: `left` counts down to the        *)
(* deadline of the call in progress and goes below zero once it is past.   *)
(***************************************************************************)
EXTENDS Integers, Sequences, SequencesExt

CONSTANTS
    Messages,   \* texts that parse
    Bad,        \* a text that does not parse, or a binary frame
    Ping,       \* a ping or pong frame
    Codes,      \* close codes the server uses
    NotClosed,  \* WsLink.closed = None
    NoCode,     \* WsLink.closed = Some(None)
    Pieces,     \* reads of the socket a frame takes
    MaxWait,    \* bound on recv's timeout
    MaxFrames   \* bound on the frames the server sends

ASSUME LinkAssumption ==
    /\ Pieces \in Nat \ {0} /\ MaxWait \in Nat \ {0} /\ MaxFrames \in Nat
    /\ NotClosed \notin Codes \cup {NoCode}

VARIABLES
    dialed,   \* what connect reached: the host, and whether over TLS; or Nowhere
    wire,     \* frames from the server not read yet
    sent,     \* how many it sent
    line,     \* the TCP connection: "up", "eof" or "reset"
    part,     \* pieces of wire's head that tungstenite has read
    lib,      \* tungstenite's state: "active" or "terminated"
    closed,   \* WsLink.closed
    call,     \* recv: "none", "top" of its loop, or in "read"
    left,     \* time to the deadline of that call
    armed,    \* the socket's read timeout
    waited,   \* time spent in the present read of the socket
    got,      \* history: what recv consumed, in order
    answer    \* what the last call returned

server == <<wire, sent, line>>
timing == <<left, armed, waited>>
vars == <<dialed, server, part, lib, closed, call, timing, got, answer>>
-----------------------------------------------------------------------------
(* URLs, as http::Uri parses them: the authority is user@host followed by   *)
(* nothing, a port, or something else; the host dialed is the one after @.  *)
Hosts == {"loopback", "remote"}
Nowhere == [host |-> "nowhere", tls |-> FALSE]
Urls  == [scheme : {"wss", "ws", "http"}, user : Hosts \cup {"none"},
          host : Hosts, rest : {"nothing", "port", "junk"}]

EnsureSecureUrl(u) ==
    \/ u.scheme = "wss"
    \/ /\ u.scheme = "ws"
       /\ u.user = "none" /\ u.rest # "junk" /\ u.host = "loopback"

(* The addresses the host resolves to are tried in turn, the first that     *)
(* accepts is used, and none accepting is the last one's error.             *)
ConnectTcp(outcomes) == \E i \in DOMAIN outcomes : outcomes[i] = "accepts"

Connect(u, outcomes, upgraded) ==
    /\ dialed = Nowhere
    /\ IF ~EnsureSecureUrl(u) THEN answer' = "insecure_url" /\ UNCHANGED dialed
       ELSE IF ~ConnectTcp(outcomes) THEN answer' = "io" /\ UNCHANGED dialed
       ELSE IF ~upgraded THEN answer' \in {"http", "io", "protocol"} /\ UNCHANGED dialed
       ELSE answer' = "connected" /\ dialed' = [host |-> u.host, tls |-> u.scheme = "wss"]
    /\ UNCHANGED <<server, part, lib, closed, call, timing, got>>
-----------------------------------------------------------------------------
(* Frames, and the server and network at the other end. *)
Close(c) == <<"close", c>>
Closes   == {Close(c) : c \in Codes \cup {NoCode}}
IsData(f) == f \notin Closes /\ f # Ping
Frames   == Messages \cup {Bad, Ping} \cup Closes
ClosesIn(w) == Range(w) \cap Closes

ASSUME FramesAssumption ==
    /\ (Messages \cup {Bad, Ping}) \cap Closes = {}
    /\ Ping \notin Messages \cup {Bad}

ServerSends(f) ==
    /\ dialed # Nowhere /\ line = "up" /\ sent < MaxFrames
    /\ closed = NotClosed /\ ClosesIn(wire) = {}
    /\ wire' = Append(wire, f) /\ sent' = sent + 1
    /\ UNCHANGED <<dialed, line, part, lib, closed, call, timing, got, answer>>

(* What the line still brings when it breaks is some first part of the      *)
(* wire; of a frame cut off, the pieces read stay in tungstenite's buffer.  *)
CutTo(w) == IsPrefix(w, wire) /\ wire' = w

LineBreaks(how, w) ==
    /\ dialed # Nowhere /\ line = "up"
    /\ line' = how /\ CutTo(w)
    /\ UNCHANGED <<dialed, sent, part, lib, closed, call, timing, got, answer>>
-----------------------------------------------------------------------------
Return(a) == call' = "none" /\ answer' = a

(* recv(t) *)
Recv(t) ==
    /\ dialed # Nowhere /\ call = "none"
    /\ IF closed # NotClosed
       THEN Return("closed") /\ UNCHANGED timing
       ELSE call' = "top" /\ left' = t /\ UNCHANGED <<armed, waited, answer>>
    /\ UNCHANGED <<dialed, server, part, lib, closed, got>>

(* Mutant of Expired: a deadline met exactly is not past yet. *)
ExpiredLate == left < 0

(* Mutant of TimeoutToArm: connect's fixed timeout is left in place. *)
TimeoutFixed == MaxWait

(* The top of its loop: give up, or read for what is left. *)
Expired == left <= 0
TimeoutToArm == left

Top == /\ call = "top"
       /\ IF Expired THEN Return("nothing") /\ UNCHANGED timing
          ELSE call' = "read" /\ armed' = TimeoutToArm /\ waited' = 0 /\ UNCHANGED <<left, answer>>
       /\ UNCHANGED <<dialed, server, part, lib, closed, got>>

(* read: a read of the socket brings a piece, and the next one waits anew. *)
ReadPiece ==
    /\ call = "read" /\ lib = "active" /\ wire # <<>> /\ part < Pieces - 1
    /\ part' = part + 1 /\ waited' = 0
    /\ UNCHANGED <<dialed, server, lib, closed, call, left, armed, got, answer>>

(* The last piece completes the frame. *)
ReadFrame ==
    /\ call = "read" /\ lib = "active" /\ wire # <<>> /\ part = Pieces - 1
    /\ wire' = Tail(wire) /\ part' = 0
    /\ LET f == Head(wire) IN
        /\ got' = IF IsData(f) THEN Append(got, f) ELSE got
        /\ \/ f \in Messages /\ Return("message") /\ UNCHANGED closed
           \/ f = Bad /\ Return("protocol") /\ UNCHANGED closed
           \/ f = Ping /\ call' = "top" /\ UNCHANGED <<closed, answer>>
           \/ f \in Closes /\ closed' = f[2] /\ Return("closed")
    /\ UNCHANGED <<dialed, sent, line, lib, timing>>

Wait == /\ call = "read" /\ waited < armed
        /\ waited' = waited + 1 /\ left' = left - 1
        /\ UNCHANGED <<dialed, server, part, lib, closed, call, armed, got, answer>>

(* Mutant of ReadTimesOut: an unfinished frame is forgotten. *)
ReadTimesOutDropping ==
    /\ call = "read" /\ waited = armed
    /\ Return("nothing")
    /\ wire' = IF part > 0 THEN Tail(wire) ELSE wire
    /\ part' = 0
    /\ UNCHANGED <<dialed, sent, line, lib, closed, timing, got>>

(* The read of the socket times out; an unfinished frame stays where it is. *)
ReadTimesOut ==
    /\ call = "read" /\ waited = armed
    /\ Return("nothing")
    /\ UNCHANGED <<dialed, server, part, lib, closed, timing, got>>

(* The end of the stream without a close frame is a protocol error once,    *)
(* and the calls after that find the connection already closed.             *)
ReadEof ==
    /\ call = "read" /\ wire = <<>>
    /\ \/ /\ lib = "active" /\ line = "eof" /\ lib' = "terminated"
          /\ Return("protocol") /\ UNCHANGED closed
       \/ /\ lib = "terminated" /\ closed' = NoCode
          /\ Return("closed") /\ UNCHANGED lib
    /\ UNCHANGED <<dialed, server, part, timing, got>>

(* Any other error of the socket leaves the link as it is. *)
ReadFails ==
    /\ call = "read" /\ wire = <<>> /\ lib = "active" /\ line = "reset"
    /\ Return("io") /\ line' \in {"reset", "eof"}
    /\ UNCHANGED <<dialed, wire, sent, part, lib, closed, timing, got>>

(* send; a write to an end that is gone may turn "eof" into "reset". *)
Send(w) ==
    /\ dialed # Nowhere /\ call = "none"
    /\ \/ /\ closed # NotClosed /\ Return("closed")
          /\ UNCHANGED <<wire, line, closed>>
       \/ /\ closed = NotClosed /\ lib = "terminated"
          /\ closed' = NoCode /\ Return("closed")
          /\ UNCHANGED <<wire, line>>
       \/ /\ closed = NotClosed /\ lib = "active"
          /\ \E a \in {"sent", "io"} : Return(a)
          /\ \/ UNCHANGED <<wire, line>>
             \/ line = "eof" /\ line' = "reset" /\ CutTo(w)
          /\ UNCHANGED closed
    /\ UNCHANGED <<dialed, sent, part, lib, timing, got>>
-----------------------------------------------------------------------------
Init == /\ dialed = Nowhere /\ wire = <<>> /\ sent = 0 /\ line = "up"
        /\ part = 0 /\ lib = "active" /\ closed = NotClosed
        /\ call = "none" /\ left = 0 /\ armed = MaxWait /\ waited = 0
        /\ got = <<>> /\ answer = "none"

Cuts == {SubSeq(wire, 1, n) : n \in 0 .. Len(wire)}
Reads == ReadPiece \/ ReadFrame \/ ReadTimesOut \/ ReadEof \/ ReadFails
Next == \/ \E u \in Urls, o \in {<<>>, <<"refuses">>, <<"refuses", "accepts">>}, ok \in BOOLEAN :
                Connect(u, o, ok)
        \/ \E f \in Frames : ServerSends(f)
        \/ \E how \in {"eof", "reset"}, w \in Cuts : LineBreaks(how, w)
        \/ \E t \in 0 .. MaxWait : Recv(t)
        \/ Top \/ Reads \/ Wait
        \/ \E w \in Cuts : Send(w)

Spec == Init /\ [][Next]_vars
-----------------------------------------------------------------------------
(* Types; recv arms no zero timeout, which set_read_timeout would refuse    *)
(* (link.rs:115), and nothing remote is spoken to in the clear              *)
(* (ensure_secure_url), whatever is written before an @ in the URL.         *)
Dialable == {d \in [host : Hosts, tls : BOOLEAN] : d.tls \/ d.host = "loopback"}
TypeOK ==
    /\ dialed \in {Nowhere} \cup Dialable
    /\ wire \in Seq(Frames) /\ sent \in 0 .. MaxFrames /\ line \in {"up", "eof", "reset"}
    /\ part \in 0 .. Pieces - 1 /\ lib \in {"active", "terminated"}
    /\ closed \in Codes \cup {NotClosed, NoCode}
    /\ call \in {"none", "top", "read"}
    /\ left \in Int /\ armed \in 1 .. MaxWait /\ waited \in 0 .. armed
    /\ got \in Seq(Messages \cup {Bad})

(* recv's deadline (link.rs:112): pings do not push it back, and a frame    *)
(* that comes in pieces can hold the call past it by at most one armed      *)
(* timeout for each piece already here.                                     *)
OverrunBounded == call = "read" => -left <= part * armed

(* recv delivers what the server sent in order, nothing lost to a timeout   *)
(* in the middle of a frame, and reports the close only after it, with the  *)
(* server's code, and the same code ever after.                             *)
DataOf(w) ==
    LET d[n \in 0 .. Len(w)] ==
            IF n = 0 THEN <<>>
            ELSE IF IsData(w[n]) THEN Append(d[n - 1], w[n]) ELSE d[n - 1]
    IN  d[Len(w)]
CodeIn(w) == (CHOOSE f \in ClosesIn(w) : TRUE)[2]
Ended == IF closed # NotClosed THEN closed
         ELSE IF ClosesIn(wire) # {} THEN CodeIn(wire)
         ELSE IF line = "up" THEN NotClosed ELSE NoCode
P == INSTANCE Pipe WITH NotYet <- NotClosed, Broken <- NoCode,
                        queue <- DataOf(wire), ended <- Ended, over <- closed
ImplementsPipe == P!Spec
=============================================================================
