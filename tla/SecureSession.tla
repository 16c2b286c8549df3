---------------------------- MODULE SecureSession ----------------------------
(***************************************************************************)
(* What a one-time code becomes: the PAKE of pake.rs, the sealed streams   *)
(* of sealed.rs and the Hello of identity.rs, between the viewers and the  *)
(* attempts of one or more hosts.  The room passes on whatever is in       *)
(* flight to whoever is in it, so anything ever sent may come late, twice, *)
(* out of order, damaged, or to another end than it was meant for.         *)
(*                                                                         *)
(* Cryptography is symbolic.  A point stands for the end that made it; a   *)
(* session key is the record of what SPAKE2 puts into it, so two ends have *)
(* the same key just when all of that is the same; a MAC, a sealed message *)
(* or a signature matches only what it was computed from.                  *)
(***************************************************************************)
EXTENDS Naturals, Sequences, FiniteSets

CONSTANTS
    Viewers,    \* one run of connect each (a ViewerPake)
    Attempts,   \* one attempt of a host each (a HostPake)
    Codes,      \* one-time codes
    HostIds,
    None,       \* no key, no one
    Damaged,    \* a point or MAC that does not parse
    MaxSeals    \* bound on what an end seals

Ends == Viewers \cup Attempts

ASSUME SessionAssumption ==
    /\ Viewers \cap Attempts = {}
    /\ None \notin Ends /\ Damaged \notin Ends
    /\ None \notin [pa : Viewers, pb : Attempts, w : Codes, id : HostIds]
    /\ MaxSeals \in Nat \ {0}

VARIABLES
    pc,       \* "idle", "begun", "keyed" (keys agreed on) or "failed"
    typed,    \* the code and host ID an end uses
    key,      \* its session key, or None; a host has one before it is confirmed
    net,      \* everything sent so far
    counter,  \* SealedSender.counter
    opened,   \* what its SealedReceiver opened; expected_counter is the length
    shown     \* whose identity verify_hello gave it, or None
vars == <<pc, typed, key, net, counter, opened, shown>>

Keys   == [pa : Viewers, pb : Attempts, w : Codes, id : HostIds]
Inputs == [w : Codes, id : HostIds]
-----------------------------------------------------------------------------
(* Mutant of SpakeKey: the host's ID is not mixed in. *)
SpakeKeyNoId(v, a, in) == [pa |-> v, pb |-> a, w |-> in.w, id |-> None]

(* code_scalar, host_id_bytes and the transcript. *)
SpakeKey(v, a, in) == [pa |-> v, pb |-> a, w |-> in.w, id |-> in.id]

(* Messages: the two rounds of the PAKE, sealed streams, and the Hello. *)
Mac(by, k) == [by |-> by, key |-> k]
BadMac     == [by |-> "nobody", key |-> None]
Sealed(e, k, n) == [label |-> IF e \in Viewers THEN "v2h" ELSE "h2v", key |-> k,
                    counter |-> n, by |-> e]
Start(p)   == [m |-> "start", pa |-> p]
Reply(p, mac) == [m |-> "reply", pb |-> p, mac |-> mac]
Confirm(mac)  == [m |-> "confirm", mac |-> mac]
Seal(s)    == [m |-> "sealed", s |-> s]
Hello(by, statement) == [m |-> "hello", by |-> by, statement |-> statement]

Garbled == {Start(Damaged), Reply(Damaged, BadMac), Confirm(BadMac)}
             \cup {Reply(a, BadMac) : a \in Attempts}
InFlight == net \cup Garbled

Fail(e) == pc' = [pc EXCEPT ![e] = "failed"] /\ UNCHANGED <<key, net>>
Go(e, to, k, msgs) == /\ pc' = [pc EXCEPT ![e] = to]
                      /\ key' = [key EXCEPT ![e] = k]
                      /\ net' = net \cup msgs
-----------------------------------------------------------------------------
(* ViewerPake::start *)
StartPake(v, in) ==
    /\ pc[v] = "idle"
    /\ typed' = [typed EXCEPT ![v] = in]
    /\ Go(v, "begun", None, {Start(v)})
    /\ UNCHANGED <<counter, opened, shown>>

(* Mutant of Respond: a point that does not parse is used all the same. *)
RespondUnparsed(a, in, msg) ==
    /\ pc[a] = "idle" /\ msg \in InFlight /\ msg.m = "start"
    /\ typed' = [typed EXCEPT ![a] = in]
    /\ LET k == SpakeKey(msg.pa, a, in) IN
          Go(a, "begun", k, {Reply(a, Mac("host", k))})
    /\ UNCHANGED <<counter, opened, shown>>

(* HostPake::respond: a key of its own before anything is confirmed. *)
Respond(a, in, msg) ==
    /\ pc[a] = "idle" /\ msg \in InFlight /\ msg.m = "start"
    /\ typed' = [typed EXCEPT ![a] = in]
    /\ \/ msg.pa = Damaged /\ Fail(a)
       \/ /\ msg.pa # Damaged
          /\ LET k == SpakeKey(msg.pa, a, in) IN
                Go(a, "begun", k, {Reply(a, Mac("host", k))})
    /\ UNCHANGED <<counter, opened, shown>>

(* Mutant of Finish: the host's MAC is not verified. *)
FinishUnverified(v, msg) ==
    /\ pc[v] = "begun" /\ msg \in InFlight /\ msg.m = "reply" /\ msg.pb # Damaged
    /\ LET k == SpakeKey(v, msg.pb, typed[v]) IN
        Go(v, "keyed", k, {Confirm(Mac("viewer", k))})
    /\ UNCHANGED <<typed, counter, opened, shown>>

(* ViewerPake::finish: the point, then the MAC, before there are keys. *)
Finish(v, msg) ==
    /\ pc[v] = "begun" /\ msg \in InFlight /\ msg.m = "reply"
    /\ \/ msg.pb = Damaged /\ Fail(v)
       \/ /\ msg.pb # Damaged
          /\ LET k == SpakeKey(v, msg.pb, typed[v]) IN
              \/ msg.mac # Mac("host", k) /\ Fail(v)
              \/ /\ msg.mac = Mac("host", k)
                 /\ Go(v, "keyed", k, {Confirm(Mac("viewer", k))})
    /\ UNCHANGED <<typed, counter, opened, shown>>

(* HostPake::confirm *)
ConfirmPake(a, msg) ==
    /\ pc[a] = "begun" /\ msg \in InFlight /\ msg.m = "confirm"
    /\ \/ msg.mac # Mac("viewer", key[a]) /\ Fail(a)
       \/ msg.mac = Mac("viewer", key[a]) /\ Go(a, "keyed", key[a], {})
    /\ UNCHANGED <<typed, counter, opened, shown>>
-----------------------------------------------------------------------------
(* SealedSender::seal: the counter goes into the nonce, and is used once. *)
SealNext(e) ==
    /\ pc[e] = "keyed" /\ counter[e] < MaxSeals
    /\ net' = net \cup {Seal(Sealed(e, key[e], counter[e]))}
    /\ counter' = [counter EXCEPT ![e] = @ + 1]
    /\ UNCHANGED <<pc, typed, key, opened, shown>>

Label(e) == IF e \in Viewers THEN "h2v" ELSE "v2h"

(* Mutant of Opens: the counter is not compared with the expected one. *)
OpensAnyCounter(e, s) == s.label = Label(e) /\ s.key = key[e]

(* SealedReceiver::open succeeds; a failure leaves the receiver as it was. *)
Opens(e, s) == s.label = Label(e) /\ s.key = key[e] /\ s.counter = Len(opened[e])

OpenNext(e, msg) ==
    /\ pc[e] = "keyed" /\ msg \in net /\ msg.m = "sealed"
    /\ Opens(e, msg.s)
    /\ opened' = [opened EXCEPT ![e] = Append(@, <<msg.s.by, msg.s.counter>>)]
    /\ UNCHANGED <<pc, typed, key, net, counter, shown>>

(* The first sealed message each way is an SDP, which names the sender's    *)
(* DTLS fingerprint; an end's own fingerprint stands for the end.           *)
RemoteFp(e) == opened[e][1][1]

(* Mutant of SessionMessage: the session is left out of what is signed. *)
SessionMessageRoleOnly(role, binding, own, peer) == [role |-> role]

(* session_message, as make_hello signs it and verify_hello rebuilds it *)
SessionMessage(role, binding, own, peer) ==
    [role |-> role, binding |-> binding, own |-> own, peer |-> peer]
RoleOf(e) == IF e \in Viewers THEN "viewer" ELSE "host"
PeerRole(e) == IF e \in Viewers THEN "host" ELSE "viewer"

MakeHello(e) ==
    /\ pc[e] = "keyed" /\ opened[e] # <<>>
    /\ net' = net \cup {Hello(e, SessionMessage(RoleOf(e), key[e], e, RemoteFp(e)))}
    /\ UNCHANGED <<pc, typed, key, counter, opened, shown>>

(* verify_hello; one that does not verify ends the connection. *)
VerifyHello(e, msg) ==
    /\ pc[e] = "keyed" /\ opened[e] # <<>> /\ shown[e] = None
    /\ msg \in net /\ msg.m = "hello"
    /\ IF msg.statement = SessionMessage(PeerRole(e), key[e], RemoteFp(e), e)
       THEN shown' = [shown EXCEPT ![e] = msg.by] /\ UNCHANGED pc
       ELSE pc' = [pc EXCEPT ![e] = "failed"] /\ UNCHANGED shown
    /\ UNCHANGED <<typed, key, net, counter, opened>>
-----------------------------------------------------------------------------
Init == /\ pc = [e \in Ends |-> "idle"] /\ typed = [e \in Ends |-> None]
        /\ key = [e \in Ends |-> None] /\ net = {}
        /\ counter = [e \in Ends |-> 0] /\ opened = [e \in Ends |-> <<>>]
        /\ shown = [e \in Ends |-> None]

Next == \/ \E v \in Viewers, in \in Inputs : StartPake(v, in)
        \/ \E a \in Attempts, in \in Inputs, msg \in InFlight : Respond(a, in, msg)
        \/ \E v \in Viewers, msg \in InFlight : Finish(v, msg)
        \/ \E a \in Attempts, msg \in InFlight : ConfirmPake(a, msg)
        \/ \E e \in Ends : SealNext(e) \/ MakeHello(e)
        \/ \E e \in Ends, msg \in net : OpenNext(e, msg) \/ VerifyHello(e, msg)

Spec == Init /\ [][Next]_vars
-----------------------------------------------------------------------------
(* What the ends send: MACs, seals and statements are made with keys that    *)
(* come from two points that parse, and a Hello names the ends of a channel. *)
Message ==
    [m : {"start"}, pa : Viewers]
      \cup [m : {"reply"}, pb : Attempts, mac : [by : {"host"}, key : Keys]]
      \cup [m : {"confirm"}, mac : [by : {"viewer"}, key : Keys]]
      \cup [m : {"sealed"}, s : [label : {"v2h", "h2v"}, key : Keys,
                                 counter : 0 .. MaxSeals - 1, by : Ends]]
      \cup [m : {"hello"}, by : Ends,
             statement : [role : {"viewer", "host"}, binding : Keys, own : Ends, peer : Ends]]

(* Types of the ends. *)
EndTypes ==
    /\ pc \in [Ends -> {"idle", "begun", "keyed", "failed"}]
    /\ typed \in [Ends -> Inputs \cup {None}]
    /\ key \in [Ends -> Keys \cup {None}]
    /\ counter \in [Ends -> 0 .. MaxSeals]
    /\ opened \in [Ends -> Seq(Ends \X (0 .. MaxSeals - 1))]
    /\ shown \in [Ends -> Ends \cup {None}]

(* Types of the ends and of what they sent: a damaged point or MAC, which    *)
(* may come in at any time, gets into no key and into nothing an end sends   *)
(* (pake.rs:97, :122).                                                       *)
TypeOK == EndTypes /\ net \subseteq Message

(* The end at the other side of e's key. *)
Peer(e) == IF e \in Viewers THEN key[e].pb ELSE key[e].pa

(* The PAKE: an end that has keys shares them with one end of the other     *)
(* kind, which typed the same code and the same host ID; a Reply or Confirm *)
(* meant for someone else never makes a key (pake.rs:96, :127).             *)
KeysPairUp == \A e \in Ends : pc[e] = "keyed" =>
    /\ key[Peer(e)] = key[e] /\ typed[Peer(e)] = typed[e]
    /\ e \in Attempts => pc[Peer(e)] # "begun"

(* The sealed streams: what an end opened is what its peer sealed, from the *)
(* first on, in order, each once, and never its own (sealed.rs:81).         *)
StreamExact == \A e \in Ends :
    /\ opened[e] # <<>> => Len(opened[e]) <= counter[Peer(e)]
    /\ \A i \in 1 .. Len(opened[e]) : opened[e][i] = <<Peer(e), i - 1>>

(* The Hello: the identity an end shows its user is that of the end it      *)
(* shares its keys with, in this session and over this channel, not one     *)
(* left over from another session or its own (identity.rs:139).             *)
IdentityIsPeers == \A e \in Ends : shown[e] # None =>
    shown[e] = Peer(e) /\ RemoteFp(e) = Peer(e) /\ key[shown[e]] = key[e]
=============================================================================
