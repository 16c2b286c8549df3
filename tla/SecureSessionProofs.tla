------------------------- MODULE SecureSessionProofs -------------------------
(***************************************************************************)
(* Keys, streams and identities pair up for any number of viewers, host    *)
(* attempts, codes and IDs, whatever the room delivers to whom.            *)
(***************************************************************************)
EXTENDS SecureSession, SequenceTheorems, TLAPS

\* Everything in flight is what its sender made it from, in terms of what the sender
\* holds now: no end ever replaces a key, and no end speaks before it has one.
Genuine(msg) ==
    \/ \E v \in Viewers : msg = Start(v)
    \/ \E a \in Attempts : key[a] \in Keys /\ msg = Reply(a, Mac("host", key[a]))
    \/ \E v \in Viewers : key[v] \in Keys /\ msg = Confirm(Mac("viewer", key[v]))
    \/ \E e \in Ends, n \in Nat :
         key[e] \in Keys /\ n < counter[e] /\ msg = Seal(Sealed(e, key[e], n))
    \/ \E e \in Ends :
         /\ key[e] \in Keys /\ opened[e] # <<>>
         /\ msg = Hello(e, SessionMessage(RoleOf(e), key[e], e, RemoteFp(e)))

\* A key holds its owner's point and what its owner typed.
Owned(e, k) ==
    /\ e \in Viewers => k.pa = e
    /\ e \in Attempts => k.pb = e
    /\ typed[e] = [w |-> k.w, id |-> k.id]

\* Which keys an end has at which stage: a viewer one that is verified, a host one
\* from its Reply on.
EndInv(e) ==
    /\ pc[e] = "idle" => key[e] = None
    /\ pc[e] # "idle" => typed[e] \in Inputs
    /\ e \in Viewers /\ pc[e] = "begun" => key[e] = None
    /\ e \in Attempts /\ pc[e] = "begun" => key[e] \in Keys
    /\ key[e] \in Keys => Owned(e, key[e])
    /\ pc[e] = "keyed" => key[e] \in Keys /\ key[Peer(e)] = key[e]

\* What an end opened, and whom it shows, belong to the end its key names.
StreamInv(e) ==
    opened[e] # <<>> =>
        /\ key[e] \in Keys /\ Len(opened[e]) <= counter[Peer(e)]
        /\ \A i \in 1 .. Len(opened[e]) : opened[e][i] = <<Peer(e), i - 1>>
ShownInv(e) ==
    shown[e] # None =>
        /\ key[e] \in Keys /\ opened[e] # <<>> /\ key[shown[e]] = key[e]
        /\ shown[e] = Peer(e) /\ RemoteFp(e) = Peer(e)

SecureInv ==
    /\ EndTypes
    /\ \A msg \in net : Genuine(msg)
    /\ \A e \in Ends : EndInv(e) /\ StreamInv(e) /\ ShownInv(e)

\* What no step takes away from an end.
Kept(e) ==
    /\ key[e] \in Keys => key'[e] = key[e]
    /\ counter[e] <= counter'[e]
    /\ opened[e] # <<>> => opened'[e] # <<>> /\ opened'[e][1] = opened[e][1]

\* The end at the other side of a key is an end.
LEMMA PeerType == ASSUME NEW e \in Ends, key[e] \in Keys PROVE Peer(e) \in Ends
BY DEF Peer, Keys, Ends

\* No key is None.
LEMMA NoneIsNoKey == None \notin Keys
BY SessionAssumption DEF Keys

\* Two ends of different kinds that hold the same key are each other's peers.
LEMMA SameKey ==
    ASSUME NEW e \in Ends, NEW f \in Ends, key[e] \in Keys, key[f] = key[e],
           Owned(f, key[f]), e \in Viewers <=> f \notin Viewers
    PROVE  Peer(e) = f
BY DEF Owned, Peer, Ends

\* What is in flight stays genuine.
LEMMA GenuineKept ==
    ASSUME EndTypes, \A e \in Ends : Kept(e), \A e \in Ends : counter'[e] \in Nat,
           NEW msg, Genuine(msg)
    PROVE  Genuine(msg)'
<1>1. CASE \E v \in Viewers : msg = Start(v)
  BY <1>1 DEF Genuine, Start
<1>2. CASE \E a \in Attempts : key[a] \in Keys /\ msg = Reply(a, Mac("host", key[a]))
  BY <1>2 DEF Genuine, Kept, Ends, Reply, Mac, Keys
<1>3. CASE \E v \in Viewers : key[v] \in Keys /\ msg = Confirm(Mac("viewer", key[v]))
  BY <1>3 DEF Genuine, Kept, Ends, Confirm, Mac, Keys
<1>4. CASE \E e \in Ends, n \in Nat :
             key[e] \in Keys /\ n < counter[e] /\ msg = Seal(Sealed(e, key[e], n))
  <2>1. PICK e \in Ends, n \in Nat :
             key[e] \in Keys /\ n < counter[e] /\ msg = Seal(Sealed(e, key[e], n))
    BY <1>4
  <2>2. key'[e] = key[e] /\ n < counter'[e] /\ key'[e] \in Keys
    BY <2>1 DEF Kept, EndTypes
  <2>3. msg = Seal(Sealed(e, key'[e], n))
    BY <2>1, <2>2
  <2>. QED  BY <2>2, <2>3 DEF Genuine, Seal, Sealed, Keys, Ends
<1>5. CASE \E e \in Ends :
             /\ key[e] \in Keys /\ opened[e] # <<>>
             /\ msg = Hello(e, SessionMessage(RoleOf(e), key[e], e, RemoteFp(e)))
  BY <1>5 DEF Genuine, Kept, Hello, SessionMessage, RoleOf, RemoteFp, Keys, Ends
<1>. QED  BY <1>1, <1>2, <1>3, <1>4, <1>5 DEF Genuine

\* An end whose own state a step leaves alone keeps its invariants.
LEMMA EndKept ==
    ASSUME \A e \in Ends : Kept(e), NEW e \in Ends, EndInv(e),
           pc'[e] = pc[e], key'[e] = key[e], typed'[e] = typed[e]
    PROVE  EndInv(e)'
<1>1. key[e] \in Keys => Peer(e) \in Ends
  BY PeerType
<1>2. Peer(e)' = Peer(e)
  BY DEF Peer
<1>3. pc[e] = "keyed" => key'[Peer(e)] = key[e]
  BY <1>1 DEF EndInv, Kept
<1>. QED  BY <1>2, <1>3 DEF EndInv, Owned, Keys, Inputs

\* What an end opened still belongs to its peer after a step that opens nothing there.
LEMMA StreamKept ==
    ASSUME EndTypes, \A e \in Ends : Kept(e), \A e \in Ends : counter'[e] \in Nat,
           NEW e \in Ends, StreamInv(e), opened'[e] = opened[e]
    PROVE  StreamInv(e)'
<1>1. CASE opened[e] = <<>>
  BY <1>1 DEF StreamInv
<1>2. CASE opened[e] # <<>>
  <2>1. key[e] \in Keys /\ key'[e] = key[e] /\ Peer(e) \in Ends
    BY <1>2, PeerType DEF StreamInv, Kept
  <2>2. Peer(e)' = Peer(e)
    BY <2>1 DEF Peer
  <2>3. Len(opened[e]) <= counter'[Peer(e)]
    BY <1>2, <2>1 DEF StreamInv, Kept, EndTypes
  <2>. QED  BY <1>2, <2>1, <2>2, <2>3 DEF StreamInv, Keys
<1>. QED  BY <1>1, <1>2

\* Nor does such a step change whom an end shows.
LEMMA ShownKept ==
    ASSUME EndTypes, \A e \in Ends : Kept(e), NEW e \in Ends, ShownInv(e),
           shown'[e] = shown[e]
    PROVE  ShownInv(e)'
<1>1. CASE shown[e] = None
  BY <1>1 DEF ShownInv
<1>2. CASE shown[e] # None
  <2>1. /\ key[e] \in Keys /\ key'[e] = key[e] /\ shown[e] \in Ends
        /\ opened'[e] # <<>> /\ RemoteFp(e)' = RemoteFp(e)
    BY <1>2 DEF ShownInv, Kept, EndTypes, RemoteFp
  <2>2. Peer(e)' = Peer(e)
    BY <2>1 DEF Peer
  <2>3. key'[shown[e]] = key'[e]
    BY <1>2, <2>1 DEF ShownInv, Kept
  <2>. QED  BY <1>2, <2>1, <2>2, <2>3 DEF ShownInv, Keys
<1>. QED  BY <1>1, <1>2

\* A step that keeps what ends have, adds only genuine messages and opens and shows
\* nothing preserves the invariant, if it does so for the end it is about.
LEMMA StepOf ==
    ASSUME SecureInv, EndTypes', NEW x \in Ends, \A e \in Ends : Kept(e), EndInv(x)',
           \A e \in Ends \ {x} : pc'[e] = pc[e] /\ key'[e] = key[e] /\ typed'[e] = typed[e],
           \A msg \in net' \ net : Genuine(msg)', UNCHANGED <<opened, shown>>
    PROVE  SecureInv'
<1>1. \A e \in Ends : counter'[e] \in Nat
  BY SessionAssumption DEF EndTypes
<1>2. ASSUME NEW msg \in net' PROVE Genuine(msg)'
  BY <1>1, <1>2, GenuineKept DEF SecureInv
<1>3. ASSUME NEW e \in Ends PROVE EndInv(e)'
  BY EndKept DEF SecureInv
<1>4. ASSUME NEW e \in Ends PROVE StreamInv(e)' /\ ShownInv(e)'
  BY <1>1, StreamKept, ShownKept DEF SecureInv
<1>. QED  BY <1>2, <1>3, <1>4 DEF SecureInv

\* An end that fails keeps its key, if it has one.
LEMMA Failing ==
    ASSUME SecureInv, NEW x \in Ends, pc' = [pc EXCEPT ![x] = "failed"],
           typed' \in [Ends -> Inputs \cup {None}], typed'[x] \in Inputs,
           \A e \in Ends : e # x \/ pc[x] # "idle" => typed'[e] = typed[e],
           UNCHANGED <<key, net, counter, opened, shown>>
    PROVE  SecureInv'
<1>1. \A e \in Ends : Kept(e)
  BY SessionAssumption DEF SecureInv, EndTypes, Kept
<1>2. pc'[x] = "failed"
  BY DEF SecureInv, EndTypes
<1>3. EndTypes'
  BY <1>2 DEF SecureInv, EndTypes
<1>4. EndInv(x)'
  <2>1. EndInv(x) /\ (pc[x] = "idle" => key[x] = None)
    BY DEF SecureInv, EndInv
  <2>2. key'[x] \in Keys => typed'[x] = typed[x]
    BY <2>1, NoneIsNoKey
  <2>. QED  BY <1>2, <2>1, <2>2 DEF EndInv, Owned, Keys, Inputs
<1>5. \A e \in Ends \ {x} : pc'[e] = pc[e] /\ key'[e] = key[e] /\ typed'[e] = typed[e]
  BY DEF SecureInv, EndTypes
<1>. QED  BY <1>1, <1>3, <1>4, <1>5, StepOf

\* ViewerPake::start.
LEMMA StartStep == ASSUME SecureInv, NEW v \in Viewers, NEW in \in Inputs, StartPake(v, in)
                   PROVE  SecureInv'
<1>1. v \in Ends /\ v \notin Attempts /\ pc[v] = "idle" /\ key[v] = None
  BY SessionAssumption DEF Ends, StartPake, SecureInv, EndInv
<1>2. /\ pc' = [pc EXCEPT ![v] = "begun"] /\ typed' = [typed EXCEPT ![v] = in]
      /\ key' = [key EXCEPT ![v] = None] /\ net' = net \cup {Start(v)}
      /\ UNCHANGED <<counter, opened, shown>>
  BY DEF StartPake, Go
<1>3. EndTypes'
  BY <1>1, <1>2 DEF SecureInv, EndTypes
<1>4. \A e \in Ends : Kept(e)
  BY <1>1, <1>2, NoneIsNoKey, SessionAssumption DEF SecureInv, EndTypes, Kept
<1>5. EndInv(v)'
  BY <1>1, <1>2, NoneIsNoKey DEF EndInv, SecureInv, EndTypes, Keys, Inputs
<1>6. \A msg \in net' \ net : Genuine(msg)'
  BY <1>2 DEF Genuine, Start
<1>7. \A e \in Ends \ {v} : pc'[e] = pc[e] /\ key'[e] = key[e] /\ typed'[e] = typed[e]
  BY <1>2 DEF SecureInv, EndTypes
<1>. QED  BY <1>1, <1>2, <1>3, <1>4, <1>5, <1>6, <1>7, StepOf

\* Messages in flight that an end may act on: a point that parses is a viewer's.
LEMMA StartsInFlight ==
    ASSUME SecureInv, NEW msg \in InFlight, msg.m = "start", msg.pa # Damaged
    PROVE  msg.pa \in Viewers
<1>1. CASE msg \in net
  BY <1>1 DEF SecureInv, Genuine, Start, Reply, Confirm, Seal, Hello
<1>2. CASE msg \in Garbled
  BY <1>2 DEF Garbled, Start, Reply, Confirm
<1>. QED  BY <1>1, <1>2 DEF InFlight

\* A host MAC that verifies was made by the host whose point came with it.
LEMMA RepliesInFlight ==
    ASSUME SecureInv, NEW msg \in InFlight, msg.m = "reply", NEW k,
           msg.mac = Mac("host", k)
    PROVE  msg.pb \in Attempts /\ key[msg.pb] \in Keys /\ key[msg.pb] = k
<1>1. CASE msg \in net
  BY <1>1 DEF SecureInv, Genuine, Start, Reply, Confirm, Seal, Hello, Mac
<1>2. CASE msg \in Garbled
  BY <1>2 DEF Garbled, Start, Reply, Confirm, Mac, BadMac
<1>. QED  BY <1>1, <1>2 DEF InFlight

\* A viewer MAC that verifies was made by a viewer that holds the key.
LEMMA ConfirmsInFlight ==
    ASSUME SecureInv, NEW msg \in InFlight, msg.m = "confirm", NEW k,
           msg.mac = Mac("viewer", k)
    PROVE  \E v \in Viewers : key[v] \in Keys /\ key[v] = k
<1>1. CASE msg \in net
  BY <1>1 DEF SecureInv, Genuine, Start, Reply, Confirm, Seal, Hello, Mac
<1>2. CASE msg \in Garbled
  BY <1>2 DEF Garbled, Start, Reply, Confirm, Mac, BadMac
<1>. QED  BY <1>1, <1>2 DEF InFlight

\* HostPake::respond: the host has a key, for the viewer whose Start came in.
LEMMA RespondStep ==
    ASSUME SecureInv, NEW a \in Attempts, NEW in \in Inputs, NEW msg \in InFlight,
           Respond(a, in, msg)
    PROVE  SecureInv'
<1>1. a \in Ends /\ a \notin Viewers /\ pc[a] = "idle" /\ key[a] = None
  BY SessionAssumption DEF Ends, Respond, SecureInv, EndInv
<1>2. typed' = [typed EXCEPT ![a] = in] /\ UNCHANGED <<counter, opened, shown>>
  BY DEF Respond
<1>3. typed'[a] = in
  BY <1>1, <1>2 DEF SecureInv, EndTypes
<1>4. CASE Fail(a)
  <2>1. pc' = [pc EXCEPT ![a] = "failed"] /\ UNCHANGED <<key, net, counter, opened, shown>>
    BY <1>2, <1>4 DEF Fail
  <2>2. /\ typed' \in [Ends -> Inputs \cup {None}] /\ typed'[a] \in Inputs
        /\ \A e \in Ends : e # a \/ pc[a] # "idle" => typed'[e] = typed[e]
    BY <1>1, <1>2, <1>3 DEF SecureInv, EndTypes
  <2>. QED  BY <1>1, <2>1, <2>2, Failing
<1>5. CASE msg.m = "start" /\ msg.pa # Damaged /\
           Go(a, "begun", SpakeKey(msg.pa, a, in), {Reply(a, Mac("host", SpakeKey(msg.pa, a, in)))})
  <2>. DEFINE k == SpakeKey(msg.pa, a, in)
  <2>1. k \in Keys /\ k.pb = a /\ in = [w |-> k.w, id |-> k.id]
    BY <1>5, StartsInFlight DEF SpakeKey, Keys, Inputs
  <2>2. /\ pc' = [pc EXCEPT ![a] = "begun"] /\ key' = [key EXCEPT ![a] = k]
        /\ net' = net \cup {Reply(a, Mac("host", k))}
    BY <1>5 DEF Go
  <2>. HIDE DEF k
  <2>3. EndTypes' /\ key'[a] = k /\ pc'[a] = "begun"
    BY <1>1, <1>2, <2>1, <2>2 DEF SecureInv, EndTypes
  <2>4. \A e \in Ends : Kept(e)
    BY <1>1, <1>2, <2>2, NoneIsNoKey, SessionAssumption DEF SecureInv, EndTypes, Kept
  <2>5. EndInv(a)'
    BY <1>1, <1>3, <2>1, <2>3 DEF EndInv, Owned, Keys, Inputs
  <2>6. \A m \in net' \ net : Genuine(m)'
    BY <2>1, <2>2, <2>3 DEF Genuine, Reply, Mac, Keys
  <2>7. \A e \in Ends \ {a} : pc'[e] = pc[e] /\ key'[e] = key[e] /\ typed'[e] = typed[e]
    BY <1>2, <2>2 DEF SecureInv, EndTypes
  <2>. QED  BY <1>1, <1>2, <2>3, <2>4, <2>5, <2>6, <2>7, StepOf
<1>. QED  BY <1>4, <1>5 DEF Respond

\* ViewerPake::finish: a Reply whose MAC verifies was made with the viewer's own key.
LEMMA FinishStep ==
    ASSUME SecureInv, NEW v \in Viewers, NEW msg \in InFlight, Finish(v, msg)
    PROVE  SecureInv'
<1>1. /\ v \in Ends /\ v \notin Attempts /\ pc[v] = "begun" /\ key[v] = None
      /\ typed[v] \in Inputs
  BY SessionAssumption DEF Ends, Finish, SecureInv, EndInv
<1>2. UNCHANGED <<typed, counter, opened, shown>> /\ msg.m = "reply"
  BY DEF Finish
<1>3. CASE Fail(v)
  <2>1. pc' = [pc EXCEPT ![v] = "failed"] /\ UNCHANGED <<key, net, counter, opened, shown>>
    BY <1>2, <1>3 DEF Fail
  <2>2. /\ typed' \in [Ends -> Inputs \cup {None}] /\ typed'[v] \in Inputs
        /\ \A e \in Ends : e # v \/ pc[v] # "idle" => typed'[e] = typed[e]
    BY <1>1, <1>2 DEF SecureInv, EndTypes
  <2>. QED  BY <1>1, <2>1, <2>2, Failing
<1>4. ASSUME NEW k, k = SpakeKey(v, msg.pb, typed[v]), msg.mac = Mac("host", k),
             Go(v, "keyed", k, {Confirm(Mac("viewer", k))})
      PROVE  SecureInv'
  <2>1. /\ msg.pb \in Attempts /\ key[msg.pb] \in Keys /\ key[msg.pb] = k
        /\ msg.pb \in Ends /\ msg.pb # v
    BY <1>1, <1>2, <1>4, RepliesInFlight DEF Ends
  <2>2. /\ k \in Keys /\ k.pa = v /\ k.pb = msg.pb
        /\ typed[v] = [w |-> k.w, id |-> k.id]
    BY <1>1, <1>4, <2>1 DEF SpakeKey, Keys, Inputs
  <2>3. /\ pc' = [pc EXCEPT ![v] = "keyed"] /\ key' = [key EXCEPT ![v] = k]
        /\ net' = net \cup {Confirm(Mac("viewer", k))}
    BY <1>4 DEF Go
  <2>4. EndTypes' /\ key'[v] = k /\ pc'[v] = "keyed" /\ key'[msg.pb] = k
    BY <1>1, <1>2, <2>1, <2>2, <2>3 DEF SecureInv, EndTypes
  <2>5. \A e \in Ends : Kept(e)
    BY <1>1, <1>2, <2>3, NoneIsNoKey, SessionAssumption DEF SecureInv, EndTypes, Kept
  <2>6. EndInv(v)'
    BY <1>1, <1>2, <2>2, <2>4 DEF EndInv, Owned, Peer, Keys, Inputs
  <2>7. \A m \in net' \ net : Genuine(m)'
    BY <2>2, <2>3, <2>4 DEF Genuine, Confirm, Mac, Keys
  <2>8. \A e \in Ends \ {v} : pc'[e] = pc[e] /\ key'[e] = key[e] /\ typed'[e] = typed[e]
    BY <1>2, <2>3 DEF SecureInv, EndTypes
  <2>. QED  BY <1>1, <1>2, <2>4, <2>5, <2>6, <2>7, <2>8, StepOf
<1>. QED  BY <1>3, <1>4 DEF Finish

\* HostPake::confirm: a Confirm whose MAC verifies was made by the viewer of the key.
LEMMA ConfirmStep ==
    ASSUME SecureInv, NEW a \in Attempts, NEW msg \in InFlight, ConfirmPake(a, msg)
    PROVE  SecureInv'
<1>1. /\ a \in Ends /\ a \notin Viewers /\ pc[a] = "begun" /\ key[a] \in Keys
      /\ typed[a] \in Inputs /\ EndInv(a)
  BY SessionAssumption DEF Ends, ConfirmPake, SecureInv, EndInv
<1>2. UNCHANGED <<typed, counter, opened, shown>> /\ msg.m = "confirm"
  BY DEF ConfirmPake
<1>3. CASE Fail(a)
  <2>1. pc' = [pc EXCEPT ![a] = "failed"] /\ UNCHANGED <<key, net, counter, opened, shown>>
    BY <1>2, <1>3 DEF Fail
  <2>2. /\ typed' \in [Ends -> Inputs \cup {None}] /\ typed'[a] \in Inputs
        /\ \A e \in Ends : e # a \/ pc[a] # "idle" => typed'[e] = typed[e]
    BY <1>1, <1>2 DEF SecureInv, EndTypes
  <2>. QED  BY <1>1, <2>1, <2>2, Failing
<1>4. CASE msg.mac = Mac("viewer", key[a]) /\ Go(a, "keyed", key[a], {})
  <2>1. PICK v \in Viewers : key[v] \in Keys /\ key[v] = key[a]
    BY <1>2, <1>4, ConfirmsInFlight
  <2>2. key[a].pa = v
    BY <2>1 DEF SecureInv, EndInv, Owned, Ends
  <2>3. pc' = [pc EXCEPT ![a] = "keyed"] /\ key' = key /\ net' = net
    BY <1>1, <1>4 DEF Go, SecureInv, EndTypes
  <2>4. EndTypes' /\ pc'[a] = "keyed"
    BY <1>1, <1>2, <2>3 DEF SecureInv, EndTypes
  <2>5. \A e \in Ends : Kept(e)
    BY <1>2, <2>3, SessionAssumption DEF SecureInv, EndTypes, Kept
  <2>6. EndInv(a)'
    BY <1>1, <1>2, <2>1, <2>2, <2>3, <2>4 DEF EndInv, Owned, Peer, Keys, Inputs
  <2>7. \A e \in Ends \ {a} : pc'[e] = pc[e] /\ key'[e] = key[e] /\ typed'[e] = typed[e]
    BY <1>2, <2>3 DEF SecureInv, EndTypes
  <2>. QED  BY <1>1, <1>2, <2>3, <2>4, <2>5, <2>6, <2>7, StepOf
<1>. QED  BY <1>3, <1>4 DEF ConfirmPake

\* SealedSender::seal.
LEMMA SealStep == ASSUME SecureInv, NEW x \in Ends, SealNext(x) PROVE SecureInv'
<1>1. key[x] \in Keys /\ counter[x] \in Nat /\ counter[x] < MaxSeals /\ MaxSeals \in Nat
  BY SessionAssumption DEF SealNext, SecureInv, EndInv, EndTypes
<1>2. /\ net' = net \cup {Seal(Sealed(x, key[x], counter[x]))}
      /\ counter' = [counter EXCEPT ![x] = counter[x] + 1]
      /\ UNCHANGED <<pc, typed, key, opened, shown>>
  BY DEF SealNext
<1>3. EndTypes' /\ counter'[x] = counter[x] + 1
  BY <1>1, <1>2 DEF SecureInv, EndTypes
<1>4. \A e \in Ends : Kept(e)
  BY <1>2, SessionAssumption DEF SecureInv, EndTypes, Kept
<1>5. EndInv(x)'
  BY <1>2, <1>4, EndKept DEF SecureInv
<1>6. \A msg \in net' \ net : Genuine(msg)'
  <2>1. counter[x] < counter'[x] /\ key'[x] = key[x]
    BY <1>1, <1>2, <1>3
  <2>2. SUFFICES ASSUME NEW msg, msg = Seal(Sealed(x, key[x], counter[x]))
                 PROVE  Genuine(msg)'
    BY <1>2
  <2>3. \E n \in Nat : n < counter'[x] /\ msg = Seal(Sealed(x, key'[x], n))
    BY <1>1, <2>1, <2>2
  <2>. QED  BY <1>1, <2>1, <2>3 DEF Genuine, Seal, Sealed, Keys, Ends
<1>. QED  BY <1>2, <1>3, <1>4, <1>5, <1>6, StepOf

\* make_hello.
LEMMA HelloStep == ASSUME SecureInv, NEW x \in Ends, MakeHello(x) PROVE SecureInv'
<1>1. key[x] \in Keys /\ opened[x] # <<>>
  BY DEF MakeHello, SecureInv, EndInv
<1>2. /\ net' = net \cup {Hello(x, SessionMessage(RoleOf(x), key[x], x, RemoteFp(x)))}
      /\ UNCHANGED <<pc, typed, key, counter, opened, shown>>
  BY DEF MakeHello
<1>3. EndTypes'
  BY <1>2 DEF SecureInv, EndTypes
<1>4. \A e \in Ends : Kept(e)
  BY <1>2, SessionAssumption DEF SecureInv, EndTypes, Kept
<1>5. EndInv(x)'
  BY <1>2, <1>4, EndKept DEF SecureInv
<1>6. \A msg \in net' \ net : Genuine(msg)'
  BY <1>1, <1>2 DEF Genuine, Hello, SessionMessage, RoleOf, RemoteFp, Keys
<1>. QED  BY <1>2, <1>3, <1>4, <1>5, <1>6, StepOf

\* SealedReceiver::open: what opens was sealed by the peer, next in its stream.
LEMMA OpenStep == ASSUME SecureInv, NEW x \in Ends, NEW msg \in net, OpenNext(x, msg)
                  PROVE  SecureInv'
<1>1. /\ pc[x] = "keyed" /\ msg.m = "sealed" /\ key[x] \in Keys
      /\ Opens(x, msg.s) /\ opened[x] \in Seq(Ends \X (0 .. MaxSeals - 1))
  BY DEF OpenNext, SecureInv, EndInv, EndTypes
<1>2. PICK f \in Ends, n \in Nat :
        key[f] \in Keys /\ n < counter[f] /\ msg = Seal(Sealed(f, key[f], n))
  BY <1>1 DEF SecureInv, Genuine, Start, Reply, Confirm, Seal, Hello
<1>3. /\ msg.s.by = f /\ msg.s.counter = n /\ msg.s.key = key[f]
      /\ msg.s.label = IF f \in Viewers THEN "v2h" ELSE "h2v"
  BY <1>2 DEF Seal, Sealed
<1>4. key[f] = key[x] /\ n = Len(opened[x]) /\ (x \in Viewers <=> f \notin Viewers)
  BY <1>1, <1>3 DEF Opens, Label
<1>5. Peer(x) = f
  BY <1>1, <1>2, <1>4, SameKey DEF SecureInv, EndInv
<1>6. /\ opened' = [opened EXCEPT ![x] = Append(opened[x], <<f, n>>)]
      /\ UNCHANGED <<pc, typed, key, net, counter, shown>>
  BY <1>3 DEF OpenNext
<1>7. <<f, n>> \in Ends \X (0 .. MaxSeals - 1) /\ counter[f] \in Nat
  BY <1>2, SessionAssumption DEF SecureInv, EndTypes
<1>. DEFINE u == Append(opened[x], <<f, n>>)
<1>8. /\ u \in Seq(Ends \X (0 .. MaxSeals - 1)) /\ u # <<>>
      /\ Len(u) = Len(opened[x]) + 1 /\ u[Len(opened[x]) + 1] = <<f, n>>
      /\ \A i \in 1 .. Len(opened[x]) : u[i] = opened[x][i]
      /\ Len(opened[x]) \in Nat
  BY <1>1, <1>7, AppendProperties
<1>9. opened'[x] = u /\ \A e \in Ends \ {x} : opened'[e] = opened[e]
  BY <1>6 DEF SecureInv, EndTypes
<1>. HIDE DEF u
<1>10. EndTypes'
  BY <1>6, <1>8 DEF SecureInv, EndTypes, u
<1>11. \A e \in Ends : Kept(e)
  <2>1. opened[x] # <<>> => 1 \in 1 .. Len(opened[x])
    BY <1>1
  <2>2. \A e \in Ends : counter[e] <= counter'[e]
    BY <1>6, SessionAssumption DEF SecureInv, EndTypes
  <2>. QED  BY <1>6, <1>8, <1>9, <2>1, <2>2 DEF Kept
<1>12. \A e \in Ends : counter'[e] \in Nat
  BY <1>10, SessionAssumption DEF EndTypes
<1>13. \A m \in net' : Genuine(m)'
  BY <1>6, <1>11, <1>12, GenuineKept DEF SecureInv
<1>14. ASSUME NEW e \in Ends PROVE EndInv(e)' /\ ShownInv(e)'
  BY <1>6, <1>11, EndKept, ShownKept DEF SecureInv
<1>15. StreamInv(x)'
  <2>1. key'[x] = key[x] /\ Peer(x)' = f /\ counter'[f] = counter[f]
    BY <1>5, <1>6 DEF Peer
  <2>2. \A i \in 1 .. Len(opened[x]) : opened[x][i] = <<f, i - 1>>
    BY <1>5 DEF SecureInv, StreamInv
  <2>3. ASSUME NEW i \in 1 .. Len(u) PROVE u[i] = <<f, i - 1>>
    <3>1. CASE i \in 1 .. Len(opened[x])
      BY <1>8, <2>2, <3>1
    <3>2. CASE i = Len(opened[x]) + 1
      BY <1>4, <1>8, <3>2
    <3>. QED  BY <1>8, <3>1, <3>2
  <2>4. Len(u) <= counter[f]
    BY <1>2, <1>4, <1>7, <1>8
  <2>. QED  BY <1>1, <1>9, <2>1, <2>3, <2>4 DEF StreamInv, Keys
<1>16. ASSUME NEW e \in Ends PROVE StreamInv(e)'
  BY <1>9, <1>11, <1>12, <1>15, StreamKept DEF SecureInv
<1>. QED  BY <1>10, <1>13, <1>14, <1>16 DEF SecureInv

\* verify_hello: what verifies was said by the peer, about this session.
LEMMA VerifyStep == ASSUME SecureInv, NEW x \in Ends, NEW msg \in net, VerifyHello(x, msg)
                    PROVE  SecureInv'
<1>1. /\ pc[x] = "keyed" /\ msg.m = "hello" /\ key[x] \in Keys /\ opened[x] # <<>>
      /\ typed[x] \in Inputs /\ UNCHANGED <<typed, key, net, counter, opened>>
  BY DEF VerifyHello, SecureInv, EndInv
<1>2. CASE pc' = [pc EXCEPT ![x] = "failed"] /\ UNCHANGED shown
  <2>1. /\ typed' \in [Ends -> Inputs \cup {None}] /\ typed'[x] \in Inputs
        /\ \A e \in Ends : e # x \/ pc[x] # "idle" => typed'[e] = typed[e]
    BY <1>1 DEF SecureInv, EndTypes
  <2>. QED  BY <1>1, <1>2, <2>1, Failing
<1>3. CASE /\ msg.statement = SessionMessage(PeerRole(x), key[x], RemoteFp(x), x)
           /\ shown' = [shown EXCEPT ![x] = msg.by] /\ UNCHANGED pc
  <2>1. PICK f \in Ends :
          /\ key[f] \in Keys /\ opened[f] # <<>>
          /\ msg = Hello(f, SessionMessage(RoleOf(f), key[f], f, RemoteFp(f)))
    BY <1>1 DEF SecureInv, Genuine, Start, Reply, Confirm, Seal, Hello
  <2>2. /\ msg.by = f /\ RoleOf(f) = PeerRole(x) /\ key[f] = key[x] /\ f = RemoteFp(x)
    BY <1>3, <2>1 DEF Hello, SessionMessage
  <2>3. Peer(x) = f
    <3>1. x \in Viewers <=> f \notin Viewers
      BY <2>2 DEF RoleOf, PeerRole
    <3>. QED  BY <1>1, <2>1, <2>2, <3>1, SameKey DEF SecureInv, EndInv
  <2>4. EndTypes' /\ shown'[x] = f /\ \A e \in Ends \ {x} : shown'[e] = shown[e]
    BY <1>1, <1>3, <2>2 DEF SecureInv, EndTypes
  <2>5. \A e \in Ends : Kept(e) /\ counter'[e] \in Nat
    BY <1>1, SessionAssumption DEF SecureInv, EndTypes, Kept
  <2>6. \A m \in net' : Genuine(m)'
    BY <1>1, <2>5, GenuineKept DEF SecureInv
  <2>7. ASSUME NEW e \in Ends PROVE EndInv(e)' /\ StreamInv(e)'
    BY <1>1, <1>3, <2>5, EndKept, StreamKept DEF SecureInv
  <2>8. ShownInv(x)'
    BY <1>1, <2>2, <2>3, <2>4 DEF ShownInv, Peer, RemoteFp, Keys
  <2>9. ASSUME NEW e \in Ends PROVE ShownInv(e)'
    BY <2>4, <2>5, <2>8, ShownKept DEF SecureInv
  <2>. QED  BY <2>4, <2>6, <2>7, <2>9 DEF SecureInv
<1>. QED  BY <1>2, <1>3 DEF VerifyHello

\* Nothing is in flight in the beginning.
LEMMA SecureInit == Init => SecureInv
<1>. SUFFICES ASSUME Init PROVE SecureInv
  OBVIOUS
<1>1. EndTypes
  BY SessionAssumption DEF Init, EndTypes
<1>2. \A e \in Ends : EndInv(e) /\ StreamInv(e) /\ ShownInv(e)
  BY NoneIsNoKey DEF Init, EndInv, StreamInv, ShownInv
<1>. QED  BY <1>1, <1>2 DEF Init, SecureInv

\* The invariant holds throughout.
LEMMA SecureInvariant == Spec => []SecureInv
<1>1. SecureInv /\ [Next]_vars => SecureInv'
  <2>. SUFFICES ASSUME SecureInv, [Next]_vars PROVE SecureInv'
    OBVIOUS
  <2>1. ASSUME NEW v \in Viewers, NEW in \in Inputs, StartPake(v, in) PROVE SecureInv'
    BY <2>1, StartStep
  <2>2. ASSUME NEW a \in Attempts, NEW in \in Inputs, NEW msg \in InFlight,
               Respond(a, in, msg)
        PROVE  SecureInv'
    BY <2>2, RespondStep
  <2>3. ASSUME NEW v \in Viewers, NEW msg \in InFlight, Finish(v, msg) PROVE SecureInv'
    BY <2>3, FinishStep
  <2>4. ASSUME NEW a \in Attempts, NEW msg \in InFlight, ConfirmPake(a, msg)
        PROVE  SecureInv'
    BY <2>4, ConfirmStep
  <2>5. ASSUME NEW e \in Ends, SealNext(e) \/ MakeHello(e) PROVE SecureInv'
    BY <2>5, SealStep, HelloStep
  <2>6. ASSUME NEW e \in Ends, NEW msg \in net, OpenNext(e, msg) \/ VerifyHello(e, msg)
        PROVE  SecureInv'
    BY <2>6, OpenStep, VerifyStep
  <2>7. CASE UNCHANGED vars
    <3>1. UNCHANGED <<pc, typed, key, net, counter, opened, shown>>
      BY <2>7 DEF vars
    <3>2. EndTypes' /\ \A e \in Ends : Kept(e) /\ counter'[e] \in Nat
      BY <3>1, SessionAssumption DEF SecureInv, EndTypes, Kept
    <3>3. \A msg \in net' : Genuine(msg)'
      BY <3>1, <3>2, GenuineKept DEF SecureInv
    <3>4. ASSUME NEW e \in Ends PROVE EndInv(e)' /\ StreamInv(e)' /\ ShownInv(e)'
      BY <3>1, <3>2, EndKept, StreamKept, ShownKept DEF SecureInv
    <3>. QED  BY <3>2, <3>3, <3>4 DEF SecureInv
  <2>. QED  BY <2>1, <2>2, <2>3, <2>4, <2>5, <2>6, <2>7 DEF Next
<1>. QED  BY <1>1, SecureInit, PTL DEF Spec

\* Types of the ends and of everything they sent, whatever damaged points and MACs come
\* in: what is in flight was made from a key of two points that parse (pake.rs:97, :122).
THEOREM SessionTypes == Spec => []TypeOK
<1>1. SecureInv => TypeOK
  <2>. SUFFICES ASSUME SecureInv, NEW msg \in net PROVE msg \in Message
    BY DEF SecureInv, TypeOK
  <2>1. CASE \E v \in Viewers : msg = Start(v)
    BY <2>1 DEF Start, Message
  <2>2. CASE \E a \in Attempts : key[a] \in Keys /\ msg = Reply(a, Mac("host", key[a]))
    BY <2>2 DEF Reply, Mac, Message
  <2>3. CASE \E v \in Viewers : key[v] \in Keys /\ msg = Confirm(Mac("viewer", key[v]))
    BY <2>3 DEF Confirm, Mac, Message
  <2>4. CASE \E e \in Ends, n \in Nat :
               key[e] \in Keys /\ n < counter[e] /\ msg = Seal(Sealed(e, key[e], n))
    <3>1. PICK e \in Ends, n \in Nat :
               key[e] \in Keys /\ n < counter[e] /\ msg = Seal(Sealed(e, key[e], n))
      BY <2>4
    <3>2. n \in 0 .. MaxSeals - 1
      BY <3>1, SessionAssumption DEF SecureInv, EndTypes
    <3>3. Sealed(e, key[e], n) \in [label : {"v2h", "h2v"}, key : Keys,
                                    counter : 0 .. MaxSeals - 1, by : Ends]
      BY <3>1, <3>2 DEF Sealed
    <3>. QED  BY <3>1, <3>3 DEF Seal, Message
  <2>5. CASE \E e \in Ends :
               /\ key[e] \in Keys /\ opened[e] # <<>>
               /\ msg = Hello(e, SessionMessage(RoleOf(e), key[e], e, RemoteFp(e)))
    <3>1. PICK e \in Ends :
               /\ key[e] \in Keys /\ opened[e] # <<>>
               /\ msg = Hello(e, SessionMessage(RoleOf(e), key[e], e, RemoteFp(e)))
      BY <2>5
    <3>2. opened[e] \in Seq(Ends \X (0 .. MaxSeals - 1)) /\ 1 \in 1 .. Len(opened[e])
      BY <3>1, EmptySeq DEF SecureInv, EndTypes
    <3>3. RemoteFp(e) \in Ends
      BY <3>2 DEF RemoteFp
    <3>4. SessionMessage(RoleOf(e), key[e], e, RemoteFp(e))
            \in [role : {"viewer", "host"}, binding : Keys, own : Ends, peer : Ends]
      BY <3>1, <3>3 DEF SessionMessage, RoleOf
    <3>. QED  BY <3>1, <3>4 DEF Hello, Message
  <2>. QED  BY <2>1, <2>2, <2>3, <2>4, <2>5 DEF SecureInv, Genuine
<1>. QED  BY <1>1, SecureInvariant, PTL

\* The PAKE: an end with confirmed keys shares them, and the code and host ID it
\* typed, with exactly the end its key names (pake.rs:96, :127).
THEOREM KeysAlwaysPairUp == Spec => []KeysPairUp
<1>1. SecureInv => KeysPairUp
  <2>. SUFFICES ASSUME SecureInv, NEW e \in Ends, pc[e] = "keyed"
                PROVE  /\ key[Peer(e)] = key[e] /\ typed[Peer(e)] = typed[e]
                       /\ e \in Attempts => pc[Peer(e)] # "begun"
    BY DEF KeysPairUp
  <2>1. key[e] \in Keys /\ key[Peer(e)] = key[e] /\ Owned(e, key[e])
    BY DEF SecureInv, EndInv
  <2>2. Peer(e) \in Ends /\ Owned(Peer(e), key[e])
    BY <2>1, PeerType DEF SecureInv, EndInv
  <2>3. typed[Peer(e)] = typed[e]
    BY <2>1, <2>2 DEF Owned
  <2>4. e \in Attempts => pc[Peer(e)] # "begun"
    <3>. SUFFICES ASSUME e \in Attempts PROVE pc[Peer(e)] # "begun"
      OBVIOUS
    <3>1. Peer(e) \in Viewers
      BY <2>1, SessionAssumption DEF Peer, Keys
    <3>. QED  BY <2>1, <2>2, <3>1, NoneIsNoKey DEF SecureInv, EndInv
  <2>. QED  BY <2>1, <2>3, <2>4
<1>. QED  BY <1>1, SecureInvariant, PTL

\* Sealed streams: what an end opened is its peer's stream from the start, in order,
\* each message once (sealed.rs:81).
THEOREM StreamsAlwaysExact == Spec => []StreamExact
<1>1. SecureInv => StreamExact
  <2>. SUFFICES ASSUME SecureInv, NEW e \in Ends
                PROVE  /\ opened[e] # <<>> => Len(opened[e]) <= counter[Peer(e)]
                       /\ \A i \in 1 .. Len(opened[e]) : opened[e][i] = <<Peer(e), i - 1>>
    BY DEF StreamExact
  <2>1. CASE opened[e] = <<>>
    BY <2>1
  <2>2. CASE opened[e] # <<>>
    BY <2>2 DEF SecureInv, StreamInv
  <2>. QED  BY <2>1, <2>2
<1>. QED  BY <1>1, SecureInvariant, PTL

\* The Hello: the identity shown to a user is that of the end that shares the keys
\* and the channel (identity.rs:139).
THEOREM IdentitiesAreThePeers == Spec => []IdentityIsPeers
<1>1. SecureInv => IdentityIsPeers
  BY DEF SecureInv, ShownInv, IdentityIsPeers
<1>. QED  BY <1>1, SecureInvariant, PTL
=============================================================================
