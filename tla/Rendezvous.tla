----------------------------- MODULE Rendezvous -----------------------------
(***************************************************************************)
(* What a signaling room promises, without sockets, attachments or         *)
(* signature checks in flight: an ID belongs to the first key that claims  *)
(* it; one host connection waits; one viewer at a time is in session with  *)
(* the waiting host; and a session never outlives its host.                *)
(***************************************************************************)
CONSTANTS Hosts, Viewers, Keys, None

VARIABLES
    owner,   \* the key the ID is bound to
    host,    \* the waiting host connection
    viewer   \* the viewer in session with it

vars == <<owner, host, viewer>>

Init == owner = None /\ host = None /\ viewer = None

\* A connection proves it holds k and becomes the waiting host.  Whoever was in
\* session with its predecessor is out.
HostWaits(h, k) ==
    /\ owner \in {None, k}
    /\ owner' = k
    /\ host' = h
    /\ viewer' = IF h = host THEN viewer ELSE None

\* The owner's connection proves its key but is gone by then: nobody waits.
HostVanishes(k) ==
    /\ owner \in {None, k}
    /\ owner' = k
    /\ host' = None
    /\ viewer' = None

HostLeaves ==
    /\ host # None
    /\ host' = None
    /\ viewer' = None
    /\ UNCHANGED owner

Join(v) ==
    /\ host # None /\ viewer = None
    /\ viewer' = v
    /\ UNCHANGED <<owner, host>>

ViewerLeaves ==
    /\ viewer # None
    /\ viewer' = None
    /\ UNCHANGED <<owner, host>>

Next ==
    \/ \E h \in Hosts, k \in Keys : HostWaits(h, k)
    \/ \E k \in Keys : HostVanishes(k)
    \/ HostLeaves
    \/ \E v \in Viewers : Join(v)
    \/ ViewerLeaves

Spec == Init /\ [][Next]_vars
=============================================================================
