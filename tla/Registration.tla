---------------------------- MODULE Registration ----------------------------
(***************************************************************************)
(* Getting into the room of one ID: host-agent's register_host             *)
(* (register.rs) over its link, the Worker's fetch (signaling/src/index.ts)*)
(* and the room (HostRoom).  Each host connection is one run of            *)
(* register_host, for a new ID or for this one; a new ID may turn out to   *)
(* be this one or another.  The Worker awaits the rate limiter, which may  *)
(* say yes or no (RateLimit), and then the room, so requests overlap       *)
(* between the two.                                                        *)
(*                                                                         *)
(* What the server sends is read in order from `out`; what a host sends is *)
(* handled in order from `up`.  A step's 15 s may run out at any moment,   *)
(* and the room may restart.                                               *)
(***************************************************************************)
EXTENDS Naturals, Sequences, FiniteSets

CONSTANTS
    Hosts,          \* runs of register_host
    Viewers,        \* viewers' requests
    Keys,           \* device keys
    None,           \* no key, no socket
    ClaimAttempts   \* CLAIM_ATTEMPTS

ASSUME RegistrationAssumption ==
    /\ Hosts \cap Viewers = {} /\ None \notin Hosts \cup Viewers \cup Keys
    /\ ClaimAttempts \in Nat \ {0}

VARIABLES
    \* the room (HostRoom)
    owner, ready, key, authed, auths, verifying, closedByServer, out,
    pc,     \* where each request is, and each run of register_host
    mine,   \* the device key of a run
    tries,  \* IDs the Worker may still try for it; 0: it asked for this ID
    up      \* frames a host sent, not handled yet

room == <<owner, ready, key, authed, auths, verifying, closedByServer, out>>
vars == <<room, pc, mine, tries, up>>
calls == <<pc, mine, tries, up>>

Room == INSTANCE HostRoom WITH
    HostSockets <- Hosts, ViewerSockets <- Viewers, NoKey <- None, NoSocket <- None,
    Data <- {}, MaxAuths <- 1, MaxRelays <- 0, HostMisbehaves <- FALSE, SplitClose <- FALSE
-----------------------------------------------------------------------------
(* The Worker. *)
To(c, where) == pc' = [pc EXCEPT ![c] = where]

(* fetch for a host: the rate limit, then the key's shape. *)
HostRequest(c, k, claim, ok) ==
    /\ pc[c] = "start"
    /\ To(c, IF ok THEN "allowed" ELSE "failed")
    /\ mine' = [mine EXCEPT ![c] = k]
    /\ tries' = [tries EXCEPT ![c] = IF claim THEN ClaimAttempts ELSE 0]
    /\ UNCHANGED <<room, up>>

(* fetch for a host that names this ID: the room accepts it, or 404 or 403. *)
FetchExisting(c) ==
    /\ pc[c] = "allowed" /\ tries[c] = 0
    /\ \/ Room!AcceptHost(c, mine[c], FALSE) /\ To(c, "connected")
       \/ Room!HostResponse(mine[c], FALSE) # 101 /\ To(c, "failed") /\ UNCHANGED room
    /\ UNCHANGED <<mine, tries, up>>

(* fetch for a new ID: one turn of the loop over random IDs.  409 is tried  *)
(* again; an ID other than this one is taken or leads out of this room.     *)
Claim(c) ==
    /\ pc[c] = "allowed" /\ tries[c] > 0
    /\ \/ /\ Room!AcceptHost(c, mine[c], TRUE) /\ To(c, "connected")
          /\ UNCHANGED tries
       \/ /\ To(c, "elsewhere") /\ UNCHANGED <<room, tries>>
       \/ /\ tries' = [tries EXCEPT ![c] = @ - 1]
          /\ To(c, IF tries[c] = 1 THEN "failed" ELSE "allowed")
          /\ UNCHANGED room
    /\ UNCHANGED <<mine, up>>

(* fetch for a viewer: both its limits are asked, and one no is enough. *)
ViewerRequest(v, ipOk, idOk) ==
    /\ pc[v] = "start"
    /\ To(v, IF ipOk /\ idOk THEN "allowed" ELSE "failed")
    /\ UNCHANGED <<room, mine, tries, up>>

ViewerFetch(v) ==
    /\ pc[v] = "allowed"
    /\ \/ Room!AcceptViewer(v) /\ To(v, "connected")
       \/ Room!ViewerResponse # 101 /\ To(v, "failed") /\ UNCHANGED room
    /\ UNCHANGED <<mine, tries, up>>
-----------------------------------------------------------------------------
(* register_host, once WsLink::connect has returned. *)
HasMail(c) == out[c] # <<>> /\ pc[c] \in {"connected", "auth", "registered"}
Read(c) == out' = [out EXCEPT ![c] = Tail(@)]
SendsAndReads(c, f) == up' = [up EXCEPT ![c] = Append(@, f)] /\ Read(c)
Rest == <<owner, ready, key, authed, auths, verifying, closedByServer>>

TakeChallenge(c) ==
    /\ HasMail(c) /\ pc[c] = "connected" /\ Head(out[c]) = Room!Challenge
    /\ SendsAndReads(c, "auth") /\ To(c, "auth")
    /\ UNCHANGED <<Rest, mine, tries>>

TakeRegistered(c) ==
    /\ HasMail(c) /\ pc[c] = "auth" /\ Head(out[c]) = Room!Registered
    /\ Read(c) /\ To(c, "registered")
    /\ UNCHANGED <<Rest, mine, tries, up>>

(* Once registered, main reads on (session.rs). *)
ReadOn(c) ==
    /\ HasMail(c) /\ pc[c] = "registered" /\ Head(out[c]).t # "close"
    /\ Read(c)
    /\ UNCHANGED <<Rest, calls>>

(* The link is dropped, by a run that fails or by a host that was registered. *)
Drop(c) == /\ To(c, IF pc[c] = "registered" THEN "left" ELSE "failed")
           /\ up' = [up EXCEPT ![c] = Append(@, "close")]
           /\ UNCHANGED <<room, mine, tries>>

(* Mutant of GiveUp: the link is kept. *)
GiveUpKeepsLink(c) ==
    /\ pc[c] \in {"connected", "auth"} /\ To(c, "failed")
    /\ UNCHANGED <<room, mine, tries, up>>

(* No answer in time, or not the one expected. *)
GiveUp(c) == pc[c] \in {"connected", "auth"} /\ Drop(c)

Ended(c) == \/ out[c] # <<>> /\ Head(out[c]).t = "close"
            \/ out[c] = <<>> /\ ready[c] = "closed"

(* The link ends under it: the server's close is next, or the room is gone. *)
LinkEnds(c) == pc[c] \in {"connected", "auth", "registered"} /\ Ended(c) /\ Drop(c)

(* A registered host's program ends. *)
Quit(c) == pc[c] = "registered" /\ Drop(c)
-----------------------------------------------------------------------------
(* The room's side. *)
Handled(c) == up' = [up EXCEPT ![c] = Tail(@)]

ServeAuth(c) == /\ up[c] # <<>> /\ Head(up[c]) = "auth" /\ Handled(c)
                /\ \/ Room!AuthFrame(c)
                   \/ ready[c] = "closed" /\ UNCHANGED room
                /\ UNCHANGED <<pc, mine, tries>>
ServeClose(c) == /\ up[c] # <<>> /\ Head(up[c]) = "close" /\ Handled(c)
                 /\ \/ Room!HostGone(c)
                    \/ ready[c] = "closed" /\ UNCHANGED room
                 /\ UNCHANGED <<pc, mine, tries>>

(* register_host signs what it was asked to, so only the owner can differ. *)
Verified(c) == /\ \/ Room!ConfirmAuth(c)
                  \/ owner \notin {None, key[c]} /\ Room!RejectAuth(c)
               /\ UNCHANGED calls

ViewerLeaves(v) == Room!ViewerGone(v) /\ UNCHANGED calls
Restart == Room!Restart /\ UNCHANGED calls
-----------------------------------------------------------------------------
Init == /\ owner \in Keys \cup {None} /\ ready = [s \in Hosts \cup Viewers |-> "none"]
        /\ key = [h \in Hosts |-> None] /\ authed = [h \in Hosts |-> FALSE]
        /\ auths = [h \in Hosts |-> 0] /\ verifying = [h \in Hosts |-> 0]
        /\ closedByServer = [v \in Viewers |-> FALSE]
        /\ out = [s \in Hosts \cup Viewers |-> <<>>]
        /\ pc = [c \in Hosts \cup Viewers |-> "start"]
        /\ mine = [h \in Hosts |-> None] /\ tries = [h \in Hosts |-> 0]
        /\ up = [h \in Hosts |-> <<>>]

Client(c) == TakeChallenge(c) \/ TakeRegistered(c) \/ ReadOn(c) \/ LinkEnds(c)
Server(c) == ServeAuth(c) \/ ServeClose(c)
Next == \/ \E c \in Hosts, k \in Keys, claim, ok \in BOOLEAN : HostRequest(c, k, claim, ok)
        \/ \E c \in Hosts : FetchExisting(c) \/ Claim(c)
        \/ \E v \in Viewers, ipOk, idOk \in BOOLEAN : ViewerRequest(v, ipOk, idOk)
        \/ \E v \in Viewers : ViewerFetch(v) \/ ViewerLeaves(v)
        \/ \E c \in Hosts : Client(c) \/ GiveUp(c) \/ Quit(c) \/ Server(c) \/ Verified(c)
        \/ Restart

(* A step's timeout does run out, frames reach the room, and a signature    *)
(* check ends.                                                              *)
Fairness == \A c \in Hosts : /\ WF_vars(Client(c)) /\ WF_vars(GiveUp(c))
                             /\ WF_vars(Server(c)) /\ WF_vars(Verified(c))
Spec == Init /\ [][Next]_vars /\ Fairness
-----------------------------------------------------------------------------
(* A run of register_host that has returned Ok and whose connection is      *)
(* still open is the one host of the room, and the ID is its key's: no      *)
(* overlapping claim, takeover or restart leaves it waiting in vain.        *)
RegisteredWaits == \A c \in Hosts : pc[c] = "registered" /\ ready[c] = "open" =>
    Room!AuthedHosts = {c} /\ owner = mine[c]

(* One ID, one device: runs that returned Ok for this ID, at any time, used *)
(* the same key, though several claims of a free ID may be under way at     *)
(* once (host-room.ts:111).                                                 *)
OneDevicePerId == \A c, d \in Hosts :
    {pc[c], pc[d]} \subseteq {"registered", "left"} => mine[c] = mine[d]

(* A run that failed or ended does not stay behind as the waiting host,     *)
(* even if its auth frame is handled only after it has given up.            *)
NoGhostHost == \A c \in Hosts : pc[c] \in {"failed", "left"} ~> [](c \notin Room!AuthedHosts)
=============================================================================
