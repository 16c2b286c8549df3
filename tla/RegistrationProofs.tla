------------------------- MODULE RegistrationProofs -------------------------
(***************************************************************************)
(* What a successful register_host means, for any number of runs, viewers  *)
(* and keys: the runs that returned Ok used the owner's key, and one whose *)
(* connection is still open is the room's one waiting host.                *)
(***************************************************************************)
EXTENDS Registration, TLAPS

Sockets == Hosts \cup Viewers

\* The message is among those of the queue.
In(s, m) == \E i \in DOMAIN s : s[i] = m
\* `registered` is on its way to run c of register_host.
Told(c) == In(out[c], Room!Registered)

TypeInv ==
    /\ owner \in Keys \cup {None}
    /\ ready \in [Sockets -> {"none", "open", "closing", "closed"}]
    /\ key \in [Hosts -> Keys \cup {None}]
    /\ authed \in [Hosts -> BOOLEAN]
    /\ auths \in [Hosts -> Nat]
    /\ verifying \in [Hosts -> Nat]
    /\ closedByServer \in [Viewers -> BOOLEAN]
    /\ out \in [Sockets -> Seq(Room!Message)]
    /\ pc \in [Sockets -> {"start", "allowed", "elsewhere", "connected", "auth", "registered",
                           "failed", "left"}]
    /\ mine \in [Hosts -> Keys \cup {None}]
    /\ tries \in [Hosts -> Nat]
    /\ up \in [Hosts -> Seq({"auth", "close"})]

\* A run's connection is its own until the room answers it: its key is the run's, and
\* nothing is verified, authenticated or said on a connection that is not accepted.
\* `registered` is said, read and remembered only under the owner's key and, while the
\* connection is open, only by the waiting host.
RunInv(c) ==
    /\ ready[c] = "none" => /\ ~authed[c] /\ verifying[c] = 0 /\ ~Told(c)
                            /\ pc[c] \in {"start", "allowed", "failed", "elsewhere"}
    /\ pc[c] = "start" => ready[c] = "none"
    /\ pc[c] # "start" => mine[c] \in Keys
    /\ ready[c] # "none" => key[c] = mine[c]
    /\ Told(c) \/ pc[c] \in {"registered", "left"} => owner = mine[c] /\ mine[c] \in Keys
    /\ (Told(c) \/ pc[c] = "registered") /\ ready[c] = "open" => authed[c]
RegInv == (\A c \in Hosts : RunInv(c)) /\ \A g, h \in Room!AuthedHosts : g = h
-----------------------------------------------------------------------------
(* The room's helpers. *)

\* A message just sent is the only new one in a queue.
LEMMA InAppend ==
    ASSUME NEW s \in Seq(Room!Message), NEW m \in Room!Message, NEW n
    PROVE  Append(s, m) \in Seq(Room!Message) /\ (In(Append(s, m), n) => In(s, n) \/ n = m)
BY DEF In

\* Reading takes the first message and leaves messages that were there.
LEMMA InTail ==
    ASSUME NEW s \in Seq(Room!Message), s # <<>>
    PROVE  /\ Tail(s) \in Seq(Room!Message) /\ In(s, Head(s))
           /\ \A n : In(Tail(s), n) => In(s, n)
<1>1. Len(s) \in Nat \ {0} /\ DOMAIN s = 1..Len(s) /\ Head(s) = s[1]
  OBVIOUS
<1>2. /\ Tail(s) \in Seq(Room!Message) /\ DOMAIN Tail(s) = 1..(Len(s) - 1)
      /\ \A i \in 1..(Len(s) - 1) : Tail(s)[i] = s[i + 1]
  BY <1>1
<1>3. \A i \in 1..(Len(s) - 1) : i + 1 \in DOMAIN s
  BY <1>1
<1>. QED  BY <1>1, <1>2, <1>3 DEF In

\* Everything the room sends is a Message, and `registered` is unlike the others.
LEMMA Messages ==
    /\ {Room!Challenge, Room!Registered, Room!Joined, Room!HostLeft} \subseteq Room!Message
    /\ \A v \in Viewers : Room!ViewerJoined(v) \in Room!Message /\ Room!ViewerLeft(v) \in Room!Message
    /\ \A c \in {Room!HostLeftCode, Room!AuthFailed, Room!Replaced} : Room!CloseFrame(c) \in Room!Message
    /\ Room!Registered \notin {Room!Challenge, Room!Joined, Room!HostLeft}
    /\ \A v \in Viewers : Room!Registered # Room!ViewerJoined(v) /\ Room!Registered # Room!ViewerLeft(v)
    /\ \A c : Room!Registered # Room!CloseFrame(c)
<1>1. /\ Room!Challenge.t = "challenge" /\ Room!Registered.t = "registered" /\ Room!Joined.t = "joined"
      /\ Room!HostLeft.t = "host_left" /\ \A c : Room!CloseFrame(c).t = "close"
      /\ \A v : Room!ViewerJoined(v).t = "viewer_joined" /\ Room!ViewerLeft(v).t = "viewer_left"
  BY DEF Room!Challenge, Room!Registered, Room!Joined, Room!HostLeft, Room!CloseFrame,
         Room!ViewerJoined, Room!ViewerLeft
<1>2. {Room!Challenge, Room!Registered, Room!Joined, Room!HostLeft} \subseteq Room!Message
  BY DEF Room!Message, Room!Challenge, Room!Registered, Room!Joined, Room!HostLeft
<1>3. \A v \in Viewers : Room!ViewerJoined(v) \in Room!Message /\ Room!ViewerLeft(v) \in Room!Message
  BY DEF Room!Message, Room!ViewerJoined, Room!ViewerLeft
<1>4. \A c \in {Room!HostLeftCode, Room!AuthFailed, Room!Replaced} : Room!CloseFrame(c) \in Room!Message
  BY DEF Room!Message, Room!CloseFrame
<1>. QED  BY <1>1, <1>2, <1>3, <1>4

\* A send keeps the queues well typed; only its own message is new, on its own socket.
LEMMA SentEffect ==
    ASSUME NEW o \in [Sockets -> Seq(Room!Message)], NEW ws, NEW m \in Room!Message
    PROVE  /\ Room!Sent(o, ws, m) \in [Sockets -> Seq(Room!Message)]
           /\ \A x \in Sockets : \A n : In(Room!Sent(o, ws, m)[x], n) => In(o[x], n) \/ (n = m /\ x = ws)
<1>1. CASE ws \in Sockets /\ ready[ws] = "open"
  <2>1. Room!Sent(o, ws, m) = [o EXCEPT ![ws] = Append(o[ws], m)]
    BY <1>1 DEF Room!Sent, Room!Sockets, Sockets
  <2>2. \A n : Append(o[ws], m) \in Seq(Room!Message) /\ (In(Append(o[ws], m), n) => In(o[ws], n) \/ n = m)
    BY <1>1, InAppend
  <2>. QED  BY <1>1, <2>1, <2>2
<1>2. CASE ~(ws \in Sockets /\ ready[ws] = "open")
  BY <1>2 DEF Room!Sent, Room!Sockets, Sockets
<1>. QED  BY <1>1, <1>2

\* hostGone keeps the queues well typed and registers nobody.
LEMMA HostGoneEffect ==
    ASSUME NEW o \in [Sockets -> Seq(Room!Message)]
    PROVE  /\ Room!HostGoneOut(o) \in [Sockets -> Seq(Room!Message)]
           /\ \A x \in Sockets : In(Room!HostGoneOut(o)[x], Room!Registered) => In(o[x], Room!Registered)
<1>. DEFINE p == Room!Sent(o, Room!OpenViewer, Room!HostLeft)
<1>1. /\ p \in [Sockets -> Seq(Room!Message)]
      /\ \A x \in Sockets : In(p[x], Room!Registered) => In(o[x], Room!Registered)
  BY SentEffect, Messages
<1>2. Room!HostGoneOut(o) = Room!Sent(p, Room!OpenViewer, Room!CloseFrame(Room!HostLeftCode))
  BY DEF Room!HostGoneOut
<1>3. /\ Room!CloseFrame(Room!HostLeftCode) \in Room!Message
      /\ Room!Registered # Room!CloseFrame(Room!HostLeftCode)
  BY Messages
<1>. HIDE DEF p
<1>. DEFINE m == Room!CloseFrame(Room!HostLeftCode)
            q == Room!Sent(p, Room!OpenViewer, m)
<1>4. m \in Room!Message /\ Room!Registered # m
  BY <1>3
<1>. HIDE DEF m
<1>5. /\ q \in [Sockets -> Seq(Room!Message)]
      /\ \A x \in Sockets : \A n : In(q[x], n) => In(p[x], n) \/ n = m
  BY <1>1, <1>4, SentEffect
<1>. QED  BY <1>1, <1>2, <1>4, <1>5 DEF m

\* What close() does to the readyStates.
LEMMA ClosingEffect ==
    ASSUME NEW r \in [Sockets -> {"none", "open", "closing", "closed"}], NEW ws
    PROVE  /\ Room!Closing(r, ws) \in [Sockets -> {"none", "open", "closing", "closed"}]
           /\ \A x \in Sockets : /\ Room!Closing(r, ws)[x] = "none" <=> r[x] = "none"
                                 /\ Room!Closing(r, ws)[x] = "open" => r[x] = "open" /\ x # ws
BY DEF Room!Closing, Room!Sockets, Sockets

\* authedHost() answers with an open authenticated connection or with nothing.
LEMMA AuthedHostIs ==
    /\ Room!AuthedHost # None => Room!AuthedHost \in Room!AuthedHosts /\ Room!AuthedHost \in Hosts
    /\ Room!AuthedHosts # {} => Room!AuthedHost \in Room!AuthedHosts /\ Room!AuthedHost # None
BY RegistrationAssumption DEF Room!AuthedHost, Room!AuthedHosts
-----------------------------------------------------------------------------
(***************************************************************************)
(* Types.                                                                  *)
(***************************************************************************)
\* A step keeps the variables of the composition well typed.
LEMMA TypeStep ==
    ASSUME TypeInv, [Next]_vars
    PROVE  TypeInv'
<1>. USE DEF Sockets, calls, room, Rest
<1>0. /\ out \in [Sockets -> Seq(Room!Message)] /\ Hosts \cap Viewers = {}
      /\ ready \in [Sockets -> {"none", "open", "closing", "closed"}]
  BY RegistrationAssumption DEF TypeInv
<1>. DEFINE RoomType == /\ owner \in Keys \cup {None}
                        /\ ready \in [Sockets -> {"none", "open", "closing", "closed"}]
                        /\ key \in [Hosts -> Keys \cup {None}]
                        /\ authed \in [Hosts -> BOOLEAN]
                        /\ auths \in [Hosts -> Nat]
                        /\ verifying \in [Hosts -> Nat]
                        /\ closedByServer \in [Viewers -> BOOLEAN]
                        /\ out \in [Sockets -> Seq(Room!Message)]
            CallType == /\ pc \in [Sockets -> {"start", "allowed", "elsewhere", "connected", "auth",
                                               "registered", "failed", "left"}]
                        /\ mine \in [Hosts -> Keys \cup {None}]
                        /\ tries \in [Hosts -> Nat]
                        /\ up \in [Hosts -> Seq({"auth", "close"})]
<1>1. RoomType /\ CallType
  BY DEF TypeInv
<1>. SUFFICES RoomType' /\ CallType'
  BY DEF TypeInv
<1>2. UNCHANGED room => RoomType'
  BY <1>1
<1>3. ASSUME NEW c \in Sockets, NEW where \in {"allowed", "elsewhere", "connected", "auth", "registered",
                                               "failed", "left"}, To(c, where)
      PROVE  pc' \in [Sockets -> {"start", "allowed", "elsewhere", "connected", "auth",
                                  "registered", "failed", "left"}]
  BY <1>1, <1>3 DEF To
<1>4. ASSUME NEW c \in Hosts, NEW claim, Room!AcceptHost(c, mine[c], claim) PROVE RoomType'
  <2>1. Append(out[c], Room!Challenge) \in Seq(Room!Message)
    BY <1>0, InAppend, Messages
  <2>. QED  BY <1>1, <1>4, <2>1 DEF Room!AcceptHost
<1>5. ASSUME NEW c \in Hosts, Room!HostGone(c) PROVE RoomType'
  <2>1. Room!Closing(ready, Room!OpenViewer) \in [Sockets -> {"none", "open", "closing", "closed"}]
    BY <1>0, ClosingEffect
  <2>2. Room!HostGoneOut(out) \in [Sockets -> Seq(Room!Message)]
    BY <1>0, HostGoneEffect
  <2>3. Room!Marked(closedByServer, Room!OpenViewer) \in [Viewers -> BOOLEAN]
    BY <1>1 DEF Room!Marked
  <2>4. ready' \in [Sockets -> {"none", "open", "closing", "closed"}]
    BY <1>0, <1>5, <2>1 DEF Room!HostGone
  <2>5. /\ closedByServer' \in [Viewers -> BOOLEAN] /\ out' \in [Sockets -> Seq(Room!Message)]
        /\ authed' \in [Hosts -> BOOLEAN]
    BY <1>1, <1>5, <2>2, <2>3 DEF Room!HostGone
  <2>. QED  BY <1>1, <1>5, <2>4, <2>5 DEF Room!HostGone
<1>6. ASSUME NEW c \in Hosts, Room!ConfirmAuth(c) PROVE RoomType'
  <2>. DEFINE o == Room!HostGoneOut(out)
              p == Room!Sent(o, Room!AuthedHost, Room!CloseFrame(Room!Replaced))
  <2>1. o \in [Sockets -> Seq(Room!Message)]
    BY <1>0, HostGoneEffect
  <2>. HIDE DEF o
  <2>2. Room!CloseFrame(Room!Replaced) \in Room!Message /\ Room!Registered \in Room!Message
    BY Messages
  <2>3. p \in [Sockets -> Seq(Room!Message)]
    BY <2>1, <2>2, SentEffect
  <2>. HIDE DEF p
  <2>4. /\ Room!Sent(p, c, Room!Registered) \in [Sockets -> Seq(Room!Message)]
        /\ Room!Sent(out, c, Room!Registered) \in [Sockets -> Seq(Room!Message)]
    BY <1>0, <2>2, <2>3, SentEffect
  <2>5. out' \in [Sockets -> Seq(Room!Message)]
    BY <1>6, <2>4 DEF Room!ConfirmAuth, o, p
  <2>6. Room!Closing(Room!Closing(ready, Room!OpenViewer), Room!AuthedHost)
          \in [Sockets -> {"none", "open", "closing", "closed"}]
    BY <1>0, ClosingEffect
  <2>7. Room!Marked(closedByServer, Room!OpenViewer) \in [Viewers -> BOOLEAN]
    BY <1>1 DEF Room!Marked
  <2>8. /\ ready' \in [Sockets -> {"none", "open", "closing", "closed"}]
        /\ closedByServer' \in [Viewers -> BOOLEAN]
    BY <1>1, <1>6, <2>6, <2>7 DEF Room!ConfirmAuth
  <2>9. /\ owner' \in Keys \cup {None} /\ authed' \in [Hosts -> BOOLEAN]
        /\ key' = key /\ auths' = auths
    BY <1>1, <1>6 DEF Room!ConfirmAuth
  <2>10. verifying' \in [Hosts -> Nat]
    BY <1>1, <1>6 DEF Room!ConfirmAuth
  <2>. QED  BY <1>1, <2>5, <2>8, <2>9, <2>10
<1>7. ASSUME NEW c \in Hosts, Room!RejectAuth(c) PROVE RoomType'
  <2>1. verifying' \in [Hosts -> Nat]
    BY <1>1, <1>7 DEF Room!RejectAuth
  <2>2. Room!Closing(ready, c) \in [Sockets -> {"none", "open", "closing", "closed"}]
    BY <1>0, ClosingEffect
  <2>3. Room!Marked(closedByServer, c) \in [Viewers -> BOOLEAN]
    BY <1>1 DEF Room!Marked
  <2>4. Room!Sent(out, c, Room!CloseFrame(Room!AuthFailed)) \in [Sockets -> Seq(Room!Message)]
    BY <1>0, SentEffect, Messages
  <2>. QED  BY <1>1, <1>7, <2>1, <2>2, <2>3, <2>4 DEF Room!RejectAuth, Room!CloseFromServer
<1>8. ASSUME NEW v \in Viewers, Room!AcceptViewer(v) PROVE RoomType'
  <2>1. Room!AuthedHost \in Hosts /\ Room!AuthedHost # v
    BY <1>0, <1>8, AuthedHostIs DEF Room!AcceptViewer, Room!ViewerResponse
  <2>2. /\ Append(out[v], Room!Joined) \in Seq(Room!Message)
        /\ Append(out[Room!AuthedHost], Room!ViewerJoined(v)) \in Seq(Room!Message)
    BY <1>0, <2>1, Messages
  <2>3. out' \in [Sockets -> Seq(Room!Message)]
    BY <1>0, <1>8, <2>1, <2>2 DEF Room!AcceptViewer
  <2>. QED  BY <1>1, <1>8, <2>3 DEF Room!AcceptViewer
<1>9. ASSUME NEW v \in Viewers, Room!ViewerGone(v) PROVE RoomType'
  <2>1. Room!Sent(out, Room!AuthedHost, Room!ViewerLeft(v)) \in [Sockets -> Seq(Room!Message)]
    BY <1>0, SentEffect, Messages
  <2>2. out' \in [Sockets -> Seq(Room!Message)]
    BY <1>0, <1>9, <2>1 DEF Room!ViewerGone
  <2>. QED  BY <1>1, <1>9, <2>2 DEF Room!ViewerGone
<1>10. ASSUME NEW c \in Hosts, NEW f \in {"auth", "close"} PROVE
         /\ up' = [up EXCEPT ![c] = Append(@, f)] => up' \in [Hosts -> Seq({"auth", "close"})]
         /\ up[c] # <<>> /\ Handled(c) => up' \in [Hosts -> Seq({"auth", "close"})]
  <2>1. up[c] \in Seq({"auth", "close"})
    BY <1>1
  <2>2. Append(up[c], f) \in Seq({"auth", "close"})
    BY <2>1
  <2>3. up[c] # <<>> => Tail(up[c]) \in Seq({"auth", "close"})
    BY <2>1
  <2>. QED  BY <1>1, <2>2, <2>3 DEF Handled
<1>11. ASSUME NEW c \in Hosts, out[c] # <<>>, Read(c), UNCHANGED Rest PROVE RoomType'
  <2>1. Tail(out[c]) \in Seq(Room!Message)
    BY <1>0, <1>11, InTail
  <2>. QED  BY <1>1, <1>11, <2>1 DEF Read
<1>12. ASSUME NEW c \in Hosts, NEW k \in Keys, NEW claim \in BOOLEAN, NEW ok \in BOOLEAN,
              HostRequest(c, k, claim, ok)
       PROVE  RoomType' /\ CallType'
  <2>1. pc' = [pc EXCEPT ![c] = IF ok THEN "allowed" ELSE "failed"]
    BY <1>12 DEF HostRequest, To
  <2>. QED  BY <1>1, <1>2, <1>12, <2>1, RegistrationAssumption DEF HostRequest
<1>13. ASSUME NEW c \in Hosts, FetchExisting(c) PROVE RoomType' /\ CallType'
  BY <1>1, <1>2, <1>3, <1>4, <1>13 DEF FetchExisting
<1>14. ASSUME NEW c \in Hosts, Claim(c) PROVE RoomType' /\ CallType'
  <2>1. tries' \in [Hosts -> Nat]
    <3>1. tries[c] - 1 \in Nat
      BY <1>1, <1>14 DEF Claim
    <3>2. tries' = tries \/ tries' = [tries EXCEPT ![c] = tries[c] - 1]
      BY <1>14 DEF Claim
    <3>. QED  BY <1>1, <3>1, <3>2
  <2>2. RoomType'
    BY <1>2, <1>4, <1>14 DEF Claim
  <2>3. pc' \in [Sockets -> {"start", "allowed", "elsewhere", "connected", "auth",
                             "registered", "failed", "left"}]
    BY <1>3, <1>14 DEF Claim
  <2>. QED  BY <1>1, <1>14, <2>1, <2>2, <2>3 DEF Claim
<1>15. ASSUME NEW v \in Viewers, NEW ipOk, NEW idOk, ViewerRequest(v, ipOk, idOk) PROVE RoomType' /\ CallType'
  BY <1>1, <1>2, <1>3, <1>15 DEF ViewerRequest
<1>16. ASSUME NEW v \in Viewers, ViewerFetch(v) PROVE RoomType' /\ CallType'
  BY <1>1, <1>2, <1>3, <1>8, <1>16 DEF ViewerFetch
<1>17. ASSUME NEW v \in Viewers, ViewerLeaves(v) PROVE RoomType' /\ CallType'
  BY <1>1, <1>9, <1>17 DEF ViewerLeaves
<1>18. ASSUME NEW c \in Hosts, TakeChallenge(c) \/ TakeRegistered(c) \/ ReadOn(c) PROVE RoomType' /\ CallType'
  BY <1>1, <1>3, <1>10, <1>11, <1>18
  DEF TakeChallenge, TakeRegistered, ReadOn, HasMail, SendsAndReads
<1>19. ASSUME NEW c \in Hosts, Drop(c) PROVE RoomType' /\ CallType'
  BY <1>1, <1>2, <1>3, <1>10, <1>19 DEF Drop
<1>20. ASSUME NEW c \in Hosts, LinkEnds(c) \/ GiveUp(c) \/ Quit(c) PROVE RoomType' /\ CallType'
  BY <1>19, <1>20 DEF LinkEnds, GiveUp, Quit
<1>21. ASSUME NEW c \in Hosts, ServeAuth(c) PROVE RoomType' /\ CallType'
  <2>1. Room!AuthFrame(c) => RoomType'
    BY <1>1 DEF Room!AuthFrame
  <2>. QED  BY <1>1, <1>2, <1>10, <1>21, <2>1 DEF ServeAuth
<1>22. ASSUME NEW c \in Hosts, ServeClose(c) PROVE RoomType' /\ CallType'
  BY <1>1, <1>2, <1>5, <1>10, <1>22 DEF ServeClose
<1>23. ASSUME NEW c \in Hosts, Verified(c) PROVE RoomType' /\ CallType'
  BY <1>1, <1>6, <1>7, <1>23 DEF Verified
<1>24. CASE Restart
  <2>1. RoomType'
    BY <1>1, <1>24 DEF Restart, Room!Restart, Room!Sockets
  <2>. QED  BY <1>1, <1>24, <2>1 DEF Restart
<1>25. CASE UNCHANGED vars
  BY <1>1, <1>2, <1>25 DEF vars
<1>. HIDE DEF RoomType, CallType
<1>. QED
  BY <1>12, <1>13, <1>14, <1>15, <1>16, <1>17, <1>18, <1>20, <1>21, <1>22, <1>23, <1>24, <1>25
  DEF Next, Client, Server

\* Every variable of the composition of register_host, the Worker and the room keeps its type.
THEOREM RegistrationTypes == Spec => []TypeInv
<1>1. Init => TypeInv
  BY DEF Init, TypeInv, Sockets
<1>. QED  BY <1>1, TypeStep, PTL DEF Spec
-----------------------------------------------------------------------------
(***************************************************************************)
(* What a successful run means.                                            *)
(***************************************************************************)

\* Most steps open no connection, authenticate none, and register nobody who was not
\* told so; they may end sessions and move a run forward or out.
LEMMA QuietStep ==
    ASSUME RegInv, owner' = owner, key' = key, mine' = mine,
           \A c \in Hosts :
             /\ ready'[c] = "none" <=> ready[c] = "none"
             /\ ready'[c] = "open" => ready[c] = "open" /\ (authed[c] => authed'[c])
             /\ authed'[c] => authed[c]
             /\ ready[c] = "none" /\ verifying[c] = 0 => verifying'[c] = 0
             /\ Told(c)' => Told(c)
             /\ \/ pc'[c] = pc[c]
                \/ pc[c] = "allowed" /\ pc'[c] \in {"failed", "elsewhere"}
                \/ pc[c] \in {"connected", "auth", "registered"} /\ pc'[c] \in {"auth", "failed"}
                \/ pc[c] = "registered" /\ pc'[c] = "left"
                \/ pc[c] # "start" /\ pc'[c] = "registered" /\ Told(c)
    PROVE  RegInv'
<1>1. ASSUME NEW c \in Hosts PROVE RunInv(c)'
  <2>1. RunInv(c)
    BY DEF RegInv
  <2>. QED  BY <2>1 DEF RunInv
<1>2. Room!AuthedHosts' \subseteq Room!AuthedHosts
  BY DEF Room!AuthedHosts
<1>. QED  BY <1>1, <1>2 DEF RegInv

\* The room lets a run in.
LEMMA AcceptStep ==
    ASSUME TypeInv, RegInv, NEW c \in Hosts, NEW claim, pc[c] = "allowed",
           Room!AcceptHost(c, mine[c], claim), To(c, "connected"), UNCHANGED mine
    PROVE  RegInv'
<1>1. \A d \in Hosts : RunInv(d)
  BY DEF RegInv
<1>2. /\ ready[c] = "none" /\ ready' = [ready EXCEPT ![c] = "open"]
      /\ key' = [key EXCEPT ![c] = mine[c]] /\ pc' = [pc EXCEPT ![c] = "connected"]
      /\ out' = [out EXCEPT ![c] = Append(@, Room!Challenge)]
      /\ UNCHANGED <<owner, authed, verifying, mine>>
  BY DEF Room!AcceptHost, To
<1>3. \A d \in Hosts : Told(d)' => Told(d)
  BY <1>2, InAppend, Messages DEF Told, TypeInv, Sockets
<1>4. ASSUME NEW d \in Hosts PROVE RunInv(d)'
  <2>1. CASE d = c
    BY <1>1, <1>2, <1>3, <2>1 DEF RunInv, TypeInv, Sockets
  <2>2. CASE d # c
    <3>1. ready'[d] = ready[d] /\ key'[d] = key[d] /\ pc'[d] = pc[d]
      BY <1>2, <2>2 DEF TypeInv, Sockets
    <3>. QED  BY <1>1, <1>2, <1>3, <3>1 DEF RunInv
  <2>. QED  BY <2>1, <2>2
<1>5. Room!AuthedHosts' \subseteq Room!AuthedHosts
  BY <1>1, <1>2 DEF RunInv, Room!AuthedHosts, TypeInv, Sockets
<1>. QED  BY <1>4, <1>5 DEF RegInv

\* A signature check ends well: the ID is bound or was the run's, and the run's
\* connection replaces the waiting one.
LEMMA ConfirmStep ==
    ASSUME TypeInv, RegInv, NEW c \in Hosts, Room!ConfirmAuth(c), UNCHANGED <<pc, mine>>
    PROVE  RegInv'
<1>. USE DEF Sockets
<1>0. /\ out \in [Sockets -> Seq(Room!Message)]
      /\ ready \in [Sockets -> {"none", "open", "closing", "closed"}]
  BY DEF TypeInv
<1>1. \A d \in Hosts : RunInv(d)
  BY DEF RegInv
<1>2. ready[c] # "none" /\ key[c] = mine[c] /\ mine[c] \in Keys
  BY <1>1 DEF Room!ConfirmAuth, RunInv
<1>3. owner' = key[c] /\ owner \in {None, key[c]} /\ key' = key
  BY DEF Room!ConfirmAuth
<1>4. /\ \A d \in Hosts : ready'[d] = "none" <=> ready[d] = "none"
      /\ \A d \in Hosts : ready'[d] = "open" =>
            ready[d] = "open" /\ (d = Room!AuthedHost => d = c)
  <2>1. CASE Room!AuthedHost # None /\ Room!AuthedHost # c
    <3>1. ready' = Room!Closing(Room!Closing(ready, Room!OpenViewer), Room!AuthedHost)
      BY <2>1 DEF Room!ConfirmAuth
    <3>. DEFINE r == Room!Closing(ready, Room!OpenViewer)
    <3>2. /\ r \in [Sockets -> {"none", "open", "closing", "closed"}]
          /\ \A x \in Sockets : (r[x] = "none" <=> ready[x] = "none") /\ (r[x] = "open" => ready[x] = "open")
      BY <1>0, ClosingEffect
    <3>3. ready' = Room!Closing(r, Room!AuthedHost)
      BY <3>1
    <3>. HIDE DEF r
    <3>4. \A x \in Sockets : /\ ready'[x] = "none" <=> r[x] = "none"
                             /\ ready'[x] = "open" => r[x] = "open" /\ x # Room!AuthedHost
      BY <3>2, <3>3, ClosingEffect
    <3>. QED  BY <3>2, <3>4
  <2>2. CASE ~(Room!AuthedHost # None /\ Room!AuthedHost # c)
    BY <2>2, RegistrationAssumption DEF Room!ConfirmAuth
  <2>. QED  BY <2>1, <2>2
<1>5. \A d \in Hosts : Told(d)' => Told(d) \/ d = c
  <2>. DEFINE o == Room!HostGoneOut(out)
              m == Room!CloseFrame(Room!Replaced)
              p == Room!Sent(o, Room!AuthedHost, m)
              R == Room!Registered
  <2>1. /\ o \in [Sockets -> Seq(Room!Message)]
        /\ \A x \in Sockets : In(o[x], R) => In(out[x], R)
    BY <1>0, HostGoneEffect
  <2>2. m \in Room!Message /\ R \in Room!Message /\ R # m
    BY Messages
  <2>. HIDE DEF o, m, R
  <2>3. /\ p \in [Sockets -> Seq(Room!Message)]
        /\ \A x \in Sockets : \A n : In(p[x], n) => In(o[x], n) \/ (n = m /\ x = Room!AuthedHost)
    BY <2>1, <2>2, SentEffect
  <2>. HIDE DEF p
  <2>4. /\ \A x \in Sockets : In(Room!Sent(p, c, R)[x], R) => In(p[x], R) \/ x = c
        /\ \A x \in Sockets : In(Room!Sent(out, c, R)[x], R) => In(out[x], R) \/ x = c
    BY <1>0, <2>2, <2>3, SentEffect
  <2>5. out' = Room!Sent(p, c, R) \/ out' = Room!Sent(out, c, R)
    BY DEF Room!ConfirmAuth, o, m, p, R
  <2>6. \A d \in Hosts : In(out'[d], R) => In(out[d], R) \/ d = c
    BY <2>1, <2>2, <2>3, <2>4, <2>5
  <2>. QED  BY <2>6 DEF Told, R, Room!Registered
<1>6. /\ authed'[c]
      /\ \A d \in Hosts : d # c => /\ authed'[d] => authed[d]
                                   /\ authed[d] => authed'[d] \/ d = Room!AuthedHost
                                   /\ authed'[d] => d # Room!AuthedHost \/ Room!AuthedHost = None
  BY DEF Room!ConfirmAuth
<1>7. \A d \in Hosts : verifying[d] = 0 => verifying'[d] = 0
  BY DEF Room!ConfirmAuth, TypeInv
<1>8. ASSUME NEW d \in Hosts PROVE RunInv(d)'
  <2>1. RunInv(d)
    BY <1>1
  <2>2. CASE d = c
    BY <1>2, <1>3, <1>4, <1>6, <2>1, <2>2 DEF RunInv
  <2>3. CASE d # c
    <3>1. Told(d)' => Told(d)
      BY <1>5, <2>3
    <3>2. mine[d] \in Keys /\ owner = mine[d] => owner' = mine[d]
      BY <1>3, RegistrationAssumption
    <3>. QED  BY <1>3, <1>4, <1>6, <1>7, <2>1, <2>3, <3>1, <3>2 DEF RunInv
  <2>. QED  BY <2>2, <2>3
<1>9. \A d \in Room!AuthedHosts' : d = c
  <2>. SUFFICES ASSUME NEW d \in Hosts, ready'[d] = "open", authed'[d], d # c PROVE FALSE
    BY DEF Room!AuthedHosts
  <2>1. d \in Room!AuthedHosts
    BY <1>4, <1>6 DEF Room!AuthedHosts
  <2>2. d = Room!AuthedHost /\ Room!AuthedHost # None
    BY <2>1, AuthedHostIs DEF RegInv
  <2>. QED  BY <1>6, <2>2
<1>. QED  BY <1>8, <1>9 DEF RegInv

\* A step keeps what it means to be registered.
LEMMA RegInvStep ==
    ASSUME TypeInv, RegInv, [Next]_vars
    PROVE  RegInv'
<1>. USE DEF Sockets, calls, room, Rest
<1>0. /\ out \in [Sockets -> Seq(Room!Message)] /\ Hosts \cap Viewers = {}
      /\ ready \in [Sockets -> {"none", "open", "closing", "closed"}]
      /\ authed \in [Hosts -> BOOLEAN] /\ verifying \in [Hosts -> Nat]
      /\ pc \in [Sockets -> {"start", "allowed", "elsewhere", "connected", "auth", "registered",
                             "failed", "left"}]
      /\ mine \in [Hosts -> Keys \cup {None}]
  BY RegistrationAssumption DEF TypeInv
<1>1. \A c \in Hosts : RunInv(c)
  BY DEF RegInv
<1>. DEFINE RoomQuiet ==
      /\ owner' = owner /\ key' = key
      /\ \A c \in Hosts :
             /\ ready'[c] = "none" <=> ready[c] = "none"
             /\ ready'[c] = "open" => ready[c] = "open" /\ (authed[c] => authed'[c])
             /\ authed'[c] => authed[c]
             /\ ready[c] = "none" /\ verifying[c] = 0 => verifying'[c] = 0
             /\ Told(c)' => Told(c)
<1>2. ASSUME RoomQuiet, UNCHANGED <<pc, mine>> PROVE RegInv'
  BY <1>2, QuietStep
<1>3. UNCHANGED room => RoomQuiet
  BY DEF Told
<1>4. ASSUME NEW c \in Hosts, NEW where, To(c, where), RoomQuiet, UNCHANGED mine,
             \/ pc[c] = "allowed" /\ where \in {"allowed", "failed", "elsewhere"}
             \/ pc[c] \in {"connected", "auth", "registered"} /\ where \in {"auth", "failed"}
             \/ pc[c] = "registered" /\ where = "left"
             \/ pc[c] # "start" /\ where = "registered" /\ Told(c)
      PROVE  RegInv'
  <2>1. \A d \in Hosts : \/ pc'[d] = pc[d]
                         \/ pc[d] = "allowed" /\ pc'[d] \in {"failed", "elsewhere"}
                         \/ pc[d] \in {"connected", "auth", "registered"} /\ pc'[d] \in {"auth", "failed"}
                         \/ pc[d] = "registered" /\ pc'[d] = "left"
                         \/ pc[d] # "start" /\ pc'[d] = "registered" /\ Told(d)
    BY <1>0, <1>4 DEF To
  <2>. QED  BY <1>4, <2>1, QuietStep
<1>5. ASSUME NEW c \in Hosts, out[c] # <<>>, Read(c), UNCHANGED Rest
      PROVE  RoomQuiet /\ In(out[c], Head(out[c]))
  <2>1. out[c] \in Seq(Room!Message)
    BY <1>0
  <2>2. In(out[c], Head(out[c])) /\ \A n : In(Tail(out[c]), n) => In(out[c], n)
    BY <1>5, <2>1, InTail
  <2>3. \A d \in Hosts : out'[d] = out[d] \/ (d = c /\ out'[d] = Tail(out[d]))
    BY <1>0, <1>5 DEF Read
  <2>4. \A d \in Hosts : In(out'[d], Room!Registered) => In(out[d], Room!Registered)
    BY <2>2, <2>3
  <2>5. \A d \in Hosts : Told(d)' => Told(d)
    BY <2>4 DEF Told, Room!Registered
  <2>. QED  BY <1>5, <2>2, <2>5
<1>6. ASSUME NEW c \in Hosts, Room!HostGone(c) PROVE RoomQuiet
  <2>. DEFINE r == Room!Closing(ready, Room!OpenViewer)
  <2>1. /\ r \in [Sockets -> {"none", "open", "closing", "closed"}]
        /\ \A x \in Sockets : (r[x] = "none" <=> ready[x] = "none") /\ (r[x] = "open" => ready[x] = "open")
    BY <1>0, ClosingEffect
  <2>2. ready' = [r EXCEPT ![c] = "closed"] \/ ready' = [ready EXCEPT ![c] = "closed"]
    BY <1>6 DEF Room!HostGone
  <2>. HIDE DEF r
  <2>3. ready[c] # "none"
    BY <1>6 DEF Room!HostGone, Room!GoneEventDue
  <2>4. \A d \in Hosts : (ready'[d] = "none" <=> ready[d] = "none") /\ (ready'[d] = "open" => ready[d] = "open" /\ d # c)
    BY <1>0, <2>1, <2>2, <2>3
  <2>5. authed' = [authed EXCEPT ![c] = FALSE] /\ owner' = owner /\ key' = key /\ verifying' = verifying
    BY <1>6 DEF Room!HostGone
  <2>6. out' = out \/ out' = Room!HostGoneOut(out)
    BY <1>6 DEF Room!HostGone
  <2>7. \A d \in Hosts : In(out'[d], Room!Registered) => In(out[d], Room!Registered)
    BY <1>0, <2>6, HostGoneEffect
  <2>8. \A d \in Hosts : Told(d)' => Told(d)
    BY <2>7 DEF Told, Room!Registered
  <2>. QED  BY <1>0, <2>4, <2>5, <2>8
<1>7. ASSUME NEW c \in Hosts, Room!RejectAuth(c) PROVE RoomQuiet
  <2>. DEFINE m == Room!CloseFrame(Room!AuthFailed)
  <2>1. m \in Room!Message /\ Room!Registered # m
    BY Messages
  <2>2. ready' = Room!Closing(ready, c) /\ out' = Room!Sent(out, c, m) /\ UNCHANGED <<owner, key, authed>>
    BY <1>7 DEF Room!RejectAuth, Room!CloseFromServer
  <2>. HIDE DEF m
  <2>3. \A x \in Sockets : \A n : In(Room!Sent(out, c, m)[x], n) => In(out[x], n) \/ n = m
    BY <1>0, <2>1, SentEffect
  <2>4. \A d \in Hosts : In(out'[d], Room!Registered) => In(out[d], Room!Registered)
    BY <2>1, <2>2, <2>3
  <2>5. \A d \in Hosts : Told(d)' => Told(d)
    BY <2>4 DEF Told, Room!Registered
  <2>6. \A d \in Hosts : (ready'[d] = "none" <=> ready[d] = "none") /\ (ready'[d] = "open" => ready[d] = "open")
    BY <1>0, <2>2, ClosingEffect
  <2>7. \A d \in Hosts : verifying[d] = 0 => verifying'[d] = 0
    BY <1>0, <1>7 DEF Room!RejectAuth
  <2>. QED  BY <2>2, <2>5, <2>6, <2>7
<1>8. ASSUME NEW v \in Viewers, Room!AcceptViewer(v) PROVE RoomQuiet
  <2>. DEFINE g == Room!AuthedHost
  <2>1. g \in Hosts /\ g # v
    BY <1>0, <1>8, AuthedHostIs DEF Room!AcceptViewer, Room!ViewerResponse
  <2>2. \A d \in Hosts : out'[d] = out[d] \/ (d = g /\ out'[d] = Append(out[d], Room!ViewerJoined(v)))
    BY <1>0, <1>8, <2>1 DEF Room!AcceptViewer
  <2>3. Room!ViewerJoined(v) \in Room!Message /\ Room!Registered # Room!ViewerJoined(v)
    BY Messages
  <2>4. \A d \in Hosts : In(out'[d], Room!Registered) => In(out[d], Room!Registered)
    <3>1. ASSUME NEW d \in Hosts
          PROVE  In(Append(out[d], Room!ViewerJoined(v)), Room!Registered) => In(out[d], Room!Registered)
      BY <1>0, <2>3, InAppend
    <3>. QED  BY <2>2, <3>1
  <2>5. \A d \in Hosts : Told(d)' => Told(d)
    BY <2>4 DEF Told, Room!Registered
  <2>6. \A d \in Hosts : ready'[d] = ready[d]
    BY <1>0, <1>8 DEF Room!AcceptViewer
  <2>. QED  BY <1>8, <2>5, <2>6 DEF Room!AcceptViewer
<1>9. ASSUME NEW v \in Viewers, Room!ViewerGone(v) PROVE RoomQuiet
  <2>. DEFINE m == Room!ViewerLeft(v)
  <2>1. m \in Room!Message /\ Room!Registered # m
    BY Messages
  <2>2. out' = out \/ out' = Room!Sent(out, Room!AuthedHost, m)
    BY <1>9 DEF Room!ViewerGone
  <2>. HIDE DEF m
  <2>3. \A x \in Sockets : \A n : In(Room!Sent(out, Room!AuthedHost, m)[x], n) => In(out[x], n) \/ n = m
    BY <1>0, <2>1, SentEffect
  <2>4. \A d \in Hosts : In(out'[d], Room!Registered) => In(out[d], Room!Registered)
    BY <2>1, <2>2, <2>3
  <2>5. \A d \in Hosts : Told(d)' => Told(d)
    BY <2>4 DEF Told, Room!Registered
  <2>6. \A d \in Hosts : ready'[d] = ready[d]
    BY <1>0, <1>9 DEF Room!ViewerGone
  <2>. QED  BY <1>9, <2>5, <2>6 DEF Room!ViewerGone
<1>10. ASSUME NEW c \in Hosts, Room!AuthFrame(c) PROVE RoomQuiet
  <2>1. ready[c] # "none" /\ UNCHANGED <<owner, ready, key, authed, out>>
    BY <1>10 DEF Room!AuthFrame, Room!Delivers
  <2>2. \A d \in Hosts : d # c => verifying'[d] = verifying[d]
    BY <1>0, <1>10 DEF Room!AuthFrame
  <2>. QED  BY <2>1, <2>2 DEF Told
<1>11. Room!Restart => RoomQuiet
  <2>. SUFFICES ASSUME Room!Restart PROVE RoomQuiet
    OBVIOUS
  <2>1. \A d \in Hosts : (ready'[d] = "none" <=> ready[d] = "none") /\ ready'[d] # "open" /\ verifying'[d] = 0
    BY DEF Room!Restart, Room!Sockets
  <2>. QED  BY <2>1 DEF Room!Restart, Told
<1>. HIDE DEF RoomQuiet
<1>12. ASSUME NEW c \in Hosts, NEW k \in Keys, NEW claim \in BOOLEAN, NEW ok \in BOOLEAN,
              HostRequest(c, k, claim, ok)
       PROVE  RegInv'
  <2>1. /\ pc[c] = "start" /\ pc' = [pc EXCEPT ![c] = IF ok THEN "allowed" ELSE "failed"]
        /\ mine' = [mine EXCEPT ![c] = k] /\ UNCHANGED room
    BY <1>12 DEF HostRequest, To
  <2>2. \A d \in Hosts : Told(d)' = Told(d)
    BY <2>1 DEF Told
  <2>3. ASSUME NEW d \in Hosts PROVE RunInv(d)'
    <3>1. CASE d = c
      <4>1. mine'[c] = k /\ pc'[c] \in {"allowed", "failed"} /\ ready[c] = "none"
        BY <1>0, <1>1, <2>1 DEF RunInv
      <4>. QED  BY <1>1, <2>1, <2>2, <3>1, <4>1 DEF RunInv
    <3>2. CASE d # c
      <4>1. mine'[d] = mine[d] /\ pc'[d] = pc[d]
        BY <1>0, <2>1, <3>2
      <4>. QED  BY <1>1, <2>1, <2>2, <4>1 DEF RunInv
    <3>. QED  BY <3>1, <3>2
  <2>4. Room!AuthedHosts' = Room!AuthedHosts
    BY <2>1 DEF Room!AuthedHosts
  <2>. QED  BY <2>3, <2>4 DEF RegInv
<1>13. ASSUME NEW c \in Hosts, FetchExisting(c) PROVE RegInv'
  BY <1>3, <1>4, <1>13, AcceptStep DEF FetchExisting
<1>14. ASSUME NEW c \in Hosts, Claim(c) PROVE RegInv'
  BY <1>3, <1>4, <1>14, AcceptStep DEF Claim
<1>15. ASSUME NEW v \in Viewers, NEW where, To(v, where), RoomQuiet, UNCHANGED mine PROVE RegInv'
  <2>1. \A d \in Hosts : pc'[d] = pc[d]
    BY <1>0, <1>15 DEF To
  <2>. QED  BY <1>15, <2>1, QuietStep DEF RoomQuiet
<1>16. ASSUME NEW v \in Viewers, NEW ipOk, NEW idOk, ViewerRequest(v, ipOk, idOk) PROVE RegInv'
  BY <1>3, <1>15, <1>16 DEF ViewerRequest
<1>17. ASSUME NEW v \in Viewers, ViewerFetch(v) PROVE RegInv'
  BY <1>3, <1>8, <1>15, <1>17 DEF ViewerFetch
<1>18. ASSUME NEW v \in Viewers, ViewerLeaves(v) PROVE RegInv'
  BY <1>2, <1>9, <1>18 DEF ViewerLeaves
<1>19. ASSUME NEW c \in Hosts, TakeChallenge(c) PROVE RegInv'
  BY <1>4, <1>5, <1>19 DEF TakeChallenge, HasMail, SendsAndReads
<1>20. ASSUME NEW c \in Hosts, TakeRegistered(c) PROVE RegInv'
  <2>1. RoomQuiet /\ Told(c)
    BY <1>5, <1>20 DEF TakeRegistered, HasMail, Told
  <2>. QED  BY <1>4, <1>20, <2>1 DEF TakeRegistered
<1>21. ASSUME NEW c \in Hosts, ReadOn(c) PROVE RegInv'
  BY <1>2, <1>5, <1>21 DEF ReadOn, HasMail
<1>22. ASSUME NEW c \in Hosts, pc[c] \in {"connected", "auth", "registered"}, Drop(c) PROVE RegInv'
  BY <1>3, <1>4, <1>22 DEF Drop
<1>23. ASSUME NEW c \in Hosts, LinkEnds(c) \/ GiveUp(c) \/ Quit(c) PROVE RegInv'
  BY <1>22, <1>23 DEF LinkEnds, GiveUp, Quit
<1>24. ASSUME NEW c \in Hosts, ServeAuth(c) \/ ServeClose(c) PROVE RegInv'
  BY <1>2, <1>3, <1>6, <1>10, <1>24 DEF ServeAuth, ServeClose
<1>25. ASSUME NEW c \in Hosts, Verified(c) PROVE RegInv'
  BY <1>2, <1>7, <1>25, ConfirmStep DEF Verified
<1>26. CASE Restart
  BY <1>2, <1>11, <1>26 DEF Restart
<1>27. CASE UNCHANGED vars
  BY <1>2, <1>3, <1>27 DEF vars
<1>. QED
  BY <1>12, <1>13, <1>14, <1>16, <1>17, <1>18, <1>19, <1>20, <1>21, <1>23, <1>24, <1>25, <1>26, <1>27
  DEF Next, Client, Server

\* Initially no run has started.
LEMMA InitReg == Init => TypeInv /\ RegInv
<1>1. Init => TypeInv
  BY DEF Init, TypeInv, Sockets
<1>2. Init => \A c \in Hosts : RunInv(c)
  <2>1. Init => \A c \in Hosts : DOMAIN out[c] = {}
    BY DEF Init
  <2>. QED  BY <2>1 DEF Init, RunInv, Told, In
<1>3. Init => Room!AuthedHosts = {}
  BY DEF Init, Room!AuthedHosts
<1>. QED  BY <1>1, <1>2, <1>3 DEF RegInv

\* A run of register_host that has returned Ok and whose connection is still open is the
\* one waiting host of the room, and the ID belongs to its key, however claims, takeovers,
\* timeouts and restarts overlap (register.rs, host-room.ts:105-135).
THEOREM RegisteredHostWaits == Spec => []RegisteredWaits
<1>1. RegInv => RegisteredWaits
  <2>. SUFFICES ASSUME RegInv, NEW c \in Hosts, pc[c] = "registered", ready[c] = "open"
                PROVE  Room!AuthedHosts = {c} /\ owner = mine[c]
    BY DEF RegisteredWaits
  <2>1. authed[c] /\ owner = mine[c]
    BY DEF RegInv, RunInv
  <2>. QED  BY <2>1 DEF RegInv, Room!AuthedHosts
<1>. QED  BY <1>1, InitReg, RegistrationTypes, RegInvStep, PTL DEF Spec

\* All runs that ever returned Ok for this ID used one key, though several claims of a
\* free ID may be under way at once (host-room.ts:111).
THEOREM IdHasOneDevice == Spec => []OneDevicePerId
<1>1. RegInv => OneDevicePerId
  BY DEF RegInv, RunInv, OneDevicePerId
<1>. QED  BY <1>1, InitReg, RegistrationTypes, RegInvStep, PTL DEF Spec
=============================================================================
