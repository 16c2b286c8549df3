------------------------------ MODULE RateLimit ------------------------------
(***************************************************************************)
(* The Worker's rate limits: one RateLimit Durable Object per bucket       *)
(* (signaling/src/rate-limit.ts), a fixed window that counts every call,   *)
(* and the calls fetch makes to them (signaling/src/index.ts): a host's    *)
(* request counts against its address, a viewer's against its address and, *)
(* at the same time, against the ID it asks for.                           *)
(***************************************************************************)
EXTENDS Naturals, Sequences

CONSTANTS
    Ips, Ids,                               \* callers' addresses; host IDs
    HostPerIp, ViewerPerIp, ViewerPerId,    \* HOST_PER_IP, ...
    Window,                                 \* WINDOW_MS
    MaxTime, MaxCalls                       \* bounds: on the clock, on a window's calls

ASSUME LimitAssumption ==
    /\ HostPerIp \in Nat \ {0} /\ ViewerPerIp \in Nat \ {0} /\ ViewerPerId \in Nat \ {0}
    /\ Window \in Nat \ {0} /\ MaxTime \in Nat /\ MaxCalls \in Nat

HostIp(ip) == <<"host-ip", ip>>
ViewerIp(ip) == <<"viewer-ip", ip>>
ViewerId(id) == <<"viewer-id", id>>
Buckets == {HostIp(ip) : ip \in Ips} \cup {ViewerIp(ip) : ip \in Ips}
             \cup {ViewerId(id) : id \in Ids}
Limit(b) == IF b[1] = "host-ip" THEN HostPerIp
            ELSE IF b[1] = "viewer-ip" THEN ViewerPerIp ELSE ViewerPerId

VARIABLES
    now,            \* Date.now()
    start, count,   \* the stored Window; count 0: none stored
    log,            \* history: when calls were allowed
    base, pbase     \* history: how long log was as this window and the last began
vars == <<now, start, count, log, base, pbase>>
-----------------------------------------------------------------------------
(* allow: a new window begins with the first call that finds the last over. *)
Fresh(b) == count[b] = 0 \/ now >= start[b] + Window

(* Mutant of NewStart: a call that is counted also moves the window. *)
NewStartSliding(b) == now

NewStart(b) == IF Fresh(b) THEN now ELSE start[b]
NextCount(b) == IF Fresh(b) THEN 1 ELSE count[b] + 1

(* Mutant of Allows: the count is compared before the call is counted. *)
AllowsBeforeCounting(b) == Fresh(b) \/ count[b] <= Limit(b)

Allows(b) == NextCount(b) <= Limit(b)

(* RateLimit.hit on every bucket of a set. *)
Hits(B) ==
    /\ \A b \in B : NextCount(b) <= MaxCalls
    /\ start' = [b \in Buckets |-> IF b \in B THEN NewStart(b) ELSE start[b]]
    /\ count' = [b \in Buckets |-> IF b \in B THEN NextCount(b) ELSE count[b]]
    /\ log' = [b \in Buckets |-> IF b \in B /\ Allows(b) THEN Append(log[b], now) ELSE log[b]]
    /\ base' = [b \in Buckets |-> IF b \in B /\ Fresh(b) THEN Len(log[b]) ELSE base[b]]
    /\ pbase' = [b \in Buckets |-> IF b \in B /\ Fresh(b) THEN base[b] ELSE pbase[b]]
    /\ UNCHANGED now

HostCall(ip) == Hits({HostIp(ip)})
ViewerCall(ip, id) == Hits({ViewerIp(ip), ViewerId(id)})

TimePasses == /\ now < MaxTime /\ now' = now + 1
              /\ UNCHANGED <<start, count, log, base, pbase>>

Init == /\ now = 0 /\ start = [b \in Buckets |-> 0] /\ count = [b \in Buckets |-> 0]
        /\ log = [b \in Buckets |-> <<>>] /\ base = [b \in Buckets |-> 0]
        /\ pbase = [b \in Buckets |-> 0]
Next == \/ TimePasses
        \/ \E ip \in Ips : HostCall(ip)
        \/ \E ip \in Ips, id \in Ids : ViewerCall(ip, id)
Spec == Init /\ [][Next]_vars
-----------------------------------------------------------------------------
(* Types of the stored windows and of the history beside them, and what is  *)
(* allowed within one window: its limit, no more (rate-limit.ts:9).         *)
TypeOK ==
    /\ now \in Nat /\ start \in [Buckets -> Nat] /\ count \in [Buckets -> 0 .. MaxCalls]
    /\ log \in [Buckets -> Seq(Nat)]
    /\ base \in [Buckets -> Nat] /\ pbase \in [Buckets -> Nat]
    /\ \A b \in Buckets : Len(log[b]) <= base[b] + Limit(b)

(* allow lets through at most one window's worth more than its limit around *)
(* a window's end: of any 2 * Limit + 1 allowed calls the first and the     *)
(* last are a whole window apart, whatever other addresses ask for the same *)
(* ID (rate-limit.ts:6).                                                    *)
AtMostTwicePerWindow == \A b \in Buckets : \A i \in 1 .. Len(log[b]) :
    i + 2 * Limit(b) <= Len(log[b]) => log[b][i] + Window <= log[b][i + 2 * Limit(b)]

(* A bucket refuses only a caller that had its whole limit within the last  *)
(* window: refused calls count, but do not make the refusal longer.         *)
RefusalEarned == \A b \in Buckets : ~Allows(b) =>
    /\ Len(log[b]) >= Limit(b)
    /\ now < log[b][Len(log[b]) - Limit(b) + 1] + Window
=============================================================================
