--------------------------- MODULE RateLimitProofs ---------------------------
(***************************************************************************)
(* What a fixed window guarantees, for every limit, window length and      *)
(* number of buckets, and whichever way the callers' requests interleave.  *)
(***************************************************************************)
EXTENDS RateLimit, SequenceTheorems, TLAPS

\* The entries of a log s at time t: none is ahead of the clock; the first pb are a
\* whole window older than the present window, which began at st; the first ba are
\* no younger than it and the others no older.
Ordered(t, st, s, ba, pb) == \A i \in 1 .. Len(s) :
    /\ s[i] <= t
    /\ i <= pb => s[i] + Window <= st
    /\ i <= ba => s[i] <= st
    /\ i > ba => st <= s[i]

\* Entries 2 * L apart are a window apart.
Spread(s, L) == \A i \in 1 .. Len(s) :
    i + 2 * L <= Len(s) => s[i] + Window <= s[i + 2 * L]

\* How the log is divided: the window before this one allowed at most L, and this
\* one as many as it counted, up to L.
Divided(c, n, ba, pb, L) ==
    /\ pb <= ba /\ ba <= pb + L
    /\ c <= L => n = ba + c
    /\ c > L => n = ba + L
    /\ c = 0 => ba = 0

\* The inductive invariant of a bucket with limit L.
WindowOf(t, st, c, s, ba, pb, L) ==
    /\ Divided(c, Len(s), ba, pb, L) /\ Ordered(t, st, s, ba, pb) /\ Spread(s, L)
    /\ st <= t

BucketInv(b) == WindowOf(now, start[b], count[b], log[b], base[b], pbase[b], Limit(b))

Types ==
    /\ now \in Nat /\ start \in [Buckets -> Nat] /\ count \in [Buckets -> 0 .. MaxCalls]
    /\ log \in [Buckets -> Seq(Nat)] /\ base \in [Buckets -> Nat] /\ pbase \in [Buckets -> Nat]

WindowInv == Types /\ \A b \in Buckets : BucketInv(b)

\* Every limit lets at least one call through (index.ts:6).
LEMMA LimitType == ASSUME NEW b PROVE Limit(b) \in Nat \ {0}
BY LimitAssumption DEF Limit

\* The length of a window.
LEMMA WindowType == Window \in Nat
BY LimitAssumption

\* What is in a log after one more call was allowed.
LEMMA Logged ==
    ASSUME NEW s \in Seq(Nat), NEW t \in Nat
    PROVE  /\ Append(s, t) \in Seq(Nat) /\ Len(s) \in Nat
           /\ Len(Append(s, t)) = Len(s) + 1 /\ Append(s, t)[Len(s) + 1] = t
           /\ \A i \in 1 .. Len(s) : Append(s, t)[i] = s[i] /\ s[i] \in Nat
           /\ \A i \in 1 .. Len(s) + 1 : i \in 1 .. Len(s) \/ i = Len(s) + 1
<1>1. \A i \in 1 .. Len(s) : s[i] \in Nat
  BY ElementOfSeq
<1>2. Len(s) \in Nat
  OBVIOUS
<1>. QED  BY <1>1, <1>2, AppendProperties

\* The clock moves on.
LEMMA Later ==
    ASSUME NEW t \in Nat, NEW st \in Nat, NEW c \in Nat, NEW s \in Seq(Nat),
           NEW ba \in Nat, NEW pb \in Nat, NEW L \in Nat, WindowOf(t, st, c, s, ba, pb, L)
    PROVE  WindowOf(t + 1, st, c, s, ba, pb, L)
<1>1. \A i \in 1 .. Len(s) : s[i] \in Nat
  BY Logged
<1>2. Ordered(t + 1, st, s, ba, pb)
  BY <1>1 DEF WindowOf, Ordered
<1>. QED  BY <1>2 DEF WindowOf

\* An allowed call keeps the log spread out, if at most 2 * L entries are not yet a
\* window old.
LEMMA SpreadAppend ==
    ASSUME NEW t \in Nat, NEW s \in Seq(Nat), NEW L \in Nat \ {0}, NEW k \in Nat,
           Spread(s, L), Len(s) < k + 2 * L,
           \A i \in 1 .. Len(s) : i <= k => s[i] + Window <= t
    PROVE  Spread(Append(s, t), L)
<1>. DEFINE u == Append(s, t)
<1>1. /\ Len(s) \in Nat /\ Len(u) = Len(s) + 1 /\ u[Len(s) + 1] = t
      /\ \A i \in 1 .. Len(s) : u[i] = s[i]
  BY Logged
<1>. HIDE DEF u
<1>. SUFFICES ASSUME NEW i \in 1 .. Len(u), i + 2 * L <= Len(u)
              PROVE  u[i] + Window <= u[i + 2 * L]
  BY DEF Spread, u
<1>2. i \in 1 .. Len(s)
  BY <1>1
<1>3. CASE i + 2 * L <= Len(s)
  <2>1. i + 2 * L \in 1 .. Len(s)
    BY <1>1, <1>2, <1>3
  <2>2. s[i] + Window <= s[i + 2 * L]
    BY <1>2, <1>3 DEF Spread
  <2>3. u[i] = s[i] /\ u[i + 2 * L] = s[i + 2 * L]
    BY <1>1, <1>2, <2>1
  <2>. QED  BY <2>2, <2>3
<1>4. CASE i + 2 * L = Len(s) + 1
  <2>1. i <= k
    BY <1>1, <1>4
  <2>2. s[i] + Window <= t
    BY <1>2, <2>1
  <2>3. u[i] = s[i] /\ u[i + 2 * L] = t
    BY <1>1, <1>2, <1>4
  <2>. QED  BY <2>2, <2>3
<1>. QED  BY <1>1, <1>3, <1>4

\* A call counted within the window, allowed up to the limit.
LEMMA SameWindow ==
    ASSUME NEW t \in Nat, NEW st \in Nat, NEW c \in Nat, NEW s \in Seq(Nat),
           NEW ba \in Nat, NEW pb \in Nat, NEW L \in Nat \ {0},
           WindowOf(t, st, c, s, ba, pb, L), c # 0
    PROVE  WindowOf(t, st, c + 1, IF c + 1 <= L THEN Append(s, t) ELSE s, ba, pb, L)
<1>1. CASE c + 1 > L
  <2>1. Divided(c + 1, Len(s), ba, pb, L)
    BY <1>1 DEF WindowOf, Divided
  <2>. QED  BY <1>1, <2>1 DEF WindowOf
<1>2. CASE c + 1 <= L
  <2>. DEFINE u == Append(s, t)
  <2>1. /\ Len(s) \in Nat /\ Len(u) = Len(s) + 1 /\ u[Len(s) + 1] = t
        /\ \A i \in 1 .. Len(s) : u[i] = s[i] /\ s[i] \in Nat
    BY Logged
  <2>2. Len(s) = ba + c /\ ba <= pb + L
    BY <1>2 DEF WindowOf, Divided
  <2>. HIDE DEF u
  <2>3. Divided(c + 1, Len(u), ba, pb, L)
    BY <1>2, <2>1, <2>2 DEF WindowOf, Divided
  <2>4. Ordered(t, st, u, ba, pb)
    <3>. SUFFICES ASSUME NEW i \in 1 .. Len(u)
                  PROVE  /\ u[i] <= t
                         /\ i <= pb => u[i] + Window <= st
                         /\ i <= ba => u[i] <= st
                         /\ i > ba => st <= u[i]
      BY DEF Ordered
    <3>1. CASE i \in 1 .. Len(s)
      BY <2>1, <3>1 DEF WindowOf, Ordered
    <3>2. CASE i = Len(s) + 1
      <4>1. ~(i <= ba) /\ ~(i <= pb)
        BY <2>1, <2>2, <3>2 DEF WindowOf, Divided
      <4>. QED  BY <2>1, <3>2, <4>1 DEF WindowOf
    <3>. QED  BY <2>1, <3>1, <3>2
  <2>5. Spread(u, L)
    <3>1. Len(s) < pb + 2 * L
      BY <1>2, <2>1, <2>2
    <3>2. ASSUME NEW i \in 1 .. Len(s), i <= pb PROVE s[i] + Window <= t
      <4>1. s[i] + Window <= st /\ st <= t /\ s[i] \in Nat
        BY <2>1, <3>2 DEF WindowOf, Ordered
      <4>. QED  BY <4>1, WindowType
    <3>. QED  BY <3>1, <3>2, SpreadAppend DEF WindowOf, u
  <2>6. WindowOf(t, st, c + 1, u, ba, pb, L)
    BY <2>3, <2>4, <2>5 DEF WindowOf
  <2>. QED  BY <1>2, <2>6 DEF u
<1>. QED  BY <1>1, <1>2

\* A call that finds no window, or one that is over, begins a new one and is the
\* first allowed in it.
LEMMA NewWindow ==
    ASSUME NEW t \in Nat, NEW st \in Nat, NEW c \in Nat, NEW s \in Seq(Nat),
           NEW ba \in Nat, NEW pb \in Nat, NEW L \in Nat \ {0},
           WindowOf(t, st, c, s, ba, pb, L), c = 0 \/ t >= st + Window
    PROVE  WindowOf(t, t, 1, Append(s, t), Len(s), ba, L)
<1>. DEFINE u == Append(s, t)
<1>1. /\ Len(s) \in Nat /\ Len(u) = Len(s) + 1 /\ u[Len(s) + 1] = t
      /\ \A i \in 1 .. Len(s) : u[i] = s[i] /\ s[i] \in Nat
  BY Logged
<1>2. ba <= Len(s) /\ Len(s) <= ba + L
  BY <1>1 DEF WindowOf, Divided
<1>. HIDE DEF u
<1>3. Divided(1, Len(u), Len(s), ba, L)
  BY <1>1, <1>2 DEF Divided
<1>4. ASSUME NEW i \in 1 .. Len(s), i <= ba PROVE s[i] + Window <= t
  <2>1. c # 0
    BY <1>4 DEF WindowOf, Divided
  <2>2. s[i] <= st /\ t >= st + Window /\ s[i] \in Nat
    BY <1>1, <1>4, <2>1 DEF WindowOf, Ordered
  <2>. QED  BY <2>2, WindowType
<1>5. Ordered(t, t, u, Len(s), ba)
  <2>. SUFFICES ASSUME NEW i \in 1 .. Len(u)
                PROVE  /\ u[i] <= t
                       /\ i <= ba => u[i] + Window <= t
                       /\ i > Len(s) => t <= u[i]
    BY DEF Ordered
  <2>1. CASE i \in 1 .. Len(s)
    <3>1. u[i] = s[i] /\ s[i] <= t
      BY <1>1, <2>1 DEF WindowOf, Ordered
    <3>. QED  BY <1>1, <1>4, <2>1, <3>1
  <2>2. CASE i = Len(s) + 1
    BY <1>1, <1>2, <2>2
  <2>. QED  BY <1>1, <2>1, <2>2
<1>6. Spread(u, L)
  <2>1. Len(s) < ba + 2 * L
    BY <1>1, <1>2
  <2>. QED  BY <1>4, <2>1, SpreadAppend DEF WindowOf, u
<1>7. WindowOf(t, t, 1, u, Len(s), ba, L)
  BY <1>3, <1>5, <1>6 DEF WindowOf
<1>. QED  BY <1>7 DEF u

\* No window is stored in the beginning.
LEMMA WindowInit == Init => WindowInv
<1>. SUFFICES ASSUME Init PROVE WindowInv
  OBVIOUS
<1>1. Types
  BY LimitAssumption DEF Init, Types
<1>2. ASSUME NEW b \in Buckets PROVE BucketInv(b)
  <2>1. /\ now = 0 /\ start[b] = 0 /\ count[b] = 0 /\ log[b] = <<>>
        /\ base[b] = 0 /\ pbase[b] = 0
    BY DEF Init
  <2>2. Limit(b) \in Nat \ {0}
    BY LimitType
  <2>. QED  BY <2>1, <2>2 DEF BucketInv, WindowOf, Divided, Ordered, Spread
<1>. QED  BY <1>1, <1>2 DEF WindowInv

\* The clock moves on: everything logged is still in the past.
LEMMA TimeStep == ASSUME WindowInv, TimePasses PROVE WindowInv'
<1>1. Types'
  BY DEF WindowInv, Types, TimePasses
<1>2. ASSUME NEW b \in Buckets PROVE BucketInv(b)'
  <2>1. /\ now \in Nat /\ start[b] \in Nat /\ count[b] \in Nat /\ log[b] \in Seq(Nat)
        /\ base[b] \in Nat /\ pbase[b] \in Nat /\ Limit(b) \in Nat
    BY LimitType DEF WindowInv, Types
  <2>2. WindowOf(now + 1, start[b], count[b], log[b], base[b], pbase[b], Limit(b))
    BY <2>1, Later DEF WindowInv, BucketInv
  <2>3. Limit(b)' = Limit(b)
    BY DEF Limit
  <2>. QED  BY <2>2, <2>3 DEF BucketInv, TimePasses
<1>. QED  BY <1>1, <1>2 DEF WindowInv

\* RateLimit.hit keeps the types.
LEMMA HitTypes == ASSUME WindowInv, NEW B \in SUBSET Buckets, Hits(B) PROVE Types'
<1>1. Types /\ now' = now
  BY DEF WindowInv, Hits
<1>2. \A b \in Buckets : /\ Len(log[b]) \in Nat /\ Append(log[b], now) \in Seq(Nat)
                         /\ NewStart(b) \in Nat
  BY <1>1 DEF Types, NewStart
<1>3. \A b \in B : NextCount(b) \in 0 .. MaxCalls
  BY <1>1, LimitAssumption DEF Types, NextCount, Hits
<1>4. start' \in [Buckets -> Nat] /\ log' \in [Buckets -> Seq(Nat)]
  BY <1>1, <1>2 DEF Types, Hits
<1>5. count' \in [Buckets -> 0 .. MaxCalls]
  BY <1>1, <1>3 DEF Types, Hits
<1>6. base' \in [Buckets -> Nat] /\ pbase' \in [Buckets -> Nat]
  BY <1>1, <1>2 DEF Types, Hits
<1>. QED  BY <1>1, <1>4, <1>5, <1>6 DEF Types

\* RateLimit.hit on any buckets preserves the invariant of each.
LEMMA HitStep == ASSUME WindowInv, NEW B \in SUBSET Buckets, Hits(B) PROVE WindowInv'
<1>1. ASSUME NEW b \in Buckets PROVE BucketInv(b)'
  <2>1. /\ now \in Nat /\ start[b] \in Nat /\ count[b] \in Nat /\ log[b] \in Seq(Nat)
        /\ base[b] \in Nat /\ pbase[b] \in Nat /\ Limit(b) \in Nat \ {0}
        /\ WindowOf(now, start[b], count[b], log[b], base[b], pbase[b], Limit(b))
    BY LimitType DEF WindowInv, Types, BucketInv
  <2>2. Limit(b)' = Limit(b) /\ now' = now
    BY DEF Limit, Hits
  <2>3. CASE b \in B /\ Fresh(b)
    <3>1. /\ start'[b] = now /\ count'[b] = 1 /\ base'[b] = Len(log[b])
          /\ pbase'[b] = base[b] /\ log'[b] = Append(log[b], now)
      BY <2>1, <2>3 DEF Hits, NewStart, NextCount, Allows
    <3>2. WindowOf(now, now, 1, Append(log[b], now), Len(log[b]), base[b], Limit(b))
      BY <2>1, <2>3, NewWindow DEF Fresh
    <3>. QED  BY <2>2, <3>1, <3>2 DEF BucketInv
  <2>4. CASE b \in B /\ ~Fresh(b)
    <3>. DEFINE u == IF count[b] + 1 <= Limit(b) THEN Append(log[b], now) ELSE log[b]
    <3>1. /\ start'[b] = start[b] /\ count'[b] = count[b] + 1 /\ base'[b] = base[b]
          /\ pbase'[b] = pbase[b] /\ log'[b] = u
      BY <2>4 DEF Hits, NewStart, NextCount, Allows
    <3>2. WindowOf(now, start[b], count[b] + 1, u, base[b], pbase[b], Limit(b))
      BY <2>1, <2>4, SameWindow DEF Fresh
    <3>. HIDE DEF u
    <3>. QED  BY <2>2, <3>1, <3>2 DEF BucketInv
  <2>5. CASE b \notin B
    BY <2>1, <2>2, <2>5 DEF BucketInv, Hits
  <2>. QED  BY <2>3, <2>4, <2>5
<1>. QED  BY <1>1, HitTypes DEF WindowInv

\* The invariant holds throughout.
LEMMA WindowInvariant == Spec => []WindowInv
<1>1. WindowInv /\ [Next]_vars => WindowInv'
  <2>. SUFFICES ASSUME WindowInv, [Next]_vars PROVE WindowInv'
    OBVIOUS
  <2>1. CASE TimePasses
    BY <2>1, TimeStep
  <2>2. ASSUME NEW ip \in Ips, HostCall(ip) PROVE WindowInv'
    <3>1. {HostIp(ip)} \in SUBSET Buckets
      BY DEF Buckets
    <3>. QED  BY <2>2, <3>1, HitStep DEF HostCall
  <2>3. ASSUME NEW ip \in Ips, NEW id \in Ids, ViewerCall(ip, id) PROVE WindowInv'
    <3>1. {ViewerIp(ip), ViewerId(id)} \in SUBSET Buckets
      BY DEF Buckets
    <3>. QED  BY <2>3, <3>1, HitStep DEF ViewerCall
  <2>4. CASE UNCHANGED vars
    BY <2>4 DEF vars, WindowInv, Types, BucketInv
  <2>. QED  BY <2>1, <2>2, <2>3, <2>4 DEF Next
<1>. QED  BY <1>1, WindowInit, PTL DEF Spec

\* The stored windows keep their types, and no window lets more than its limit
\* through (rate-limit.ts:9).
THEOREM WindowsHold == Spec => []TypeOK
<1>1. WindowInv => TypeOK
  <2>. SUFFICES ASSUME WindowInv PROVE TypeOK
    OBVIOUS
  <2>1. ASSUME NEW b \in Buckets PROVE Len(log[b]) <= base[b] + Limit(b)
    <3>1. Divided(count[b], Len(log[b]), base[b], pbase[b], Limit(b))
      BY DEF WindowInv, BucketInv, WindowOf
    <3>2. count[b] \in Nat /\ base[b] \in Nat /\ Limit(b) \in Nat
      BY LimitType DEF WindowInv, Types
    <3>. QED  BY <3>1, <3>2 DEF Divided
  <2>. QED  BY <2>1 DEF WindowInv, Types, TypeOK
<1>. QED  BY <1>1, WindowInvariant, PTL

\* Around the boundary of two windows at most two limits' worth of calls get
\* through within one window's length (rate-limit.ts:6).
THEOREM BurstBounded == Spec => []AtMostTwicePerWindow
<1>1. WindowInv => AtMostTwicePerWindow
  BY DEF WindowInv, BucketInv, WindowOf, Spread, AtMostTwicePerWindow
<1>. QED  BY <1>1, WindowInvariant, PTL

\* A refused caller used up its limit within the last window (rate-limit.ts:6-9).
THEOREM RefusalsEarned == Spec => []RefusalEarned
<1>1. WindowInv => RefusalEarned
  <2>. SUFFICES ASSUME WindowInv, NEW b \in Buckets, ~Allows(b)
                PROVE  /\ Len(log[b]) >= Limit(b)
                       /\ now < log[b][Len(log[b]) - Limit(b) + 1] + Window
    BY DEF RefusalEarned
  <2>. DEFINE n == Len(log[b])
  <2>1. /\ now \in Nat /\ start[b] \in Nat /\ count[b] \in Nat /\ log[b] \in Seq(Nat)
        /\ base[b] \in Nat /\ Limit(b) \in Nat \ {0} /\ Window \in Nat /\ BucketInv(b)
    BY LimitType, WindowType DEF WindowInv, Types
  <2>2. ~Fresh(b) /\ count[b] >= Limit(b)
    BY <2>1 DEF Allows, NextCount
  <2>3. n = base[b] + Limit(b)
    BY <2>1, <2>2 DEF BucketInv, WindowOf, Divided
  <2>4. base[b] + 1 \in 1 .. n
    BY <2>1, <2>3
  <2>5. log[b][base[b] + 1] \in Nat
    BY <2>1, <2>4, Logged
  <2>6. start[b] <= log[b][base[b] + 1]
    <3>1. Ordered(now, start[b], log[b], base[b], pbase[b]) /\ base[b] + 1 > base[b]
      BY <2>1 DEF BucketInv, WindowOf
    <3>. QED  BY <2>4, <3>1 DEF Ordered
  <2>7. now < start[b] + Window
    BY <2>1, <2>2 DEF Fresh
  <2>8. n - Limit(b) + 1 = base[b] + 1 /\ n >= Limit(b)
    BY <2>1, <2>3
  <2>9. now < log[b][base[b] + 1] + Window
    BY <2>1, <2>5, <2>6, <2>7
  <2>. QED  BY <2>8, <2>9
<1>. QED  BY <1>1, WindowInvariant, PTL
=============================================================================
