------------------------ MODULE AttemptLimiterProofs ------------------------
(***************************************************************************)
(* What the guess limiter guarantees for every cap, rotation limit and     *)
(* clock resolution.                                                       *)
(***************************************************************************)
EXTENDS AttemptLimiter, Integers, WellFoundedInduction, TLAPS

\* The wait after a failure is at least one second and at most Cap, whichever branch
\* of record_failure computes it.
LEMMA BackoffRange ==
    ASSUME NEW n \in Nat \ {0}
    PROVE  Backoff(n) \in 1..Cap
<1>1. CASE n - 1 >= ShiftLimit
  BY <1>1, LimiterAssumption DEF Backoff
<1>2. CASE n - 1 < ShiftLimit
  <2>1. n - 1 \in 0..ShiftLimit
    BY <1>2, LimiterAssumption
  <2>2. 2 ^ (n - 1) \in Nat \ {0}
    BY <2>1, ShiftAssumption
  <2>3. Lesser(2 ^ (n - 1), Cap) \in 1..Cap
    BY <2>2, LimiterAssumption DEF Lesser
  <2>. QED  BY <1>2, <2>1, <2>3, LimiterAssumption DEF Backoff
<1>. QED  BY <1>1, <1>2, LimiterAssumption

\* A second is a positive number of ticks (Duration::from_secs).
LEMMA SecondType == Second \in Nat \ {0}
BY LimiterAssumption DEF Second

\* Longer in seconds is no shorter in ticks.
LEMMA TicksMonotone ==
    ASSUME NEW a \in Nat, NEW b \in Nat, a <= b, NEW s \in Nat
    PROVE  s * a \in Nat /\ s * a <= s * b
<1>1. PICK d \in Nat : b = a + d
  <2>1. b - a \in Nat /\ b = a + (b - a)
    OBVIOUS
  <2>. QED  BY <2>1
<1>2. s * b = s * a + s * d
  BY <1>1
<1>3. s * a \in Nat /\ s * d \in Nat
  OBVIOUS
<1>. QED  BY <1>2, <1>3

\* What the code in use may still answer.  As long as it is the one of the last Reply,
\* its count says how many of its Replies no confirmation has made up for; a new code
\* starts with a count of zero, also when an accepted session used up the one before.
CodeInv ==
    /\ answered <= code
    /\ guesses <= RotateAfter + (RotateAfter - 1) * confirms
    /\ code = answered => guesses <= failures_on_code + (RotateAfter - 1) * confirms
    /\ code # answered => failures_on_code = 0
    /\ attempt = "confirmed" => failures_on_code = 0

\* The inductive invariant of the limiter itself: the wait runs from the last Reply.
LimiterInv ==
    /\ TypeOK
    /\ wait_until # NoWait => wait_until <= now + Second * Cap
    /\ consecutive_failures > 0 =>
         wait_until = lastAt + Second * Backoff(consecutive_failures)

\* AttemptLimiter::new() satisfies the invariant.
LEMMA LimiterInit == Init => LimiterInv
<1>. SUFFICES ASSUME Init PROVE LimiterInv
  OBVIOUS
<1>1. 0 \in 0..(RotateAfter - 1)
  BY LimiterAssumption
<1>2. TypeOK
  BY <1>1 DEF Init, TypeOK
<1>. QED  BY <1>2 DEF Init, LimiterInv

\* The limiter's counters agree with the Replies that were really sent, and the
\* wait counts from the last of them.
LEMMA LimiterStep ==
    ASSUME LimiterInv, [Next]_vars
    PROVE  LimiterInv'
<1>. USE DEF LimiterInv
<1>0. TypeOK
  OBVIOUS
<1>1. ASSUME NEW r \in BOOLEAN, Reply(r)
      PROVE  LimiterInv'
  <2>. DEFINE n == consecutive_failures + 1
              w == Second * Backoff(n)
  <2>1. n \in Nat \ {0} /\ Backoff(n) \in 1..Cap
    BY BackoffRange DEF TypeOK
  <2>2. Backoff(n) \in Nat /\ Cap \in Nat /\ Backoff(n) <= Cap /\ Second \in Nat
    BY <2>1, SecondType, LimiterAssumption
  <2>3. w \in Nat /\ w <= Second * Cap /\ Second * Cap \in Nat
    BY <2>2, TicksMonotone
  <2>4. /\ consecutive_failures' = n /\ wait_until' = now + w
        /\ lastAt' = now /\ now' = now
    BY <1>1 DEF Reply, RecordFailure
  <2>5. wait_until' \in Nat /\ wait_until' <= now' + Second * Cap
    BY <2>3, <2>4 DEF TypeOK
  <2>6. wait_until' = lastAt' + Second * Backoff(consecutive_failures')
    BY <2>4
  <2>7. failures_on_code' \in 0..(RotateAfter - 1)
    BY <1>1, LimiterAssumption DEF Reply, RecordFailure, TypeOK
  <2>8. TypeOK'
    BY <1>1, <2>1, <2>4, <2>5, <2>7 DEF Reply, RecordFailure, RotateCode, TypeOK
  <2>. QED  BY <2>5, <2>6, <2>7, <2>8
<1>2. CASE Unconfirmed
  BY <1>2 DEF Unconfirmed, limiter, history, TypeOK
<1>3. CASE Confirmed
  BY <1>3, LimiterAssumption DEF Confirmed, RecordSuccess, TypeOK
<1>4. ASSUME NEW accepted \in BOOLEAN, Finish(accepted)
      PROVE  LimiterInv'
  BY <1>4 DEF Finish, limiter, history, TypeOK
<1>5. CASE Tick
  <2>1. Second * Cap \in Nat
    BY SecondType, LimiterAssumption
  <2>. QED  BY <1>5, <2>1, LimiterAssumption DEF Tick, limiter, history, TypeOK
<1>6. CASE UNCHANGED vars
  BY <1>6 DEF vars, limiter, history, TypeOK
<1>. QED  BY <1>1, <1>2, <1>3, <1>4, <1>5, <1>6 DEF Next

\* The limiter agrees with what session.rs really sent, for every run of attempts.
THEOREM LimiterInvariant == Spec => []LimiterInv
<1>. QED  BY LimiterInit, LimiterStep, PTL DEF Spec

\* One more confirmation makes room for RotateAfter - 1 more Replies.
LEMMA RoomPerConfirm ==
    ASSUME NEW c \in Nat
    PROVE  /\ (RotateAfter - 1) * c \in Nat
           /\ (RotateAfter - 1) * 0 = 0
           /\ (RotateAfter - 1) * (c + 1) = (RotateAfter - 1) * c + (RotateAfter - 1)
<1>1. RotateAfter - 1 \in Nat
  BY LimiterAssumption
<1>2. \A r \in Nat : r * c \in Nat /\ r * 0 = 0 /\ r * (c + 1) = r * c + r
  OBVIOUS
<1>. QED  BY <1>1, <1>2

\* A Reply either counts on the code of the last one or is the first of a new code, and
\* the count that reaches RotateAfter takes the code out of use.
LEMMA CodeStep ==
    ASSUME TypeOK, CodeInv, [Next]_vars
    PROVE  CodeInv'
<1>. DEFINE room == (RotateAfter - 1) * confirms
<1>0. /\ code \in Nat /\ answered \in Nat /\ guesses \in Nat /\ confirms \in Nat
      /\ failures_on_code \in 0..(RotateAfter - 1) /\ RotateAfter \in Nat \ {0}
  BY LimiterAssumption DEF TypeOK
<1>a. /\ room \in Nat /\ (RotateAfter - 1) * 0 = 0
      /\ (RotateAfter - 1) * (confirms + 1) = room + (RotateAfter - 1)
  BY <1>0, RoomPerConfirm
<1>b. /\ answered <= code
      /\ guesses <= RotateAfter + room
      /\ code = answered => guesses <= failures_on_code + room
      /\ code # answered => failures_on_code = 0
      /\ attempt = "confirmed" => failures_on_code = 0
  BY DEF CodeInv
<1>1. ASSUME NEW r \in BOOLEAN, Reply(r)
      PROVE  CodeInv'
  <2>1. /\ answered' = code /\ attempt' = "replied"
        /\ guesses' = IF code = answered THEN guesses + 1 ELSE 1
        /\ confirms' = IF code = answered THEN confirms ELSE 0
        /\ code' = IF failures_on_code + 1 >= RotateAfter THEN code + 1 ELSE code
        /\ failures_on_code' = IF failures_on_code + 1 >= RotateAfter THEN 0 ELSE failures_on_code + 1
    BY <1>1 DEF Reply, RecordFailure, RotateCode
  <2>2. guesses' <= failures_on_code + 1 + (RotateAfter - 1) * confirms'
    <3>1. CASE code = answered
      <4>1. (RotateAfter - 1) * confirms' = room /\ guesses' = guesses + 1
        BY <2>1, <3>1
      <4>. HIDE DEF room
      <4>. QED  BY <1>0, <1>a, <1>b, <3>1, <4>1
    <3>2. CASE code # answered
      <4>1. (RotateAfter - 1) * confirms' = 0 /\ guesses' = 1 /\ failures_on_code = 0
        BY <1>a, <1>b, <2>1, <3>2
      <4>. QED  BY <4>1
    <3>. QED  BY <3>1, <3>2
  <2>3. (RotateAfter - 1) * confirms' \in Nat /\ guesses' \in Nat
    BY <1>0, <1>a, <2>1
  <2>. DEFINE room1 == (RotateAfter - 1) * confirms'
  <2>4. /\ answered' <= code'
        /\ guesses' <= RotateAfter + room1
        /\ code' = answered' => guesses' <= failures_on_code' + room1
        /\ code' # answered' => failures_on_code' = 0
    <3>. HIDE DEF room1
    <3>1. guesses' <= failures_on_code + 1 + room1 /\ room1 \in Nat /\ guesses' \in Nat
      BY <2>2, <2>3 DEF room1
    <3>2. CASE failures_on_code + 1 >= RotateAfter
      BY <1>0, <2>1, <3>1, <3>2
    <3>3. CASE ~(failures_on_code + 1 >= RotateAfter)
      BY <1>0, <2>1, <3>1, <3>3
    <3>. QED  BY <3>2, <3>3
  <2>. QED  BY <2>1, <2>4 DEF CodeInv
<1>2. CASE Unconfirmed
  BY <1>2 DEF Unconfirmed, limiter, history, CodeInv
<1>3. CASE Confirmed
  <2>1. /\ code' = code /\ answered' = answered /\ guesses' = guesses /\ failures_on_code' = 0
        /\ (RotateAfter - 1) * confirms' = room + (RotateAfter - 1)
    BY <1>3, <1>a DEF Confirmed, RecordSuccess
  <2>. HIDE DEF room
  <2>2. /\ guesses' <= RotateAfter + (room + (RotateAfter - 1))
        /\ code' = answered' => guesses' <= failures_on_code' + (room + (RotateAfter - 1))
    BY <1>0, <1>a, <1>b, <2>1
  <2>. QED  BY <1>b, <2>1, <2>2 DEF CodeInv
<1>4. ASSUME NEW accepted \in BOOLEAN, Finish(accepted)
      PROVE  CodeInv'
  <2>1. /\ failures_on_code' = 0 /\ failures_on_code = 0 /\ attempt' = "idle"
        /\ answered' = answered /\ guesses' = guesses /\ confirms' = confirms
        /\ code' = code \/ code' = code + 1
    BY <1>4, <1>b DEF Finish, limiter, history
  <2>2. answered' <= code' /\ (code' = answered' => code = answered)
    BY <1>0, <1>b, <2>1
  <2>. QED  BY <1>b, <2>1, <2>2 DEF CodeInv
<1>5. CASE Tick
  BY <1>5 DEF Tick, limiter, history, CodeInv
<1>6. CASE UNCHANGED vars
  BY <1>6 DEF vars, limiter, history, CodeInv
<1>. QED  BY <1>1, <1>2, <1>3, <1>4, <1>5, <1>6 DEF Next

\* A code is out of use once it has answered RotateAfter Replies, RotateAfter - 1 more
\* for every time it was confirmed (session.rs:144-153, attempts.rs:53-56).
THEOREM FreshCodeAlways == Spec => []FreshCode
<1>1. Init => CodeInv
  <2>1. (RotateAfter - 1) * 0 = 0
    BY RoomPerConfirm
  <2>. QED  BY <2>1, LimiterAssumption DEF Init, CodeInv
<1>2. LimiterInv => TypeOK
  BY DEF LimiterInv
<1>3. CodeInv => FreshCode
  BY DEF CodeInv, FreshCode
<1>. QED  BY <1>1, <1>2, <1>3, CodeStep, LimiterInvariant, PTL DEF Spec

\* No refused viewer is asked to wait longer than Cap.
THEOREM LockoutAlwaysBounded == Spec => []LockoutBounded
<1>1. LimiterInv => LockoutBounded
  <2>1. Second * Cap \in Nat
    BY SecondType, LimiterAssumption
  <2>. QED  BY <2>1 DEF LimiterInv, TypeOK, LockoutBounded, Refused, Remaining
<1>. QED  BY <1>1, LimiterInvariant, PTL

\* The limiter's counters and times keep their types; the count of the code stays
\* below the limit at which record_failure replaces the code (attempts.rs:53).
THEOREM LimiterTypes == Spec => []TypeOK
<1>1. LimiterInv => TypeOK  BY DEF LimiterInv
<1>. QED  BY <1>1, LimiterInvariant, PTL

\* Unconfirmed Replies are spaced by the backoff, across code replacements too.
THEOREM RepliesSpaced == Spec => ReplySpacing
<1>1. ASSUME LimiterInv, [Next]_vars
      PROVE  [consecutive_failures' > consecutive_failures /\ consecutive_failures > 0
                => lastAt' >= lastAt + Second * Backoff(consecutive_failures)]_vars
  <2>1. ASSUME NEW r \in BOOLEAN, Reply(r), consecutive_failures > 0
        PROVE  lastAt' >= lastAt + Second * Backoff(consecutive_failures)
    <3>1. wait_until = lastAt + Second * Backoff(consecutive_failures) /\ consecutive_failures \in Nat \ {0}
      BY <1>1, <2>1 DEF LimiterInv, TypeOK
    <3>2. Second * Backoff(consecutive_failures) \in Nat
      <4>1. Backoff(consecutive_failures) \in Nat /\ Second \in Nat
        BY <3>1, BackoffRange, SecondType
      <4>. QED  BY <4>1
    <3>3. wait_until \in Nat /\ wait_until # NoWait /\ now \in Nat /\ lastAt' = now
      BY <1>1, <2>1, <3>1, <3>2, LimiterAssumption DEF LimiterInv, TypeOK, Reply
    <3>. QED  BY <2>1, <3>1, <3>3 DEF Reply, Refused
  <2>2. CASE Unconfirmed \/ Confirmed \/ Tick \/ UNCHANGED vars
    BY <1>1, <2>2 DEF Unconfirmed, Confirmed, RecordSuccess, Tick, vars, limiter, LimiterInv, TypeOK
  <2>3. ASSUME NEW accepted \in BOOLEAN, Finish(accepted)
        PROVE  ~(consecutive_failures' > consecutive_failures)
    BY <1>1, <2>3 DEF Finish, limiter, LimiterInv, TypeOK
  <2>. QED  BY <1>1, <2>1, <2>2, <2>3 DEF Next
<1>. QED  BY <1>1, LimiterInvariant, PTL DEF Spec, ReplySpacing

\* Rounding up to whole units: the rounded value covers what it rounds and one unit less
\* does not (Duration::as_nanos().div_ceil in check).
LEMMA RoundedUp ==
    ASSUME NEW n \in Nat \ {0}, NEW b \in Nat \ {0}
    PROVE  LET q == (n + b - 1) \div b
           IN  q \in Nat \ {0} /\ q * b \in Nat /\ q * b >= n /\ (q - 1) * b \in Nat /\ (q - 1) * b < n
<1>. DEFINE q == (n + b - 1) \div b
            r == (n + b - 1) % b
<1>1. q \in Int /\ r \in 0..(b - 1) /\ n + b - 1 = b * q + r
  <2>. DEFINE x == n + b - 1
  <2>1. x \in Nat /\ b \in Nat /\ b > 0
    OBVIOUS
  <2>. HIDE DEF x
  <2>2. x \div b \in Int /\ x % b \in 0..(b - 1)
    BY <2>1
  <2>3. x = b * (x \div b) + (x % b)
    BY <2>1
  <2>. QED  BY <2>2, <2>3 DEF x
<1>. HIDE DEF q, r
<1>2. q > 0
  <2>. SUFFICES ASSUME q <= 0 PROVE FALSE
    BY <1>1
  <2>1. b * q <= 0
    BY <1>1
  <2>. QED  BY <1>1, <2>1
<1>3. b * q = q * b /\ (q - 1) * b = q * b - b
  BY <1>1
<1>4. q - 1 \in Nat /\ (q - 1) * b \in Nat /\ q * b \in Nat
  BY <1>1, <1>2
<1>. QED  BY <1>1, <1>2, <1>3, <1>4 DEF q

\* The wait RetryAfter announces is enough, and not a millisecond too long, whenever a
\* viewer is refused (session.rs:131-134).
THEOREM RetryAfterAlwaysSuffices == Spec => []RetryAfterSuffices
<1>1. LimiterInv => RetryAfterSuffices
  <2>. SUFFICES ASSUME LimiterInv, Refused(now)
                PROVE  /\ RetryAfter(now) > 0
                       /\ ~Refused(now + RetryAfter(now) * TicksPerMs)
                       /\ Refused(now + (RetryAfter(now) - 1) * TicksPerMs)
    BY DEF RetryAfterSuffices
  <2>1. now \in Nat /\ wait_until \in Nat /\ Remaining(now) \in Nat \ {0} /\ wait_until # NoWait
    BY DEF LimiterInv, TypeOK, Refused, Remaining
  <2>. DEFINE q == RetryAfter(now)
  <2>2. /\ q \in Nat \ {0} /\ q * TicksPerMs \in Nat /\ q * TicksPerMs >= Remaining(now)
        /\ (q - 1) * TicksPerMs \in Nat /\ (q - 1) * TicksPerMs < Remaining(now)
    BY <2>1, RoundedUp, LimiterAssumption DEF RetryAfter
  <2>. HIDE DEF q
  <2>3. Remaining(now) = wait_until - now
    BY DEF Remaining
  <2>4. ~(now + q * TicksPerMs < wait_until) /\ now + (q - 1) * TicksPerMs < wait_until
    BY <2>1, <2>2, <2>3
  <2>5. q > 0
    BY <2>2
  <2>. QED  BY <2>1, <2>4, <2>5 DEF Refused, q
<1>. QED  BY <1>1, LimiterInvariant, PTL

-----------------------------------------------------------------------------
(* The backoff series.  TotalWait is a recursive function; that it satisfies its     *)
(* equation is proved by induction, which the provers know as a fact about sets.     *)

\* The least number principle.
LEMMA LeastNat ==
    ASSUME NEW T \in SUBSET Nat, T # {}
    PROVE  \E x \in T : \A y \in T : x <= y
<1>. DEFINE R == {ss \in Nat \X Nat : ss[1] < ss[2]}
<1>1. IsWellFoundedOn(R, Nat)
  BY NatLessThanWellFounded DEF OpToRel
<1>2. PICK x \in T : \A y \in T : ~(<<y, x>> \in R)
  <2>. HIDE DEF R
  <2>. QED  BY <1>1, WFMin
<1>3. ASSUME NEW y \in T PROVE x <= y
  <2>1. <<y, x>> \in Nat \X Nat /\ ~(<<y, x>> \in R)
    BY <1>2
  <2>2. ~(<<y,x>>[1] < <<y,x>>[2])
    BY <2>1
  <2>3. ~(y < x)
    BY <2>2
  <2>. QED  BY <2>3
<1>. QED  BY <1>3

\* Induction over the natural numbers, as a fact about sets.
LEMMA SetInduction ==
    ASSUME NEW T \in SUBSET Nat, 0 \in T, \A n \in T : n + 1 \in T
    PROVE  T = Nat
<1>. SUFFICES ASSUME Nat \ T # {} PROVE FALSE
  OBVIOUS
<1>1. PICK x \in Nat \ T : \A y \in Nat \ T : x <= y
  BY LeastNat
<1>2. x # 0 /\ x - 1 \in Nat /\ x - 1 \notin Nat \ T
  BY <1>1
<1>3. x - 1 \in T /\ (x - 1) + 1 = x
  BY <1>2
<1>. QED  BY <1>1, <1>3

\* g adds up the waits b, as far as the n-th Reply of a series.
Series(g, b, n) ==
    g \in [0..n -> Nat] /\ \A k \in 0..n : g[k] = IF k <= 1 THEN 0 ELSE g[k - 1] + b[k - 1]

\* There is a series of any length for any backoffs.
LEMMA SeriesExists ==
    ASSUME NEW b \in [Nat \ {0} -> Nat]
    PROVE  \A n \in Nat : \E g : Series(g, b, n)
<1>. DEFINE T == {n \in Nat : \E g : Series(g, b, n)}
<1>1. 0 \in T
  <2>1. Series([k \in 0..0 |-> 0], b, 0)
    BY DEF Series
  <2>. QED  BY <2>1
<1>2. ASSUME NEW n \in T PROVE n + 1 \in T
  <2>1. PICK g : Series(g, b, n)
    OBVIOUS
  <2>. DEFINE x == IF n + 1 <= 1 THEN 0 ELSE g[n] + b[n]
              h == [k \in 0..(n + 1) |-> IF k <= n THEN g[k] ELSE x]
  <2>2. x \in Nat
    BY <2>1 DEF Series
  <2>3. h \in [0..(n + 1) -> Nat]
    BY <2>1, <2>2 DEF Series
  <2>4. ASSUME NEW k \in 0..(n + 1) PROVE h[k] = IF k <= 1 THEN 0 ELSE h[k - 1] + b[k - 1]
    <3>1. CASE k <= n
      <4>1. h[k] = g[k] /\ k \in 0..n
        BY <3>1
      <4>2. k > 1 => h[k - 1] = g[k - 1]
        BY <3>1
      <4>. QED  BY <2>1, <4>1, <4>2 DEF Series
    <3>2. CASE k = n + 1
      <4>1. h[k] = x /\ k - 1 = n /\ h[n] = g[n]
        BY <3>2
      <4>. QED  BY <3>2, <4>1
    <3>. QED  BY <3>1, <3>2
  <2>5. Series(h, b, n + 1)
    BY <2>3, <2>4 DEF Series
  <2>. QED  BY <2>5
<1>3. T = Nat
  <2>1. T \in SUBSET Nat
    OBVIOUS
  <2>. HIDE DEF T
  <2>. QED  BY <1>1, <1>2, <2>1, SetInduction
<1>. QED  BY <1>3

\* The last entry of a series, in terms of the one before it.
LEMMA SeriesLast ==
    ASSUME NEW b, NEW n \in Nat, NEW g, Series(g, b, n)
    PROVE  g \in [0..n -> Nat] /\ g[n] = IF n <= 1 THEN 0 ELSE g[n - 1] + b[n - 1]
<1>1. n \in 0..n
  OBVIOUS
<1>. QED  BY <1>1 DEF Series

\* Two series of the same backoffs agree wherever both are defined.
LEMMA SeriesUnique ==
    ASSUME NEW b \in [Nat \ {0} -> Nat], NEW n \in Nat, NEW m \in Nat, NEW g, NEW h,
           Series(g, b, n), Series(h, b, m), NEW k \in Nat, k <= n, k <= m
    PROVE  g[k] = h[k]
<1>. DEFINE T == {i \in Nat : i <= n /\ i <= m => g[i] = h[i]}
<1>1. 0 \in T
  BY DEF Series
<1>2. ASSUME NEW i \in T PROVE i + 1 \in T
  <2>. SUFFICES ASSUME i + 1 <= n, i + 1 <= m PROVE g[i + 1] = h[i + 1]
    OBVIOUS
  <2>1. i + 1 \in 0..n /\ i + 1 \in 0..m /\ (i + 1) - 1 = i /\ g[i] = h[i]
    OBVIOUS
  <2>. QED  BY <2>1 DEF Series
<1>3. T = Nat
  <2>1. T \in SUBSET Nat
    OBVIOUS
  <2>. HIDE DEF T
  <2>. QED  BY <1>1, <1>2, <2>1, SetInduction
<1>. QED  BY <1>3

\* TotalWait satisfies the equation that defines it: each further Reply waits for the
\* backoff of the one before it.
LEMMA TotalWaitEquation ==
    /\ TotalWait[1] = 0
    /\ \A n \in Nat \ {0} : TotalWait[n] \in Nat /\ TotalWait[n + 1] = TotalWait[n] + Backoff(n)
<1>. DEFINE b == [n \in Nat \ {0} |-> Backoff(n)]
            s(n) == CHOOSE g : Series(g, b, n)
            f == [n \in Nat |-> s(n)[n]]
<1>1. b \in [Nat \ {0} -> Nat]
  BY BackoffRange, LimiterAssumption
<1>2. \A n \in Nat : Series(s(n), b, n)
  <2>. HIDE DEF b
  <2>. QED  BY <1>1, SeriesExists
<1>3. ASSUME NEW n \in Nat PROVE f[n] \in Nat /\ f[n] = IF n <= 1 THEN 0 ELSE f[n - 1] + Backoff(n - 1)
  <2>. HIDE DEF s
  <2>1. s(n) \in [0..n -> Nat] /\ s(n)[n] = IF n <= 1 THEN 0 ELSE s(n)[n - 1] + b[n - 1]
    <3>. HIDE DEF b
    <3>. QED  BY <1>2, SeriesLast
  <2>2. CASE n <= 1
    BY <2>1, <2>2
  <2>3. CASE n > 1
    <3>1. n - 1 \in Nat /\ n - 1 <= n
      BY <2>3
    <3>2. s(n)[n - 1] = s(n - 1)[n - 1]
      <4>. HIDE DEF b
      <4>. QED  BY <1>1, <1>2, <3>1, SeriesUnique
    <3>3. b[n - 1] = Backoff(n - 1)
      BY <2>3
    <3>. QED  BY <2>1, <2>3, <3>1, <3>2, <3>3
  <2>. QED  BY <2>2, <2>3
<1>. HIDE DEF f
<1>4. f = [n \in Nat |-> IF n <= 1 THEN 0 ELSE f[n - 1] + Backoff(n - 1)]
  <2>1. f = [n \in Nat |-> f[n]]
    BY DEF f
  <2>. QED  BY <1>3, <2>1
<1>5. TotalWait = [n \in Nat |-> IF n <= 1 THEN 0 ELSE TotalWait[n - 1] + Backoff(n - 1)]
  BY <1>4 DEF TotalWait
<1>. DEFINE T == {n \in Nat : TotalWait[n] \in Nat}
<1>6. T = Nat
  <2>1. 0 \in T
    BY <1>5
  <2>2. ASSUME NEW n \in T PROVE n + 1 \in T
    <3>1. n = 0 => TotalWait[n + 1] = 0
      BY <1>5
    <3>2. n # 0 => TotalWait[n + 1] = TotalWait[n] + Backoff(n) /\ Backoff(n) \in Nat
      <4>. SUFFICES ASSUME n # 0 PROVE TotalWait[n + 1] = TotalWait[n] + Backoff(n) /\ Backoff(n) \in Nat
        OBVIOUS
      <4>1. n + 1 \in Nat /\ ~(n + 1 <= 1) /\ (n + 1) - 1 = n
        OBVIOUS
      <4>2. Backoff(n) \in Nat
        BY BackoffRange, LimiterAssumption
      <4>. QED  BY <1>5, <4>1, <4>2
    <3>. QED  BY <3>1, <3>2
  <2>3. T \in SUBSET Nat
    OBVIOUS
  <2>. HIDE DEF T
  <2>. QED  BY <2>1, <2>2, <2>3, SetInduction
<1>7. ASSUME NEW n \in Nat \ {0} PROVE TotalWait[n + 1] = TotalWait[n] + Backoff(n)
  <2>1. n + 1 \in Nat /\ ~(n + 1 <= 1) /\ (n + 1) - 1 = n
    OBVIOUS
  <2>. QED  BY <1>5, <2>1
<1>8. TotalWait[1] = 0
  BY <1>5
<1>. QED  BY <1>6, <1>7, <1>8

\* GuessRate in a form a step preserves: the last Reply is not in the future.
SeriesInv ==
    /\ lastAt <= now
    /\ consecutive_failures > 0 => lastAt >= firstAt + Second * TotalWait[consecutive_failures]

\* One more Reply adds one more wait to the series.
LEMMA SeriesStep ==
    ASSUME LimiterInv, SeriesInv, [Next]_vars
    PROVE  SeriesInv'
<1>0. /\ consecutive_failures \in Nat /\ now \in Nat /\ lastAt \in Nat /\ firstAt \in Nat
      /\ lastAt <= now
  BY DEF LimiterInv, TypeOK, SeriesInv
<1>1. ASSUME NEW r \in BOOLEAN, Reply(r) PROVE SeriesInv'
  <2>. DEFINE n == consecutive_failures
  <2>1. consecutive_failures' = n + 1 /\ lastAt' = now /\ now' = now
    BY <1>1 DEF Reply, RecordFailure
  <2>2. CASE n = 0
    <3>1. firstAt' = now /\ consecutive_failures' = 1
      BY <1>1, <2>2 DEF Reply, RecordFailure
    <3>2. Second * 0 = 0 /\ TotalWait[1] = 0
      BY SecondType, TotalWaitEquation
    <3>. QED  BY <1>0, <2>1, <3>1, <3>2 DEF SeriesInv
  <2>3. CASE n > 0
    <3>1. firstAt' = firstAt /\ ~Refused(now)
      BY <1>0, <1>1, <2>3 DEF Reply
    <3>2. wait_until = lastAt + Second * Backoff(n)
      BY <2>3 DEF LimiterInv
    <3>3. Backoff(n) \in Nat /\ Backoff(n) >= 1 /\ Second \in Nat
      BY <1>0, <2>3, BackoffRange, SecondType
    <3>4. Second * Backoff(n) \in Nat /\ Second * Backoff(n) >= 1
      <4>1. Second * 1 <= Second * Backoff(n) /\ Second * Backoff(n) \in Nat
        BY <3>3, TicksMonotone
      <4>. QED  BY <3>3, <4>1, SecondType
    <3>5. now >= lastAt + Second * Backoff(n)
      BY <1>0, <3>1, <3>2, <3>4, LimiterAssumption DEF Refused
    <3>6. lastAt >= firstAt + Second * TotalWait[n]
      BY <2>3 DEF SeriesInv
    <3>8. TotalWait[n] \in Nat /\ TotalWait[n + 1] = TotalWait[n] + Backoff(n)
      BY <1>0, <2>3, TotalWaitEquation
    <3>9. Second * TotalWait[n + 1] = Second * TotalWait[n] + Second * Backoff(n)
      BY <3>3, <3>8
    <3>10. Second * TotalWait[n] \in Nat
      BY <3>3, <3>8
    <3>11. now >= firstAt + Second * TotalWait[n + 1]
      BY <1>0, <3>4, <3>5, <3>6, <3>9, <3>10
    <3>. QED  BY <1>0, <2>1, <3>1, <3>11 DEF SeriesInv
  <2>. QED  BY <1>0, <2>2, <2>3
<1>2. CASE Unconfirmed
  BY <1>2 DEF Unconfirmed, limiter, history, SeriesInv
<1>3. CASE Confirmed
  BY <1>0, <1>3 DEF Confirmed, RecordSuccess, SeriesInv
<1>4. ASSUME NEW accepted \in BOOLEAN, Finish(accepted) PROVE SeriesInv'
  BY <1>4 DEF Finish, limiter, history, SeriesInv
<1>5. CASE Tick
  <2>1. now' \in Nat /\ lastAt' <= now'
    BY <1>0, <1>5 DEF Tick, history
  <2>. QED  BY <1>5, <2>1 DEF Tick, limiter, history, SeriesInv
<1>6. CASE UNCHANGED vars
  BY <1>6 DEF vars, limiter, history, SeriesInv
<1>. QED  BY <1>1, <1>2, <1>3, <1>4, <1>5, <1>6 DEF Next

\* However many codes a guesser who never confirms gets to see, k Replies take at least
\* the k - 1 waits between them: the lockout grows across replaced codes
\* (attempts.rs:41-58, session.rs:131-154).
THEOREM GuessRateHolds == Spec => []GuessRate
<1>1. Init => SeriesInv
  BY LimiterAssumption DEF Init, SeriesInv
<1>2. LimiterInv /\ SeriesInv => GuessRate
  <2>. SUFFICES ASSUME LimiterInv, SeriesInv, consecutive_failures > 0
                PROVE  lastAt - firstAt >= Second * TotalWait[consecutive_failures]
    BY DEF GuessRate
  <2>. DEFINE w == TotalWait[consecutive_failures]
  <2>1. w \in Nat /\ Second \in Nat /\ lastAt \in Nat /\ firstAt \in Nat /\ lastAt >= firstAt + Second * w
    BY SecondType, TotalWaitEquation DEF LimiterInv, TypeOK, SeriesInv
  <2>. HIDE DEF w
  <2>2. Second * w \in Nat
    BY <2>1
  <2>3. lastAt - firstAt >= Second * w
    BY <2>1, <2>2
  <2>. QED  BY <2>3 DEF w
<1>. QED  BY <1>1, <1>2, LimiterInvariant, SeriesStep, PTL DEF Spec
=============================================================================
