--------------------------- MODULE AttemptLimiter ---------------------------
(***************************************************************************)
(* The guess limiter of apps/host-agent/src/attempts.rs together with the  *)
(* way session.rs drives it: check before an attempt, record_failure before*)
(* the Reply leaves (a viewer with a wrong code learns so from the Reply   *)
(* and need not come back), record_success when the viewer's MAC is right, *)
(* a new code on the fifth failure and after an accepted session.          *)
(*                                                                         *)
(* Attempts are served one at a time.  Time is counted in ticks; the code's*)
(* tick is a nanosecond.                                                   *)
(***************************************************************************)
EXTENDS Naturals

CONSTANTS
    TicksPerMs,   \* 1_000_000 in the code
    MsPerSecond,  \* 1000 in the code
    Cap,          \* longest wait in seconds, 86_400 in the code
    ShiftLimit,   \* exponent from which the wait is Cap, 17 in the code
    RotateAfter,  \* failures on one code before it is replaced, 5 in the code
    Horizon,      \* bound: last tick of the model's clock
    MaxCode,      \* bound: codes generated while guesses go on
    MaxConfirms,  \* bound: times one code is confirmed
    NoWait        \* wait_until: None

ASSUME LimiterAssumption ==
    /\ TicksPerMs \in Nat \ {0} /\ MsPerSecond \in Nat \ {0}
    /\ Cap \in Nat \ {0} /\ ShiftLimit \in Nat /\ RotateAfter \in Nat \ {0}
    /\ Horizon \in Nat /\ MaxCode \in Nat /\ MaxConfirms \in Nat
    /\ NoWait \notin Nat
\* `1u64 << e` does not overflow for the exponents that are shifted.
ASSUME ShiftAssumption == \A e \in 0..ShiftLimit : 2 ^ e \in Nat \ {0}

VARIABLES
    consecutive_failures,
    failures_on_code,
    wait_until,
    now,      \* Instant::now()
    code,     \* which generated code is current: 0 for the first, 1 for the next, ...
    attempt,  \* "idle", or "replied": a Reply is out and no verdict is in
    right,    \* does the viewer being served use the code the Reply was computed from?
    firstAt,  \* history: when the first Reply since the last confirmed one left
    lastAt,   \* history: when the last Reply left
    answered, \* history: the code the last Reply was computed from
    guesses,  \* history: Replies computed from the code `answered`
    confirms  \* history: those of them whose viewer sent the right MAC

limiter == <<consecutive_failures, failures_on_code, wait_until>>
history == <<firstAt, lastAt, answered, guesses, confirms>>
vars == <<limiter, now, code, attempt, right, history>>
-----------------------------------------------------------------------------
Second == TicksPerMs * MsPerSecond

Lesser(a, b) == IF a <= b THEN a ELSE b

\* Mutant of Backoff: the largest shift is let through uncapped.
BackoffUncapped(n) == IF n - 1 > ShiftLimit THEN Cap ELSE 2 ^ (n - 1)

\* The wait after the n-th consecutive failure, in seconds.
Backoff(n) == IF n - 1 >= ShiftLimit THEN Cap ELSE Lesser(2 ^ (n - 1), Cap)

\* AttemptLimiter::check at time t: is the attempt refused, and for how long.
Refused(t) == wait_until # NoWait /\ t < wait_until
Remaining(t) == wait_until - t

\* Mutant of RetryAfter: rounded down.
RetryAfterFloor(t) == Remaining(t) \div TicksPerMs

\* The `ms` of RetryAfter: what remains, rounded up to whole milliseconds.
RetryAfter(t) == (Remaining(t) + TicksPerMs - 1) \div TicksPerMs

\* Mutants of RecordFailure: the count of the code never starts again; the wait
\* follows the count of the code; a replaced code needs no wait.
RecordFailureNoReset ==
    /\ consecutive_failures' = consecutive_failures + 1
    /\ failures_on_code' = failures_on_code + 1
    /\ wait_until' = now + Second * Backoff(consecutive_failures + 1)
RecordFailurePerCode ==
    /\ consecutive_failures' = consecutive_failures + 1
    /\ failures_on_code' = IF failures_on_code + 1 >= RotateAfter THEN 0 ELSE failures_on_code + 1
    /\ wait_until' = now + Second * Backoff(failures_on_code + 1)
RecordFailureFreshCodeFree ==
    /\ consecutive_failures' = consecutive_failures + 1
    /\ failures_on_code' = IF failures_on_code + 1 >= RotateAfter THEN 0 ELSE failures_on_code + 1
    /\ wait_until' = IF failures_on_code + 1 >= RotateAfter THEN NoWait
                     ELSE now + Second * Backoff(consecutive_failures + 1)

\* AttemptLimiter::record_failure.
RecordFailure ==
    /\ consecutive_failures' = consecutive_failures + 1
    /\ failures_on_code' = IF failures_on_code + 1 >= RotateAfter THEN 0 ELSE failures_on_code + 1
    /\ wait_until' = now + Second * Backoff(consecutive_failures + 1)

\* Mutant of RotateCode: one failure late.
RotateCodeLate == failures_on_code + 1 > RotateAfter

RotateCode == failures_on_code + 1 >= RotateAfter

\* AttemptLimiter::record_success.
RecordSuccess ==
    /\ consecutive_failures' = 0
    /\ failures_on_code' = 0
    /\ wait_until' = NoWait
-----------------------------------------------------------------------------
\* attempt() up to the Reply, for a viewer whose code is the current one or not.  The
\* Reply is computed before the failure is recorded, so from the code as it was.
Reply(r) ==
    /\ attempt = "idle"
    /\ ~Refused(now)
    /\ code < MaxCode
    /\ RecordFailure
    /\ code' = IF RotateCode THEN code + 1 ELSE code
    /\ attempt' = "replied"
    /\ right' = r
    /\ firstAt' = IF consecutive_failures = 0 THEN now ELSE firstAt
    /\ lastAt' = now
    /\ answered' = code
    /\ guesses' = IF code = answered THEN guesses + 1 ELSE 1
    /\ confirms' = IF code = answered THEN confirms ELSE 0
    /\ UNCHANGED now

\* The viewer leaves, sends nothing in time, or sends a wrong or malformed Confirm.
Unconfirmed ==
    /\ attempt = "replied"
    /\ attempt' = "idle"
    /\ UNCHANGED <<limiter, now, code, right, history>>

\* The viewer's MAC is right.
Confirmed ==
    /\ attempt = "replied" /\ right
    /\ confirms < MaxConfirms
    /\ RecordSuccess
    /\ attempt' = "confirmed"
    /\ confirms' = confirms + 1
    /\ UNCHANGED <<now, code, right, firstAt, lastAt, answered, guesses>>

\* The session is accepted, which uses up the code, or the attempt fails later on
\* (denied, timed out, malformed), which does not.
Finish(accepted) ==
    /\ attempt = "confirmed"
    /\ attempt' = "idle"
    /\ code' = IF accepted THEN code + 1 ELSE code
    /\ UNCHANGED <<limiter, now, right, history>>

Tick ==
    /\ now < Horizon
    /\ now' = now + 1
    /\ UNCHANGED <<limiter, code, attempt, right, history>>

Init ==
    /\ consecutive_failures = 0 /\ failures_on_code = 0 /\ wait_until = NoWait
    /\ now = 0 /\ code = 0 /\ attempt = "idle" /\ right = FALSE
    /\ firstAt = 0 /\ lastAt = 0 /\ answered = 0 /\ guesses = 0 /\ confirms = 0

Next ==
    \/ \E r \in BOOLEAN : Reply(r)
    \/ Unconfirmed
    \/ Confirmed
    \/ \E accepted \in BOOLEAN : Finish(accepted)
    \/ Tick

Spec == Init /\ [][Next]_vars
-----------------------------------------------------------------------------
TypeOK ==
    /\ consecutive_failures \in Nat
    /\ failures_on_code \in 0..(RotateAfter - 1)
    /\ wait_until \in Nat \cup {NoWait}
    /\ now \in Nat /\ code \in Nat
    /\ attempt \in {"idle", "replied", "confirmed"}
    /\ right \in BOOLEAN
    /\ firstAt \in Nat /\ lastAt \in Nat
    /\ answered \in Nat /\ guesses \in Nat /\ confirms \in Nat

TotalWait[n \in Nat] == IF n <= 1 THEN 0 ELSE TotalWait[n - 1] + Backoff(n - 1)

\* A guesser who never confirms is slowed down by the whole backoff series, over
\* however many codes: k Replies take at least the waits between them
\* (attempts.rs:41-58, session.rs:131-154).
GuessRate ==
    consecutive_failures > 0 => lastAt - firstAt >= Second * TotalWait[consecutive_failures]

\* Two Replies with no confirmed one between them are at least the announced wait
\* apart, whether or not the code was replaced in between.
ReplySpacing ==
    [][consecutive_failures' > consecutive_failures /\ consecutive_failures > 0
         => lastAt' >= lastAt + Second * Backoff(consecutive_failures)]_vars

\* Who does not know a code gets at most RotateAfter Replies computed from it, the last
\* of them after the code was replaced (session.rs:144-153).  Only a viewer that knows
\* it buys more: each confirmation clears the count of the code and leaves the code as
\* it is when the session is not accepted (session.rs:167, attempts.rs:61-65), which
\* makes room for RotateAfter - 1 further Replies.
FreshCode == guesses <= RotateAfter + (RotateAfter - 1) * confirms

\* What RetryAfter tells a refused viewer is enough: after that many milliseconds
\* the attempt is admitted, and a whole millisecond earlier it is not
\* (session.rs:131-134).
RetryAfterSuffices ==
    Refused(now) =>
        /\ RetryAfter(now) > 0
        /\ ~Refused(now + RetryAfter(now) * TicksPerMs)
        /\ Refused(now + (RetryAfter(now) - 1) * TicksPerMs)

\* Nobody is locked out for longer than Cap (attempts.rs:46-51).
LockoutBounded == Refused(now) => Remaining(now) <= Second * Cap
=============================================================================
