------------------------------ MODULE Approver ------------------------------
(***************************************************************************)
(* The approval prompt of apps/host-agent/src/main.rs: the main thread,    *)
(* which polls answer() while a viewer waits for the user's yes or no, and *)
(* the reader thread, which blocks in read_line once per request.          *)
(*                                                                         *)
(* Instants are compared only with the moment a question was shown, so the *)
(* clock counts the questions shown: a line is older than the question     *)
(* asked now exactly if its instant is a smaller number.                   *)
(***************************************************************************)
EXTENDS Integers, Sequences

CONSTANTS
    Words,        \* the lines the user types
    Yes,          \* the one that grants, "y"
    NotAsking,    \* asked_at: None; no question
    MaxQuestions, \* bound: questions shown
    MaxLines      \* bound: lines typed

ASSUME ApproverAssumption ==
    /\ Yes \in Words /\ NotAsking \notin Nat
    /\ MaxQuestions \in Nat /\ MaxLines \in Nat

VARIABLES
    shown,    \* the clock: questions shown so far
    asked_at, \* Approver.asked_at
    open,     \* wait_approval is polling answer()
    reading,  \* Approver.reading
    asks,     \* requests in the channel to the reader
    answers,  \* Approver.answers: lines with their instants
    reader,   \* reader thread: in recv, in read_line, or between it and send
    got,      \* what read_line returned, in a sequence; <<>> for end of input
    input,    \* lines typed and not read; for the properties each tells how many
              \* questions had been shown and whether one was open
    typed,    \* lines typed so far
    eof,      \* standard input was closed
    grants    \* history: the questions granted, each with the line that did it

vars == <<shown, asked_at, open, reading, asks, answers, reader, got, input, typed, eof, grants>>
question == <<shown, asked_at, open, grants>>
user == <<input, typed, eof>>
-----------------------------------------------------------------------------
(* The user.                                                               *)
Type(w) ==
    /\ ~eof /\ typed < MaxLines
    /\ typed' = typed + 1
    /\ input' = Append(input, [word |-> w, after |-> shown, asking |-> open])
    /\ UNCHANGED <<question, reading, asks, answers, reader, got, eof>>

CloseInput ==
    /\ ~eof /\ eof' = TRUE
    /\ UNCHANGED <<question, reading, asks, answers, reader, got, input, typed>>
-----------------------------------------------------------------------------
(* The reader thread.                                                      *)
TakeRequest ==
    /\ reader = "waiting" /\ asks > 0
    /\ asks' = asks - 1 /\ reader' = "reading"
    /\ UNCHANGED <<question, reading, answers, got, user>>

\* read_line returns a line, or Ok(0) at the end of the input.
ReadLine ==
    /\ reader = "reading"
    /\ \/ /\ input # <<>>
          /\ got' = <<Head(input)>> /\ input' = Tail(input)
       \/ /\ input = <<>> /\ eof
          /\ got' = <<>> /\ UNCHANGED input
    /\ reader' = "stamping"
    /\ UNCHANGED <<question, reading, asks, answers, typed, eof>>

\* Instant::now() and send: the main thread may have run since read_line returned.
SendAnswer ==
    /\ reader = "stamping"
    /\ answers' = Append(answers, [at |-> shown, line |-> got])
    /\ reader' = "waiting" /\ got' = <<>>
    /\ UNCHANGED <<question, reading, asks, user>>

ReaderThread == TakeRequest \/ ReadLine \/ SendAnswer
-----------------------------------------------------------------------------
(* The main thread.  An answer that arrives in the middle of a call is the *)
(* same as one found by the next call, so a call is one step.              *)
\* Mutant of Request: each call requests a line.
RequestAgain == asks' = asks + 1

Request == asks' = IF reading THEN asks ELSE asks + 1
First == Head(answers)

\* answer(), first call for a viewer: show the question and have a line read.  What
\* has arrived by now is dropped by the step that follows, DropStale.
Show ==
    /\ asked_at = NotAsking /\ shown < MaxQuestions
    /\ shown' = shown + 1 /\ asked_at' = shown + 1 /\ open' = TRUE
    /\ Request /\ reading' = TRUE
    /\ UNCHANGED <<answers, reader, got, user, grants>>

\* Mutant of DropStale: drop it and go on as if the request were still under way.
DropStaleOnly ==
    /\ open /\ answers # <<>> /\ First.at < asked_at
    /\ answers' = Tail(answers)
    /\ UNCHANGED <<question, reading, asks, reader, got, user>>

\* answer() finds a line from before the question: drop it and request another.
DropStale ==
    /\ open /\ answers # <<>> /\ First.at < asked_at
    /\ answers' = Tail(answers)
    /\ asks' = asks + 1
    /\ UNCHANGED <<question, reading, reader, got, user>>

\* answer() returns Some: wait_approval is over.
Verdict ==
    /\ open /\ answers # <<>> /\ First.at >= asked_at
    /\ answers' = Tail(answers) /\ reading' = FALSE
    /\ open' = FALSE
    /\ grants' = IF First.line # <<>> /\ First.line[1].word = Yes
                 THEN grants \cup {[question |-> asked_at, line |-> First.line[1]]}
                 ELSE grants
    /\ UNCHANGED <<shown, asked_at, asks, reader, got, user>>

\* wait_approval gives up: no response in time, or the viewer is gone.
GiveUp ==
    /\ open /\ open' = FALSE
    /\ UNCHANGED <<shown, asked_at, reading, asks, answers, reader, got, user, grants>>

\* serve_next returned: end_question().
EndQuestion ==
    /\ asked_at # NotAsking /\ ~open
    /\ asked_at' = NotAsking
    /\ UNCHANGED <<shown, open, reading, asks, answers, reader, got, user, grants>>

Poll == DropStale \/ Verdict
-----------------------------------------------------------------------------
Init ==
    /\ shown = 0 /\ asked_at = NotAsking /\ open = FALSE /\ reading = FALSE
    /\ asks = 0 /\ answers = <<>> /\ reader = "waiting" /\ got = <<>>
    /\ input = <<>> /\ typed = 0 /\ eof = FALSE /\ grants = {}

Next ==
    \/ \E w \in Words : Type(w)
    \/ CloseInput
    \/ TakeRequest \/ ReadLine \/ SendAnswer
    \/ Show \/ DropStale \/ Verdict \/ GiveUp \/ EndQuestion

\* Both threads are scheduled; the user need not type, nobody needs to give up.
Fairness == WF_vars(ReaderThread) /\ WF_vars(Poll)

Spec == Init /\ [][Next]_vars
FairSpec == Spec /\ Fairness
-----------------------------------------------------------------------------
Busy == IF reader = "waiting" THEN 0 ELSE 1

\* `reading` is right about the other thread: while it is set exactly one request is
\* in the channel, with the reader or answered, and otherwise none is.  A second one
\* would swallow a line typed for a later question (main.rs:118-119, 151-159).
OneRequestInFlight == asks + Busy + Len(answers) = IF reading THEN 1 ELSE 0

\* A line typed for the open question decides it, whatever older lines and requests
\* are still on their way (main.rs:150-169).
UserHeard == (open /\ \E i \in DOMAIN input : input[i].asking /\ input[i].after = shown)
               ~> ~open

\* "A `y` that comes in after the previous question ended must not grant the next
\* viewer" (main.rs:160, 228).  The code departs from it: a line nobody was reading
\* when it was typed is read, and stamped, once the next question is shown.
OnlyOwnLineGrants ==
    \A g \in grants : ~(g.line.after \in 1..(g.question - 1) /\ ~g.line.asking)
=============================================================================
