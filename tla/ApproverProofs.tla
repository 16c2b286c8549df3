--------------------------- MODULE ApproverProofs ---------------------------
(***************************************************************************)
(* The approval prompt's two threads agree on the line that is being read, *)
(* for any user and any number of questions.                               *)
(***************************************************************************)
EXTENDS Approver, TLAPS

Line == [word : Words, after : Nat, asking : BOOLEAN]
Answer == [at : Nat, line : Seq(Line)]

\* What a step needs to know of the queues and of the reader.
QueuesInv ==
    /\ reading \in BOOLEAN /\ open \in BOOLEAN /\ asks \in Nat
    /\ answers \in Seq(Answer)
    /\ reader \in {"waiting", "reading", "stamping"}
    /\ shown \in Nat /\ got \in Seq(Line) /\ input \in Seq(Line)

\* Requests, reader and answers keep their types (main.rs:115-169).
LEMMA QueuesStep ==
    ASSUME QueuesInv, [Next]_vars
    PROVE  QueuesInv'
<1>. USE DEF QueuesInv
<1>1. ASSUME NEW w \in Words, Type(w)
      PROVE  QueuesInv'
  <2>1. [word |-> w, after |-> shown, asking |-> open] \in Line
    BY DEF Line
  <2>. QED  BY <1>1, <2>1 DEF Type, question
<1>2. CASE TakeRequest
  BY <1>2 DEF TakeRequest, question, user
<1>3. CASE ReadLine
  <2>1. CASE input # <<>> /\ got' = <<Head(input)>> /\ input' = Tail(input)
    <3>1. Head(input) \in Line /\ input' \in Seq(Line)
      BY <2>1
    <3>2. got' \in Seq(Line)
      BY <2>1, <3>1
    <3>. QED  BY <1>3, <3>1, <3>2 DEF ReadLine, question
  <2>2. CASE got' = <<>> /\ UNCHANGED input
    BY <1>3, <2>2 DEF ReadLine, question
  <2>. QED  BY <1>3, <2>1, <2>2 DEF ReadLine
<1>4. CASE SendAnswer
  BY <1>4 DEF SendAnswer, question, user, Answer
<1>5. CASE Show
  BY <1>5 DEF Show, Request, user
<1>6. CASE DropStale
  BY <1>6 DEF DropStale, question, user
<1>7. CASE Verdict
  <2>1. answers # <<>> /\ answers' = Tail(answers) /\ reading' = FALSE /\ open' = FALSE
    BY <1>7 DEF Verdict
  <2>2. UNCHANGED <<shown, asks, reader, got, input>>
    BY <1>7 DEF Verdict, user
  <2>3. answers' \in Seq(Answer)
    BY <2>1
  <2>4. reading' \in BOOLEAN /\ open' \in BOOLEAN
    BY <2>1
  <2>. QED  BY <2>2, <2>3, <2>4, Zenon
<1>8. CASE CloseInput \/ GiveUp \/ EndQuestion \/ UNCHANGED vars
  BY <1>8 DEF CloseInput, GiveUp, EndQuestion, question, user, vars
<1>. QED  BY <1>1, <1>2, <1>3, <1>4, <1>5, <1>6, <1>7, <1>8 DEF Next

\* A step keeps exactly one request under way while `reading` is set, and none
\* otherwise: a request, the reader's work on it and its answer hand over to each other.
LEMMA OneRequestStep ==
    ASSUME QueuesInv, OneRequestInFlight, [Next]_vars
    PROVE  OneRequestInFlight'
<1>. USE DEF QueuesInv, OneRequestInFlight, Busy
<1>1. ASSUME NEW w \in Words, Type(w)
      PROVE  OneRequestInFlight'
  BY <1>1 DEF Type
<1>2. CASE TakeRequest
  BY <1>2 DEF TakeRequest
<1>3. CASE ReadLine
  BY <1>3 DEF ReadLine
<1>4. CASE SendAnswer
  BY <1>4 DEF SendAnswer, Answer
<1>5. CASE Show
  BY <1>5 DEF Show, Request
<1>6. CASE DropStale
  BY <1>6 DEF DropStale
<1>7. CASE Verdict
  BY <1>7 DEF Verdict
<1>8. CASE CloseInput \/ GiveUp \/ EndQuestion \/ UNCHANGED vars
  BY <1>8 DEF CloseInput, GiveUp, EndQuestion, vars
<1>. QED  BY <1>1, <1>2, <1>3, <1>4, <1>5, <1>6, <1>7, <1>8 DEF Next

\* The main thread's `reading` flag is right about the reader thread at all times.
THEOREM OneRequest == Spec => []OneRequestInFlight
<1>1. Init => QueuesInv /\ OneRequestInFlight
  <2>1. Init => QueuesInv
    <3>1. <<>> \in Seq(Line) /\ <<>> \in Seq(Answer)
      OBVIOUS
    <3>2. 0 \in Nat /\ FALSE \in BOOLEAN
      OBVIOUS
    <3>. QED  BY <3>1, <3>2, Zenon DEF Init, QueuesInv
  <2>2. Init => OneRequestInFlight
    <3>1. Init => asks = 0 /\ reader = "waiting" /\ answers = <<>> /\ ~reading
      BY DEF Init
    <3>. QED  BY <3>1 DEF OneRequestInFlight, Busy
  <2>. QED  BY <2>1, <2>2
<1>. QED  BY <1>1, QueuesStep, OneRequestStep, PTL DEF Spec
=============================================================================
