-------------------------------- MODULE Pipe --------------------------------
(* What either transport promises the one who reads it: what was put in      *)
(* comes out in that order, each piece once; the end comes after everything  *)
(* that got through; and the end keeps the code it was given.  A broken line *)
(* may cut off the tail, never the middle.  WsLink (module Link) and the     *)
(* control channel (module Channel) implement it.                            *)
EXTENDS Sequences, SequencesExt

CONSTANTS NotYet, Broken    \* no end so far; the end nobody gave a code for

VARIABLES queue,            \* put in, not taken out yet
          got,              \* everything taken out, in order
          ended,            \* how the writer's side ended, or NotYet
          over              \* the end the reader was told of, or NotYet
pipe == <<queue, got, ended, over>>

Init == queue = <<>> /\ got = <<>> /\ ended = NotYet /\ over = NotYet

Put == /\ ended = NotYet
       /\ Len(queue') = Len(queue) + 1
       /\ IsPrefix(queue, queue')
       /\ UNCHANGED <<got, ended, over>>

Get == /\ queue # <<>> /\ over = NotYet
       /\ got' = Append(got, Head(queue))
       /\ queue' = Tail(queue)
       /\ UNCHANGED <<ended, over>>

(* The writer ends it: what it put in before stays. *)
End == /\ ended = NotYet /\ ended' # NotYet
       /\ UNCHANGED <<queue, got, over>>

(* The line breaks, before or after that: a tail may be lost, the code too. *)
Break == /\ over = NotYet /\ ended' = Broken
         /\ IsPrefix(queue', queue)
         /\ UNCHANGED <<got, over>>

(* The reader learns of the end, once nothing is left to read. *)
Over == /\ over = NotYet /\ ended # NotYet /\ queue = <<>>
        /\ over' = ended
        /\ UNCHANGED <<queue, got, ended>>

Next == Put \/ Get \/ End \/ Break \/ Over
Spec == Init /\ [][Next]_pipe
=============================================================================
