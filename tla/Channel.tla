------------------------------- MODULE Channel -------------------------------
(***************************************************************************)
(* The control data channel: Channel (crates/transport/src/channel.rs) on  *)
(* Peer (peer.rs), at both ends.  str0m and UDP under them are external:   *)
(* they are driven only inside a poll, carry messages reliably and in      *)
(* order while both ends are there, and resend nothing for an end that has *)
(* closed, so a close keeps some first part of what was on the way and may *)
(* itself get lost.                                                        *)
(*                                                                         *)
(* Messages are numbered in the order each side sends them.  Deadlines are *)
(* abstract: a wait that has nothing to return may run out at any moment.  *)
(***************************************************************************)
EXTENDS Naturals, Sequences, SequencesExt

CONSTANTS
    Host, Viewer,   \* the two ends; the viewer makes the offer
    MaxSent,        \* bound on the messages each end sends
    Buffer          \* what str0m takes for sending before it says no

ASSUME ChannelAssumption == Host # Viewer /\ MaxSent \in Nat /\ Buffer \in Nat \ {0}

VARIABLES
    wire,           \* on the way to each end
    events,         \* what str0m has for each end, not polled yet
    control,        \* Peer.control is set
    pending,        \* Channel.pending
    remote_closed,  \* Channel.remote_closed
    local_closed,   \* Channel.local_closed
    call,           \* "none", "wait_open" or "next"
    ready,          \* wait_open has returned Ready
    failed,         \* a call has returned an error
    sent,           \* how many each end sent
    got, over       \* history: what next returned, and that an end was told Closed

peer == <<wire, events, control>>
closing == <<remote_closed, local_closed, failed>>
history == <<sent, got, over>>
vars == <<peer, pending, closing, call, ready, history>>

Sides == {Host, Viewer}
Other(s) == IF s = Host THEN Viewer ELSE Host
Data(n) == <<"data", n>>
Connected == <<"connected", 0>>
Open == <<"open", 0>>       \* on the wire: the channel's open and its acknowledgement
Bye == <<"bye", 0>>         \* SCTP shutdown and close_notify
IsData(e) == e[1] = "data"
-----------------------------------------------------------------------------
(* str0m and the network. *)

(* Both ends are polled and reach each other; the offerer opens the channel. *)
Establish ==
    /\ \A s \in Sides : call[s] = "wait_open" /\ sent[s] = 0 /\ ~local_closed[s]
    /\ wire = [s \in Sides |-> <<>>] /\ events = [s \in Sides |-> <<>>]
    /\ \A s \in Sides : ~control[s] /\ ~remote_closed[s]
    /\ events' = [s \in Sides |-> <<Connected>>]
    /\ wire' = [wire EXCEPT ![Host] = <<Open>>]
    /\ UNCHANGED <<control, pending, closing, call, ready, history>>

(* pump_sockets: datagrams with the next n messages come in.  The answering *)
(* end acknowledges the channel.                                            *)
Receive(s, n) ==
    /\ call[s] # "none" /\ n \in 1 .. Len(wire[s])
    /\ LET in == SubSeq(wire[s], 1, n)
           acks == s = Host /\ Open \in Range(in) /\ ~local_closed[Viewer] IN
        /\ events' = [events EXCEPT ![s] = @ \o in]
        /\ wire' = [wire EXCEPT ![s] = SubSeq(@, n + 1, Len(@)),
                                ![Other(s)] = IF acks THEN Append(@, Open) ELSE @]
    /\ UNCHANGED <<control, pending, closing, call, ready, history>>
-----------------------------------------------------------------------------
(* Mutant of Keep: what comes in while the channel opens is not kept. *)
KeepOnceReady(s) == IF ready[s] THEN SelectSeq(events[s], IsData) ELSE <<>>

(* Peer.drain_output and map_event, then Channel.absorb: everything str0m   *)
(* has is taken at once.                                                    *)
Keep(s) == SelectSeq(events[s], IsData)

Has(s, e) == e \in Range(events[s])

Absorb(s) ==
    /\ events' = [events EXCEPT ![s] = <<>>]
    /\ control' = [control EXCEPT ![s] = @ \/ Has(s, Open)]
    /\ pending' = [pending EXCEPT ![s] = @ \o Keep(s)]
    /\ remote_closed' = [remote_closed EXCEPT ![s] = @ \/ Has(s, Bye)]

Begin(s) == /\ call[s] = "none" /\ ~local_closed[s] /\ ~failed[s]
            /\ call' = [call EXCEPT ![s] = IF ready[s] THEN "next" ELSE "wait_open"]
            /\ UNCHANGED <<peer, pending, closing, ready, history>>

Return(s) == call' = [call EXCEPT ![s] = "none"]

(* Nothing to return yet: the next thing is a poll, or the deadline. *)
Waits(s) == \/ call[s] = "wait_open" /\ ~remote_closed[s]
            \/ call[s] = "next" /\ pending[s] = <<>> /\ ~remote_closed[s]

(* wait_open is Ready as soon as a poll brought the opening. *)
Opens(s) == call[s] = "wait_open" /\ Has(s, Open)

Poll(s) ==
    /\ Waits(s) /\ events[s] # <<>>
    /\ Absorb(s)
    /\ IF Opens(s) THEN Return(s) /\ ready' = [ready EXCEPT ![s] = TRUE]
       ELSE UNCHANGED <<call, ready>>
    /\ UNCHANGED <<wire, local_closed, failed, history>>

(* An error of poll_output in the middle of drain_output loses the events   *)
(* drained before it (peer.rs:126); an error of a socket or of handle_input *)
(* comes when nothing was drained.  After either nothing more is asked for. *)
PollFails(s) ==
    /\ Waits(s) /\ Return(s)
    /\ failed' = [failed EXCEPT ![s] = TRUE]
    /\ events' = [events EXCEPT ![s] = <<>>]
    /\ control' = [control EXCEPT ![s] = @ \/ Has(s, Open)]
    /\ UNCHANGED <<wire, pending, remote_closed, local_closed, ready, history>>

TimesOut(s) == /\ Waits(s) /\ Return(s)
               /\ UNCHANGED <<peer, pending, closing, ready, history>>

NextMsg(s) ==
    /\ call[s] = "next" /\ pending[s] # <<>>
    /\ got' = [got EXCEPT ![s] = Append(@, Head(pending[s]))]
    /\ pending' = [pending EXCEPT ![s] = Tail(@)]
    /\ Return(s)
    /\ UNCHANGED <<peer, closing, ready, sent, over>>

(* Mutant of SaysClosed: next looks at remote_closed first, too. *)
SaysClosedFirst(s) == remote_closed[s]

(* wait_open looks at remote_closed alone, next at what is pending first. *)
SaysClosed(s) == remote_closed[s] /\ (call[s] = "wait_open" \/ pending[s] = <<>>)

TellClosed(s) ==
    /\ call[s] # "none" /\ SaysClosed(s)
    /\ over' = [over EXCEPT ![s] = TRUE]
    /\ Return(s)
    /\ UNCHANGED <<peer, pending, closing, ready, sent, got>>

(* Peer.send: refused with NoChannel or Backpressure, or on its way. *)
Send(s) ==
    /\ call[s] = "none" /\ ~local_closed[s] /\ ~failed[s]
    /\ control[s] /\ Len(wire[Other(s)]) < Buffer /\ sent[s] < MaxSent
    /\ sent' = [sent EXCEPT ![s] = @ + 1]
    /\ wire' = [wire EXCEPT ![Other(s)] = Append(@, Data(sent[s] + 1))]
    /\ UNCHANGED <<events, control, pending, closing, call, ready, got, over>>

(* Channel.close, and its drop: one poll gives out the shutdown and throws  *)
(* its events away; nothing is sent again after it.                         *)
Close(s, w, heard) ==
    /\ call[s] = "none" /\ ~local_closed[s] /\ IsPrefix(w, wire[Other(s)])
    /\ local_closed' = [local_closed EXCEPT ![s] = TRUE]
    /\ control' = [control EXCEPT ![s] = @ \/ Has(s, Open)]
    /\ events' = [events EXCEPT ![s] = <<>>]
    /\ wire' = [wire EXCEPT ![Other(s)] = IF heard THEN Append(w, Bye) ELSE w]
    /\ UNCHANGED <<pending, remote_closed, failed, call, ready, history>>

(* Its callers go on after no error and no Closed. *)
Calls(s) == Begin(s) /\ ~over[s]

Init == /\ wire = [s \in Sides |-> <<>>] /\ events = [s \in Sides |-> <<>>]
        /\ control = [s \in Sides |-> FALSE] /\ pending = [s \in Sides |-> <<>>]
        /\ remote_closed = [s \in Sides |-> FALSE] /\ local_closed = [s \in Sides |-> FALSE]
        /\ call = [s \in Sides |-> "none"] /\ ready = [s \in Sides |-> FALSE]
        /\ failed = [s \in Sides |-> FALSE] /\ sent = [s \in Sides |-> 0]
        /\ got = [s \in Sides |-> <<>>] /\ over = [s \in Sides |-> FALSE]

Receives(s) == \E n \in 1 .. Len(wire[s]) : Receive(s, n)
Closes(s) == \E n \in 0 .. Len(wire[Other(s)]), heard \in BOOLEAN :
                Close(s, SubSeq(wire[Other(s)], 1, n), heard)
Next == \/ Establish
        \/ \E s \in Sides : \/ Calls(s) \/ Receives(s) \/ Poll(s) \/ PollFails(s)
                            \/ TimesOut(s) \/ NextMsg(s) \/ TellClosed(s)
                            \/ Send(s) \/ Closes(s)

(* An end that has not given up calls again, and its deadlines leave time   *)
(* for a poll and for a datagram that is sent again and again.              *)
Fairness == \A s \in Sides :
    /\ WF_vars(Calls(s)) /\ WF_vars(NextMsg(s)) /\ WF_vars(TellClosed(s))
    /\ SF_vars(Poll(s)) /\ SF_vars(Receives(s))

Spec == Init /\ [][Next]_vars /\ Fairness
-----------------------------------------------------------------------------
(* The channel to end s as a pipe.  An end that closes or fails reads no    *)
(* more, which breaks its pipe.                                             *)
Gone(s)  == local_closed[s] \/ failed[s]
Queue(s) == IF Gone(s) THEN <<>>
            ELSE pending[s] \o SelectSeq(events[s] \o wire[s], IsData)
Ended(s) == IF Gone(s) \/ local_closed[Other(s)] THEN "closed" ELSE "no"
Over(s)  == IF over[s] THEN "closed" ELSE "no"
H == INSTANCE Pipe WITH NotYet <- "no", Broken <- "closed", queue <- Queue(Host),
        got <- got[Host], ended <- Ended(Host), over <- Over(Host)
V == INSTANCE Pipe WITH NotYet <- "no", Broken <- "closed", queue <- Queue(Viewer),
        got <- got[Viewer], ended <- Ended(Viewer), over <- Over(Viewer)

(* Each end gets what the other sent, in order, whatever came in while it   *)
(* was still waiting for the channel to open, and hears Closed only after   *)
(* all of it (channel.rs:48, :66).                                          *)
ImplementsPipe == H!Spec /\ V!Spec

(* An end that keeps calling next gets to the end of what reached it, even  *)
(* when the other end has closed meanwhile.                                 *)
ReadToTheEnd == \A s \in Sides : []<>(Queue(s) = <<>>)
=============================================================================
