# Simple Remote: a TLA+ model of the first connection

Simple Remote lets a family member (the *viewer*) connect to a PC (the *host*).
The host registers at a signaling server under a 9-digit ID, shows the ID and a
one-time code, and serves the viewers that come in one at a time: SPAKE2 over
the signaling server, sealed SDP, a data channel, signed Hellos, and the user's
yes. This directory holds the specifications of that path, what TLC checks of
them on small instances, and what TLAPS proves for every value of the constants.

Paths are relative to the repository; `host-room.ts`, `session.rs`,
`connect.rs`, `attempts.rs` and `main.rs` stand for `signaling/src/host-room.ts`,
`apps/host-agent/src/session.rs`, `crates/viewer-core/src/connect.rs`,
`apps/host-agent/src/attempts.rs` and `apps/host-agent/src/main.rs`.

## Inventory

| Component | State | Operations | Talks to | What is hard | What makes it correct |
|---|---|---|---|---|---|
| Signaling room (`host-room.ts`), one Durable Object per ID | stored `owner` key; per socket a readyState and an attachment (`authed` and key for hosts, `closedByServer` for viewers) | accept host or viewer, auth, relay, kick, close and error events | hosts and viewers by WebSocket | `authenticate` awaits the signature check between reading and writing; close events come late; frames of closed sockets still arrive; the object restarts | one waiting host, one viewer; the ID never changes hands; nothing of one viewer is taken for another's; a session ends with its host |
| Worker (`signaling/src/index.ts`, `rate-limit.ts`) | fixed-window counters per IP and per ID | route, count, claim a random ID up to 5 times | room, counters | awaits between counting, claiming and the room; window boundary | at most twice the limit in any window's length, nobody refused who did not use it up; an ID has one device |
| Guess limiter (`attempts.rs`) | consecutive failures, failures on the code, `wait_until` | `check`, `record_failure`, `record_success` | `session.rs` | exponent, cap and rotation boundaries; what a reset loses | a guesser is slowed by the whole series, also across codes; the failure that makes it five replaces the code |
| Host attempt (`session.rs`) | code, limiter, stage of the attempt, link queue | `serve_next`, `attempt`, `handshake`, `wait_approval`, `reject_decision`, `serve_pings` | room, channel, prompt | messages name no viewer: those of earlier viewers are still queued, and Kick and Reply may reach a later one; each wait has a deadline | the attempt serves the viewer it began with; only a code holder reaches the user; one session per code; the host always comes back |
| Viewer (`connect.rs`, `apps/viewer`) | stage, link, channel | `connect`, `handshake`, `ping` | room, channel | host or peer goes away at any stage; the link must be dropped on each way out | believes in a session only if the host accepted it; frees the slot |
| Approval prompt (`main.rs:113-176`) | `reading`, `asked_at`, two channels, a reader thread | `answer`, `end_question` | `session.rs`, standard input | a blocking read outlives its question | a line decides the question it was typed for, and no other |
| Host main loop (`main.rs:46-111`) | shown code | serve, show, run the session | all of the above | ends when signaling drops | shows the code that is current |
| Control channel (`crates/transport/src/channel.rs`) | queue, closed flags | `wait_open`, `next`, `send`, `close`, drop | peer | opening, data and close in one poll; what a drop loses | what arrived is read in order and to the end; Closed comes last |
| WebSocket link (`link.rs`) | socket, read timeout, close code | `connect`, `send`, `recv` with timeout | room | timeout in the middle of a frame; a deadline over several reads; a line that ends without a close | order kept, close last and with its code, deadline kept up to a bound |
| Registration client (`register.rs`) | none kept | challenge, sign, registered | Worker, room | gives up while its auth is under way; takeover and restart meanwhile | who is told registered is the waiting host; who gave up is not |
| Auth (`crates/auth`): PAKE, sealing, Hello | session keys, nonce counters | start, respond, finish, confirm, seal, open, make and verify a Hello | attempt and viewer | messages of other sessions, the other direction, again or late | keys, streams and identities belong to one pair of ends |
| Peer (`peer.rs`) | str0m instance, UDP sockets | offer, answer, poll, send | network | I/O | - |
| FakeHub (`fake_signal.rs`) | in-memory room for tests: one slot with a generation, a queue per link | `new`, `viewer`, both links' `send`, `recv`, drop | tests | where it differs from the room | - |

Spikes, `tools/` and the workflows are experiments and scripts, not parts of
the program.

## Modules

* **HostRoom** is `host-room.ts`. A handler is one step, since JavaScript runs
  one at a time; `authenticate` is two, AuthFrame up to its `await` and
  RejectAuth or ConfirmAuth after it. `verifying` counts the calls in between,
  so authentications of one or more connections overlap in any way. `ready` is
  the readyState the handlers see, with "closing" for a socket that is no longer
  OPEN and whose close event has not run; frames are delivered in both, since
  the client may have sent them before it saw the close. `out` is what the
  server sent. Two switches are about what the source does not say or hosts
  choose: SplitClose, whether readyState changes before the close event of a
  client's close runs, and HostMisbehaves, whether hosts send frames the server
  answers with a close. `viewer` and `from` in messages are there for the
  properties; no handler reads them.
* **Rendezvous** is the abstract room: an owner, a waiting host, a viewer, and
  five steps. HostRoom implements it (`ImplementsRendezvous`) with `authedHost()`
  and `openViewer()` as the refinement mapping. HostVanishes is
  in it because the code has it: a connection that is gone by the time its
  signature is checked still ends its predecessor.
* **MCHostRoom** adds the symmetry of sockets and keys. It is used with safety
  properties only.
* **RateLimit** is `rate-limit.ts` with the buckets `index.ts` uses. `log`, `base`
  and `pbase` are history: when calls were let through, and how many had been
  when this window and the one before it began.
* **Registration** puts `register.rs`, the Worker's `fetch` and HostRoom (by
  INSTANCE) together for one ID. The rate limiter's answer is either; between it
  and the room, and between the tries of the claim loop, other requests run. A
  random ID is this one or another; a client that gets another one is out of
  this room's sight ("elsewhere").
* **AttemptLimiter** is `attempts.rs` with the calls `session.rs` makes, in
  exact time: RetryAfter rounds the same way the code does. Its constants have
  the code's values in their comments.
* **FirstConnection** puts `session.rs`, `connect.rs` and HostRoom (by
  INSTANCE, its owner and authentication settled) together: frames to the
  server queue in `up`, messages to the clients in `out`, data channel messages
  in `chan`. Cryptography is symbolic: a Reply opens for the viewer whose Start
  it answers if both have the same code, a Confirm verifies likewise. Rogues are
  viewers that run `connect` and also send frames of a fixed set that `connect`
  would not, and that need not go on or leave. Each wait has a
  deadline in the code, so a wait may run out at any time in the model. The
  limiter's wait is a flag here; AttemptLimiter has its arithmetic.
* **Pipe** is what FirstConnection and Registration take a transport for: a
  queue that loses nothing in the middle, whose end comes last and keeps its
  code; a broken line may cut off its tail.
* **Link** is `link.rs`: `connect` with the URL rule, `recv` as a call with
  steps - the top of its loop, which arms the read timeout with what is left,
  and the reads of the socket inside tungstenite, several for one frame - and
  `send`. Implements Pipe.
* **Channel** is `channel.rs` on `peer.rs`, both ends of one connection. str0m
  is driven only inside `poll`, so messages move only while an end is in
  `wait_open` or `next`; a poll takes all there is. Implements Pipe in both
  directions.
* **SecureSession** is `pake.rs`, `sealed.rs` and `identity.rs` for any number of
  viewers and attempts. Everything ever sent may be delivered to anyone at any
  time, as the room names no addressee. A session key is the record of what
  SPAKE2 and the key derivation put into it; an end stands for its point, its
  device key and its DTLS fingerprint. MCSecureSession adds the symmetry.
* **Approver** is the prompt of `main.rs`, one step per call of `answer()` and
  three per line in the reader thread: it takes the request, `read_line`
  returns, it stamps and sends. The clock is the number of questions shown,
  which is all that `at < asked_at` can tell apart.

HostRoomProofs, RegistrationProofs, RateLimitProofs, AttemptLimiterProofs,
FirstConnectionProofs, SecureSessionProofs, LinkProofs and ApproverProofs hold
the theorems. Definitions named "Mutant of
..." in a comment are plausible bugs; each shows that a property would notice.
No specification uses them.

## Runs

| Run | Shows | Bounds |
|---|---|---|
| room_general | With any clients and either reading of readyState: what is relayed to a host after `viewer_joined` is that viewer's (RelayFromAnnounced); an open viewer's host connection is still one whose close will end it (SessionWillEnd); a viewer that left by itself is reported (DepartureAnnounced) | 2 host connections, 2 viewers, one key, one auth each, one unread relay per direction |
| room_agents | With two keys racing for the ID: one waiting host, authenticated under the owner's key, owner kept. With clients that keep to the protocol: `viewer_left` is about the viewer announced last (LeftMatchesJoin), the viewer in the room is the one its host knows, and `host_left` goes to no viewer whose host is still there, above all not on the late close of a connection that was replaced (ViewerHasItsHost), and the room implements Rendezvous | the same with two keys |
| registration | A run of `register_host` that returned Ok is the room's host as long as its connection is open (RegisteredWaits); the runs that returned Ok for an ID used one key (OneDevicePerId); one that failed or ended stops being the host for good (NoGhostHost) | 2 runs, 2 keys, 1 viewer, 2 claim attempts, the ID free or bound, restarts |
| rate_limit | No window lets more than its limit through; any 2 * limit + 1 allowed calls span a window (AtMostTwicePerWindow); who is refused had the whole limit within the last window (RefusalEarned) | 2 addresses asking for 1 ID, limits 1 and 2, windows of 2 ticks, 5 instants, so that two boundaries are passed |
| limiter_backoff | The time between the first and last of k unconfirmed Replies is at least the sum of the waits (GuessRate); a code answers at most RotateAfter Replies, and RotateAfter - 1 more for each time it was confirmed (FreshCode): the Replies are counted for the code they were computed from, the last of them included, and only a new code starts the count again; RetryAfter and cap are exact | 2 ticks to a ms, 1 ms to a second, cap 4 s at exponent 3, so cap and exponent limit are passed; 40 ticks and 4 codes, so the code is replaced during a run of failures; 2 confirmations of each code, so that two runs of failures of one code follow each other |
| connect | Frames in flight both ways, viewers that leave and are followed by others: the attempt answers the viewer it began with, only code holders reach the user, a viewer in session was accepted under the code it typed, one session per code; each viewer in the room that runs `connect` gets out of it, and a rogue does or was accepted (SlotFreed); each `viewer_joined` is read (AnnouncementTaken) | 2 viewers, one a rogue, code replaced at the 2nd failure |
| link | `recv` implements Pipe over frames in pieces, pings, closes, ends of the line and reads that time out; it overruns its deadline by at most one armed timeout per piece (OverrunBounded), and never arms zero; `connect` reaches nothing remote without TLS (TypeOK) | 3 frames of 3 pieces, timeouts 0 to 3 |
| channel | Both directions implement Pipe, with data, opening and close in one poll and polls that fail; an end that keeps calling reads all that reached it (ReadToTheEnd) | 3 messages each way, 2 buffered |
| secure | Ends with keys share them pairwise, under one code and host ID (KeysPairUp); an end opens its peer's messages from the first on, in order (StreamExact); the identity shown is that peer's (IdentityIsPeers); damaged points and MACs get into no key and into nothing that is sent (TypeOK) | 2 viewers, 2 attempts, 2 codes, 2 host IDs, 2 sealed messages per end |
| approver_prompt | `reading` counts the request under way; a line typed for the open question decides it | 3 questions, 3 lines |

Two of each kind of actor are enough for the cases the hazards are about: a
predecessor, whose late frames and events are under way, and a successor; no
handler holds more than one of each. All safety properties but the channel's are
proved for any number besides. Deadlock is not checked where
the bounds stop the run: the sockets, lines, messages and ticks are used up. The
link run checks it; a link can always be called again.

These runs find what the code's documentation says violated:

| Run | Says | Does |
|---|---|---|
| connect_kick | a comment in `session.rs`: no Kick for a viewer that left, it would hit the next one | Kick is sent blind in each other case (`session.rs:290`); if the viewer leaves while it is under way the next one is closed |
| approver_typed_ahead | a comment and a test in `main.rs`: a `y` typed after a question ended does not grant the next viewer | a line is stamped after it was read, not when it was typed; one read, or stamped, after the next question is shown grants it (`main.rs:161`) |

The model also shows these behaviours, which the modules keep as they are and no
property rules out:

* a viewer the server closes for a protocol error is not reported to the host
  (`host-room.ts:148`), which waits for its next message until the step's timeout;
* a connection that has closed while its signature was checked still replaces
  the waiting host (`host-room.ts:116`), and nobody waits;
* a Reply under way to a viewer that left is forwarded to the next one, which
  reports a wrong code (`connect.rs:121`);
* a confirmed attempt that ends without a session starts the count of wrong
  entries again and keeps the code (`attempts.rs:63`);
* a frame that drips in keeps `recv` past its deadline (`link.rs:118`), up to
  OverrunBounded;
* an error of `poll_output` in the middle of `drain_output` loses the events
  drained before it (`peer.rs:126`); the callers stop at the first error, so
  nothing is read after the gap;
* a viewer that was accepted and keeps its WebSocket holds the room's one slot, and
  others get 409 (`host-room.ts:54`): the host sends no Kick after Accepted
  (`session.rs:183-186`), and the room ends no viewer by itself;
* a host connection the server has closed stays marked authed until its close
  event, and the takeover no longer sees it, as it is not OPEN: if another has
  registered meanwhile, that event ends the new one's session
  (`host-room.ts:144`). ViewerHasItsHost is about hosts that keep to the protocol,
  which the server closes only by a takeover, and that unmarks them.

## Fairness

Safety runs use none. FirstConnection's FairSpec assumes that the server handles
the frames it gets, that host and viewer run, and that their waits end, which
`recv(timeout)`, `next(deadline)` and `wait_open(deadline)` see to. Of the viewers
only those that run `connect` are scheduled: nothing makes a rogue go on, or close
its link. Nobody has to join, stay or approve, and the host agent may die. In Registration the client
runs, its 15 s steps end, frames and signature checks are handled; nobody has to
ask, leave or restart. In Channel an end that was told neither an error nor
Closed calls again, and is strongly fair in polling and receiving: a call may
time out again and again, but each polls, and str0m sends what was lost again.
In Approver both threads are scheduled; the user need not type and
`wait_approval` need not give up.

## Proofs

* **HostRoomProofs.** `TypeCorrect` is inductive as it stands. `Ownership`
  (AuthedKeyIsOwner) needs OwnerInv besides: a socket that was not accepted has
  no authentication in flight and is not authenticated, and an accepted one
  holds a key - ConfirmAuth writes `key[h]` after the await, so what it writes
  must still be the key the attachment had before. `OwnerNeverChanges` follows
  from the owner test after the await. `OneSession` (OneAuthedHost and
  OneOpenViewer) is inductive with the types: most steps open nothing
  (ShrinkingStep), ConfirmAuth unmarks whom it replaces, AcceptViewer asks first.
  `SessionsAlwaysEnd` (SessionWillEnd) rests on all three: it is the one waiting
  host that a viewer is announced to, and what ends that host - its close event,
  a takeover, a restart - closes the one viewer in the same step.
  `RelaysAreAnnounced` (RelayFromAnnounced) needs LogInv: a connection not yet
  authenticated was told of nobody, and the viewer the waiting host was told of
  last is the connected one; a relay is forwarded for that one only.
  `DeparturesAnnounced` uses that onGone and the announcement go to the same host.
  These hold for any clients. The others assume AgentsOnly, the settings of the
  room_agents run: hosts that send nothing the server closes them for and one
  auth frame per connection, as `register_host` does, and a runtime where a
  client's close and its event are one step. `RoomImplementsRendezvous` rests on
  AgentInv: a signature check in flight is its connection's only one, a host
  being closed is not authenticated, a viewer on its way out was closed by the
  server, a connected viewer has a waiting host. Each handler is then read off
  the sets of waiting hosts and open viewers (AbstractStep). ServedInv, that the
  last thing the waiting host was told about viewers is that the connected one
  joined, gives `DeparturesMatchAnnouncements` and, with ToldInv - who was told
  `host_left` did join, and no waiting host was told of it - `ViewersHaveTheirHost`.
* **RegistrationProofs.** RegInv says of each run of `register_host` that its
  connection carries the key it asked with and that `registered` - queued, read
  or remembered - was said under the owner's key, and while the connection is
  open only to the authenticated host, of which there is one. The room's
  handlers, reached through INSTANCE, are gone through once more for it, since
  the clients share their state. `RegisteredHostWaits` and `IdHasOneDevice`
  follow; the second because the owner, once set, stays.
* **RateLimitProofs.** WindowInv says of each bucket that the log falls into
  three parts: up to `pbase` everything is a whole window older than the present
  window; from there to `base` are at most Limit calls of the window before; and
  after `base` are the calls of this window, as many as were counted up to Limit.
  Two windows cannot hold 2 * Limit + 1 calls, hence `BurstBounded`; a full
  window holds its Limit, hence `RefusalsEarned`. Without the window before it
  would not be inductive.
* **AttemptLimiterProofs.** LimiterInv ties the two counters and `wait_until` to
  the Replies really sent: the wait counts from the last one. From it follow
  `LimiterTypes`, `LockoutAlwaysBounded` and `RepliesSpaced`. `FreshCodeAlways` adds
  CodeInv: the Replies computed from the present code are at most its count of
  failures and RotateAfter - 1 more for each confirmation, which clears that count.
  `RetryAfterAlwaysSuffices` adds the rounding: milliseconds rounded up are enough
  and one less is not. `GuessRateHolds` adds SeriesInv, that the last Reply is as
  late as all the backoffs together. The sum, TotalWait, is a recursive function;
  that it satisfies its own equation is proved from series of any finite length,
  by induction.
* **FirstConnectionProofs.** ConnectionInv has four parts besides the types.
  HostInv: what the attempt knows at each stage. WireInv: a frame on its way is
  its sender's own - a Confirm carries the code its user typed, or none that fits
  - and the host passes Confirm only for a viewer with the attempt's code, hence
  `AskedForCodeHolders`. CodeInv: codes of sessions lie behind the current one and
  the running attempt's code is not among them, though a code can be replaced
  while an attempt still runs with it; who was told "accepted" has a session,
  hence `SessionsAgree` and `CodeGoodOnce`. OrderInv: each relay in the host's
  queue is from the viewer announced last before it, in the queue or by the
  announcement the attempt began with, and so is all that the connected viewer can
  still send. Since a Start is answered only while no further announcement was
  read, `AttemptsServeTheirViewer`. The steps of server, host and viewers are first
  reduced to what they do to each queue (ServerEffect, HostMove, ViewerEffect), so
  that each part of the invariant is shown for those few effects.
* **SecureSessionProofs.** SecureInv says that everything in flight is Genuine: a
  Reply carries a MAC under its attempt's own key, a Confirm one under its
  viewer's, a sealed message its sealer's key and a counter already used, a Hello
  its maker's key and the fingerprint its maker was sent. It holds because keys
  are set once, counters grow and the first message opened stays (Kept, proved
  of every step). An end that accepts a MAC, seal or statement then shares a key
  with the one that made it; since both points are in the key, that is one end.
  `SessionTypes` reads from Genuine that all that was sent has its type.
* **LinkProofs.** TimingInv: while `recv` reads, what was armed less what is left
  of the deadline and what this read has waited is at most `part * armed`. A new
  piece starts the read's wait again, which is where the overrun comes from.
  FramesInv types the wire. `LinkTypes` includes that zero is never armed
  and that nothing remote is dialed in the clear.
  `LinkImplementsPipe` maps the pipe's queue to the data frames of the wire
  (DataOf) and needs PipeInv: a close is the last frame of the wire, nothing is
  left once the reader knows of the end, and the line of a terminated connection
  brings nothing more. What DataOf makes of a wire that grows, is read from or is
  cut off is proved by induction on its length (DataOfAppend, DataOfTail,
  DataOfCut).
* **ApproverProofs.** `OneRequest`: the request in the channel, the reader at
  work and the answer in the channel hand over to each other, so their number is
  `reading`; QueuesInv types the queues.

Induction is a fact about sets here: a set of naturals with 0 and the successor of
each of its members is Nat (SetInduction), from the well-foundedness of < and the
least element WFMin gives. The library's induction theorems take an operator,
which the provers cannot instantiate.

The assumptions are those the modules declare: bounds are numbers, markers such as
None are none of what they stand beside, frames of different kinds are different.
ShiftAssumption, that a power of two is a positive number, stands for arithmetic the
provers do not have; every run of AttemptLimiter evaluates it. The invariants of the
room under AgentsOnly, of registration, the first connection and the link were
checked by TLC on the instances of those runs before they were proved.

Only model-checked: liveness (SlotFreed, AnnouncementTaken, UserHeard,
NoGhostHost, ReadToTheEnd), which is out of the prover's reach, and that Channel
implements Pipe: `absorb` filters its events with SelectSeq, of which the provers
know nothing.

## Not modelled

The arithmetic of SPAKE2, ChaCha20-Poly1305 and Ed25519 (what they promise is
taken symbolically); str0m, ICE, SDP and sockets under `poll`, and tungstenite
and TCP under `recv`, which are external and modelled by what the code sees of
them; encodings, name and ID shapes, path matching, argument parsing and what is
printed; the signature over the reconnect key, which nothing reads yet; the u32
counters of the limiter and the u64 counters of the seals, which would take
longer than a lifetime to overflow. Spikes, tools and workflows are not part of
the program, nor is FakeHub (`fake_signal.rs`), the tests' in-memory room: it
differs from the room in that a new viewer replaces the old one, where the room
answers 409, and in that one is let in when the host is gone. A host that registers again is a new run of `register_host`; the
host program itself never does.

## Plan

Done: HostRoom and Rendezvous, AttemptLimiter, FirstConnection, Approver; then
RateLimit and Registration (the Worker), Pipe, Link and Channel, SecureSession,
and the theorems above, which leave one safety property to TLC.

What is worth proving next: that Channel implements Pipe in both directions. The
filter would be written as the function DataOf is in Link, and the lemmas about it
hold for any test of a frame.
